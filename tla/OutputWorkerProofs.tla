------------------------- MODULE OutputWorkerProofs -------------------------
(***************************************************************************)
(* Proofs about the daemon's worker, for any number of targets, of         *)
(* connections and of requests; and about the fixture library the daemon   *)
(* starts from, for any number of fixtures and of calls of the frontend.   *)
(* The two share no state.                                                 *)
(***************************************************************************)
EXTENDS OutputWorker, FixtureLibrary, FiniteSetTheorems, TLAPS

HandlerRecords == [pc : {"idle", "lock", "stop", "start"}, target : Targets \cup {"none"},
                   setting : Settings]

\* every request not yet answered has a worker still to start
Pending == {h \in Handlers : handler[h].pc # "idle"}
WorkersLeft == worker + Cardinality(Pending) + requests = MaxRequests + 1

\* d.mu is held from the change of the map to the start of the new worker
LockHeld == \A h \in Handlers : lock = h <=> handler[h].pc \in {"stop", "start"}

\* no worker but the latest has an open sender, and that one has none while it
\* is being replaced
OldAreClosed ==
    /\ \A w \in Workers, t \in Targets : socket[w][t] = "open" => w = worker
    /\ (\E h \in Handlers : handler[h].pc = "start") =>
            \A t \in Targets : socket[worker][t] # "open"

\* a send is of a worker that was started, to a target that it has enabled,
\* and the only one of that worker to that target
SendsAreOwn ==
    /\ \A s \in sends : s.worker <= worker /\ config[s.worker][s.target] = "on"
    /\ \A s1, s2 \in sends : s1.worker = s2.worker /\ s1.target = s2.target => s1 = s2

\* while nobody changes the targets the worker has the daemon's
ConfigIsCurrent == lock = Free => config[worker] = targets

WInv ==
    /\ TypeOK
    /\ WorkersLeft
    /\ LockHeld
    /\ OldAreClosed
    /\ SendsAreOwn
    /\ ConfigIsCurrent
    /\ OneWorkerTicks

-----------------------------------------------------------------------------
\* The new worker of a request is one of Workers, and Workers are numbers.
LEMMA WorkersAreNat == Workers \subseteq Nat /\ 1 \in Workers
BY WorkerAssumption DEF Workers

\* Connections that are being served are finitely many.
LEMMA PendingFinite == IsFiniteSet(Pending) /\ Cardinality(Pending) \in Nat
BY WorkerAssumption, FS_Subset, FS_CardinalityType DEF Pending

\* The worker that a replacement starts is a new one.
LEMMA NextWorker ==
    ASSUME TypeOK, WorkersLeft, NEW h \in Handlers, handler[h].pc # "idle"
    PROVE  worker + 1 \in Workers
<1>1. h \in Pending
    BY DEF Pending
<1>2. Cardinality(Pending) # 0
    BY <1>1, PendingFinite, FS_EmptySet
<1> QED
    BY <1>2, PendingFinite, WorkerAssumption DEF TypeOK, WorkersLeft, Workers

\* A connection that comes to be served, or ends, is counted.
LEMMA PendingChanges ==
    ASSUME NEW h \in Handlers, handler \in [Handlers -> HandlerRecords], NEW r \in HandlerRecords,
           handler' = [handler EXCEPT ![h] = r]
    PROVE  /\ handler[h].pc = "idle" /\ r.pc # "idle"
                => Cardinality(Pending') = Cardinality(Pending) + 1
           /\ handler[h].pc # "idle" /\ r.pc = "idle"
                => Cardinality(Pending') = Cardinality(Pending) - 1
           /\ handler[h].pc # "idle" /\ r.pc # "idle" => Pending' = Pending
<1>1. ASSUME handler[h].pc = "idle", r.pc # "idle"
      PROVE  Cardinality(Pending') = Cardinality(Pending) + 1
  <2>1. Pending' = Pending \cup {h} /\ h \notin Pending
    BY <1>1 DEF Pending
  <2> QED
    BY <2>1, PendingFinite, FS_AddElement
<1>2. ASSUME handler[h].pc # "idle", r.pc = "idle"
      PROVE  Cardinality(Pending') = Cardinality(Pending) - 1
  <2>1. Pending' = Pending \ {h} /\ h \in Pending
    BY <1>2 DEF Pending
  <2> QED
    BY <2>1, PendingFinite, FS_RemoveElement
<1>3. ASSUME handler[h].pc # "idle", r.pc # "idle" PROVE Pending' = Pending
    BY <1>3 DEF Pending
<1> QED
    BY <1>1, <1>2, <1>3

\* The daemon as Run starts it.
LEMMA InitWInv == Init => WInv
<1> SUFFICES ASSUME Init PROVE WInv
    OBVIOUS
<1>a. /\ targets \in [Targets -> Settings] /\ lock = Free /\ worker = 1 /\ ticking = {1}
      /\ config = [w \in Workers |-> targets] /\ sends = {}
      /\ handler = [h \in Handlers |-> HandlerIdle] /\ requests = MaxRequests
      /\ changes = MaxFrames /\ frame = NoFrame /\ run = "serving"
      /\ wire = [t \in Targets |-> "none"]
    BY DEF Init
<1>c. PICK failed \in SUBSET Dialled(targets) :
         /\ Cardinality(failed) <= MaxErrors
         /\ errors = MaxErrors - Cardinality(failed)
         /\ socket = [w \in Workers |-> IF w = 1 THEN Senders(targets, failed) ELSE Closed]
    BY DEF Init
<1>d. Senders(targets, failed) \in [Targets -> {"none", "open", "closed"}]
    BY DEF Senders
<1>e. Cardinality(failed) \in Nat
    BY WorkerAssumption, FS_Subset, FS_CardinalityType DEF Dialled
<1>b. \A h \in Handlers : handler[h].pc = "idle"
    BY <1>a DEF HandlerIdle
<1>1. TypeOK
  <2>1. handler \in [Handlers -> HandlerRecords]
    BY <1>a DEF HandlerIdle, HandlerRecords, Settings
  <2>2. health \in [Targets -> [enabled : Settings, reachable : BOOLEAN]]
    BY <1>a DEF Init, Configured, Unknown
  <2>3. socket \in [Workers -> [Targets -> {"none", "open", "closed"}]]
    BY <1>c, <1>d DEF Closed
  <2>4. worker \in Workers /\ ticking \subseteq Workers
    BY <1>a, WorkersAreNat
  <2>5. requests \in 0 .. MaxRequests /\ errors \in 0 .. MaxErrors /\ changes \in 0 .. MaxFrames
    BY <1>a, <1>c, <1>e, WorkerAssumption
  <2>6. config \in [Workers -> [Targets -> Settings]] /\ wire \in [Targets -> Frames \cup {"none"}]
    BY <1>a
  <2> QED
    BY <1>a, <2>1, <2>2, <2>3, <2>4, <2>5, <2>6 DEF TypeOK, HandlerRecords, Frames
<1>2. WorkersLeft
  <2>1. Pending = {}
    BY <1>b DEF Pending
  <2> QED
    BY <1>a, <2>1, FS_EmptySet, WorkerAssumption DEF WorkersLeft
<1>3. LockHeld
    BY <1>a, <1>b, WorkerAssumption DEF LockHeld
<1>4. OldAreClosed
    BY <1>a, <1>b, <1>c DEF OldAreClosed, Closed
<1>5. SendsAreOwn /\ ConfigIsCurrent /\ OneWorkerTicks
    BY <1>a, <1>b, WorkersAreNat DEF SendsAreOwn, ConfigIsCurrent, OneWorkerTicks
<1> QED
    BY <1>1, <1>2, <1>3, <1>4, <1>5 DEF WInv

\* Stopping the latest worker, with the lock held by its caller or free.
LEMMA StopCloses ==
    ASSUME WInv, Stop
    PROVE  /\ worker' = worker /\ config' = config
           /\ ticking' = {}
           /\ socket' \in [Workers -> [Targets -> {"none", "open", "closed"}]]
           /\ \A w \in Workers, t \in Targets : socket'[w][t] # "open"
<1>a. /\ socket \in [Workers -> [Targets -> {"none", "open", "closed"}]] /\ worker \in Workers
      /\ ticking \subseteq {worker}
    BY DEF WInv, TypeOK, OneWorkerTicks
<1> DEFINE closed == [t \in Targets |->
                        IF socket[worker][t] = "open" THEN "closed" ELSE socket[worker][t]]
<1>1. closed \in [Targets -> {"none", "open", "closed"}] /\ \A t \in Targets : closed[t] # "open"
    BY <1>a
<1>2. socket' = [socket EXCEPT ![worker] = closed]
    BY DEF Stop
<1> HIDE DEF closed
<1>3. socket' \in [Workers -> [Targets -> {"none", "open", "closed"}]]
    BY <1>a, <1>1, <1>2
<1>4. \A w \in Workers, t \in Targets : socket'[w][t] # "open"
    BY <1>a, <1>1, <1>2 DEF WInv, OldAreClosed
<1> QED
    BY <1>a, <1>3, <1>4 DEF Stop

\* Every step of the daemon keeps the invariant.
LEMMA NextWInv == WInv /\ [Next]_vars => WInv'
<1> SUFFICES ASSUME WInv, [Next]_vars PROVE WInv'
    OBVIOUS
<1>a. /\ handler \in [Handlers -> HandlerRecords] /\ worker \in Workers /\ worker \in Nat
      /\ requests \in 0 .. MaxRequests /\ errors \in 0 .. MaxErrors /\ changes \in 0 .. MaxFrames
      /\ MaxRequests \in Nat /\ MaxErrors \in Nat /\ MaxFrames \in Nat
      /\ Cardinality(Pending) \in Nat
    BY WorkerAssumption, WorkersAreNat, PendingFinite DEF WInv, TypeOK, HandlerRecords
<1>b. HandlerIdle \in HandlerRecords /\ HandlerIdle.pc = "idle"
    BY DEF HandlerIdle, HandlerRecords, Settings
<1>1. ASSUME NEW h \in Handlers, NEW t \in Targets, NEW setting \in {"on", "off"},
             Accept(h, t, setting)
      PROVE  WInv'
  <2> DEFINE r == [pc |-> "lock", target |-> t, setting |-> setting]
  <2>1. r \in HandlerRecords /\ r.pc = "lock"
    BY DEF HandlerRecords, Settings
  <2>2. /\ handler' = [handler EXCEPT ![h] = r] /\ handler[h].pc = "idle"
        /\ requests > 0 /\ requests' = requests - 1
        /\ UNCHANGED <<targets, lock, worker, ticking, config, socket, sends, health, frame,
                       wire, run, errors, changes>>
    BY <1>1 DEF Accept, workerVars
  <2> HIDE DEF r
  <2>3. handler' \in [Handlers -> HandlerRecords] /\ requests' \in 0 .. MaxRequests
    BY <1>a, <2>1, <2>2
  <2>4. TypeOK'
    BY <2>2, <2>3 DEF WInv, TypeOK, HandlerRecords
  <2>5. WorkersLeft'
    <3>1. Cardinality(Pending') = Cardinality(Pending) + 1
      BY <1>a, <2>1, <2>2, PendingChanges
    <3> QED
      BY <1>a, <2>2, <3>1 DEF WInv, WorkersLeft
  <2>6. \A o \in Handlers : handler'[o].pc = "start" => handler[o].pc = "start"
    BY <1>a, <2>1, <2>2
  <2>7. LockHeld'
    BY <1>a, <2>1, <2>2 DEF WInv, LockHeld
  <2>8. OldAreClosed' /\ OneWorkerTicks'
    BY <2>2, <2>6 DEF WInv, OldAreClosed, OneWorkerTicks
  <2>9. SendsAreOwn' /\ ConfigIsCurrent'
    BY <2>2 DEF WInv, SendsAreOwn, ConfigIsCurrent
  <2> QED
    BY <2>4, <2>5, <2>7, <2>8, <2>9 DEF WInv
<1>2. ASSUME NEW h \in Handlers, SetTarget(h) PROVE WInv'
  <2> DEFINE r == [handler[h] EXCEPT !.pc = "stop"]
  <2>1. r \in HandlerRecords /\ r.pc = "stop" /\ handler[h].setting \in Settings
    BY <1>a DEF HandlerRecords
  <2>2. /\ handler[h].pc = "lock" /\ lock = Free /\ lock' = h
        /\ targets' = [targets EXCEPT ![handler[h].target] = handler[h].setting]
        /\ UNCHANGED <<worker, ticking, config, socket, sends, health, frame, wire, run,
                       requests, errors, changes>>
    BY <1>2 DEF SetTarget, workerVars, boundVars
  <2>3. handler' = [handler EXCEPT ![h] = r]
    BY <1>2, <1>a DEF SetTarget, HandlerRecords
  <2> HIDE DEF r
  <2>4. handler' \in [Handlers -> HandlerRecords] /\ targets' \in [Targets -> Settings]
    BY <1>a, <2>1, <2>2, <2>3 DEF WInv, TypeOK
  <2>5. TypeOK'
    BY <2>2, <2>4 DEF WInv, TypeOK, HandlerRecords
  <2>6. WorkersLeft'
    <3>1. Pending' = Pending
      BY <1>a, <2>1, <2>2, <2>3, PendingChanges
    <3> QED
      BY <2>2, <3>1 DEF WInv, WorkersLeft
  <2>7. LockHeld'
    BY <1>a, <2>1, <2>2, <2>3, WorkerAssumption DEF WInv, LockHeld
  <2>8. \A o \in Handlers : handler'[o].pc = "start" => handler[o].pc = "start"
    BY <1>a, <2>1, <2>3
  <2>9. OldAreClosed' /\ OneWorkerTicks'
    BY <2>2, <2>8 DEF WInv, OldAreClosed, OneWorkerTicks
  <2>10. SendsAreOwn' /\ ConfigIsCurrent'
    BY <2>2, WorkerAssumption DEF WInv, SendsAreOwn, ConfigIsCurrent
  <2> QED
    BY <2>5, <2>6, <2>7, <2>9, <2>10 DEF WInv
<1>3. ASSUME NEW h \in Handlers, StopWorker(h) PROVE WInv'
  <2> DEFINE r == [handler[h] EXCEPT !.pc = "start"]
  <2>1. r \in HandlerRecords /\ r.pc = "start"
    BY <1>a DEF HandlerRecords
  <2>2. /\ handler[h].pc = "stop" /\ Stop
        /\ UNCHANGED <<targets, lock, sends, health, frame, wire, run, requests, errors, changes>>
    BY <1>3 DEF StopWorker, boundVars
  <2>3. handler' = [handler EXCEPT ![h] = r]
    BY <1>3, <1>a DEF StopWorker, HandlerRecords
  <2> HIDE DEF r
  <2>4. handler' \in [Handlers -> HandlerRecords]
    BY <1>a, <2>1, <2>3
  <2>5. TypeOK'
    BY <2>2, <2>4, StopCloses DEF WInv, TypeOK, HandlerRecords
  <2>6. WorkersLeft'
    <3>1. Pending' = Pending
      BY <1>a, <2>1, <2>2, <2>3, PendingChanges
    <3> QED
      BY <2>2, <3>1, StopCloses DEF WInv, WorkersLeft
  <2>7. LockHeld'
    BY <1>a, <2>1, <2>2, <2>3 DEF WInv, LockHeld
  <2>8. OldAreClosed' /\ OneWorkerTicks'
    BY <1>a, <2>2, StopCloses DEF OldAreClosed, OneWorkerTicks
  <2>9. SendsAreOwn' /\ ConfigIsCurrent'
    BY <2>2, StopCloses DEF WInv, SendsAreOwn, ConfigIsCurrent
  <2> QED
    BY <2>5, <2>6, <2>7, <2>8, <2>9 DEF WInv
<1>4. ASSUME NEW h \in Handlers, NEW failed \in SUBSET Targets, StartWorker(h, failed)
      PROVE  WInv'
  <2> DEFINE w == worker + 1
             opened == Senders(targets, failed)
  <2>1. w \in Workers /\ w \in Nat /\ w # worker
    BY <1>4, <1>a, NextWorker, WorkersAreNat DEF WInv, StartWorker
  <2>2. /\ handler[h].pc = "start" /\ handler' = [handler EXCEPT ![h] = HandlerIdle]
        /\ lock' = Free /\ worker' = w /\ config' = [config EXCEPT ![w] = targets]
        /\ socket' = [socket EXCEPT ![w] = opened] /\ ticking' = ticking \cup {w}
        /\ health' = Configured(health, targets) /\ errors' = errors - Cardinality(failed)
        /\ Cardinality(failed) <= errors
        /\ UNCHANGED <<targets, sends, frame, wire, run, requests, changes>>
    BY <1>4 DEF StartWorker, Start
  <2>3. opened \in [Targets -> {"none", "open", "closed"}]
    BY DEF Senders
  <2> HIDE DEF w, opened
  <2>4. Cardinality(failed) \in Nat
    BY WorkerAssumption, FS_Subset, FS_CardinalityType
  <2>5. errors' \in 0 .. MaxErrors
    BY <1>a, <2>2, <2>4
  <2>6. ticking = {} /\ \A x \in Workers, t \in Targets : socket[x][t] # "open"
    BY <2>2 DEF WInv, OneWorkerTicks, OldAreClosed
  <2>7. TypeOK'
    <3>1. handler' \in [Handlers -> HandlerRecords]
      BY <1>a, <1>b, <2>2
    <3>2. health' \in [Targets -> [enabled : Settings, reachable : BOOLEAN]]
      BY <2>2 DEF WInv, TypeOK, Configured
    <3>3. socket' \in [Workers -> [Targets -> {"none", "open", "closed"}]]
          /\ config' \in [Workers -> [Targets -> Settings]]
      BY <2>2, <2>3 DEF WInv, TypeOK
    <3> QED
      BY <2>1, <2>2, <2>5, <3>1, <3>2, <3>3 DEF WInv, TypeOK, HandlerRecords
  <2>8. WorkersLeft'
    <3>1. Cardinality(Pending') = Cardinality(Pending) - 1
      BY <1>a, <1>b, <2>2, PendingChanges
    <3>2. worker' = worker + 1 /\ requests' = requests
      BY <2>2 DEF w
    <3> QED
      BY <1>a, <3>1, <3>2 DEF WInv, WorkersLeft
  <2>9. \A o \in Handlers : handler'[o].pc \notin {"stop", "start"}
    BY <1>a, <1>b, <2>2 DEF WInv, LockHeld
  <2>10. LockHeld'
    BY <2>2, <2>9, WorkerAssumption DEF LockHeld
  <2>11. OldAreClosed'
    <3>1. \A x \in Workers, t \in Targets : x # w => socket'[x][t] # "open"
      BY <2>2, <2>6 DEF WInv, TypeOK
    <3> QED
      BY <2>2, <2>9, <3>1 DEF OldAreClosed
  <2>12. OneWorkerTicks'
    BY <2>2, <2>6, <2>9 DEF OneWorkerTicks
  <2>13. SendsAreOwn'
    <3>1. \A s \in sends : s.worker \in Workers /\ s.worker \in Nat
      BY WorkersAreNat DEF WInv, TypeOK, Sends
    <3>2. \A s \in sends : s.worker <= w /\ s.worker # w
      BY <1>a, <3>1 DEF WInv, SendsAreOwn, w
    <3>3. \A s \in sends : config'[s.worker] = config[s.worker]
      BY <2>2, <3>1, <3>2 DEF WInv, TypeOK
    <3> QED
      BY <2>2, <3>2, <3>3 DEF WInv, SendsAreOwn
  <2>14. ConfigIsCurrent'
    BY <2>1, <2>2 DEF WInv, TypeOK, ConfigIsCurrent
  <2> QED
    BY <2>7, <2>8, <2>10, <2>11, <2>12, <2>13, <2>14 DEF WInv
<1>5. ASSUME NEW w \in Workers, NEW skipped \in SUBSET Targets, Tick(w, skipped) PROVE WInv'
  <2> DEFINE launched == Launched(w, skipped)
  <2>1. /\ w \in ticking /\ sends' = sends \cup launched
        /\ Cardinality(skipped) <= errors /\ errors' = errors - Cardinality(skipped)
        /\ UNCHANGED <<targets, lock, worker, ticking, config, socket, frame, wire, handler, run,
                       requests, changes>>
    BY <1>5 DEF Tick, workerVars
  <2>c. errors' \in 0 .. MaxErrors
    <3>1. Cardinality(skipped) \in Nat
      BY WorkerAssumption, FS_Subset, FS_CardinalityType
    <3> QED
      BY <1>a, <2>1, <3>1
  <2>2. w = worker
    BY <2>1 DEF WInv, OneWorkerTicks
  <2>3. health' \in [Targets -> [enabled : Settings, reachable : BOOLEAN]]
    <3>1. \A t \in Targets : /\ health[t] \in [enabled : Settings, reachable : BOOLEAN]
                             /\ config[w][t] \in Settings
      BY DEF WInv, TypeOK
    <3>2. \A t \in Targets : [health[t] EXCEPT !.enabled = config[w][t]]
                                \in [enabled : Settings, reachable : BOOLEAN]
      BY <3>1
    <3> QED
      BY <1>5, <3>1, <3>2 DEF Tick
  <2> DEFINE Sent(t) == [worker |-> w, target |-> t, setting |-> config[w][t], frame |-> frame,
                         pc |-> "write", ok |-> FALSE]
  <2>a. \A s \in launched : \E t \in Targets : /\ s = Sent(t) /\ config[w][t] = "on"
                                                 /\ ~Busy(w, t)
    BY DEF Launched, Served, Enabled
  <2>b. \A t \in Targets : frame # NoFrame => Sent(t) \in Sends /\ Sent(t).worker = w /\ Sent(t).target = t
    BY DEF Sends, WInv, TypeOK
  <2>d. launched = {} \/ frame # NoFrame
    BY DEF Launched, Served
  <2> HIDE DEF Sent, launched
  <2>4. \A s \in launched : /\ s \in Sends /\ s.worker = w /\ config[w][s.target] = "on"
                              /\ ~Busy(w, s.target)
    BY <2>a, <2>b, <2>d
  <2>5. TypeOK'
    BY <2>1, <2>3, <2>4, <2>c DEF WInv, TypeOK
  <2>6. \A s1, s2 \in launched : s1.target = s2.target => s1 = s2
    BY <2>a, <2>b, <2>d
  <2>7. SendsAreOwn'
    <3>1. \A s \in sends' : s.worker <= worker /\ config[s.worker][s.target] = "on"
      BY <1>a, <2>1, <2>2, <2>4 DEF WInv, SendsAreOwn
    <3>2. \A s1, s2 \in sends' : s1.worker = s2.worker /\ s1.target = s2.target => s1 = s2
      BY <2>1, <2>4, <2>6 DEF WInv, SendsAreOwn, Busy
    <3> QED
      BY <2>1, <3>1, <3>2 DEF SendsAreOwn
  <2>8. WorkersLeft' /\ LockHeld' /\ OldAreClosed' /\ ConfigIsCurrent' /\ OneWorkerTicks'
    BY <2>1 DEF WInv, WorkersLeft, Pending, LockHeld, OldAreClosed, ConfigIsCurrent, OneWorkerTicks
  <2> QED
    BY <2>5, <2>7, <2>8 DEF WInv
<1>6. ASSUME NEW s \in sends, SendStep(s) PROVE WInv'
  <2>1. /\ UNCHANGED <<targets, lock, worker, ticking, config, socket, frame, handler, run,
                       requests, changes>>
    BY <1>6 DEF SendStep, Write, Record, workerVars, boundVars
  <2>2. s \in Sends
    BY DEF WInv, TypeOK
  <2>3. /\ errors' \in 0 .. MaxErrors
        /\ health' \in [Targets -> [enabled : Settings, reachable : BOOLEAN]]
        /\ wire' \in [Targets -> Frames \cup {"none"}]
    <3>1. CASE Record(s)
      <4>1. errors' = errors /\ wire' = wire /\ health' = RecordSend(health, s.target, s.setting, s.ok)
        BY <3>1 DEF Record, boundVars
      <4>2. health[s.target].reachable \/ s.ok \in BOOLEAN
        BY <2>2 DEF WInv, TypeOK, Sends
      <4>3. RecordSend(health, s.target, s.setting, s.ok)
              \in [Targets -> [enabled : Settings, reachable : BOOLEAN]]
        BY <2>2, <4>2 DEF RecordSend, WInv, TypeOK, Sends
      <4> QED
        BY <1>a, <4>1, <4>3 DEF WInv, TypeOK
    <3>2. ASSUME NEW ok \in BOOLEAN, Write(s, ok)
          PROVE  /\ errors' \in 0 .. MaxErrors /\ health' = health
                 /\ wire' \in [Targets -> Frames \cup {"none"}]
      BY <1>a, <2>2, <3>2 DEF Write, WInv, TypeOK, Sends
    <3> QED
      BY <1>6, <3>1, <3>2 DEF SendStep, WInv, TypeOK
  <2>4. \A r \in sends' : \E q \in sends : /\ r \in Sends /\ r.worker = q.worker
                                           /\ r.target = q.target
                                           /\ q # s => r = q
    <3>1. CASE Record(s)
      BY <3>1 DEF Record, WInv, TypeOK
    <3>2. ASSUME NEW ok \in BOOLEAN, Write(s, ok), NEW r \in sends'
          PROVE  \E q \in sends : /\ r \in Sends /\ r.worker = q.worker
                                  /\ r.target = q.target
                                  /\ q # s => r = q
      <4>1. r \in sends \/ r = [s EXCEPT !.pc = "record", !.ok = ok]
        BY <3>2 DEF Write
      <4>2. CASE r \in sends
        BY <4>2 DEF WInv, TypeOK
      <4>3. CASE r = [s EXCEPT !.pc = "record", !.ok = ok]
        BY <2>2, <3>2, <4>3 DEF Sends
      <4> QED
        BY <4>1, <4>2, <4>3
    <3> QED
      BY <1>6, <3>1, <3>2 DEF SendStep
  <2>5. \A r1, r2 \in sends' : r1.worker = r2.worker /\ r1.target = r2.target => r1 = r2
    <3>1. CASE Record(s)
      BY <3>1 DEF Record, WInv, SendsAreOwn
    <3>2. ASSUME NEW ok \in BOOLEAN, Write(s, ok) PROVE <2>5
      <4>1. \A r \in sends' : r \in sends \ {s} \/ r = [s EXCEPT !.pc = "record", !.ok = ok]
        BY <3>2 DEF Write
      <4>2. /\ [s EXCEPT !.pc = "record", !.ok = ok].worker = s.worker
            /\ [s EXCEPT !.pc = "record", !.ok = ok].target = s.target
        BY <2>2 DEF Sends
      <4> QED
        BY <4>1, <4>2 DEF WInv, SendsAreOwn
    <3> QED
      BY <1>6, <3>1, <3>2 DEF SendStep
  <2>6. TypeOK'
    BY <2>1, <2>3, <2>4 DEF WInv, TypeOK
  <2>7. SendsAreOwn'
    BY <2>1, <2>4, <2>5 DEF WInv, SendsAreOwn
  <2>8. WorkersLeft' /\ LockHeld' /\ OldAreClosed' /\ ConfigIsCurrent' /\ OneWorkerTicks'
    BY <2>1 DEF WInv, WorkersLeft, Pending, LockHeld, OldAreClosed, ConfigIsCurrent, OneWorkerTicks
  <2> QED
    BY <2>6, <2>7, <2>8 DEF WInv
<1>7. ASSUME NEW w \in Workers, TickEnds(w) PROVE WInv'
  <2>1. /\ ticking' \subseteq ticking
        /\ UNCHANGED <<targets, lock, worker, config, socket, sends, health, frame, wire, handler,
                       run, requests, errors, changes>>
    BY <1>7 DEF TickEnds, boundVars
  <2> QED
    BY <2>1 DEF WInv, TypeOK, WorkersLeft, Pending, LockHeld, OldAreClosed, SendsAreOwn,
            ConfigIsCurrent, OneWorkerTicks
<1>8. ASSUME NEW f \in Frames \cup {NoFrame}, ChangeFrame(f) PROVE WInv'
  <2>1. /\ frame' \in Frames \cup {NoFrame} /\ changes' \in 0 .. MaxFrames
        /\ UNCHANGED <<targets, lock, worker, ticking, config, socket, sends, health, wire, handler,
                       run, requests, errors>>
    BY <1>8, <1>a DEF ChangeFrame, workerVars
  <2> QED
    BY <2>1 DEF WInv, TypeOK, WorkersLeft, Pending, LockHeld, OldAreClosed, SendsAreOwn,
            ConfigIsCurrent, OneWorkerTicks
<1>9. CASE Cancel
  <2>1. /\ run' = "cancelled"
        /\ UNCHANGED <<targets, lock, worker, ticking, config, socket, sends, health, frame, wire,
                       handler, requests, errors, changes>>
    BY <1>9 DEF Cancel, workerVars, boundVars
  <2> QED
    BY <2>1 DEF WInv, TypeOK, WorkersLeft, Pending, LockHeld, OldAreClosed, SendsAreOwn,
            ConfigIsCurrent, OneWorkerTicks
<1>10. CASE ShutDown
  <2>1. /\ Stop /\ run' = "returned"
        /\ UNCHANGED <<targets, lock, sends, health, frame, wire, handler, requests, errors, changes>>
    BY <1>10 DEF ShutDown, boundVars
  <2>2. TypeOK'
    BY <2>1, StopCloses DEF WInv, TypeOK
  <2>3. WorkersLeft' /\ LockHeld' /\ SendsAreOwn' /\ ConfigIsCurrent'
    BY <2>1, StopCloses DEF WInv, WorkersLeft, Pending, LockHeld, SendsAreOwn, ConfigIsCurrent
  <2>4. OldAreClosed' /\ OneWorkerTicks'
    BY <1>a, <2>1, StopCloses DEF OldAreClosed, OneWorkerTicks
  <2> QED
    BY <2>2, <2>3, <2>4 DEF WInv
<1>11. CASE UNCHANGED vars
    BY <1>11 DEF vars, WInv, TypeOK, WorkersLeft, Pending, LockHeld, OldAreClosed, SendsAreOwn,
            ConfigIsCurrent, OneWorkerTicks
<1> QED
    BY <1>1, <1>2, <1>3, <1>4, <1>5, <1>6, <1>7, <1>8, <1>9, <1>10, <1>11
       DEF Next, Request, HandlerStep, SendTo, Ticks

\* The invariant holds in every behaviour of the daemon.
THEOREM WorkerInvariance == Spec => []WInv
BY InitWInv, NextWInv, PTL DEF Spec

\* However many connections replace the worker, one worker ticks, one send to a
\* target can still reach the wire, and a disabled target is sent nothing.
THEOREM AlwaysServedByOne == Spec => []ServedByOne
<1>1. ASSUME WInv PROVE ServedByOne
  <2>1. \A s \in Live : /\ s \in sends /\ s.worker = worker /\ s.target \in Targets
                        /\ config[worker][s.target] = "on"
    BY <1>1 DEF Live, WInv, TypeOK, Sends, OldAreClosed, SendsAreOwn
  <2>2. OneLiveSend
    BY <1>1, <2>1 DEF OneLiveSend, WInv, SendsAreOwn
  <2>3. DisabledIsSilent
    BY <1>1, <2>1 DEF DisabledIsSilent, WInv, ConfigIsCurrent
  <2> QED
    BY <1>1, <2>2, <2>3 DEF ServedByOne, WInv
<1> QED
    BY <1>1, WorkerInvariance, PTL

-----------------------------------------------------------------------------
(* The fixture library: what is known of its calls *)

\* where a call may be
CallPcs ==
  {"idle", "makers", "fixtures", "fetch", "import path", "import", "inspect", "copy path", "copy", "register",
   "destination", "stat", "rename", "forget", "remove"}

\* a preview that was called and has no path yet
Pathless == {"import path", "inspect", "copy path"}

\* a preview that has its path to itself
Fresh == {"import", "copy", "register"}

\* a call about a preview that was shown
Held == {"destination", "stat", "rename", "forget", "remove"}

Shows == Definitions \cup {NoDefinition}

CallType ==
  [pc : CallPcs, of : {"none"} \cup Indexes \cup DOMAIN Catalog \cup DOMAIN Picks, token : 0..MaxCalls,
   overwrite : BOOLEAN, seen : Shows, dest : Names \cup {NoName}]

LibraryTypes ==
  /\ library \in [Names -> Shows]
  /\ picked \in [DOMAIN Picks -> Definitions]
  /\ staged \in [Tokens -> Shows \cup {Half}]
  /\ previewSeq \in 0..MaxCalls
  /\ registry \in [Tokens -> Names \cup {NoName}]
  /\ shown \in [Tokens -> Shows]
  /\ index \in [Indexes -> {"none", "failed", "fetched"}]
  /\ indexLock \in [Indexes -> Calls \cup {Nobody}]
  /\ fetches \in [Indexes -> Nat]
  /\ call \in [Calls -> CallType]
  /\ spent \in [calls : 0..MaxCalls, troubles : 0..MaxTroubles]

\* every preview takes a number for which it was called
PathsLeft == previewSeq + Cardinality({c \in Calls : call[c].pc \in Pathless}) <= spent.calls

\* What a call knows: the lock it fetches under, the file of its own until it is
\* shown, and afterwards what it read of the registry and the library.
CallOf(c) ==
  LET k == call[c]   t == call[c].token IN
  /\ k.pc = "fetch" => k.of \in Indexes /\ indexLock[k.of] = c /\ index[k.of] # "fetched"
  /\ k.pc \in {"import path", "import"} => k.of \in DOMAIN Catalog
  /\ k.pc \in {"inspect", "copy path", "copy"} => k.of \in DOMAIN Picks
  /\ k.pc \in {"copy path", "copy", "register"} =>
       k.seen \in Definitions /\ k.seen.valid /\ k.dest \in Names
  /\ k.pc \in Fresh => t \in 1..previewSeq /\ registry[t] = NoName /\ shown[t] = NoDefinition
  /\ k.pc \in {"import", "copy"} => staged[t] = NoDefinition
  /\ k.pc = "register" => staged[t] \in Definitions /\ (t \notin torn => staged[t] = k.seen)
  /\ k.pc \in Held => t \in Tokens /\ shown[t] # NoDefinition
  /\ k.pc \in {"stat", "rename"} => k.dest \in Names
  /\ k.pc = "rename" /\ ~k.overwrite => k.seen = NoDefinition
  /\ k.pc = "forget" => staged[t] = NoDefinition
  /\ k.pc = "remove" => registry[t] = NoName

\* no two previews have the same file
OwnPaths ==
  \A c, d \in Calls :
    c # d /\ call[c].pc \in Fresh /\ call[d].pc \in Fresh => call[c].token # call[d].token

\* What is staged under a token is what was shown under it, and the registry
\* names it, but for a call that is about to say so or to clear it away.
TokenOf(t) ==
  /\ t > previewSeq => staged[t] = NoDefinition /\ registry[t] = NoName /\ shown[t] = NoDefinition
  /\ shown[t] # NoDefinition =>
       /\ shown[t].valid
       /\ staged[t] \in Shows
       /\ t \notin torn => staged[t] \in {NoDefinition, shown[t]}
  /\ registry[t] # NoName => shown[t] # NoDefinition
  /\ staged[t] # NoDefinition /\ registry[t] = NoName /\ t \notin strays =>
       \E c \in Calls : call[c].token = t /\ call[c].pc \in {"register", "remove"}
  /\ staged[t] = NoDefinition /\ registry[t] # NoName /\ t \notin strays =>
       \E c \in Calls : call[c].token = t /\ call[c].pc = "forget"

\* an index was fetched once if it is there, and not at all if it is not
IndexOf(i) == fetches[i] = IF index[i] = "fetched" THEN 1 ELSE 0

\* what the library holds decodes, unless a torn preview was ever committed
LibraryDecodes == torn # {} \/ \A n \in Names : library[n] = NoDefinition \/ library[n].valid

LibraryInv ==
  /\ LibraryTypes
  /\ PathsLeft
  /\ \A c \in Calls : CallOf(c)
  /\ OwnPaths
  /\ \A t \in Tokens : TokenOf(t)
  /\ \A i \in Indexes : IndexOf(i)
  /\ LibraryDecodes
  /\ ReplacesOnlyWhenAsked

-----------------------------------------------------------------------------
(* Frames *)

\* The marks a call leaves on its token.
Marks == {"register", "remove", "forget"}

\* A call that is no longer under way.
LEMMA NoCallType == NoCall \in CallType /\ NoCall.pc = "idle"
<1>1. 0 \in 0..MaxCalls
  BY LibraryAssumption
<1> QED
  BY <1>1 DEF NoCall, CallType, CallPcs, Shows

\* What a call knows it keeps knowing while others work on other tokens, or
\* clear away what was shown under its own.
LEMMA CallKept ==
  ASSUME LibraryInv, NEW d \in Calls, call'[d] = call[d], previewSeq' \in Nat, previewSeq' >= previewSeq,
         call[d].pc = "fetch" =>
           indexLock'[call[d].of] = indexLock[call[d].of] /\ index'[call[d].of] = index[call[d].of],
         call[d].token \in Tokens =>
           \/ /\ staged'[call[d].token] = staged[call[d].token]
              /\ registry'[call[d].token] = registry[call[d].token]
              /\ shown'[call[d].token] = shown[call[d].token]
              /\ call[d].token \in torn' <=> call[d].token \in torn
           \/ /\ shown[call[d].token] # NoDefinition
              /\ shown'[call[d].token] = shown[call[d].token]
              /\ staged'[call[d].token] \in {staged[call[d].token], NoDefinition}
              /\ registry'[call[d].token] \in {registry[call[d].token], NoName}
           \/ call[d].pc \notin Fresh \cup Held
  PROVE  CallOf(d)'
<1>1. CallOf(d)
  BY DEF LibraryInv
<1> DEFINE k == call[d]
           n == call[d].token
<1>2. k.pc \in Fresh => n \in Tokens
  <2>1. previewSeq \in 0..MaxCalls /\ MaxCalls \in Nat
    BY LibraryAssumption DEF LibraryInv, LibraryTypes
  <2>2. k.pc \in Fresh => n \in 1..previewSeq
    BY <1>1 DEF CallOf
  <2> QED
    BY <2>1, <2>2 DEF Tokens
<1>3. k.pc \in Held => n \in Tokens
  BY <1>1 DEF CallOf
<1>4. previewSeq \in Nat
  BY LibraryAssumption DEF LibraryInv, LibraryTypes
<1>5. CASE k.pc \notin Fresh \cup Held
  BY <1>1, <1>5 DEF CallOf, Fresh, Held
<1>6. CASE /\ k.pc \in Fresh \cup Held
           /\ staged'[n] = staged[n] /\ registry'[n] = registry[n] /\ shown'[n] = shown[n]
           /\ n \in torn' <=> n \in torn
  <2>1. CASE k.pc \in Fresh
    <3>1. n \in 1..previewSeq'
      <4>1. n \in 1..previewSeq
        BY <1>1, <2>1 DEF CallOf
      <4> HIDE DEF n
      <4> QED
        BY <1>4, <4>1
    <3>2. k.pc \notin Held /\ k.pc \notin {"fetch", "stat", "rename", "forget", "remove"}
      BY <2>1 DEF Fresh, Held
    <3> QED
      BY <1>1, <1>6, <2>1, <3>1, <3>2 DEF CallOf
  <2>2. CASE k.pc \in Held
    <3>1. k.pc \notin Fresh \cup {"fetch", "import path", "inspect", "copy path", "import", "copy", "register"}
      BY <2>2 DEF Fresh, Held
    <3> QED
      BY <1>1, <1>6, <2>2, <3>1 DEF CallOf
  <2> QED
    BY <1>6, <2>1, <2>2
<1>7. CASE /\ k.pc \in Held
           /\ shown[n] # NoDefinition /\ shown'[n] = shown[n]
           /\ staged'[n] \in {staged[n], NoDefinition} /\ registry'[n] \in {registry[n], NoName}
  BY <1>1, <1>7 DEF CallOf, Fresh, Held
<1>8. CASE k.pc \in Fresh /\ shown[n] # NoDefinition
  BY <1>1, <1>8 DEF CallOf
<1> QED
  BY <1>2, <1>3, <1>5, <1>6, <1>7, <1>8

\* A token that nothing happens to.
LEMMA TokenKept ==
  ASSUME LibraryInv, NEW t \in Tokens, previewSeq' \in Nat, previewSeq' >= previewSeq,
         staged'[t] = staged[t], registry'[t] = registry[t], shown'[t] = shown[t],
         t \in torn' <=> t \in torn, t \in strays => t \in strays',
         \A d \in Calls : call[d].token = t /\ call[d].pc \in Marks =>
                            call'[d].token = t /\ call'[d].pc = call[d].pc
  PROVE  TokenOf(t)'
<1>1. TokenOf(t)
  BY DEF LibraryInv
<1>2. t \in Nat /\ previewSeq \in Nat
  BY LibraryAssumption DEF LibraryInv, LibraryTypes, Tokens
<1>3. t > previewSeq' => t > previewSeq
  BY <1>2
<1>4. ASSUME NEW pc \in Marks, \E d \in Calls : call[d].token = t /\ call[d].pc = pc
      PROVE  \E d \in Calls : call'[d].token = t /\ call'[d].pc = pc
  BY <1>4
<1>5. staged[t] # NoDefinition /\ registry[t] = NoName /\ t \notin strays' =>
       \E d \in Calls : call'[d].token = t /\ call'[d].pc \in {"register", "remove"}
  <2> SUFFICES ASSUME staged[t] # NoDefinition, registry[t] = NoName, t \notin strays'
               PROVE  \E d \in Calls : call'[d].token = t /\ call'[d].pc \in {"register", "remove"}
    OBVIOUS
  <2>1. PICK d \in Calls : call[d].token = t /\ call[d].pc \in {"register", "remove"}
    BY <1>1 DEF TokenOf
  <2> QED
    BY <2>1 DEF Marks
<1>6. staged[t] = NoDefinition /\ registry[t] # NoName /\ t \notin strays' =>
       \E d \in Calls : call'[d].token = t /\ call'[d].pc = "forget"
  BY <1>1 DEF TokenOf, Marks
<1> QED
  BY <1>1, <1>3, <1>5, <1>6 DEF TokenOf

\* What is left to show when one call moves.
LEMMA CallMoves ==
  ASSUME LibraryInv, NEW c \in Calls, NEW k \in CallType, call' = [call EXCEPT ![c] = k],
         LibraryTypes', PathsLeft', CallOf(c)',
         \A d \in Calls \ {c} : CallOf(d)',
         k.pc \in Fresh => \A d \in Calls \ {c} : call[d].pc \in Fresh => call[d].token # k.token,
         \A t \in Tokens : TokenOf(t)', \A i \in Indexes : IndexOf(i)',
         LibraryDecodes', ReplacesOnlyWhenAsked'
  PROVE  LibraryInv'
<1>1. call'[c] = k /\ \A d \in Calls \ {c} : call'[d] = call[d]
  BY DEF LibraryInv, LibraryTypes
<1>2. OwnPaths'
  BY <1>1 DEF LibraryInv, OwnPaths
<1>3. \A d \in Calls : CallOf(d)'
  OBVIOUS
<1> QED
  BY <1>2, <1>3 DEF LibraryInv

\* A call that starts no preview leaves the numbers as they were.
LEMMA PathsKept ==
  ASSUME LibraryInv, NEW c \in Calls, NEW k \in CallType, call' = [call EXCEPT ![c] = k],
         k.pc \in Pathless => call[c].pc \in Pathless,
         previewSeq' = previewSeq, spent'.calls = spent.calls
  PROVE  PathsLeft'
<1> DEFINE A == {d \in Calls : call[d].pc \in Pathless}
           B == {d \in Calls : call'[d].pc \in Pathless}
<1>1. B \subseteq A
  BY DEF LibraryInv, LibraryTypes
<1>2. IsFiniteSet(A)
  BY LibraryAssumption, FS_Subset, Zenon
<1>3. Cardinality(A) \in Nat /\ Cardinality(B) \in Nat /\ Cardinality(B) <= Cardinality(A)
  BY <1>1, <1>2, FS_Subset, FS_CardinalityType
<1>4. spent.calls \in Nat /\ previewSeq \in Nat
  BY LibraryAssumption DEF LibraryInv, LibraryTypes
<1>5. previewSeq + Cardinality(A) <= spent.calls
  BY DEF LibraryInv, PathsLeft
<1> HIDE DEF A, B
<1>6. previewSeq' + Cardinality(B) <= spent'.calls
  BY <1>3, <1>4, <1>5
<1> QED
  BY <1>6 DEF PathsLeft, B

\* A call that was made, and the one more it counts for.
LEMMA Making ==
  ASSUME LibraryInv, NEW c \in Calls, NEW k \in CallType, call[c].pc = "idle", spent.calls < MaxCalls,
         spent' = [spent EXCEPT !.calls = @ + 1], call' = [call EXCEPT ![c] = k], previewSeq' = previewSeq
  PROVE  spent' \in [calls : 0..MaxCalls, troubles : 0..MaxTroubles] /\ PathsLeft'
<1>4. spent \in [calls : 0..MaxCalls, troubles : 0..MaxTroubles] /\ call \in [Calls -> CallType]
      /\ previewSeq \in Nat
  BY LibraryAssumption DEF LibraryInv, LibraryTypes
<1>5. spent.calls \in 0..MaxCalls
  BY <1>4
<1>6. spent.calls + 1 \in 0..MaxCalls
  BY <1>5, LibraryAssumption
<1>7. spent' \in [calls : 0..MaxCalls, troubles : 0..MaxTroubles] /\ spent'.calls = spent.calls + 1
  BY <1>4, <1>6
<1>8. PathsLeft'
  <2> DEFINE A == {d \in Calls : call[d].pc \in Pathless}
             B == {d \in Calls : call'[d].pc \in Pathless}
  <2>1. B \subseteq A \cup {c}
    BY <1>4
  <2>2. IsFiniteSet(A)
    BY LibraryAssumption, FS_Subset, Zenon
  <2>3. c \notin A
    BY DEF Pathless
  <2>4. IsFiniteSet(A \cup {c}) /\ Cardinality(A \cup {c}) = Cardinality(A) + 1
    BY <2>2, <2>3, FS_AddElement
  <2>5. Cardinality(A) \in Nat /\ Cardinality(B) \in Nat /\ Cardinality(B) <= Cardinality(A) + 1
    BY <2>1, <2>2, <2>4, FS_Subset, FS_CardinalityType
  <2>6. previewSeq + Cardinality(A) <= spent.calls
    BY DEF LibraryInv, PathsLeft
  <2> HIDE DEF A, B
  <2>7. previewSeq' + Cardinality(B) <= spent'.calls
    BY <1>4, <1>5, <1>7, <2>5, <2>6, LibraryAssumption
  <2> QED
    BY <2>7 DEF PathsLeft, B
<1> QED
  BY <1>7, <1>8

\* A step of a call that touches no preview.
LEMMA Quiet ==
  ASSUME LibraryInv, NEW c \in Calls, NEW k \in CallType, call' = [call EXCEPT ![c] = k],
         UNCHANGED <<library, picked, staged, registry, shown, torn, strays, replaced>>,
         call[c].pc \notin Marks, previewSeq' \in 0..MaxCalls, previewSeq' >= previewSeq,
         index' \in [Indexes -> {"none", "failed", "fetched"}],
         indexLock' \in [Indexes -> Calls \cup {Nobody}], fetches' \in [Indexes -> Nat],
         spent' \in [calls : 0..MaxCalls, troubles : 0..MaxTroubles],
         \A d \in Calls \ {c} : call[d].pc = "fetch" =>
           indexLock'[call[d].of] = indexLock[call[d].of] /\ index'[call[d].of] = index[call[d].of],
         PathsLeft', CallOf(c)', \A i \in Indexes : IndexOf(i)',
         k.pc \in Fresh => \A d \in Calls \ {c} : call[d].pc \in Fresh => call[d].token # k.token
  PROVE  LibraryInv'
<1>1. call \in [Calls -> CallType] /\ call' \in [Calls -> CallType] /\ call'[c] = k
      /\ \A d \in Calls \ {c} : call'[d] = call[d]
  BY DEF LibraryInv, LibraryTypes
<1>2. LibraryTypes'
  BY <1>1 DEF LibraryInv, LibraryTypes
<1>3. previewSeq' \in Nat
  BY LibraryAssumption
<1>4. \A d \in Calls \ {c} : CallOf(d)'
  BY <1>1, <1>3, CallKept
<1>5. \A t \in Tokens : TokenOf(t)'
  BY <1>1, <1>3, TokenKept
<1>6. LibraryDecodes' /\ ReplacesOnlyWhenAsked'
  BY DEF LibraryInv, LibraryDecodes, ReplacesOnlyWhenAsked
<1> QED
  BY <1>1, <1>2, <1>4, <1>5, <1>6, CallMoves

-----------------------------------------------------------------------------
(* Searches *)

\* A call that only changes its place.
LEMMA Moving ==
  ASSUME LibraryInv, NEW c \in Calls, NEW pc \in CallPcs, Moves(c, pc)
  PROVE  \E k \in CallType :
           /\ call' = [call EXCEPT ![c] = k] /\ k.pc = pc
           /\ k.of = call[c].of /\ k.token = call[c].token /\ k.overwrite = call[c].overwrite
           /\ k.seen = call[c].seen /\ k.dest = call[c].dest
<1> DEFINE k == [call[c] EXCEPT !.pc = pc]
<1>1. call \in [Calls -> CallType] /\ call[c] \in CallType
  BY DEF LibraryInv, LibraryTypes
<1>2. call' = [call EXCEPT ![c] = k]
  BY <1>1 DEF Moves
<1>3. /\ k \in CallType /\ k.pc = pc
      /\ k.of = call[c].of /\ k.token = call[c].token /\ k.overwrite = call[c].overwrite
      /\ k.seen = call[c].seen /\ k.dest = call[c].dest
  BY <1>1 DEF CallType
<1> HIDE DEF k
<1> QED
  BY <1>2, <1>3

\* A call that knows nothing.
LEMMA Bare ==
  ASSUME NEW c \in Calls, call'[c].pc \in {"idle", "makers", "fixtures"}
  PROVE  CallOf(c)'
BY DEF CallOf, Fresh, Held

\* The answer of a call that touched nothing.
LEMMA Answers ==
  ASSUME LibraryInv, NEW c \in Calls, Answered(c), call[c].pc \notin Marks,
         UNCHANGED <<library, picked, staged, registry, shown, torn, strays, replaced, previewSeq,
                     index, indexLock, fetches>>,
         spent' \in [calls : 0..MaxCalls, troubles : 0..MaxTroubles], spent'.calls = spent.calls
  PROVE  LibraryInv'
<1>1. NoCall \in CallType /\ NoCall.pc = "idle" /\ call' = [call EXCEPT ![c] = NoCall]
  BY NoCallType DEF Answered
<1>2. call'[c] = NoCall
  BY <1>1 DEF LibraryInv, LibraryTypes
<1>3. CallOf(c)'
  BY <1>1, <1>2, Bare
<1>4. NoCall.pc \notin Pathless
  BY <1>1 DEF Pathless
<1>5. PathsLeft'
  BY <1>1, <1>4, PathsKept
<1>6. /\ index' \in [Indexes -> {"none", "failed", "fetched"}]
      /\ indexLock' \in [Indexes -> Calls \cup {Nobody}] /\ fetches' \in [Indexes -> Nat]
      /\ previewSeq' \in 0..MaxCalls /\ previewSeq' >= previewSeq
  BY LibraryAssumption DEF LibraryInv, LibraryTypes
<1>7. \A i \in Indexes : IndexOf(i)'
  BY DEF LibraryInv, IndexOf
<1>8. NoCall.pc \notin Fresh
  BY <1>1 DEF Fresh
<1> QED
  BY <1>1, <1>3, <1>5, <1>6, <1>7, <1>8, Quiet

\* The spending of a trouble.
LEMMA Troubled ==
  ASSUME LibraryInv, Trouble
  PROVE  spent' \in [calls : 0..MaxCalls, troubles : 0..MaxTroubles] /\ spent'.calls = spent.calls
<1>1. spent \in [calls : 0..MaxCalls, troubles : 0..MaxTroubles]
  BY DEF LibraryInv, LibraryTypes
<1>2. spent.troubles + 1 \in 0..MaxTroubles
  <2>1. spent.troubles \in 0..MaxTroubles /\ spent.troubles < MaxTroubles
    BY <1>1 DEF Trouble
  <2> QED
    BY <2>1, LibraryAssumption
<1>3. spent' = [spent EXCEPT !.troubles = spent.troubles + 1]
  BY DEF Trouble
<1> QED
  BY <1>1, <1>2, <1>3

\* Nothing is spent.
LEMMA Unspent ==
  ASSUME LibraryInv, spent' = spent
  PROVE  /\ spent' \in [calls : 0..MaxCalls, troubles : 0..MaxTroubles]
         /\ spent.calls \in Nat /\ spent'.calls = spent.calls
BY LibraryAssumption DEF LibraryInv, LibraryTypes

\* A call of the frontend begins, and has touched nothing yet.
LEMMA Begins ==
  ASSUME LibraryInv, NEW c \in Calls, NEW k \in CallType, call[c].pc = "idle", spent.calls < MaxCalls,
         spent' = [spent EXCEPT !.calls = @ + 1], call' = [call EXCEPT ![c] = k],
         UNCHANGED <<library, picked, staged, registry, shown, torn, strays, replaced, previewSeq,
                     index, indexLock, fetches>>,
         k.pc \notin Fresh, CallOf(c)'
  PROVE  LibraryInv'
<1>1. /\ index' \in [Indexes -> {"none", "failed", "fetched"}]
      /\ indexLock' \in [Indexes -> Calls \cup {Nobody}] /\ fetches' \in [Indexes -> Nat]
      /\ previewSeq' \in 0..MaxCalls /\ previewSeq' >= previewSeq
  BY LibraryAssumption DEF LibraryInv, LibraryTypes
<1>2. \A i \in Indexes : IndexOf(i)'
  BY DEF LibraryInv, IndexOf
<1>3. call[c].pc \notin Marks
  BY DEF Marks
<1>4. previewSeq' = previewSeq
  OBVIOUS
<1>5. spent' \in [calls : 0..MaxCalls, troubles : 0..MaxTroubles] /\ PathsLeft'
  BY <1>4, Making
<1> QED
  BY <1>1, <1>2, <1>3, <1>5, Quiet

\* A search begins.
LEMMA SearchBegins ==
  ASSUME LibraryInv, NEW c \in Calls, SearchOFL(c)
  PROVE  LibraryInv'
<1> DEFINE k == [NoCall EXCEPT !.pc = "makers", !.of = "none", !.token = 0, !.overwrite = FALSE]
<1>1. /\ call[c].pc = "idle" /\ spent.calls < MaxCalls
      /\ spent' = [spent EXCEPT !.calls = @ + 1] /\ call' = [call EXCEPT ![c] = k]
      /\ UNCHANGED <<library, picked, staged, registry, shown, torn, strays, replaced, previewSeq,
                     index, indexLock, fetches>>
  BY DEF SearchOFL, searchVars, Called, In
<1>0. 0 \in 0..MaxCalls
  BY LibraryAssumption
<1>2. k \in CallType /\ k.pc = "makers"
  BY <1>0, NoCallType DEF CallType, CallPcs
<1> HIDE DEF k
<1>3. call'[c] = k
  BY <1>1 DEF LibraryInv, LibraryTypes
<1>4. CallOf(c)'
  BY <1>2, <1>3, Bare
<1>5. k.pc \notin Fresh
  BY <1>2 DEF Fresh
<1> QED
  BY <1>1, <1>2, <1>4, <1>5, Begins

\* After an index the search goes on, or is answered.
LEMMA AfterIndexMoves ==
  ASSUME LibraryInv, NEW c \in Calls, NEW i \in Indexes, AfterIndex(c, i)
  PROVE  \E k \in CallType : call' = [call EXCEPT ![c] = k] /\ k.pc \in {"idle", "fixtures"}
<1>1. CASE i = "makers"
  <2>1. "fixtures" \in CallPcs /\ Moves(c, "fixtures")
    BY <1>1 DEF CallPcs, AfterIndex
  <2> QED
    BY <2>1, Moving
<1>2. CASE i # "makers"
  BY <1>2, NoCallType DEF AfterIndex, Answered
<1> QED
  BY <1>1, <1>2

\* An index that is there is used; one that is not is fetched under its lock.
LEMMA IndexLoads ==
  ASSUME LibraryInv, NEW c \in Calls, NEW i \in Indexes, loadOFLManufacturers(c, i)
  PROVE  LibraryInv'
<1>1. /\ call[c].pc = i /\ indexLock[i] = Nobody
      /\ UNCHANGED <<library, picked, staged, previewSeq, registry, shown, replaced, torn, strays,
                     index, fetches, spent>>
  BY DEF loadOFLManufacturers, searchVars, In
<1>2. PICK k \in CallType :
        /\ call' = [call EXCEPT ![c] = k]
        /\ \/ k.pc \in {"idle", "fixtures"} /\ UNCHANGED indexLock
           \/ /\ k.pc = "fetch" /\ k.of = i /\ index[i] # "fetched"
              /\ indexLock' = [indexLock EXCEPT ![i] = c]
  <2>1. CASE index[i] = "fetched"
    <3>1. AfterIndex(c, i) /\ UNCHANGED indexLock
      BY <2>1 DEF loadOFLManufacturers
    <3> QED
      BY <3>1, AfterIndexMoves
  <2>2. CASE index[i] # "fetched"
    <3> DEFINE k == [call[c] EXCEPT !.pc = "fetch", !.of = i]
    <3>1. call \in [Calls -> CallType] /\ call[c] \in CallType
      BY DEF LibraryInv, LibraryTypes
    <3>2. call' = [call EXCEPT ![c] = k] /\ indexLock' = [indexLock EXCEPT ![i] = c]
      BY <2>2, <3>1 DEF loadOFLManufacturers
    <3>3. k \in CallType /\ k.pc = "fetch" /\ k.of = i
      BY <3>1 DEF CallType, CallPcs
    <3> QED
      BY <2>2, <3>2, <3>3
  <2> QED
    BY <2>1, <2>2
<1>3. /\ call'[c] = k /\ indexLock \in [Indexes -> Calls \cup {Nobody}]
  BY <1>2 DEF LibraryInv, LibraryTypes
<1>4. indexLock' \in [Indexes -> Calls \cup {Nobody}]
  BY <1>2, <1>3
<1>5. CallOf(c)'
  <2>1. CASE k.pc \in {"idle", "fixtures"}
    BY <1>3, <2>1, Bare
  <2>2. CASE k.pc = "fetch" /\ k.of = i /\ index[i] # "fetched" /\ indexLock' = [indexLock EXCEPT ![i] = c]
    <3>1. indexLock'[k.of] = c /\ index'[k.of] # "fetched" /\ k.of \in Indexes
      BY <1>1, <1>3, <2>2
    <3> QED
      BY <1>3, <2>2, <3>1 DEF CallOf, Fresh, Held
  <2> QED
    BY <1>2, <2>1, <2>2
<1>6. ASSUME NEW d \in Calls \ {c}, call[d].pc = "fetch"
      PROVE  indexLock'[call[d].of] = indexLock[call[d].of] /\ index'[call[d].of] = index[call[d].of]
  <2>1. call[d].of \in Indexes /\ indexLock[call[d].of] = d
    BY <1>6 DEF LibraryInv, CallOf
  <2>2. call[d].of # i
    BY <1>1, <2>1, LibraryAssumption
  <2> QED
    BY <1>1, <1>2, <1>3, <2>1, <2>2
<1>7. /\ index' \in [Indexes -> {"none", "failed", "fetched"}] /\ fetches' \in [Indexes -> Nat]
      /\ previewSeq' \in 0..MaxCalls /\ previewSeq' >= previewSeq
  BY <1>1, LibraryAssumption DEF LibraryInv, LibraryTypes
<1>8. \A j \in Indexes : IndexOf(j)'
  BY <1>1 DEF LibraryInv, IndexOf
<1>9. k.pc \notin Fresh \cup Pathless /\ call[c].pc \notin Marks
  BY <1>1, <1>2 DEF Fresh, Marks, Pathless, Indexes
<1>10. PathsLeft'
  <2>1. spent'.calls = spent.calls /\ previewSeq' = previewSeq
    BY <1>1
  <2> QED
    BY <1>2, <1>9, <2>1, PathsKept
<1> QED
  BY <1>1, <1>2, <1>4, <1>5, <1>6, <1>7, <1>8, <1>9, <1>10, Unspent, Quiet

\* A fetch is answered, or fails; nobody else was fetching.
LEMMA IndexFetched ==
  ASSUME LibraryInv, NEW c \in Calls, NEW i \in Indexes, FetchIndex(c, i) \/ FetchIndexFails(c, i)
  PROVE  LibraryInv'
<1>1. /\ call[c].pc = "fetch" /\ call[c].of = i
      /\ UNCHANGED <<library, picked, staged, previewSeq, registry, shown, replaced, torn, strays>>
      /\ indexLock' = [indexLock EXCEPT ![i] = Nobody]
  BY DEF FetchIndex, FetchIndexFails, searchVars, In
<1>2. indexLock[i] = c /\ index[i] # "fetched"
  BY <1>1 DEF LibraryInv, CallOf
<1>3. /\ index \in [Indexes -> {"none", "failed", "fetched"}] /\ fetches \in [Indexes -> Nat]
      /\ indexLock \in [Indexes -> Calls \cup {Nobody}]
  BY DEF LibraryInv, LibraryTypes
<1>4. fetches[i] = 0 /\ \A j \in Indexes : IndexOf(j)
  BY <1>2 DEF LibraryInv, IndexOf
<1>5. /\ index' \in [Indexes -> {"none", "failed", "fetched"}] /\ fetches' \in [Indexes -> Nat]
      /\ \A j \in Indexes \ {i} : index'[j] = index[j] /\ fetches'[j] = fetches[j]
      /\ fetches'[i] = IF index'[i] = "fetched" THEN 1 ELSE 0
  <2>1. CASE FetchIndex(c, i)
    <3>1. index' = [index EXCEPT ![i] = "fetched"] /\ fetches' = [fetches EXCEPT ![i] = @ + 1]
      BY <2>1 DEF FetchIndex
    <3> QED
      BY <1>3, <1>4, <3>1
  <2>2. CASE FetchIndexFails(c, i)
    <3>1. index' = [index EXCEPT ![i] = "failed"] /\ fetches' = fetches
      BY <2>2 DEF FetchIndexFails
    <3> QED
      BY <1>3, <1>4, <3>1
  <2> QED
    BY <2>1, <2>2
<1>6. /\ \E k \in CallType : call' = [call EXCEPT ![c] = k] /\ k.pc \in {"idle", "fixtures"}
      /\ spent' \in [calls : 0..MaxCalls, troubles : 0..MaxTroubles] /\ spent'.calls = spent.calls
  <2>1. CASE FetchIndex(c, i)
    <3>1. AfterIndex(c, i) /\ spent' = spent
      BY <2>1 DEF FetchIndex
    <3> QED
      BY <3>1, AfterIndexMoves, Unspent
  <2>2. CASE FetchIndexFails(c, i)
    <3>1. Answered(c) /\ Trouble
      BY <2>2 DEF FetchIndexFails
    <3>2. call' = [call EXCEPT ![c] = NoCall]
      BY <3>1 DEF Answered
    <3> QED
      BY <3>1, <3>2, NoCallType, Troubled
  <2> QED
    BY <2>1, <2>2
<1>7. PICK k \in CallType : call' = [call EXCEPT ![c] = k] /\ k.pc \in {"idle", "fixtures"}
  BY <1>6
<1>8. CallOf(c)'
  <2>1. call'[c] = k
    BY <1>7 DEF LibraryInv, LibraryTypes
  <2> QED
    BY <1>7, <2>1, Bare
<1>9. ASSUME NEW d \in Calls \ {c}, call[d].pc = "fetch"
      PROVE  indexLock'[call[d].of] = indexLock[call[d].of] /\ index'[call[d].of] = index[call[d].of]
  <2>1. call[d].of \in Indexes /\ indexLock[call[d].of] = d
    BY <1>9 DEF LibraryInv, CallOf
  <2>2. call[d].of # i
    BY <1>2, <2>1
  <2> QED
    BY <1>1, <1>3, <1>5, <2>1, <2>2
<1>10. \A j \in Indexes : IndexOf(j)'
  BY <1>4, <1>5 DEF IndexOf
<1>11. k.pc \notin Fresh \cup Pathless /\ call[c].pc \notin Marks
  BY <1>1, <1>7 DEF Fresh, Marks, Pathless
<1>12. PathsLeft'
  <2>1. previewSeq' = previewSeq
    BY <1>1
  <2> QED
    BY <1>6, <1>7, <1>11, <2>1, PathsKept
<1>13. /\ indexLock' \in [Indexes -> Calls \cup {Nobody}]
       /\ previewSeq' \in 0..MaxCalls /\ previewSeq' >= previewSeq
  BY <1>1, <1>3, LibraryAssumption DEF LibraryInv, LibraryTypes
<1> QED
  BY <1>1, <1>5, <1>6, <1>7, <1>8, <1>9, <1>10, <1>11, <1>12, <1>13, Quiet

-----------------------------------------------------------------------------
(* Previews and commits that touch no file *)

\* A preview of the catalog begins.
LEMMA PreviewOFLBegins ==
  ASSUME LibraryInv, NEW c \in Calls, NEW ref \in DOMAIN Catalog, PreviewOFL(c, ref)
  PROVE  LibraryInv'
<1> DEFINE k == [NoCall EXCEPT !.pc = "import path", !.of = ref, !.token = 0, !.overwrite = FALSE]
<1>1. /\ call[c].pc = "idle" /\ spent.calls < MaxCalls
      /\ spent' = [spent EXCEPT !.calls = @ + 1] /\ call' = [call EXCEPT ![c] = k]
      /\ UNCHANGED <<library, picked, staged, registry, shown, torn, strays, replaced, previewSeq,
                     index, indexLock, fetches>>
  BY DEF PreviewOFL, previewVars, Called, In
<1>2. k \in CallType /\ k.pc = "import path" /\ k.of = ref
  <2>1. 0 \in 0..MaxCalls
    BY LibraryAssumption
  <2> QED
    BY <2>1, NoCallType DEF CallType, CallPcs
<1> HIDE DEF k
<1>3. call'[c] = k
  BY <1>1, <1>2 DEF LibraryInv, LibraryTypes
<1>4. CallOf(c)' /\ k.pc \notin Fresh
  BY <1>2, <1>3 DEF CallOf, Fresh, Held
<1> QED
  BY <1>1, <1>2, <1>4, Begins

\* A preview of a file begins.
LEMMA PreviewFileBegins ==
  ASSUME LibraryInv, NEW c \in Calls, NEW pick \in DOMAIN picked, PreviewFile(c, pick)
  PROVE  LibraryInv'
<1> DEFINE k == [NoCall EXCEPT !.pc = "inspect", !.of = pick, !.token = 0, !.overwrite = FALSE]
<1>1. /\ call[c].pc = "idle" /\ spent.calls < MaxCalls
      /\ spent' = [spent EXCEPT !.calls = @ + 1] /\ call' = [call EXCEPT ![c] = k]
      /\ UNCHANGED <<library, picked, staged, registry, shown, torn, strays, replaced, previewSeq,
                     index, indexLock, fetches>>
  BY DEF PreviewFile, previewVars, Called, In
<1>2. pick \in DOMAIN Picks
  BY DEF LibraryInv, LibraryTypes
<1>3. k \in CallType /\ k.pc = "inspect" /\ k.of = pick
  <2>1. 0 \in 0..MaxCalls
    BY LibraryAssumption
  <2> QED
    BY <1>2, <2>1, NoCallType DEF CallType, CallPcs
<1> HIDE DEF k
<1>4. call'[c] = k
  BY <1>1, <1>3 DEF LibraryInv, LibraryTypes
<1>5. CallOf(c)' /\ k.pc \notin Fresh
  BY <1>2, <1>3, <1>4 DEF CallOf, Fresh, Held
<1> QED
  BY <1>1, <1>3, <1>5, Begins

\* A commit begins.
LEMMA CommitBegins ==
  ASSUME LibraryInv, NEW c \in Calls, NEW t \in Tokens, NEW o \in BOOLEAN, CommitPreview(c, t, o)
  PROVE  LibraryInv'
<1> DEFINE k == [NoCall EXCEPT !.pc = "destination", !.of = "none", !.token = t, !.overwrite = o]
<1>1. /\ call[c].pc = "idle" /\ spent.calls < MaxCalls /\ shown[t] # NoDefinition
      /\ spent' = [spent EXCEPT !.calls = @ + 1] /\ call' = [call EXCEPT ![c] = k]
      /\ UNCHANGED <<library, picked, staged, registry, shown, torn, strays, replaced, previewSeq,
                     index, indexLock, fetches>>
  BY DEF CommitPreview, commitVars, Called, In
<1>2. k \in CallType /\ k.pc = "destination" /\ k.token = t
  <2>1. t \in 0..MaxCalls
    BY LibraryAssumption DEF Tokens
  <2> QED
    BY <2>1, NoCallType DEF CallType, CallPcs
<1> HIDE DEF k
<1>3. call'[c] = k
  BY <1>1, <1>2 DEF LibraryInv, LibraryTypes
<1>4. CallOf(c)' /\ k.pc \notin Fresh
  BY <1>1, <1>2, <1>3 DEF CallOf, Fresh, Held
<1> QED
  BY <1>1, <1>2, <1>4, Begins

\* A call goes on and has touched nothing.
LEMMA GoesOn ==
  ASSUME LibraryInv, NEW c \in Calls, NEW k \in CallType, call' = [call EXCEPT ![c] = k],
         UNCHANGED <<library, picked, staged, registry, shown, torn, strays, replaced, previewSeq,
                     index, indexLock, fetches, spent>>,
         call[c].pc \notin Marks, k.pc \notin Fresh, k.pc \in Pathless => call[c].pc \in Pathless,
         CallOf(c)'
  PROVE  LibraryInv'
<1>1. /\ index' \in [Indexes -> {"none", "failed", "fetched"}]
      /\ indexLock' \in [Indexes -> Calls \cup {Nobody}] /\ fetches' \in [Indexes -> Nat]
      /\ previewSeq' \in 0..MaxCalls /\ previewSeq' >= previewSeq
  BY LibraryAssumption DEF LibraryInv, LibraryTypes
<1>2. \A i \in Indexes : IndexOf(i)'
  BY DEF LibraryInv, IndexOf
<1>3. spent'.calls = spent.calls /\ previewSeq' = previewSeq
  OBVIOUS
<1>4. PathsLeft'
  BY <1>3, PathsKept
<1> QED
  BY <1>1, <1>2, <1>4, Unspent, Quiet

\* An answer that cost nothing.
LEMMA AnswersFree ==
  ASSUME LibraryInv, NEW c \in Calls, Answered(c), call[c].pc \notin Marks,
         UNCHANGED <<library, picked, staged, registry, shown, torn, strays, replaced, previewSeq,
                     index, indexLock, fetches, spent>>
  PROVE  LibraryInv'
BY Unspent, Answers

\* The inspection decodes the file, or answers that it does not.
LEMMA InspectKeeps ==
  ASSUME LibraryInv, NEW c \in Calls, Inspect(c)
  PROVE  LibraryInv'
<1> DEFINE p == call[c].of
<1>1. /\ call[c].pc = "inspect"
      /\ UNCHANGED <<library, picked, staged, registry, shown, torn, strays, replaced, previewSeq,
                     index, indexLock, fetches, spent>>
  BY DEF Inspect, previewVars, In
<1>2. CASE ~Decodes(picked[p])
  <2>1. Answered(c) /\ call[c].pc \notin Marks
    BY <1>1, <1>2 DEF Inspect, Marks
  <2> QED
    BY <1>1, <2>1, AnswersFree
<1>3. CASE Decodes(picked[p])
  <2> DEFINE k == [call[c] EXCEPT !.pc = "copy path", !.seen = picked[p], !.dest = Slug[picked[p].key]]
  <2>1. call \in [Calls -> CallType] /\ call[c] \in CallType
    BY DEF LibraryInv, LibraryTypes
  <2>2. call' = [call EXCEPT ![c] = k]
    BY <1>3, <2>1 DEF Inspect
  <2>3. p \in DOMAIN Picks
    BY <1>1 DEF LibraryInv, CallOf
  <2>4. picked[p] \in Definitions /\ picked[p].valid
    BY <1>3, <2>3 DEF LibraryInv, LibraryTypes, Decodes
  <2>5. Slug[picked[p].key] \in Names
    BY <2>4, LibraryAssumption DEF Names, Keys
  <2>6. /\ k \in CallType /\ k.pc = "copy path" /\ k.of \in DOMAIN Picks
        /\ k.seen \in Definitions /\ k.seen.valid /\ k.dest \in Names
    BY <2>1, <2>3, <2>4, <2>5 DEF CallType, CallPcs, Shows
  <2> HIDE DEF k, p
  <2>7. call'[c] = k
    BY <2>1, <2>2
  <2>8. CallOf(c)' /\ k.pc \notin Fresh
    BY <2>6, <2>7 DEF CallOf, Fresh, Held
  <2>9. call[c].pc \notin Marks /\ call[c].pc \in Pathless
    BY <1>1 DEF Marks, Pathless
  <2> QED
    BY <1>1, <2>2, <2>6, <2>8, <2>9, GoesOn
<1> QED
  BY <1>2, <1>3

\* A commit finds its destination in the registry, or answers that there is none.
LEMMA DestinationKeeps ==
  ASSUME LibraryInv, NEW c \in Calls, previewDestination(c)
  PROVE  LibraryInv'
<1> DEFINE t == call[c].token
<1>1. /\ call[c].pc = "destination"
      /\ UNCHANGED <<library, picked, staged, registry, shown, torn, strays, replaced, previewSeq,
                     index, indexLock, fetches, spent>>
  BY DEF previewDestination, commitVars, In
<1>2. call[c].pc \notin Marks
  BY <1>1 DEF Marks
<1>3. CASE registry[t] = NoName
  <2>1. Answered(c)
    BY <1>3 DEF previewDestination
  <2> QED
    BY <1>1, <1>2, <2>1, AnswersFree
<1>4. CASE registry[t] # NoName
  <2> DEFINE k == [call[c] EXCEPT !.pc = "stat", !.dest = registry[t]]
  <2>1. call \in [Calls -> CallType] /\ call[c] \in CallType
    BY DEF LibraryInv, LibraryTypes
  <2>2. call' = [call EXCEPT ![c] = k]
    BY <1>4, <2>1 DEF previewDestination
  <2>3. t \in Tokens /\ shown[t] # NoDefinition
    BY <1>1 DEF LibraryInv, CallOf, Held
  <2>4. registry[t] \in Names
    BY <1>4, <2>3 DEF LibraryInv, LibraryTypes
  <2>5. k \in CallType /\ k.pc = "stat" /\ k.token = t /\ k.dest \in Names
    BY <2>1, <2>4 DEF CallType, CallPcs
  <2> HIDE DEF k, t
  <2>6. call'[c] = k
    BY <2>1, <2>2
  <2>7. CallOf(c)' /\ k.pc \notin Fresh \cup Pathless
    BY <1>1, <2>3, <2>5, <2>6 DEF CallOf, Fresh, Held, Pathless
  <2> QED
    BY <1>1, <1>2, <2>2, <2>5, <2>7, GoesOn
<1> QED
  BY <1>3, <1>4

\* What is there is not replaced unless that was asked for.
LEMMA ExistingKeeps ==
  ASSUME LibraryInv, NEW c \in Calls, refuseExisting(c)
  PROVE  LibraryInv'
<1> DEFINE n == call[c].dest
<1>1. /\ call[c].pc = "stat"
      /\ UNCHANGED <<library, picked, staged, registry, shown, torn, strays, replaced, previewSeq,
                     index, indexLock, fetches, spent>>
  BY DEF refuseExisting, commitVars, In
<1>2. call[c].pc \notin Marks
  BY <1>1 DEF Marks
<1>3. CASE ~call[c].overwrite /\ Exists(n)
  <2>1. Answered(c)
    BY <1>3 DEF refuseExisting
  <2> QED
    BY <1>1, <1>2, <2>1, AnswersFree
<1>4. CASE ~(~call[c].overwrite /\ Exists(n))
  <2> DEFINE k == [call[c] EXCEPT !.pc = "rename", !.seen = library[n]]
  <2>1. call \in [Calls -> CallType] /\ call[c] \in CallType
    BY DEF LibraryInv, LibraryTypes
  <2>2. call' = [call EXCEPT ![c] = k]
    BY <1>4, <2>1 DEF refuseExisting
  <2>3. call[c].token \in Tokens /\ shown[call[c].token] # NoDefinition /\ n \in Names
    BY <1>1 DEF LibraryInv, CallOf, Held
  <2>4. library[n] \in Shows
    BY <2>3 DEF LibraryInv, LibraryTypes
  <2>5. /\ k \in CallType /\ k.pc = "rename" /\ k.token = call[c].token /\ k.dest = n
        /\ k.overwrite = call[c].overwrite /\ k.seen = library[n]
    BY <2>1, <2>4 DEF CallType, CallPcs
  <2>6. ~k.overwrite => k.seen = NoDefinition
    BY <1>4, <2>5 DEF Exists
  <2> HIDE DEF k, n
  <2>7. call'[c] = k
    BY <2>1, <2>2
  <2>8. CallOf(c)' /\ k.pc \notin Fresh \cup Pathless
    BY <1>1, <2>3, <2>5, <2>6, <2>7 DEF CallOf, Fresh, Held, Pathless
  <2> QED
    BY <1>1, <1>2, <2>2, <2>5, <2>8, GoesOn
<1> QED
  BY <1>3, <1>4

\* A rename that fails has moved nothing.
LEMMA RenameFailsKeeps ==
  ASSUME LibraryInv, NEW c \in Calls, RenameFails(c)
  PROVE  LibraryInv'
<1>1. /\ call[c].pc = "rename" /\ Answered(c) /\ Trouble
      /\ UNCHANGED <<library, picked, staged, registry, shown, torn, strays, replaced, previewSeq,
                     index, indexLock, fetches>>
  BY DEF RenameFails, commitVars, In
<1>2. call[c].pc \notin Marks
  BY <1>1 DEF Marks
<1> QED
  BY <1>1, <1>2, Troubled, Answers

\* An import that fails removes what it wrote: nothing was staged before it.
LEMMA ImportFailsKeeps ==
  ASSUME LibraryInv, NEW c \in Calls, ImportFails(c)
  PROVE  LibraryInv'
<1>1. /\ call[c].pc = "import" /\ Answered(c) /\ Trouble
      /\ staged' = [staged EXCEPT ![call[c].token] = NoDefinition]
      /\ UNCHANGED <<library, picked, registry, shown, torn, strays, replaced, previewSeq,
                     index, indexLock, fetches>>
  BY DEF ImportFails, previewVars, In
<1>2. call[c].pc \notin Marks /\ staged[call[c].token] = NoDefinition
  BY <1>1 DEF Marks, LibraryInv, CallOf
<1>3. staged' = staged
  BY <1>1, <1>2 DEF LibraryInv, LibraryTypes
<1> QED
  BY <1>1, <1>2, <1>3, Troubled, Answers

\* A preview takes the next number: no call has it, and nothing is under it.
LEMMA PathTaken ==
  ASSUME LibraryInv, NEW c \in Calls, PreviewPath(c)
  PROVE  LibraryInv'
<1> DEFINE n == previewSeq + 1
           pc == IF call[c].pc = "import path" THEN "import" ELSE "copy"
           k == [call[c] EXCEPT !.token = n, !.pc = pc]
<1>1. /\ call[c].pc \in {"import path", "copy path"} /\ previewSeq' = n
      /\ UNCHANGED <<library, picked, staged, registry, shown, torn, strays, replaced,
                     index, indexLock, fetches, spent>>
  BY DEF PreviewPath, nextPreviewPath, previewVars
<1>2. call \in [Calls -> CallType] /\ call[c] \in CallType
  BY DEF LibraryInv, LibraryTypes
<1>3. call' = [call EXCEPT ![c] = k]
  BY <1>2 DEF PreviewPath, nextPreviewPath
<1>4. PathsLeft' /\ n \in 1..MaxCalls
  <2> DEFINE A == {d \in Calls : call[d].pc \in Pathless}
             B == {d \in Calls : call'[d].pc \in Pathless}
  <2>0. k.pc \notin Pathless
    BY <1>2 DEF Pathless, CallType
  <2>1. B = A \ {c}
    BY <1>2, <1>3, <2>0
  <2>2. IsFiniteSet(A) /\ c \in A
    BY <1>1, LibraryAssumption, FS_Subset, Zenon DEF Pathless
  <2>3. Cardinality(B) = Cardinality(A) - 1 /\ Cardinality(A) \in Nat /\ Cardinality(B) \in Nat
    BY <2>1, <2>2, FS_RemoveElement, FS_CardinalityType, FS_Subset
  <2>4. previewSeq + Cardinality(A) <= spent.calls
    BY DEF LibraryInv, PathsLeft
  <2>5. spent.calls \in 0..MaxCalls /\ MaxCalls \in Nat /\ previewSeq \in Nat
    BY LibraryAssumption DEF LibraryInv, LibraryTypes
  <2>6. spent'.calls = spent.calls
    BY <1>1
  <2> HIDE DEF A, B
  <2> DEFINE a == Cardinality(A)
             b == Cardinality(B)
  <2> HIDE DEF a, b
  <2>7. b = a - 1 /\ a \in Nat /\ b \in Nat /\ previewSeq + a <= spent.calls
    BY <2>3, <2>4 DEF a, b
  <2>8. n \in 1..MaxCalls /\ n + b <= spent.calls
    BY <2>5, <2>7
  <2>9. previewSeq' + Cardinality(B) <= spent'.calls
    BY <1>1, <2>6, <2>8 DEF b
  <2> QED
    BY <2>8, <2>9 DEF PathsLeft, B
<1>5. /\ k \in CallType /\ k.pc = pc /\ k.token = n /\ k.of = call[c].of
      /\ k.seen = call[c].seen /\ k.dest = call[c].dest
  <2>1. n \in 0..MaxCalls
    BY <1>4
  <2> HIDE DEF n
  <2>2. pc \in CallPcs
    BY DEF CallPcs
  <2> HIDE DEF pc
  <2> QED
    BY <1>2, <2>1, <2>2 DEF CallType
<1>6. staged[n] = NoDefinition /\ registry[n] = NoName /\ shown[n] = NoDefinition
  <2>1. n \in Tokens /\ n > previewSeq
    BY <1>4, LibraryAssumption DEF Tokens, LibraryInv, LibraryTypes
  <2> HIDE DEF n
  <2> QED
    BY <2>1 DEF LibraryInv, TokenOf
<1>7. n \in 1..previewSeq' /\ previewSeq' \in 0..MaxCalls /\ previewSeq' >= previewSeq
  <2>1. previewSeq \in Nat /\ MaxCalls \in Nat
    BY LibraryAssumption DEF LibraryInv, LibraryTypes
  <2>2. previewSeq' = n
    BY <1>1
  <2> QED
    BY <1>4, <2>1, <2>2
<1>8. call'[c] = k
  BY <1>2, <1>3, <1>5
<1>9. ASSUME NEW d \in Calls \ {c}, call[d].pc \in Fresh
      PROVE  call[d].token # n
  <2>1. call[d].token \in 1..previewSeq
    BY <1>9 DEF LibraryInv, CallOf
  <2>2. previewSeq \in Nat
    BY LibraryAssumption DEF LibraryInv, LibraryTypes
  <2> QED
    BY <2>1, <2>2
<1> HIDE DEF n
<1>10. CallOf(c)'
  <2>1. CallOf(c)
    BY DEF LibraryInv
  <2>2. CASE call[c].pc = "import path"
    <3>1. k.pc = "import" /\ k.of \in DOMAIN Catalog
      BY <1>5, <2>1, <2>2 DEF CallOf
    <3> HIDE DEF k, pc
    <3> QED
      BY <1>1, <1>5, <1>6, <1>7, <1>8, <3>1 DEF CallOf, Fresh, Held
  <2>3. CASE call[c].pc = "copy path"
    <3>1. k.pc = "copy" /\ k.of \in DOMAIN Picks /\ k.seen \in Definitions /\ k.seen.valid /\ k.dest \in Names
      BY <1>5, <2>1, <2>3 DEF CallOf
    <3> HIDE DEF k, pc
    <3> QED
      BY <1>1, <1>5, <1>6, <1>7, <1>8, <3>1 DEF CallOf, Fresh, Held
  <2> QED
    BY <1>1, <2>2, <2>3
<1>11. /\ index' \in [Indexes -> {"none", "failed", "fetched"}]
       /\ indexLock' \in [Indexes -> Calls \cup {Nobody}] /\ fetches' \in [Indexes -> Nat]
       /\ \A i \in Indexes : IndexOf(i)'
  BY <1>1 DEF LibraryInv, LibraryTypes, IndexOf
<1>12. call[c].pc \notin Marks
  BY <1>1 DEF Marks
<1> HIDE DEF k, pc
<1> QED
  BY <1>1, <1>3, <1>4, <1>5, <1>7, <1>9, <1>10, <1>11, <1>12, Unspent, Quiet

-----------------------------------------------------------------------------
(* Steps on one token *)

\* The token of a preview that has its path.
LEMMA FreshToken ==
  ASSUME LibraryInv, NEW c \in Calls, call[c].pc \in Fresh
  PROVE  LET t == call[c].token
         IN t \in Tokens /\ t \in 1..previewSeq /\ registry[t] = NoName /\ shown[t] = NoDefinition
<1>1. call[c].token \in 1..previewSeq
      /\ registry[call[c].token] = NoName /\ shown[call[c].token] = NoDefinition
  BY DEF LibraryInv, CallOf
<1>2. previewSeq \in 0..MaxCalls /\ MaxCalls \in Nat
  BY LibraryAssumption DEF LibraryInv, LibraryTypes
<1>3. call[c].token \in Tokens
  BY <1>1, <1>2 DEF Tokens
<1> QED
  BY <1>1, <1>3

\* The token of a preview under way, which staged its file or left it behind.
LEMMA TokenOwned ==
  ASSUME NEW t \in Tokens, ~(t > previewSeq'), shown'[t] = NoDefinition, registry'[t] = NoName,
         t \in strays' \/ \E c \in Calls : call'[c].token = t /\ call'[c].pc \in {"register", "remove"}
  PROVE  TokenOf(t)'
BY DEF TokenOf

\* A step of the call whose token it is: of the preview that owns it until it is
\* shown, or of a commit or discard, which only takes away.
LEMMA OnToken ==
  ASSUME LibraryInv, NEW c \in Calls, NEW k \in CallType, call' = [call EXCEPT ![c] = k], NEW t \in Tokens,
         previewSeq' = previewSeq, index' = index, indexLock' = indexLock, fetches' = fetches,
         LibraryTypes', PathsLeft',
         \A u \in Tokens \ {t} : /\ staged'[u] = staged[u] /\ registry'[u] = registry[u] /\ shown'[u] = shown[u]
                                 /\ u \in torn' <=> u \in torn,
         strays \subseteq strays', call[c].pc \in Marks => call[c].token = t,
         \/ call[c].pc \in Fresh /\ call[c].token = t
         \/ /\ shown[t] # NoDefinition /\ shown'[t] = shown[t]
            /\ staged'[t] \in {staged[t], NoDefinition} /\ registry'[t] \in {registry[t], NoName},
         k.pc \in Fresh => call[c].pc \in Fresh /\ k.token = call[c].token,
         CallOf(c)', TokenOf(t)', LibraryDecodes', ReplacesOnlyWhenAsked'
  PROVE  LibraryInv'
<1>1. call \in [Calls -> CallType] /\ call'[c] = k /\ \A d \in Calls \ {c} : call'[d] = call[d]
  BY DEF LibraryInv, LibraryTypes
<1>2. previewSeq' \in Nat /\ previewSeq' >= previewSeq /\ previewSeq \in Nat
  BY LibraryAssumption DEF LibraryInv, LibraryTypes
<1>3. ASSUME NEW d \in Calls \ {c} PROVE CallOf(d)'
  <2> DEFINE n == call[d].token
  <2>1. CASE n \in Tokens \ {t}
    BY <1>1, <1>2, <2>1, CallKept
  <2>2. CASE n \notin Tokens
    BY <1>1, <1>2, <2>2, CallKept
  <2>3. CASE n = t /\ shown[t] # NoDefinition
    <3>1. /\ shown'[t] = shown[t]
          /\ staged'[t] \in {staged[t], NoDefinition} /\ registry'[t] \in {registry[t], NoName}
      BY <2>3, FreshToken
    <3> QED
      BY <1>1, <1>2, <2>3, <3>1, CallKept
  <2>4. CASE n = t /\ shown[t] = NoDefinition
    <3>1. call[c].pc \in Fresh /\ call[c].token = t
      BY <2>4
    <3>2. call[d].pc \notin Fresh
      BY <2>4, <3>1 DEF LibraryInv, OwnPaths
    <3>3. call[d].pc \notin Held
      BY <2>4 DEF LibraryInv, CallOf
    <3> QED
      BY <1>1, <1>2, <3>2, <3>3, CallKept
  <2> QED
    BY <2>1, <2>2, <2>3, <2>4
<1>4. \A u \in Tokens : TokenOf(u)'
  <2>1. ASSUME NEW u \in Tokens \ {t} PROVE TokenOf(u)'
    <3>1. \A d \in Calls : call[d].token = u /\ call[d].pc \in Marks =>
                             call'[d].token = u /\ call'[d].pc = call[d].pc
      BY <1>1
    <3> QED
      BY <1>2, <3>1, TokenKept
  <2> QED
    BY <2>1
<1>5. k.pc \in Fresh => \A d \in Calls \ {c} : call[d].pc \in Fresh => call[d].token # k.token
  BY DEF LibraryInv, OwnPaths
<1>6. \A i \in Indexes : IndexOf(i)'
  BY DEF LibraryInv, IndexOf
<1> QED
  BY <1>3, <1>4, <1>5, <1>6, CallMoves

\* What is fetched is staged, or what is not a fixture is refused.
LEMMA ImportKeeps ==
  ASSUME LibraryInv, NEW c \in Calls, runFixtureImport(c)
  PROVE  LibraryInv'
<1>0. PICK t \in Tokens : /\ t = call[c].token /\ t \in 1..previewSeq
                          /\ registry[t] = NoName /\ shown[t] = NoDefinition
  <2>1. call[c].pc \in Fresh
    BY DEF runFixtureImport, In, Fresh
  <2> QED
    BY <2>1, FreshToken
<1> DEFINE ref == call[c].of
           def == Catalog[ref]
<1>1. /\ call[c].pc = "import"
      /\ UNCHANGED <<library, picked, registry, shown, torn, strays, replaced, previewSeq,
                     index, indexLock, fetches, spent>>
  BY DEF runFixtureImport, previewVars, In
<1>2. CASE ~def.valid
  <2>1. Answered(c) /\ UNCHANGED staged /\ call[c].pc \notin Marks
    BY <1>1, <1>2 DEF runFixtureImport, Marks
  <2> QED
    BY <1>1, <2>1, AnswersFree
<1>3. CASE def.valid
  <2> DEFINE k == [call[c] EXCEPT !.pc = "register", !.seen = def, !.dest = OflName[ref]]
  <2>1. call \in [Calls -> CallType] /\ call[c] \in CallType
    BY DEF LibraryInv, LibraryTypes
  <2>2. call' = [call EXCEPT ![c] = k] /\ staged' = [staged EXCEPT ![t] = def]
    BY <1>0, <1>3, <2>1 DEF runFixtureImport
  <2>3. ref \in DOMAIN Catalog
    BY <1>1 DEF LibraryInv, CallOf
  <2>4. def \in Definitions /\ def # NoDefinition /\ OflName[ref] \in Names
    BY <2>3, LibraryAssumption DEF Names
  <2>5. /\ k \in CallType /\ k.pc = "register" /\ k.token = t /\ k.seen = def /\ k.dest \in Names
    BY <1>0, <2>1, <2>4 DEF CallType, CallPcs, Shows
  <2>6. t \in Tokens /\ t \in 1..previewSeq /\ registry[t] = NoName /\ shown[t] = NoDefinition
    BY <1>0
  <2> HIDE DEF k, def, ref
  <2>7. call'[c] = k /\ \A u \in Tokens \ {t} : staged'[u] = staged[u]
    BY <2>1, <2>2 DEF LibraryInv, LibraryTypes
  <2>8. staged'[t] = def /\ staged' \in [Tokens -> Shows \cup {Half}]
    BY <2>2, <2>4, <2>6 DEF LibraryInv, LibraryTypes, Shows
  <2>9. LibraryTypes'
    BY <1>1, <2>1, <2>2, <2>5, <2>8 DEF LibraryInv, LibraryTypes
  <2>10. CallOf(c)'
    BY <1>1, <1>3, <2>4, <2>5, <2>6, <2>7, <2>8 DEF CallOf, Fresh, Held
  <2>11. TokenOf(t)'
    <3>1. ~(t > previewSeq')
      BY <1>1, <2>6, LibraryAssumption DEF LibraryInv, LibraryTypes
    <3>2. \E d \in Calls : call'[d].token = t /\ call'[d].pc \in {"register", "remove"}
      BY <2>5, <2>7
    <3>3. shown'[t] = NoDefinition /\ registry'[t] = NoName
      BY <1>1, <2>6
    <3> QED
      BY <2>6, <3>1, <3>2, <3>3, TokenOwned
  <2>12. k.pc \notin Pathless /\ call[c].pc \in Fresh /\ call[c].pc \notin Marks /\ call[c].token = t
    BY <1>0, <1>1, <2>5 DEF Pathless, Fresh, Marks
  <2>13. PathsLeft'
    <3>1. previewSeq' = previewSeq /\ spent'.calls = spent.calls
      BY <1>1
    <3> QED
      BY <2>2, <2>5, <2>12, <3>1, PathsKept
  <2>14. LibraryDecodes' /\ ReplacesOnlyWhenAsked'
    BY <1>1 DEF LibraryInv, LibraryDecodes, ReplacesOnlyWhenAsked
  <2> QED
    BY <1>1, <2>2, <2>5, <2>6, <2>7, <2>9, <2>10, <2>11, <2>12, <2>13, <2>14, OnToken
<1> QED
  BY <1>2, <1>3

\* The copy stages what it reads, which may not be what was inspected.
LEMMA CopyKeeps ==
  ASSUME LibraryInv, NEW c \in Calls, copyFileBytes(c)
  PROVE  LibraryInv'
<1>0. PICK t \in Tokens : /\ t = call[c].token /\ t \in 1..previewSeq
                          /\ registry[t] = NoName /\ shown[t] = NoDefinition
  <2>1. call[c].pc \in Fresh
    BY DEF copyFileBytes, In, Fresh
  <2> QED
    BY <2>1, FreshToken
<1> DEFINE p == call[c].of
           k == [call[c] EXCEPT !.pc = "register"]
<1>1. /\ call[c].pc = "copy"
      /\ UNCHANGED <<library, picked, registry, shown, strays, replaced, previewSeq,
                     index, indexLock, fetches, spent>>
      /\ torn' = IF picked[p] = call[c].seen THEN torn ELSE torn \cup {t}
      /\ staged' = [staged EXCEPT ![t] = picked[p]]
  BY <1>0 DEF copyFileBytes, previewVars, In
<1>2. call \in [Calls -> CallType] /\ call[c] \in CallType
  BY DEF LibraryInv, LibraryTypes
<1>3. call' = [call EXCEPT ![c] = k]
  BY <1>2 DEF copyFileBytes, Moves
<1>4. p \in DOMAIN Picks /\ call[c].seen \in Definitions /\ call[c].seen.valid /\ call[c].dest \in Names
  BY <1>1 DEF LibraryInv, CallOf
<1>5. picked[p] \in Definitions /\ picked[p] # NoDefinition
  BY <1>4, LibraryAssumption DEF LibraryInv, LibraryTypes
<1>6. /\ k \in CallType /\ k.pc = "register" /\ k.token = t /\ k.seen = call[c].seen /\ k.dest = call[c].dest
  BY <1>0, <1>2 DEF CallType, CallPcs
<1>7. t \in Tokens /\ t \in 1..previewSeq /\ registry[t] = NoName /\ shown[t] = NoDefinition
  BY <1>0
<1>8. call[c].pc \in Fresh /\ call[c].pc \notin Marks /\ call[c].token = t /\ k.pc \notin Pathless
  BY <1>0, <1>1, <1>6 DEF Pathless, Fresh, Marks
<1> HIDE DEF k, p
<1>9. call'[c] = k
  BY <1>2, <1>3
<1>10. staged'[t] = picked[p] /\ staged' \in [Tokens -> Shows \cup {Half}]
  BY <1>1, <1>5, <1>7 DEF LibraryInv, LibraryTypes, Shows
<1>11. \A u \in Tokens \ {t} : staged'[u] = staged[u] /\ (u \in torn' <=> u \in torn)
  BY <1>1 DEF LibraryInv, LibraryTypes
<1>12. LibraryTypes'
  BY <1>1, <1>2, <1>3, <1>6, <1>10 DEF LibraryInv, LibraryTypes
<1>13. CallOf(c)'
  <2>1. t \notin torn' => staged'[t] = k.seen
    BY <1>1, <1>6, <1>10
  <2> QED
    BY <1>1, <1>4, <1>5, <1>6, <1>7, <1>9, <1>10, <2>1 DEF CallOf, Fresh, Held
<1>14. TokenOf(t)'
  <2>1. ~(t > previewSeq')
    BY <1>1, <1>7, LibraryAssumption DEF LibraryInv, LibraryTypes
  <2>2. \E d \in Calls : call'[d].token = t /\ call'[d].pc \in {"register", "remove"}
    BY <1>6, <1>9
  <2>3. shown'[t] = NoDefinition /\ registry'[t] = NoName
    BY <1>1, <1>7
  <2> QED
    BY <1>7, <2>1, <2>2, <2>3, TokenOwned
<1>15. PathsLeft'
  <2>1. previewSeq' = previewSeq /\ spent'.calls = spent.calls
    BY <1>1
  <2> QED
    BY <1>3, <1>6, <1>8, <2>1, PathsKept
<1>16. LibraryDecodes' /\ ReplacesOnlyWhenAsked'
  BY <1>1 DEF LibraryInv, LibraryDecodes, ReplacesOnlyWhenAsked
<1> QED
  BY <1>1, <1>3, <1>6, <1>7, <1>8, <1>11, <1>12, <1>13, <1>14, <1>15, <1>16, OnToken

\* A copy that fails leaves half a file under a token nobody was told, and an
\* import that cannot be read back a whole one.
LEMMA CopyFailsKeeps ==
  ASSUME LibraryInv, NEW c \in Calls, CopyFails(c) \/ ReadBackFails(c)
  PROVE  LibraryInv'
<1>0. PICK t \in Tokens : /\ t = call[c].token /\ t \in 1..previewSeq
                          /\ registry[t] = NoName /\ shown[t] = NoDefinition
  <2>1. call[c].pc \in Fresh
    BY DEF CopyFails, ReadBackFails, In, Fresh
  <2> QED
    BY <2>1, FreshToken
<1>1. /\ call[c].pc \in {"copy", "register"} /\ Trouble
      /\ UNCHANGED <<library, picked, registry, shown, torn, replaced, previewSeq,
                     index, indexLock, fetches>>
      /\ strays' = strays \cup {t} /\ staged' \in {staged, [staged EXCEPT ![t] = Half]}
      /\ call' = [call EXCEPT ![c] = NoCall]
  BY <1>0 DEF CopyFails, ReadBackFails, previewVars, In, Answered
<1>2. call \in [Calls -> CallType] /\ NoCall \in CallType /\ NoCall.pc = "idle"
  BY NoCallType DEF LibraryInv, LibraryTypes
<1>3. /\ t \in Tokens /\ t \in 1..previewSeq /\ registry[t] = NoName /\ shown[t] = NoDefinition
  BY <1>0
<1>4. call[c].pc \in Fresh /\ call[c].token = t /\ NoCall.pc \notin Pathless \cup Fresh
  BY <1>0, <1>1, <1>2 DEF Pathless, Fresh
<1>5. call'[c] = NoCall
  BY <1>1, <1>2
<1>6. staged' \in [Tokens -> Shows \cup {Half}] /\ \A u \in Tokens \ {t} : staged'[u] = staged[u]
  BY <1>1 DEF LibraryInv, LibraryTypes
<1>7. spent' \in [calls : 0..MaxCalls, troubles : 0..MaxTroubles] /\ spent'.calls = spent.calls
  BY <1>1, Troubled
<1>8. LibraryTypes'
  BY <1>1, <1>2, <1>6, <1>7 DEF LibraryInv, LibraryTypes
<1>9. CallOf(c)'
  BY <1>2, <1>5, Bare
<1>10. TokenOf(t)'
  <2>1. ~(t > previewSeq') /\ t \in strays'
    BY <1>1, <1>3, LibraryAssumption DEF LibraryInv, LibraryTypes
  <2>2. shown'[t] = NoDefinition /\ registry'[t] = NoName
    BY <1>1, <1>3
  <2> QED
    BY <1>3, <2>1, <2>2, TokenOwned
<1>11. PathsLeft'
  <2>1. previewSeq' = previewSeq
    BY <1>1
  <2> QED
    BY <1>1, <1>2, <1>4, <1>7, <2>1, PathsKept
<1>12. LibraryDecodes' /\ ReplacesOnlyWhenAsked'
  BY <1>1 DEF LibraryInv, LibraryDecodes, ReplacesOnlyWhenAsked
<1> QED
  BY <1>1, <1>2, <1>3, <1>4, <1>6, <1>8, <1>9, <1>10, <1>11, <1>12, OnToken

\* A preview is shown, under the token it owned.
LEMMA RegisterKeeps ==
  ASSUME LibraryInv, NEW c \in Calls, registerPreviewDestination(c)
  PROVE  LibraryInv'
<1>0. PICK t \in Tokens : /\ t = call[c].token /\ t \in 1..previewSeq
                          /\ registry[t] = NoName /\ shown[t] = NoDefinition
  <2>1. call[c].pc \in Fresh
    BY DEF registerPreviewDestination, In, Fresh
  <2> QED
    BY <2>1, FreshToken
<1>1. /\ call[c].pc = "register"
      /\ UNCHANGED <<library, picked, staged, torn, strays, replaced, previewSeq,
                     index, indexLock, fetches, spent>>
      /\ registry' = [registry EXCEPT ![t] = call[c].dest]
      /\ shown' = [shown EXCEPT ![t] = call[c].seen]
      /\ call' = [call EXCEPT ![c] = NoCall]
  BY <1>0 DEF registerPreviewDestination, previewVars, In, Answered
<1>2. call \in [Calls -> CallType] /\ NoCall \in CallType /\ NoCall.pc = "idle"
  BY NoCallType DEF LibraryInv, LibraryTypes
<1>3. /\ call[c].seen \in Definitions /\ call[c].seen.valid /\ call[c].dest \in Names
      /\ staged[t] \in Definitions /\ (t \notin torn => staged[t] = call[c].seen)
  BY <1>0, <1>1 DEF LibraryInv, CallOf
<1>4. /\ t \in Tokens /\ t \in 1..previewSeq /\ registry[t] = NoName /\ shown[t] = NoDefinition
  BY <1>0
<1>5. call[c].pc \in Fresh /\ call[c].token = t /\ NoCall.pc \notin Pathless \cup Fresh
  BY <1>0, <1>1, <1>2 DEF Pathless, Fresh
<1>6. NoDefinition \notin Definitions /\ NoName \notin Names
  BY LibraryAssumption
<1>7. call'[c] = NoCall
  BY <1>1, <1>2
<1>8. /\ registry' \in [Tokens -> Names \cup {NoName}] /\ shown' \in [Tokens -> Shows]
      /\ registry'[t] = call[c].dest /\ shown'[t] = call[c].seen
      /\ \A u \in Tokens \ {t} : registry'[u] = registry[u] /\ shown'[u] = shown[u]
  BY <1>1, <1>3, <1>4 DEF LibraryInv, LibraryTypes, Shows
<1>9. LibraryTypes'
  BY <1>1, <1>2, <1>8 DEF LibraryInv, LibraryTypes
<1>10. CallOf(c)'
  BY <1>2, <1>7, Bare
<1>11. TokenOf(t)'
  <2>1. ~(t > previewSeq')
    BY <1>1, <1>4, LibraryAssumption DEF LibraryInv, LibraryTypes
  <2>2. /\ shown'[t] # NoDefinition /\ shown'[t].valid /\ registry'[t] # NoName
        /\ staged'[t] \in Definitions /\ (t \notin torn' => staged'[t] = shown'[t])
    BY <1>1, <1>3, <1>6, <1>8
  <2>3. staged'[t] # NoDefinition /\ staged'[t] \in Shows
    BY <1>6, <2>2 DEF Shows
  <2> QED
    BY <2>1, <2>2, <2>3 DEF TokenOf
<1>12. PathsLeft'
  <2>1. previewSeq' = previewSeq /\ spent'.calls = spent.calls
    BY <1>1
  <2> QED
    BY <1>1, <1>2, <1>5, <2>1, PathsKept
<1>13. LibraryDecodes' /\ ReplacesOnlyWhenAsked'
  BY <1>1 DEF LibraryInv, LibraryDecodes, ReplacesOnlyWhenAsked
<1> QED
  BY <1>1, <1>2, <1>4, <1>5, <1>8, <1>9, <1>10, <1>11, <1>12, <1>13, OnToken

-----------------------------------------------------------------------------
(* Steps that take away *)

\* The token of a call about a preview that was shown.
LEMMA HeldToken ==
  ASSUME LibraryInv, NEW c \in Calls, call[c].pc \in Held
  PROVE  call[c].token \in Tokens /\ shown[call[c].token] # NoDefinition
BY DEF LibraryInv, CallOf

\* A shown token of which something was taken away.
LEMMA TokenCleared ==
  ASSUME LibraryInv, NEW t \in Tokens, shown[t] # NoDefinition,
         shown' = shown, torn' = torn, previewSeq' = previewSeq, strays \subseteq strays',
         staged'[t] \in {staged[t], NoDefinition}, registry'[t] \in {registry[t], NoName},
         staged'[t] = NoDefinition \/ registry'[t] # NoName \/ t \in strays' \/
           \E c \in Calls : call'[c].token = t /\ call'[c].pc \in {"register", "remove"},
         staged'[t] # NoDefinition \/ registry'[t] = NoName \/ t \in strays' \/
           \E c \in Calls : call'[c].token = t /\ call'[c].pc = "forget"
  PROVE  TokenOf(t)'
<1>1. TokenOf(t)
  BY DEF LibraryInv
<1>2. ~(t > previewSeq')
  BY <1>1 DEF TokenOf
<1>3. /\ shown[t].valid /\ staged[t] \in Shows
      /\ t \notin torn => staged[t] \in {NoDefinition, shown[t]}
  BY <1>1 DEF TokenOf
<1>4. staged'[t] \in Shows
  BY <1>3 DEF Shows
<1> QED
  BY <1>2, <1>3, <1>4 DEF TokenOf

\* The staged file is moved into the library, or is gone.
LEMMA RenameKeeps ==
  ASSUME LibraryInv, NEW c \in Calls, RenamePreview(c)
  PROVE  LibraryInv'
<1>0. PICK t \in Tokens : t = call[c].token /\ shown[t] # NoDefinition
  <2>1. call[c].pc \in Held
    BY DEF RenamePreview, In, Held
  <2> QED
    BY <2>1, HeldToken
<1> DEFINE dest == call[c].dest
           k == [call[c] EXCEPT !.pc = "forget"]
<1>1. /\ call[c].pc = "rename"
      /\ UNCHANGED <<picked, registry, shown, torn, strays, previewSeq, index, indexLock, fetches, spent>>
  BY DEF RenamePreview, commitVars, In
<1>2. call[c].pc \notin Marks
  BY <1>1 DEF Marks
<1>3. CASE staged[t] = NoDefinition
  <2>1. Answered(c) /\ UNCHANGED <<library, staged, replaced>>
    BY <1>0, <1>3 DEF RenamePreview
  <2> QED
    BY <1>1, <1>2, <2>1, AnswersFree
<1>4. CASE staged[t] # NoDefinition
  <2>1. call \in [Calls -> CallType] /\ call[c] \in CallType
    BY DEF LibraryInv, LibraryTypes
  <2>2. /\ library' = [library EXCEPT ![dest] = staged[t]]
        /\ staged' = [staged EXCEPT ![t] = NoDefinition]
        /\ replaced' = IF Exists(dest) /\ ~call[c].overwrite THEN replaced \cup {<<t, call[c].seen>>}
                       ELSE replaced
    BY <1>0, <1>4 DEF RenamePreview
  <2>3. call' = [call EXCEPT ![c] = k]
    BY <1>0, <1>4, <2>1 DEF RenamePreview, Moves
  <2>4. k \in CallType /\ k.pc = "forget" /\ k.token = t
    BY <1>0, <2>1 DEF CallType, CallPcs
  <2>5. t \in Tokens /\ shown[t] # NoDefinition
    BY <1>0
  <2>6. dest \in Names /\ (~call[c].overwrite => call[c].seen = NoDefinition)
    BY <1>1 DEF LibraryInv, CallOf
  <2>7. k.pc \notin Pathless \cup Fresh
    BY <2>4 DEF Pathless, Fresh
  <2>8. /\ shown[t].valid /\ staged[t] \in Shows
        /\ t \notin torn => staged[t] \in {NoDefinition, shown[t]}
    BY <2>5 DEF LibraryInv, TokenOf
  <2>9. ReplacesOnlyWhenAsked'
    BY <2>2, <2>6 DEF LibraryInv, ReplacesOnlyWhenAsked
  <2> HIDE DEF k, dest
  <2>10. library' \in [Names -> Shows] /\ staged' \in [Tokens -> Shows \cup {Half}]
    BY <2>2, <2>8 DEF LibraryInv, LibraryTypes, Shows
  <2>11. LibraryTypes'
    BY <1>1, <2>1, <2>3, <2>4, <2>10 DEF LibraryInv, LibraryTypes
  <2>12. call'[c] = k /\ staged'[t] = NoDefinition /\ \A u \in Tokens \ {t} : staged'[u] = staged[u]
    BY <2>1, <2>2, <2>3, <2>5 DEF LibraryInv, LibraryTypes
  <2>13. CallOf(c)'
    BY <1>1, <2>4, <2>5, <2>12 DEF CallOf, Fresh, Held
  <2>14. TokenOf(t)'
    <3>1. /\ shown' = shown /\ torn' = torn /\ previewSeq' = previewSeq /\ strays \subseteq strays'
          /\ staged'[t] = NoDefinition /\ registry'[t] = registry[t]
      BY <1>1, <2>12
    <3>2. \E d \in Calls : call'[d].token = t /\ call'[d].pc = "forget"
      BY <2>4, <2>12
    <3> QED
      BY <2>5, <3>1, <3>2, TokenCleared
  <2>15. LibraryDecodes'
    <3>1. CASE torn # {}
      BY <1>1, <3>1 DEF LibraryDecodes
    <3>2. CASE torn = {}
      <4>1. staged[t].valid
        BY <1>4, <2>8, <3>2
      <4>2. ASSUME NEW n \in Names PROVE library'[n] = NoDefinition \/ library'[n].valid
        <5>1. library[n] = NoDefinition \/ library[n].valid
          BY <3>2 DEF LibraryInv, LibraryDecodes
        <5>2. library'[n] = IF n = dest THEN staged[t] ELSE library[n]
          BY <2>2 DEF LibraryInv, LibraryTypes
        <5> QED
          BY <4>1, <5>1, <5>2
      <4> QED
        BY <4>2 DEF LibraryDecodes
    <3> QED
      BY <3>1, <3>2
  <2>16. PathsLeft'
    <3>1. previewSeq' = previewSeq /\ spent'.calls = spent.calls
      BY <1>1
    <3> QED
      BY <2>3, <2>4, <2>7, <3>1, PathsKept
  <2> QED
    BY <1>0, <1>1, <1>2, <2>3, <2>4, <2>5, <2>7, <2>9, <2>11, <2>12, <2>13, <2>14, <2>15, <2>16, OnToken
<1> QED
  BY <1>3, <1>4

\* The registry forgets what was committed.
LEMMA ForgetKeeps ==
  ASSUME LibraryInv, NEW c \in Calls, forgetPreviewDestination(c)
  PROVE  LibraryInv'
<1>0. PICK t \in Tokens : t = call[c].token /\ shown[t] # NoDefinition
  <2>1. call[c].pc \in Held
    BY DEF forgetPreviewDestination, In, Held
  <2> QED
    BY <2>1, HeldToken
<1>1. /\ call[c].pc = "forget"
      /\ UNCHANGED <<library, picked, staged, shown, torn, strays, replaced, previewSeq,
                     index, indexLock, fetches, spent>>
      /\ registry' = [registry EXCEPT ![t] = NoName]
      /\ call' = [call EXCEPT ![c] = NoCall]
  BY <1>0 DEF forgetPreviewDestination, commitVars, In, Answered
<1>2. call \in [Calls -> CallType] /\ NoCall \in CallType /\ NoCall.pc = "idle"
  BY NoCallType DEF LibraryInv, LibraryTypes
<1>3. t \in Tokens /\ shown[t] # NoDefinition
  BY <1>0
<1>4. staged[t] = NoDefinition
  BY <1>0, <1>1 DEF LibraryInv, CallOf
<1>5. call[c].token = t /\ NoCall.pc \notin Pathless \cup Fresh
  BY <1>0, <1>2 DEF Pathless, Fresh
<1>6. /\ registry' \in [Tokens -> Names \cup {NoName}] /\ registry'[t] = NoName
      /\ \A u \in Tokens \ {t} : registry'[u] = registry[u]
  BY <1>1, <1>3 DEF LibraryInv, LibraryTypes
<1>7. LibraryTypes'
  BY <1>1, <1>2, <1>6 DEF LibraryInv, LibraryTypes
<1>8. CallOf(c)'
  <2>1. call'[c] = NoCall
    BY <1>1, <1>2
  <2> QED
    BY <1>2, <2>1, Bare
<1>9. TokenOf(t)'
  <2>1. /\ shown' = shown /\ torn' = torn /\ previewSeq' = previewSeq /\ strays \subseteq strays'
        /\ staged'[t] = staged[t] /\ staged'[t] = NoDefinition /\ registry'[t] = NoName
    BY <1>1, <1>4, <1>6
  <2> QED
    BY <1>3, <2>1, TokenCleared
<1>10. PathsLeft'
  <2>1. previewSeq' = previewSeq /\ spent'.calls = spent.calls
    BY <1>1
  <2> QED
    BY <1>1, <1>2, <1>5, <2>1, PathsKept
<1>11. LibraryDecodes' /\ ReplacesOnlyWhenAsked'
  BY <1>1 DEF LibraryInv, LibraryDecodes, ReplacesOnlyWhenAsked
<1> QED
  BY <1>1, <1>2, <1>3, <1>5, <1>6, <1>7, <1>8, <1>9, <1>10, <1>11, OnToken

\* A discard is forgotten before its file is removed.
LEMMA DiscardBegins ==
  ASSUME LibraryInv, NEW c \in Calls, NEW t \in Tokens, DiscardPreview(c, t)
  PROVE  LibraryInv'
<1> DEFINE k == [NoCall EXCEPT !.pc = "remove", !.of = "none", !.token = t, !.overwrite = FALSE]
<1>1. /\ call[c].pc = "idle" /\ spent.calls < MaxCalls /\ shown[t] # NoDefinition
      /\ spent' = [spent EXCEPT !.calls = @ + 1] /\ call' = [call EXCEPT ![c] = k]
      /\ registry' = [registry EXCEPT ![t] = NoName]
      /\ UNCHANGED <<library, picked, staged, shown, torn, strays, replaced, previewSeq,
                     index, indexLock, fetches>>
  BY DEF DiscardPreview, commitVars, Called, In
<1>2. k \in CallType /\ k.pc = "remove" /\ k.token = t
  <2>1. t \in 0..MaxCalls
    BY LibraryAssumption DEF Tokens
  <2> QED
    BY <2>1, NoCallType DEF CallType, CallPcs
<1> HIDE DEF k
<1>3. call \in [Calls -> CallType] /\ call'[c] = k
  BY <1>1, <1>2 DEF LibraryInv, LibraryTypes
<1>4. k.pc \notin Fresh /\ call[c].pc \notin Marks
  BY <1>1, <1>2 DEF Fresh, Marks
<1>5. /\ registry' \in [Tokens -> Names \cup {NoName}] /\ registry'[t] = NoName
      /\ \A u \in Tokens \ {t} : registry'[u] = registry[u]
  BY <1>1 DEF LibraryInv, LibraryTypes
<1>6. spent' \in [calls : 0..MaxCalls, troubles : 0..MaxTroubles] /\ PathsLeft'
  <2>1. previewSeq' = previewSeq
    BY <1>1
  <2> QED
    BY <1>1, <1>2, <2>1, Making
<1>7. LibraryTypes'
  BY <1>1, <1>2, <1>3, <1>5, <1>6 DEF LibraryInv, LibraryTypes
<1>8. CallOf(c)'
  BY <1>1, <1>2, <1>3, <1>5 DEF CallOf, Fresh, Held
<1>9. TokenOf(t)'
  BY <1>1, <1>2, <1>3, <1>5, TokenCleared
<1>10. LibraryDecodes' /\ ReplacesOnlyWhenAsked'
  BY <1>1 DEF LibraryInv, LibraryDecodes, ReplacesOnlyWhenAsked
<1> QED
  BY <1>1, <1>2, <1>4, <1>5, <1>6, <1>7, <1>8, <1>9, <1>10, OnToken

\* The file of a discarded preview is removed.
LEMMA RemoveKeeps ==
  ASSUME LibraryInv, NEW c \in Calls, RemovePreview(c) \/ RemoveFails(c)
  PROVE  LibraryInv'
<1>0. PICK t \in Tokens : t = call[c].token /\ shown[t] # NoDefinition
  <2>1. call[c].pc \in Held
    BY DEF RemovePreview, RemoveFails, In, Held
  <2> QED
    BY <2>1, HeldToken
<1>1. /\ call[c].pc = "remove"
      /\ UNCHANGED <<library, picked, registry, shown, torn, replaced, previewSeq,
                     index, indexLock, fetches>>
      /\ call' = [call EXCEPT ![c] = NoCall]
      /\ \/ staged' = [staged EXCEPT ![t] = NoDefinition] /\ UNCHANGED <<strays, spent>>
         \/ Trouble /\ UNCHANGED staged /\ strays' = strays \cup {t}
  BY <1>0 DEF RemovePreview, RemoveFails, commitVars, In, Answered
<1>2. call \in [Calls -> CallType] /\ NoCall \in CallType /\ NoCall.pc = "idle"
  BY NoCallType DEF LibraryInv, LibraryTypes
<1>3. t \in Tokens /\ shown[t] # NoDefinition
  BY <1>0
<1>4. registry[t] = NoName
  BY <1>0, <1>1 DEF LibraryInv, CallOf
<1>5. call[c].token = t /\ NoCall.pc \notin Pathless \cup Fresh
  BY <1>0, <1>2 DEF Pathless, Fresh
<1>6. /\ staged' \in [Tokens -> Shows \cup {Half}] /\ staged'[t] \in {staged[t], NoDefinition}
      /\ \A u \in Tokens \ {t} : staged'[u] = staged[u]
      /\ staged'[t] = NoDefinition \/ t \in strays'
  <2>1. staged \in [Tokens -> Shows \cup {Half}] /\ NoDefinition \in Shows
    BY DEF LibraryInv, LibraryTypes, Shows
  <2> QED
    BY <1>1, <1>3, <2>1
<1>7. spent' \in [calls : 0..MaxCalls, troubles : 0..MaxTroubles] /\ spent'.calls = spent.calls
  BY <1>1, Troubled, Unspent
<1>8. LibraryTypes'
  BY <1>1, <1>2, <1>6, <1>7 DEF LibraryInv, LibraryTypes
<1>9. CallOf(c)'
  <2>1. call'[c] = NoCall
    BY <1>1, <1>2
  <2> QED
    BY <1>2, <2>1, Bare
<1>10. strays \subseteq strays'
  BY <1>1
<1>11. TokenOf(t)'
  <2>1. shown' = shown /\ torn' = torn /\ previewSeq' = previewSeq /\ registry'[t] = NoName
    BY <1>1, <1>4
  <2> QED
    BY <1>3, <1>6, <1>10, <2>1, TokenCleared
<1>12. PathsLeft'
  <2>1. previewSeq' = previewSeq
    BY <1>1
  <2> QED
    BY <1>1, <1>2, <1>5, <1>7, <2>1, PathsKept
<1>13. LibraryDecodes' /\ ReplacesOnlyWhenAsked'
  BY <1>1 DEF LibraryInv, LibraryDecodes, ReplacesOnlyWhenAsked
<1> QED
  BY <1>1, <1>2, <1>3, <1>4, <1>5, <1>6, <1>8, <1>9, <1>10, <1>11, <1>12, <1>13, OnToken

-----------------------------------------------------------------------------
(* Others, and the theorem *)

\* Others change the picked files and the library, and no call.
LEMMA OthersKeep ==
  ASSUME LibraryInv, EditPicked \/ ImportFromCommandLine
  PROVE  LibraryInv'
<1>1. /\ Trouble
      /\ UNCHANGED <<staged, previewSeq, registry, shown, index, indexLock, fetches, call, replaced,
                     torn, strays>>
  BY DEF EditPicked, ImportFromCommandLine
<1>2. spent' \in [calls : 0..MaxCalls, troubles : 0..MaxTroubles] /\ spent'.calls = spent.calls
  BY <1>1, Troubled
<1>3. library' \in [Names -> Shows] /\ picked' \in [DOMAIN Picks -> Definitions] /\ LibraryDecodes'
  <2>1. /\ library \in [Names -> Shows] /\ picked \in [DOMAIN Picks -> Definitions] /\ LibraryDecodes
    BY DEF LibraryInv, LibraryTypes
  <2>2. CASE EditPicked
    <3>1. PICK p \in DOMAIN picked, d \in Definitions : picked' = [picked EXCEPT ![p] = d]
      BY <2>2 DEF EditPicked
    <3>2. library' = library
      BY <2>2 DEF EditPicked
    <3> QED
      BY <1>1, <2>1, <3>1, <3>2 DEF LibraryDecodes
  <2>3. CASE ImportFromCommandLine
    <3>1. PICK r \in DOMAIN Catalog, n \in Names :
            Catalog[r].valid /\ library' = [library EXCEPT ![n] = Catalog[r]]
      BY <2>3 DEF ImportFromCommandLine
    <3>2. picked' = picked /\ Catalog[r] \in Shows
      BY <2>3, LibraryAssumption DEF ImportFromCommandLine, Shows
    <3> QED
      BY <1>1, <2>1, <3>1, <3>2 DEF LibraryDecodes
  <2> QED
    BY <2>2, <2>3
<1>4. LibraryTypes'
  BY <1>1, <1>2, <1>3 DEF LibraryInv, LibraryTypes
<1>5. previewSeq' \in Nat /\ previewSeq' >= previewSeq
  BY <1>1, LibraryAssumption DEF LibraryInv, LibraryTypes
<1>6. \A d \in Calls : CallOf(d)'
  BY <1>1, <1>5, CallKept
<1>7. \A t \in Tokens : TokenOf(t)'
  BY <1>1, <1>5, TokenKept
<1>8. /\ PathsLeft' /\ OwnPaths' /\ ReplacesOnlyWhenAsked' /\ \A i \in Indexes : IndexOf(i)'
  BY <1>1, <1>2 DEF LibraryInv, PathsLeft, OwnPaths, ReplacesOnlyWhenAsked, IndexOf
<1> QED
  BY <1>3, <1>4, <1>6, <1>7, <1>8 DEF LibraryInv

\* A library as it is found, and no call yet.
LEMMA LibraryStarts ==
  ASSUME LibraryInit
  PROVE  LibraryInv
<1>1. /\ MaxCalls \in Nat /\ MaxTroubles \in Nat
  BY LibraryAssumption
<1>2. spent \in [calls : 0..MaxCalls, troubles : 0..MaxTroubles] /\ spent.calls = 0
  BY <1>1 DEF LibraryInit
<1>3. picked \in [DOMAIN Picks -> Definitions]
  BY LibraryAssumption DEF LibraryInit
<1>4. LibraryTypes
  BY <1>1, <1>2, <1>3, NoCallType DEF LibraryInit, LibraryTypes, Shows
<1>5. \A c \in Calls : call[c].pc = "idle"
  BY NoCallType DEF LibraryInit
<1>6. PathsLeft
  <2>1. {c \in Calls : call[c].pc \in Pathless} = {}
    BY <1>5 DEF Pathless
  <2>2. Cardinality({c \in Calls : call[c].pc \in Pathless}) = 0
    BY <2>1, FS_EmptySet
  <2>3. previewSeq = 0
    BY DEF LibraryInit
  <2> QED
    BY <1>2, <2>2, <2>3 DEF PathsLeft
<1>7. \A c \in Calls : CallOf(c)
  BY <1>5 DEF CallOf, Fresh, Held
<1>8. OwnPaths
  BY <1>5 DEF OwnPaths, Fresh
<1>9. \A t \in Tokens : TokenOf(t)
  BY DEF LibraryInit, TokenOf
<1>10. \A i \in Indexes : IndexOf(i)
  BY DEF LibraryInit, IndexOf
<1>11. LibraryDecodes /\ ReplacesOnlyWhenAsked
  BY DEF LibraryInit, LibraryDecodes, ReplacesOnlyWhenAsked
<1> QED
  BY <1>4, <1>6, <1>7, <1>8, <1>9, <1>10, <1>11 DEF LibraryInv

\* A call that was made keeps everything in order, wherever it is.
LEMMA CallStepKeeps ==
  ASSUME LibraryInv, NEW c \in Calls, CallStep(c)
  PROVE  LibraryInv'
<1>1. CASE \E i \in Indexes : loadOFLManufacturers(c, i) \/ FetchIndex(c, i) \/ FetchIndexFails(c, i)
  BY <1>1, IndexLoads, IndexFetched
<1>2. CASE PreviewPath(c) \/ runFixtureImport(c) \/ ImportFails(c) \/ ReadBackFails(c)
  BY <1>2, PathTaken, ImportKeeps, ImportFailsKeeps, CopyFailsKeeps
<1>3. CASE Inspect(c) \/ copyFileBytes(c) \/ CopyFails(c) \/ registerPreviewDestination(c)
  BY <1>3, InspectKeeps, CopyKeeps, CopyFailsKeeps, RegisterKeeps
<1>4. CASE previewDestination(c) \/ refuseExisting(c) \/ RenamePreview(c) \/ RenameFails(c)
  BY <1>4, DestinationKeeps, ExistingKeeps, RenameKeeps, RenameFailsKeeps
<1>5. CASE forgetPreviewDestination(c) \/ RemovePreview(c) \/ RemoveFails(c)
  BY <1>5, ForgetKeeps, RemoveKeeps
<1> QED
  BY <1>1, <1>2, <1>3, <1>4, <1>5 DEF CallStep

\* So does every step.
LEMMA LibraryStepKeeps ==
  ASSUME LibraryInv, [Searching \/ Importing]_libraryVars
  PROVE  LibraryInv'
<1>1. CASE Searching
  BY <1>1, SearchBegins, CallStepKeeps DEF Searching
<1>2. CASE Importing
  <2>1. CASE EditPicked \/ ImportFromCommandLine
    BY <2>1, OthersKeep
  <2>2. ASSUME NEW c \in Calls, NEW r \in DOMAIN Catalog, PreviewOFL(c, r) PROVE LibraryInv'
    BY <2>2, PreviewOFLBegins
  <2>3. ASSUME NEW c \in Calls, NEW p \in DOMAIN picked, PreviewFile(c, p) PROVE LibraryInv'
    BY <2>3, PreviewFileBegins
  <2>4. ASSUME NEW c \in Calls, NEW t \in Tokens, DiscardPreview(c, t) PROVE LibraryInv'
    BY <2>4, DiscardBegins
  <2>5. ASSUME NEW c \in Calls, NEW t \in Tokens, NEW o \in BOOLEAN, CommitPreview(c, t, o) PROVE LibraryInv'
    BY <2>5, CommitBegins
  <2> QED
    BY <1>2, <2>1, <2>2, <2>3, <2>4, <2>5, CallStepKeeps DEF Importing
<1>3. CASE UNCHANGED libraryVars
  <2>1. LibraryTypes' /\ PathsLeft' /\ OwnPaths'
    BY <1>3 DEF libraryVars, LibraryInv, LibraryTypes, PathsLeft, OwnPaths
  <2>2. ASSUME NEW c \in Calls PROVE CallOf(c)'
    <3>1. CallOf(c)
      BY DEF LibraryInv
    <3> QED
      BY <1>3, <3>1 DEF libraryVars, CallOf
  <2>3. ASSUME NEW t \in Tokens PROVE TokenOf(t)'
    <3>1. TokenOf(t)
      BY DEF LibraryInv
    <3> QED
      BY <1>3, <3>1 DEF libraryVars, TokenOf
  <2>4. (\A i \in Indexes : IndexOf(i)') /\ LibraryDecodes' /\ ReplacesOnlyWhenAsked'
    BY <1>3 DEF libraryVars, LibraryInv, IndexOf, LibraryDecodes, ReplacesOnlyWhenAsked
  <2> QED
    BY <2>1, <2>2, <2>3, <2>4 DEF LibraryInv
<1> QED
  BY <1>1, <1>2, <1>3

\* What a call, a token and an index know is what the operator is promised.
LEMMA KnownIsSound ==
  ASSUME LibraryInv
  PROVE  LibraryIsSound
<1>1. LibraryTypeOK
  BY DEF LibraryInv, LibraryTypes, LibraryTypeOK, Shows
<1>2. CommittedAsShown
  <2> SUFFICES ASSUME NEW c \in Calls, In(c, "rename"), call[c].token \notin torn,
                      staged[call[c].token] # NoDefinition
               PROVE  staged[call[c].token] = shown[call[c].token]
    BY DEF CommittedAsShown
  <2>1. call[c].token \in Tokens /\ shown[call[c].token] # NoDefinition
    BY HeldToken DEF In, Held
  <2> QED
    BY <2>1 DEF LibraryInv, TokenOf
<1>3. LibraryLoads
  BY DEF LibraryInv, LibraryDecodes, LibraryLoads, loadFixtureDirectory, ListDirectory, Exists, Decodes
<1>4. NoStrays
  <2> SUFFICES ASSUME Resting, NEW t \in Tokens, t \notin strays
               PROVE  (staged[t] # NoDefinition) = (registry[t] # NoName)
    BY DEF NoStrays
  <2>1. TokenOf(t) /\ \A c \in Calls : call[c].pc \notin {"register", "remove", "forget"}
    BY DEF LibraryInv, Resting, In
  <2>2. (staged[t] # NoDefinition) <=> (registry[t] # NoName)
    BY <2>1 DEF TokenOf
  <2> QED
    BY <2>2
<1>5. FetchedOnce
  <2> SUFFICES ASSUME NEW i \in Indexes PROVE fetches[i] <= 1
    BY DEF FetchedOnce
  <2>1. fetches[i] \in {0, 1}
    BY DEF LibraryInv, IndexOf
  <2> QED
    BY <2>1
<1> QED
  BY <1>1, <1>2, <1>3, <1>4, <1>5 DEF LibraryInv, LibraryIsSound

\* The library and the calls of the frontend on it, searches and imports at once.
LibrarySpec == LibraryInit /\ [][Searching \/ Importing]_libraryVars

\* However searches, previews, commits and discards overlap, fail or are left in
\* the middle, what is committed is what was shown, the library loads, nothing is
\* replaced unasked, nothing staged is lost track of, and each index is fetched
\* once (PreviewOFL, PreviewFile, CommitPreview, DiscardPreview, SearchOFL).
THEOREM ImportsAreSound == LibrarySpec => []LibraryIsSound
<1>1. LibraryInit => LibraryInv
  BY LibraryStarts
<1>2. LibraryInv /\ [Searching \/ Importing]_libraryVars => LibraryInv'
  BY LibraryStepKeeps
<1>3. LibraryInv => LibraryIsSound
  BY KnownIsSound
<1> QED
  BY <1>1, <1>2, <1>3, PTL DEF LibrarySpec
=============================================================================
