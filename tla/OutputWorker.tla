---------------------------- MODULE OutputWorker ----------------------------
(***************************************************************************)
(* internal/artnet/daemon.go, worker.go and health.go: the daemon's target *)
(* map, the worker that sends each frame to every enabled target, and the  *)
(* health it records.  A request that changes the targets replaces the     *)
(* whole worker under d.mu.  Stopping a worker awaits its tick goroutine,  *)
(* but not the goroutines its ticks launched, one per send; those write,   *)
(* then record the outcome, while later workers run.                       *)
(*                                                                         *)
(* A frame is what the safety transform made of it, lit or dark, or none   *)
(* while the engine has none and no desk fader is up; a target is one      *)
(* universe's unicast address.                                             *)
(***************************************************************************)
EXTENDS Naturals, FiniteSets

CONSTANTS
    Targets,        \* (universe, IP, port) triples
    Handlers,       \* connections being served at once
    MaxRequests,    \* bound: configure, enable and disable requests
    MaxErrors,      \* bound: failed dials, encodings and writes
    MaxFrames       \* bound: changes of the frame

Workers == 1 .. (MaxRequests + 1)       \* a worker is never started twice
Frames == {"lit", "dark"}
NoFrame == "none"
Settings == {"absent", "on", "off"}     \* Target.Enabled, where configured
Free == "free"                          \* nobody holds d.mu

ASSUME WorkerAssumption ==
    /\ MaxRequests \in Nat /\ MaxErrors \in Nat /\ MaxFrames \in Nat
    /\ IsFiniteSet(Targets) /\ IsFiniteSet(Handlers) /\ Free \notin Handlers

VARIABLES
    targets,    \* d.targets
    lock,       \* d.mu: Free, or the handler that holds it
    worker,     \* the latest worker
    ticking,    \* workers whose tick goroutine has not ended
    config,     \* each worker's copy of the targets
    socket,     \* each worker's sender for each target: none, open or closed
    sends,      \* send goroutines that have not ended
    health,     \* TargetHealth.Target.Enabled and Reachable of each target
    frame,      \* the frame a tick would read, or none
    wire,       \* the latest frame each target was sent
    handler,    \* each connection: where it is, and its request
    run,        \* Run: serving, cancelled, returned
    requests, errors, changes   \* bounds

workerVars == <<worker, ticking, config, socket>>
boundVars == <<requests, errors, changes>>
vars == <<targets, lock, worker, ticking, config, socket, sends, health, frame,
          wire, handler, run, requests, errors, changes>>

HandlerIdle == [pc |-> "idle", target |-> "none", setting |-> "absent"]
Unknown == [enabled |-> "absent", reachable |-> FALSE]

Closed == [t \in Targets |-> "none"]

-----------------------------------------------------------------------------
(* health.go *)

\* Configure: the settings of tracked targets are refreshed
Configured(h, ts) == [t \in Targets |-> [h[t] EXCEPT !.enabled = ts[t]]]

\* RecordSend: the sender's copy of the target is stored with the outcome; an
\* error leaves Reachable alone
RecordSend(h, t, setting, ok) ==
    [h EXCEPT ![t] = [enabled |-> setting, reachable |-> @.reachable \/ ok]]

-----------------------------------------------------------------------------
(* NewWorker and Start: the targets in failed could not be dialled and have   *)
(* no sender (the error recorded for them repeats what Configure just wrote). *)
(* The tick goroutine's context derives from Run's, cancelled or not.         *)

Dialled(ts) == {t \in Targets : ts[t] # "absent"}

Senders(ts, failed) == [t \in Targets |-> IF t \in Dialled(ts) \ failed THEN "open" ELSE "none"]

Start(w, ts, failed) ==
    /\ worker' = w
    /\ config' = [config EXCEPT ![w] = ts]
    /\ socket' = [socket EXCEPT ![w] = Senders(ts, failed)]
    /\ ticking' = ticking \cup {w}

\* Fault: the senders stay open; the tick goroutine goes on
FaultLeaveOpen ==
    /\ ticking' = ticking \ {worker}
    /\ UNCHANGED <<worker, config, socket>>

\* Stop: the tick goroutine has ended, and every sender is closed
Stop ==
    /\ ticking' = ticking \ {worker}
    /\ socket' = [socket EXCEPT ![worker] =
                    [t \in Targets |-> IF @[t] = "open" THEN "closed" ELSE @[t]]]
    /\ UNCHANGED <<worker, config>>

Init ==
    /\ targets \in [Targets -> Settings]
    /\ lock = Free
    /\ worker = 1
    /\ ticking = {1}
    /\ config = [w \in Workers |-> targets]
    /\ \E failed \in SUBSET Dialled(targets) :
         /\ Cardinality(failed) <= MaxErrors
         /\ errors = MaxErrors - Cardinality(failed)
         /\ socket = [w \in Workers |-> IF w = 1 THEN Senders(targets, failed) ELSE Closed]
    /\ sends = {}
    /\ health = Configured([t \in Targets |-> Unknown], targets)
    /\ frame = NoFrame
    /\ wire = [t \in Targets |-> "none"]
    /\ handler = [h \in Handlers |-> HandlerIdle]
    /\ run = "serving"
    /\ requests = MaxRequests
    /\ changes = MaxFrames

-----------------------------------------------------------------------------
(* Requests: handleConfigure (any target), handleSetEnabled (one that is      *)
(* configured).  A connection accepted while serving is served to its end.    *)

Accept(h, t, setting) ==
    /\ run = "serving"
    /\ handler[h].pc = "idle"
    /\ requests > 0
    /\ requests' = requests - 1
    /\ handler' = [handler EXCEPT ![h] = [pc |-> "lock", target |-> t, setting |-> setting]]
    /\ UNCHANGED <<targets, lock, sends, health, frame, wire, run, errors, changes>>
    /\ UNCHANGED workerVars

\* d.mu.Lock() and the change of the target map
SetTarget(h) ==
    /\ handler[h].pc = "lock"
    /\ lock = Free
    /\ lock' = h
    /\ targets' = [targets EXCEPT ![handler[h].target] = handler[h].setting]
    /\ handler' = [handler EXCEPT ![h].pc = "stop"]
    /\ UNCHANGED <<sends, health, frame, wire, run>>
    /\ UNCHANGED workerVars
    /\ UNCHANGED boundVars

\* reconfigureLocked: stopWorkerLocked ...
StopWorker(h) ==
    /\ handler[h].pc = "stop"
    /\ Stop
    /\ handler' = [handler EXCEPT ![h].pc = "start"]
    /\ UNCHANGED <<targets, lock, sends, health, frame, wire, run>>
    /\ UNCHANGED boundVars

\* ... startWorkerLocked, and the deferred d.mu.Unlock()
StartWorker(h, failed) ==
    /\ handler[h].pc = "start"
    /\ failed \subseteq Dialled(targets)
    /\ Cardinality(failed) <= errors
    /\ Start(worker + 1, targets, failed)
    /\ health' = Configured(health, targets)
    /\ errors' = errors - Cardinality(failed)
    /\ handler' = [handler EXCEPT ![h] = HandlerIdle]
    /\ lock' = Free
    /\ UNCHANGED <<targets, sends, frame, wire, run, requests, changes>>

-----------------------------------------------------------------------------
(* The tick, and the sends it launches *)

\* the engine, the desk or a safety flag changes what a tick would read
ChangeFrame(f) ==
    /\ f # frame
    /\ changes > 0
    /\ changes' = changes - 1
    /\ frame' = f
    /\ UNCHANGED <<targets, lock, sends, health, wire, handler, run, requests, errors>>
    /\ UNCHANGED workerVars

Enabled(w) == {t \in Targets : config[w][t] = "on"}

Busy(w, t) == \E s \in sends : s.worker = w /\ s.target = t

\* the targets of a tick, which without a frame returns
Served(w) == IF frame = NoFrame THEN {} ELSE Enabled(w)

\* dispatchSend: nothing while the previous send to the target still runs
Launched(w, skipped) ==
    {[worker |-> w, target |-> t, setting |-> config[w][t], frame |-> frame,
      pc |-> "write", ok |-> FALSE] :
        t \in {u \in Served(w) \ skipped : socket[w][u] = "open" /\ ~Busy(w, u)}}

\* one tick over every enabled target but those whose universe does not encode,
\* which are skipped; one without a sender is an error.  The select may still
\* pick the ticker when the context is cancelled.
Tick(w, skipped) ==
    /\ w \in ticking
    /\ skipped \subseteq Served(w)
    /\ Cardinality(skipped) <= errors
    /\ errors' = errors - Cardinality(skipped)
    /\ sends' = sends \cup Launched(w, skipped)
    /\ health' = [t \in Targets |->
                    IF t \in Served(w) \ skipped /\ socket[w][t] = "none"
                    THEN [health[t] EXCEPT !.enabled = config[w][t]] ELSE health[t]]
    /\ UNCHANGED <<targets, lock, frame, wire, handler, run, requests, changes>>
    /\ UNCHANGED workerVars

\* sender.Write: on a closed sender it fails; on an open one it may
Write(s, ok) ==
    /\ s.pc = "write"
    /\ ok => socket[s.worker][s.target] = "open"
    /\ IF ok \/ socket[s.worker][s.target] = "closed" THEN UNCHANGED errors
       ELSE errors > 0 /\ errors' = errors - 1
    /\ sends' = (sends \ {s}) \cup {[s EXCEPT !.pc = "record", !.ok = ok]}
    /\ wire' = IF ok THEN [wire EXCEPT ![s.target] = s.frame] ELSE wire
    /\ UNCHANGED <<targets, lock, health, frame, handler, run, requests, changes>>
    /\ UNCHANGED workerVars

\* Fault: after an error busy stays set
FaultStuckBusy(s) ==
    /\ s.pc = "record"
    /\ s.ok
    /\ health' = RecordSend(health, s.target, s.setting, s.ok)
    /\ sends' = sends \ {s}
    /\ UNCHANGED <<targets, lock, frame, wire, handler, run>>
    /\ UNCHANGED workerVars
    /\ UNCHANGED boundVars

\* health.RecordSend, and busy is reset
Record(s) ==
    /\ s.pc = "record"
    /\ health' = RecordSend(health, s.target, s.setting, s.ok)
    /\ sends' = sends \ {s}
    /\ UNCHANGED <<targets, lock, frame, wire, handler, run>>
    /\ UNCHANGED workerVars
    /\ UNCHANGED boundVars

-----------------------------------------------------------------------------
(* The end of Run *)

\* the context is cancelled: nothing more is accepted, every worker's context
\* is cancelled with it
Cancel ==
    /\ run = "serving"
    /\ run' = "cancelled"
    /\ UNCHANGED <<targets, lock, sends, health, frame, wire, handler>>
    /\ UNCHANGED workerVars
    /\ UNCHANGED boundVars

\* Fault: the loop does not look at its context
FaultNoDone(w) == FALSE /\ UNCHANGED vars

\* a tick goroutine sees its context cancelled
TickEnds(w) ==
    /\ w \in ticking
    /\ run # "serving"
    /\ ticking' = ticking \ {w}
    /\ UNCHANGED <<targets, lock, worker, config, socket, sends, health, frame,
                   wire, handler, run>>
    /\ UNCHANGED boundVars

\* Run stops the worker under d.mu and returns, whatever handlers still do
ShutDown ==
    /\ run = "cancelled"
    /\ lock = Free
    /\ Stop
    /\ run' = "returned"
    /\ UNCHANGED <<targets, lock, sends, health, frame, wire, handler>>
    /\ UNCHANGED boundVars

-----------------------------------------------------------------------------
SendStep(s) == (\E ok \in BOOLEAN : Write(s, ok)) \/ Record(s)
SendTo(t) == \E s \in sends : s.target = t /\ SendStep(s)

HandlerStep(h) ==
    \/ SetTarget(h)
    \/ StopWorker(h)
    \/ \E failed \in SUBSET Targets : StartWorker(h, failed)

Request(h) ==
    \E t \in Targets, setting \in {"on", "off"} : Accept(h, t, setting)

Ticks(w) == \E skipped \in SUBSET Targets : Tick(w, skipped)

Next ==
    \/ \E h \in Handlers : Request(h) \/ HandlerStep(h)
    \/ \E w \in Workers : Ticks(w) \/ TickEnds(w)
    \/ \E t \in Targets : SendTo(t)
    \/ \E f \in Frames \cup {NoFrame} : ChangeFrame(f)
    \/ Cancel
    \/ ShutDown

\* Tickers fire, goroutines run to their end (a write ends by its deadline),
\* and a mutex is handed to every waiter in the end.
Fairness ==
    /\ \A w \in Workers : WF_vars(Ticks(w)) /\ WF_vars(TickEnds(w))
    /\ \A t \in Targets : WF_vars(SendTo(t))
    /\ \A h \in Handlers : SF_vars(HandlerStep(h))
    /\ SF_vars(ShutDown)

Spec == Init /\ [][Next]_vars /\ Fairness

-----------------------------------------------------------------------------
(* Properties *)

Sends == [worker : Workers, target : Targets, setting : Settings, frame : Frames,
          pc : {"write", "record"}, ok : BOOLEAN]

\* Every variable has its type.
TypeOK ==
    /\ targets \in [Targets -> Settings]
    /\ lock \in Handlers \cup {Free}
    /\ worker \in Workers
    /\ ticking \subseteq Workers
    /\ config \in [Workers -> [Targets -> Settings]]
    /\ socket \in [Workers -> [Targets -> {"none", "open", "closed"}]]
    /\ sends \subseteq Sends
    /\ health \in [Targets -> [enabled : Settings, reachable : BOOLEAN]]
    /\ frame \in Frames \cup {NoFrame}
    /\ wire \in [Targets -> Frames \cup {"none"}]
    /\ handler \in [Handlers -> [pc : {"idle", "lock", "stop", "start"},
                                 target : Targets \cup {"none"}, setting : Settings]]
    /\ run \in {"serving", "cancelled", "returned"}
    /\ requests \in 0 .. MaxRequests
    /\ errors \in 0 .. MaxErrors
    /\ changes \in 0 .. MaxFrames

\* sends that can still put a packet on the wire
Live == {s \in sends : s.pc = "write" /\ socket[s.worker][s.target] = "open"}

\* At most one send to a target can still reach the wire, also across the
\* replacement of the worker: no packet overtakes an earlier one
\* (dispatchSend: "at most one in-flight send goroutine per target").
OneLiveSend ==
    \A s1, s2 \in Live : s1.target = s2.target => s1 = s2

\* Once a request that disables a target is answered, nothing more is sent to
\* it, not even by the goroutines of the worker before (handleSetEnabled).
DisabledIsSilent ==
    \A s \in Live : targets[s.target] = "on" \/ lock # Free

\* Only the latest worker ticks, and none while it is being replaced.
OneWorkerTicks ==
    /\ ticking \subseteq {worker}
    /\ (\E h \in Handlers : handler[h].pc = "start") => ticking = {}

\* Requests that start and stop the worker from several connections never leave
\* two workers ticking, two sends to one target, or a disabled output sending.
ServedByOne ==
  /\ TypeOK
  /\ OneLiveSend
  /\ DisabledIsSilent
  /\ OneWorkerTicks

\* A blackout reaches every target: when the frame stays dark, an enabled
\* target whose sender is connected is sent it, and nothing lit after it, once
\* encodings and writes no longer fail.
DarkReachesTargets ==
    \A t \in Targets :
        <>[](/\ frame = "dark" /\ run = "serving" /\ targets[t] = "on"
             /\ socket[worker][t] = "open")
            => <>[](wire[t] = "dark")

\* A cancelled Run returns, whatever requests hold or wait for d.mu; it does
\* not await them.  After it has returned every goroutine ends, also those of a
\* worker that such a request started after Run had stopped the last one (Run:
\* "a clean shutdown with no goroutine leak", which holds in the end only).
ShutdownDrains ==
    /\ (run = "cancelled") ~> (run = "returned")
    /\ (run = "returned") ~> [](ticking = {} /\ sends = {})
=============================================================================
