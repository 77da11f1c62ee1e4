------------------------ MODULE ScriptSessionProofs -------------------------
(***************************************************************************)
(* Proof that what is told about a script run is what happened to it       *)
(* (OutcomesAreTrue), that a live run can be found by "script stop"        *)
(* (LiveRunIsFindable), and that a stopped script is quiet, for any number *)
(* of runs, stops, scripts and frames, whatever the deadline, the memory   *)
(* watch, the debugger and the child do meanwhile.                         *)
(*                                                                         *)
(* What carries the proof is who may kill: a kill comes after a recorded   *)
(* reason or with a context that is over, and neither is taken back while  *)
(* the run can still be judged.                                            *)
(***************************************************************************)
EXTENDS ScriptSession, SequenceTheorems, TLAPS

Pcs ==
  {"idle", "loaded", "registered", "armed", "started", "attaching", "reading", "executing",
   "waiting", "decided", "closed", "deregistered", "published", "ended"}

Before == {"idle", "loaded", "registered", "armed"}

Live == {"registered", "armed", "started", "attaching", "reading", "executing", "waiting", "decided"}

Over == {"closed", "deregistered", "published", "ended"}

Told == {"published", "ended"}

Edits == SUBSET (1..MaxEdits)

Statuses == {"succeeded", "failed", "terminated"}

RunType ==
  [pc : Pcs, mode : {"run", "debug"}, snap : SUBSET (1..MaxEdits),
   term : {None, "user", "memory", "scope", "rate"}, cancel : BOOLEAN, job : BOOLEAN,
   bridge : {"none", "open", "closed"}, ctx : {"live", "canceled", "deadline"}, tokens : 0..Rate,
   call : {None, "edit"}, status : {None, "succeeded", "failed", "terminated"},
   err : BOOLEAN, done : BOOLEAN, replaced : BOOLEAN]

ChildType ==
  [state : {"none", "running", "paused", "exited", "crashed", "oom", "killed"},
   pipe : Seq(FrameKinds), todo : Seq(FrameKinds), finished : BOOLEAN]

WatchType == {"off", "below", "above", "firing", "killing"}

StopType ==
  [pc : {"idle", "begun", "blocked", "answered", "ended", "refused"},
   run : Runs \cup {NoRunYet}, status : {None, "succeeded", "failed", "terminated"}]

\* A run q, its child c and its memory watch w belong together: there is no
\* child before the start and none that runs after the verdict, what was killed
\* has a reason for it, and a run that is over has let go of everything.
FitsOf(q, c, w) ==
  /\ q.pc \in Before => c.state = "none"
  /\ q.pc = "decided" => c.state \notin {"running", "paused"}
  /\ q.pc \in Over \cup {"decided"} => q.status # None
  /\ q.done <=> q.pc \in Over
  /\ q.pc \in Over => ~q.cancel /\ ~q.job /\ c.state = "none" /\ w = "off"
  /\ c.state = "killed" => q.term # None \/ q.ctx # "live"
  /\ q.pc = "decided" /\ c.state = "killed" => q.status = "terminated"
  /\ w = "killing" => q.term # None

\* The terminal event is published once, with the status of the run.
EventsOf(q, e) == e = IF q.pc \in Told THEN <<q.status>> ELSE <<>>

\* A stop has recorded its reason before it kills, and answers with the outcome
\* of a run that is over.
StopOf(s) ==
  LET r == stop[s].run IN
  /\ stop[s].pc \notin {"idle", "refused"} => r \in Runs
  /\ stop[s].pc = "begun" => run[r].term # None \/ run[r].pc \in Over
  /\ stop[s].pc \in {"answered", "ended"} =>
       run[r].pc \in Over /\ stop[s].status = (IF run[r].err THEN None ELSE run[r].status)

\* A live run that was not replaced is the registered one of its name.
FoundOf(r) == run[r].pc \in Live /\ ~run[r].replaced => registry[NameOf[r]] = r

RunInv ==
  /\ TypeOK
  /\ \A r \in Runs : FitsOf(run[r], child[r], watch[r])
  /\ \A r \in Runs : EventsOf(run[r], events[r])
  /\ \A s \in Stops : StopOf(s)
  /\ \A r \in Runs : FoundOf(r)

-----------------------------------------------------------------------------
(* Frames *)

\* What a step of a run may not take back.
Keeps(p, q) ==
  /\ p.pc \in Over => q.pc \in Over /\ q.status = p.status /\ q.err = p.err
  /\ q.pc \in Told <=> p.pc \in Told
  /\ p.term # None => q.term # None \/ q.pc \in Over
  /\ q.pc \in Live => p.pc \in Live /\ (p.replaced => q.replaced)

\* The types, by component.
LEMMA TypesOf ==
  ASSUME TypeOK
  PROVE  /\ run \in [Runs -> RunType] /\ child \in [Runs -> ChildType]
         /\ watch \in [Runs -> WatchType] /\ stop \in [Stops -> StopType]
         /\ events \in [Runs -> Seq(Statuses)] /\ registry \in [Names -> Runs \cup {NoRunYet}]
         /\ file \in Edits /\ edits \in 0..MaxEdits
BY DEF TypeOK, RunType, Pcs, ChildType, WatchType, StopType, Edits, Statuses

\* The same, put together.
LEMMA TypesMake ==
  ASSUME run' \in [Runs -> RunType], child' \in [Runs -> ChildType],
         watch' \in [Runs -> WatchType], stop' \in [Stops -> StopType],
         events' \in [Runs -> Seq(Statuses)], registry' \in [Names -> Runs \cup {NoRunYet}],
         file' \in Edits, edits' \in 0..MaxEdits
  PROVE  TypeOK'
BY DEF TypeOK, RunType, Pcs, ChildType, WatchType, StopType, Edits, Statuses

\* A step of one run, its child and its watch, with what the stops know of it.
LEMMA RunCore ==
  ASSUME RunInv, NEW r \in Runs, NEW q \in RunType, NEW c \in ChildType, NEW w \in WatchType,
         run' = [run EXCEPT ![r] = q], child' = [child EXCEPT ![r] = c],
         watch' = [watch EXCEPT ![r] = w],
         file' \in Edits, edits' \in 0..MaxEdits, UNCHANGED <<registry, events>>,
         stop' \in [Stops -> StopType], \A s \in Stops : StopOf(s)',
         FitsOf(q, c, w), Keeps(run[r], q)
  PROVE  RunInv'
<1>1. /\ run \in [Runs -> RunType] /\ child \in [Runs -> ChildType]
      /\ watch \in [Runs -> WatchType] /\ stop \in [Stops -> StopType]
      /\ events \in [Runs -> Seq(Statuses)] /\ registry \in [Names -> Runs \cup {NoRunYet}]
  BY TypesOf DEF RunInv
<1>2. /\ run' \in [Runs -> RunType] /\ run'[r] = q /\ \A x \in Runs \ {r} : run'[x] = run[x]
      /\ child' \in [Runs -> ChildType] /\ child'[r] = c /\ \A x \in Runs \ {r} : child'[x] = child[x]
      /\ watch' \in [Runs -> WatchType] /\ watch'[r] = w /\ \A x \in Runs \ {r} : watch'[x] = watch[x]
  BY <1>1
<1>3. TypeOK'
  BY <1>1, <1>2, TypesMake
<1>4. \A x \in Runs : FitsOf(run'[x], child'[x], watch'[x])
  BY <1>2 DEF RunInv
<1>5. ASSUME NEW x \in Runs PROVE EventsOf(run'[x], events'[x])
  <2>1. EventsOf(run[x], events[x])
    BY DEF RunInv
  <2>2. CASE x = r
    BY <1>2, <2>1, <2>2 DEF EventsOf, Keeps, Told, Over
  <2> QED
    BY <1>2, <2>1, <2>2
<1>6. ASSUME NEW x \in Runs PROVE FoundOf(x)'
  <2>1. FoundOf(x)
    BY DEF RunInv
  <2>2. CASE x = r
    <3>1. run[r].replaced \in BOOLEAN /\ q.replaced \in BOOLEAN
      BY <1>1 DEF RunType
    <3> QED
      BY <1>2, <2>1, <2>2, <3>1 DEF FoundOf, Keeps
  <2> QED
    BY <1>2, <2>1, <2>2 DEF FoundOf
<1> QED
  BY <1>3, <1>4, <1>5, <1>6 DEF RunInv

\* A step of one run, its child and its watch.
LEMMA RunSteps ==
  ASSUME RunInv, NEW r \in Runs, NEW q \in RunType, NEW c \in ChildType, NEW w \in WatchType,
         run' = [run EXCEPT ![r] = q], child' = [child EXCEPT ![r] = c],
         watch' = [watch EXCEPT ![r] = w],
         file' \in Edits, edits' \in 0..MaxEdits, UNCHANGED <<registry, stop, events>>,
         FitsOf(q, c, w), Keeps(run[r], q)
  PROVE  RunInv'
<1>1. run \in [Runs -> RunType] /\ stop \in [Stops -> StopType]
  BY TypesOf DEF RunInv
<1>2. run'[r] = q /\ \A x \in Runs \ {r} : run'[x] = run[x]
  BY <1>1
<1>3. ASSUME NEW s \in Stops PROVE StopOf(s)'
  <2>1. StopOf(s)
    BY DEF RunInv
  <2>2. CASE stop[s].run = r
    BY <1>2, <2>1, <2>2 DEF StopOf, Keeps
  <2>3. CASE stop[s].run # r
    BY <1>2, <2>1, <2>3 DEF StopOf
  <2> QED
    BY <2>2, <2>3
<1> QED
  BY <1>1, <1>3, RunCore

\* A step of one run and its child that one stop takes.
LEMMA RunAndStop ==
  ASSUME RunInv, NEW r \in Runs, NEW q \in RunType, run' = [run EXCEPT ![r] = q],
         NEW c \in ChildType, child' = [child EXCEPT ![r] = c],
         NEW s \in Stops, NEW t \in StopType, stop' = [stop EXCEPT ![s] = t],
         t.run = r, t.pc \in {"begun", "blocked"}, t.pc = "begun" => q.term # None \/ q.pc \in Over,
         UNCHANGED <<file, edits, watch, registry, events>>,
         FitsOf(q, c, watch[r]), Keeps(run[r], q)
  PROVE  RunInv'
<1>1. /\ run \in [Runs -> RunType] /\ stop \in [Stops -> StopType] /\ watch \in [Runs -> WatchType]
      /\ file \in Edits /\ edits \in 0..MaxEdits
  BY TypesOf DEF RunInv
<1>2. /\ run'[r] = q /\ \A x \in Runs \ {r} : run'[x] = run[x]
      /\ stop' \in [Stops -> StopType]
      /\ stop'[s] = t /\ \A x \in Stops \ {s} : stop'[x] = stop[x]
      /\ watch[r] \in WatchType /\ watch' = [watch EXCEPT ![r] = watch[r]]
  BY <1>1
<1>3. ASSUME NEW x \in Stops PROVE StopOf(x)'
  <2>1. StopOf(x)
    BY DEF RunInv
  <2>2. CASE x = s
    BY <1>2, <2>2 DEF StopOf
  <2>3. CASE x # s /\ stop[x].run = r
    BY <1>2, <2>1, <2>3 DEF StopOf, Keeps
  <2>4. CASE x # s /\ stop[x].run # r
    BY <1>2, <2>1, <2>4 DEF StopOf
  <2> QED
    BY <2>2, <2>3, <2>4
<1> QED
  BY <1>1, <1>2, <1>3, RunCore

\* A step of one run alone.
LEMMA RunMoves ==
  ASSUME RunInv, NEW r \in Runs, NEW q \in RunType, run' = [run EXCEPT ![r] = q],
         file' \in Edits, edits' \in 0..MaxEdits, UNCHANGED <<child, watch, registry, stop, events>>,
         FitsOf(q, child[r], watch[r]), Keeps(run[r], q)
  PROVE  RunInv'
<1>1. child \in [Runs -> ChildType] /\ watch \in [Runs -> WatchType]
  BY TypesOf DEF RunInv
<1>2. /\ child[r] \in ChildType /\ child' = [child EXCEPT ![r] = child[r]]
      /\ watch[r] \in WatchType /\ watch' = [watch EXCEPT ![r] = watch[r]]
  BY <1>1
<1> QED
  BY <1>2, RunSteps

\* A step of one run and its child.
LEMMA RunAndChild ==
  ASSUME RunInv, NEW r \in Runs, NEW q \in RunType, run' = [run EXCEPT ![r] = q],
         NEW c \in ChildType, child' = [child EXCEPT ![r] = c],
         UNCHANGED <<file, edits, watch, registry, stop, events>>,
         FitsOf(q, c, watch[r]), Keeps(run[r], q)
  PROVE  RunInv'
<1>1. watch \in [Runs -> WatchType] /\ file \in Edits /\ edits \in 0..MaxEdits
  BY TypesOf DEF RunInv
<1>2. watch[r] \in WatchType /\ watch' = [watch EXCEPT ![r] = watch[r]]
  BY <1>1
<1> QED
  BY <1>1, <1>2, RunSteps

\* A run keeps what it has.
LEMMA KeepsItself == ASSUME NEW p PROVE Keeps(p, p)
BY DEF Keeps

\* A step of the child alone.
LEMMA ChildMoves ==
  ASSUME RunInv, NEW r \in Runs, NEW c \in ChildType, child' = [child EXCEPT ![r] = c],
         UNCHANGED <<file, edits, run, watch, registry, stop, events>>,
         FitsOf(run[r], c, watch[r])
  PROVE  RunInv'
<1>1. run \in [Runs -> RunType]
  BY TypesOf DEF RunInv
<1>2. run[r] \in RunType /\ run' = [run EXCEPT ![r] = run[r]]
  BY <1>1
<1> QED
  BY <1>2, KeepsItself, RunAndChild

-----------------------------------------------------------------------------
(* The goroutine of a run *)

\* What a step of run r starts from.
LEMMA Own ==
  ASSUME RunInv, NEW r \in Runs
  PROVE  /\ run \in [Runs -> RunType] /\ run[r] \in RunType
         /\ child \in [Runs -> ChildType] /\ child[r] \in ChildType
         /\ watch \in [Runs -> WatchType] /\ watch[r] \in WatchType
         /\ file \in Edits /\ edits \in 0..MaxEdits
         /\ FitsOf(run[r], child[r], watch[r])
<1>1. /\ run \in [Runs -> RunType] /\ child \in [Runs -> ChildType] /\ watch \in [Runs -> WatchType]
      /\ file \in Edits /\ edits \in 0..MaxEdits
  BY TypesOf DEF RunInv
<1> QED
  BY <1>1 DEF RunInv

\* "script run" and "script debug".
LEMMA Loads ==
  ASSUME RunInv, NEW r \in Runs, runScriptRun(r) \/ runScriptDebug(r)
  PROVE  RunInv'
<1>0. run[r] \in RunType
  BY Own
<1>1. PICK m \in {"run", "debug"} :
        /\ At(r, "idle")
        /\ run' = [run EXCEPT ![r].pc = "loaded", ![r].snap = file, ![r].mode = m]
        /\ UNCHANGED <<file, edits, registry, child, watch, stop, events>>
  BY DEF runScriptRun, runScriptDebug, Invoked
<1> DEFINE q == [run[r] EXCEPT !.pc = "loaded", !.snap = file, !.mode = m]
<1>2. run[r].pc = "idle" /\ run' = [run EXCEPT ![r] = q]
  BY <1>1, Own DEF At
<1>3. q \in RunType
  BY <1>0, Own DEF RunType, Pcs, Edits
<1>4. /\ q.pc = "loaded" /\ q.status = run[r].status /\ q.done = run[r].done /\ q.cancel = run[r].cancel
      /\ q.job = run[r].job /\ q.term = run[r].term /\ q.ctx = run[r].ctx /\ q.err = run[r].err
  BY Own DEF RunType
<1> HIDE DEF q
<1>5. FitsOf(q, child[r], watch[r])
  BY <1>2, <1>4, Own DEF FitsOf, Before, Over
<1>6. Keeps(run[r], q)
  BY <1>2, <1>4 DEF Keeps, Over, Told, Live
<1> QED
  BY <1>1, <1>2, <1>3, <1>5, <1>6, Own, RunMoves

\* The deadline is set.
LEMMA Arms ==
  ASSUME RunInv, NEW r \in Runs, armDeadline(r)
  PROVE  RunInv'
<1>0. run[r] \in RunType
  BY Own
<1> DEFINE q == [run[r] EXCEPT !.cancel = TRUE, !.pc = "armed"]
<1>1. /\ run[r].pc = "registered" /\ run' = [run EXCEPT ![r] = q]
      /\ UNCHANGED <<file, edits, registry, child, watch, stop, events>>
  BY Own DEF armDeadline, At
<1>2. q \in RunType
  BY <1>0, Own DEF RunType, Pcs
<1>3. /\ q.pc = "armed" /\ q.status = run[r].status /\ q.done = run[r].done /\ q.replaced = run[r].replaced
      /\ q.job = run[r].job /\ q.term = run[r].term /\ q.ctx = run[r].ctx /\ q.err = run[r].err
  BY Own DEF RunType
<1> HIDE DEF q
<1>4. FitsOf(q, child[r], watch[r])
  BY <1>1, <1>3, Own DEF FitsOf, Before, Over
<1>5. Keeps(run[r], q)
  BY <1>1, <1>3 DEF Keeps, Over, Told, Live
<1> QED
  BY <1>1, <1>2, <1>4, <1>5, Own, RunMoves

\* A child is started, or the run fails at once.
LEMMA Starts ==
  ASSUME RunInv, NEW r \in Runs, startChild(r)
  PROVE  RunInv'
<1>0. run[r] \in RunType
  BY Own
<1>1. run[r].pc = "armed" /\ UNCHANGED <<file, edits, registry, watch, stop, events>>
  BY DEF startChild, At
<1>2. CASE /\ run' = [run EXCEPT ![r].pc = "started"]
           /\ \E source \in Sources[r] :
                child' = [child EXCEPT ![r].state = IF run[r].mode = "debug" THEN "paused" ELSE "running",
                                       ![r].todo = source]
  <2>1. PICK source \in Sources[r] :
          child' = [child EXCEPT ![r].state = IF run[r].mode = "debug" THEN "paused" ELSE "running",
                                 ![r].todo = source]
    BY <1>2
  <2>2. source \in Seq(FrameKinds)
    <3>1. source \in Seq(FrameKinds \ {"done"})
      BY SessionAssumption
    <3> QED
      BY <3>1
  <2> DEFINE q == [run[r] EXCEPT !.pc = "started"]
             c == [child[r] EXCEPT !.state = IF run[r].mode = "debug" THEN "paused" ELSE "running",
                                   !.todo = source]
  <2>3. run' = [run EXCEPT ![r] = q] /\ child' = [child EXCEPT ![r] = c]
    BY <1>2, <2>1, Own
  <2>4. q \in RunType
    BY <1>0, Own DEF RunType, Pcs
  <2>5. c \in ChildType
    BY <2>2, Own DEF ChildType
  <2>6. /\ q.pc = "started" /\ q.status = run[r].status /\ q.done = run[r].done /\ q.err = run[r].err
        /\ q.replaced = run[r].replaced /\ q.term = run[r].term
        /\ c.state \in {"paused", "running"}
    BY Own DEF RunType, ChildType
  <2> HIDE DEF q, c
  <2>7. FitsOf(q, c, watch[r])
    BY <1>1, <2>6, Own DEF FitsOf, Before, Over
  <2>8. Keeps(run[r], q)
    BY <1>1, <2>6 DEF Keeps, Over, Told, Live
  <2> QED
    BY <1>1, <2>3, <2>4, <2>5, <2>7, <2>8, RunAndChild
<1>3. CASE /\ run' = [run EXCEPT ![r].pc = "decided", ![r].err = TRUE, ![r].status = "failed"]
           /\ UNCHANGED child
  <2> DEFINE q == [run[r] EXCEPT !.pc = "decided", !.err = TRUE, !.status = "failed"]
  <2>1. run' = [run EXCEPT ![r] = q]
    BY <1>3, Own
  <2>2. q \in RunType
    BY <1>0, Own DEF RunType, Pcs
  <2>3. /\ q.pc = "decided" /\ q.status = "failed" /\ q.done = run[r].done
        /\ q.replaced = run[r].replaced /\ q.term = run[r].term /\ q.ctx = run[r].ctx
    BY Own DEF RunType
  <2> HIDE DEF q
  <2>4. FitsOf(q, child[r], watch[r])
    BY <1>1, <2>3, Own DEF FitsOf, Before, Over, None
  <2>5. Keeps(run[r], q)
    BY <1>1, <2>3 DEF Keeps, Over, Told, Live
  <2> QED
    BY <1>1, <1>3, <2>1, <2>2, <2>4, <2>5, Own, RunMoves
<1> QED
  BY <1>2, <1>3, Zenon DEF startChild

\* The job object, and the memory watch with it.
LEMMA Assigns ==
  ASSUME RunInv, NEW r \in Runs, assignJob(r)
  PROVE  RunInv'
<1>0. run[r] \in RunType
  BY Own
<1>1. run[r].pc = "started" /\ UNCHANGED <<file, edits, registry, child, stop, events>>
  BY DEF assignJob, At
<1>2. PICK ok \in BOOLEAN :
        /\ run' = [run EXCEPT ![r].job = ok,
                              ![r].pc = IF run[r].mode = "debug" THEN "attaching" ELSE "reading"]
        /\ watch' = [watch EXCEPT ![r] = IF ok THEN "below" ELSE @]
  <2>1. Jobs[r] \subseteq BOOLEAN
    BY SessionAssumption
  <2> QED
    BY <2>1 DEF assignJob
<1> DEFINE q == [run[r] EXCEPT !.job = ok, !.pc = IF run[r].mode = "debug" THEN "attaching" ELSE "reading"]
           w == IF ok THEN "below" ELSE watch[r]
<1>3. /\ run' = [run EXCEPT ![r] = q] /\ watch' = [watch EXCEPT ![r] = w]
      /\ child' = [child EXCEPT ![r] = child[r]]
  BY <1>1, <1>2, Own
<1>4. q \in RunType /\ w \in WatchType
  <2>1. q \in RunType
    <3>1. (IF run[r].mode = "debug" THEN "attaching" ELSE "reading") \in Pcs
      BY DEF Pcs
    <3> QED
      BY <1>0, <3>1 DEF RunType
  <2>2. w \in WatchType
    BY Own DEF WatchType
  <2> QED
    BY <2>1, <2>2
<1>5. /\ q.pc \in {"attaching", "reading"} /\ q.status = run[r].status /\ q.done = run[r].done
      /\ q.err = run[r].err /\ q.replaced = run[r].replaced /\ q.term = run[r].term /\ q.ctx = run[r].ctx
      /\ w = "killing" => watch[r] = "killing"
  BY Own DEF RunType
<1> HIDE DEF q, w
<1>6. FitsOf(q, child[r], w)
  BY <1>1, <1>5, Own DEF FitsOf, Before, Over
<1>7. Keeps(run[r], q)
  BY <1>1, <1>5 DEF Keeps, Over, Told, Live
<1> QED
  BY <1>1, <1>3, <1>4, <1>6, <1>7, Own, RunSteps

\* The inspector is connected, or not.
LEMMA Attaches ==
  ASSUME RunInv, NEW r \in Runs, NewDebugBridge(r)
  PROVE  RunInv'
<1>0. run[r] \in RunType
  BY Own
<1>1. run[r].pc = "attaching" /\ UNCHANGED <<file, edits, registry, watch, stop, events>>
  BY DEF NewDebugBridge, At
<1>2. PICK b \in {"open", run[r].bridge}, a \in {"running", child[r].state} :
        /\ run' = [run EXCEPT ![r].bridge = b, ![r].pc = "reading"]
        /\ child' = [child EXCEPT ![r].state = a]
  <2>1. CASE /\ run' = [run EXCEPT ![r].bridge = "open", ![r].pc = "reading"]
             /\ child' = [child EXCEPT ![r].state = "running"]
    BY <2>1
  <2>2. CASE /\ run' = [run EXCEPT ![r].pc = "reading"]
             /\ UNCHANGED child
    <3>1. child' = [child EXCEPT ![r].state = child[r].state]
      BY <2>2, Own DEF ChildType
    <3>2. run' = [run EXCEPT ![r].bridge = run[r].bridge, ![r].pc = "reading"]
      BY <2>2, Own DEF RunType
    <3> QED
      BY <3>1, <3>2
  <2> QED
    BY <2>1, <2>2, Zenon DEF NewDebugBridge
<1> DEFINE q == [run[r] EXCEPT !.bridge = b, !.pc = "reading"]
           c == [child[r] EXCEPT !.state = a]
<1>3. run' = [run EXCEPT ![r] = q] /\ child' = [child EXCEPT ![r] = c]
  BY <1>2, Own
<1>4. q \in RunType /\ c \in ChildType
  <2>1. q \in RunType
    <3>1. b \in {"none", "open", "closed"}
      BY <1>0 DEF RunType
    <3> QED
      BY <1>0, <3>1 DEF RunType, Pcs
  <2>2. c \in ChildType
    <3>1. child[r] \in ChildType
      BY Own
    <3> QED
      BY <3>1 DEF ChildType
  <2> QED
    BY <2>1, <2>2
<1>5. /\ q.pc = "reading" /\ q.status = run[r].status /\ q.done = run[r].done
      /\ q.err = run[r].err /\ q.replaced = run[r].replaced /\ q.term = run[r].term /\ q.ctx = run[r].ctx
      /\ c.state = "killed" => child[r].state = "killed"
  BY Own DEF RunType, ChildType
<1> HIDE DEF q, c
<1>6. FitsOf(q, c, watch[r])
  BY <1>1, <1>5, Own DEF FitsOf, Before, Over
<1>7. Keeps(run[r], q)
  BY <1>1, <1>5 DEF Keeps, Over, Told, Live
<1> QED
  BY <1>1, <1>3, <1>4, <1>6, <1>7, RunAndChild

\* A run is registered; the one that had its name is a replaced one from then on.
LEMMA Registers ==
  ASSUME RunInv, NEW r \in Runs, registerActiveRun(r)
  PROVE  RunInv'
<1> DEFINE old == registry[NameOf[r]]
<1>1. /\ run[r].pc = "loaded"
      /\ registry' = [registry EXCEPT ![NameOf[r]] = r]
      /\ run' = [x \in Runs |->
                   IF x = r THEN [run[x] EXCEPT !.pc = "registered"]
                   ELSE IF x = old THEN [run[x] EXCEPT !.replaced = TRUE] ELSE run[x]]
      /\ UNCHANGED <<file, edits, child, watch, stop, events>>
  BY DEF registerActiveRun, At
<1> HIDE DEF old
<1>2. ASSUME NEW x \in Runs
      PROVE  /\ run'[x] \in RunType
             /\ run'[x].pc = IF x = r THEN "registered" ELSE run[x].pc
             /\ run'[x].status = run[x].status /\ run'[x].done = run[x].done
             /\ run'[x].cancel = run[x].cancel /\ run'[x].job = run[x].job
             /\ run'[x].term = run[x].term /\ run'[x].ctx = run[x].ctx /\ run'[x].err = run[x].err
             /\ run'[x].replaced = IF x # r /\ x = old THEN TRUE ELSE run[x].replaced
  <2>1. run[x] \in RunType
    BY Own
  <2>2. CASE x = r
    <3>1. run'[x] = [run[x] EXCEPT !.pc = "registered"]
      BY <1>1, <2>2
    <3>2. [run[x] EXCEPT !.pc = "registered"] \in RunType
      BY <2>1 DEF RunType, Pcs
    <3> QED
      BY <2>1, <2>2, <3>1, <3>2 DEF RunType
  <2>3. CASE x # r /\ x = old
    <3>1. run'[x] = [run[x] EXCEPT !.replaced = TRUE]
      BY <1>1, <2>3
    <3> DEFINE p == [run[x] EXCEPT !.replaced = TRUE]
    <3>2. p \in RunType
      BY <2>1 DEF RunType
    <3>3. /\ p.pc = run[x].pc /\ p.status = run[x].status /\ p.done = run[x].done
          /\ p.cancel = run[x].cancel /\ p.job = run[x].job /\ p.term = run[x].term
          /\ p.ctx = run[x].ctx /\ p.err = run[x].err /\ p.replaced = TRUE
      BY <2>1 DEF RunType
    <3> HIDE DEF p
    <3> QED
      BY <2>3, <3>1, <3>2, <3>3 DEF p
  <2>4. CASE x # r /\ x # old
    <3>1. run'[x] = run[x]
      BY <1>1, <2>4
    <3> QED
      BY <2>1, <2>4, <3>1
  <2> QED
    BY <2>2, <2>3, <2>4
<1>3. /\ registry \in [Names -> Runs \cup {NoRunYet}] /\ stop \in [Stops -> StopType]
      /\ events \in [Runs -> Seq(Statuses)] /\ NameOf \in [Runs \cup Stops -> Names]
  BY TypesOf, SessionAssumption DEF RunInv
<1>4. TypeOK'
  <2>1. run' = [x \in Runs |-> run'[x]]
    BY <1>1
  <2>2. run' \in [Runs -> RunType]
    BY <1>2, <2>1
  <2>3. registry' \in [Names -> Runs \cup {NoRunYet}]
    BY <1>1, <1>3
  <2> QED
    BY <1>1, <1>3, <2>2, <2>3, Own, TypesMake
<1>5. ASSUME NEW x \in Runs PROVE FitsOf(run'[x], child'[x], watch'[x])
  <2>1. FitsOf(run[x], child[x], watch[x])
    BY Own
  <2>2. child'[x] = child[x] /\ watch'[x] = watch[x]
    BY <1>1
  <2>3. CASE x = r
    <3> DEFINE q == run'[x]
    <3>1. /\ q.pc = "registered" /\ q.term = run[x].term /\ q.ctx = run[x].ctx /\ q.done = run[x].done
          /\ run[x].pc = "loaded"
      BY <1>1, <1>2, <2>3
    <3> HIDE DEF q
    <3>2. FitsOf(q, child[x], watch[x])
      BY <2>1, <3>1 DEF FitsOf, Before, Over
    <3> QED
      BY <2>2, <3>2 DEF q
  <2>4. CASE x # r
    BY <1>2, <2>1, <2>2, <2>4 DEF FitsOf
  <2> QED
    BY <2>3, <2>4
<1>6. ASSUME NEW x \in Runs PROVE EventsOf(run'[x], events'[x])
  <2>1. EventsOf(run[x], events[x])
    BY DEF RunInv
  <2> QED
    BY <1>1, <1>2, <2>1 DEF EventsOf, Told
<1>7. ASSUME NEW s \in Stops PROVE StopOf(s)'
  <2>1. StopOf(s)
    BY DEF RunInv
  <2>2. stop'[s] = stop[s]
    BY <1>1
  <2>3. CASE stop[s].run \in Runs
    BY <1>1, <1>2, <2>1, <2>2, <2>3 DEF StopOf, Over
  <2>4. CASE stop[s].run \notin Runs
    BY <1>3, <2>1, <2>2, <2>4 DEF StopOf, StopType
  <2> QED
    BY <2>3, <2>4
<1>8. ASSUME NEW x \in Runs PROVE FoundOf(x)'
  <2>1. FoundOf(x)
    BY DEF RunInv
  <2>2. NameOf[x] \in Names /\ NameOf[r] \in Names
    BY <1>3
  <2>3. CASE x = r
    BY <1>1, <1>3, <2>2, <2>3 DEF FoundOf
  <2>4. CASE x # r /\ NameOf[x] # NameOf[r]
    BY <1>1, <1>2, <1>3, <2>1, <2>2, <2>4 DEF FoundOf
  <2>5. CASE x # r /\ NameOf[x] = NameOf[r]
    BY <1>2, <2>1, <2>5 DEF FoundOf, old
  <2> QED
    BY <2>3, <2>4, <2>5
<1> QED
  BY <1>4, <1>5, <1>6, <1>7, <1>8 DEF RunInv

-----------------------------------------------------------------------------
(* Termination *)

\* A record of a run that differs only in what it says of the reason, which it
\* has if the run had one.
Marks(p, q) ==
  /\ q.pc = p.pc /\ q.status = p.status /\ q.done = p.done /\ q.cancel = p.cancel /\ q.job = p.job
  /\ q.ctx = p.ctx /\ q.err = p.err /\ q.replaced = p.replaced
  /\ p.term # None => q.term # None

\* Recording a reason leaves the run one.
LEMMA Begins ==
  ASSUME NEW p \in RunType, NEW reason \in {"user", "memory", "scope", "rate"}
  PROVE  /\ beginTermination(p, reason) \in RunType
         /\ Marks(p, beginTermination(p, reason))
         /\ beginTermination(p, reason).term # None
<1>1. CASE p.term # None
  BY <1>1 DEF beginTermination, Marks
<1>2. CASE p.term = None
  <2> DEFINE q == [p EXCEPT !.term = reason]
  <2>1. beginTermination(p, reason) = q
    BY <1>2 DEF beginTermination
  <2>2. q \in RunType
    BY DEF RunType
  <2>3. /\ q.pc = p.pc /\ q.status = p.status /\ q.done = p.done /\ q.cancel = p.cancel /\ q.job = p.job
        /\ q.ctx = p.ctx /\ q.err = p.err /\ q.replaced = p.replaced /\ q.term = reason
    BY DEF RunType
  <2> HIDE DEF q
  <2> QED
    BY <2>1, <2>2, <2>3, <1>2 DEF None, Marks
<1> QED
  BY <1>1, <1>2

\* What a record may say without the run and its child ceasing to fit.
LEMMA MarkedFits ==
  ASSUME RunInv, NEW r \in Runs, NEW q, Marks(run[r], q)
  PROVE  FitsOf(q, child[r], watch[r]) /\ Keeps(run[r], q)
BY Own DEF Marks, FitsOf, Keeps, Over, Told, Live

\* Bridge, context and child, once the reason is recorded.
LEMMA Terminates ==
  ASSUME RunInv, NEW r \in Runs, NEW p \in RunType, Marks(run[r], p), terminate(r, p),
         p.term # None \/ p.pc \in Over
  PROVE  \E q \in RunType, c \in ChildType :
           /\ run' = [run EXCEPT ![r] = q] /\ child' = [child EXCEPT ![r] = c]
           /\ FitsOf(q, c, watch[r]) /\ Keeps(run[r], q)
           /\ q.term = p.term /\ q.pc = p.pc
<1> DEFINE b == CloseBridge(p.bridge)
           x == IF p.cancel /\ p.ctx = "live" THEN "canceled" ELSE p.ctx
           a == IF (p.job \/ p.cancel) /\ Alive(r) THEN "killed" ELSE child[r].state
           q == [p EXCEPT !.bridge = b, !.ctx = x]
           c == [child[r] EXCEPT !.state = a]
<1>1. run' = [run EXCEPT ![r] = q] /\ child' = [child EXCEPT ![r] = c]
  BY Own DEF terminate
<1>2. q \in RunType
  <2>1. b \in {"none", "open", "closed"}
    BY DEF RunType, CloseBridge
  <2>2. x \in {"live", "canceled", "deadline"}
    BY DEF RunType
  <2> HIDE DEF b, x
  <2> QED
    BY <2>1, <2>2 DEF RunType
<1>3. child[r] \in ChildType
  BY Own
<1>4. c \in ChildType
  <2>1. a \in {"none", "running", "paused", "exited", "crashed", "oom", "killed"}
    BY <1>3 DEF ChildType
  <2> HIDE DEF a
  <2> QED
    BY <1>3, <2>1 DEF ChildType
<1>5. /\ q.pc = p.pc /\ q.status = p.status /\ q.done = p.done /\ q.cancel = p.cancel /\ q.job = p.job
      /\ q.err = p.err /\ q.replaced = p.replaced /\ q.term = p.term
      /\ q.ctx = p.ctx \/ q.ctx = "canceled"
  BY DEF RunType
<1>6. c.state = child[r].state \/ (c.state = "killed" /\ child[r].state \in {"running", "paused"})
  BY <1>3 DEF ChildType, Alive
<1> HIDE DEF b, x, a, q, c
<1>7. FitsOf(p, child[r], watch[r]) /\ Keeps(run[r], p)
  BY MarkedFits
<1>8. FitsOf(q, c, watch[r])
  BY <1>5, <1>6, <1>7 DEF FitsOf, Before, Over
<1>9. Keeps(run[r], q)
  BY <1>5, <1>7 DEF Keeps
<1> QED
  BY <1>1, <1>2, <1>4, <1>5, <1>8, <1>9

-----------------------------------------------------------------------------
(* The dispatch loop *)

Loop == {"started", "attaching", "reading", "executing", "waiting"}

\* Within the loop a run keeps fitting its child.
LEMMA LoopFits ==
  ASSUME RunInv, NEW r \in Runs, NEW q, NEW c,
         run[r].pc \in Loop, q.pc \in Loop, q.done = run[r].done, q.err = run[r].err,
         q.replaced = run[r].replaced, q.term = run[r].term, q.ctx = run[r].ctx,
         c.state = "killed" => child[r].state = "killed"
  PROVE  FitsOf(q, c, watch[r]) /\ Keeps(run[r], q)
<1>1. run[r].pc \notin Before \cup Over \cup {"decided"} /\ q.pc \notin Before \cup Over \cup {"decided"}
  BY DEF Before, Over, Loop
<1>2. FitsOf(q, c, watch[r])
  BY <1>1, Own DEF FitsOf
<1>3. run[r].pc \in Live /\ q.pc \in Live /\ run[r].pc \notin Told /\ q.pc \notin Told
  BY DEF Live, Told, Loop
<1> QED
  BY <1>1, <1>2, <1>3 DEF Keeps

\* A frame is taken from the pipe.
LEMMA Reads ==
  ASSUME RunInv, NEW r \in Runs, child[r].pipe # <<>>, Read(r)
  PROVE  \E c \in ChildType : child' = [child EXCEPT ![r] = c] /\ c.state = child[r].state
<1>1. child[r] \in ChildType
  BY Own
<1>2. Tail(child[r].pipe) \in Seq(FrameKinds)
  BY <1>1 DEF ChildType
<1> DEFINE c == [child[r] EXCEPT !.pipe = Tail(child[r].pipe)]
<1>3. child' = [child EXCEPT ![r] = c]
  BY Own DEF Read
<1>4. c \in ChildType /\ c.state = child[r].state
  BY <1>1, <1>2 DEF ChildType
<1> QED
  BY <1>3, <1>4

\* A log line.
LEMMA Logs ==
  ASSUME RunInv, NEW r \in Runs, scanLog(r)
  PROVE  RunInv'
<1>1. /\ run[r].pc = "reading" /\ child[r].pipe # <<>> /\ Read(r)
      /\ UNCHANGED <<file, edits, registry, run, watch, stop, events>>
  BY DEF scanLog, NextFrame, At
<1>2. PICK c \in ChildType : child' = [child EXCEPT ![r] = c] /\ c.state = child[r].state
  BY <1>1, Reads
<1>3. FitsOf(run[r], c, watch[r])
  BY <1>1, <1>2, LoopFits DEF Loop
<1> QED
  BY <1>1, <1>2, <1>3, ChildMoves

\* The done frame.
LEMMA ScansDone ==
  ASSUME RunInv, NEW r \in Runs, scanDone(r)
  PROVE  RunInv'
<1>0. run[r] \in RunType
  BY Own
<1>1. /\ run[r].pc = "reading" /\ child[r].pipe # <<>> /\ Read(r)
      /\ UNCHANGED <<file, edits, registry, watch, stop, events>>
  BY DEF scanDone, NextFrame, At
<1>2. PICK c \in ChildType : child' = [child EXCEPT ![r] = c] /\ c.state = child[r].state
  BY <1>1, Reads
<1> DEFINE b == CloseBridge(run[r].bridge)
           q == [run[r] EXCEPT !.bridge = b]
<1>3. run' = [run EXCEPT ![r] = q]
  BY Own DEF scanDone
<1>4. b \in {"none", "open", "closed"}
  BY <1>0 DEF RunType, CloseBridge
<1> HIDE DEF b
<1>5. q \in RunType
  BY <1>0, <1>4 DEF RunType
<1>6. /\ q.pc = "reading" /\ q.done = run[r].done /\ q.err = run[r].err
      /\ q.replaced = run[r].replaced /\ q.term = run[r].term /\ q.ctx = run[r].ctx
  BY <1>0, <1>1 DEF RunType
<1> HIDE DEF q
<1>7. FitsOf(q, c, watch[r]) /\ Keeps(run[r], q)
  BY <1>1, <1>2, <1>6, LoopFits DEF Loop
<1> QED
  BY <1>1, <1>2, <1>3, <1>5, <1>7, RunAndChild

\* A line that is no frame of the child's.
LEMMA Decodes ==
  ASSUME RunInv, NEW r \in Runs, DecodeFrame(r)
  PROVE  RunInv'
<1>0. run[r] \in RunType
  BY Own
<1>1. /\ run[r].pc = "reading" /\ child[r].pipe # <<>> /\ Read(r)
      /\ UNCHANGED <<file, edits, registry, watch, stop, events>>
  BY DEF DecodeFrame, NextFrame, At
<1>2. PICK c \in ChildType : child' = [child EXCEPT ![r] = c] /\ c.state = child[r].state
  BY <1>1, Reads
<1> DEFINE q == [run[r] EXCEPT !.pc = "waiting", !.status = "failed"]
<1>3. run' = [run EXCEPT ![r] = q]
  BY Own DEF DecodeFrame
<1>4. q \in RunType
  BY <1>0 DEF RunType, Pcs
<1>5. /\ q.pc = "waiting" /\ q.done = run[r].done /\ q.err = run[r].err
      /\ q.replaced = run[r].replaced /\ q.term = run[r].term /\ q.ctx = run[r].ctx
  BY <1>0 DEF RunType
<1> HIDE DEF q
<1>6. FitsOf(q, c, watch[r]) /\ Keeps(run[r], q)
  BY <1>1, <1>2, <1>5, LoopFits DEF Loop
<1> QED
  BY <1>1, <1>2, <1>3, <1>4, <1>6, RunAndChild

\* The answer to a call leaves the run in the loop, or ends it.
LEMMA Answers ==
  ASSUME NEW r \in Runs, NEW rec \in RunType, rec.pc = "reading"
  PROVE  LET q == Answered(r, rec)
         IN /\ q \in RunType /\ q.pc \in {"reading", "waiting"} /\ q.done = rec.done /\ q.err = rec.err
            /\ q.replaced = rec.replaced /\ q.term = rec.term /\ q.ctx = rec.ctx
<1>1. CASE Alive(r)
  <2>1. Answered(r, rec) = rec
    BY <1>1 DEF Answered
  <2> QED
    BY <2>1
<1>2. CASE ~Alive(r)
  <2>1. Answered(r, rec) = [rec EXCEPT !.pc = "waiting", !.status = "failed"]
    BY <1>2 DEF Answered
  <2> QED
    BY <2>1 DEF RunType, Pcs
<1> QED
  BY <1>1, <1>2

\* A command call: not carried out, the end of the run, or accepted.
LEMMA Dispatches ==
  ASSUME RunInv, NEW r \in Runs, dispatchCmdCall(r)
  PROVE  RunInv'
<1>0. run[r] \in RunType
  BY Own
<1> DEFINE call == Head(child[r].pipe)
           reason == Enforce(r, call)
<1>1. /\ run[r].pc = "reading" /\ child[r].pipe # <<>> /\ call \in CallKinds
      /\ UNCHANGED <<file, edits, registry, watch, stop, events>>
  BY DEF dispatchCmdCall, NextFrame, At
<1>2. \/ Refused(r)
      \/ reason # None /\ terminate(r, beginTermination(run[r], reason))
      \/ /\ reason = None
         /\ \/ call = "params" /\ run' = [run EXCEPT ![r] = Answered(r, [run[r] EXCEPT !.tokens = @ - 1])]
            \/ /\ call # "params"
               /\ run' = [run EXCEPT ![r] = [[run[r] EXCEPT !.tokens = @ - 1] EXCEPT !.call = call, !.pc = "executing"]]
         /\ Read(r)
         /\ call # "unknown"
  BY DEF dispatchCmdCall
<1>3. reason \in {None, "scope", "rate"} /\ (reason = None => call # "scope" /\ run[r].tokens # 0)
  BY DEF Enforce, None
<1> HIDE DEF reason
<1>4. CASE Refused(r)
  <2>1. PICK c \in ChildType : child' = [child EXCEPT ![r] = c] /\ c.state = child[r].state
    BY <1>1, <1>4, Reads DEF Refused
  <2> DEFINE q == Answered(r, run[r])
  <2>2. /\ run' = [run EXCEPT ![r] = q] /\ q \in RunType /\ q.pc \in {"reading", "waiting"}
        /\ q.done = run[r].done /\ q.err = run[r].err
        /\ q.replaced = run[r].replaced /\ q.term = run[r].term /\ q.ctx = run[r].ctx
    BY <1>0, <1>1, <1>4, Answers DEF Refused
  <2> HIDE DEF q
  <2>3. FitsOf(q, c, watch[r]) /\ Keeps(run[r], q)
    BY <1>1, <2>1, <2>2, LoopFits DEF Loop
  <2> QED
    BY <1>1, <2>1, <2>2, <2>3, RunAndChild
<1>5. CASE reason # None /\ terminate(r, beginTermination(run[r], reason))
  <2> DEFINE p == beginTermination(run[r], reason)
  <2>1. p \in RunType /\ Marks(run[r], p) /\ p.term # None /\ terminate(r, p)
    BY <1>0, <1>3, <1>5, Begins
  <2> HIDE DEF p
  <2>2. PICK q \in RunType, c \in ChildType :
           /\ run' = [run EXCEPT ![r] = q] /\ child' = [child EXCEPT ![r] = c]
           /\ FitsOf(q, c, watch[r]) /\ Keeps(run[r], q)
    BY <2>1, Terminates
  <2> QED
    BY <1>1, <2>2, RunAndChild
<1>6. CASE /\ reason = None
           /\ \/ call = "params" /\ run' = [run EXCEPT ![r] = Answered(r, [run[r] EXCEPT !.tokens = @ - 1])]
              \/ /\ call # "params"
                 /\ run' = [run EXCEPT ![r] = [[run[r] EXCEPT !.tokens = @ - 1] EXCEPT !.call = call, !.pc = "executing"]]
           /\ Read(r)
           /\ call # "unknown"
  <2>1. PICK c \in ChildType : child' = [child EXCEPT ![r] = c] /\ c.state = child[r].state
    BY <1>1, <1>6, Reads
  <2> DEFINE taken == [run[r] EXCEPT !.tokens = @ - 1]
  <2>2. run[r].tokens - 1 \in 0..Rate
    <3>1. run[r].tokens \in 0..Rate
      BY <1>0 DEF RunType
    <3> QED
      BY <1>3, <1>6, <3>1, SessionAssumption
  <2>3. /\ taken \in RunType /\ taken.pc = "reading" /\ taken.done = run[r].done /\ taken.err = run[r].err
        /\ taken.replaced = run[r].replaced /\ taken.term = run[r].term /\ taken.ctx = run[r].ctx
    BY <1>0, <1>1, <2>2 DEF RunType
  <2> HIDE DEF taken
  <2>4. PICK q \in RunType :
           /\ run' = [run EXCEPT ![r] = q] /\ q.pc \in {"reading", "waiting", "executing"}
           /\ q.done = run[r].done /\ q.err = run[r].err
           /\ q.replaced = run[r].replaced /\ q.term = run[r].term /\ q.ctx = run[r].ctx
    <3>1. CASE call = "params"
      <4>1. run' = [run EXCEPT ![r] = Answered(r, taken)]
        BY <1>6, <3>1 DEF taken
      <4> DEFINE a == Answered(r, taken)
      <4>2. /\ a \in RunType /\ a.pc \in {"reading", "waiting"} /\ a.done = taken.done /\ a.err = taken.err
            /\ a.replaced = taken.replaced /\ a.term = taken.term /\ a.ctx = taken.ctx
        BY <2>3, Answers
      <4> QED
        BY <2>3, <4>1, <4>2
    <3>2. CASE call # "params"
      <4>1. run' = [run EXCEPT ![r] = [taken EXCEPT !.call = call, !.pc = "executing"]]
        BY <1>6, <3>2 DEF taken
      <4>2. call = "edit"
        BY <1>1, <1>3, <1>6, <3>2 DEF CallKinds
      <4> DEFINE e == [taken EXCEPT !.call = "edit", !.pc = "executing"]
      <4>3. /\ e \in RunType /\ e.pc = "executing" /\ e.done = taken.done /\ e.err = taken.err
            /\ e.replaced = taken.replaced /\ e.term = taken.term /\ e.ctx = taken.ctx
        BY <2>3 DEF RunType, Pcs
      <4> QED
        BY <2>3, <4>1, <4>2, <4>3
    <3> QED
      BY <3>1, <3>2
  <2>5. FitsOf(q, c, watch[r]) /\ Keeps(run[r], q)
    BY <1>1, <2>1, <2>4, LoopFits DEF Loop
  <2> QED
    BY <1>1, <2>1, <2>4, <2>5, RunAndChild
<1> QED
  BY <1>2, <1>4, <1>5, <1>6

\* A command is carried out, or fails.
LEMMA Executes ==
  ASSUME RunInv, NEW r \in Runs, Execute(r) \/ ExecuteFails(r)
  PROVE  RunInv'
<1>0. run[r] \in RunType
  BY Own
<1> DEFINE at == IF Alive(r) THEN "reading" ELSE "waiting"
           st == IF Alive(r) THEN run[r].status ELSE "failed"
           q == [run[r] EXCEPT !.call = None, !.pc = at, !.status = st]
<1>1. /\ run[r].pc = "executing" /\ UNCHANGED <<registry, child, watch, stop, events>>
      /\ run' = [run EXCEPT ![r] = q]
  BY Own DEF Execute, ExecuteFails, At
<1>2. file' \in Edits /\ edits' \in 0..MaxEdits
  <2>1. file \in Edits /\ edits \in 0..MaxEdits
    BY Own
  <2>2. CASE Execute(r)
    <3>1. edits < MaxEdits /\ edits' = edits + 1 /\ file' = file \cup {edits'}
      BY <2>2 DEF Execute
    <3>2. edits' \in 1..MaxEdits
      BY <2>1, <3>1, SessionAssumption
    <3> QED
      BY <2>1, <3>1, <3>2 DEF Edits
  <2>3. CASE ExecuteFails(r)
    BY <2>1, <2>3 DEF ExecuteFails
  <2> QED
    BY <2>2, <2>3
<1>3. st \in {None, "succeeded", "failed", "terminated"}
  BY <1>0 DEF RunType
<1>4. at \in {"reading", "waiting"}
  OBVIOUS
<1> HIDE DEF at, st
<1>5. q \in RunType
  BY <1>0, <1>3, <1>4 DEF RunType, Pcs
<1>6. /\ q.pc = at /\ q.done = run[r].done /\ q.err = run[r].err
      /\ q.replaced = run[r].replaced /\ q.term = run[r].term /\ q.ctx = run[r].ctx
  BY <1>0 DEF RunType
<1> HIDE DEF q
<1>7. FitsOf(q, child[r], watch[r]) /\ Keeps(run[r], q)
  BY <1>1, <1>4, <1>6, LoopFits DEF Loop
<1> QED
  BY <1>1, <1>2, <1>5, <1>7, RunMoves

\* The end of the child's output.
LEMMA OutputEnds ==
  ASSUME RunInv, NEW r \in Runs, scanFrameLine(r)
  PROVE  RunInv'
<1>0. run[r] \in RunType
  BY Own
<1> DEFINE q == [run[r] EXCEPT !.pc = "waiting"]
<1>1. /\ run[r].pc = "reading" /\ UNCHANGED <<file, edits, registry, child, watch, stop, events>>
      /\ run' = [run EXCEPT ![r] = q]
  BY Own DEF scanFrameLine, At
<1>2. q \in RunType
  BY <1>0 DEF RunType, Pcs
<1>3. /\ q.pc = "waiting" /\ q.done = run[r].done /\ q.err = run[r].err
      /\ q.replaced = run[r].replaced /\ q.term = run[r].term /\ q.ctx = run[r].ctx
  BY <1>0 DEF RunType
<1> HIDE DEF q
<1>4. FitsOf(q, child[r], watch[r]) /\ Keeps(run[r], q)
  BY <1>1, <1>3, LoopFits DEF Loop
<1> QED
  BY <1>1, <1>2, <1>4, Own, RunMoves

-----------------------------------------------------------------------------
(* The end of a run *)

\* What became of the run is decided.
LEMMA Settles ==
  ASSUME RunInv, NEW r \in Runs, settle(r)
  PROVE  RunInv'
<1>0. run[r] \in RunType
  BY Own
<1> DEFINE v == Verdict(r)
           q == [run[r] EXCEPT !.status = v, !.pc = "decided"]
<1>1. /\ run[r].pc = "waiting" /\ ~Alive(r) /\ UNCHANGED <<file, edits, registry, child, watch, stop, events>>
      /\ run' = [run EXCEPT ![r] = q]
  BY Own DEF settle, At
<1>2. v \in Statuses
  BY <1>0 DEF RunType, Verdict, Statuses
<1>3. child[r].state = "killed" => v = "terminated"
  BY Own DEF Verdict, FitsOf
<1> HIDE DEF v
<1>4. q \in RunType
  BY <1>0, <1>2 DEF RunType, Pcs, Statuses
<1>5. /\ q.pc = "decided" /\ q.done = run[r].done /\ q.err = run[r].err /\ q.status = v
      /\ q.replaced = run[r].replaced /\ q.term = run[r].term /\ q.ctx = run[r].ctx
  BY <1>0 DEF RunType
<1> HIDE DEF q
<1>6. FitsOf(q, child[r], watch[r])
  BY <1>1, <1>2, <1>3, <1>5, Own DEF FitsOf, Before, Over, Alive, Statuses, None
<1>7. Keeps(run[r], q)
  BY <1>1, <1>5 DEF Keeps, Over, Told, Live
<1> QED
  BY <1>1, <1>4, <1>6, <1>7, Own, RunMoves

\* The run lets go of what it holds.
LEMMA Finalizes ==
  ASSUME RunInv, NEW r \in Runs, finalize(r)
  PROVE  RunInv'
<1>0. run[r] \in RunType
  BY Own
<1> DEFINE q == Released(r, TRUE)
<1>1. /\ run[r].pc = "decided" /\ UNCHANGED <<file, edits, registry, stop, events>>
      /\ run' = [run EXCEPT ![r] = q] /\ child' = [child EXCEPT ![r] = NoChild]
      /\ watch' = [watch EXCEPT ![r] = "off"]
  BY DEF finalize, At
<1>2. NoRun \in RunType /\ NoRun.cancel = FALSE /\ NoRun.job = FALSE
  <2>1. Rate \in 0..Rate
    BY SessionAssumption
  <2>2. NoRun \in RunType
    BY <2>1 DEF NoRun, RunType, Pcs
  <2> QED
    BY <2>2 DEF NoRun
<1>3. /\ q \in RunType
      /\ q.pc = "closed" /\ q.done = TRUE /\ q.err = run[r].err /\ q.status = run[r].status
      /\ q.cancel = FALSE /\ q.job = FALSE
  <2>1. PICK n \in RunType : n = NoRun
    BY <1>2
  <2>2. PICK snap \in SUBSET (1..MaxEdits), st \in {None, "succeeded", "failed", "terminated"},
             err \in BOOLEAN :
          snap = run[r].snap /\ st = run[r].status /\ err = run[r].err
    BY <1>0 DEF RunType
  <2> DEFINE p == [n EXCEPT !.pc = "closed", !.snap = snap, !.status = st, !.err = err, !.done = TRUE]
  <2>3. q = p
    BY <2>1, <2>2 DEF Released
  <2>4. p \in RunType
    BY DEF RunType, Pcs
  <2>5. /\ p.pc = "closed" /\ p.done = TRUE /\ p.err = err /\ p.status = st
        /\ p.cancel = n.cancel /\ p.job = n.job
    BY DEF RunType
  <2> HIDE DEF p, q
  <2> QED
    BY <1>2, <2>1, <2>2, <2>3, <2>4, <2>5
<1> HIDE DEF q
<1>4. NoChild \in ChildType /\ NoChild.state = "none"
  BY DEF NoChild, ChildType
<1>5. FitsOf(q, NoChild, "off")
  BY <1>1, <1>3, <1>4, Own DEF FitsOf, Before, Over
<1>6. Keeps(run[r], q)
  BY <1>1, <1>3 DEF Keeps, Over, Told, Live
<1>7. "off" \in WatchType
  BY DEF WatchType
<1> QED
  BY <1>1, <1>3, <1>4, <1>5, <1>6, <1>7, Own, RunSteps

\* The outcome is saved.
LEMMA Saves ==
  ASSUME RunInv, NEW r \in Runs, saveOutcome(r)
  PROVE  RunInv'
<1>0. run[r] \in RunType
  BY Own
<1> DEFINE q == [run[r] EXCEPT !.pc = "ended", !.snap = {}]
<1>1. /\ run[r].pc = "published" /\ UNCHANGED <<edits, registry, child, watch, stop, events>>
      /\ run' = [run EXCEPT ![r] = q] /\ file' = run[r].snap
  BY Own DEF saveOutcome, At
<1>2. q \in RunType
  BY <1>0 DEF RunType, Pcs
<1>3. /\ q.pc = "ended" /\ q.done = run[r].done /\ q.err = run[r].err /\ q.status = run[r].status
      /\ q.term = run[r].term /\ q.ctx = run[r].ctx /\ q.cancel = run[r].cancel /\ q.job = run[r].job
  BY <1>0 DEF RunType
<1>4. file' \in Edits
  BY <1>0, <1>1 DEF RunType, Edits
<1> HIDE DEF q
<1>5. FitsOf(q, child[r], watch[r])
  BY <1>1, <1>3, Own DEF FitsOf, Before, Over
<1>6. Keeps(run[r], q)
  BY <1>1, <1>3 DEF Keeps, Over, Told, Live
<1> QED
  BY <1>1, <1>2, <1>4, <1>5, <1>6, Own, RunMoves

\* A run leaves the registry, and no other does.
LEMMA Deregisters ==
  ASSUME RunInv, NEW r \in Runs, deregisterActiveRun(r)
  PROVE  RunInv'
<1>0. run[r] \in RunType
  BY Own
<1> DEFINE q == [run[r] EXCEPT !.pc = "deregistered"]
<1>1. /\ run[r].pc = "closed" /\ UNCHANGED <<file, edits, child, watch, stop, events>>
      /\ run' = [run EXCEPT ![r] = q]
      /\ registry' = [registry EXCEPT ![NameOf[r]] = IF @ = r THEN NoRunYet ELSE @]
  BY Own DEF deregisterActiveRun, At
<1>2. q \in RunType
  BY <1>0 DEF RunType, Pcs
<1>3. /\ q.pc = "deregistered" /\ q.done = run[r].done /\ q.err = run[r].err /\ q.status = run[r].status
      /\ q.term = run[r].term /\ q.ctx = run[r].ctx /\ q.cancel = run[r].cancel /\ q.job = run[r].job
  BY <1>0 DEF RunType
<1> HIDE DEF q
<1>4. /\ registry \in [Names -> Runs \cup {NoRunYet}] /\ stop \in [Stops -> StopType]
      /\ events \in [Runs -> Seq(Statuses)] /\ NameOf \in [Runs \cup Stops -> Names]
  BY TypesOf, SessionAssumption DEF RunInv
<1>5. run' \in [Runs -> RunType] /\ run'[r] = q /\ \A x \in Runs \ {r} : run'[x] = run[x]
  BY <1>1, <1>2, Own
<1>6. TypeOK'
  <2>1. registry' \in [Names -> Runs \cup {NoRunYet}]
    BY <1>1, <1>4
  <2> QED
    BY <1>1, <1>4, <1>5, <2>1, Own, TypesMake
<1>7. \A x \in Runs : FitsOf(run'[x], child'[x], watch'[x])
  <2>1. FitsOf(q, child[r], watch[r])
    BY <1>1, <1>3, Own DEF FitsOf, Before, Over
  <2> QED
    BY <1>1, <1>5, <2>1 DEF RunInv
<1>8. ASSUME NEW x \in Runs PROVE EventsOf(run'[x], events'[x])
  <2>1. EventsOf(run[x], events[x])
    BY DEF RunInv
  <2> QED
    BY <1>1, <1>3, <1>5, <2>1 DEF EventsOf, Told
<1>9. ASSUME NEW s \in Stops PROVE StopOf(s)'
  <2>1. StopOf(s) /\ stop'[s] = stop[s]
    BY <1>1 DEF RunInv
  <2>2. CASE stop[s].run = r
    BY <1>1, <1>3, <1>5, <2>1, <2>2 DEF StopOf, Over
  <2>3. CASE stop[s].run # r
    BY <1>5, <2>1, <2>3 DEF StopOf
  <2> QED
    BY <2>2, <2>3
<1>10. ASSUME NEW x \in Runs PROVE FoundOf(x)'
  <2>1. FoundOf(x)
    BY DEF RunInv
  <2>2. NameOf[x] \in Names /\ NameOf[r] \in Names
    BY <1>4
  <2>3. CASE x = r
    BY <1>3, <1>5, <2>3 DEF FoundOf, Live
  <2>4. CASE x # r
    BY <1>1, <1>4, <1>5, <2>1, <2>2, <2>4 DEF FoundOf
  <2> QED
    BY <2>3, <2>4
<1> QED
  BY <1>6, <1>7, <1>8, <1>9, <1>10 DEF RunInv

\* The terminal event is published.
LEMMA Publishes ==
  ASSUME RunInv, NEW r \in Runs, computeTerminalEvent(r)
  PROVE  RunInv'
<1>0. run[r] \in RunType
  BY Own
<1> DEFINE at == IF run[r].err THEN "ended" ELSE "published"
           q == [run[r] EXCEPT !.pc = at]
<1>1. /\ run[r].pc = "deregistered" /\ UNCHANGED <<file, edits, registry, child, watch, stop>>
      /\ run' = [run EXCEPT ![r] = q]
      /\ events' = [events EXCEPT ![r] = Append(@, run[r].status)]
  BY Own DEF computeTerminalEvent, At
<1>2. at \in {"ended", "published"}
  OBVIOUS
<1> HIDE DEF at
<1>3. q \in RunType
  BY <1>0, <1>2 DEF RunType, Pcs
<1>4. /\ q.pc = at /\ q.done = run[r].done /\ q.err = run[r].err /\ q.status = run[r].status
      /\ q.term = run[r].term /\ q.ctx = run[r].ctx /\ q.cancel = run[r].cancel /\ q.job = run[r].job
  BY <1>0 DEF RunType
<1> HIDE DEF q
<1>5. /\ registry \in [Names -> Runs \cup {NoRunYet}] /\ stop \in [Stops -> StopType]
      /\ events \in [Runs -> Seq(Statuses)]
  BY TypesOf DEF RunInv
<1>6. run' \in [Runs -> RunType] /\ run'[r] = q /\ \A x \in Runs \ {r} : run'[x] = run[x]
  BY <1>1, <1>3, Own
<1>7. run[r].status \in Statuses
  BY <1>0, <1>1, Own DEF FitsOf, Over, RunType, Statuses
<1>8. events[r] = <<>>
  BY <1>1 DEF RunInv, EventsOf, Told
<1>9. events' \in [Runs -> Seq(Statuses)] /\ events'[r] = <<run[r].status>>
      /\ \A x \in Runs \ {r} : events'[x] = events[x]
  BY <1>1, <1>5, <1>7, <1>8
<1>10. TypeOK'
  BY <1>1, <1>5, <1>6, <1>9, Own, TypesMake
<1>11. \A x \in Runs : FitsOf(run'[x], child'[x], watch'[x])
  <2>1. FitsOf(q, child[r], watch[r])
    BY <1>1, <1>2, <1>4, Own DEF FitsOf, Before, Over
  <2> QED
    BY <1>1, <1>6, <2>1 DEF RunInv
<1>12. ASSUME NEW x \in Runs PROVE EventsOf(run'[x], events'[x])
  <2>1. CASE x = r
    BY <1>2, <1>4, <1>6, <1>9, <2>1 DEF EventsOf, Told
  <2>2. CASE x # r
    BY <1>6, <1>9, <2>2 DEF RunInv
  <2> QED
    BY <2>1, <2>2
<1>13. ASSUME NEW s \in Stops PROVE StopOf(s)'
  <2>1. StopOf(s) /\ stop'[s] = stop[s]
    BY <1>1 DEF RunInv
  <2>2. CASE stop[s].run = r
    BY <1>1, <1>2, <1>4, <1>6, <2>1, <2>2 DEF StopOf, Over
  <2>3. CASE stop[s].run # r
    BY <1>6, <2>1, <2>3 DEF StopOf
  <2> QED
    BY <2>2, <2>3
<1>14. ASSUME NEW x \in Runs PROVE FoundOf(x)'
  <2>1. FoundOf(x)
    BY DEF RunInv
  <2>2. CASE x = r
    BY <1>2, <1>4, <1>6, <2>2 DEF FoundOf, Live
  <2>3. CASE x # r
    BY <1>1, <1>6, <2>1, <2>3 DEF FoundOf
  <2> QED
    BY <2>2, <2>3
<1> QED
  BY <1>10, <1>11, <1>12, <1>13, <1>14 DEF RunInv

-----------------------------------------------------------------------------
(* The child *)

\* A child that is there belongs to a run within the loop.
LEMMA AliveInLoop ==
  ASSUME RunInv, NEW r \in Runs, Alive(r)
  PROVE  run[r].pc \in Loop
BY Own DEF FitsOf, Alive, RunType, Pcs, Before, Over, Loop

\* What a child does by itself, or is let do by the debugger.
LEMMA ChildActs ==
  ASSUME RunInv, NEW r \in Runs, NEW c \in ChildType, Alive(r), Child(r, c), c.state # "killed"
  PROVE  RunInv'
<1>1. FitsOf(run[r], c, watch[r])
  BY AliveInLoop, LoopFits
<1> QED
  BY <1>1, ChildMoves DEF Child

\* The steps of the child.
LEMMA ChildSteps ==
  ASSUME RunInv, NEW r \in Runs, ChildStep(r)
  PROVE  RunInv'
<1>1. child[r] \in ChildType
  BY Own
<1>2. child[r].state = "running" /\ Alive(r)
  BY DEF ChildStep, ChildSends, ChildFinishes, ChildExits, ChildCrashes, ChildPauses, Alive
<1>3. CASE ChildSends(r)
  <2> DEFINE c == [child[r] EXCEPT !.pipe = Append(@, Head(child[r].todo)), !.todo = Tail(@)]
  <2>1. /\ child[r].todo \in Seq(FrameKinds) /\ child[r].todo # <<>>
        /\ child[r].pipe \in Seq(FrameKinds)
    BY <1>1, <1>3 DEF ChildSends, ChildType
  <2>2. /\ Append(child[r].pipe, Head(child[r].todo)) \in Seq(FrameKinds)
        /\ Tail(child[r].todo) \in Seq(FrameKinds)
    BY <2>1
  <2>3. c \in ChildType /\ c.state = "running"
    BY <1>1, <1>2, <2>2 DEF ChildType
  <2>4. Child(r, c)
    BY <1>3 DEF ChildSends
  <2> HIDE DEF c
  <2> QED
    BY <1>2, <2>3, <2>4, ChildActs
<1>4. CASE ChildFinishes(r)
  <2> DEFINE c == [child[r] EXCEPT !.pipe = Append(@, "done"), !.finished = TRUE]
  <2>1. Append(child[r].pipe, "done") \in Seq(FrameKinds)
    BY <1>1 DEF ChildType, FrameKinds
  <2>2. c \in ChildType /\ c.state = "running"
    BY <1>1, <1>2, <2>1 DEF ChildType
  <2>3. Child(r, c)
    BY <1>4 DEF ChildFinishes
  <2> HIDE DEF c
  <2> QED
    BY <1>2, <2>2, <2>3, ChildActs
<1>5. CASE ChildExits(r) \/ ChildCrashes(r) \/ ChildPauses(r)
  <2>1. PICK a \in {"exited", "crashed", "oom", "paused"} : Child(r, [child[r] EXCEPT !.state = a])
    BY <1>5 DEF ChildExits, ChildCrashes, ChildPauses
  <2> DEFINE c == [child[r] EXCEPT !.state = a]
  <2>2. c \in ChildType /\ c.state # "killed"
    BY <1>1 DEF ChildType
  <2> HIDE DEF c
  <2> QED
    BY <1>2, <2>1, <2>2, ChildActs DEF c
<1> QED
  BY <1>3, <1>4, <1>5 DEF ChildStep

\* The debugger lets a child go.
LEMMA DebuggerSteps ==
  ASSUME RunInv, runScriptDebugControl
  PROVE  RunInv'
<1>1. PICK n \in Names :
        /\ registry[n] # NoRunYet
        /\ child[registry[n]].state = "paused"
        /\ Child(registry[n], [child[registry[n]] EXCEPT !.state = "running"])
  BY DEF runScriptDebugControl
<1> DEFINE r == registry[n]
           c == [child[r] EXCEPT !.state = "running"]
<1>2. r \in Runs
  BY <1>1, TypesOf DEF RunInv
<1> HIDE DEF r
<1>3. child[r] \in ChildType
  BY <1>2, Own
<1>4. c \in ChildType /\ c.state # "killed"
  BY <1>3 DEF ChildType
<1>5. Alive(r) /\ Child(r, c)
  BY <1>1 DEF Alive, r
<1> HIDE DEF c
<1> QED
  BY <1>2, <1>4, <1>5, ChildActs

-----------------------------------------------------------------------------
(* What else acts on a run *)

\* The deadline passes.
LEMMA DeadlinePasses ==
  ASSUME RunInv, NEW r \in Runs, Deadline(r)
  PROVE  RunInv'
<1>0. run[r] \in RunType /\ child[r] \in ChildType
  BY Own
<1> DEFINE a == IF Alive(r) THEN "killed" ELSE child[r].state
           q == [run[r] EXCEPT !.ctx = "deadline"]
           c == [child[r] EXCEPT !.state = a]
<1>1. /\ run' = [run EXCEPT ![r] = q] /\ child' = [child EXCEPT ![r] = c]
      /\ UNCHANGED <<file, edits, registry, watch, stop, events>>
      /\ run[r].pc \in {"armed", "started", "attaching", "reading", "executing", "waiting"}
  BY Own DEF Deadline
<1>2. q \in RunType
  BY <1>0 DEF RunType
<1>3. c \in ChildType
  <2>1. a \in {"none", "running", "paused", "exited", "crashed", "oom", "killed"}
    BY <1>0 DEF ChildType
  <2> HIDE DEF a
  <2> QED
    BY <1>0, <2>1 DEF ChildType
<1>4. /\ q.pc = run[r].pc /\ q.done = run[r].done /\ q.err = run[r].err /\ q.status = run[r].status
      /\ q.term = run[r].term /\ q.ctx = "deadline" /\ q.cancel = run[r].cancel /\ q.job = run[r].job
      /\ q.replaced = run[r].replaced
  BY <1>0 DEF RunType
<1>5. c.state = IF child[r].state \in {"running", "paused"} THEN "killed" ELSE child[r].state
  BY <1>0 DEF ChildType, Alive
<1> HIDE DEF a, q, c
<1>6. FitsOf(q, c, watch[r])
  BY <1>1, <1>4, <1>5, Own DEF FitsOf, Before, Over
<1>7. Keeps(run[r], q)
  BY <1>1, <1>4 DEF Keeps, Over, Told, Live
<1> QED
  BY <1>1, <1>2, <1>3, <1>6, <1>7, RunAndChild

\* A token comes back.
LEMMA Allows ==
  ASSUME RunInv, NEW r \in Runs, allow(r)
  PROVE  RunInv'
<1>0. run[r] \in RunType
  BY Own
<1> DEFINE n == run[r].tokens + 1
           q == [run[r] EXCEPT !.tokens = n]
<1>1. /\ run' = [run EXCEPT ![r] = q] /\ run[r].pc = "reading" /\ run[r].tokens < Rate
      /\ UNCHANGED <<file, edits, registry, child, watch, stop, events>>
  BY Own DEF allow, At
<1>2. n \in 0..Rate
  <2>1. run[r].tokens \in 0..Rate
    BY <1>0 DEF RunType
  <2> QED
    BY <1>1, <2>1, SessionAssumption
<1> HIDE DEF n
<1>3. q \in RunType
  BY <1>0, <1>2 DEF RunType
<1>4. /\ q.pc = "reading" /\ q.done = run[r].done /\ q.err = run[r].err
      /\ q.replaced = run[r].replaced /\ q.term = run[r].term /\ q.ctx = run[r].ctx
  BY <1>0, <1>1 DEF RunType
<1> HIDE DEF q
<1>5. FitsOf(q, child[r], watch[r]) /\ Keeps(run[r], q)
  BY <1>1, <1>4, LoopFits DEF Loop
<1> QED
  BY <1>1, <1>3, <1>5, Own, RunMoves

\* The memory watch: two samples above the trigger, the reason, and the kill.
LEMMA WatchSteps ==
  ASSUME RunInv, NEW r \in Runs, WatchStep(r)
  PROVE  RunInv'
<1>0. run[r] \in RunType
  BY Own
<1>1. CASE checkMemoryPressure(r)
  <2>1. PICK w \in {"below", "above", "firing"} :
          /\ watch[r] \in {"below", "above"}
          /\ watch' = [watch EXCEPT ![r] = w]
          /\ UNCHANGED <<file, edits, registry, run, child, stop, events>>
    <3>1. CASE watch' = [watch EXCEPT ![r] = IF @ = "below" THEN "above" ELSE "firing"]
      <4> DEFINE w == IF watch[r] = "below" THEN "above" ELSE "firing"
      <4>1. w \in {"below", "above", "firing"} /\ watch' = [watch EXCEPT ![r] = w]
        BY <3>1, Own
      <4> HIDE DEF w
      <4> QED
        BY <1>1, <4>1 DEF checkMemoryPressure
    <3>2. CASE watch' = [watch EXCEPT ![r] = "below"]
      BY <1>1, <3>2 DEF checkMemoryPressure
    <3> QED
      BY <1>1, <3>1, <3>2 DEF checkMemoryPressure
  <2>2. FitsOf(run[r], child[r], w)
    BY <2>1, Own DEF FitsOf
  <2>3. w \in WatchType
    BY DEF WatchType
  <2>4. run' = [run EXCEPT ![r] = run[r]] /\ child' = [child EXCEPT ![r] = child[r]]
    BY <2>1, Own
  <2> QED
    BY <1>0, <2>1, <2>2, <2>3, <2>4, KeepsItself, Own, RunSteps
<1>2. CASE /\ watch[r] = "firing"
           /\ run' = [run EXCEPT ![r] = beginTermination(@, "memory")]
           /\ watch' = [watch EXCEPT ![r] = "killing"]
           /\ UNCHANGED <<child, file, edits, registry, stop, events>>
  <2> DEFINE p == beginTermination(run[r], "memory")
  <2>1. p \in RunType /\ Marks(run[r], p) /\ p.term # None
    BY <1>0, Begins
  <2>2. run' = [run EXCEPT ![r] = p] /\ child' = [child EXCEPT ![r] = child[r]]
    BY <1>2, Own
  <2> HIDE DEF p
  <2>3. FitsOf(p, child[r], watch[r]) /\ Keeps(run[r], p)
    BY <2>1, MarkedFits
  <2>4. FitsOf(p, child[r], "killing")
    BY <1>2, <2>1, <2>3 DEF FitsOf
  <2>5. "killing" \in WatchType
    BY DEF WatchType
  <2> QED
    BY <1>2, <2>1, <2>2, <2>3, <2>4, <2>5, Own, RunSteps
<1>3. CASE /\ watch[r] = "killing"
           /\ terminate(r, run[r])
           /\ watch' = [watch EXCEPT ![r] = "off"]
           /\ UNCHANGED <<file, edits, registry, stop, events>>
  <2>1. run[r].term # None /\ Marks(run[r], run[r])
    BY <1>3, Own DEF FitsOf, Marks
  <2>2. PICK q \in RunType, c \in ChildType :
           /\ run' = [run EXCEPT ![r] = q] /\ child' = [child EXCEPT ![r] = c]
           /\ FitsOf(q, c, watch[r]) /\ Keeps(run[r], q)
    BY <1>0, <1>3, <2>1, Terminates
  <2>3. FitsOf(q, c, "off")
    BY <2>2 DEF FitsOf
  <2>4. "off" \in WatchType
    BY DEF WatchType
  <2> QED
    BY <1>3, <2>2, <2>3, <2>4, Own, RunSteps
<1> QED
  BY <1>1, <1>2, <1>3, Zenon DEF WatchStep, startMemoryWatch

-----------------------------------------------------------------------------
(* Stops *)

\* A stop moves on by itself.
LEMMA StopMoves ==
  ASSUME RunInv, NEW s \in Stops, NEW t \in StopType, stop' = [stop EXCEPT ![s] = t],
         UNCHANGED <<file, edits, registry, run, child, watch, events>>,
         StopOf(s)'
  PROVE  RunInv'
<1>1. stop \in [Stops -> StopType]
  BY TypesOf DEF RunInv
<1>2. stop' \in [Stops -> StopType] /\ \A x \in Stops \ {s} : stop'[x] = stop[x]
  BY <1>1
<1>3. TypeOK'
  BY <1>2, TypesOf, TypesMake DEF RunInv
<1>4. \A x \in Stops : StopOf(x)'
  BY <1>2 DEF RunInv, StopOf
<1>5. \A r \in Runs : FoundOf(r)'
  BY DEF RunInv, FoundOf
<1> QED
  BY <1>3, <1>4, <1>5 DEF RunInv

\* "script stop" finds the run of its name, or none.
LEMMA StopFinds ==
  ASSUME RunInv, NEW s \in Stops, runScriptStop(s)
  PROVE  RunInv'
<1>1. stop \in [Stops -> StopType] /\ registry \in [Names -> Runs \cup {NoRunYet}] /\ NameOf[s] \in Names
  BY TypesOf, SessionAssumption DEF RunInv
<1>2. stop[s] \in StopType /\ UNCHANGED <<file, edits, registry, child, watch, events>>
  BY <1>1 DEF runScriptStop
<1> DEFINE r == registry[NameOf[s]]
<1>3. CASE r = NoRunYet /\ stop' = [stop EXCEPT ![s].pc = "refused"] /\ UNCHANGED run
  <2> DEFINE t == [stop[s] EXCEPT !.pc = "refused"]
  <2>1. stop' = [stop EXCEPT ![s] = t]
    BY <1>1, <1>3
  <2>2. t \in StopType
    BY <1>2 DEF StopType
  <2>3. stop'[s].pc = "refused"
    BY <1>1, <1>2, <2>1 DEF StopType
  <2>4. StopOf(s)'
    BY <2>3 DEF StopOf
  <2> HIDE DEF t
  <2> QED
    BY <1>2, <1>3, <2>1, <2>2, <2>4, StopMoves
<1>4. CASE /\ r # NoRunYet
           /\ run' = [run EXCEPT ![r] = beginTermination(@, "user")]
           /\ stop' = [stop EXCEPT ![s].pc = "begun", ![s].run = r]
  <2>1. r \in Runs
    BY <1>1, <1>4
  <2> HIDE DEF r
  <2> DEFINE q == beginTermination(run[r], "user")
             t == [stop[s] EXCEPT !.pc = "begun", !.run = r]
  <2>2. q \in RunType /\ Marks(run[r], q) /\ q.term # None
    BY <2>1, Own, Begins
  <2>3. run' = [run EXCEPT ![r] = q] /\ stop' = [stop EXCEPT ![s] = t] /\ child' = [child EXCEPT ![r] = child[r]]
    BY <1>1, <1>2, <1>4, <2>1, Own
  <2>4. t \in StopType /\ t.run = r /\ t.pc = "begun"
    BY <1>2, <2>1 DEF StopType
  <2> HIDE DEF q, t
  <2>5. FitsOf(q, child[r], watch[r]) /\ Keeps(run[r], q)
    BY <2>1, <2>2, MarkedFits
  <2>6. child[r] \in ChildType
    BY <2>1, Own
  <2> QED
    BY <1>2, <2>1, <2>2, <2>3, <2>4, <2>5, <2>6, RunAndStop
<1> QED
  BY <1>3, <1>4, Zenon DEF runScriptStop

\* The kill, the answer, and the save.
LEMMA StopSteps ==
  ASSUME RunInv, NEW s \in Stops, StopStep(s)
  PROVE  RunInv'
<1>1. stop \in [Stops -> StopType] /\ StopOf(s)
  BY TypesOf DEF RunInv
<1>2. stop[s] \in StopType
  BY <1>1
<1> DEFINE r == stop[s].run
<1>3. CASE stopTerminates(s)
  <2>1. /\ stop[s].pc = "begun" /\ terminate(r, run[r]) /\ UNCHANGED <<file, edits, registry, watch, events>>
        /\ stop' = [stop EXCEPT ![s].pc = "blocked"]
    BY <1>3 DEF stopTerminates
  <2>2. r \in Runs /\ (run[r].term # None \/ run[r].pc \in Over)
    BY <1>1, <2>1 DEF StopOf
  <2> DEFINE t == [stop[s] EXCEPT !.pc = "blocked"]
  <2>3. stop' = [stop EXCEPT ![s] = t]
    BY <1>1, <2>1
  <2>4. t \in StopType /\ t.run = r /\ t.pc = "blocked"
    BY <1>2 DEF StopType
  <2> HIDE DEF t, r
  <2>5. run[r] \in RunType /\ Marks(run[r], run[r])
    BY <2>2, Own DEF Marks
  <2>6. PICK q \in RunType, c \in ChildType :
           /\ run' = [run EXCEPT ![r] = q] /\ child' = [child EXCEPT ![r] = c]
           /\ FitsOf(q, c, watch[r]) /\ Keeps(run[r], q)
    BY <2>1, <2>2, <2>5, Terminates
  <2> QED
    BY <2>1, <2>2, <2>3, <2>4, <2>6, RunAndStop
<1>4. CASE Stop(s)
  <2> DEFINE st == IF run[r].err THEN None ELSE run[r].status
             t == [stop[s] EXCEPT !.pc = "answered", !.status = st]
  <2>1. /\ stop[s].pc = "blocked" /\ run[r].done /\ UNCHANGED <<file, edits, registry, run, child, watch, events>>
        /\ stop' = [stop EXCEPT ![s] = t]
    BY <1>1, <1>4 DEF Stop
  <2>2. r \in Runs
    BY <1>1, <2>1 DEF StopOf
  <2>3. run[r] \in RunType /\ run[r].pc \in Over
    BY <2>1, <2>2, Own DEF FitsOf
  <2>4. st \in {None, "succeeded", "failed", "terminated"}
    BY <2>3 DEF RunType
  <2> HIDE DEF st
  <2>5. t \in StopType /\ t.run = r /\ t.pc = "answered" /\ t.status = st
    BY <1>2, <2>4 DEF StopType
  <2> HIDE DEF t
  <2>6. stop'[s] = t
    BY <1>1, <2>1
  <2>7. StopOf(s)'
    BY <2>1, <2>2, <2>3, <2>5, <2>6 DEF StopOf, st
  <2> QED
    BY <2>1, <2>5, <2>7, StopMoves
<1>5. CASE stopSaves(s)
  <2> DEFINE t == [stop[s] EXCEPT !.pc = "ended"]
  <2>1. /\ stop[s].pc = "answered" /\ UNCHANGED <<file, edits, registry, run, child, watch, events>>
        /\ stop' = [stop EXCEPT ![s] = t]
    BY <1>1, <1>5 DEF stopSaves
  <2>2. t \in StopType /\ t.run = r /\ t.pc = "ended" /\ t.status = stop[s].status
    BY <1>2 DEF StopType
  <2> HIDE DEF t
  <2>3. stop'[s] = t
    BY <1>1, <2>1
  <2>4. StopOf(s)'
    BY <1>1, <2>1, <2>2, <2>3 DEF StopOf
  <2> QED
    BY <2>1, <2>2, <2>4, StopMoves
<1> QED
  BY <1>3, <1>4, <1>5 DEF StopStep

-----------------------------------------------------------------------------
(* The invariant *)

\* At the start nothing runs and nobody has asked for a stop.
LEMMA RunsStart ==
  ASSUME Init
  PROVE  RunInv
<1>1. NoRun \in RunType /\ NoRun.pc = "idle" /\ NoRun.done = FALSE
  <2>1. 0 \in Nat /\ Rate \in 0..Rate
    BY SessionAssumption
  <2> QED
    BY <2>1 DEF NoRun, RunType, Pcs
<1>2. NoChild \in ChildType /\ NoChild.state = "none"
  BY DEF NoChild, ChildType
<1>3. run = [r \in Runs |-> NoRun] /\ child = [r \in Runs |-> NoChild] /\ watch = [r \in Runs |-> "off"]
      /\ events = [r \in Runs |-> <<>>] /\ registry = [n \in Names |-> NoRunYet]
      /\ stop = [s \in Stops |-> [pc |-> "idle", run |-> NoRunYet, status |-> None]]
      /\ file = {} /\ edits = 0
  BY DEF Init
<1>4. TypeOK
  <2>1. run \in [Runs -> RunType] /\ child \in [Runs -> ChildType] /\ watch \in [Runs -> WatchType]
        /\ events \in [Runs -> Seq(Statuses)] /\ registry \in [Names -> Runs \cup {NoRunYet}]
    BY <1>1, <1>2, <1>3 DEF WatchType
  <2>2. stop \in [Stops -> StopType]
    BY <1>3 DEF StopType
  <2>3. file \in Edits /\ edits \in 0..MaxEdits
    BY <1>3, SessionAssumption DEF Edits
  <2> QED
    BY <2>1, <2>2, <2>3 DEF TypeOK, RunType, Pcs, ChildType, WatchType, StopType, Edits, Statuses
<1>5. \A r \in Runs : FitsOf(run[r], child[r], watch[r])
  BY <1>1, <1>2, <1>3 DEF FitsOf, Before, Over
<1>6. \A r \in Runs : EventsOf(run[r], events[r])
  BY <1>1, <1>3 DEF EventsOf, Told
<1>7. \A s \in Stops : StopOf(s)
  BY <1>3 DEF StopOf
<1>8. \A r \in Runs : FoundOf(r)
  BY <1>1, <1>3 DEF FoundOf, Live
<1> QED
  BY <1>4, <1>5, <1>6, <1>7, <1>8 DEF RunInv

\* Somebody else's command.
LEMMA OthersEdit ==
  ASSUME RunInv, runScriptEdit
  PROVE  RunInv'
<1>1. /\ edits < MaxEdits /\ edits' = edits + 1 /\ file' = file \cup {edits'}
      /\ UNCHANGED <<registry, run, child, watch, stop, events>>
  BY DEF runScriptEdit
<1>2. file \in Edits /\ edits \in 0..MaxEdits
  BY TypesOf DEF RunInv
<1>3. edits' \in 1..MaxEdits
  BY <1>1, <1>2, SessionAssumption
<1>4. file' \in Edits /\ edits' \in 0..MaxEdits
  BY <1>1, <1>2, <1>3 DEF Edits
<1>5. TypeOK'
  BY <1>1, <1>4, TypesOf, TypesMake DEF RunInv
<1>6. (\A s \in Stops : StopOf(s)') /\ (\A r \in Runs : FoundOf(r)')
  BY <1>1 DEF RunInv, StopOf, FoundOf
<1> QED
  BY <1>1, <1>5, <1>6 DEF RunInv

\* Every step keeps the invariant.
LEMMA RunsGoOn ==
  ASSUME RunInv, [Next]_vars
  PROVE  RunInv'
<1>1. CASE \E r \in Runs : runScriptRun(r) \/ runScriptDebug(r)
  BY <1>1, Loads
<1>2. ASSUME NEW r \in Runs, HostStep(r) PROVE RunInv'
  <2>1. CASE registerActiveRun(r) \/ armDeadline(r) \/ startChild(r) \/ assignJob(r) \/ NewDebugBridge(r)
    BY <2>1, Registers, Arms, Starts, Assigns, Attaches
  <2>2. CASE scanLog(r) \/ scanDone(r) \/ DecodeFrame(r) \/ dispatchCmdCall(r)
    BY <2>2, Logs, ScansDone, Decodes, Dispatches
  <2>3. CASE Execute(r) \/ ExecuteFails(r) \/ scanFrameLine(r)
    BY <2>3, Executes, OutputEnds
  <2>4. CASE settle(r) \/ finalize(r) \/ deregisterActiveRun(r) \/ computeTerminalEvent(r) \/ saveOutcome(r)
    BY <2>4, Settles, Finalizes, Deregisters, Publishes, Saves
  <2> QED
    BY <1>2, <2>1, <2>2, <2>3, <2>4 DEF HostStep
<1>3. ASSUME NEW r \in Runs, ChildStep(r) \/ WatchStep(r) \/ Deadline(r) \/ allow(r) PROVE RunInv'
  BY <1>3, ChildSteps, WatchSteps, DeadlinePasses, Allows
<1>4. ASSUME NEW s \in Stops, runScriptStop(s) \/ StopStep(s) PROVE RunInv'
  BY <1>4, StopFinds, StopSteps
<1>5. CASE runScriptDebugControl
  BY <1>5, DebuggerSteps
<1>6. CASE runScriptEdit
  BY <1>6, OthersEdit
<1>7. CASE UNCHANGED vars
  <2>1. UNCHANGED <<file, edits, registry, run, child, watch, stop, events>>
    BY <1>7 DEF vars
  <2>2. TypeOK'
    BY <2>1, TypesOf, TypesMake DEF RunInv
  <2>3. (\A s \in Stops : StopOf(s)') /\ (\A r \in Runs : FoundOf(r)')
    BY <2>1 DEF RunInv, StopOf, FoundOf
  <2> QED
    BY <2>1, <2>2, <2>3 DEF RunInv
<1> QED
  BY <1>1, <1>2, <1>3, <1>4, <1>5, <1>6, <1>7 DEF Next

\* The inductive invariant of the runs, their children, watches and stops.
THEOREM RunInvariance == Spec => []RunInv
<1>1. Init => RunInv
  BY RunsStart
<1>2. RunInv /\ [Next]_vars => RunInv'
  BY RunsGoOn
<1> QED
  BY <1>1, <1>2, PTL DEF Spec

-----------------------------------------------------------------------------
(* What it says *)

\* What is told of a run is what happened to it: a child the host killed makes
\* the run "terminated" (settle), and "script stop" answers with the status of
\* the run's own terminal event (Run.Stop).
THEOREM OutcomesTold == Spec => []OutcomesAreTrue
<1>1. ASSUME RunInv PROVE OutcomesAreTrue
  <2>1. TypeOK
    BY <1>1 DEF RunInv
  <2>2. KilledIsTerminated
    BY <1>1 DEF RunInv, FitsOf, KilledIsTerminated, At
  <2>3. ASSUME NEW s \in Stops,
               stop[s].pc \in {"answered", "ended"}, run[stop[s].run].pc \in {"published", "ended"}
        PROVE  stop[s].status = IF run[stop[s].run].err THEN None ELSE events[stop[s].run][1]
    <3> DEFINE r == stop[s].run
    <3>1. r \in Runs /\ stop[s].status = (IF run[r].err THEN None ELSE run[r].status)
      BY <1>1, <2>3 DEF RunInv, StopOf
    <3>2. events[r] = <<run[r].status>>
      BY <1>1, <2>3, <3>1 DEF RunInv, EventsOf, Told
    <3> QED
      BY <3>1, <3>2
  <2> QED
    BY <2>1, <2>2, <2>3 DEF OutcomesAreTrue, StopTellsTheOutcome
<1> QED
  BY <1>1, RunInvariance, PTL

\* A run that is under way can be found under its name, also while an earlier
\* run of the script still unwinds (registerActiveRun, deregisterActiveRun).
THEOREM LiveRunsFound == Spec => []LiveRunIsFindable
<1>1. ASSUME RunInv PROVE LiveRunIsFindable
  <2>1. ASSUME NEW r \in Runs, UnderWay(r), ~At(r, "loaded"), ~run[r].replaced
        PROVE  registry[NameOf[r]] = r
    <3>1. run[r].pc \in Live
      BY <2>1 DEF UnderWay, At, Live
    <3> QED
      BY <1>1, <2>1, <3>1 DEF RunInv, FoundOf
  <2> QED
    BY <2>1 DEF LiveRunIsFindable
<1> QED
  BY <1>1, RunInvariance, PTL

\* An answer is not taken back.
LEMMA AnswersStay ==
  ASSUME RunInv, [Next]_vars, NEW s \in Stops, stop[s].pc \in {"answered", "ended"}
  PROVE  stop'[s].pc \in {"answered", "ended"} /\ stop'[s].run = stop[s].run
<1>1. CASE UNCHANGED stop
  BY <1>1
<1>2. ASSUME NEW x \in Stops, runScriptStop(x) \/ StopStep(x)
      PROVE  stop'[s].pc \in {"answered", "ended"} /\ stop'[s].run = stop[s].run
  <2>1. stop \in [Stops -> StopType] /\ stop[s] \in StopType
    BY TypesOf DEF RunInv
  <2>2. CASE x = s
    <3>1. stop' = [stop EXCEPT ![s].pc = "ended"]
      BY <1>2, <2>2 DEF runScriptStop, StopStep, stopTerminates, Stop, stopSaves
    <3> QED
      BY <2>1, <3>1 DEF StopType
  <2>3. CASE x # s
    <3>1. stop'[s] = stop[s]
      BY <1>2, <2>1, <2>3 DEF runScriptStop, StopStep, stopTerminates, Stop, stopSaves
    <3> QED
      BY <3>1
  <2> QED
    BY <2>2, <2>3
<1>3. ASSUME NEW r \in Runs, HostStep(r) PROVE UNCHANGED stop
  BY <1>3 DEF HostStep, registerActiveRun, armDeadline, startChild, assignJob, NewDebugBridge, scanLog,
              scanDone, DecodeFrame, dispatchCmdCall, Execute, ExecuteFails, scanFrameLine, settle, finalize,
              deregisterActiveRun, computeTerminalEvent, saveOutcome
<1>4. ASSUME NEW r \in Runs,
             \/ runScriptRun(r) \/ runScriptDebug(r) \/ ChildStep(r) \/ WatchStep(r) \/ Deadline(r) \/ allow(r)
      PROVE  UNCHANGED stop
  BY <1>4 DEF runScriptRun, runScriptDebug, ChildStep, ChildSends, ChildFinishes, ChildExits, ChildCrashes,
              ChildPauses, Child, WatchStep, checkMemoryPressure, startMemoryWatch, Deadline, allow
<1>5. CASE runScriptDebugControl \/ runScriptEdit \/ UNCHANGED vars
  <2>1. UNCHANGED stop
    BY <1>5 DEF runScriptDebugControl, Child, runScriptEdit, vars
  <2> QED
    BY <1>1, <2>1
<1> QED
  BY <1>1, <1>2, <1>3, <1>4, <1>5 DEF Next

\* Once "script stop" has answered, the script's process is gone, and no call of
\* it is carried out any more (finalize, before done is closed).
THEOREM StoppedScriptsAreQuiet == Spec => StoppedIsQuiet
<1> DEFINE Quiet ==
      \A s \in Stops :
        stop[s].pc \in {"answered", "ended"} =>
          /\ ~Alive(stop[s].run)
          /\ run'[stop[s].run].pc # "executing"
<1>1. ASSUME RunInv, [Next]_vars PROVE Quiet
  <2>1. ASSUME NEW s \in Stops, stop[s].pc \in {"answered", "ended"}
        PROVE  ~Alive(stop[s].run) /\ run'[stop[s].run].pc # "executing"
    <3> DEFINE r == stop[s].run
    <3>1. r \in Runs /\ run[r].pc \in Over
      BY <1>1, <2>1 DEF RunInv, StopOf
    <3>2. child[r].state = "none"
      BY <1>1, <3>1, Own DEF FitsOf
    <3>3. RunInv'
      BY <1>1, RunsGoOn
    <3>4. stop'[s].pc \in {"answered", "ended"} /\ stop'[s].run = r
      BY <1>1, <2>1, AnswersStay
    <3>5. run'[r].pc \in Over
      BY <3>3, <3>4 DEF RunInv, StopOf
    <3> QED
      BY <3>2, <3>5 DEF Alive, Over
  <2> QED
    BY <2>1
<1>2. RunInv /\ [Next]_vars => [Quiet]_vars
  BY <1>1
<1> QED
  BY <1>2, RunInvariance, PTL DEF Spec, StoppedIsQuiet
=============================================================================
