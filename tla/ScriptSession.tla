---------------------------- MODULE ScriptSession ----------------------------
(***************************************************************************)
(* Runs of saved scripts (internal/script, command/script*.go): each       *)
(* "script run" or "script debug" builds a Host, registers a Run, starts a *)
(* Deno child, answers the child's command frames and settles how the run  *)
(* ended, while "script stop", the debugger commands, the memory watch and *)
(* the deadline act on the same Run.  The show file is the edits it holds; *)
(* a command's own load and save are one step, as ShowStore covers their   *)
(* races, but a run loads before and saves after all the script does.      *)
(***************************************************************************)
EXTENDS Integers, Sequences, FiniteSets

CONSTANTS
  NRuns,       \* how often "script run" and "script debug" are invoked
  Stops,       \* invocations of "script stop"
  Names,       \* scripts
  NameOf,      \* Runs \cup Stops -> Names: the script named on the command line
  Rate,        \* calls a run may make before a token comes back
  MaxLive,     \* bound: runs under way at a time
  Modes,       \* Runs -> the ways it may be invoked, of "run" and "debug"
  Jobs,        \* Runs -> whether the platform gives it a job object it can watch
  Sources,     \* Runs -> the scripts it may be: sequences of the frames they send
  MaxEdits     \* bound: edits, by scripts and by others

None == "none"

NoRunYet == 0  \* no run of the name is registered

\* What a command frame asks for: a route within the script's scope, one
\* beyond it, one the SDK does not have, one whose parameters do not decode.
CallKinds == {"edit", "scope", "unknown", "params"}

\* "bogus" is a line that is no frame, is too long, or is not the child's to send.
FrameKinds == CallKinds \cup {"log", "done", "bogus"}

\* Invocations, numbered as they come.
Runs == 1..NRuns

ASSUME SessionAssumption ==
  /\ NRuns \in Nat
  /\ NameOf \in [Runs \cup Stops -> Names]
  /\ Rate \in Nat \ {0}
  /\ MaxLive \in Nat
  /\ Modes \in [Runs -> SUBSET {"run", "debug"}]
  /\ Jobs \in [Runs -> SUBSET BOOLEAN]
  /\ \A r \in Runs : Sources[r] \subseteq Seq(FrameKinds \ {"done"})
  /\ MaxEdits \in Nat

VARIABLES
  file,      \* the show: the edits it contains
  edits,     \* how many edits were made
  registry,  \* activeRuns.byName
  run,       \* the Run, and the goroutine that drives it
  child,     \* the Deno process of each run
  watch,     \* the memory watch of each run
  stop,      \* "script stop" invocations
  events     \* terminal events published: Runs -> sequence of statuses

vars == <<file, edits, registry, run, child, watch, stop, events>>

NoRun ==
  [pc |-> "idle", mode |-> "run", snap |-> {},
   term |-> None, cancel |-> FALSE, job |-> FALSE, bridge |-> "none", ctx |-> "live",
   tokens |-> Rate, call |-> None, status |-> None, err |-> FALSE,
   done |-> FALSE, replaced |-> FALSE]

NoChild == [state |-> "none", pipe |-> <<>>, todo |-> <<>>, finished |-> FALSE]

At(r, pc) == run[r].pc = pc

Alive(r) == child[r].state \in {"running", "paused"}

-----------------------------------------------------------------------------
\* Termination

\* The first reason recorded is the one that stands.
beginTermination(rec, reason) ==
  IF rec.term = None THEN [rec EXCEPT !.term = reason] ELSE rec

\* Closing a bridge that is closed, or was never there, does nothing.
CloseBridge(bridge) == IF bridge = "open" THEN "closed" ELSE bridge

\* Bridge, job and context of what is set by now: before the context is set
\* there is nothing to close, and what is set later stays.
terminate(r, rec) ==
  /\ run' = [run EXCEPT ![r] = [rec EXCEPT !.bridge = CloseBridge(@),
                                           !.ctx = IF rec.cancel /\ @ = "live" THEN "canceled" ELSE @]]
  /\ child' = [child EXCEPT ![r].state = IF (rec.job \/ rec.cancel) /\ Alive(r) THEN "killed" ELSE @]

-----------------------------------------------------------------------------
\* Host.Run, and "script run" and "script debug" around it

UnderWay(r) ==
  run[r].pc \in {"loaded", "registered", "armed", "started", "attaching", "reading", "executing",
                "waiting", "decided"}

\* Invocation r is the next one.
Invoked(r) ==
  /\ At(r, "idle")
  /\ \A q \in 1..(r - 1) : ~At(q, "idle")
  /\ Cardinality({q \in Runs : UnderWay(q)}) < MaxLive

\* The show, which has the script, is kept until the run has ended.
runScriptRun(r) ==
  /\ Invoked(r)
  /\ "run" \in Modes[r]
  /\ run' = [run EXCEPT ![r].pc = "loaded", ![r].snap = file, ![r].mode = "run"]
  /\ UNCHANGED <<file, edits, registry, child, watch, stop, events>>

runScriptDebug(r) ==
  /\ Invoked(r)
  /\ "debug" \in Modes[r]
  /\ run' = [run EXCEPT ![r].pc = "loaded", ![r].snap = file, ![r].mode = "debug"]
  /\ UNCHANGED <<file, edits, registry, child, watch, stop, events>>

registerActiveRun(r) ==
  /\ At(r, "loaded")
  /\ registry' = [registry EXCEPT ![NameOf[r]] = r]
  /\ LET old == registry[NameOf[r]]
     IN run' = [q \in Runs |->
                  IF q = r THEN [run[q] EXCEPT !.pc = "registered"]
                  ELSE IF q = old THEN [run[q] EXCEPT !.replaced = TRUE] ELSE run[q]]
  /\ UNCHANGED <<file, edits, child, watch, stop, events>>

\* The context with the run's deadline.
armDeadline(r) ==
  /\ At(r, "registered")
  /\ run' = [run EXCEPT ![r].cancel = TRUE, ![r].pc = "armed"]
  /\ UNCHANGED <<file, edits, registry, child, watch, stop, events>>

\* Directory, source file, port, pipes and process; a context that is over
\* starts nothing.  A run that fails here has no outcome, only an error.
startChild(r) ==
  /\ At(r, "armed")
  /\ \/ /\ run[r].ctx = "live"
        /\ run' = [run EXCEPT ![r].pc = "started"]
        /\ \E source \in Sources[r] :
             child' = [child EXCEPT ![r].state = IF run[r].mode = "debug" THEN "paused" ELSE "running",
                                    ![r].todo = source]
     \/ /\ run' = [run EXCEPT ![r].pc = "decided", ![r].err = TRUE, ![r].status = "failed"]
        /\ UNCHANGED child
  /\ UNCHANGED <<file, edits, registry, watch, stop, events>>

\* The job object that limits the child, and with it the memory watch; a run
\* goes on without them when they cannot be had.
assignJob(r) ==
  /\ At(r, "started")
  /\ \E ok \in Jobs[r] :
       /\ run' = [run EXCEPT ![r].job = ok, ![r].pc = IF run[r].mode = "debug" THEN "attaching" ELSE "reading"]
       /\ watch' = [watch EXCEPT ![r] = IF ok THEN "below" ELSE @]
  /\ UNCHANGED <<file, edits, registry, child, stop, events>>

\* The inspector: connected, breakpoints set and the child let go; or not, and
\* the child waits for a debugger that will not come.
NewDebugBridge(r) ==
  /\ At(r, "attaching")
  /\ \/ /\ run[r].ctx = "live"
        /\ child[r].state = "paused"
        /\ run' = [run EXCEPT ![r].bridge = "open", ![r].pc = "reading"]
        /\ child' = [child EXCEPT ![r].state = "running"]
     \/ /\ run' = [run EXCEPT ![r].pc = "reading"]
        /\ UNCHANGED child
  /\ UNCHANGED <<file, edits, registry, watch, stop, events>>

-----------------------------------------------------------------------------
\* The dispatch loop

Read(r) == child' = [child EXCEPT ![r].pipe = Tail(@)]

NextFrame(r, kinds) ==
  /\ At(r, "reading")
  /\ child[r].pipe # <<>>
  /\ Head(child[r].pipe) \in kinds

scanLog(r) ==
  /\ NextFrame(r, {"log"})
  /\ Read(r)
  /\ UNCHANGED <<file, edits, registry, run, watch, stop, events>>

\* A fault: the inspector is left attached until the run is over.
FaultScanDone(r) ==
  /\ NextFrame(r, {"done"})
  /\ Read(r)
  /\ UNCHANGED <<file, edits, registry, run, watch, stop, events>>

\* The inspector would keep a finished child from exiting.
scanDone(r) ==
  /\ NextFrame(r, {"done"})
  /\ Read(r)
  /\ run' = [run EXCEPT ![r].bridge = CloseBridge(@)]
  /\ UNCHANGED <<file, edits, registry, watch, stop, events>>

\* The loop ends; the child may still be there.
DecodeFrame(r) ==
  /\ NextFrame(r, {"bogus"})
  /\ Read(r)
  /\ run' = [run EXCEPT ![r].pc = "waiting", ![r].status = "failed"]
  /\ UNCHANGED <<file, edits, registry, watch, stop, events>>

\* The result of a call cannot be written to a child that is gone: the loop ends.
Answered(r, rec) == IF Alive(r) THEN rec ELSE [rec EXCEPT !.pc = "waiting", !.status = "failed"]

Refused(r) ==
  /\ Read(r)
  /\ run' = [run EXCEPT ![r] = Answered(r, run[r])]

\* Scope and rate of a call: beyond either the run is over.
Enforce(r, call) ==
  IF call = "scope" THEN "scope" ELSE IF run[r].tokens = 0 THEN "rate" ELSE None

dispatchCmdCall(r) ==
  /\ NextFrame(r, CallKinds)
  /\ LET call == Head(child[r].pipe)
         reason == Enforce(r, call)
     IN \/ /\ run[r].term # None \/ call = "unknown"
           /\ Refused(r)
        \/ /\ run[r].term = None
           /\ call # "unknown"
           /\ reason # None
           /\ terminate(r, beginTermination(run[r], reason))
        \/ /\ run[r].term = None
           /\ call # "unknown"
           /\ reason = None
           /\ LET taken == [run[r] EXCEPT !.tokens = @ - 1]
              IN run' = [run EXCEPT ![r] = IF call = "params" THEN Answered(r, taken)
                                           ELSE [taken EXCEPT !.call = call, !.pc = "executing"]]
           /\ Read(r)
  /\ UNCHANGED <<file, edits, registry, watch, stop, events>>

\* An accepted call runs to its end, whatever has happened to the run since.
Execute(r) ==
  /\ At(r, "executing")
  /\ edits < MaxEdits
  /\ edits' = edits + 1
  /\ file' = file \cup {edits'}
  /\ run' = [run EXCEPT ![r].call = None,
                        ![r].pc = IF Alive(r) THEN "reading" ELSE "waiting",
                        ![r].status = IF Alive(r) THEN @ ELSE "failed"]
  /\ UNCHANGED <<registry, child, watch, stop, events>>

\* The command fails: nothing is saved.
ExecuteFails(r) ==
  /\ At(r, "executing")
  /\ run' = [run EXCEPT ![r].call = None,
                        ![r].pc = IF Alive(r) THEN "reading" ELSE "waiting",
                        ![r].status = IF Alive(r) THEN @ ELSE "failed"]
  /\ UNCHANGED <<file, edits, registry, child, watch, stop, events>>

\* End of the child's output.
scanFrameLine(r) ==
  /\ At(r, "reading")
  /\ child[r].pipe = <<>>
  /\ ~Alive(r)
  /\ run' = [run EXCEPT ![r].pc = "waiting"]
  /\ UNCHANGED <<file, edits, registry, child, watch, stop, events>>

-----------------------------------------------------------------------------
\* How the run ended

Verdict(r) ==
  IF run[r].term # None \/ run[r].ctx # "live" THEN "terminated"
  ELSE IF child[r].state = "oom" THEN "terminated"
  ELSE IF child[r].state \in {"crashed", "killed"} THEN "failed"
  ELSE IF run[r].status = None THEN "succeeded" ELSE run[r].status

\* cmd.Wait returns when the child is gone.
settle(r) ==
  /\ At(r, "waiting")
  /\ ~Alive(r)
  /\ run' = [run EXCEPT ![r].status = Verdict(r), ![r].pc = "decided"]
  /\ UNCHANGED <<file, edits, registry, child, watch, stop, events>>

\* What is left of a Run once its deferred calls have dropped the rest.
Released(r, done) ==
  [NoRun EXCEPT !.pc = "closed", !.snap = run[r].snap, !.status = run[r].status, !.err = run[r].err,
                !.done = done]

\* The deferred calls, in the order they run: bridge, watch, job and context
\* go, then the outcome is there for a Stop, the run leaves the registry, and
\* the terminal event is published.
finalize(r) ==
  /\ At(r, "decided")
  /\ run' = [run EXCEPT ![r] = Released(r, TRUE)]
  /\ child' = [child EXCEPT ![r] = NoChild]
  /\ watch' = [watch EXCEPT ![r] = "off"]
  /\ UNCHANGED <<file, edits, registry, stop, events>>

\* A fault: whatever run the registry holds under the name is removed.
FaultDeregister(r) ==
  /\ At(r, "closed")
  /\ registry' = [registry EXCEPT ![NameOf[r]] = NoRunYet]
  /\ run' = [run EXCEPT ![r].pc = "deregistered"]
  /\ UNCHANGED <<file, edits, child, watch, stop, events>>

deregisterActiveRun(r) ==
  /\ At(r, "closed")
  /\ registry' = [registry EXCEPT ![NameOf[r]] = IF @ = r THEN NoRunYet ELSE @]
  /\ run' = [run EXCEPT ![r].pc = "deregistered"]
  /\ UNCHANGED <<file, edits, child, watch, stop, events>>

computeTerminalEvent(r) ==
  /\ At(r, "deregistered")
  /\ events' = [events EXCEPT ![r] = Append(@, run[r].status)]
  /\ run' = [run EXCEPT ![r].pc = IF run[r].err THEN "ended" ELSE "published"]
  /\ UNCHANGED <<file, edits, registry, child, watch, stop>>

\* The show that was loaded before the run; the status added to it is left out.
saveOutcome(r) ==
  /\ At(r, "published")
  /\ file' = run[r].snap
  /\ run' = [run EXCEPT ![r].pc = "ended", ![r].snap = {}]
  /\ UNCHANGED <<edits, registry, child, watch, stop, events>>

-----------------------------------------------------------------------------
\* The child

Child(r, rec) ==
  /\ child' = [child EXCEPT ![r] = rec]
  /\ UNCHANGED <<file, edits, registry, run, watch, stop, events>>

ChildSends(r) ==
  /\ child[r].state = "running"
  /\ ~child[r].finished
  /\ child[r].todo # <<>>
  /\ Child(r, [child[r] EXCEPT !.pipe = Append(@, Head(child[r].todo)), !.todo = Tail(@)])

\* The completion trailer: the done frame, then Deno.exit(0).
ChildFinishes(r) ==
  /\ child[r].state = "running"
  /\ ~child[r].finished
  /\ child[r].todo = <<>>
  /\ Child(r, [child[r] EXCEPT !.pipe = Append(@, "done"), !.finished = TRUE])

\* The inspector holds a process that exits while a debugger is attached.
ChildExits(r) ==
  /\ child[r].state = "running"
  /\ child[r].finished
  /\ run[r].bridge # "open"
  /\ Child(r, [child[r] EXCEPT !.state = "exited"])

\* An uncaught error, or memory that is exhausted.
ChildCrashes(r) ==
  /\ child[r].state = "running"
  /\ ~child[r].finished
  /\ \E s \in {"crashed", "oom"} : Child(r, [child[r] EXCEPT !.state = s])

ChildPauses(r) ==
  /\ child[r].state = "running"
  /\ ~child[r].finished
  /\ run[r].bridge = "open"
  /\ Child(r, [child[r] EXCEPT !.state = "paused"])

-----------------------------------------------------------------------------
\* What else acts on a run

\* The context's deadline: the process is killed.
Deadline(r) ==
  /\ run[r].cancel
  /\ run[r].ctx = "live"
  /\ run[r].pc \in {"armed", "started", "attaching", "reading", "executing", "waiting"}
  /\ run' = [run EXCEPT ![r].ctx = "deadline"]
  /\ child' = [child EXCEPT ![r].state = IF Alive(r) THEN "killed" ELSE @]
  /\ UNCHANGED <<file, edits, registry, watch, stop, events>>

\* A token of the run's rate limiter comes back.
allow(r) ==
  /\ At(r, "reading")
  /\ run[r].tokens < Rate
  /\ run' = [run EXCEPT ![r].tokens = @ + 1]
  /\ UNCHANGED <<file, edits, registry, child, watch, stop, events>>

\* A sample of the job's memory: two in a row above the trigger are needed.
checkMemoryPressure(r) ==
  /\ watch[r] \in {"below", "above"}
  /\ run[r].ctx = "live"
  /\ \/ watch' = [watch EXCEPT ![r] = IF @ = "below" THEN "above" ELSE "firing"]
     \/ watch[r] = "above" /\ watch' = [watch EXCEPT ![r] = "below"]
  /\ UNCHANGED <<file, edits, registry, run, child, stop, events>>

\* The reason first, then the kill.
startMemoryWatch(r) ==
  /\ \/ /\ watch[r] = "firing"
        /\ run' = [run EXCEPT ![r] = beginTermination(@, "memory")]
        /\ watch' = [watch EXCEPT ![r] = "killing"]
        /\ UNCHANGED child
     \/ /\ watch[r] = "killing"
        /\ terminate(r, run[r])
        /\ watch' = [watch EXCEPT ![r] = "off"]
  /\ UNCHANGED <<file, edits, registry, stop, events>>

\* "script stop" finds the run and records its reason.
runScriptStop(s) ==
  /\ stop[s].pc = "idle"
  /\ LET r == registry[NameOf[s]]
     IN \/ /\ r = NoRunYet
           /\ stop' = [stop EXCEPT ![s].pc = "refused"]
           /\ UNCHANGED run
        \/ /\ r # NoRunYet
           /\ run' = [run EXCEPT ![r] = beginTermination(@, "user")]
           /\ stop' = [stop EXCEPT ![s].pc = "begun", ![s].run = r]
  /\ UNCHANGED <<file, edits, registry, child, watch, events>>

stopTerminates(s) ==
  /\ stop[s].pc = "begun"
  /\ terminate(stop[s].run, run[stop[s].run])
  /\ stop' = [stop EXCEPT ![s].pc = "blocked"]
  /\ UNCHANGED <<file, edits, registry, watch, events>>

\* A fault: Stop answers with what the outcome is by now.
FaultStop(s) ==
  /\ stop[s].pc = "blocked"
  /\ stop' = [stop EXCEPT ![s].pc = "answered",
                          ![s].status = IF run[stop[s].run].err THEN None ELSE run[stop[s].run].status]
  /\ UNCHANGED <<file, edits, registry, run, child, watch, events>>

\* The outcome, once done is closed.  A run that failed to start has none.
Stop(s) ==
  /\ stop[s].pc = "blocked"
  /\ run[stop[s].run].done
  /\ stop' = [stop EXCEPT ![s].pc = "answered",
                          ![s].status = IF run[stop[s].run].err THEN None ELSE run[stop[s].run].status]
  /\ UNCHANGED <<file, edits, registry, run, child, watch, events>>

\* A fresh show, with the script's status changed.
stopSaves(s) ==
  /\ stop[s].pc = "answered"
  /\ stop' = [stop EXCEPT ![s].pc = "ended"]
  /\ UNCHANGED <<file, edits, registry, run, child, watch, events>>

\* Continue and the steps: of any active run, if it has a debugger.
runScriptDebugControl ==
  \E n \in Names :
    LET r == registry[n]
    IN /\ r # NoRunYet
       /\ run[r].bridge = "open"
       /\ child[r].state = "paused"
       /\ Child(r, [child[r] EXCEPT !.state = "running"])

\* A command of someone else; of the scripts' own, "script edit".
runScriptEdit ==
  /\ edits < MaxEdits
  /\ edits' = edits + 1
  /\ file' = file \cup {edits'}
  /\ UNCHANGED <<registry, run, child, watch, stop, events>>

-----------------------------------------------------------------------------
Init ==
  /\ file = {}
  /\ edits = 0
  /\ registry = [n \in Names |-> NoRunYet]
  /\ run = [r \in Runs |-> NoRun]
  /\ child = [r \in Runs |-> NoChild]
  /\ watch = [r \in Runs |-> "off"]
  /\ stop = [s \in Stops |-> [pc |-> "idle", run |-> NoRunYet, status |-> None]]
  /\ events = [r \in Runs |-> <<>>]

\* The goroutine of the run.
HostStep(r) ==
  \/ registerActiveRun(r) \/ armDeadline(r) \/ startChild(r) \/ assignJob(r)
  \/ NewDebugBridge(r)
  \/ scanLog(r) \/ scanDone(r) \/ DecodeFrame(r) \/ dispatchCmdCall(r)
  \/ Execute(r) \/ ExecuteFails(r) \/ scanFrameLine(r)
  \/ settle(r) \/ finalize(r) \/ deregisterActiveRun(r) \/ computeTerminalEvent(r)
  \/ saveOutcome(r)

ChildStep(r) ==
  \/ ChildSends(r) \/ ChildFinishes(r) \/ ChildExits(r) \/ ChildCrashes(r)
  \/ ChildPauses(r)

WatchStep(r) == checkMemoryPressure(r) \/ startMemoryWatch(r)

StopStep(s) == stopTerminates(s) \/ Stop(s) \/ stopSaves(s)

Next ==
  \/ \E r \in Runs : runScriptRun(r) \/ runScriptDebug(r)
  \/ \E r \in Runs : HostStep(r) \/ ChildStep(r) \/ WatchStep(r) \/ Deadline(r) \/ allow(r)
  \/ \E s \in Stops : runScriptStop(s) \/ StopStep(s)
  \/ runScriptDebugControl
  \/ runScriptEdit

\* Goroutines run.  A script may do nothing for ever and is then stopped by the
\* deadline; a finished one whose frames are still read must not need it, as its
\* exit is up to the operating system.  (One that broke the protocol and has a
\* debugger attached does need it: nobody reads its done frame.)
Fairness ==
  /\ \A r \in Runs :
       /\ WF_vars(HostStep(r))
       /\ WF_vars(ChildExits(r))
       /\ WF_vars(startMemoryWatch(r))
       /\ WF_vars(~(child[r].finished /\ At(r, "reading")) /\ Deadline(r))
  /\ \A s \in Stops : WF_vars(StopStep(s))

Spec == Init /\ [][Next]_vars /\ Fairness

-----------------------------------------------------------------------------
\* Properties

\* The type of the state.
TypeOK ==
  /\ file \in SUBSET (1..MaxEdits)
  /\ edits \in 0..MaxEdits
  /\ registry \in [Names -> Runs \cup {NoRunYet}]
  /\ run \in
       [Runs ->
         [pc : {"idle", "loaded", "registered", "armed", "started", "attaching", "reading", "executing",
                "waiting", "decided", "closed", "deregistered", "published", "ended"},
          mode : {"run", "debug"}, snap : SUBSET (1..MaxEdits),
          term : {None, "user", "memory", "scope", "rate"}, cancel : BOOLEAN, job : BOOLEAN,
          bridge : {"none", "open", "closed"}, ctx : {"live", "canceled", "deadline"}, tokens : 0..Rate,
          call : {None, "edit"}, status : {None, "succeeded", "failed", "terminated"},
          err : BOOLEAN, done : BOOLEAN, replaced : BOOLEAN]]
  /\ child \in
       [Runs -> [state : {"none", "running", "paused", "exited", "crashed", "oom", "killed"},
                 pipe : Seq(FrameKinds), todo : Seq(FrameKinds), finished : BOOLEAN]]
  /\ watch \in [Runs -> {"off", "below", "above", "firing", "killing"}]
  /\ stop \in
       [Stops -> [pc : {"idle", "begun", "blocked", "answered", "ended", "refused"},
                  run : Runs \cup {NoRunYet}, status : {None, "succeeded", "failed", "terminated"}]]
  /\ events \in [Runs -> Seq({"succeeded", "failed", "terminated"})]

\* Whoever killed the child, the run reports "terminated": a script the host put
\* an end to is never said to have failed by itself (session.go, the precedence
\* of the recorded reason over the child's exit).
KilledIsTerminated ==
  \A r \in Runs :
    At(r, "decided") /\ child[r].state = "killed" => run[r].status = "terminated"

\* What "script stop" answers is what the run's own terminal event says
\* (Run.Stop: the run's true final outcome, no snapshot taken mid-shutdown).
StopTellsTheOutcome ==
  \A s \in Stops :
    LET r == stop[s].run
    IN stop[s].pc \in {"answered", "ended"} /\ run[r].pc \in {"published", "ended"}
         => stop[s].status = (IF run[r].err THEN None ELSE events[r][1])

\* The outcome recorded for a run and the one told to whoever stopped it are
\* what happened to its process.
OutcomesAreTrue ==
  /\ TypeOK
  /\ KilledIsTerminated
  /\ StopTellsTheOutcome

\* Once "script stop" has answered, the script's process is gone and no call of
\* it is carried out any more.
StoppedIsQuiet ==
  [][\A s \in Stops :
       stop[s].pc \in {"answered", "ended"} =>
         /\ ~Alive(stop[s].run)
         /\ run'[stop[s].run].pc # "executing"]_vars

\* A run that is under way and whose name no later run has taken can be found by
\* "script stop", also when an earlier run of the script is still unwinding
\* (deregisterActiveRun).
LiveRunIsFindable ==
  \A r \in Runs :
    UnderWay(r) /\ ~At(r, "loaded") /\ ~run[r].replaced
      => registry[NameOf[r]] = r

\* Every run ends, and says so once: a finished script without the help of the
\* deadline, even with a debugger attached (runDispatchIO on the done frame).
RunsEnd == \A r \in Runs : At(r, "loaded") ~> At(r, "ended") /\ Len(events[r]) = 1

\* "script stop" is never left waiting, whatever became of the run (session.go:
\* a Stop blocked on done must never hang because Run failed early).
StopsReturn == \A s \in Stops : stop[s].pc = "begun" ~> stop[s].pc = "ended"

\* Every run that starts is finished, every caller of Stop returns, and by then
\* the script is quiet.
RunsAndStopsEnd ==
  /\ RunsEnd
  /\ StopsReturn
  /\ StoppedIsQuiet
=============================================================================
