----------------------------- MODULE DesktopApp -----------------------------
(***************************************************************************)
(* The desktop process and the Art-Net daemon it supervises                *)
(* (internal/wails/app.go, internal/command/artnet.go, artnet/daemon.go,   *)
(* artnet/interfacemgr.go, artnet/ipc).  A desktop process looks for a     *)
(* daemon on the endpoint and spawns one when there is none.  The frontend *)
(* can switch to another show, which starts a replacement process and ends *)
(* this one, or to another network interface, which only restarts the      *)
(* daemon.  The window may be closed at any time.                          *)
(*                                                                         *)
(* A daemon started by hand is nobody's child: it is neither stopped nor   *)
(* restarted (the limitation app.go states).                               *)
(***************************************************************************)
EXTENDS Integers, FiniteSets

CONSTANTS
  Shows,       \* show files
  Interfaces,  \* network interfaces
  Callers,     \* frontend calls in progress at once
  Retries,     \* DialRetries
  MaxApps,     \* bound: desktop processes started
  MaxDaemons,  \* bound: daemons started
  MaxCalls,    \* bound: calls
  MaxFaults    \* bound: daemons failing or started by hand, interfaces going down or
               \* up, switches that meet a startup, shutdowns that meet one of the two

ASSUME DesktopAssumption ==
  /\ "startup" \notin Callers /\ "shutdown" \notin Callers
  /\ {Retries, MaxApps, MaxDaemons, MaxCalls, MaxFaults} \subseteq Nat
  /\ Retries > 0 /\ MaxApps > 0
  /\ Shows # {} /\ Interfaces # {}

Apps == 1..MaxApps

Pids == 1..MaxDaemons

\* Goroutines of a desktop process
Threads == Callers \cup {"startup", "shutdown"}

VARIABLES
  app,      \* the desktop processes
  thread,   \* their goroutines
  daemon,   \* the daemons
  down,     \* interfaces that are down
  torn,     \* history: processes in which a switch met the startup, or a shutdown one of the two
  used

vars == <<app, thread, daemon, down, torn, used>>

NoApp == [life |-> "none", show |-> CHOOSE s \in Shows : TRUE, iface |-> CHOOSE i \in Interfaces : TRUE, cmd |-> 0,
          unreachable |-> FALSE, relaunching |-> FALSE]

Idle == [pc |-> "idle", kind |-> "none", iface |-> NoApp.iface, show |-> NoApp.show, pid |-> 0, tries |-> 0]

NoDaemon == [state |-> "none", show |-> NoApp.show, iface |-> NoApp.iface, by |-> 0, lost |-> FALSE]

Dead == [NoDaemon EXCEPT !.state = "dead"]

\* A process starts for a show, on the interface the environment names.
NewApp(s) == [NoApp EXCEPT !.life = "up", !.show = s]

Starting == [Idle EXCEPT !.pc = "dial", !.kind = "startup"]

Init ==
  /\ app = [a \in Apps |-> IF a = 1 THEN NewApp(NoApp.show) ELSE NoApp]
  /\ thread = [a \in Apps |-> [t \in Threads |-> IF a = 1 /\ t = "startup" THEN Starting ELSE Idle]]
  /\ daemon = [p \in Pids |-> NoDaemon]
  /\ down = {}
  /\ torn = {}
  /\ used = [calls |-> 0, faults |-> 0]

Serving == {p \in Pids : daemon[p].state = "serving"}

Alive == {p \in Pids : daemon[p].state \in {"starting", "serving"}}

Unused == {p \in Pids : daemon[p].state = "none"}

-----------------------------------------------------------------------------
\* The daemon

Started(p, s, i, a) ==
  daemon' = [daemon EXCEPT ![p] = [state |-> "starting", show |-> s, iface |-> i, by |-> a, lost |-> FALSE]]

NextPid == CHOOSE p \in Unused : \A q \in Unused : p <= q

\* Somebody runs "artnet serve" by hand.
External ==
  /\ Unused # {} /\ used.faults < MaxFaults
  /\ used' = [used EXCEPT !.faults = @ + 1]
  /\ \E s \in Shows : Started(NextPid, s, NoApp.iface, 0)
  /\ UNCHANGED <<app, thread, down, torn>>

\* Those in the way of p's listening: one that answers on the endpoint.
NewListener(p) == Serving

\* The daemon listens, whether or not its interface is there, or ends where the
\* endpoint is taken.
Run(p) ==
  /\ daemon[p].state = "starting"
  /\ daemon' = [daemon EXCEPT ![p] = IF NewListener(p) = {} THEN [@ EXCEPT !.state = "serving"] ELSE Dead]
  /\ UNCHANGED <<app, thread, down, torn, used>>

\* It may fail before (its show or fixtures cannot be loaded) or later.
Dies(p) ==
  /\ p \in Alive /\ used.faults < MaxFaults
  /\ used' = [used EXCEPT !.faults = @ + 1]
  /\ daemon' = [daemon EXCEPT ![p] = Dead]
  /\ UNCHANGED <<app, thread, down, torn>>

\* A pinned interface once found missing is lost for the daemon's life.
Check(p) == daemon[p].lost \/ daemon[p].iface \in down

pollInterfaceLoss(p) ==
  /\ p \in Alive
  /\ daemon' = [daemon EXCEPT ![p].lost = Check(p)]
  /\ UNCHANGED <<app, thread, down, torn, used>>

InterfaceChanges ==
  /\ used.faults < MaxFaults
  /\ used' = [used EXCEPT !.faults = @ + 1]
  /\ \E i \in Interfaces : down' = IF i \in down THEN down \ {i} ELSE down \cup {i}
  /\ UNCHANGED <<app, thread, daemon, torn>>

-----------------------------------------------------------------------------
\* The desktop process

At(a, t, pc) == app[a].life \in {"up", "closing"} /\ thread[a][t].pc = pc

Goto(a, t, pc) == thread' = [thread EXCEPT ![a][t].pc = pc]

Return(a, t) == thread' = [thread EXCEPT ![a][t] = Idle]

\* Where a goroutine goes on once the daemon is stopped, and once one was
\* looked for.
AfterStop(kind) ==
  CASE kind = "relaunch" -> "launch" [] kind = "shutdown" -> "exit" [] OTHER -> "switch"

AfterEnsure(kind) ==
  IF kind = "select" THEN "report" ELSE "fail"

\* A fault: a child that answers is kept.
FaultstopSupervisedDaemon(a, t) ==
  /\ At(a, t, "stop")
  /\ thread' = [thread EXCEPT ![a][t].pc = "kill", ![a][t].pid = IF app[a].cmd \in Serving THEN 0 ELSE app[a].cmd]
  /\ app' = [app EXCEPT ![a].cmd = IF @ \in Serving THEN @ ELSE 0]
  /\ UNCHANGED <<daemon, down, torn, used>>

\* stopSupervisedDaemon: the child is forgotten under the lock ...
stopSupervisedDaemon(a, t) ==
  /\ At(a, t, "stop")
  /\ thread' = [thread EXCEPT ![a][t].pc = "kill", ![a][t].pid = app[a].cmd]
  /\ app' = [app EXCEPT ![a].cmd = 0]
  /\ UNCHANGED <<daemon, down, torn, used>>

\* ... then killed, and waited for.
Kill(a, t) ==
  /\ At(a, t, "kill")
  /\ daemon' = [p \in Pids |-> IF p = thread[a][t].pid THEN Dead ELSE daemon[p]]
  /\ thread' = [thread EXCEPT ![a][t].pc = AfterStop(thread[a][t].kind), ![a][t].pid = 0]
  /\ UNCHANGED <<app, down, torn, used>>

Ensured(a, t) ==
  LET kind == thread[a][t].kind
  IN thread' = [thread EXCEPT ![a][t] = IF kind = "startup" THEN Idle
                                        ELSE [thread[a][t] EXCEPT !.pc = AfterEnsure(kind), !.tries = 0]]

\* ensureDaemon: nothing is spawned where a daemon answers.
ensureDaemon(a, t) ==
  /\ At(a, t, "dial")
  /\ IF Serving # {} THEN Ensured(a, t) ELSE Goto(a, t, "spawn")
  /\ UNCHANGED <<app, daemon, down, torn, used>>

defaultSpawn(a, t) ==
  /\ At(a, t, "spawn") /\ Unused # {}
  /\ Started(NextPid, app[a].show, app[a].iface, a)
  /\ thread' = [thread EXCEPT ![a][t].pc = "record", ![a][t].pid = NextPid]
  /\ UNCHANGED <<app, down, torn, used>>

\* The executable is missing or does not start.
SpawnFails(a, t) ==
  /\ At(a, t, "spawn")
  /\ Unused = {} \/ used.faults < MaxFaults
  /\ used' = [used EXCEPT !.faults = IF Unused = {} THEN @ ELSE @ + 1]
  /\ app' = [app EXCEPT ![a].unreachable = TRUE]
  /\ Ensured(a, t)
  /\ UNCHANGED <<daemon, down, torn>>

Supervise(a, t) ==
  /\ At(a, t, "record")
  /\ app' = [app EXCEPT ![a].cmd = thread[a][t].pid]
  /\ thread' = [thread EXCEPT ![a][t].pc = "retry", ![a][t].pid = 0]
  /\ UNCHANGED <<daemon, down, torn, used>>

Retry(a, t) ==
  /\ At(a, t, "retry")
  /\ IF Serving # {} THEN Ensured(a, t) /\ UNCHANGED app
     ELSE IF thread[a][t].tries + 1 < Retries
     THEN thread' = [thread EXCEPT ![a][t].tries = @ + 1] /\ UNCHANGED app
     ELSE app' = [app EXCEPT ![a].unreachable = TRUE] /\ Ensured(a, t)
  /\ UNCHANGED <<daemon, down, torn, used>>

-----------------------------------------------------------------------------
\* Calls of the frontend, while OnStartup runs or after it; one switch at a time

\* The startup is still looking for a daemon, or a switch is in progress; how
\* often a switch or a shutdown meets them is bounded.
InProgress(a) == app[a].relaunching \/ thread[a]["startup"].pc # "idle"

Met(a) == IF InProgress(a) THEN used.faults + 1 ELSE used.faults

Switch(a, t, kind, pc, s, i) ==
  /\ app[a].life = "up" /\ thread[a][t].pc = "idle"
  /\ t = CHOOSE c \in Callers : thread[a][c].pc = "idle"
  /\ used.calls < MaxCalls /\ Met(a) <= MaxFaults
  /\ used' = [calls |-> used.calls + 1, faults |-> Met(a)]
  /\ app' = [app EXCEPT ![a].relaunching = TRUE]
  /\ thread' = [thread EXCEPT ![a][t] = [Idle EXCEPT !.pc = pc, !.kind = kind, !.show = s, !.iface = i]]
  /\ torn' = IF InProgress(a) THEN torn \cup {a} ELSE torn
  /\ UNCHANGED <<daemon, down>>

RelaunchWithShow(a, t, s) ==
  /\ ~app[a].relaunching
  /\ \E b \in Apps : app[b].life = "none"
  /\ Switch(a, t, "relaunch", "save", s, app[a].iface)

SelectInterface(a, t, i) == ~app[a].relaunching /\ Switch(a, t, "select", "stop", app[a].show, i)

\* The working show is saved before anything is stopped.
SaveShow(a, t) ==
  /\ At(a, t, "save")
  /\ \/ Goto(a, t, "stop") /\ UNCHANGED used
     \/ /\ used.faults < MaxFaults
        /\ used' = [used EXCEPT !.faults = @ + 1]
        /\ Goto(a, t, "fail")
  /\ UNCHANGED <<app, daemon, down, torn>>

Replacement == CHOOSE b \in Apps : app[b].life = "none" /\ \A c \in Apps : app[c].life = "none" => b <= c

\* The replacement starts for the other show, and this process quits; or it
\* does not start, and the daemon is brought back.
Launch(a, t) ==
  /\ At(a, t, "launch")
  /\ \/ /\ app' = [app EXCEPT ![Replacement] = NewApp(thread[a][t].show), ![a].life = "closing"]
        /\ thread' = [thread EXCEPT ![Replacement]["startup"] = Starting, ![a][t] = Idle,
                                    ![a]["shutdown"] = IF app[a].life = "up" THEN [Idle EXCEPT !.pc = "stop", !.kind = "shutdown"]
                                                       ELSE @]
        /\ UNCHANGED used
     \/ /\ used.faults < MaxFaults
        /\ used' = [used EXCEPT !.faults = @ + 1]
        /\ Goto(a, t, "dial")
        /\ UNCHANGED app
  /\ UNCHANGED <<daemon, down, torn>>

\* A fault: the configuration stays with the interface that failed.
FaultswitchDaemonInterface(a, t) ==
  /\ At(a, t, "switch")
  /\ app' = [app EXCEPT ![a].iface = IF thread[a][t].kind = "select" THEN thread[a][t].iface ELSE @,
                        ![a].unreachable = FALSE]
  /\ thread' = [thread EXCEPT ![a][t].pc = "dial", ![a][t].iface = IF thread[a][t].kind = "select" THEN app[a].iface ELSE @]
  /\ UNCHANGED <<daemon, down, torn, used>>

\* The interface is the one asked for, or again the one before; the other is
\* kept by the call.
switchDaemonInterface(a, t) ==
  /\ At(a, t, "switch")
  /\ app' = [app EXCEPT ![a].iface = thread[a][t].iface, ![a].unreachable = FALSE]
  /\ thread' = [thread EXCEPT ![a][t].pc = "dial", ![a][t].iface = IF thread[a][t].kind = "select" THEN app[a].iface ELSE @]
  /\ UNCHANGED <<daemon, down, torn, used>>

\* A daemon answers, the switch is done; or the interface before is restored.
Report(a, t) ==
  /\ At(a, t, "report")
  /\ IF app[a].unreachable
     THEN thread' = [thread EXCEPT ![a][t].pc = "stop", ![a][t].kind = "revert"] /\ UNCHANGED app
     ELSE app' = [app EXCEPT ![a].relaunching = FALSE] /\ Return(a, t)
  /\ UNCHANGED <<daemon, down, torn, used>>

Fail(a, t) ==
  /\ At(a, t, "fail")
  /\ app' = [app EXCEPT ![a].relaunching = FALSE]
  /\ Return(a, t)
  /\ UNCHANGED <<daemon, down, torn, used>>

\* The window is closed.
OnShutdown(a) ==
  /\ app[a].life = "up" /\ Met(a) <= MaxFaults
  /\ used' = [used EXCEPT !.faults = Met(a)]
  /\ app' = [app EXCEPT ![a].life = "closing"]
  /\ thread' = [thread EXCEPT ![a]["shutdown"] = [Idle EXCEPT !.pc = "stop", !.kind = "shutdown"]]
  /\ torn' = IF InProgress(a) THEN torn \cup {a} ELSE torn
  /\ UNCHANGED <<daemon, down>>

\* The process ends, calls in progress with it.
Exit(a) ==
  /\ At(a, "shutdown", "exit")
  /\ app' = [app EXCEPT ![a] = [NoApp EXCEPT !.life = "gone"]]
  /\ thread' = [thread EXCEPT ![a] = [t \in Threads |-> Idle]]
  /\ UNCHANGED <<daemon, down, torn, used>>

Step(a, t) ==
  \/ stopSupervisedDaemon(a, t) \/ Kill(a, t) \/ ensureDaemon(a, t) \/ defaultSpawn(a, t) \/ SpawnFails(a, t)
  \/ Supervise(a, t) \/ Retry(a, t) \/ SaveShow(a, t) \/ Launch(a, t) \/ switchDaemonInterface(a, t)
  \/ Report(a, t) \/ Fail(a, t)

Next ==
  \/ External \/ InterfaceChanges
  \/ \E p \in Pids : Run(p) \/ Dies(p) \/ pollInterfaceLoss(p)
  \/ \E a \in Apps :
       \/ OnShutdown(a) \/ Exit(a)
       \/ \E t \in Threads : Step(a, t)
       \/ \E t \in Callers : (\E s \in Shows : RelaunchWithShow(a, t, s)) \/ (\E i \in Interfaces : SelectInterface(a, t, i))

\* Goroutines go on, daemons start and poll their interface; a process that
\* closes ends.  (One caller at a time is in a switch.)
Spec ==
  /\ Init /\ [][Next]_vars
  /\ \A a \in Apps : /\ WF_vars(Step(a, "startup"))
                     /\ WF_vars(Step(a, "shutdown") \/ Exit(a))
                     /\ WF_vars(\E t \in Callers : Step(a, t))
  /\ WF_vars(\E p \in Pids : Run(p))
  /\ WF_vars(\E p \in Pids : pollInterfaceLoss(p))

-----------------------------------------------------------------------------
\* Properties

TypeOK ==
  /\ \A a \in Apps : /\ app[a].life \in {"none", "up", "closing", "gone"} /\ app[a].cmd \in Pids \cup {0}
                     /\ app[a].show \in Shows /\ app[a].iface \in Interfaces
                     /\ app[a].cmd \in Alive => daemon[app[a].cmd].by = a
                     /\ \A t \in Threads : thread[a][t].tries < Retries /\ thread[a][t].iface \in Interfaces
  /\ down \subseteq Interfaces
  /\ Cardinality(Serving) <= 1

\* A daemon that its desktop process supervises plays that process's show on
\* the interface it has selected, whenever no switch is in flight: no switch,
\* failure or rollback leaves the child of an earlier choice behind
\* (switchDaemonInterface stops, sets and only then spawns), unless the switch
\* began while the startup still looked for a daemon.
SupervisedDaemonIsCurrent ==
  \A a \in Apps : app[a].life = "up" /\ a \notin torn /\ ~app[a].relaunching /\ app[a].cmd \in Alive =>
    /\ daemon[app[a].cmd].show = app[a].show
    /\ daemon[app[a].cmd].iface = app[a].iface

\* When the replacement for another show starts, no daemon of the process it
\* replaces is left to answer it with the previous show: the child was killed
\* and waited for, and no switch of the interface spawned another, unless the
\* window was closed during the switch, or the process was still starting
\* (RelaunchWithShow).
ReplacementFindsNoPredecessor ==
  \A a, b \in Apps : a < b /\ app[b].life # "none" /\ a \notin torn => ~\E p \in Alive : daemon[p].by = a

\* A desktop process that ended leaves no daemon, unless it was closed while
\* a switch or its startup was in progress (OnShutdown, stopSupervisedDaemon).
NoOrphan ==
  \A a \in Apps : app[a].life = "gone" /\ a \notin torn => ~\E p \in Alive : daemon[p].by = a

\* The daemon an app supervises is the one of its show and interface; none it
\* replaced or left is still alive.
DaemonsAreCurrent ==
  /\ TypeOK
  /\ SupervisedDaemonIsCurrent
  /\ ReplacementFindsNoPredecessor
  /\ NoOrphan

\* A switch of the interface that fails "reverted to the previous interface"
\* (SelectInterface): that one is selected again, and if the process has a
\* daemon of its own that lives, it is on it.  A switch fails only where no
\* daemon answered: one to an interface that is gone is reported done, since
\* the daemon serves without its interface (Run).
FailedSwitchReverts ==
  [][\A a \in Apps, t \in Callers :
       thread[a][t].kind = "revert" /\ thread[a][t].pc = "fail" /\ thread'[a][t].pc = "idle" /\ app'[a].life = "up" =>
         /\ app[a].iface = thread[a][t].iface
         /\ a \notin torn /\ app[a].cmd \in Alive => daemon[app[a].cmd].iface = thread[a][t].iface]_vars

\* A switch ends: its guard is cleared on every path, or the process ends.
SwitchesEnd == []<>(\A a \in Apps : ~app[a].relaunching)

\* Daemons whose pinned interface stays down report the loss, however often
\* daemons were restarted meanwhile (pollInterfaceLoss).
LossIsNoticed == []<>(\A p \in Alive : daemon[p].iface \in down => daemon[p].lost)

\* A switch of the interface ends, with the new interface or the one before,
\* and the loss of a daemon is noticed.
SwitchesSettle ==
  /\ FailedSwitchReverts
  /\ SwitchesEnd
  /\ LossIsNoticed
=============================================================================
