---------------------------- MODULE DesktopProofs ----------------------------
(***************************************************************************)
(* Proofs about the desktop's processes (DesktopApp), its MIDI service     *)
(* (MidiControl) and the feeds it follows the daemon with (DesktopFeeds),  *)
(* for any number of processes, shows, interfaces, daemons, surfaces,      *)
(* keys, calls and messages.                                               *)
(***************************************************************************)
EXTENDS DesktopApp, MidiControl, DesktopFeeds, FiniteSetTheorems, SequenceTheorems, WellFoundedInduction, TLAPS


-----------------------------------------------------------------------------
\* The inductive invariant

EnsurePcs == {"dial", "spawn", "record", "retry"}

AppRecord ==
  [life : {"none", "up", "closing", "gone"}, show : Shows, iface : Interfaces, cmd : 0..MaxDaemons,
   unreachable : BOOLEAN, relaunching : BOOLEAN]

ThreadRecord ==
  [pc : {"idle", "save", "stop", "kill", "launch", "switch", "report", "fail", "exit"} \cup EnsurePcs,
   kind : {"none", "startup", "shutdown", "relaunch", "select", "revert"},
   iface : Interfaces, show : Shows, pid : 0..MaxDaemons, tries : 0..(Retries - 1)]

DaemonRecord ==
  [state : {"none", "starting", "serving", "dead"}, show : Shows, iface : Interfaces, by : 0..MaxApps, lost : BOOLEAN]

Types ==
  /\ app \in [Apps -> AppRecord]
  /\ thread \in [Apps -> [Threads -> ThreadRecord]]
  /\ daemon \in [Pids -> DaemonRecord]
  /\ down \subseteq Interfaces
  /\ torn \subseteq Apps

Busy(a, t) == thread[a][t].pc # "idle"

\* The steps of each kind of goroutine, and who runs which kind.
Follows(t, r) ==
  /\ \/ r.kind = "none" /\ r.pc = "idle"
     \/ r.kind = "startup" /\ t = "startup" /\ r.pc \in EnsurePcs
     \/ r.kind = "shutdown" /\ t = "shutdown" /\ r.pc \in {"stop", "kill", "exit"}
     \/ r.kind = "relaunch" /\ t \in Callers /\ r.pc \in {"save", "stop", "kill", "launch", "fail"} \cup EnsurePcs
     \/ r.kind = "select" /\ t \in Callers /\ r.pc \in {"stop", "kill", "switch", "report"} \cup EnsurePcs
     \/ r.kind = "revert" /\ t \in Callers /\ r.pc \in {"stop", "kill", "switch", "fail"} \cup EnsurePcs
  /\ r.pid # 0 => r.pc \in {"kill", "record"}

ThreadsFollow == \A a \in Apps, t \in Threads : Follows(t, thread[a][t])

\* A pid a process knows is one it spawned.
IsOwn(a, p) == p # 0 => daemon[p].state # "none" /\ (p \in Alive => daemon[p].by = a)

Owned == \A a \in Apps : IsOwn(a, app[a].cmd) /\ \A t \in Threads : IsOwn(a, thread[a][t].pid)

\* One goroutine at a time, but where a switch met the startup or a shutdown
\* one of the two; and one caller at a time.
Exclusive ==
  \A a \in Apps : \A t, u \in Threads :
    t # u /\ Busy(a, t) /\ Busy(a, u) => a \in torn /\ ~(t \in Callers /\ u \in Callers)

LifeFits ==
  \A a \in Apps :
    /\ app[a].life \in {"none", "gone"} => app[a].cmd = 0 /\ \A t \in Threads : ~Busy(a, t)
    /\ app[a].life \in {"none", "up"} => ~Busy(a, "shutdown")
    /\ app[a].life = "none" => a \notin torn
    /\ app[a].life = "none" => ~app[a].relaunching
    /\ \A t \in Callers : Busy(a, t) => app[a].relaunching

\* Processes start one after the other; those that were replaced only end, and
\* have no daemon, nor a startup under way unless they were torn.
Chain ==
  \A a, b \in Apps :
    a < b /\ app[b].life # "none" =>
      /\ app[a].life \in {"closing", "gone"}
      /\ \A t \in Callers : ~Busy(a, t)
      /\ a \notin torn => ~Busy(a, "startup") /\ \A p \in Alive : daemon[p].by # a

\* A replacement can be started.
Room == \A a \in Apps, t \in Threads : thread[a][t].kind = "relaunch" => \E b \in Apps : app[b].life = "none"

\* A daemon on the show and the interface of process a
Serves(a, p) == daemon[p].show = app[a].show /\ daemon[p].iface = app[a].iface

Childless == {"kill", "exit", "switch", "launch", "dial", "spawn", "record"}

\* The daemons of a process that was not torn: each is held, by the
\* process or by the goroutine at work, and is current.
Held ==
  \A a \in Apps \ torn :
    /\ \A p \in Alive : daemon[p].by = a => app[a].cmd = p \/ \E t \in Threads : thread[a][t].pid = p
    /\ app[a].cmd \in Alive => Serves(a, app[a].cmd)
    /\ \A t \in Threads : /\ thread[a][t].pc \in Childless => app[a].cmd = 0
                          /\ thread[a][t].pc = "record" /\ thread[a][t].pid \in Alive => Serves(a, thread[a][t].pid)

\* A switch that failed has given the interface before back.
Reverted ==
  \A a \in Apps, t \in Threads :
    thread[a][t].kind = "revert" /\ thread[a][t].pc \in EnsurePcs \cup {"fail"} => app[a].iface = thread[a][t].iface

OneServes == \A p, q \in Serving : p = q

DesktopInv ==
  /\ ThreadsFollow
  /\ Owned
  /\ Exclusive
  /\ LifeFits
  /\ Chain
  /\ Room
  /\ Held
  /\ Reverted
  /\ OneServes

\* The constants of the initial records have their types.
LEMMA ConstantTypes ==
  /\ NoApp \in AppRecord /\ Idle \in ThreadRecord /\ NoDaemon \in DaemonRecord /\ Dead \in DaemonRecord
  /\ NoApp = [life |-> "none", show |-> NoApp.show, iface |-> NoApp.iface, cmd |-> 0, unreachable |-> FALSE, relaunching |-> FALSE]
  /\ Idle.pc = "idle" /\ Idle.kind = "none" /\ Idle.pid = 0 /\ Idle.tries = 0
  /\ Dead.state = "dead" /\ NoDaemon.state = "none"
<1>1. /\ (CHOOSE s \in Shows : TRUE) \in Shows
      /\ (CHOOSE i \in Interfaces : TRUE) \in Interfaces
  BY DesktopAssumption
<1>2. /\ MaxDaemons \in Nat /\ MaxApps \in Nat /\ Retries \in Nat /\ Retries > 0
  BY DesktopAssumption
<1>3. 0 \in 0..MaxDaemons /\ 0 \in 0..MaxApps /\ 0 \in 0..(Retries - 1)
  BY <1>2
<1>4. NoApp \in AppRecord
  BY <1>1, <1>3 DEF NoApp, AppRecord
<1>5. NoApp.show \in Shows /\ NoApp.iface \in Interfaces
  BY <1>1 DEF NoApp
<1>6. Idle \in ThreadRecord
  BY <1>3, <1>5 DEF Idle, ThreadRecord, EnsurePcs
<1>7. NoDaemon \in DaemonRecord /\ Dead \in DaemonRecord
  BY <1>3, <1>5 DEF NoDaemon, Dead, DaemonRecord
<1> QED BY <1>4, <1>6, <1>7 DEF NoApp, Idle, Dead, NoDaemon

\* Initially one process looks for a daemon.
LEMMA InitInv == Init => Types /\ DesktopInv
<1> SUFFICES ASSUME Init PROVE Types /\ DesktopInv
  OBVIOUS
<1> USE ConstantTypes
<1>1. MaxApps \in Nat /\ MaxApps > 0 /\ MaxDaemons \in Nat /\ Apps = 1..MaxApps /\ Pids = 1..MaxDaemons
  BY DesktopAssumption DEF Apps, Pids
<1>2. Starting \in ThreadRecord /\ Starting.pc = "dial" /\ Starting.kind = "startup" /\ Starting.pid = 0
  BY DEF Starting, ThreadRecord, EnsurePcs
<1>3. /\ NewApp(NoApp.show) \in AppRecord /\ NewApp(NoApp.show).life = "up" /\ NewApp(NoApp.show).cmd = 0
      /\ NoApp.life = "none" /\ NoApp.cmd = 0 /\ ~NoApp.relaunching
  <2>1. NoApp.life = "none" /\ NoApp.cmd = 0 /\ ~NoApp.relaunching /\ NoApp.show \in Shows
    BY DEF NoApp, AppRecord
  <2>2. NewApp(NoApp.show) \in AppRecord
    BY <2>1 DEF NewApp, AppRecord
  <2>3. NewApp(NoApp.show).life = "up" /\ NewApp(NoApp.show).cmd = 0
    BY <2>1 DEF NewApp, AppRecord
  <2> QED BY <2>1, <2>2, <2>3
<1>4. Types
  BY <1>2, <1>3 DEF Init, Types
<1>5. /\ \A a \in Apps : app[a] = IF a = 1 THEN NewApp(NoApp.show) ELSE NoApp
      /\ \A a \in Apps, t \in Threads : thread[a][t] = IF a = 1 /\ t = "startup" THEN Starting ELSE Idle
      /\ Alive = {} /\ Serving = {} /\ torn = {}
  BY DEF Init, Alive, Serving
<1>6. \A a \in Apps, t \in Threads : Busy(a, t) => a = 1 /\ t = "startup"
  BY <1>5 DEF Busy
<1>7. \A t \in Callers : t # "startup" /\ t # "shutdown"
  BY DesktopAssumption
<1>8. ThreadsFollow
  BY <1>5, <1>2 DEF ThreadsFollow, Follows, EnsurePcs
<1>9. Owned
  BY <1>5, <1>2, <1>3 DEF Owned, IsOwn
<1>10. Exclusive
  BY <1>6 DEF Exclusive
<1>11. LifeFits
  <2> SUFFICES ASSUME NEW a \in Apps
               PROVE  /\ app[a].life \in {"none", "gone"} => app[a].cmd = 0 /\ \A t \in Threads : ~Busy(a, t)
                      /\ app[a].life \in {"none", "up"} => ~Busy(a, "shutdown")
                      /\ app[a].life = "none" => a \notin torn
                      /\ app[a].life = "none" => ~app[a].relaunching
                      /\ \A t \in Callers : Busy(a, t) => app[a].relaunching
    BY DEF LifeFits
  <2>1. \A t \in Callers : ~Busy(a, t)
    BY <1>6, <1>7 DEF Threads
  <2>2. ~Busy(a, "shutdown")
    BY <1>6 DEF Threads
  <2> QED BY <1>5, <1>6, <1>3, <2>1, <2>2
<1>12. Chain
  BY <1>1, <1>5, <1>3 DEF Chain
<1>13. Room
  BY <1>5, <1>2 DEF Room
<1>14. Held
  <2> SUFFICES ASSUME NEW a \in Apps \ torn
               PROVE  app[a].cmd = 0
    BY <1>5 DEF Held
  <2> QED BY <1>5, <1>3
<1>15. Reverted
  BY <1>5, <1>2 DEF Reverted
<1>16. OneServes
  BY <1>5 DEF OneServes
<1> QED BY <1>4, <1>8, <1>9, <1>10, <1>11, <1>12, <1>13, <1>14, <1>15, <1>16 DEF DesktopInv

-----------------------------------------------------------------------------
\* Steps of a goroutine

\* A step of goroutine t of process a, at work, that leaves every other
\* process and goroutine alone, keeps the invariant where its new state fits:
\* the pid it held is still held, or dead, a daemon it started is its own, and
\* the interface is another one only where a caller set it.
LEMMA ThreadStep ==
  ASSUME Types, Types', DesktopInv, torn' = torn,
         NEW a \in Apps, NEW t \in Threads, Busy(a, t),
         \A b \in Apps : b # a => app'[b] = app[b],
         \A b \in Apps, u \in Threads : b # a \/ u # t => thread'[b][u] = thread[b][u],
         app'[a].life = app[a].life, app'[a].show = app[a].show,
         app'[a].relaunching = app[a].relaunching \/ (t \in Callers /\ ~Busy(a, t)'),
         app'[a].iface = app[a].iface \/ t \in Callers,
         app[a].life \in {"up", "closing"},
         Follows(t, thread'[a][t]),
         thread'[a][t].kind = "relaunch" => thread[a][t].kind = "relaunch",
         IsOwn(a, app[a].cmd)', IsOwn(a, thread[a][t].pid)',
         \A p \in Pids : daemon[p].state # "none" => daemon'[p].state # "none",
         \A p \in Alive' : \/ p \in Alive /\ daemon'[p] = daemon[p]
                           \/ daemon'[p].by = a /\ daemon[p].state = "none" /\ p = thread'[a][t].pid /\ thread[a][t].pc = "spawn",
         a \notin torn =>
           /\ \A p \in Alive : p \in Alive' /\ p \in {app[a].cmd, thread[a][t].pid} => p \in {app'[a].cmd, thread'[a][t].pid}
           /\ thread'[a][t].pc \in Childless => app'[a].cmd = 0
           /\ app'[a].cmd \in Alive' => Serves(a, app[a].cmd)'
           /\ thread'[a][t].pc = "record" /\ thread'[a][t].pid \in Alive' => Serves(a, thread[a][t].pid)',
         thread'[a][t].kind = "revert" /\ thread'[a][t].pc \in EnsurePcs \cup {"fail"} => app'[a].iface = thread'[a][t].iface,
         OneServes'
  PROVE  DesktopInv'
<1> USE DEF DesktopInv
<1>1. \A c \in Callers : c \in Threads
  BY DEF Threads
<1>2. ThreadsFollow'
  BY DEF ThreadsFollow
<1>3. \A b \in Apps, p \in 0..MaxDaemons : b # a /\ IsOwn(b, p) => IsOwn(b, p)'
  <2> SUFFICES ASSUME NEW b \in Apps, NEW p \in 0..MaxDaemons, b # a, IsOwn(b, p), p # 0
               PROVE  daemon'[p].state # "none" /\ (p \in Alive' => daemon'[p].by = b)
    BY DEF IsOwn
  <2>1. p \in Pids /\ daemon[p].state # "none"
    BY DesktopAssumption DEF IsOwn, Pids
  <2> QED BY <2>1 DEF IsOwn
<1>4. \A p \in 0..MaxDaemons : IsOwn(a, p) => IsOwn(a, p)'
  <2> SUFFICES ASSUME NEW p \in 0..MaxDaemons, IsOwn(a, p), p # 0
               PROVE  daemon'[p].state # "none" /\ (p \in Alive' => daemon'[p].by = a)
    BY DEF IsOwn
  <2>1. p \in Pids /\ daemon[p].state # "none"
    BY DesktopAssumption DEF IsOwn, Pids
  <2> QED BY <2>1 DEF IsOwn
<1>5. \A b \in Apps : /\ app[b].cmd \in 0..MaxDaemons /\ app'[b].cmd \in 0..MaxDaemons
                      /\ \A u \in Threads : thread[b][u].pid \in 0..MaxDaemons /\ thread'[b][u].pid \in 0..MaxDaemons
  BY DEF Types, AppRecord, ThreadRecord
<1>6. Owned'
  <2> SUFFICES ASSUME NEW b \in Apps
               PROVE  IsOwn(b, app[b].cmd)' /\ \A u \in Threads : IsOwn(b, thread[b][u].pid)'
    BY DEF Owned
  <2>1. CASE b # a
    <3>1. app'[b].cmd = app[b].cmd /\ \A u \in Threads : thread'[b][u].pid = thread[b][u].pid
      BY <2>1
    <3>2. IsOwn(b, app[b].cmd) /\ \A u \in Threads : IsOwn(b, thread[b][u].pid)
      BY DEF Owned
    <3> QED BY <3>1, <3>2, <1>3, <1>5, <2>1 DEF IsOwn
  <2>2. CASE b = a
    <3>1. \A u \in Threads : u # t => thread'[a][u].pid = thread[a][u].pid
      OBVIOUS
    <3>2. \A u \in Threads : IsOwn(a, thread[a][u].pid)
      BY DEF Owned
    <3> QED BY <3>1, <3>2, <1>4, <1>5, <2>2 DEF IsOwn
  <2> QED BY <2>1, <2>2
<1>7. \A b \in Apps, u \in Threads : Busy(b, u)' => Busy(b, u)
  BY DEF Busy
<1>8. Exclusive'
  BY <1>7 DEF Exclusive
<1>9. \A b \in Apps : app'[b].life = app[b].life
  OBVIOUS
<1>10. LifeFits'
  <2> SUFFICES ASSUME NEW b \in Apps
               PROVE  /\ app'[b].life \in {"none", "gone"} => app'[b].cmd = 0 /\ \A u \in Threads : ~Busy(b, u)'
                      /\ app'[b].life \in {"none", "up"} => ~Busy(b, "shutdown")'
                      /\ app'[b].life = "none" => b \notin torn'
                      /\ app'[b].life = "none" => ~app'[b].relaunching
                      /\ \A u \in Callers : Busy(b, u)' => app'[b].relaunching
    BY DEF LifeFits
  <2>1. "shutdown" \in Threads
    BY DEF Threads
  <2>2. \A u \in Callers : Busy(b, u)' => app[b].relaunching
    BY <1>7, <1>1 DEF LifeFits
  <2>3. \A u \in Callers : b = a /\ ~(app'[a].relaunching = app[a].relaunching) => ~Busy(b, u)'
    <3> SUFFICES ASSUME NEW u \in Callers, ~(app'[a].relaunching = app[a].relaunching), Busy(a, u)'
                 PROVE  FALSE
      OBVIOUS
    <3>1. t \in Callers /\ ~Busy(a, t)'
      OBVIOUS
    <3>2. u # t /\ Busy(a, u) /\ Busy(a, t)
      BY <3>1, <1>7, <1>1
    <3> QED BY <3>1, <3>2, <1>1 DEF Exclusive
  <2>4. \A u \in Callers : Busy(b, u)' => app'[b].relaunching
    BY <2>2, <2>3
  <2>5. b # a => app'[b] = app[b]
    OBVIOUS
  <2> QED BY <2>1, <2>4, <2>5, <1>7, <1>9 DEF LifeFits
<1>11. Chain'
  <2> SUFFICES ASSUME NEW b \in Apps, NEW c \in Apps, b < c, app'[c].life # "none"
               PROVE  /\ app'[b].life \in {"closing", "gone"}
                      /\ \A u \in Callers : ~Busy(b, u)'
                      /\ b \notin torn' => ~Busy(b, "startup")' /\ \A p \in Alive' : daemon'[p].by # b
    BY DEF Chain
  <2>1. /\ app[b].life \in {"closing", "gone"}
        /\ \A u \in Callers : ~Busy(b, u)
        /\ b \notin torn => ~Busy(b, "startup") /\ \A p \in Alive : daemon[p].by # b
    BY <1>9 DEF Chain
  <2>2. thread[a][t].pc = "spawn" => a # b \/ b \in torn
    <3>1. thread[a][t].pc = "spawn" => t \in Callers \cup {"startup"}
      BY DesktopAssumption DEF ThreadsFollow, Follows, EnsurePcs
    <3> QED BY <3>1, <2>1
  <2>3. \A u \in Callers \cup {"startup"} : Busy(b, u)' => Busy(b, u)
    BY <1>7 DEF Threads
  <2>4. ASSUME b \notin torn, NEW p \in Alive' PROVE daemon'[p].by # b
    BY <2>1, <2>2, <2>4
  <2> QED BY <2>1, <2>3, <2>4, <1>9
<1>12. Room'
  <2> SUFFICES ASSUME NEW b \in Apps, NEW u \in Threads, thread'[b][u].kind = "relaunch"
               PROVE  \E c \in Apps : app'[c].life = "none"
    BY DEF Room
  <2>1. thread[b][u].kind = "relaunch"
    OBVIOUS
  <2> QED BY <2>1, <1>9 DEF Room
<1>13. Held'
  <2> SUFFICES ASSUME NEW b \in Apps, b \notin torn
               PROVE  /\ \A p \in Alive' : daemon'[p].by = b => app'[b].cmd = p \/ \E u \in Threads : thread'[b][u].pid = p
                      /\ app'[b].cmd \in Alive' => Serves(b, app[b].cmd)'
                      /\ \A u \in Threads : /\ thread'[b][u].pc \in Childless => app'[b].cmd = 0
                                            /\ thread'[b][u].pc = "record" /\ thread'[b][u].pid \in Alive' => Serves(b, thread[b][u].pid)'
    BY DEF Held
  <2>1. /\ \A p \in Alive : daemon[p].by = b => app[b].cmd = p \/ \E u \in Threads : thread[b][u].pid = p
        /\ app[b].cmd \in Alive => Serves(b, app[b].cmd)
        /\ \A u \in Threads : /\ thread[b][u].pc \in Childless => app[b].cmd = 0
                              /\ thread[b][u].pc = "record" /\ thread[b][u].pid \in Alive => Serves(b, thread[b][u].pid)
    BY DEF Held
  <2>2. CASE b = a
    <3>1. \A u \in Threads : u # t => ~Busy(a, u) /\ thread'[a][u] = thread[a][u]
      BY <2>2 DEF Exclusive
    <3>2. \A u \in Threads : u # t => thread[a][u].pid = 0
      BY <3>1 DEF Busy, ThreadsFollow, Follows
    <3>3. \A p \in Alive' : daemon'[p].by = a => app'[a].cmd = p \/ \E u \in Threads : thread'[a][u].pid = p
      <4> SUFFICES ASSUME NEW p \in Alive', daemon'[p].by = a
                   PROVE  p \in {app'[a].cmd, thread'[a][t].pid}
        OBVIOUS
      <4>1. CASE p \in Alive /\ daemon'[p] = daemon[p]
        <5>1. p # 0
          BY DesktopAssumption DEF Alive, Pids
        <5>2. app[a].cmd = p \/ \E u \in Threads : thread[a][u].pid = p
          BY <4>1, <2>1, <2>2
        <5>3. p \in {app[a].cmd, thread[a][t].pid}
          BY <5>1, <5>2, <3>2
        <5>4. a \notin torn
          BY <2>2
        <5> QED BY <4>1, <5>3, <5>4
      <4>2. CASE p = thread'[a][t].pid
        BY <4>2
      <4> QED BY <4>1, <4>2
    <3>4. \A u \in Threads : u # t => thread'[a][u].pc \notin Childless /\ thread'[a][u].pc # "record"
      BY <3>1 DEF Busy, Childless
    <3> QED BY <2>2, <3>3, <3>4
  <2>3. CASE b # a
    <3>1. app'[b] = app[b] /\ \A u \in Threads : thread'[b][u] = thread[b][u]
      BY <2>3
    <3>2. \A p \in Alive' : daemon'[p].by = b \/ daemon'[p] = daemon[p] => p \in Alive /\ daemon'[p] = daemon[p]
      <4> SUFFICES ASSUME NEW p \in Alive', daemon'[p].by = b \/ daemon'[p] = daemon[p]
                   PROVE  p \in Alive /\ daemon'[p] = daemon[p]
        OBVIOUS
      <4>1. daemon[p].state = "none" /\ daemon'[p] = daemon[p] => p \notin Alive'
        BY DEF Alive
      <4> QED BY <2>3, <4>1
    <3>3. app[b].cmd \in 0..MaxDaemons /\ \A u \in Threads : thread[b][u].pid \in 0..MaxDaemons
      BY <1>5
    <3>4. \A p \in Alive' : IsOwn(b, p) => p \in Alive /\ daemon'[p] = daemon[p]
      <4> SUFFICES ASSUME NEW p \in Alive', IsOwn(b, p)
                   PROVE  p \in Alive /\ daemon'[p] = daemon[p]
        OBVIOUS
      <4>1. p # 0
        BY DesktopAssumption DEF Alive, Pids
      <4> QED BY <4>1 DEF IsOwn
    <3>5. app[b].cmd \in Alive' => Serves(b, app[b].cmd)'
      <4>1. IsOwn(b, app[b].cmd)
        BY DEF Owned
      <4> QED BY <4>1, <3>4, <3>1, <2>1 DEF Serves
    <3>6. \A u \in Threads : thread'[b][u].pc = "record" /\ thread'[b][u].pid \in Alive' => Serves(b, thread[b][u].pid)'
      <4> SUFFICES ASSUME NEW u \in Threads, thread'[b][u].pc = "record", thread'[b][u].pid \in Alive'
                   PROVE  Serves(b, thread[b][u].pid)'
        OBVIOUS
      <4>1. IsOwn(b, thread[b][u].pid)
        BY DEF Owned
      <4> QED BY <4>1, <3>4, <3>1, <2>1 DEF Serves
    <3> QED BY <3>1, <3>2, <3>5, <3>6, <2>1
  <2> QED BY <2>2, <2>3
<1>14. Reverted'
  <2> SUFFICES ASSUME NEW b \in Apps, NEW u \in Threads, b # a \/ u # t,
                      thread'[b][u].kind = "revert", thread'[b][u].pc \in EnsurePcs \cup {"fail"}
               PROVE  app'[b].iface = thread'[b][u].iface
    BY DEF Reverted
  <2>1. thread'[b][u] = thread[b][u] /\ app[b].iface = thread[b][u].iface
    BY DEF Reverted
  <2>2. b = a => app'[a].iface = app[a].iface
    <3> SUFFICES ASSUME b = a, t \in Callers PROVE FALSE
      OBVIOUS
    <3>1. u \in Callers /\ Busy(a, u)
      BY <2>1 DEF ThreadsFollow, Follows, Busy, EnsurePcs
    <3> QED BY <3>1, DesktopAssumption DEF Exclusive
  <2> QED BY <2>1, <2>2
<1> QED BY <1>2, <1>6, <1>8, <1>10, <1>11, <1>12, <1>13, <1>14

\* The daemons of other processes, and of nobody, may change while every
\* process and goroutine stands still.
LEMMA DaemonStep ==
  ASSUME Types, DesktopInv, app' = app, thread' = thread, torn' = torn,
         \A p \in Pids : daemon[p].state # "none" => daemon'[p].state # "none",
         \A p \in Alive' : \/ /\ p \in Alive /\ daemon'[p].by = daemon[p].by
                              /\ daemon'[p].show = daemon[p].show /\ daemon'[p].iface = daemon[p].iface
                           \/ daemon'[p].by = 0 /\ daemon[p].state = "none",
         OneServes'
  PROVE  DesktopInv'
<1> USE DEF DesktopInv
<1>1. \A a \in Apps : a # 0
  BY DesktopAssumption DEF Apps
<1>2. /\ \A a \in Apps : a # 0 /\ app[a].cmd \in 0..MaxDaemons
      /\ \A a \in Apps, t \in Threads : thread[a][t].pid \in 0..MaxDaemons
  BY <1>1 DEF Types, AppRecord, ThreadRecord
<1>3. \A a \in Apps, p \in 0..MaxDaemons : IsOwn(a, p) => IsOwn(a, p)'
  <2> SUFFICES ASSUME NEW a \in Apps, NEW p \in 0..MaxDaemons, IsOwn(a, p), p # 0
               PROVE  daemon'[p].state # "none" /\ (p \in Alive' => daemon'[p].by = a)
    BY DEF IsOwn
  <2>1. p \in Pids /\ daemon[p].state # "none"
    BY DesktopAssumption DEF IsOwn, Pids
  <2> QED BY <2>1 DEF IsOwn
<1>4. ThreadsFollow' /\ Exclusive' /\ LifeFits' /\ Room' /\ Reverted'
  BY DEF ThreadsFollow, Exclusive, LifeFits, Room, Reverted, Busy
<1>5. Owned'
  BY <1>2, <1>3 DEF Owned, IsOwn
<1>6. Chain'
  BY <1>2 DEF Chain, Busy
<1>7. Held'
  <2> SUFFICES ASSUME NEW a \in Apps, a \notin torn
               PROVE  /\ \A p \in Alive' : daemon'[p].by = a => app[a].cmd = p \/ \E t \in Threads : thread[a][t].pid = p
                      /\ app[a].cmd \in Alive' => Serves(a, app[a].cmd)'
                      /\ \A t \in Threads : /\ thread[a][t].pc \in Childless => app[a].cmd = 0
                                            /\ thread[a][t].pc = "record" /\ thread[a][t].pid \in Alive' => Serves(a, thread[a][t].pid)'
    BY DEF Held
  <2>1. \A p \in Alive' : daemon'[p].by = a => p \in Alive /\ daemon[p].by = a
    BY <1>2
  <2>2. \A p \in Alive' : IsOwn(a, p) => p \in Alive /\ daemon'[p].show = daemon[p].show /\ daemon'[p].iface = daemon[p].iface
    <3> SUFFICES ASSUME NEW p \in Alive', IsOwn(a, p)
                 PROVE  daemon[p].state # "none"
      OBVIOUS
    <3>1. p # 0
      BY DesktopAssumption DEF Alive, Pids
    <3> QED BY <3>1 DEF IsOwn
  <2>3. IsOwn(a, app[a].cmd) /\ \A t \in Threads : IsOwn(a, thread[a][t].pid)
    BY DEF Owned
  <2>4. app[a].cmd \in Alive' => Serves(a, app[a].cmd)'
    BY <2>2, <2>3 DEF Held, Serves
  <2>5. \A t \in Threads : thread[a][t].pc = "record" /\ thread[a][t].pid \in Alive' => Serves(a, thread[a][t].pid)'
    BY <2>2, <2>3 DEF Held, Serves
  <2> QED BY <2>1, <2>4, <2>5 DEF Held
<1> QED BY <1>4, <1>5, <1>6, <1>7

\* Goroutine t, at work for process a, may go on with record r and leave its
\* process with record x: the pids known stay known, or are of dead daemons, and
\* the process has no child where none is allowed.
MayGo(a, t, r, x) ==
  /\ r \in ThreadRecord /\ x \in AppRecord
  /\ Busy(a, t) /\ app[a].life \in {"up", "closing"}
  /\ x.life = app[a].life /\ x.show = app[a].show
  /\ x.relaunching = app[a].relaunching \/ (t \in Callers /\ r.pc = "idle")
  /\ x.iface = app[a].iface \/ t \in Callers
  /\ Follows(t, r)
  /\ r.kind = "relaunch" => thread[a][t].kind = "relaunch"
  /\ x.cmd \in {0, app[a].cmd, thread[a][t].pid} /\ r.pid \in {0, app[a].cmd, thread[a][t].pid}
  /\ a \notin torn =>
       /\ \A p \in Alive : p \in {app[a].cmd, thread[a][t].pid} => p \in {x.cmd, r.pid}
       /\ r.pc \in Childless => x.cmd = 0
       /\ x.cmd \in Alive => daemon[x.cmd].show = x.show /\ daemon[x.cmd].iface = x.iface
       /\ r.pc = "record" /\ r.pid \in Alive => daemon[r.pid].show = x.show /\ daemon[r.pid].iface = x.iface
  /\ r.kind = "revert" /\ r.pc \in EnsurePcs \cup {"fail"} => x.iface = r.iface

\* A step of a goroutine at work that touches no daemon keeps the invariant.
LEMMA QuietStep ==
  ASSUME Types, DesktopInv, daemon' = daemon, down' = down, torn' = torn,
         NEW a \in Apps, NEW t \in Threads, NEW r \in ThreadRecord, NEW x \in AppRecord,
         thread' = [thread EXCEPT ![a][t] = r], app' = [app EXCEPT ![a] = x],
         MayGo(a, t, r, x)
  PROVE  Types' /\ DesktopInv'
<1>1. /\ thread' \in [Apps -> [Threads -> ThreadRecord]] /\ thread'[a][t] = r
      /\ \A b \in Apps, u \in Threads : b # a \/ u # t => thread'[b][u] = thread[b][u]
  BY DEF Types
<1>2. /\ app' \in [Apps -> AppRecord] /\ app'[a] = x
      /\ \A b \in Apps : b # a => app'[b] = app[b]
  BY DEF Types
<1>3. Types'
  BY <1>1, <1>2 DEF Types
<1>4. Alive' = Alive /\ Serving' = Serving
  BY DEF Alive, Serving
<1>5. \A p \in {0, app[a].cmd, thread[a][t].pid} : IsOwn(a, p)
  BY DEF DesktopInv, Owned, IsOwn
<1>6. IsOwn(a, x.cmd) /\ IsOwn(a, r.pid)
  BY <1>5 DEF MayGo
<1>7. IsOwn(a, app[a].cmd)' /\ IsOwn(a, thread[a][t].pid)'
  BY <1>6, <1>4, <1>2, <1>1 DEF IsOwn
<1>8. ~Busy(a, t)' <=> r.pc = "idle"
  BY <1>1 DEF Busy
<1>9. OneServes'
  BY <1>4 DEF OneServes, DesktopInv
<1>10. a \notin torn =>
           /\ \A p \in Alive : p \in Alive' /\ p \in {app[a].cmd, thread[a][t].pid} => p \in {app'[a].cmd, thread'[a][t].pid}
           /\ thread'[a][t].pc \in Childless => app'[a].cmd = 0
           /\ app'[a].cmd \in Alive' => Serves(a, app[a].cmd)'
           /\ thread'[a][t].pc = "record" /\ thread'[a][t].pid \in Alive' => Serves(a, thread[a][t].pid)'
  BY <1>1, <1>2, <1>4 DEF Serves, MayGo
<1>11. /\ Busy(a, t) /\ app[a].life \in {"up", "closing"} /\ Follows(t, thread'[a][t])
       /\ app'[a].life = app[a].life /\ app'[a].show = app[a].show
       /\ app'[a].relaunching = app[a].relaunching \/ (t \in Callers /\ ~Busy(a, t)')
       /\ app'[a].iface = app[a].iface \/ t \in Callers
       /\ thread'[a][t].kind = "relaunch" => thread[a][t].kind = "relaunch"
       /\ thread'[a][t].kind = "revert" /\ thread'[a][t].pc \in EnsurePcs \cup {"fail"} => app'[a].iface = thread'[a][t].iface
  BY <1>1, <1>2, <1>8 DEF MayGo
<1>12. DesktopInv'
  BY <1>1, <1>2, <1>3, <1>4, <1>7, <1>8, <1>9, <1>10, <1>11, ThreadStep
<1> QED BY <1>3, <1>12

\* Where a goroutine at work may be.
Steps == {"save", "stop", "kill", "launch", "switch", "report", "fail", "exit"} \cup EnsurePcs

\* What the invariant says of a goroutine at work.
LEMMA AtWork ==
  ASSUME Types, DesktopInv, NEW a \in Apps, NEW t \in Threads, NEW pc \in Steps, At(a, t, pc)
  PROVE  /\ thread[a][t] \in ThreadRecord /\ app[a] \in AppRecord
         /\ Busy(a, t) /\ app[a].life \in {"up", "closing"} /\ thread[a][t].pc = pc
         /\ Follows(t, thread[a][t])
         /\ 0 \notin Alive /\ 0 \in 0..MaxDaemons /\ 0 \in 0..(Retries - 1)
         /\ a \notin torn =>
              /\ pc \in Childless => app[a].cmd = 0
              /\ app[a].cmd \in Alive => daemon[app[a].cmd].show = app[a].show /\ daemon[app[a].cmd].iface = app[a].iface
              /\ pc = "record" /\ thread[a][t].pid \in Alive =>
                   daemon[thread[a][t].pid].show = app[a].show /\ daemon[thread[a][t].pid].iface = app[a].iface
<1>1. 0 \notin Alive /\ 0 \in 0..MaxDaemons /\ 0 \in 0..(Retries - 1)
  BY DesktopAssumption DEF Alive, Pids
<1>2. thread[a][t] \in ThreadRecord /\ app[a] \in AppRecord
  BY DEF Types
<1>3. Busy(a, t) /\ app[a].life \in {"up", "closing"} /\ thread[a][t].pc = pc
  BY DEF At, Busy, Steps, EnsurePcs
<1>4. Follows(t, thread[a][t])
  BY DEF DesktopInv, ThreadsFollow
<1> QED BY <1>1, <1>2, <1>3, <1>4 DEF DesktopInv, Held, Serves

\* The child is forgotten by the process, and held by the goroutine.
LEMMA StopInv ==
  ASSUME Types, DesktopInv, NEW a \in Apps, NEW t \in Threads, stopSupervisedDaemon(a, t)
  PROVE  Types' /\ DesktopInv'
<1> DEFINE r == [thread[a][t] EXCEPT !.pc = "kill", !.pid = app[a].cmd]
           x == [app[a] EXCEPT !.cmd = 0]
<1>1. At(a, t, "stop") /\ "stop" \in Steps
  BY DEF stopSupervisedDaemon, Steps
<1>2. /\ thread[a][t] \in ThreadRecord /\ app[a] \in AppRecord /\ Busy(a, t) /\ app[a].life \in {"up", "closing"}
      /\ Follows(t, thread[a][t]) /\ thread[a][t].pc = "stop" /\ 0 \notin Alive /\ 0 \in 0..MaxDaemons
  BY <1>1, AtWork
<1>3. r \in ThreadRecord /\ x \in AppRecord
  BY <1>2 DEF ThreadRecord, AppRecord
<1>4. thread' = [thread EXCEPT ![a][t] = r] /\ app' = [app EXCEPT ![a] = x]
  BY DEF stopSupervisedDaemon
<1>5. /\ r.pc = "kill" /\ r.pid = app[a].cmd /\ r.kind = thread[a][t].kind
      /\ x.life = app[a].life /\ x.show = app[a].show /\ x.relaunching = app[a].relaunching
      /\ x.iface = app[a].iface /\ x.cmd = 0
  BY <1>2 DEF ThreadRecord, AppRecord
<1>6. Follows(t, r) /\ thread[a][t].pid = 0
  BY <1>2, <1>5 DEF Follows, EnsurePcs
<1>7. r.pc \notin EnsurePcs \cup {"fail", "record"}
  BY <1>5 DEF EnsurePcs
<1>8. daemon' = daemon /\ down' = down /\ torn' = torn
  BY DEF stopSupervisedDaemon
<1> HIDE DEF r, x
<1>9. MayGo(a, t, r, x)
  BY <1>2, <1>3, <1>5, <1>6, <1>7 DEF MayGo
<1> QED BY <1>3, <1>4, <1>8, <1>9, QuietStep

\* A daemon was found, or given up: the switch goes on.
LEMMA EnsuredInv ==
  ASSUME Types, DesktopInv, daemon' = daemon, down' = down, torn' = torn,
         NEW a \in Apps, NEW t \in Threads, NEW pc \in EnsurePcs \ {"record"}, At(a, t, pc), NEW b \in BOOLEAN,
         app' = [app EXCEPT ![a] = [app[a] EXCEPT !.unreachable = b]], Ensured(a, t)
  PROVE  Types' /\ DesktopInv'
<1> DEFINE r == IF thread[a][t].kind = "startup" THEN Idle
                ELSE [thread[a][t] EXCEPT !.pc = AfterEnsure(thread[a][t].kind), !.tries = 0]
           x == [app[a] EXCEPT !.unreachable = b]
<1>1. pc \in Steps /\ pc # "record"
  BY DEF EnsurePcs, Steps
<1>2. /\ thread[a][t] \in ThreadRecord /\ app[a] \in AppRecord /\ Busy(a, t) /\ app[a].life \in {"up", "closing"}
      /\ Follows(t, thread[a][t]) /\ thread[a][t].pc = pc /\ 0 \notin Alive /\ 0 \in 0..(Retries - 1)
      /\ a \notin torn /\ app[a].cmd \in Alive => daemon[app[a].cmd].show = app[a].show /\ daemon[app[a].cmd].iface = app[a].iface
  BY <1>1, AtWork
<1>3. r \in ThreadRecord /\ x \in AppRecord
  BY <1>2, ConstantTypes DEF ThreadRecord, AppRecord, AfterEnsure
<1>4. thread' = [thread EXCEPT ![a][t] = r] /\ app' = [app EXCEPT ![a] = x]
  BY DEF Ensured
<1>5. /\ x.life = app[a].life /\ x.show = app[a].show /\ x.relaunching = app[a].relaunching
      /\ x.iface = app[a].iface /\ x.cmd = app[a].cmd
  BY <1>2 DEF AppRecord
<1>6. thread[a][t].pid = 0 /\ pc \in EnsurePcs
  BY <1>1, <1>2 DEF Follows, EnsurePcs, Steps
<1>7. CASE thread[a][t].kind = "startup"
  <2>1. r = Idle
    BY <1>7
  <2>2. r.pc = "idle" /\ r.kind = "none" /\ r.pid = 0
    BY <2>1, ConstantTypes
  <2>3. Follows(t, r) /\ r.pc \notin Childless \cup {"record"}
    BY <2>2 DEF Follows, Childless
  <2> HIDE DEF r, x
  <2>4. MayGo(a, t, r, x)
    BY <1>2, <1>3, <1>5, <1>6, <2>2, <2>3 DEF MayGo
  <2> QED BY <1>3, <1>4, <2>4, QuietStep
<1>8. CASE thread[a][t].kind # "startup"
  <2>1. r = [thread[a][t] EXCEPT !.pc = AfterEnsure(thread[a][t].kind), !.tries = 0]
    BY <1>8
  <2>2. r.pc = AfterEnsure(thread[a][t].kind) /\ r.kind = thread[a][t].kind /\ r.pid = 0 /\ r.iface = thread[a][t].iface
    BY <2>1, <1>2, <1>6 DEF ThreadRecord
  <2>3. Follows(t, r) /\ r.pc \notin Childless \cup {"record"}
    BY <2>2, <1>2, <1>6, <1>8 DEF Follows, Childless, AfterEnsure, EnsurePcs
  <2>4. r.kind = "revert" => x.iface = r.iface
    BY <1>2, <1>5, <1>6, <2>2 DEF DesktopInv, Reverted
  <2> HIDE DEF r, x
  <2>5. MayGo(a, t, r, x)
    BY <1>2, <1>3, <1>5, <1>6, <2>2, <2>3, <2>4 DEF MayGo
  <2> QED BY <1>3, <1>4, <2>5, QuietStep
<1> QED BY <1>7, <1>8

\* A goroutine goes on to its next step, its process as it was.
LEMMA GotoInv ==
  ASSUME Types, DesktopInv, daemon' = daemon, down' = down, torn' = torn, app' = app,
         NEW a \in Apps, NEW t \in Threads, NEW pc \in Steps, At(a, t, pc), NEW r \in ThreadRecord,
         thread' = [thread EXCEPT ![a][t] = r],
         Follows(t, r), r.kind = "relaunch" => thread[a][t].kind = "relaunch", thread[a][t].pid = 0, r.pid = 0,
         r.pc \in Childless => pc \in Childless, r.pc # "record",
         r.kind = "revert" /\ r.pc \in EnsurePcs \cup {"fail"} => app[a].iface = r.iface
  PROVE  Types' /\ DesktopInv'
<1>1. /\ app[a] \in AppRecord /\ Busy(a, t) /\ app[a].life \in {"up", "closing"} /\ 0 \notin Alive
      /\ a \notin torn =>
           /\ pc \in Childless => app[a].cmd = 0
           /\ app[a].cmd \in Alive => daemon[app[a].cmd].show = app[a].show /\ daemon[app[a].cmd].iface = app[a].iface
  BY AtWork
<1>2. app' = [app EXCEPT ![a] = app[a]]
  BY DEF Types
<1>3. MayGo(a, t, r, app[a])
  BY <1>1 DEF MayGo
<1> QED BY <1>1, <1>2, <1>3, QuietStep

\* Nothing is spawned where a daemon answers.
LEMMA EnsureInv ==
  ASSUME Types, DesktopInv, NEW a \in Apps, NEW t \in Threads, ensureDaemon(a, t)
  PROVE  Types' /\ DesktopInv'
<1>1. At(a, t, "dial") /\ "dial" \in Steps /\ daemon' = daemon /\ down' = down /\ torn' = torn /\ app' = app
  BY DEF ensureDaemon, Steps, EnsurePcs
<1>2. /\ thread[a][t] \in ThreadRecord /\ app[a] \in AppRecord /\ thread[a][t].pc = "dial" /\ Follows(t, thread[a][t])
  BY <1>1, AtWork
<1>3. CASE Ensured(a, t)
  <2>1. app[a].unreachable \in BOOLEAN /\ app' = [app EXCEPT ![a] = [app[a] EXCEPT !.unreachable = app[a].unreachable]]
    BY <1>1, <1>2 DEF Types, AppRecord
  <2>2. "dial" \in EnsurePcs \ {"record"}
    BY DEF EnsurePcs
  <2> QED BY <1>1, <1>3, <2>1, <2>2, EnsuredInv
<1>4. CASE Goto(a, t, "spawn")
  <2> DEFINE r == [thread[a][t] EXCEPT !.pc = "spawn"]
  <2>1. r \in ThreadRecord /\ r.pc = "spawn" /\ r.kind = thread[a][t].kind /\ r.pid = thread[a][t].pid /\ r.iface = thread[a][t].iface
    BY <1>2 DEF ThreadRecord, EnsurePcs
  <2>2. Follows(t, r) /\ r.pid = 0
    BY <1>2, <2>1 DEF Follows, EnsurePcs
  <2>3. thread' = [thread EXCEPT ![a][t] = r]
    BY <1>4 DEF Goto
  <2>4. r.kind = "revert" => app[a].iface = r.iface
    BY <1>2, <2>1 DEF DesktopInv, Reverted, EnsurePcs
  <2>5. "dial" \in Childless
    BY DEF Childless
  <2> HIDE DEF r
  <2> QED BY <1>1, <1>2, <2>1, <2>2, <2>3, <2>4, <2>5, GotoInv
<1> QED BY <1>3, <1>4 DEF ensureDaemon

\* A daemon that could not be started leaves the process without one.
LEMMA SpawnFailsInv ==
  ASSUME Types, DesktopInv, NEW a \in Apps, NEW t \in Threads, SpawnFails(a, t)
  PROVE  Types' /\ DesktopInv'
<1>1. At(a, t, "spawn") /\ "spawn" \in EnsurePcs \ {"record"}
  BY DEF SpawnFails, EnsurePcs
<1>2. /\ daemon' = daemon /\ down' = down /\ torn' = torn /\ Ensured(a, t)
      /\ app' = [app EXCEPT ![a] = [app[a] EXCEPT !.unreachable = TRUE]]
  BY DEF SpawnFails
<1> QED BY <1>1, <1>2, EnsuredInv

\* The process takes over the child its goroutine started.
LEMMA SuperviseInv ==
  ASSUME Types, DesktopInv, NEW a \in Apps, NEW t \in Threads, Supervise(a, t)
  PROVE  Types' /\ DesktopInv'
<1> DEFINE r == [thread[a][t] EXCEPT !.pc = "retry", !.pid = 0]
           x == [app[a] EXCEPT !.cmd = thread[a][t].pid]
<1>1. At(a, t, "record") /\ "record" \in Steps /\ daemon' = daemon /\ down' = down /\ torn' = torn
  BY DEF Supervise, Steps, EnsurePcs
<1>2. /\ thread[a][t] \in ThreadRecord /\ app[a] \in AppRecord /\ Busy(a, t) /\ app[a].life \in {"up", "closing"}
      /\ Follows(t, thread[a][t]) /\ thread[a][t].pc = "record" /\ 0 \notin Alive /\ 0 \in 0..MaxDaemons
      /\ a \notin torn =>
           /\ "record" \in Childless => app[a].cmd = 0
           /\ thread[a][t].pid \in Alive =>
                daemon[thread[a][t].pid].show = app[a].show /\ daemon[thread[a][t].pid].iface = app[a].iface
  BY <1>1, AtWork
<1>3. r \in ThreadRecord /\ x \in AppRecord
  BY <1>2 DEF ThreadRecord, AppRecord, EnsurePcs
<1>4. thread' = [thread EXCEPT ![a][t] = r] /\ app' = [app EXCEPT ![a] = x]
  BY DEF Supervise
<1>5. /\ r.pc = "retry" /\ r.pid = 0 /\ r.kind = thread[a][t].kind /\ r.iface = thread[a][t].iface
      /\ x.life = app[a].life /\ x.show = app[a].show /\ x.relaunching = app[a].relaunching
      /\ x.iface = app[a].iface /\ x.cmd = thread[a][t].pid
  BY <1>2 DEF ThreadRecord, AppRecord
<1>6. Follows(t, r)
  BY <1>2, <1>5 DEF Follows, EnsurePcs
<1>7. "record" \in Childless /\ "retry" \notin Childless
  BY DEF Childless
<1>8. r.kind = "revert" => x.iface = r.iface
  BY <1>2, <1>5 DEF DesktopInv, Reverted, EnsurePcs
<1>9. a \notin torn => \A p \in Alive : p \in {app[a].cmd, thread[a][t].pid} => p \in {x.cmd, r.pid}
  BY <1>2, <1>5, <1>7
<1> HIDE DEF r, x
<1>10. MayGo(a, t, r, x)
  BY <1>2, <1>3, <1>5, <1>6, <1>7, <1>8, <1>9 DEF MayGo
<1> QED BY <1>1, <1>3, <1>4, <1>10, QuietStep

\* Looking for the child's answer, again or for the last time.
LEMMA RetryInv ==
  ASSUME Types, DesktopInv, NEW a \in Apps, NEW t \in Threads, Retry(a, t)
  PROVE  Types' /\ DesktopInv'
<1>1. At(a, t, "retry") /\ "retry" \in Steps /\ "retry" \in EnsurePcs \ {"record"} /\ daemon' = daemon /\ down' = down /\ torn' = torn
  BY DEF Retry, Steps, EnsurePcs
<1>2. thread[a][t] \in ThreadRecord /\ app[a] \in AppRecord /\ thread[a][t].pc = "retry" /\ Follows(t, thread[a][t])
  BY <1>1, AtWork
<1>3. CASE Ensured(a, t) /\ UNCHANGED app
  <2>1. app[a].unreachable \in BOOLEAN /\ app' = [app EXCEPT ![a] = [app[a] EXCEPT !.unreachable = app[a].unreachable]]
    BY <1>3, <1>2 DEF Types, AppRecord
  <2> QED BY <1>1, <1>3, <2>1, EnsuredInv
<1>4. CASE /\ thread[a][t].tries + 1 < Retries /\ app' = app
           /\ thread' = [thread EXCEPT ![a][t].tries = @ + 1]
  <2> DEFINE r == [thread[a][t] EXCEPT !.tries = thread[a][t].tries + 1]
  <2>1. thread[a][t].tries + 1 \in 0..(Retries - 1)
    <3>1. thread[a][t].tries \in 0..(Retries - 1) /\ Retries \in Nat
      BY <1>2, DesktopAssumption DEF ThreadRecord
    <3> QED BY <3>1, <1>4
  <2>2. r \in ThreadRecord /\ r.pc = "retry" /\ r.kind = thread[a][t].kind /\ r.pid = thread[a][t].pid /\ r.iface = thread[a][t].iface
    BY <1>2, <2>1 DEF ThreadRecord
  <2>3. Follows(t, r) /\ r.pid = 0
    BY <1>2, <2>2 DEF Follows, EnsurePcs
  <2>4. thread' = [thread EXCEPT ![a][t] = r]
    BY <1>4
  <2>5. r.kind = "revert" => app[a].iface = r.iface
    BY <1>2, <2>2 DEF DesktopInv, Reverted, EnsurePcs
  <2>6. "retry" \notin Childless
    BY DEF Childless
  <2>7. app' = app /\ thread[a][t].pid = 0 /\ r.pc # "record" /\ r.pc \notin Childless
    BY <1>4, <2>2, <2>3, <2>6
  <2> HIDE DEF r
  <2> QED BY <1>1, <2>2, <2>3, <2>4, <2>5, <2>7, GotoInv
<1>5. CASE Ensured(a, t) /\ app' = [app EXCEPT ![a].unreachable = TRUE]
  <2>1. app' = [app EXCEPT ![a] = [app[a] EXCEPT !.unreachable = TRUE]]
    BY <1>5
  <2> QED BY <1>1, <1>5, <2>1, EnsuredInv
<1> QED BY <1>3, <1>4, <1>5 DEF Retry

\* The show is saved, or is not.
LEMMA SaveShowInv ==
  ASSUME Types, DesktopInv, NEW a \in Apps, NEW t \in Threads, SaveShow(a, t)
  PROVE  Types' /\ DesktopInv'
<1>1. At(a, t, "save") /\ "save" \in Steps /\ daemon' = daemon /\ down' = down /\ torn' = torn /\ app' = app
  BY DEF SaveShow, Steps
<1>2. thread[a][t] \in ThreadRecord /\ thread[a][t].pc = "save" /\ Follows(t, thread[a][t])
  BY <1>1, AtWork
<1>3. PICK pc \in {"stop", "fail"} : Goto(a, t, pc)
  BY DEF SaveShow
<1> DEFINE r == [thread[a][t] EXCEPT !.pc = pc]
<1>4. r \in ThreadRecord /\ r.pc = pc /\ r.kind = thread[a][t].kind /\ r.pid = thread[a][t].pid
  BY <1>2 DEF ThreadRecord
<1>5. Follows(t, r) /\ r.pid = 0 /\ thread[a][t].kind = "relaunch" /\ thread[a][t].pid = 0
  BY <1>2, <1>4 DEF Follows, EnsurePcs
<1>6. thread' = [thread EXCEPT ![a][t] = r]
  BY <1>3 DEF Goto
<1>7. r.pc \notin Childless /\ r.pc # "record"
  BY <1>4 DEF Childless
<1> HIDE DEF r
<1> QED BY <1>1, <1>4, <1>5, <1>6, <1>7, GotoInv

\* The interface is the one asked for, or the one before.
LEMMA SwitchInv ==
  ASSUME Types, DesktopInv, NEW a \in Apps, NEW t \in Threads, switchDaemonInterface(a, t)
  PROVE  Types' /\ DesktopInv'
<1> DEFINE i == IF thread[a][t].kind = "select" THEN app[a].iface ELSE thread[a][t].iface
           r == [thread[a][t] EXCEPT !.pc = "dial", !.iface = i]
           x == [app[a] EXCEPT !.iface = thread[a][t].iface, !.unreachable = FALSE]
<1>1. At(a, t, "switch") /\ "switch" \in Steps /\ daemon' = daemon /\ down' = down /\ torn' = torn
  BY DEF switchDaemonInterface, Steps
<1>2. /\ thread[a][t] \in ThreadRecord /\ app[a] \in AppRecord /\ Busy(a, t) /\ app[a].life \in {"up", "closing"}
      /\ Follows(t, thread[a][t]) /\ thread[a][t].pc = "switch" /\ 0 \notin Alive
      /\ a \notin torn /\ "switch" \in Childless => app[a].cmd = 0
  BY <1>1, AtWork
<1>3. i \in Interfaces
  BY <1>2 DEF ThreadRecord, AppRecord
<1>4. r \in ThreadRecord /\ x \in AppRecord
  BY <1>2, <1>3 DEF ThreadRecord, AppRecord, EnsurePcs
<1>5. thread' = [thread EXCEPT ![a][t] = r] /\ app' = [app EXCEPT ![a] = x]
  BY DEF switchDaemonInterface
<1>6. /\ r.pc = "dial" /\ r.pid = thread[a][t].pid /\ r.kind = thread[a][t].kind /\ r.iface = i
      /\ x.life = app[a].life /\ x.show = app[a].show /\ x.relaunching = app[a].relaunching
      /\ x.iface = thread[a][t].iface /\ x.cmd = app[a].cmd
  BY <1>2 DEF ThreadRecord, AppRecord
<1>7. Follows(t, r) /\ thread[a][t].pid = 0 /\ t \in Callers
  BY <1>2, <1>6 DEF Follows, EnsurePcs
<1>8. "switch" \in Childless /\ r.pc # "record"
  BY <1>6 DEF Childless
<1>9. r.kind = "revert" => x.iface = r.iface
  BY <1>6
<1> HIDE DEF r, x, i
<1>10. MayGo(a, t, r, x)
  BY <1>2, <1>4, <1>6, <1>7, <1>8, <1>9 DEF MayGo
<1> QED BY <1>1, <1>4, <1>5, <1>10, QuietStep

\* A switch that is done, or failed, ends.
LEMMA ReturnInv ==
  ASSUME Types, DesktopInv, NEW a \in Apps, NEW t \in Callers, daemon' = daemon, down' = down, torn' = torn,
         NEW pc \in {"report", "fail"}, At(a, t, pc), app' = [app EXCEPT ![a].relaunching = FALSE], Return(a, t)
  PROVE  Types' /\ DesktopInv'
<1> DEFINE x == [app[a] EXCEPT !.relaunching = FALSE]
<1>1. pc \in Steps /\ t \in Threads
  BY DEF Steps, Threads
<1>2. /\ thread[a][t] \in ThreadRecord /\ app[a] \in AppRecord /\ Busy(a, t) /\ app[a].life \in {"up", "closing"}
      /\ Follows(t, thread[a][t]) /\ thread[a][t].pc = pc /\ 0 \notin Alive
      /\ a \notin torn /\ app[a].cmd \in Alive => daemon[app[a].cmd].show = app[a].show /\ daemon[app[a].cmd].iface = app[a].iface
  BY <1>1, AtWork
<1>3. Idle \in ThreadRecord /\ Idle.pc = "idle" /\ Idle.kind = "none" /\ Idle.pid = 0 /\ x \in AppRecord
  BY <1>2, ConstantTypes DEF AppRecord
<1>4. thread' = [thread EXCEPT ![a][t] = Idle] /\ app' = [app EXCEPT ![a] = x]
  BY DEF Return
<1>5. /\ x.life = app[a].life /\ x.show = app[a].show /\ x.iface = app[a].iface /\ x.cmd = app[a].cmd
  BY <1>2 DEF AppRecord
<1>6. Follows(t, Idle) /\ thread[a][t].pid = 0
  BY <1>2, <1>3 DEF Follows, EnsurePcs
<1>7. Idle.pc \notin Childless \cup {"record"}
  BY <1>3 DEF Childless
<1> HIDE DEF x
<1>8. MayGo(a, t, Idle, x)
  BY <1>2, <1>3, <1>5, <1>6, <1>7 DEF MayGo
<1> QED BY <1>1, <1>3, <1>4, <1>8, QuietStep

\* The switch is done, or the interface before is to be restored.
LEMMA ReportInv ==
  ASSUME Types, DesktopInv, NEW a \in Apps, NEW t \in Threads, Report(a, t)
  PROVE  Types' /\ DesktopInv'
<1>1. At(a, t, "report") /\ "report" \in Steps /\ daemon' = daemon /\ down' = down /\ torn' = torn
  BY DEF Report, Steps
<1>2. thread[a][t] \in ThreadRecord /\ thread[a][t].pc = "report" /\ Follows(t, thread[a][t])
  BY <1>1, AtWork
<1>3. thread[a][t].kind = "select" /\ t \in Callers /\ thread[a][t].pid = 0
  BY <1>2 DEF Follows, EnsurePcs
<1>4. CASE thread' = [thread EXCEPT ![a][t].pc = "stop", ![a][t].kind = "revert"] /\ app' = app
  <2> DEFINE r == [thread[a][t] EXCEPT !.pc = "stop", !.kind = "revert"]
  <2>1. r \in ThreadRecord /\ r.pc = "stop" /\ r.kind = "revert" /\ r.pid = thread[a][t].pid
    BY <1>2 DEF ThreadRecord
  <2>2. Follows(t, r) /\ r.pc \notin EnsurePcs \cup {"fail"} /\ r.pc \notin Childless \cup {"record"}
    BY <1>3, <2>1 DEF Follows, EnsurePcs, Childless
  <2>3. thread' = [thread EXCEPT ![a][t] = r]
    BY <1>4
  <2> HIDE DEF r
  <2> QED BY <1>1, <1>3, <1>4, <2>1, <2>2, <2>3, GotoInv
<1>5. CASE app' = [app EXCEPT ![a].relaunching = FALSE] /\ Return(a, t)
  BY <1>1, <1>3, <1>5, ReturnInv
<1> QED BY <1>4, <1>5 DEF Report

\* The switch failed.
LEMMA FailInv ==
  ASSUME Types, DesktopInv, NEW a \in Apps, NEW t \in Threads, Fail(a, t)
  PROVE  Types' /\ DesktopInv'
<1>1. /\ At(a, t, "fail") /\ "fail" \in Steps /\ daemon' = daemon /\ down' = down /\ torn' = torn
      /\ app' = [app EXCEPT ![a].relaunching = FALSE] /\ Return(a, t)
  BY DEF Fail, Steps
<1>2. thread[a][t].pc = "fail" /\ Follows(t, thread[a][t])
  BY <1>1, AtWork
<1>3. t \in Callers
  BY <1>2 DEF Follows, EnsurePcs
<1> QED BY <1>1, <1>3, ReturnInv

-----------------------------------------------------------------------------
\* Steps that touch a daemon

\* The child that was forgotten is dead.
LEMMA KillInv ==
  ASSUME Types, DesktopInv, NEW a \in Apps, NEW t \in Threads, Kill(a, t)
  PROVE  Types' /\ DesktopInv'
<1> DEFINE r == [thread[a][t] EXCEPT !.pc = AfterStop(thread[a][t].kind), !.pid = 0]
<1>1. At(a, t, "kill") /\ "kill" \in Steps /\ app' = app /\ down' = down /\ torn' = torn
  BY DEF Kill, Steps
<1>2. /\ thread[a][t] \in ThreadRecord /\ app[a] \in AppRecord /\ Busy(a, t) /\ app[a].life \in {"up", "closing"}
      /\ Follows(t, thread[a][t]) /\ thread[a][t].pc = "kill" /\ 0 \notin Alive /\ 0 \in 0..MaxDaemons
      /\ a \notin torn => ("kill" \in Childless => app[a].cmd = 0)
  BY <1>1, AtWork
<1>3. r \in ThreadRecord
  BY <1>2 DEF ThreadRecord, AfterStop
<1>4. r.pc = AfterStop(thread[a][t].kind) /\ r.kind = thread[a][t].kind /\ r.pid = 0
  BY <1>2 DEF ThreadRecord
<1>5. Follows(t, r) /\ r.pc \notin EnsurePcs \cup {"fail"}
  BY <1>2, <1>4 DEF Follows, EnsurePcs, AfterStop
<1>6. thread' = [thread EXCEPT ![a][t] = r]
  BY DEF Kill
<1>7. /\ thread' \in [Apps -> [Threads -> ThreadRecord]] /\ thread'[a][t] = r
      /\ \A b \in Apps, u \in Threads : b # a \/ u # t => thread'[b][u] = thread[b][u]
  BY <1>3, <1>6 DEF Types
<1>8. /\ daemon' \in [Pids -> DaemonRecord]
      /\ \A p \in Pids : daemon'[p] = IF p = thread[a][t].pid THEN Dead ELSE daemon[p]
  BY ConstantTypes DEF Kill, Types
<1>9. Types'
  BY <1>1, <1>7, <1>8 DEF Types
<1>10. Dead.state = "dead"
  BY ConstantTypes
<1>11. /\ \A p \in Alive' : p \in Alive /\ daemon'[p] = daemon[p] /\ p # thread[a][t].pid
       /\ \A p \in Serving' : p \in Serving
       /\ \A p \in Pids : daemon[p].state # "none" => daemon'[p].state # "none"
  BY <1>8, <1>10 DEF Alive, Serving
<1>12. IsOwn(a, app[a].cmd)
  BY DEF DesktopInv, Owned
<1>13. app[a].cmd # 0 => app[a].cmd \in Pids
  BY <1>2, DesktopAssumption DEF AppRecord, Pids
<1>14. IsOwn(a, app[a].cmd)' /\ IsOwn(a, thread[a][t].pid)'
  BY <1>1, <1>4, <1>7, <1>11, <1>12, <1>13 DEF IsOwn
<1>15. OneServes'
  BY <1>11 DEF OneServes, DesktopInv
<1>16. "kill" \in Childless /\ app'[a] = app[a] /\ 0 \notin Alive'
  BY <1>1, <1>2, <1>11 DEF Childless
<1>17. a \notin torn =>
           /\ \A p \in Alive : p \in Alive' /\ p \in {app[a].cmd, thread[a][t].pid} => p \in {app'[a].cmd, thread'[a][t].pid}
           /\ thread'[a][t].pc \in Childless => app'[a].cmd = 0
           /\ app'[a].cmd \in Alive' => Serves(a, app[a].cmd)'
           /\ thread'[a][t].pc = "record" /\ thread'[a][t].pid \in Alive' => Serves(a, thread[a][t].pid)'
  BY <1>2, <1>4, <1>7, <1>11, <1>16
<1> HIDE DEF r
<1>18. /\ Follows(t, thread'[a][t]) /\ (thread'[a][t].kind = "relaunch" => thread[a][t].kind = "relaunch")
       /\ thread'[a][t].pc \notin EnsurePcs \cup {"fail"}
  BY <1>4, <1>5, <1>7
<1>19. \A b \in Apps : b # a => app'[b] = app[b]
  BY <1>1
<1>20. DesktopInv'
  BY <1>1, <1>2, <1>7, <1>9, <1>11, <1>14, <1>15, <1>16, <1>17, <1>18, <1>19, ThreadStep
<1> QED BY <1>9, <1>20

\* A set of numbers that is not empty has a least one.
LEMMA LeastOf ==
  ASSUME NEW S \in SUBSET Nat, S # {}
  PROVE  \E n \in S : \A m \in S : n <= m
<1> DEFINE R == OpToRel(<, Nat)
<1>1. IsWellFoundedOn(R, Nat)
  BY NatLessThanWellFounded
<1>2. \A m, n \in Nat : m < n => <<m, n>> \in R
  BY DEF OpToRel
<1> HIDE DEF R
<1>3. PICK n \in S : \A m \in S : ~(<<m, n>> \in R)
  BY <1>1, WFMin
<1>4. \A m \in S : ~(m < n)
  BY <1>2, <1>3
<1>5. \A m \in S : n <= m
  BY <1>4
<1> QED BY <1>5

\* The next pid is an unused one.
LEMMA NextPidUnused ==
  ASSUME Unused # {}
  PROVE  NextPid \in Unused /\ NextPid \in Pids /\ NextPid \notin Alive /\ daemon[NextPid].state = "none"
<1>1. Unused \subseteq Nat
  BY DesktopAssumption DEF Unused, Pids
<1>2. \E p \in Unused : \A q \in Unused : p <= q
  BY <1>1, LeastOf
<1>3. NextPid \in Unused
  BY <1>2 DEF NextPid
<1> QED BY <1>3 DEF Unused, Alive

\* A daemon is started for process a, or for nobody.
LEMMA StartedFacts ==
  ASSUME Types, Unused # {}, NEW s \in Shows, NEW i \in Interfaces, NEW b \in 0..MaxApps, Started(NextPid, s, i, b)
  PROVE  /\ daemon' \in [Pids -> DaemonRecord]
         /\ daemon'[NextPid] = [state |-> "starting", show |-> s, iface |-> i, by |-> b, lost |-> FALSE]
         /\ \A p \in Pids : p # NextPid => daemon'[p] = daemon[p]
         /\ Alive' = Alive \cup {NextPid} /\ Serving' = Serving
<1>1. NextPid \in Pids /\ NextPid \notin Alive /\ daemon[NextPid].state = "none"
  BY NextPidUnused
<1> DEFINE n == NextPid
<1> HIDE DEF n
<1>2. PICK p \in Pids : p = NextPid
  BY <1>1
<1>3. [state |-> "starting", show |-> s, iface |-> i, by |-> b, lost |-> FALSE] \in DaemonRecord
  BY DEF DaemonRecord
<1>4. daemon' = [daemon EXCEPT ![p] = [state |-> "starting", show |-> s, iface |-> i, by |-> b, lost |-> FALSE]]
  BY <1>2 DEF Started
<1>5. /\ daemon' \in [Pids -> DaemonRecord] /\ daemon'[p] = [state |-> "starting", show |-> s, iface |-> i, by |-> b, lost |-> FALSE]
      /\ \A q \in Pids : q # p => daemon'[q] = daemon[q]
  BY <1>3, <1>4 DEF Types
<1>6. Alive' = Alive \cup {p} /\ Serving' = Serving
  BY <1>1, <1>2, <1>5 DEF Alive, Serving
<1> QED BY <1>2, <1>5, <1>6

\* A goroutine starts a daemon on its process's show and interface.
LEMMA SpawnInv ==
  ASSUME Types, DesktopInv, NEW a \in Apps, NEW t \in Threads, defaultSpawn(a, t)
  PROVE  Types' /\ DesktopInv'
<1>1. /\ At(a, t, "spawn") /\ "spawn" \in Steps /\ app' = app /\ down' = down /\ torn' = torn /\ Unused # {}
      /\ Started(NextPid, app[a].show, app[a].iface, a)
  BY DEF defaultSpawn, Steps, EnsurePcs
<1>2. /\ thread[a][t] \in ThreadRecord /\ app[a] \in AppRecord /\ Busy(a, t) /\ app[a].life \in {"up", "closing"}
      /\ Follows(t, thread[a][t]) /\ thread[a][t].pc = "spawn" /\ 0 \notin Alive
      /\ a \notin torn => ("spawn" \in Childless => app[a].cmd = 0)
  BY <1>1, AtWork
<1>3. PICK n \in Pids : n = NextPid /\ n \notin Alive /\ daemon[n].state = "none"
  BY <1>1, NextPidUnused
<1>4. app[a].show \in Shows /\ app[a].iface \in Interfaces /\ a \in 0..MaxApps /\ n \in 0..MaxDaemons /\ n # 0
  <2>1. MaxApps \in Nat /\ MaxDaemons \in Nat
    BY DesktopAssumption
  <2> QED BY <1>2, <2>1 DEF AppRecord, Apps, Pids
<1>5. /\ daemon' \in [Pids -> DaemonRecord]
      /\ daemon'[n] = [state |-> "starting", show |-> app[a].show, iface |-> app[a].iface, by |-> a, lost |-> FALSE]
      /\ \A p \in Pids : p # n => daemon'[p] = daemon[p]
      /\ Alive' = Alive \cup {n} /\ Serving' = Serving
  BY <1>1, <1>3, <1>4, StartedFacts
<1> DEFINE r == [thread[a][t] EXCEPT !.pc = "record", !.pid = n]
<1>6. r \in ThreadRecord /\ r.pc = "record" /\ r.pid = n /\ r.kind = thread[a][t].kind /\ r.iface = thread[a][t].iface
  BY <1>2, <1>4 DEF ThreadRecord, EnsurePcs
<1>7. Follows(t, r) /\ thread[a][t].pid = 0
  BY <1>2, <1>6 DEF Follows, EnsurePcs
<1>8. thread' = [thread EXCEPT ![a][t] = r]
  BY <1>3 DEF defaultSpawn
<1>9. /\ thread' \in [Apps -> [Threads -> ThreadRecord]] /\ thread'[a][t] = r
      /\ \A b \in Apps, u \in Threads : b # a \/ u # t => thread'[b][u] = thread[b][u]
  BY <1>6, <1>8 DEF Types
<1>10. Types'
  BY <1>1, <1>5, <1>9 DEF Types
<1>11. app'[a] = app[a] /\ \A b \in Apps : b # a => app'[b] = app[b]
  BY <1>1
<1>12. \A p \in Pids : daemon[p].state # "none" => daemon'[p].state # "none"
  BY <1>3, <1>5
<1>13. IsOwn(a, app[a].cmd)
  BY DEF DesktopInv, Owned
<1>14. app[a].cmd \in Pids \/ app[a].cmd = 0
  BY <1>2, DesktopAssumption DEF AppRecord, Pids
<1>15. IsOwn(a, app[a].cmd)'
  <2> SUFFICES ASSUME app[a].cmd # 0
               PROVE  daemon'[app[a].cmd].state # "none" /\ (app[a].cmd \in Alive' => daemon'[app[a].cmd].by = a)
    BY <1>11 DEF IsOwn
  <2>1. app[a].cmd # n
    BY <1>3, <1>13 DEF IsOwn
  <2> QED BY <2>1, <1>5, <1>13, <1>14 DEF IsOwn
<1>16. IsOwn(a, thread[a][t].pid)'
  BY <1>5, <1>6, <1>9 DEF IsOwn
<1>17. OneServes'
  BY <1>5 DEF OneServes, DesktopInv
<1>18. \A p \in Alive' : \/ p \in Alive /\ daemon'[p] = daemon[p]
                         \/ daemon'[p].by = a /\ daemon[p].state = "none" /\ p = thread'[a][t].pid /\ thread[a][t].pc = "spawn"
  <2>1. \A p \in Alive : p \in Pids /\ p # n
    BY <1>3 DEF Alive
  <2> QED BY <2>1, <1>2, <1>3, <1>5, <1>6, <1>9
<1>19. a \notin torn =>
           /\ \A p \in Alive : p \in Alive' /\ p \in {app[a].cmd, thread[a][t].pid} => p \in {app'[a].cmd, thread'[a][t].pid}
           /\ thread'[a][t].pc \in Childless => app'[a].cmd = 0
           /\ app'[a].cmd \in Alive' => Serves(a, app[a].cmd)'
           /\ thread'[a][t].pc = "record" /\ thread'[a][t].pid \in Alive' => Serves(a, thread[a][t].pid)'
  <2>1. "spawn" \in Childless
    BY DEF Childless
  <2>2. Serves(a, thread[a][t].pid)'
    BY <1>5, <1>6, <1>9, <1>11 DEF Serves
  <2>3. 0 \notin Alive'
    BY <1>2, <1>4, <1>5
  <2> QED BY <2>1, <2>2, <2>3, <1>2, <1>7, <1>11
<1>20. thread'[a][t].kind = "revert" => app'[a].iface = thread'[a][t].iface
  BY <1>2, <1>6, <1>9, <1>11 DEF DesktopInv, Reverted, EnsurePcs
<1> HIDE DEF r
<1>21. Follows(t, thread'[a][t]) /\ (thread'[a][t].kind = "relaunch" => thread[a][t].kind = "relaunch")
  BY <1>6, <1>7, <1>9
<1>22. DesktopInv'
  BY <1>1, <1>2, <1>9, <1>10, <1>11, <1>12, <1>15, <1>16, <1>17, <1>18, <1>19, <1>20, <1>21, ThreadStep
<1> QED BY <1>10, <1>22

\* A daemon started by hand is nobody's.
LEMMA ExternalInv ==
  ASSUME Types, DesktopInv, External
  PROVE  Types' /\ DesktopInv'
<1>1. PICK s \in Shows : Started(NextPid, s, NoApp.iface, 0)
  BY DEF External
<1>2. Unused # {} /\ app' = app /\ thread' = thread /\ down' = down /\ torn' = torn
  BY DEF External
<1>3. NoApp.iface \in Interfaces /\ 0 \in 0..MaxApps
  BY ConstantTypes, DesktopAssumption DEF AppRecord
<1>4. PICK n \in Pids : n = NextPid /\ n \notin Alive /\ daemon[n].state = "none"
  BY <1>2, NextPidUnused
<1>5. /\ daemon' \in [Pids -> DaemonRecord]
      /\ daemon'[n] = [state |-> "starting", show |-> s, iface |-> NoApp.iface, by |-> 0, lost |-> FALSE]
      /\ \A p \in Pids : p # n => daemon'[p] = daemon[p]
      /\ Alive' = Alive \cup {n} /\ Serving' = Serving
  BY <1>1, <1>2, <1>3, <1>4, StartedFacts
<1>6. Types'
  BY <1>2, <1>5 DEF Types
<1>7. \A p \in Pids : daemon[p].state # "none" => daemon'[p].state # "none"
  BY <1>4, <1>5
<1>8. \A p \in Alive' : \/ /\ p \in Alive /\ daemon'[p].by = daemon[p].by
                           /\ daemon'[p].show = daemon[p].show /\ daemon'[p].iface = daemon[p].iface
                        \/ daemon'[p].by = 0 /\ daemon[p].state = "none"
  <2>1. \A p \in Alive : p \in Pids /\ p # n
    BY <1>4 DEF Alive
  <2> QED BY <2>1, <1>4, <1>5
<1>9. OneServes'
  BY <1>5 DEF OneServes, DesktopInv
<1>10. DesktopInv'
  BY <1>2, <1>7, <1>8, <1>9, DaemonStep
<1> QED BY <1>6, <1>10

\* A daemon listens only where none does.
LEMMA RunInv ==
  ASSUME Types, DesktopInv, NEW p \in Pids, Run(p) \/ Dies(p) \/ pollInterfaceLoss(p)
  PROVE  Types' /\ DesktopInv'
<1>1. app' = app /\ thread' = thread /\ down' = down /\ torn' = torn /\ p \in Alive
  BY DEF Run, Dies, pollInterfaceLoss, Alive
<1>2. PICK d \in DaemonRecord :
        /\ daemon' = [daemon EXCEPT ![p] = d]
        /\ d.state = "dead" \/ /\ d.state \in {"starting", "serving"} /\ d.by = daemon[p].by
                               /\ d.show = daemon[p].show /\ d.iface = daemon[p].iface
        /\ d.state = "serving" => Serving = {} \/ p \in Serving
  <2>1. daemon[p] \in DaemonRecord
    BY DEF Types
  <2>2. CASE Run(p)
    <3>1. CASE Serving = {}
      <4> DEFINE d == [daemon[p] EXCEPT !.state = "serving"]
      <4>1. d \in DaemonRecord /\ d.state = "serving" /\ d.by = daemon[p].by /\ d.show = daemon[p].show /\ d.iface = daemon[p].iface
        BY <2>1 DEF DaemonRecord
      <4>2. daemon' = [daemon EXCEPT ![p] = d]
        BY <2>2, <3>1 DEF Run, NewListener
      <4> QED BY <3>1, <4>1, <4>2
    <3>2. CASE Serving # {}
      <4>1. daemon' = [daemon EXCEPT ![p] = Dead]
        BY <2>2, <3>2 DEF Run, NewListener
      <4> QED BY <4>1, ConstantTypes
    <3> QED BY <3>1, <3>2
  <2>3. CASE Dies(p)
    <3>1. daemon' = [daemon EXCEPT ![p] = Dead]
      BY <2>3 DEF Dies
    <3> QED BY <3>1, ConstantTypes
  <2>4. CASE pollInterfaceLoss(p)
    <3> DEFINE d == [daemon[p] EXCEPT !.lost = Check(p)]
    <3>1. Check(p) \in BOOLEAN
      BY <2>1 DEF Check, DaemonRecord
    <3>2. d \in DaemonRecord /\ d.state = daemon[p].state /\ d.by = daemon[p].by /\ d.show = daemon[p].show /\ d.iface = daemon[p].iface
      BY <2>1, <3>1 DEF DaemonRecord
    <3>3. daemon' = [daemon EXCEPT ![p] = d]
      BY <2>4 DEF pollInterfaceLoss
    <3>4. d.state \in {"starting", "serving"} /\ (d.state = "serving" => p \in Serving)
      BY <1>1, <3>2 DEF Alive, Serving
    <3> HIDE DEF d
    <3> QED BY <3>2, <3>3, <3>4
  <2> QED BY <2>2, <2>3, <2>4
<1>3. daemon' \in [Pids -> DaemonRecord] /\ daemon'[p] = d /\ \A q \in Pids : q # p => daemon'[q] = daemon[q]
  BY <1>2 DEF Types
<1>4. Types'
  BY <1>1, <1>3 DEF Types
<1>5. /\ \A q \in Pids : daemon[q].state # "none" => daemon'[q].state # "none"
      /\ \A q \in Alive' : /\ q \in Alive /\ daemon'[q].by = daemon[q].by
                           /\ daemon'[q].show = daemon[q].show /\ daemon'[q].iface = daemon[q].iface
  BY <1>1, <1>2, <1>3 DEF Alive
<1>6. OneServes'
  <2> SUFFICES ASSUME NEW q \in Serving', NEW r \in Serving', q # r
               PROVE  FALSE
    BY DEF OneServes
  <2>1. \A x \in Serving' : x # p => x \in Serving
    BY <1>3 DEF Serving
  <2>2. p \in Serving' => d.state = "serving"
    BY <1>3 DEF Serving
  <2>3. \A x, y \in Serving : x = y
    BY DEF DesktopInv, OneServes
  <2> QED BY <2>1, <2>2, <2>3, <1>2
<1>7. DesktopInv'
  BY <1>1, <1>5, <1>6, DaemonStep
<1> QED BY <1>4, <1>7

-----------------------------------------------------------------------------
\* Calls, launches and the ends of processes

\* A call starts a switch: no goroutine of its process is at work but perhaps
\* its startup, which then tears it.
LEMMA SwitchStarts ==
  ASSUME Types, DesktopInv, NEW a \in Apps, NEW t \in Callers, NEW kind \in {"relaunch", "select"},
         NEW pc \in {"save", "stop"}, kind = "relaunch" => pc = "save", kind = "select" => pc = "stop",
         NEW s \in Shows, NEW i \in Interfaces,
         ~app[a].relaunching, kind = "relaunch" => \E b \in Apps : app[b].life = "none",
         Switch(a, t, kind, pc, s, i)
  PROVE  Types' /\ DesktopInv'
<1> DEFINE r == [Idle EXCEPT !.pc = pc, !.kind = kind, !.show = s, !.iface = i]
           x == [app[a] EXCEPT !.relaunching = TRUE]
<1> USE DEF DesktopInv
<1>1. /\ app[a].life = "up" /\ thread[a][t].pc = "idle"
      /\ daemon' = daemon /\ down' = down /\ torn \subseteq torn' /\ torn' \subseteq torn \cup {a}
      /\ Busy(a, "startup") => a \in torn'
      /\ thread' = [thread EXCEPT ![a][t] = r] /\ app' = [app EXCEPT ![a] = x]
  BY DEF Switch, InProgress, Busy
<1>2. t \in Threads /\ t # "startup" /\ t # "shutdown" /\ app[a] \in AppRecord
  BY DesktopAssumption DEF Threads, Types
<1>3. r \in ThreadRecord /\ r.pc = pc /\ r.kind = kind /\ r.pid = 0
  BY ConstantTypes DEF ThreadRecord
<1>4. /\ x \in AppRecord /\ x.life = "up" /\ x.cmd = app[a].cmd /\ x.show = app[a].show /\ x.iface = app[a].iface /\ x.relaunching
  BY <1>1, <1>2 DEF AppRecord
<1> HIDE DEF r, x
<1>5. /\ thread' \in [Apps -> [Threads -> ThreadRecord]] /\ thread'[a][t] = r
      /\ \A b \in Apps, u \in Threads : b # a \/ u # t => thread'[b][u] = thread[b][u]
  BY <1>1, <1>2, <1>3 DEF Types
<1>6. app' \in [Apps -> AppRecord] /\ app'[a] = x /\ \A b \in Apps : b # a => app'[b] = app[b]
  BY <1>1, <1>4 DEF Types
<1>7. Types'
  BY <1>1, <1>5, <1>6 DEF Types
<1>8. Alive' = Alive /\ Serving' = Serving
  BY <1>1 DEF Alive, Serving
<1>9. \A u \in Threads : u # "startup" \/ a \notin torn' => ~Busy(a, u)
  <2>1. \A u \in Callers : ~Busy(a, u)
    BY DEF LifeFits
  <2>2. ~Busy(a, "shutdown") /\ (a \notin torn' => ~Busy(a, "startup"))
    BY <1>1 DEF LifeFits
  <2> QED BY <2>1, <2>2 DEF Threads
<1>10. \A b \in Apps, u \in Threads : Busy(b, u)' => Busy(b, u) \/ (b = a /\ u = t)
  BY <1>5 DEF Busy
<1>11. \A b \in Apps : app'[b].life = app[b].life /\ app'[b].cmd = app[b].cmd /\ app'[b].show = app[b].show /\ app'[b].iface = app[b].iface
  BY <1>1, <1>4, <1>6
<1>12. Follows(t, r)
  BY <1>3 DEF Follows
<1>13. ThreadsFollow'
  <2> SUFFICES ASSUME NEW b \in Apps, NEW u \in Threads PROVE Follows(u, thread'[b][u])
    BY DEF ThreadsFollow
  <2>1. Follows(u, thread[b][u])
    BY DEF ThreadsFollow
  <2> QED BY <2>1, <1>5, <1>12
<1>14. Owned'
  <2> SUFFICES ASSUME NEW b \in Apps
               PROVE  IsOwn(b, app[b].cmd)' /\ \A u \in Threads : IsOwn(b, thread[b][u].pid)'
    BY DEF Owned
  <2>1. IsOwn(b, app[b].cmd) /\ \A u \in Threads : IsOwn(b, thread[b][u].pid)
    BY DEF Owned
  <2>2. \A u \in Threads : thread'[b][u].pid = thread[b][u].pid \/ thread'[b][u].pid = 0
    BY <1>3, <1>5
  <2> QED BY <2>1, <2>2, <1>1, <1>8, <1>11 DEF IsOwn
<1>15. Exclusive'
  <2> SUFFICES ASSUME NEW b \in Apps, NEW u \in Threads, NEW v \in Threads, u # v, Busy(b, u)', Busy(b, v)'
               PROVE  b \in torn' /\ ~(u \in Callers /\ v \in Callers)
    BY DEF Exclusive
  <2>1. CASE Busy(b, u) /\ Busy(b, v)
    BY <2>1, <1>1 DEF Exclusive
  <2>2. CASE ~(Busy(b, u) /\ Busy(b, v))
    <3>1. b = a /\ t \in {u, v}
      BY <2>2, <1>10
    <3>2. PICK w \in {u, v} : w # t /\ Busy(a, w)
      BY <3>1, <1>10
    <3>3. w = "startup" /\ w \notin Callers
      BY <3>2, <1>9, DesktopAssumption
    <3> QED BY <3>1, <3>2, <3>3, <1>1
  <2> QED BY <2>1, <2>2
<1>16. LifeFits'
  <2> SUFFICES ASSUME NEW b \in Apps
               PROVE  /\ app'[b].life \in {"none", "gone"} => app'[b].cmd = 0 /\ \A u \in Threads : ~Busy(b, u)'
                      /\ app'[b].life \in {"none", "up"} => ~Busy(b, "shutdown")'
                      /\ app'[b].life = "none" => b \notin torn'
                      /\ app'[b].life = "none" => ~app'[b].relaunching
                      /\ \A u \in Callers : Busy(b, u)' => app'[b].relaunching
    BY DEF LifeFits
  <2>1. "shutdown" \in Threads /\ (\A u \in Callers : u \in Threads) /\ "shutdown" # "startup"
    BY DEF Threads
  <2>2. CASE b = a
    <3>1. ~Busy(a, "shutdown")'
      BY <2>1, <1>2, <1>9, <1>10
    <3> QED BY <2>1, <2>2, <3>1, <1>4, <1>6
  <2>3. CASE b # a
    <3>1. app'[b] = app[b] /\ \A u \in Threads : Busy(b, u)' => Busy(b, u)
      BY <2>3, <1>6, <1>10
    <3> QED BY <3>1, <2>1, <1>1 DEF LifeFits
  <2> QED BY <2>2, <2>3
<1>17. Chain'
  <2> SUFFICES ASSUME NEW b \in Apps, NEW c \in Apps, b < c, app'[c].life # "none"
               PROVE  /\ app'[b].life \in {"closing", "gone"}
                      /\ \A u \in Callers : ~Busy(b, u)'
                      /\ b \notin torn' => ~Busy(b, "startup")' /\ \A p \in Alive : daemon[p].by # b
    BY <1>1, <1>8 DEF Chain
  <2>1. /\ app[b].life \in {"closing", "gone"}
        /\ \A u \in Callers : ~Busy(b, u)
        /\ b \notin torn => ~Busy(b, "startup") /\ \A p \in Alive : daemon[p].by # b
    BY <1>11 DEF Chain
  <2>2. b # a
    BY <2>1, <1>1
  <2>3. \A u \in Callers \cup {"startup"} : Busy(b, u)' => Busy(b, u)
    BY <2>2, <1>10 DEF Threads
  <2> QED BY <2>1, <2>3, <1>1, <1>11
<1>18. Room'
  <2> SUFFICES ASSUME NEW b \in Apps, NEW u \in Threads, thread'[b][u].kind = "relaunch"
               PROVE  \E c \in Apps : app[c].life = "none"
    BY <1>11 DEF Room
  <2>1. CASE b = a /\ u = t
    BY <2>1, <1>3, <1>5
  <2>2. CASE b # a \/ u # t
    BY <2>2, <1>5 DEF Room
  <2> QED BY <2>1, <2>2
<1>19. Held'
  <2> SUFFICES ASSUME NEW b \in Apps, b \notin torn'
               PROVE  /\ \A p \in Alive : daemon[p].by = b => app'[b].cmd = p \/ \E u \in Threads : thread'[b][u].pid = p
                      /\ app'[b].cmd \in Alive => Serves(b, app[b].cmd)'
                      /\ \A u \in Threads : /\ thread'[b][u].pc \in Childless => app'[b].cmd = 0
                                            /\ thread'[b][u].pc = "record" /\ thread'[b][u].pid \in Alive => Serves(b, thread[b][u].pid)'
    BY <1>1, <1>8 DEF Held
  <2>1. /\ \A p \in Alive : daemon[p].by = b => app[b].cmd = p \/ \E u \in Threads : thread[b][u].pid = p
        /\ app[b].cmd \in Alive => Serves(b, app[b].cmd)
        /\ \A u \in Threads : /\ thread[b][u].pc \in Childless => app[b].cmd = 0
                              /\ thread[b][u].pc = "record" /\ thread[b][u].pid \in Alive => Serves(b, thread[b][u].pid)
    BY <1>1 DEF Held
  <2>2. \A p : Serves(b, p) => Serves(b, p)'
    BY <1>1, <1>11 DEF Serves
  <2>3. CASE b # a
    <3>1. \A u \in Threads : thread'[b][u] = thread[b][u]
      BY <2>3, <1>5
    <3> QED BY <3>1, <2>1, <2>2, <1>11
  <2>4. CASE b = a
    <3>1. \A u \in Threads : thread[a][u].pid = 0
      BY <2>4, <1>9 DEF ThreadsFollow, Follows, Busy
    <3>2. 0 \notin Alive
      BY DesktopAssumption DEF Alive, Pids
    <3>3. r.pc \notin Childless \cup {"record"}
      BY <1>3 DEF Childless
    <3>4. \A u \in Threads : thread'[a][u].pc \notin Childless \cup {"record"}
      <4>1. \A u \in Threads : thread[a][u].pc \notin Childless \cup {"record"}
        BY <2>4, <1>9 DEF Busy, Childless
      <4> QED BY <4>1, <3>3, <1>5
    <3>5. \A p \in Alive : daemon[p].by = b => app[b].cmd = p
      BY <3>1, <3>2, <2>1, <2>4
    <3> QED BY <3>4, <3>5, <2>1, <2>2, <1>11, <2>4
  <2> QED BY <2>3, <2>4
<1>20. Reverted'
  <2> SUFFICES ASSUME NEW b \in Apps, NEW u \in Threads, thread'[b][u].kind = "revert", thread'[b][u].pc \in EnsurePcs \cup {"fail"}
               PROVE  app[b].iface = thread'[b][u].iface
    BY <1>11 DEF Reverted
  <2>1. b # a \/ u # t
    BY <1>3, <1>5
  <2> QED BY <2>1, <1>5 DEF Reverted
<1>21. OneServes'
  BY <1>8 DEF OneServes
<1> QED BY <1>7, <1>13, <1>14, <1>15, <1>16, <1>17, <1>18, <1>19, <1>20, <1>21

\* The window is closed: shutdown begins, and tears a switch in progress.
LEMMA ShutdownInv ==
  ASSUME Types, DesktopInv, NEW a \in Apps, OnShutdown(a)
  PROVE  Types' /\ DesktopInv'
<1> DEFINE r == [Idle EXCEPT !.pc = "stop", !.kind = "shutdown"]
           x == [app[a] EXCEPT !.life = "closing"]
<1> USE DEF DesktopInv
<1>1. /\ app[a].life = "up"
      /\ daemon' = daemon /\ down' = down /\ torn \subseteq torn' /\ torn' \subseteq torn \cup {a}
      /\ app[a].relaunching \/ Busy(a, "startup") => a \in torn'
      /\ thread' = [thread EXCEPT ![a]["shutdown"] = r] /\ app' = [app EXCEPT ![a] = x]
  BY DEF OnShutdown, InProgress, Busy
<1>2. "shutdown" \in Threads /\ (\A u \in Callers : u \in Threads) /\ app[a] \in AppRecord
  BY DEF Threads, Types
<1>3. r \in ThreadRecord /\ r.pc = "stop" /\ r.kind = "shutdown" /\ r.pid = 0
  BY ConstantTypes DEF ThreadRecord
<1>4. /\ x \in AppRecord /\ x.life = "closing" /\ x.cmd = app[a].cmd /\ x.show = app[a].show /\ x.iface = app[a].iface
      /\ x.relaunching = app[a].relaunching
  BY <1>1, <1>2 DEF AppRecord
<1> HIDE DEF r, x
<1>5. /\ thread' \in [Apps -> [Threads -> ThreadRecord]] /\ thread'[a]["shutdown"] = r
      /\ \A b \in Apps, u \in Threads : b # a \/ u # "shutdown" => thread'[b][u] = thread[b][u]
  BY <1>1, <1>2, <1>3 DEF Types
<1>6. app' \in [Apps -> AppRecord] /\ app'[a] = x /\ \A b \in Apps : b # a => app'[b] = app[b]
  BY <1>1, <1>4 DEF Types
<1>7. Types'
  BY <1>1, <1>5, <1>6 DEF Types
<1>8. Alive' = Alive /\ Serving' = Serving
  BY <1>1 DEF Alive, Serving
<1>9. \A b \in Apps, u \in Threads : Busy(b, u)' => Busy(b, u) \/ (b = a /\ u = "shutdown")
  BY <1>5 DEF Busy
<1>10. /\ \A b \in Apps : /\ app'[b].cmd = app[b].cmd /\ app'[b].show = app[b].show /\ app'[b].iface = app[b].iface
                          /\ app'[b].relaunching = app[b].relaunching
                          /\ app'[b].life = app[b].life \/ (b = a /\ app[b].life = "up" /\ app'[b].life = "closing")
       /\ torn \subseteq torn' /\ torn' \subseteq torn \cup {a}
  BY <1>1, <1>4, <1>6
<1>11. Follows("shutdown", r)
  BY <1>3 DEF Follows
<1>12. ThreadsFollow'
  <2> SUFFICES ASSUME NEW b \in Apps, NEW u \in Threads PROVE Follows(u, thread'[b][u])
    BY DEF ThreadsFollow
  <2>1. Follows(u, thread[b][u])
    BY DEF ThreadsFollow
  <2> QED BY <2>1, <1>5, <1>11
<1>13. Owned'
  <2> SUFFICES ASSUME NEW b \in Apps
               PROVE  IsOwn(b, app[b].cmd)' /\ \A u \in Threads : IsOwn(b, thread[b][u].pid)'
    BY DEF Owned
  <2>1. IsOwn(b, app[b].cmd) /\ \A u \in Threads : IsOwn(b, thread[b][u].pid)
    BY DEF Owned
  <2>2. \A u \in Threads : thread'[b][u].pid = thread[b][u].pid \/ thread'[b][u].pid = 0
    BY <1>3, <1>5
  <2> QED BY <2>1, <2>2, <1>1, <1>8, <1>10 DEF IsOwn
<1>14. Exclusive'
  <2> SUFFICES ASSUME NEW b \in Apps, NEW u \in Threads, NEW v \in Threads, u # v, Busy(b, u)', Busy(b, v)'
               PROVE  b \in torn' /\ ~(u \in Callers /\ v \in Callers)
    BY DEF Exclusive
  <2>1. CASE Busy(b, u) /\ Busy(b, v)
    BY <2>1, <1>10 DEF Exclusive
  <2>2. CASE ~(Busy(b, u) /\ Busy(b, v))
    <3>1. b = a /\ "shutdown" \in {u, v}
      BY <2>2, <1>9
    <3>2. PICK w \in {u, v} : w # "shutdown" /\ Busy(a, w)
      BY <3>1, <1>9
    <3>3. w = "startup" \/ app[a].relaunching
      BY <3>2 DEF LifeFits, Threads
    <3> QED BY <3>1, <3>2, <3>3, <1>1, DesktopAssumption
  <2> QED BY <2>1, <2>2
<1>15. LifeFits'
  <2> SUFFICES ASSUME NEW b \in Apps
               PROVE  /\ app'[b].life \in {"none", "gone"} => app'[b].cmd = 0 /\ \A u \in Threads : ~Busy(b, u)'
                      /\ app'[b].life \in {"none", "up"} => ~Busy(b, "shutdown")'
                      /\ app'[b].life = "none" => b \notin torn'
                      /\ app'[b].life = "none" => ~app'[b].relaunching
                      /\ \A u \in Callers : Busy(b, u)' => app'[b].relaunching
    BY DEF LifeFits
  <2>1. \A u \in Callers : u # "shutdown"
    BY DesktopAssumption
  <2>2. CASE b = a
    BY <2>1, <2>2, <1>2, <1>4, <1>6, <1>9 DEF LifeFits
  <2>3. CASE b # a
    <3>1. app'[b] = app[b] /\ (\A u \in Threads : Busy(b, u)' => Busy(b, u)) /\ (b \in torn' => b \in torn)
      BY <2>3, <1>6, <1>9, <1>10
    <3> QED BY <3>1, <1>2 DEF LifeFits
  <2> QED BY <2>2, <2>3
<1>16. Chain'
  <2> SUFFICES ASSUME NEW b \in Apps, NEW c \in Apps, b < c, app'[c].life # "none"
               PROVE  /\ app'[b].life \in {"closing", "gone"}
                      /\ \A u \in Callers : ~Busy(b, u)'
                      /\ b \notin torn' => ~Busy(b, "startup")' /\ \A p \in Alive : daemon[p].by # b
    BY <1>1, <1>8 DEF Chain
  <2>1. app[c].life # "none"
    BY <1>1, <1>10
  <2>2. /\ app[b].life \in {"closing", "gone"}
        /\ \A u \in Callers : ~Busy(b, u)
        /\ b \notin torn => ~Busy(b, "startup") /\ \A p \in Alive : daemon[p].by # b
    BY <2>1 DEF Chain
  <2>3. b # a
    BY <2>2, <1>1
  <2>4. \A u \in Callers \cup {"startup"} : Busy(b, u)' => Busy(b, u)
    BY <2>3, <1>9 DEF Threads
  <2> QED BY <2>2, <2>4, <1>1, <1>10
<1>17. Room'
  <2> SUFFICES ASSUME NEW b \in Apps, NEW u \in Threads, thread'[b][u].kind = "relaunch"
               PROVE  \E c \in Apps : app'[c].life = "none"
    BY DEF Room
  <2>1. thread[b][u].kind = "relaunch"
    BY <1>3, <1>5
  <2>2. PICK c \in Apps : app[c].life = "none"
    BY <2>1 DEF Room
  <2> QED BY <2>2, <1>10
<1>18. Held'
  <2> SUFFICES ASSUME NEW b \in Apps, b \notin torn'
               PROVE  /\ \A p \in Alive : daemon[p].by = b => app'[b].cmd = p \/ \E u \in Threads : thread'[b][u].pid = p
                      /\ app'[b].cmd \in Alive => Serves(b, app[b].cmd)'
                      /\ \A u \in Threads : /\ thread'[b][u].pc \in Childless => app'[b].cmd = 0
                                            /\ thread'[b][u].pc = "record" /\ thread'[b][u].pid \in Alive => Serves(b, thread[b][u].pid)'
    BY <1>1, <1>8 DEF Held
  <2>1. b \notin torn
    BY <1>10
  <2>2. /\ \A p \in Alive : daemon[p].by = b => app[b].cmd = p \/ \E u \in Threads : thread[b][u].pid = p
        /\ app[b].cmd \in Alive => Serves(b, app[b].cmd)
        /\ \A u \in Threads : /\ thread[b][u].pc \in Childless => app[b].cmd = 0
                              /\ thread[b][u].pc = "record" /\ thread[b][u].pid \in Alive => Serves(b, thread[b][u].pid)
    BY <2>1 DEF Held
  <2>3. \A p : Serves(b, p) => Serves(b, p)'
    BY <1>1, <1>10 DEF Serves
  <2>4. \A u \in Threads : thread'[b][u] = thread[b][u] \/ thread'[b][u].pc \notin Childless \cup {"record"}
    <3>1. r.pc \notin Childless \cup {"record"}
      BY <1>3 DEF Childless
    <3> QED BY <3>1, <1>5
  <2>5. thread[a]["shutdown"].pid = 0 /\ 0 \notin Alive
    <3>1. thread[a]["shutdown"].pid = 0
      BY <1>1, <1>2 DEF LifeFits, ThreadsFollow, Follows, Busy
    <3>2. 0 \notin Alive
      BY DesktopAssumption DEF Alive, Pids
    <3> QED BY <3>1, <3>2
  <2>6. \A p \in Alive, u \in Threads : thread[b][u].pid = p => thread'[b][u].pid = p
    BY <2>5, <1>5
  <2> QED BY <2>2, <2>3, <2>4, <2>6, <1>10
<1>19. Reverted'
  <2> SUFFICES ASSUME NEW b \in Apps, NEW u \in Threads, thread'[b][u].kind = "revert", thread'[b][u].pc \in EnsurePcs \cup {"fail"}
               PROVE  app[b].iface = thread'[b][u].iface
    BY <1>10 DEF Reverted
  <2>1. b # a \/ u # "shutdown"
    BY <1>3, <1>5
  <2> QED BY <2>1, <1>5 DEF Reverted
<1>20. OneServes'
  BY <1>8 DEF OneServes
<1> QED BY <1>7, <1>12, <1>13, <1>14, <1>15, <1>16, <1>17, <1>18, <1>19, <1>20

\* The replacement is the next process: none is after it, and there is room.
LEMMA ReplacementFacts ==
  ASSUME Types, DesktopInv, NEW a \in Apps, NEW t \in Threads, At(a, t, "launch")
  PROVE  /\ thread[a][t].kind = "relaunch" /\ t \in Callers /\ thread[a][t].pid = 0
         /\ Replacement \in Apps /\ app[Replacement].life = "none" /\ a < Replacement
         /\ \A b \in Apps : b < Replacement => b <= a
         /\ \A b \in Apps : app[b].life # "none" => b <= a
<1>1. "launch" \in Steps
  BY DEF Steps
<1>2. thread[a][t].pc = "launch" /\ Follows(t, thread[a][t]) /\ Busy(a, t) /\ app[a].life \in {"up", "closing"}
  BY <1>1, AtWork
<1>3. thread[a][t].kind = "relaunch" /\ t \in Callers /\ thread[a][t].pid = 0 /\ t # "shutdown"
  BY <1>2, DesktopAssumption DEF Follows, EnsurePcs
<1>4. {b \in Apps : app[b].life = "none"} # {}
  BY <1>3 DEF DesktopInv, Room
<1>5. Apps \subseteq Nat
  BY DesktopAssumption DEF Apps
<1>6. \E b \in Apps : app[b].life = "none" /\ \A c \in Apps : app[c].life = "none" => b <= c
  <2>1. {b \in Apps : app[b].life = "none"} \in SUBSET Nat
    BY <1>5
  <2>2. PICK n \in {b \in Apps : app[b].life = "none"} : \A m \in {b \in Apps : app[b].life = "none"} : n <= m
    BY <2>1, <1>4, LeastOf
  <2> QED BY <2>2
<1>7. Replacement \in Apps /\ app[Replacement].life = "none" /\ \A c \in Apps : app[c].life = "none" => Replacement <= c
  BY <1>6 DEF Replacement
<1>8. \A b \in Apps : app[b].life # "none" => b <= a
  <2> SUFFICES ASSUME NEW b \in Apps, app[b].life # "none", a < b PROVE FALSE
    BY <1>5
  <2> QED BY <1>2, <1>3 DEF DesktopInv, Chain
<1>9. a < Replacement
  <2> SUFFICES ASSUME Replacement < a PROVE FALSE
    BY <1>2, <1>5, <1>7
  <2> QED BY <1>2, <1>7 DEF DesktopInv, Chain
<1>10. \A b \in Apps : b < Replacement => b <= a
  BY <1>5, <1>7, <1>8
<1> QED BY <1>3, <1>7, <1>8, <1>9, <1>10

\* Of three entries of a table of tables that change, the third changes only
\* where b holds.
LEMMA UpdateWhere ==
  ASSUME NEW A, NEW B, NEW R, NEW F \in [A -> [B -> R]], NEW n \in A, NEW a \in A, n # a,
         NEW s \in B, NEW t \in B, NEW h \in B, t # h, NEW v \in R, NEW w \in R, NEW e \in R, NEW b \in BOOLEAN
  PROVE  [F EXCEPT ![n][s] = v, ![a][t] = w, ![a][h] = IF b THEN e ELSE @]
           = [F EXCEPT ![n][s] = v, ![a][t] = w, ![a][h] = IF b THEN e ELSE F[a][h]]
OBVIOUS

\* The processes and goroutines after process a launched process n
Launched(a, t, n) ==
  /\ app' = [app EXCEPT ![n] = NewApp(thread[a][t].show), ![a].life = "closing"]
  /\ thread' = [thread EXCEPT ![n]["startup"] = Starting, ![a][t] = Idle,
                              ![a]["shutdown"] = IF app[a].life = "up" THEN [Idle EXCEPT !.pc = "stop", !.kind = "shutdown"]
                                                 ELSE @]

\* What a launch changes: the replacement is up and looks for a daemon, and
\* its predecessor shuts down.
LEMMA ReplaceUpdate ==
  ASSUME Types, NEW a \in Apps, NEW t \in Callers, NEW n \in Apps, n # a, thread[a]["shutdown"] \in ThreadRecord,
         Launched(a, t, n), daemon' = daemon, down' = down, torn' = torn
  PROVE  /\ Types'
         /\ app'[n].life = "up" /\ app'[n].cmd = 0
         /\ app'[a] = [app[a] EXCEPT !.life = "closing"]
         /\ \A b \in Apps : b # n /\ b # a => app'[b] = app[b]
         /\ thread'[n]["startup"] = Starting /\ thread'[a][t] = Idle
         /\ app[a].life # "up" => thread'[a]["shutdown"] = thread[a]["shutdown"]
         /\ app[a].life = "up" => /\ thread'[a]["shutdown"].pc = "stop" /\ thread'[a]["shutdown"].kind = "shutdown"
                                  /\ thread'[a]["shutdown"].pid = 0
         /\ \A b \in Apps, u \in Threads :
              (b = n /\ u = "startup") \/ (b = a /\ u \in {t, "shutdown"}) \/ thread'[b][u] = thread[b][u]
<1> DEFINE e == [Idle EXCEPT !.pc = "stop", !.kind = "shutdown"]
           x == [app[a] EXCEPT !.life = "closing"]
           y == NewApp(thread[a][t].show)
<1>1. t # "startup" /\ t # "shutdown" /\ "startup" \in Threads /\ "shutdown" \in Threads /\ t \in Threads
  BY DesktopAssumption DEF Threads
<1>2. Idle \in ThreadRecord /\ Idle.pc = "idle" /\ Idle.kind = "none" /\ Idle.pid = 0 /\ Idle.tries = 0
  BY ConstantTypes
<1>3. Starting \in ThreadRecord
  BY <1>2 DEF Starting, ThreadRecord, EnsurePcs
<1>4. e \in ThreadRecord /\ e.pc = "stop" /\ e.kind = "shutdown" /\ e.pid = 0
  BY <1>2 DEF ThreadRecord
<1>5. app[a] \in AppRecord /\ thread[a][t] \in ThreadRecord
  BY <1>1 DEF Types
<1>6. x \in AppRecord
  BY <1>5 DEF AppRecord
<1>7. y \in AppRecord /\ y.life = "up" /\ y.cmd = 0
  <2>1. thread[a][t].show \in Shows /\ NoApp \in AppRecord /\ NoApp.cmd = 0
    BY <1>5, ConstantTypes DEF ThreadRecord, AppRecord
  <2>2. y = [NoApp EXCEPT !.life = "up", !.show = thread[a][t].show]
    BY DEF NewApp
  <2> QED BY <2>1, <2>2 DEF AppRecord
<1>8. /\ app \in [Apps -> AppRecord] /\ thread \in [Apps -> [Threads -> ThreadRecord]]
  BY DEF Types
<1>9. app' = [app EXCEPT ![n] = y, ![a].life = "closing"]
  BY DEF Launched
<1> HIDE DEF y
<1>10. /\ app' \in [Apps -> AppRecord] /\ app'[n] = y /\ app'[a] = x
       /\ \A b \in Apps : b # n /\ b # a => app'[b] = app[b]
  BY <1>6, <1>7, <1>8, <1>9
<1> DEFINE z == IF app[a].life = "up" THEN e ELSE thread[a]["shutdown"]
<1>11. thread' = [thread EXCEPT ![n]["startup"] = Starting, ![a][t] = Idle, ![a]["shutdown"] = IF app[a].life = "up" THEN e ELSE @]
  BY DEF Launched
<1> HIDE DEF e
<1>12. (app[a].life = "up") \in BOOLEAN
  OBVIOUS
<1>13. thread' = [thread EXCEPT ![n]["startup"] = Starting, ![a][t] = Idle, ![a]["shutdown"] = z]
  BY <1>1, <1>2, <1>3, <1>4, <1>8, <1>11, <1>12, UpdateWhere
<1>14. z \in ThreadRecord
  BY <1>4
<1> HIDE DEF z
<1> DEFINE T == [thread EXCEPT ![n]["startup"] = Starting]
           U == [T EXCEPT ![a][t] = Idle]
<1>15. thread' = [U EXCEPT ![a]["shutdown"] = z]
  BY <1>13
<1>16. /\ T \in [Apps -> [Threads -> ThreadRecord]] /\ T[n]["startup"] = Starting
       /\ \A c \in Apps, u \in Threads : (c = n /\ u = "startup") \/ T[c][u] = thread[c][u]
  BY <1>1, <1>3, <1>8
<1> HIDE DEF T
<1>17. /\ U \in [Apps -> [Threads -> ThreadRecord]] /\ U[a][t] = Idle
       /\ \A c \in Apps, u \in Threads : (c = a /\ u = t) \/ U[c][u] = T[c][u]
  BY <1>1, <1>2, <1>16
<1> HIDE DEF U
<1>18. /\ thread' \in [Apps -> [Threads -> ThreadRecord]] /\ thread'[a]["shutdown"] = z
       /\ \A c \in Apps, u \in Threads : (c = a /\ u = "shutdown") \/ thread'[c][u] = U[c][u]
  BY <1>1, <1>14, <1>15, <1>17
<1>19. /\ thread' \in [Apps -> [Threads -> ThreadRecord]] /\ thread'[n]["startup"] = Starting /\ thread'[a][t] = Idle
       /\ thread'[a]["shutdown"] = z
       /\ \A c \in Apps, u \in Threads :
            (c = n /\ u = "startup") \/ (c = a /\ u \in {t, "shutdown"}) \/ thread'[c][u] = thread[c][u]
  BY <1>1, <1>16, <1>17, <1>18
<1>20. /\ thread' \in [Apps -> [Threads -> ThreadRecord]] /\ thread'[n]["startup"] = Starting /\ thread'[a][t] = Idle
       /\ thread'[a]["shutdown"] = IF app[a].life = "up" THEN e ELSE thread[a]["shutdown"]
       /\ \A c \in Apps, u \in Threads :
            (c = n /\ u = "startup") \/ (c = a /\ u \in {t, "shutdown"}) \/ thread'[c][u] = thread[c][u]
  BY <1>19 DEF z
<1>21. Types'
  BY <1>10, <1>20 DEF Types
<1>22. /\ app[a].life # "up" => thread'[a]["shutdown"] = thread[a]["shutdown"]
       /\ app[a].life = "up" => /\ thread'[a]["shutdown"].pc = "stop" /\ thread'[a]["shutdown"].kind = "shutdown"
                                /\ thread'[a]["shutdown"].pid = 0
  BY <1>4, <1>20
<1> QED BY <1>7, <1>10, <1>20, <1>21, <1>22

\* The replacement starts, and its predecessor, which has no daemon left, goes
\* on to its own shutdown.
LEMMA ReplaceInv ==
  ASSUME Types, DesktopInv, NEW a \in Apps, NEW t \in Threads, At(a, t, "launch"), NEW n \in Apps, n = Replacement,
         Types', daemon' = daemon, torn' = torn,
         app'[n].life = "up" /\ app'[n].cmd = 0,
         app'[a] = [app[a] EXCEPT !.life = "closing"],
         \A b \in Apps : b # n /\ b # a => app'[b] = app[b],
         thread'[n]["startup"] = Starting /\ thread'[a][t] = Idle,
         app[a].life # "up" => thread'[a]["shutdown"] = thread[a]["shutdown"],
         app[a].life = "up" => /\ thread'[a]["shutdown"].pc = "stop" /\ thread'[a]["shutdown"].kind = "shutdown"
                               /\ thread'[a]["shutdown"].pid = 0,
         \A b \in Apps, u \in Threads :
           (b = n /\ u = "startup") \/ (b = a /\ u \in {t, "shutdown"}) \/ thread'[b][u] = thread[b][u]
  PROVE  DesktopInv'
<1> USE DEF DesktopInv
<1>1. /\ thread[a][t].kind = "relaunch" /\ t \in Callers /\ thread[a][t].pid = 0
      /\ app[n].life = "none" /\ a < n /\ a # n
      /\ \A b \in Apps : b < n => b <= a
      /\ \A b \in Apps : app[b].life # "none" => b <= a
  <2>1. /\ thread[a][t].kind = "relaunch" /\ t \in Callers /\ thread[a][t].pid = 0
        /\ app[n].life = "none" /\ a < n
        /\ \A b \in Apps : b < n => b <= a
        /\ \A b \in Apps : app[b].life # "none" => b <= a
    BY ReplacementFacts
  <2>2. a # n
    BY <2>1, DesktopAssumption DEF Apps
  <2> QED BY <2>1, <2>2
<1>2. "launch" \in Steps /\ "launch" \in Childless
  BY DEF Steps, Childless
<1>3. /\ thread[a][t] \in ThreadRecord /\ app[a] \in AppRecord
      /\ Busy(a, t) /\ app[a].life \in {"up", "closing"} /\ thread[a][t].pc = "launch" /\ 0 \notin Alive
      /\ a \notin torn => app[a].cmd = 0
  BY <1>2, AtWork
<1>4. t # "startup" /\ t # "shutdown" /\ "startup" \in Threads /\ "shutdown" \in Threads /\ \A u \in Callers : u \in Threads
  BY <1>1, DesktopAssumption DEF Threads
<1>5. Idle.pc = "idle" /\ Idle.kind = "none" /\ Idle.pid = 0
  BY ConstantTypes
<1>6. Starting.pc = "dial" /\ Starting.kind = "startup" /\ Starting.pid = 0
  BY ConstantTypes DEF Starting, ThreadRecord, EnsurePcs
<1>7. \/ thread'[a]["shutdown"] = thread[a]["shutdown"] /\ app[a].life = "closing"
      \/ /\ thread'[a]["shutdown"].pc = "stop" /\ thread'[a]["shutdown"].kind = "shutdown"
         /\ thread'[a]["shutdown"].pid = 0 /\ app[a].life = "up"
  BY <1>3
<1>8. app'[a].life = "closing" /\ app'[a].cmd = app[a].cmd /\ app'[a].relaunching = app[a].relaunching
  BY <1>3 DEF AppRecord
<1>9. Alive' = Alive /\ Serving' = Serving
  BY DEF Alive, Serving
<1>10. \A u \in Threads : ~Busy(n, u)
  BY <1>1 DEF LifeFits
<1>11. /\ \A u \in Callers : ~Busy(a, u)'
       /\ a \notin torn => ~Busy(a, "startup")'
  <2> SUFFICES ASSUME NEW u \in Threads, u # "shutdown", u # t, Busy(a, u)' PROVE a \in torn /\ u \notin Callers
    BY <1>5, <1>1, <1>4, DesktopAssumption DEF Busy
  <2>1. Busy(a, u)
    BY <1>1 DEF Busy
  <2> QED BY <2>1, <1>1, <1>3, <1>4 DEF Exclusive
<1>12. \A b \in Apps, u \in Threads : Busy(b, u)' => Busy(b, u) \/ (b = n /\ u = "startup") \/ (b = a /\ u = "shutdown")
  BY <1>5, <1>1, <1>4 DEF Busy
<1>13. Follows("shutdown", thread'[a]["shutdown"])
  BY <1>4, <1>7 DEF ThreadsFollow, Follows
<1>14. Follows("startup", Starting) /\ Follows(t, Idle)
  BY <1>5, <1>6 DEF Follows, EnsurePcs
<1>15. ThreadsFollow'
  <2> SUFFICES ASSUME NEW b \in Apps, NEW u \in Threads PROVE Follows(u, thread'[b][u])
    BY DEF ThreadsFollow
  <2>1. Follows(u, thread[b][u])
    BY DEF ThreadsFollow
  <2> QED BY <2>1, <1>1, <1>13, <1>14
<1>16. \A b \in Apps : app'[b].cmd = app[b].cmd
  BY <1>1, <1>8 DEF LifeFits
<1>17. \A b \in Apps, u \in Threads : thread'[b][u].pid = thread[b][u].pid \/ thread'[b][u].pid = 0
  BY <1>5, <1>6, <1>7
<1>18. Owned'
  <2> SUFFICES ASSUME NEW b \in Apps
               PROVE  IsOwn(b, app[b].cmd)' /\ \A u \in Threads : IsOwn(b, thread[b][u].pid)'
    BY DEF Owned
  <2>1. IsOwn(b, app[b].cmd) /\ \A u \in Threads : IsOwn(b, thread[b][u].pid)
    BY DEF Owned
  <2> QED BY <2>1, <1>9, <1>16, <1>17 DEF IsOwn
<1>19. Exclusive'
  <2> SUFFICES ASSUME NEW b \in Apps, NEW u \in Threads, NEW v \in Threads, u # v, Busy(b, u)', Busy(b, v)'
               PROVE  b \in torn /\ ~(u \in Callers /\ v \in Callers)
    BY DEF Exclusive
  <2>1. CASE b = a
    BY <2>1, <1>11 DEF Threads
  <2>2. b # n
    BY <1>10, <1>12, <1>1
  <2>3. CASE b # a
    BY <1>12, <2>2, <2>3 DEF Exclusive
  <2> QED BY <2>1, <2>3
<1>20. LifeFits'
  <2> SUFFICES ASSUME NEW b \in Apps
               PROVE  /\ app'[b].life \in {"none", "gone"} => app'[b].cmd = 0 /\ \A u \in Threads : ~Busy(b, u)'
                      /\ app'[b].life \in {"none", "up"} => ~Busy(b, "shutdown")'
                      /\ app'[b].life = "none" => b \notin torn
                      /\ app'[b].life = "none" => ~app'[b].relaunching
                      /\ \A u \in Callers : Busy(b, u)' => app'[b].relaunching
    BY DEF LifeFits
  <2>1. \A u \in Callers : u # "shutdown" /\ u # "startup"
    BY DesktopAssumption
  <2>2. CASE b = a
    BY <2>1, <2>2, <1>4, <1>8, <1>11
  <2>3. CASE b = n
    <3>1. \A u \in Callers \cup {"shutdown"} : ~Busy(n, u)'
      BY <1>10, <1>12, <1>1, <1>4, <2>1
    <3>2. n \notin torn
      BY <1>1 DEF LifeFits
    <3> QED BY <2>3, <3>1, <3>2
  <2>4. CASE b # a /\ b # n
    <3>1. app'[b] = app[b] /\ \A u \in Threads : Busy(b, u)' => Busy(b, u)
      BY <2>4, <1>12
    <3> QED BY <3>1, <1>4 DEF LifeFits
  <2> QED BY <2>2, <2>3, <2>4
<1>21. Chain'
  <2> SUFFICES ASSUME NEW b \in Apps, NEW c \in Apps, b < c, app'[c].life # "none"
               PROVE  /\ app'[b].life \in {"closing", "gone"}
                      /\ \A u \in Callers : ~Busy(b, u)'
                      /\ b \notin torn => ~Busy(b, "startup")' /\ \A p \in Alive : daemon[p].by # b
    BY <1>9 DEF Chain
  <2>1. Apps \subseteq Nat
    BY DesktopAssumption DEF Apps
  <2>2. c <= n
    BY <2>1, <1>1
  <2>3. b <= a /\ b # n
    BY <2>1, <2>2, <1>1
  <2>4. CASE b = a
    <3>1. app'[a].life = "closing"
      BY <1>8
    <3>2. ASSUME a \notin torn PROVE \A p \in Alive : daemon[p].by # a
      <4>1. app[a].cmd = 0
        BY <3>2, <1>3
      <4>2. \A u \in Threads : thread[a][u].pid = 0
        <5> SUFFICES ASSUME NEW u \in Threads, u # t PROVE thread[a][u].pid = 0
          BY <1>1
        <5>1. ~Busy(a, u)
          BY <3>2, <1>3 DEF Exclusive
        <5> QED BY <5>1 DEF ThreadsFollow, Follows, Busy
      <4> QED BY <3>2, <4>1, <4>2, <1>3 DEF Held
    <3> QED BY <2>4, <3>1, <3>2, <1>11
  <2>5. CASE b < a
    <3>1. /\ app[b].life \in {"closing", "gone"}
          /\ \A u \in Callers : ~Busy(b, u)
          /\ b \notin torn => ~Busy(b, "startup") /\ \A p \in Alive : daemon[p].by # b
      BY <2>5, <1>3 DEF Chain
    <3>2. b # a
      BY <2>1, <2>5
    <3>3. app'[b] = app[b] /\ \A u \in Threads : Busy(b, u)' => Busy(b, u)
      BY <2>3, <3>2, <1>12
    <3>4. \A u \in Callers \cup {"startup"} : Busy(b, u)' => Busy(b, u)
      BY <3>3, <1>4
    <3> QED BY <3>1, <3>3, <3>4
  <2> QED BY <2>1, <2>3, <2>4, <2>5
<1>22. Room'
  <2> SUFFICES ASSUME NEW b \in Apps, NEW u \in Threads, thread'[b][u].kind = "relaunch"
               PROVE  FALSE
    BY DEF Room
  <2>1. Apps \subseteq Nat
    BY DesktopAssumption DEF Apps
  <2>2. thread'[b][u].pc # "idle" /\ u \in Callers
    BY <1>15 DEF ThreadsFollow, Follows, EnsurePcs
  <2>3. u # "shutdown" /\ u # "startup"
    BY <2>2, DesktopAssumption
  <2>4. b # a
    BY <2>2, <2>3, <1>11 DEF Busy
  <2>5. Busy(b, u) /\ b # n
    BY <2>2, <2>3, <2>4, <1>10, <1>12 DEF Busy
  <2>6. app[b].life # "none"
    BY <2>5 DEF LifeFits
  <2>7. b < a
    BY <2>1, <2>4, <2>6, <1>1
  <2>8. app[a].life # "none"
    BY <1>3
  <2>9. ~Busy(b, u)
    BY <2>2, <2>7, <2>8 DEF Chain
  <2> QED BY <2>5, <2>9
<1>23. Held'
  <2> SUFFICES ASSUME NEW b \in Apps, b \notin torn
               PROVE  /\ \A p \in Alive : daemon[p].by = b => app'[b].cmd = p \/ \E u \in Threads : thread'[b][u].pid = p
                      /\ app'[b].cmd \in Alive => Serves(b, app[b].cmd)'
                      /\ \A u \in Threads : /\ thread'[b][u].pc \in Childless => app'[b].cmd = 0
                                            /\ thread'[b][u].pc = "record" /\ thread'[b][u].pid \in Alive => Serves(b, thread[b][u].pid)'
    BY <1>9 DEF Held
  <2>1. /\ \A p \in Alive : daemon[p].by = b => app[b].cmd = p \/ \E u \in Threads : thread[b][u].pid = p
        /\ app[b].cmd \in Alive => Serves(b, app[b].cmd)
        /\ \A u \in Threads : /\ thread[b][u].pc \in Childless => app[b].cmd = 0
                              /\ thread[b][u].pc = "record" /\ thread[b][u].pid \in Alive => Serves(b, thread[b][u].pid)
    BY DEF Held
  <2>2. CASE b = a
    <3>1. app[a].cmd = 0 /\ app'[a].cmd = 0
      BY <2>2, <1>3, <1>16
    <3>2. \A u \in Threads : thread[a][u].pid = 0
      <4> SUFFICES ASSUME NEW u \in Threads, u # t PROVE thread[a][u].pid = 0
        BY <1>1
      <4>1. ~Busy(a, u)
        BY <2>2, <1>3 DEF Exclusive
      <4> QED BY <4>1 DEF ThreadsFollow, Follows, Busy
    <3>3. \A u \in Threads : thread'[a][u].pid = 0
      BY <3>2, <1>17
    <3>4. \A p \in Alive : daemon[p].by # a
      BY <2>1, <2>2, <3>1, <3>2, <1>3
    <3> QED BY <2>2, <3>1, <3>3, <3>4, <1>3
  <2>3. CASE b = n
    <3>1. app[n].cmd = 0 /\ app'[n].cmd = 0
      BY <1>16
    <3>2. \A u \in Threads : thread[n][u].pid = 0
      BY <1>10 DEF ThreadsFollow, Follows, Busy
    <3>3. \A u \in Threads : thread'[n][u].pid = 0
      BY <3>2, <1>17
    <3> QED BY <2>1, <2>3, <3>1, <3>2, <3>3, <1>3
  <2>4. CASE b # a /\ b # n
    <3>1. app'[b] = app[b] /\ \A u \in Threads : thread'[b][u] = thread[b][u]
      BY <2>4
    <3>2. \A p : Serves(b, p) => Serves(b, p)'
      BY <3>1 DEF Serves
    <3> QED BY <2>1, <3>1, <3>2
  <2> QED BY <2>2, <2>3, <2>4
<1>24. Reverted'
  <2> SUFFICES ASSUME NEW b \in Apps, NEW u \in Threads, thread'[b][u].kind = "revert", thread'[b][u].pc \in EnsurePcs \cup {"fail"}
               PROVE  app'[b].iface = thread'[b][u].iface
    BY DEF Reverted
  <2>1. u \in Callers /\ Busy(b, u)'
    BY <1>15 DEF ThreadsFollow, Follows, EnsurePcs, Busy
  <2>2. u # "shutdown" /\ u # "startup"
    BY <2>1, DesktopAssumption
  <2>3. b # a
    BY <2>1, <2>2, <1>11
  <2>4. thread'[b][u] = thread[b][u] /\ Busy(b, u)
    BY <2>1, <2>2, <2>3, <1>12
  <2>5. b # n
    BY <2>4, <1>10
  <2> QED BY <2>3, <2>4, <2>5 DEF Reverted
<1>25. OneServes'
  BY <1>9 DEF OneServes
<1> QED BY <1>15, <1>18, <1>19, <1>20, <1>21, <1>22, <1>23, <1>24, <1>25

\* The replacement does not start: the daemon is brought back.
LEMMA LaunchInv ==
  ASSUME Types, DesktopInv, NEW a \in Apps, NEW t \in Threads, Launch(a, t)
  PROVE  Types' /\ DesktopInv'
<1>1. At(a, t, "launch") /\ "launch" \in Steps /\ daemon' = daemon /\ down' = down /\ torn' = torn
  BY DEF Launch, Steps
<1>2. CASE Goto(a, t, "dial") /\ app' = app
  <2>1. thread[a][t] \in ThreadRecord /\ thread[a][t].pc = "launch" /\ Follows(t, thread[a][t])
    BY <1>1, AtWork
  <2> DEFINE r == [thread[a][t] EXCEPT !.pc = "dial"]
  <2>2. r \in ThreadRecord /\ r.pc = "dial" /\ r.kind = thread[a][t].kind /\ r.pid = thread[a][t].pid
    BY <2>1 DEF ThreadRecord, EnsurePcs
  <2>3. Follows(t, r) /\ r.pid = 0 /\ thread[a][t].pid = 0 /\ r.kind = "relaunch"
    BY <2>1, <2>2 DEF Follows, EnsurePcs
  <2>4. thread' = [thread EXCEPT ![a][t] = r]
    BY <1>2 DEF Goto
  <2>5. "launch" \in Childless /\ r.pc # "record"
    BY <2>2 DEF Childless
  <2> HIDE DEF r
  <2> QED BY <1>1, <1>2, <2>2, <2>3, <2>4, <2>5, GotoInv
<1>3. CASE ~(Goto(a, t, "dial") /\ app' = app)
  <2>1. /\ app' = [app EXCEPT ![Replacement] = NewApp(thread[a][t].show), ![a].life = "closing"]
        /\ thread' = [thread EXCEPT ![Replacement]["startup"] = Starting, ![a][t] = Idle,
                                    ![a]["shutdown"] = IF app[a].life = "up" THEN [Idle EXCEPT !.pc = "stop", !.kind = "shutdown"]
                                                       ELSE @]
    BY <1>3, Zenon DEF Launch
  <2>2. PICK n \in Apps : n = Replacement
    BY <1>1, ReplacementFacts
  <2>3. n # a /\ t \in Callers /\ thread[a]["shutdown"] \in ThreadRecord
    <3>1. a < n /\ t \in Callers
      BY <1>1, <2>2, ReplacementFacts
    <3> QED BY <3>1, DesktopAssumption DEF Apps, Types, Threads
  <2>4. Launched(a, t, n)
    BY <2>1, <2>2 DEF Launched
  <2>5. /\ Types'
        /\ app'[n].life = "up" /\ app'[n].cmd = 0
        /\ app'[a] = [app[a] EXCEPT !.life = "closing"]
        /\ \A b \in Apps : b # n /\ b # a => app'[b] = app[b]
        /\ thread'[n]["startup"] = Starting /\ thread'[a][t] = Idle
        /\ app[a].life # "up" => thread'[a]["shutdown"] = thread[a]["shutdown"]
        /\ app[a].life = "up" => /\ thread'[a]["shutdown"].pc = "stop" /\ thread'[a]["shutdown"].kind = "shutdown"
                                 /\ thread'[a]["shutdown"].pid = 0
        /\ \A b \in Apps, u \in Threads :
             (b = n /\ u = "startup") \/ (b = a /\ u \in {t, "shutdown"}) \/ thread'[b][u] = thread[b][u]
    BY <1>1, <2>3, <2>4, ReplaceUpdate
  <2>6. DesktopInv'
    BY <1>1, <2>2, <2>5, ReplaceInv
  <2> QED BY <2>5, <2>6
<1> QED BY <1>2, <1>3

\* A process ends: it has no child left, unless its shutdown tore a switch.
LEMMA ExitInv ==
  ASSUME Types, DesktopInv, NEW a \in Apps, Exit(a)
  PROVE  Types' /\ DesktopInv'
<1> DEFINE x == [NoApp EXCEPT !.life = "gone"]
<1> USE DEF DesktopInv
<1>1. /\ At(a, "shutdown", "exit") /\ "exit" \in Steps /\ daemon' = daemon /\ down' = down /\ torn' = torn
      /\ app' = [app EXCEPT ![a] = x] /\ thread' = [thread EXCEPT ![a] = [u \in Threads |-> Idle]]
  BY DEF Exit, Steps
<1>2. "shutdown" \in Threads /\ \A u \in Callers : u \in Threads
  BY DEF Threads
<1>3. /\ thread[a]["shutdown"].pc = "exit" /\ Busy(a, "shutdown") /\ app[a].life \in {"up", "closing"} /\ 0 \notin Alive
      /\ a \notin torn => ("exit" \in Childless => app[a].cmd = 0)
      /\ Follows("shutdown", thread[a]["shutdown"])
  BY <1>1, <1>2, AtWork
<1>4. Idle \in ThreadRecord /\ Idle.pc = "idle" /\ Idle.kind = "none" /\ Idle.pid = 0
  BY ConstantTypes
<1>5. x \in AppRecord /\ x.life = "gone" /\ x.cmd = 0 /\ ~x.relaunching
  <2>1. /\ NoApp \in AppRecord
        /\ NoApp = [life |-> "none", show |-> NoApp.show, iface |-> NoApp.iface, cmd |-> 0, unreachable |-> FALSE, relaunching |-> FALSE]
    BY ConstantTypes
  <2> QED BY <2>1 DEF AppRecord
<1> HIDE DEF x
<1>6. /\ app' \in [Apps -> AppRecord] /\ app'[a] = x /\ \A b \in Apps : b # a => app'[b] = app[b]
  BY <1>1, <1>5 DEF Types
<1>7. /\ thread' \in [Apps -> [Threads -> ThreadRecord]] /\ \A u \in Threads : thread'[a][u] = Idle
      /\ \A b \in Apps, u \in Threads : b # a => thread'[b][u] = thread[b][u]
  BY <1>1, <1>4 DEF Types
<1>8. Types'
  BY <1>1, <1>6, <1>7 DEF Types
<1>9. Alive' = Alive /\ Serving' = Serving
  BY <1>1 DEF Alive, Serving
<1>10. \A b \in Apps, u \in Threads : Busy(b, u)' => b # a /\ Busy(b, u)
  BY <1>4, <1>7 DEF Busy
<1>11. a \notin torn => \A p \in Alive : daemon[p].by # a
  <2> SUFFICES ASSUME a \notin torn PROVE \A p \in Alive : daemon[p].by # a
    OBVIOUS
  <2>1. app[a].cmd = 0
    BY <1>3 DEF Childless
  <2>2. \A u \in Threads : u # "shutdown" => ~Busy(a, u)
    BY <1>2, <1>3 DEF Exclusive
  <2>3. \A u \in Threads : thread[a][u].pid = 0
    BY <1>3, <2>2 DEF ThreadsFollow, Follows, Busy
  <2> QED BY <2>1, <2>3, <1>3 DEF Held
<1>12. ThreadsFollow'
  BY <1>4, <1>7 DEF ThreadsFollow, Follows
<1>13. Owned'
  <2> SUFFICES ASSUME NEW b \in Apps
               PROVE  IsOwn(b, app[b].cmd)' /\ \A u \in Threads : IsOwn(b, thread[b][u].pid)'
    BY DEF Owned
  <2>1. IsOwn(b, app[b].cmd) /\ \A u \in Threads : IsOwn(b, thread[b][u].pid)
    BY DEF Owned
  <2>2. CASE b = a
    BY <2>2, <1>4, <1>5, <1>6, <1>7 DEF IsOwn
  <2>3. CASE b # a
    BY <2>1, <2>3, <1>1, <1>6, <1>7, <1>9 DEF IsOwn
  <2> QED BY <2>2, <2>3
<1>14. Exclusive'
  BY <1>1, <1>10 DEF Exclusive
<1>15. LifeFits'
  <2> SUFFICES ASSUME NEW b \in Apps
               PROVE  /\ app'[b].life \in {"none", "gone"} => app'[b].cmd = 0 /\ \A u \in Threads : ~Busy(b, u)'
                      /\ app'[b].life \in {"none", "up"} => ~Busy(b, "shutdown")'
                      /\ app'[b].life = "none" => b \notin torn'
                      /\ app'[b].life = "none" => ~app'[b].relaunching
                      /\ \A u \in Callers : Busy(b, u)' => app'[b].relaunching
    BY DEF LifeFits
  <2>1. CASE b = a
    BY <2>1, <1>2, <1>5, <1>6, <1>10
  <2>2. CASE b # a
    BY <2>2, <1>1, <1>2, <1>6, <1>10 DEF LifeFits
  <2> QED BY <2>1, <2>2
<1>16. Chain'
  <2> SUFFICES ASSUME NEW b \in Apps, NEW c \in Apps, b < c, app'[c].life # "none"
               PROVE  /\ app'[b].life \in {"closing", "gone"}
                      /\ \A u \in Callers : ~Busy(b, u)'
                      /\ b \notin torn' => ~Busy(b, "startup")' /\ \A p \in Alive : daemon[p].by # b
    BY <1>1, <1>9 DEF Chain
  <2>1. app[c].life # "none"
    BY <1>3, <1>6
  <2>2. /\ app[b].life \in {"closing", "gone"}
        /\ \A u \in Callers : ~Busy(b, u)
        /\ b \notin torn => ~Busy(b, "startup") /\ \A p \in Alive : daemon[p].by # b
    BY <2>1 DEF Chain
  <2>3. \A u \in Callers \cup {"startup"} : Busy(b, u)' => Busy(b, u)
    BY <1>10 DEF Threads
  <2>4. app'[b].life \in {"closing", "gone"}
    BY <2>2, <1>5, <1>6
  <2> QED BY <2>2, <2>3, <2>4, <1>1
<1>17. Room'
  <2> SUFFICES ASSUME NEW b \in Apps, NEW u \in Threads, thread'[b][u].kind = "relaunch"
               PROVE  \E c \in Apps : app'[c].life = "none"
    BY DEF Room
  <2>1. thread[b][u].kind = "relaunch"
    BY <1>4, <1>7
  <2>2. PICK c \in Apps : app[c].life = "none"
    BY <2>1 DEF Room
  <2> QED BY <2>2, <1>3, <1>6
<1>18. Held'
  <2> SUFFICES ASSUME NEW b \in Apps, b \notin torn
               PROVE  /\ \A p \in Alive : daemon[p].by = b => app'[b].cmd = p \/ \E u \in Threads : thread'[b][u].pid = p
                      /\ app'[b].cmd \in Alive => Serves(b, app[b].cmd)'
                      /\ \A u \in Threads : /\ thread'[b][u].pc \in Childless => app'[b].cmd = 0
                                            /\ thread'[b][u].pc = "record" /\ thread'[b][u].pid \in Alive => Serves(b, thread[b][u].pid)'
    BY <1>1, <1>9 DEF Held
  <2>1. /\ \A p \in Alive : daemon[p].by = b => app[b].cmd = p \/ \E u \in Threads : thread[b][u].pid = p
        /\ app[b].cmd \in Alive => Serves(b, app[b].cmd)
        /\ \A u \in Threads : /\ thread[b][u].pc \in Childless => app[b].cmd = 0
                              /\ thread[b][u].pc = "record" /\ thread[b][u].pid \in Alive => Serves(b, thread[b][u].pid)
    BY DEF Held
  <2>2. CASE b = a
    <3>1. Idle.pc \notin Childless \cup {"record"}
      BY <1>4 DEF Childless
    <3> QED BY <3>1, <2>2, <1>3, <1>5, <1>6, <1>7, <1>11
  <2>3. CASE b # a
    <3>1. app'[b] = app[b] /\ \A u \in Threads : thread'[b][u] = thread[b][u]
      BY <2>3, <1>6, <1>7
    <3>2. \A p : Serves(b, p) => Serves(b, p)'
      BY <3>1, <1>1 DEF Serves
    <3> QED BY <2>1, <3>1, <3>2
  <2> QED BY <2>2, <2>3
<1>19. Reverted'
  <2> SUFFICES ASSUME NEW b \in Apps, NEW u \in Threads, thread'[b][u].kind = "revert", thread'[b][u].pc \in EnsurePcs \cup {"fail"}
               PROVE  app'[b].iface = thread'[b][u].iface
    BY DEF Reverted
  <2>1. b # a
    BY <1>4, <1>7
  <2> QED BY <2>1, <1>6, <1>7 DEF Reverted
<1>20. OneServes'
  BY <1>9 DEF OneServes
<1> QED BY <1>8, <1>12, <1>13, <1>14, <1>15, <1>16, <1>17, <1>18, <1>19, <1>20

\* Every step of a goroutine keeps the invariant.
LEMMA StepInv ==
  ASSUME Types, DesktopInv, NEW a \in Apps, NEW t \in Threads, Step(a, t)
  PROVE  Types' /\ DesktopInv'
<1>1. CASE stopSupervisedDaemon(a, t)
  BY <1>1, StopInv
<1>2. CASE Kill(a, t)
  BY <1>2, KillInv
<1>3. CASE ensureDaemon(a, t)
  BY <1>3, EnsureInv
<1>4. CASE defaultSpawn(a, t)
  BY <1>4, SpawnInv
<1>5. CASE SpawnFails(a, t)
  BY <1>5, SpawnFailsInv
<1>6. CASE Supervise(a, t)
  BY <1>6, SuperviseInv
<1>7. CASE Retry(a, t)
  BY <1>7, RetryInv
<1>8. CASE SaveShow(a, t)
  BY <1>8, SaveShowInv
<1>9. CASE Launch(a, t)
  BY <1>9, LaunchInv
<1>10. CASE switchDaemonInterface(a, t)
  BY <1>10, SwitchInv
<1>11. CASE Report(a, t)
  BY <1>11, ReportInv
<1>12. CASE Fail(a, t)
  BY <1>12, FailInv
<1> QED BY <1>1, <1>2, <1>3, <1>4, <1>5, <1>6, <1>7, <1>8, <1>9, <1>10, <1>11, <1>12 DEF Step

\* So does every step of the system.
LEMMA NextInv == Types /\ DesktopInv /\ [Next]_vars => Types' /\ DesktopInv'
<1> SUFFICES ASSUME Types, DesktopInv, [Next]_vars PROVE Types' /\ DesktopInv'
  OBVIOUS
<1>1. CASE External
  BY <1>1, ExternalInv
<1>2. CASE InterfaceChanges
  <2>1. /\ app' = app /\ thread' = thread /\ daemon' = daemon /\ torn' = torn
        /\ \E i \in Interfaces : down' = IF i \in down THEN down \ {i} ELSE down \cup {i}
    BY <1>2 DEF InterfaceChanges
  <2>2. Types'
    BY <2>1 DEF Types
  <2>3. Alive' = Alive /\ Serving' = Serving
    BY <2>1 DEF Alive, Serving
  <2>4. DesktopInv'
    <3>1. OneServes'
      BY <2>3 DEF DesktopInv, OneServes
    <3>2. \A p \in Alive' : p \in Alive /\ daemon'[p].by = daemon[p].by /\ daemon'[p].show = daemon[p].show /\ daemon'[p].iface = daemon[p].iface
      BY <2>1, <2>3
    <3> QED BY <2>1, <3>1, <3>2, DaemonStep
  <2> QED BY <2>2, <2>4
<1>3. ASSUME NEW p \in Pids, Run(p) \/ Dies(p) \/ pollInterfaceLoss(p)
      PROVE  Types' /\ DesktopInv'
  BY <1>3, RunInv
<1>4. ASSUME NEW a \in Apps, OnShutdown(a)
      PROVE  Types' /\ DesktopInv'
  BY <1>4, ShutdownInv
<1>5. ASSUME NEW a \in Apps, Exit(a)
      PROVE  Types' /\ DesktopInv'
  BY <1>5, ExitInv
<1>6. ASSUME NEW a \in Apps, NEW t \in Threads, Step(a, t)
      PROVE  Types' /\ DesktopInv'
  BY <1>6, StepInv
<1>7. ASSUME NEW a \in Apps, NEW t \in Callers, NEW s \in Shows, RelaunchWithShow(a, t, s)
      PROVE  Types' /\ DesktopInv'
  <2>1. app[a].iface \in Interfaces
    BY DEF Types, AppRecord
  <2>2. ~app[a].relaunching /\ (\E b \in Apps : app[b].life = "none") /\ Switch(a, t, "relaunch", "save", s, app[a].iface)
    BY <1>7 DEF RelaunchWithShow
  <2> QED BY <2>1, <2>2, SwitchStarts
<1>8. ASSUME NEW a \in Apps, NEW t \in Callers, NEW i \in Interfaces, SelectInterface(a, t, i)
      PROVE  Types' /\ DesktopInv'
  <2>1. app[a].show \in Shows
    BY DEF Types, AppRecord
  <2>2. ~app[a].relaunching /\ Switch(a, t, "select", "stop", app[a].show, i)
    BY <1>8 DEF SelectInterface
  <2> QED BY <2>1, <2>2, SwitchStarts
<1>9. CASE UNCHANGED vars
  <2>1. app' = app /\ thread' = thread /\ daemon' = daemon /\ torn' = torn /\ down' = down
    BY <1>9 DEF vars
  <2> QED BY <2>1 DEF Types, DesktopInv, ThreadsFollow, Owned, IsOwn, Exclusive, LifeFits, Chain, Room, Held, Serves, Reverted, OneServes,
                      Busy, Alive, Serving
<1> QED BY <1>1, <1>2, <1>3, <1>4, <1>5, <1>6, <1>7, <1>8, <1>9 DEF Next

\* The invariant says what the run checks.
LEMMA InvImpliesCurrent == Types /\ DesktopInv => DaemonsAreCurrent
<1> SUFFICES ASSUME Types, DesktopInv PROVE DaemonsAreCurrent
  OBVIOUS
<1> USE DEF DesktopInv
<1>1. TypeOK
  <2>1. ASSUME NEW a \in Apps
        PROVE  /\ app[a].life \in {"none", "up", "closing", "gone"} /\ app[a].cmd \in Pids \cup {0}
               /\ app[a].show \in Shows /\ app[a].iface \in Interfaces
               /\ app[a].cmd \in Alive => daemon[app[a].cmd].by = a
               /\ \A t \in Threads : thread[a][t].tries < Retries /\ thread[a][t].iface \in Interfaces
    <3>1. app[a] \in AppRecord /\ \A t \in Threads : thread[a][t] \in ThreadRecord
      BY DEF Types
    <3>2. MaxDaemons \in Nat /\ Retries \in Nat
      BY DesktopAssumption
    <3>3. app[a].cmd \in Pids \cup {0}
      BY <3>1, <3>2 DEF AppRecord, Pids
    <3>4. \A t \in Threads : thread[a][t].tries < Retries /\ thread[a][t].iface \in Interfaces
      <4> SUFFICES ASSUME NEW t \in Threads PROVE thread[a][t].tries < Retries /\ thread[a][t].iface \in Interfaces
        OBVIOUS
      <4>1. thread[a][t].tries \in 0..(Retries - 1) /\ thread[a][t].iface \in Interfaces
        BY <3>1 DEF ThreadRecord
      <4> QED BY <4>1, <3>2
    <3>5. app[a].cmd \in Alive => daemon[app[a].cmd].by = a
      <4>1. 0 \notin Alive
        BY <3>2 DEF Alive, Pids
      <4> QED BY <4>1 DEF Owned, IsOwn
    <3> QED BY <3>1, <3>3, <3>4, <3>5 DEF AppRecord
  <2>2. Cardinality(Serving) <= 1
    <3>1. CASE Serving = {}
      BY <3>1, FS_EmptySet
    <3>2. CASE Serving # {}
      <4>1. PICK p \in Serving : TRUE
        BY <3>2
      <4>2. Serving = {p}
        BY <4>1 DEF OneServes
      <4> QED BY <4>2, FS_Singleton
    <3> QED BY <3>1, <3>2
  <2> QED BY <2>1, <2>2 DEF TypeOK, Types
<1>2. SupervisedDaemonIsCurrent
  BY DEF SupervisedDaemonIsCurrent, LifeFits, Held, Serves
<1>3. ReplacementFindsNoPredecessor
  BY DEF ReplacementFindsNoPredecessor, Chain
<1>4. NoOrphan
  <2> SUFFICES ASSUME NEW a \in Apps, app[a].life = "gone", a \notin torn, NEW p \in Alive, daemon[p].by = a
               PROVE  FALSE
    BY DEF NoOrphan
  <2>1. app[a].cmd = 0 /\ \A t \in Threads : ~Busy(a, t)
    BY DEF LifeFits
  <2>2. \A t \in Threads : thread[a][t].pid = 0
    BY <2>1 DEF ThreadsFollow, Follows, Busy
  <2>3. p # 0
    BY DesktopAssumption DEF Alive, Pids
  <2> QED BY <2>1, <2>2, <2>3 DEF Held
<1> QED BY <1>1, <1>2, <1>3, <1>4 DEF DaemonsAreCurrent

-----------------------------------------------------------------------------
\* The theorems

\* A goroutine of a process at work holds or has handed over every daemon it
\* started, one switch runs at a time, and processes follow one another
\* (app.go: relaunchMu, stopSupervisedDaemon, ensureDaemon).
THEOREM DesktopInvariant == Spec => [](Types /\ DesktopInv)
<1>1. Init => Types /\ DesktopInv
  BY InitInv
<1>2. Types /\ DesktopInv /\ [Next]_vars => Types' /\ DesktopInv'
  BY NextInv
<1> QED BY <1>1, <1>2, PTL DEF Spec

\* The daemon a process supervises is the one of its show and interface; none
\* it replaced or left is still alive, whatever the switches, failures and
\* closings of the window (switchDaemonInterface, RelaunchWithShow, OnShutdown).
THEOREM SupervisionIsCurrent == Spec => []DaemonsAreCurrent
BY DesktopInvariant, InvImpliesCurrent, PTL

\* A failed switch of the interface ends with the interface before it selected
\* again, and with the daemon the process has, if one lives, on it, unless the
\* startup or a shutdown got into the switch (SelectInterface).
THEOREM FailedSwitchGivesBack == Spec => FailedSwitchReverts
<1>1. /\ Types /\ DesktopInv /\ [Next]_vars
      => [\A a \in Apps, t \in Callers :
            thread[a][t].kind = "revert" /\ thread[a][t].pc = "fail" /\ thread'[a][t].pc = "idle" /\ app'[a].life = "up" =>
              /\ app[a].iface = thread[a][t].iface
              /\ a \notin torn /\ app[a].cmd \in Alive => daemon[app[a].cmd].iface = thread[a][t].iface]_vars
  <2> SUFFICES ASSUME DesktopInv, NEW a \in Apps, NEW t \in Callers, thread[a][t].kind = "revert", thread[a][t].pc = "fail"
               PROVE  /\ app[a].iface = thread[a][t].iface
                      /\ a \notin torn /\ app[a].cmd \in Alive => daemon[app[a].cmd].iface = thread[a][t].iface
    OBVIOUS
  <2>1. app[a].iface = thread[a][t].iface
    BY DEF DesktopInv, Reverted, Threads
  <2>2. a \notin torn /\ app[a].cmd \in Alive => daemon[app[a].cmd].iface = app[a].iface
    BY DEF DesktopInv, Held, Serves
  <2> QED BY <2>1, <2>2
<1> QED BY <1>1, DesktopInvariant, PTL DEF FailedSwitchReverts, Spec
-----------------------------------------------------------------------------
\* The MIDI service: the inductive invariant

MappingRecord == [id : Nat, key : Keys, target : Controls \cup {"master", "desk"}]

SurfaceRecord == [there : BOOLEAN, assigned : SUBSET Controls, mappings : SUBSET MappingRecord]

ShowRecord == [surfaces : [Surfaces -> SurfaceRecord], desk : SUBSET MappingRecord, scene : BOOLEAN, layer : BOOLEAN]

CallRecord ==
  [pc : {"idle", "load", "open", "capture", "reload", "save", "refresh"},
   kind : {"none", "learn", "desklearn", "remove", "deskremove", "activate"},
   surface : Surfaces \cup {None}, target : Controls \cup {"desk", None}, id : Nat, key : Keys \cup {None},
   doc : ShowRecord \cup {<<>>}]

EventRecord ==
  [pc : {"idle", "capture", "surface", "layer", "desk", "mapped"}, key : Keys \cup {None}, value : Positions,
   to : Clients \cup {None}, enabled : BOOLEAN]

TakeoverRecord == [armed : BOOLEAN, app : Positions, last : Positions]

AttachRecord == [pc : {"none", "load", "copy", "on"}, desk : SUBSET MappingRecord]

MidiTypes ==
  /\ doc \in ShowRecord
  /\ attached \in AttachRecord
  /\ stale \subseteq Clients
  /\ queue \in Seq([key : Keys, value : Positions]) /\ Len(queue) <= Buffer
  /\ disp \in EventRecord
  /\ learning \in Clients \cup {None}
  /\ box \in [Clients -> Keys \cup {None}]
  /\ active \in Surfaces \cup {None}
  /\ cached \subseteq MappingRecord /\ deskCached \subseteq MappingRecord
  /\ \A i \in DOMAIN takeovers : takeovers[i] \in TakeoverRecord
  /\ call \in [Clients -> CallRecord]
  /\ out \in [safety : BOOLEAN, master : Positions, desk : Positions]
  /\ spent \in [events : Nat, calls : Nat, edits : Nat, ids : Nat]

\* A message under dispatch has a key, and a session when it is captured.
DispatchFits ==
  /\ disp.pc # "idle" => disp.key \in Keys
  /\ disp.pc = "capture" => disp.to \in Clients

Writing(c) == call[c].pc \in {"save", "refresh"}

OneEach(ms) == \A m, n \in ms : m.key = n.key => m = n

OneEachIn(d) == OneEach(d.desk) /\ \A s \in Surfaces : OneEach(d.surfaces[s].mappings)

\* A call has what its step needs, and one mapping per key in its show.
CallFits(c) ==
  LET r == call[c]
  IN /\ r.kind \in {"learn", "remove", "activate"} => r.surface \in Surfaces
     /\ r.kind \in {"desklearn", "deskremove"} => r.surface = None
     /\ r.kind = "learn" => r.target \in Controls
     /\ r.kind = "desklearn" => r.target = "desk"
     /\ r.pc # "idle" => r.kind # "none"
     /\ r.pc \in {"open", "capture", "reload"} => r.kind \in {"learn", "desklearn"}
     /\ r.pc = "load" => r.kind # "desklearn"
     /\ r.pc = "save" => r.kind # "activate"
     /\ r.pc = "reload" => r.key \in Keys
     /\ Writing(c) => r.doc \in ShowRecord /\ OneEachIn(r.doc)

SavedIn(d) == d.desk \cup UNION {d.surfaces[s].mappings : s \in Surfaces}

\* Every copy of a mapping the service or one of its calls has.
Copies ==
  SavedIn(doc) \cup cached \cup deskCached \cup attached.desk
    \cup UNION {SavedIn(call[c].doc) : c \in {x \in Clients : Writing(x)}}

\* An identifier is of one key, whatever copies of it there are.
Identified ==
  /\ \A m \in Copies : m.id \in 1..spent.ids
  /\ \A m, n \in Copies : m.id = n.id => m.key = n.key

\* Only faders are caught, and one that is not is at the marker.
CaughtFaders ==
  /\ DOMAIN takeovers \subseteq 1..spent.ids
  /\ \A m \in Copies : m.id \in DOMAIN takeovers => m.key \in Faders
  /\ \A i \in DOMAIN takeovers : takeovers[i].armed \/ takeovers[i].app = Marker

ShownOf(i) == [armed |-> takeovers[i].armed, app |-> takeovers[i].app, physical |-> takeovers[i].last]

\* The last feedback of a fader, sent or not, is what it is now.
Told ==
  \A i \in DOMAIN takeovers :
    \/ i \in DOMAIN pending /\ pending[i] = ShownOf(i)
    \/ i \notin DOMAIN pending /\ i \in DOMAIN shown /\ shown[i] = ShownOf(i)

\* d is e but for the mappings the call is about, and has all of those if it learns.
OnlyOwn(c, d, e) ==
  /\ d.scene = e.scene /\ d.layer = e.layer
  /\ \A s \in Surfaces : d.surfaces[s].there = e.surfaces[s].there /\ d.surfaces[s].assigned = e.surfaces[s].assigned
  /\ \A s \in Surfaces \ {call[c].surface} : d.surfaces[s] = e.surfaces[s]
  /\ call[c].surface # None => d.desk = e.desk
  /\ call[c].kind \in {"learn", "desklearn"} => Own(c, e) \subseteq Own(c, d)

\* A call nobody saved since is about to change what it is about, or has.
UpToDate ==
  \A c \in Clients \ stale :
    /\ call[c].pc = "save" => OnlyOwn(c, call[c].doc, doc)
    /\ call[c].pc = "refresh" => call[c].doc = doc

\* The mappings dispatched on are the show's, or a call is about to make them so.
CopySettles ==
  ~crossed /\ active # None /\ doc.surfaces[active].there =>
    \/ cached = doc.surfaces[active].mappings
    \/ \E c \in Clients : call[c].pc = "refresh" /\ call[c].kind \in {"learn", "remove"} /\ call[c].surface = active

MidiInv ==
  /\ DispatchFits
  /\ \A c \in Clients : CallFits(c)
  /\ OneEachIn(doc)
  /\ Identified
  /\ CaughtFaders
  /\ Told
  /\ UpToDate
  /\ CopySettles

-----------------------------------------------------------------------------
\* Copies of mappings

\* Whatever copy is one of them.
LEMMA CopiesOf ==
  /\ SavedIn(doc) \subseteq Copies /\ cached \subseteq Copies /\ deskCached \subseteq Copies /\ attached.desk \subseteq Copies
  /\ \A c \in Clients : Writing(c) => SavedIn(call[c].doc) \subseteq Copies
BY DEF Copies

\* All copies are within a set when each kind of copy is.
LEMMA CopiesWithin ==
  ASSUME NEW S, SavedIn(doc)' \subseteq S, cached' \subseteq S, deskCached' \subseteq S, attached.desk' \subseteq S,
         \A c \in Clients : Writing(c)' => SavedIn(call[c].doc)' \subseteq S
  PROVE  Copies' \subseteq S
BY DEF Copies

\* Losing copies, and making no identifier, keeps every identifier of one key.
LEMMA IdentifiedStays ==
  ASSUME Identified, CaughtFaders, Copies' \subseteq Copies, spent'.ids = spent.ids, takeovers' = takeovers
  PROVE  Identified' /\ CaughtFaders'
BY DEF Identified, CaughtFaders

\* A step that writes nothing but ends or opens calls.
Quietly ==
  /\ doc' = doc /\ cached' = cached /\ active' = active /\ takeovers' = takeovers /\ pending' = pending /\ shown' = shown
  /\ crossed' = crossed /\ spent'.ids = spent.ids
  /\ deskCached' \in {deskCached, attached.desk} /\ attached.desk' \in {attached.desk, {}, doc.desk}
  /\ \A x \in Clients : call'[x] = call[x] \/ (call'[x].pc \notin {"save", "refresh"} /\ call[x].pc # "refresh")
  /\ \A x \in Clients : x \in stale /\ call'[x].pc \in {"save", "refresh"} => x \in stale'

\* A quiet step keeps what the invariant says of the show and its copies.
LEMMA QuietCall ==
  ASSUME MidiTypes, MidiInv, Quietly
  PROVE  OneEachIn(doc)' /\ Identified' /\ CaughtFaders' /\ Told' /\ UpToDate' /\ CopySettles'
<1>1. OneEachIn(doc)'
  BY DEF MidiInv, Quietly, OneEachIn
<1>2. Copies' \subseteq Copies
  <2>1. SavedIn(doc)' = SavedIn(doc)
    BY DEF Quietly, SavedIn
  <2>2. deskCached' \subseteq Copies /\ attached.desk' \subseteq Copies
    BY CopiesOf DEF Quietly, SavedIn
  <2>3. \A c \in Clients : Writing(c)' => SavedIn(call[c].doc)' \subseteq Copies
    <3> SUFFICES ASSUME NEW c \in Clients, Writing(c)'
                 PROVE  SavedIn(call[c].doc)' \subseteq Copies
      OBVIOUS
    <3>1. call'[c] = call[c]
      BY DEF Quietly, Writing
    <3>2. SavedIn(call[c].doc)' = SavedIn(call[c].doc) /\ Writing(c)
      BY <3>1 DEF SavedIn, Writing
    <3> QED BY <3>2, CopiesOf
  <2> QED BY <2>1, <2>2, <2>3, CopiesOf, CopiesWithin DEF Quietly
<1>3. Identified' /\ CaughtFaders'
  BY <1>2, IdentifiedStays DEF MidiInv, Quietly
<1>4. Told'
  BY DEF MidiInv, Quietly, Told, ShownOf
<1>5. UpToDate'
  <2> SUFFICES ASSUME NEW c \in Clients \ stale', Writing(c)'
               PROVE  /\ call'[c].pc = "save" => OnlyOwn(c, call[c].doc, doc)'
                      /\ call'[c].pc = "refresh" => call'[c].doc = doc'
    BY DEF UpToDate, Writing
  <2>1. call'[c] = call[c] /\ c \notin stale
    BY DEF Quietly, Writing
  <2>2. OnlyOwn(c, call[c].doc, doc)' <=> OnlyOwn(c, call[c].doc, doc)
    BY <2>1 DEF OnlyOwn, Own, Quietly
  <2> QED BY <2>1, <2>2 DEF MidiInv, UpToDate, Quietly
<1>6. CopySettles'
  <2> SUFFICES ASSUME ~crossed, active # None, doc.surfaces[active].there, cached # doc.surfaces[active].mappings
               PROVE  (\E c \in Clients : call[c].pc = "refresh" /\ call[c].kind \in {"learn", "remove"}
                                          /\ call[c].surface = active)'
    BY DEF CopySettles, Quietly
  <2>1. PICK c \in Clients : call[c].pc = "refresh" /\ call[c].kind \in {"learn", "remove"} /\ call[c].surface = active
    BY DEF MidiInv, CopySettles
  <2>2. call'[c] = call[c]
    BY <2>1 DEF Quietly
  <2> QED BY <2>1, <2>2 DEF Quietly
<1> QED BY <1>1, <1>3, <1>4, <1>5, <1>6

\* The calls that do not move keep what they need.
LEMMA OthersFit ==
  ASSUME NEW c \in Clients, NEW r, call \in [Clients -> CallRecord], call' = [call EXCEPT ![c] = r],
         \A x \in Clients : CallFits(x), CallFits(c)'
  PROVE  \A x \in Clients : CallFits(x)'
<1> SUFFICES ASSUME NEW x \in Clients, x # c
             PROVE  CallFits(x)'
  OBVIOUS
<1>1. call'[x] = call[x]
  OBVIOUS
<1> QED BY <1>1 DEF CallFits, Writing, OneEachIn

\* A call that changes neither keeps what it needs.
LEMMA SameFit ==
  ASSUME \A x \in Clients : CallFits(x), call' = call
  PROVE  \A x \in Clients : CallFits(x)'
BY DEF CallFits, Writing, OneEachIn

-----------------------------------------------------------------------------
\* The initial states, and the steps of the driver, the dispatch and the pusher

\* The service starts with one surface live, and its mappings copied.
LEMMA MidiInitInv == MidiInit => MidiTypes /\ MidiInv
<1> SUFFICES ASSUME MidiInit
             PROVE  MidiTypes /\ MidiInv
  OBVIOUS
<1>1. PICK s \in Surfaces, k \in Faders :
        LET first == {Mapping(1, k, "master")}
        IN /\ doc = [surfaces |-> [x \in Surfaces |-> [there |-> TRUE, assigned |-> Controls,
                                                       mappings |-> IF x = s THEN first ELSE {}]],
                     desk |-> {}, scene |-> TRUE, layer |-> TRUE]
           /\ active = s
           /\ cached = first
  BY DEF MidiInit
<1> DEFINE m == Mapping(1, k, "master")
<1>2. m \in MappingRecord
  BY DEF MappingRecord, Mapping, Keys
<1>3. doc \in ShowRecord
  BY <1>1, <1>2 DEF ShowRecord, SurfaceRecord
<1>4. NoCall \in CallRecord
  BY DEF NoCall, CallRecord
<1>5. MidiTypes
  <2>1. queue \in Seq([key : Keys, value : Positions]) /\ Len(queue) <= Buffer
    BY MidiAssumption DEF MidiInit
  <2>2. disp \in EventRecord
    BY DEF MidiInit, NoEvent, EventRecord, Positions
  <2>3. DOMAIN takeovers = {}
    BY DEF MidiInit
  <2>4. call \in [Clients -> CallRecord]
    BY <1>4 DEF MidiInit
  <2>5. out \in [safety : BOOLEAN, master : Positions, desk : Positions]
    BY DEF MidiInit, Positions
  <2>6. spent \in [events : Nat, calls : Nat, edits : Nat, ids : Nat]
    BY DEF MidiInit
  <2>7. cached \subseteq MappingRecord
    BY <1>1, <1>2
  <2>8. deskCached \subseteq MappingRecord /\ attached \in AttachRecord /\ box \in [Clients -> Keys \cup {None}] /\ learning = None /\ stale = {}
    BY DEF MidiInit, AttachRecord
  <2> QED BY <1>1, <1>3, <2>1, <2>2, <2>3, <2>4, <2>5, <2>6, <2>7, <2>8 DEF MidiTypes
<1>6. \A c \in Clients : CallFits(c)
  BY DEF MidiInit, NoCall, CallFits, Writing
<1>7. SavedIn(doc) \subseteq {m} /\ OneEachIn(doc)
  BY <1>1 DEF SavedIn, OneEachIn, OneEach
<1>8. Copies \subseteq {m}
  <2>1. \A c \in Clients : ~Writing(c)
    BY DEF MidiInit, NoCall, Writing
  <2>2. cached \subseteq {m} /\ deskCached \subseteq {m} /\ attached.desk \subseteq {m}
    BY <1>1 DEF MidiInit
  <2> QED BY <1>7, <2>1, <2>2 DEF Copies
<1>9. Identified
  BY <1>8 DEF Identified, Mapping, MidiInit
<1>10. CaughtFaders /\ Told
  <2>1. DOMAIN takeovers = {}
    BY DEF MidiInit
  <2> QED BY <2>1 DEF CaughtFaders, Told
<1>11. UpToDate /\ DispatchFits
  BY DEF MidiInit, UpToDate, DispatchFits, NoCall, NoEvent
<1>12. CopySettles
  BY <1>1 DEF CopySettles
<1> QED BY <1>5, <1>6, <1>7, <1>9, <1>10, <1>11, <1>12 DEF MidiInv

\* The driver loads the desk mappings and copies them, or fails to: it adds no
\* mapping (AttachDriver, ensureDeskMappingsLoaded).
Attaching == AttachDriver \/ ensureDeskMappingsLoaded \/ CopyLoaded \/ LoadFails \/ LoadLazily

LEMMA AttachingInv ==
  ASSUME MidiTypes, MidiInv, Attaching
  PROVE  MidiTypes' /\ MidiInv'
<1>1. /\ UNCHANGED <<doc, stale, pending, shown, queue, learning, box, active, cached, takeovers, call, out, crossed>>
      /\ spent' \in [events : Nat, calls : Nat, edits : Nat, ids : Nat] /\ spent'.ids = spent.ids
  BY DEF Attaching, AttachDriver, ensureDeskMappingsLoaded, CopyLoaded, LoadFails, LoadLazily, show, push, MidiTypes
<1>2. /\ attached' \in AttachRecord /\ attached'.desk \in {attached.desk, {}, doc.desk}
      /\ deskCached' \in {deskCached, attached.desk}
  <2>1. doc.desk \subseteq MappingRecord
    BY DEF MidiTypes, ShowRecord
  <2> QED BY <2>1 DEF Attaching, AttachDriver, ensureDeskMappingsLoaded, CopyLoaded, LoadFails, LoadLazily, MidiTypes,
                      AttachRecord
<1>3. disp' = disp \/ disp' = [disp EXCEPT !.pc = "mapped"]
  BY DEF Attaching, AttachDriver, ensureDeskMappingsLoaded, CopyLoaded, LoadFails, LoadLazily
<1>4. disp' \in EventRecord
  BY <1>3 DEF MidiTypes, EventRecord
<1>5. disp'.pc # "idle" => disp'.key \in Keys
  <2>1. LoadLazily => disp.pc = "desk"
    BY DEF LoadLazily
  <2>2. disp' = disp \/ (disp.pc = "desk" /\ disp'.key = disp.key)
    BY <2>1 DEF Attaching, AttachDriver, ensureDeskMappingsLoaded, CopyLoaded, LoadFails, LoadLazily, MidiTypes,
                EventRecord
  <2> QED BY <2>2 DEF MidiInv, DispatchFits
<1>6. DispatchFits'
  BY <1>3, <1>5 DEF MidiInv, DispatchFits, MidiTypes, EventRecord
<1>7. MidiTypes'
  <2>1. attached.desk \subseteq MappingRecord
    BY DEF MidiTypes, AttachRecord
  <2> QED BY <1>1, <1>2, <1>4, <2>1 DEF MidiTypes
<1>8. Quietly
  BY <1>1, <1>2 DEF Quietly
<1>9. \A x \in Clients : CallFits(x)'
  BY <1>1, SameFit DEF MidiInv
<1> QED BY <1>6, <1>7, <1>8, <1>9, QuietCall DEF MidiInv

\* A message comes, or is dropped (Driver.Listen).
LEMMA ListenInv ==
  ASSUME MidiTypes, MidiInv, NEW k \in Keys, NEW v \in Positions, Listen(k, v)
  PROVE  MidiTypes' /\ MidiInv'
<1> DEFINE e == [key |-> k, value |-> v]
<1>1. queue' \in Seq([key : Keys, value : Positions]) /\ Len(queue') <= Buffer
  <2>1. CASE Len(queue) < Buffer
    <3>1. queue' = Append(queue, e) /\ queue \in Seq([key : Keys, value : Positions]) /\ Len(queue) \in Nat
      BY <2>1 DEF Listen, MidiTypes
    <3> QED BY <3>1, <2>1, MidiAssumption
  <2>2. CASE ~(Len(queue) < Buffer)
    BY <2>2 DEF Listen, MidiTypes
  <2> QED BY <2>1, <2>2
<1>2. spent' \in [events : Nat, calls : Nat, edits : Nat, ids : Nat] /\ spent'.ids = spent.ids
  BY DEF Listen, MidiTypes
<1>3. MidiTypes'
  BY <1>1, <1>2 DEF MidiTypes, Listen, show, push
<1>4. Quietly
  BY <1>2 DEF Listen, Quietly, show, push
<1>5. \A x \in Clients : CallFits(x)'
  BY SameFit DEF MidiInv, Listen
<1>6. DispatchFits'
  BY DEF MidiInv, DispatchFits, Listen
<1> QED BY <1>3, <1>4, <1>5, <1>6, QuietCall DEF MidiInv

\* A message is taken from the queue (route).
LEMMA RouteInv ==
  ASSUME MidiTypes, MidiInv, route
  PROVE  MidiTypes' /\ MidiInv'
<1>1. Head(queue) \in [key : Keys, value : Positions] /\ Tail(queue) \in Seq([key : Keys, value : Positions])
      /\ Len(Tail(queue)) = Len(queue) - 1 /\ Len(queue) \in Nat
  <2> DEFINE T == [key : Keys, value : Positions]
  <2>1. queue \in Seq(T) /\ queue # <<>>
    BY DEF route, MidiTypes
  <2> HIDE DEF T
  <2>2. Head(queue) \in T /\ Tail(queue) \in Seq(T) /\ Len(Tail(queue)) = Len(queue) - 1 /\ Len(queue) \in Nat
    BY <2>1
  <2> QED BY <2>2 DEF T
<1>2. disp' \in EventRecord /\ DispatchFits'
  <2>1. learning \in Clients \cup {None} /\ NoEvent \in EventRecord
    BY DEF MidiTypes, NoEvent, EventRecord, Positions
  <2> QED BY <1>1, <2>1 DEF route, EventRecord, DispatchFits, NoEvent
<1>3. MidiTypes'
  BY <1>1, <1>2, MidiAssumption DEF MidiTypes, route, show, push
<1>4. Quietly
  BY DEF route, Quietly, show, push
<1>5. \A x \in Clients : CallFits(x)'
  BY SameFit DEF MidiInv, route
<1> QED BY <1>2, <1>3, <1>4, <1>5, QuietCall DEF MidiInv

\* No message is under dispatch.
LEMMA NoEventFits == NoEvent \in EventRecord /\ NoEvent.pc = "idle"
BY DEF NoEvent, EventRecord, Positions

\* A message goes to the learn session (route).
LEMMA CaptureInv ==
  ASSUME MidiTypes, MidiInv, Capture
  PROVE  MidiTypes' /\ MidiInv'
<1>1. disp.to \in Clients /\ disp.key \in Keys
  BY DEF Capture, MidiInv, DispatchFits
<1>2. box' \in [Clients -> Keys \cup {None}]
  BY <1>1 DEF Capture, MidiTypes
<1>3. MidiTypes'
  BY <1>2, NoEventFits DEF MidiTypes, Capture, show, push
<1>4. Quietly
  BY DEF Capture, Quietly, show, push
<1>5. \A x \in Clients : CallFits(x)'
  BY SameFit DEF MidiInv, Capture
<1>6. DispatchFits'
  BY NoEventFits DEF DispatchFits, Capture
<1> QED BY <1>3, <1>4, <1>5, <1>6, QuietCall DEF MidiInv

\* The pusher sends what is pending (EventPusher.flush).
LEMMA FlushInv ==
  ASSUME MidiTypes, MidiInv, flushFeedback
  PROVE  MidiTypes' /\ MidiInv'
<1>1. MidiTypes'
  BY DEF MidiTypes, flushFeedback, show, midiService
<1>2. Told'
  <2>1. DOMAIN pending' = {} /\ DOMAIN shown' = DOMAIN shown \cup DOMAIN pending /\ takeovers' = takeovers
    BY DEF flushFeedback, Merged, midiService
  <2>2. \A i \in DOMAIN shown \cup DOMAIN pending : shown'[i] = IF i \in DOMAIN pending THEN pending[i] ELSE shown[i]
    BY DEF flushFeedback, Merged
  <2>3. \A i : ShownOf(i)' = ShownOf(i)
    BY <2>1 DEF ShownOf
  <2> QED BY <2>1, <2>2, <2>3 DEF MidiInv, Told
<1>3. \A x \in Clients : CallFits(x)'
  BY SameFit DEF MidiInv, flushFeedback
<1>4. DispatchFits' /\ OneEachIn(doc)' /\ UpToDate' /\ CopySettles'
  BY DEF MidiInv, DispatchFits, flushFeedback, OneEachIn, UpToDate, OnlyOwn, Own, CopySettles, show, midiService
<1>5. Copies' = Copies
  BY DEF Copies, SavedIn, Writing, flushFeedback, show, midiService
<1>6. Identified' /\ CaughtFaders'
  BY <1>5, IdentifiedStays DEF MidiInv, flushFeedback, show, midiService
<1> QED BY <1>1, <1>2, <1>3, <1>4, <1>6 DEF MidiInv

-----------------------------------------------------------------------------
\* A message on a mapping

\* A caught fader gives where it is; one that is not stays at the marker.
LEMMA UpdateFits ==
  ASSUME NEW t, NEW v \in Positions, t.armed \in BOOLEAN, t.app \in Positions, t.last \in Positions \cup {None},
         t.armed \/ t.app = Marker
  PROVE  /\ Update(t, v) \in TakeoverRecord
         /\ Update(t, v).last = v
         /\ Update(t, v).armed \/ Update(t, v).app = Marker
BY DEF Update, TakeoverRecord

\* A fader without a takeover is as one at the marker (takeoverStateFor).
LEMMA TakeoverFits ==
  ASSUME MidiTypes, CaughtFaders, NEW i
  PROVE  LET t == takeoverStateFor(i)
         IN /\ t.armed \in BOOLEAN /\ t.app \in Positions /\ t.last \in Positions \cup {None}
            /\ t.armed \/ t.app = Marker
<1>1. CASE i \in DOMAIN takeovers
  <2>1. takeovers[i] \in TakeoverRecord /\ (takeovers[i].armed \/ takeovers[i].app = Marker)
    BY <1>1 DEF MidiTypes, CaughtFaders
  <2> QED BY <1>1, <2>1 DEF takeoverStateFor, TakeoverRecord
<1>2. CASE i \notin DOMAIN takeovers
  BY <1>2 DEF takeoverStateFor, NewTakeoverState, Marker, Positions
<1> QED BY <1>1, <1>2

\* What a message on mapping m does to the takeovers and the feedback f.
Plays(m, f) ==
  LET a == Arbitrated(m.id, disp.key, disp.value)
  IN /\ takeovers' = a.takeovers
     /\ pending' = Put(pending, m.id, f)
     /\ shown' = shown
     /\ disp.key \in Faders => f = [armed |-> a.armed, app |-> a.app, physical |-> disp.value]

\* A message on a mapping leaves the takeovers told, and only faders caught.
LEMMA PlaysKeeps ==
  ASSUME MidiTypes, MidiInv, disp.pc # "idle", NEW m \in Copies, m.key = disp.key, NEW f, Plays(m, f),
         Copies' = Copies, spent' = spent
  PROVE  /\ \A i \in DOMAIN takeovers' : takeovers'[i] \in TakeoverRecord
         /\ Told' /\ Identified' /\ CaughtFaders'
<1>1. disp.key \in Keys /\ disp.value \in Positions
  BY DEF MidiTypes, MidiInv, DispatchFits, EventRecord
<1>2. \A n \in Copies : n.id = m.id => n.key = m.key
  BY DEF MidiInv, Identified
<1>3. Identified'
  BY DEF MidiInv, Identified
<1>4. CASE disp.key \in Buttons
  <2>1. takeovers' = takeovers
    BY <1>4 DEF Plays, Arbitrated
  <2>2. m.id \notin DOMAIN takeovers
    BY <1>4, MidiAssumption DEF MidiInv, CaughtFaders
  <2>3. Told'
    <3> SUFFICES ASSUME NEW i \in DOMAIN takeovers
                 PROVE  \/ i \in DOMAIN pending' /\ pending'[i] = ShownOf(i)
                        \/ i \notin DOMAIN pending' /\ i \in DOMAIN shown /\ shown[i] = ShownOf(i)
      BY <2>1 DEF Told, ShownOf, Plays
    <3>1. i # m.id
      BY <2>2
    <3>2. (i \in DOMAIN pending' <=> i \in DOMAIN pending) /\ (i \in DOMAIN pending => pending'[i] = pending[i])
      BY <3>1 DEF Plays, Put
    <3> QED BY <3>2 DEF MidiInv, Told
  <2>4. CaughtFaders'
    BY <2>1 DEF MidiInv, CaughtFaders
  <2> QED BY <1>3, <2>1, <2>3, <2>4 DEF MidiTypes
<1>5. CASE disp.key \notin Buttons
  <2> DEFINE t == Update(takeoverStateFor(m.id), disp.value)
  <2>1. disp.key \in Faders
    BY <1>1, <1>5 DEF Keys
  <2>2. t \in TakeoverRecord /\ t.last = disp.value /\ (t.armed \/ t.app = Marker)
    BY <1>1, TakeoverFits, UpdateFits DEF MidiInv
  <2>3. /\ takeovers' = Put(takeovers, m.id, t)
        /\ pending' = Put(pending, m.id, f)
        /\ f = [armed |-> t.armed, app |-> t.app, physical |-> disp.value]
    BY <1>5, <2>1 DEF Plays, Arbitrated
  <2> HIDE DEF t
  <2>4. /\ DOMAIN takeovers' = DOMAIN takeovers \cup {m.id}
        /\ takeovers'[m.id] = t
        /\ \A i \in DOMAIN takeovers : i # m.id => takeovers'[i] = takeovers[i]
    BY <2>3 DEF Put
  <2>5. /\ DOMAIN pending' = DOMAIN pending \cup {m.id}
        /\ pending'[m.id] = f
        /\ \A i \in DOMAIN pending : i # m.id => pending'[i] = pending[i]
    BY <2>3 DEF Put
  <2>6. \A i \in DOMAIN takeovers' : takeovers'[i] \in TakeoverRecord
    BY <2>2, <2>4 DEF MidiTypes
  <2>7. Told'
    <3> SUFFICES ASSUME NEW i \in DOMAIN takeovers'
                 PROVE  \/ i \in DOMAIN pending' /\ pending'[i] = ShownOf(i)'
                        \/ i \notin DOMAIN pending' /\ i \in DOMAIN shown /\ shown[i] = ShownOf(i)'
      BY DEF Told, Plays
    <3>1. CASE i = m.id
      BY <2>2, <2>3, <2>4, <2>5, <3>1 DEF ShownOf
    <3>2. CASE i # m.id
      BY <2>4, <2>5, <3>2 DEF ShownOf, MidiInv, Told
    <3> QED BY <3>1, <3>2
  <2>8. CaughtFaders'
    <3>1. DOMAIN takeovers' \subseteq 1..spent'.ids
      BY <2>4 DEF MidiInv, CaughtFaders, Identified
    <3>2. \A n \in Copies' : n.id \in DOMAIN takeovers' => n.key \in Faders
      BY <2>1, <2>4, <1>2 DEF MidiInv, CaughtFaders
    <3>3. \A i \in DOMAIN takeovers' : takeovers'[i].armed \/ takeovers'[i].app = Marker
      BY <2>2, <2>4 DEF MidiInv, CaughtFaders
    <3> QED BY <3>1, <3>2, <3>3 DEF CaughtFaders
  <2> QED BY <1>3, <2>6, <2>7, <2>8
<1> QED BY <1>4, <1>5

\* What a message asks of the daemon keeps its levels in range.
LEMMA LevelFits ==
  ASSUME MidiTypes, CaughtFaders, NEW i, NEW k, NEW v \in Positions
  PROVE  LET a == Arbitrated(i, k, v)
         IN a.level \in Positions /\ a.armed \in BOOLEAN /\ a.edge \in BOOLEAN
<1> DEFINE t == Update(takeoverStateFor(i), v)
<1>1. t \in TakeoverRecord
  BY TakeoverFits, UpdateFits
<1>2. CASE k \in Buttons
  BY <1>2 DEF Arbitrated, Positions
<1>3. CASE k \notin Buttons
  <2>1. t.app \in Positions /\ t.armed \in BOOLEAN
    BY <1>1 DEF TakeoverRecord
  <2>2. takeoverStateFor(i).armed \in BOOLEAN
    BY TakeoverFits
  <2> QED BY <1>3, <2>1, <2>2 DEF Arbitrated
<1> QED BY <1>2, <1>3

\* A save by none of the calls makes them all stale.
LEMMA NoneIsNoCall == Clients \ {None} = Clients
BY MidiAssumption

\* A step of the dispatch that keeps the show, or saves it over all calls.
LEMMA DispatchKeeps ==
  ASSUME MidiTypes, MidiInv, doc'.surfaces = doc.surfaces, doc'.desk = doc.desk,
         cached' = cached, deskCached' = deskCached /\ attached' = attached, active' = active, call' = call, crossed' = crossed,
         (doc' = doc /\ stale' = stale) \/ SavedBy(None)
  PROVE  /\ OneEachIn(doc)' /\ UpToDate' /\ CopySettles' /\ Copies' = Copies /\ \A x \in Clients : CallFits(x)'
         /\ stale' \subseteq Clients
<1>1. OneEachIn(doc)'
  BY DEF MidiInv, OneEachIn
<1>2. CopySettles'
  BY DEF MidiInv, CopySettles
<1>3. Copies' = Copies
  BY DEF Copies, SavedIn, Writing
<1>4. doc' = doc /\ stale' = stale => UpToDate' /\ stale' \subseteq Clients
  BY DEF MidiInv, MidiTypes, UpToDate, OnlyOwn, Own
<1>5. SavedBy(None) => UpToDate' /\ stale' \subseteq Clients
  <2> SUFFICES ASSUME SavedBy(None)
               PROVE  UpToDate' /\ stale' \subseteq Clients
    OBVIOUS
  <2>1. stale' = {x \in Clients : Writing(x)}
    BY NoneIsNoCall DEF SavedBy, Writing
  <2>2. \A c \in Clients \ stale' : call'[c].pc \notin {"save", "refresh"}
    BY <2>1 DEF Writing
  <2> QED BY <2>1, <2>2 DEF UpToDate
<1>6. UpToDate' /\ stale' \subseteq Clients
  BY <1>4, <1>5
<1> QED BY <1>1, <1>2, <1>3, <1>6, SameFit DEF MidiInv

\* A layer is toggled (dispatchLayerToggle).
LEMMA LayerToggleInv ==
  ASSUME MidiTypes, MidiInv, dispatchLayerToggle
  PROVE  MidiTypes' /\ MidiInv'
<1>1. /\ doc' \in ShowRecord /\ doc'.surfaces = doc.surfaces /\ doc'.desk = doc.desk
      /\ (doc' = doc /\ stale' = stale) \/ SavedBy(None)
  <2>1. disp.enabled \in BOOLEAN /\ doc \in ShowRecord
    BY DEF MidiTypes, EventRecord
  <2> QED BY <2>1 DEF dispatchLayerToggle, ShowRecord
<1>2. disp' \in EventRecord /\ DispatchFits'
  BY DEF dispatchLayerToggle, MidiTypes, MidiInv, EventRecord, DispatchFits
<1>3. /\ OneEachIn(doc)' /\ UpToDate' /\ CopySettles' /\ Copies' = Copies /\ \A x \in Clients : CallFits(x)'
      /\ stale' \subseteq Clients
  BY <1>1, DispatchKeeps DEF dispatchLayerToggle, midiService, push
<1>4. MidiTypes'
  BY <1>1, <1>2, <1>3 DEF MidiTypes, dispatchLayerToggle, midiService, push
<1>5. Identified' /\ CaughtFaders' /\ Told'
  BY <1>3, IdentifiedStays DEF MidiInv, Told, ShownOf, dispatchLayerToggle, midiService, push
<1> QED BY <1>2, <1>3, <1>4, <1>5 DEF MidiInv

\* A message is played on the active surface (dispatchToActiveSurface).
LEMMA SurfaceInv ==
  ASSUME MidiTypes, MidiInv, dispatchToActiveSurface
  PROVE  MidiTypes' /\ MidiInv'
<1>1. disp.key \in Keys /\ disp.value \in Positions /\ disp.pc = "surface"
  BY DEF dispatchToActiveSurface, MidiTypes, MidiInv, DispatchFits, EventRecord
<1> DEFINE idle == active = None \/ Mapped(cached) = {}
           m == CHOOSE x \in Mapped(cached) : TRUE
           a == Arbitrated(m.id, disp.key, disp.value)
<1>2. ~idle => m \in cached /\ m \in Copies /\ m.key = disp.key
  <2>1. Mapped(cached) # {} => m \in Mapped(cached)
    OBVIOUS
  <2> QED BY <2>1, CopiesOf DEF Mapped
<1>3. CASE idle
  <2>1. /\ disp' = [disp EXCEPT !.pc = "desk"]
        /\ UNCHANGED <<show, out, takeovers, pending, shown>>
    BY <1>3 DEF dispatchToActiveSurface
  <2>2. disp' \in EventRecord /\ DispatchFits'
    BY <1>1, <2>1 DEF MidiTypes, EventRecord, DispatchFits
  <2>3. /\ OneEachIn(doc)' /\ UpToDate' /\ CopySettles' /\ Copies' = Copies /\ \A x \in Clients : CallFits(x)'
    BY <2>1, DispatchKeeps DEF dispatchToActiveSurface, show
  <2>4. MidiTypes'
    BY <2>1, <2>2 DEF MidiTypes, dispatchToActiveSurface, show
  <2>5. Identified' /\ CaughtFaders' /\ Told'
    BY <2>1, <2>3, IdentifiedStays DEF MidiInv, Told, ShownOf, dispatchToActiveSurface
  <2> QED BY <2>2, <2>3, <2>4, <2>5 DEF MidiInv
<1>4. CASE ~idle
  <2>1. /\ takeovers' = a.takeovers
        /\ dispatchMapping(m, a)
        /\ pending' = Put(pending, m.id, Feedback(a))
        /\ shown' = shown
    BY <1>4 DEF dispatchToActiveSurface, emitMidiFeedback
  <2>2. a.level \in Positions
    BY <1>1, LevelFits DEF MidiInv
  <2>3. Plays(m, Feedback(a))
    BY <2>1 DEF Plays, Feedback
  <2> HIDE DEF a, m
  <2>4. disp' \in EventRecord /\ DispatchFits'
    <3>1. doc.layer \in BOOLEAN
      BY DEF MidiTypes, ShowRecord
    <3>2. \E pc \in {"layer", "desk"} : disp' = [disp EXCEPT !.pc = pc, !.enabled = doc.layer]
      BY <2>1 DEF dispatchMapping
    <3> QED BY <1>1, <3>1, <3>2 DEF MidiTypes, EventRecord, DispatchFits
  <2>5. out' \in [safety : BOOLEAN, master : Positions, desk : Positions]
    BY <2>1, <2>2 DEF dispatchMapping, Requested, MidiTypes
  <2>6. doc' = doc /\ (stale' = stale \/ SavedBy(None))
    BY <2>1 DEF dispatchMapping
  <2>7. /\ OneEachIn(doc)' /\ UpToDate' /\ CopySettles' /\ Copies' = Copies /\ \A x \in Clients : CallFits(x)'
        /\ stale' \subseteq Clients
    BY <2>6, DispatchKeeps DEF dispatchToActiveSurface
  <2>8. spent' = spent
    BY DEF dispatchToActiveSurface
  <2>9. /\ \A i \in DOMAIN takeovers' : takeovers'[i] \in TakeoverRecord
        /\ Told' /\ Identified' /\ CaughtFaders'
    BY <1>1, <1>2, <1>4, <2>3, <2>7, <2>8, PlaysKeeps
  <2>10. MidiTypes'
    BY <2>4, <2>5, <2>6, <2>7, <2>9 DEF MidiTypes, dispatchToActiveSurface
  <2> QED BY <2>4, <2>7, <2>9, <2>10 DEF MidiInv
<1> QED BY <1>3, <1>4

\* A message is played on the desk (dispatchToDeskMappings).
LEMMA DeskInv ==
  ASSUME MidiTypes, MidiInv, dispatchToDeskMappings
  PROVE  MidiTypes' /\ MidiInv'
<1>1. disp.key \in Keys /\ disp.value \in Positions /\ disp.pc # "idle"
  BY DEF dispatchToDeskMappings, MidiTypes, MidiInv, DispatchFits, EventRecord
<1> DEFINE m == CHOOSE x \in Mapped(deskCached) : TRUE
           a == Arbitrated(m.id, disp.key, disp.value)
           f == Feedback([a EXCEPT !.app = a.level])
<1>2. Mapped(deskCached) # {} => m \in deskCached /\ m \in Copies /\ m.key = disp.key
  <2>1. Mapped(deskCached) # {} => m \in Mapped(deskCached)
    OBVIOUS
  <2> QED BY <2>1, CopiesOf DEF Mapped
<1>3. disp' \in EventRecord /\ DispatchFits'
  BY NoEventFits DEF dispatchToDeskMappings, DispatchFits
<1>4. /\ OneEachIn(doc)' /\ UpToDate' /\ CopySettles' /\ Copies' = Copies /\ \A x \in Clients : CallFits(x)'
  BY DispatchKeeps DEF dispatchToDeskMappings, show
<1>5. CASE Mapped(deskCached) = {}
  <2>1. UNCHANGED <<out, takeovers, pending, shown>>
    BY <1>5 DEF dispatchToDeskMappings
  <2>2. MidiTypes'
    BY <1>3, <2>1 DEF MidiTypes, dispatchToDeskMappings, show
  <2>3. Identified' /\ CaughtFaders' /\ Told'
    BY <1>4, <2>1, IdentifiedStays DEF MidiInv, Told, ShownOf, dispatchToDeskMappings
  <2> QED BY <1>3, <1>4, <2>2, <2>3 DEF MidiInv
<1>6. CASE Mapped(deskCached) # {}
  <2>1. /\ takeovers' = a.takeovers
        /\ pending' = Put(pending, m.id, f)
        /\ out' = IF a.armed THEN [out EXCEPT !.desk = a.level] ELSE out
        /\ shown' = shown
    BY <1>6 DEF dispatchToDeskMappings, emitMidiFeedback
  <2>2. a.level \in Positions
    BY <1>1, LevelFits DEF MidiInv
  <2>3. disp.key \in Faders => f = [armed |-> a.armed, app |-> a.app, physical |-> disp.value]
    <3> SUFFICES ASSUME disp.key \in Faders
                 PROVE  f = [armed |-> a.armed, app |-> a.app, physical |-> disp.value]
      OBVIOUS
    <3>1. disp.key \notin Buttons
      BY MidiAssumption
    <3>2. a.app = a.level /\ a = [takeovers |-> a.takeovers, armed |-> a.armed, edge |-> a.edge, level |-> a.level,
                                 app |-> a.app]
      BY <3>1 DEF Arbitrated
    <3> HIDE DEF a
    <3> QED BY <3>2 DEF Feedback
  <2>4. Plays(m, f)
    BY <2>1, <2>3 DEF Plays
  <2> HIDE DEF a, m, f
  <2>5. out' \in [safety : BOOLEAN, master : Positions, desk : Positions]
    BY <2>1, <2>2 DEF MidiTypes
  <2>6. spent' = spent
    BY DEF dispatchToDeskMappings
  <2>7. /\ \A i \in DOMAIN takeovers' : takeovers'[i] \in TakeoverRecord
        /\ Told' /\ Identified' /\ CaughtFaders'
    BY <1>1, <1>2, <1>4, <1>6, <2>4, <2>6, PlaysKeeps
  <2>8. MidiTypes'
    BY <1>3, <2>5, <2>7 DEF MidiTypes, dispatchToDeskMappings, show
  <2> QED BY <1>3, <1>4, <2>7, <2>8 DEF MidiInv
<1> QED BY <1>5, <1>6

-----------------------------------------------------------------------------
\* The calls

\* A call that is over writes nothing.
LEMMA NoCallFits == NoCall \in CallRecord /\ ~(NoCall.pc \in {"save", "refresh"})
BY DEF NoCall, CallRecord

\* A step of a call that writes nothing, and was not about to copy.
LEMMA CallStep ==
  ASSUME MidiTypes, MidiInv, NEW c \in Clients, NEW r, call' = [call EXCEPT ![c] = r], r \in CallRecord,
         r.pc \notin {"save", "refresh"}, call[c].pc # "refresh", CallFits(c)',
         doc' = doc, cached' = cached, active' = active, takeovers' = takeovers, pending' = pending, shown' = shown,
         crossed' = crossed, deskCached' = deskCached /\ attached' = attached, spent'.ids = spent.ids, disp' = disp,
         \/ stale' = stale
         \/ stale' = stale \ {c}
  PROVE  MidiInv' /\ stale' \subseteq Clients /\ call' \in [Clients -> CallRecord]
<1>1. \A x \in Clients \ {c} : call'[x] = call[x]
  BY DEF MidiTypes
<1>2. call'[c] = r
  BY DEF MidiTypes
<1>3. Quietly
  <2>1. \A x \in Clients : call'[x] = call[x] \/ (call'[x].pc \notin {"save", "refresh"} /\ call[x].pc # "refresh")
    BY <1>1, <1>2
  <2>2. \A x \in Clients : x \in stale /\ call'[x].pc \in {"save", "refresh"} => x \in stale'
    BY <1>2
  <2> QED BY <2>1, <2>2 DEF Quietly
<1>4. \A x \in Clients : CallFits(x)'
  BY OthersFit DEF MidiInv, MidiTypes
<1>5. DispatchFits'
  BY DEF MidiInv, DispatchFits
<1> QED BY <1>3, <1>4, <1>5, QuietCall DEF MidiInv, MidiTypes


\* A call that returns needs nothing more.
LEMMA AnswerFits ==
  ASSUME MidiTypes, NEW c \in Clients, Answer(c)
  PROVE  /\ call' = [call EXCEPT ![c] = NoCall] /\ call'[c] = NoCall /\ CallFits(c)'
         /\ learning' \in Clients \cup {None} /\ box' \in [Clients -> Keys \cup {None}]
<1>1. call' = [call EXCEPT ![c] = NoCall] /\ call'[c] = NoCall
  BY DEF Answer, MidiTypes
<1>2. CallFits(c)'
  BY <1>1 DEF CallFits, Writing, NoCall
<1> QED BY <1>1, <1>2 DEF Answer, MidiTypes

\* A call that ends, having nothing to copy.
LEMMA AnswerKeeps ==
  ASSUME MidiTypes, MidiInv, NEW c \in Clients, Answer(c), call[c].pc # "refresh", stale' = stale \ {c},
         UNCHANGED <<doc, push, attached, queue, active, cached, deskCached, deskLoaded, takeovers, disp, out, crossed,
                     spent>>
  PROVE  MidiTypes' /\ MidiInv'
<1>1. MidiInv' /\ stale' \subseteq Clients /\ call' \in [Clients -> CallRecord]
  <2> DEFINE r == NoCall
  <2>1. /\ call' = [call EXCEPT ![c] = r] /\ r \in CallRecord /\ r.pc \notin {"save", "refresh"} /\ CallFits(c)'
    BY AnswerFits, NoCallFits
  <2>2. /\ doc' = doc /\ cached' = cached /\ active' = active /\ takeovers' = takeovers /\ pending' = pending
        /\ shown' = shown /\ crossed' = crossed /\ deskCached' = deskCached /\ attached' = attached /\ spent'.ids = spent.ids /\ disp' = disp
    BY DEF push
  <2> HIDE DEF r
  <2> QED BY <2>1, <2>2, CallStep
<1> QED BY <1>1, AnswerFits DEF MidiTypes

\* A show cannot be loaded or saved.
LEMMA CallFailsInv ==
  ASSUME MidiTypes, MidiInv, NEW c \in Clients, CallFails(c)
  PROVE  MidiTypes' /\ MidiInv'
BY AnswerKeeps DEF CallFails

\* The window of a learn closes (CaptureCandidate).
LEMMA LearnTimeoutInv ==
  ASSUME MidiTypes, MidiInv, NEW c \in Clients, LearnTimeout(c)
  PROVE  MidiTypes' /\ MidiInv'
BY AnswerKeeps DEF LearnTimeout, CallAt

\* A learn is cancelled (CancelLearn).
LEMMA CancelLearnInv ==
  ASSUME MidiTypes, MidiInv, CancelLearn
  PROVE  MidiTypes' /\ MidiInv'
<1>1. spent' \in [events : Nat, calls : Nat, edits : Nat, ids : Nat] /\ spent'.ids = spent.ids
  BY DEF CancelLearn, MidiTypes
<1>2. MidiTypes'
  BY <1>1 DEF MidiTypes, CancelLearn, show, push
<1>3. Quietly
  BY <1>1 DEF CancelLearn, Quietly, show, push
<1>4. (\A x \in Clients : CallFits(x)') /\ DispatchFits'
  BY SameFit DEF MidiInv, CancelLearn, DispatchFits
<1> QED BY <1>2, <1>3, <1>4, QuietCall DEF MidiInv

\* A new call has what its first step needs.
LEMMA BeginInv ==
  ASSUME MidiTypes, MidiInv, NEW c \in Clients, NEW kind, NEW pc, NEW s, NEW t, NEW id \in Nat,
         Begin(c, kind, pc, s, t, id),
         pc \in {"load", "open"}, t \in Controls \cup {"desk", None},
         \/ kind = "learn" /\ s \in Surfaces /\ t \in Controls /\ pc = "load"
         \/ kind \in {"remove", "activate"} /\ s \in Surfaces /\ pc = "load"
         \/ kind = "desklearn" /\ s = None /\ t = "desk" /\ pc = "open"
         \/ kind = "deskremove" /\ s = None /\ pc = "load"
  PROVE  MidiTypes' /\ MidiInv'
<1> DEFINE r == [NoCall EXCEPT !.pc = pc, !.kind = kind, !.surface = s, !.target = t, !.id = id]
<1>1. r = [pc |-> pc, kind |-> kind, surface |-> s, target |-> t, id |-> id, key |-> None, doc |-> <<>>]
  <2> DEFINE n1 == [pc |-> pc, kind |-> "none", surface |-> None, target |-> None, id |-> 0, key |-> None, doc |-> <<>>]
             n2 == [pc |-> pc, kind |-> kind, surface |-> None, target |-> None, id |-> 0, key |-> None, doc |-> <<>>]
             n3 == [pc |-> pc, kind |-> kind, surface |-> s, target |-> None, id |-> 0, key |-> None, doc |-> <<>>]
             n4 == [pc |-> pc, kind |-> kind, surface |-> s, target |-> t, id |-> 0, key |-> None, doc |-> <<>>]
             n5 == [pc |-> pc, kind |-> kind, surface |-> s, target |-> t, id |-> id, key |-> None, doc |-> <<>>]
  <2>1. [NoCall EXCEPT !.pc = pc] = n1
    BY DEF NoCall
  <2>2. [n1 EXCEPT !.kind = kind] = n2
    OBVIOUS
  <2>3. [n2 EXCEPT !.surface = s] = n3
    OBVIOUS
  <2>4. [n3 EXCEPT !.target = t] = n4
    OBVIOUS
  <2>5. [n4 EXCEPT !.id = id] = n5
    OBVIOUS
  <2>6. r = [[[[[NoCall EXCEPT !.pc = pc] EXCEPT !.kind = kind] EXCEPT !.surface = s] EXCEPT !.target = t] EXCEPT !.id = id]
    OBVIOUS
  <2> HIDE DEF n1, n2, n3, n4, n5
  <2> SUFFICES r = n5
    BY DEF n5
  <2> HIDE DEF r
  <2> QED BY <2>1, <2>2, <2>3, <2>4, <2>5, <2>6
<1>2. r \in CallRecord /\ r.pc \notin {"save", "refresh"}
  BY <1>1 DEF CallRecord
<1>3. call' = [call EXCEPT ![c] = r] /\ call'[c] = r
  BY DEF Begin, MidiTypes
<1>4. CallFits(c)'
  BY <1>1, <1>3 DEF CallFits, Writing
<1>5. spent' \in [events : Nat, calls : Nat, edits : Nat, ids : Nat] /\ spent'.ids = spent.ids
  BY DEF Begin, MidiTypes
<1>6. call[c].pc # "refresh" /\ UNCHANGED <<show, midiService, push, disp, out, crossed>>
  BY DEF Begin, CallAt
<1>7. /\ doc' = doc /\ cached' = cached /\ active' = active /\ takeovers' = takeovers /\ pending' = pending
      /\ shown' = shown /\ crossed' = crossed /\ deskCached' = deskCached /\ attached' = attached /\ disp' = disp /\ stale' = stale
  BY <1>6 DEF show, midiService, push
<1> HIDE DEF r
<1>8. MidiInv' /\ stale' \subseteq Clients /\ call' \in [Clients -> CallRecord]
  BY <1>2, <1>3, <1>4, <1>5, <1>6, <1>7, CallStep
<1> QED BY <1>5, <1>6, <1>8 DEF MidiTypes, show, midiService, push

\* A call comes from the frontend.
LEMMA CallsInv ==
  ASSUME MidiTypes, MidiInv, NEW c \in Clients, Calls(c)
  PROVE  MidiTypes' /\ MidiInv'
<1>1. CASE StartDeskLearn(c)
  <2>1. Begin(c, "desklearn", "open", None, "desk", 0)
    BY <1>1 DEF StartDeskLearn
  <2> QED BY <2>1, BeginInv
<1>2. CASE \E s \in Surfaces : SetActiveSurface(c, s)
  <2>1. PICK s \in Surfaces : Begin(c, "activate", "load", s, None, 0)
    BY <1>2 DEF SetActiveSurface
  <2> QED BY <2>1, BeginInv
<1>3. CASE \E s \in Surfaces, t \in Controls : StartLearn(c, s, t)
  <2>1. PICK s \in Surfaces, t \in Controls : Begin(c, "learn", "load", s, t, 0)
    BY <1>3 DEF StartLearn
  <2> QED BY <2>1, BeginInv
<1>4. CASE \E s \in Surfaces, m \in UNION {doc.surfaces[x].mappings : x \in Surfaces} : RemoveMapping(c, s, m.id)
  <2>1. PICK s \in Surfaces, m \in UNION {doc.surfaces[x].mappings : x \in Surfaces} :
          Begin(c, "remove", "load", s, None, m.id)
    BY <1>4 DEF RemoveMapping
  <2>2. m \in SavedIn(doc)
    BY DEF SavedIn
  <2>3. m.id \in Nat
    BY <2>2, CopiesOf DEF MidiInv, Identified, MidiTypes
  <2> QED BY <2>1, <2>3, BeginInv
<1>5. CASE \E m \in doc.desk : RemoveDeskMapping(c, m.id)
  <2>1. PICK m \in doc.desk : Begin(c, "deskremove", "load", None, None, m.id)
    BY <1>5 DEF RemoveDeskMapping
  <2>2. m.id \in Nat
    BY CopiesOf DEF SavedIn, MidiInv, Identified, MidiTypes
  <2> QED BY <2>1, <2>2, BeginInv
<1> QED BY <1>1, <1>2, <1>3, <1>4, <1>5 DEF Calls

\* A learn session opens (StartLearn).
LEMMA OpenSessionInv ==
  ASSUME MidiTypes, MidiInv, NEW c \in Clients, OpenSession(c)
  PROVE  MidiTypes' /\ MidiInv'
<1> DEFINE r == [call[c] EXCEPT !.pc = "capture"]
<1>1. call[c] \in CallRecord /\ CallFits(c) /\ call[c].pc = "open"
  BY DEF MidiTypes, MidiInv, OpenSession, CallAt
<1>2. r \in CallRecord /\ r.pc = "capture"
  BY <1>1 DEF CallRecord
<1>3. call' = [call EXCEPT ![c] = r] /\ call'[c] = r
  BY DEF OpenSession, Advance, MidiTypes
<1>4. CallFits(c)'
  BY <1>1, <1>3 DEF CallFits, Writing, CallRecord
<1>5. /\ doc' = doc /\ cached' = cached /\ active' = active /\ takeovers' = takeovers /\ pending' = pending
      /\ shown' = shown /\ crossed' = crossed /\ deskCached' = deskCached /\ attached' = attached /\ disp' = disp /\ stale' = stale
      /\ spent' = spent /\ out' = out /\ queue' = queue
      /\ learning' = c /\ box' = [box EXCEPT ![c] = None]
  BY DEF OpenSession, show, push
<1> HIDE DEF r
<1>6. MidiInv' /\ stale' \subseteq Clients /\ call' \in [Clients -> CallRecord]
  BY <1>1, <1>2, <1>3, <1>4, <1>5, CallStep
<1>7. box' \in [Clients -> Keys \cup {None}]
  BY <1>5 DEF MidiTypes
<1> QED BY <1>5, <1>6, <1>7 DEF MidiTypes

\* A learn has its key (CaptureCandidate).
LEMMA CaptureCandidateInv ==
  ASSUME MidiTypes, MidiInv, NEW c \in Clients, CaptureCandidate(c)
  PROVE  MidiTypes' /\ MidiInv'
<1> DEFINE r == [call[c] EXCEPT !.pc = "reload", !.key = box[c]]
<1>1. call[c] \in CallRecord /\ CallFits(c) /\ call[c].pc = "capture" /\ box[c] \in Keys
  BY DEF MidiTypes, MidiInv, CaptureCandidate, CallAt
<1>2. r \in CallRecord /\ r.pc = "reload"
  BY <1>1 DEF CallRecord
<1>3. call' = [call EXCEPT ![c] = r] /\ call'[c] = r
  BY DEF CaptureCandidate, MidiTypes
<1>4. CallFits(c)'
  BY <1>1, <1>3 DEF CallFits, Writing, CallRecord
<1>5. /\ doc' = doc /\ cached' = cached /\ active' = active /\ takeovers' = takeovers /\ pending' = pending
      /\ shown' = shown /\ crossed' = crossed /\ deskCached' = deskCached /\ attached' = attached /\ disp' = disp /\ stale' = stale
      /\ spent' = spent /\ out' = out /\ queue' = queue
      /\ learning' = learning /\ box' = [box EXCEPT ![c] = None]
  BY DEF CaptureCandidate, show, push
<1> HIDE DEF r
<1>6. MidiInv' /\ stale' \subseteq Clients /\ call' \in [Clients -> CallRecord]
  BY <1>1, <1>2, <1>3, <1>4, <1>5, CallStep
<1>7. box' \in [Clients -> Keys \cup {None}]
  BY <1>5 DEF MidiTypes
<1> QED BY <1>5, <1>6, <1>7 DEF MidiTypes

-----------------------------------------------------------------------------
\* The steps that load the show and prepare what will be saved

\* A show with the mappings of one surface set.
WithMappings(d, s, ms) == [d EXCEPT !.surfaces[s].mappings = ms]

\* Nothing but those mappings differs.
LEMMA SetMappings ==
  ASSUME NEW d \in ShowRecord, NEW s \in Surfaces, NEW ms \in SUBSET MappingRecord,
         NEW e, e = WithMappings(d, s, ms)
  PROVE  /\ e \in ShowRecord
         /\ e.scene = d.scene /\ e.layer = d.layer /\ e.desk = d.desk
         /\ e.surfaces[s].mappings = ms
         /\ e.surfaces[s].there = d.surfaces[s].there /\ e.surfaces[s].assigned = d.surfaces[s].assigned
         /\ \A x \in Surfaces \ {s} : e.surfaces[x] = d.surfaces[x]
<1>1. d.surfaces \in [Surfaces -> SurfaceRecord] /\ d.surfaces[s] \in SurfaceRecord
  BY DEF ShowRecord
<1> DEFINE r == [d.surfaces[s] EXCEPT !.mappings = ms]
           f == [d.surfaces EXCEPT ![s] = r]
<1>2. r \in SurfaceRecord /\ r.mappings = ms /\ r.there = d.surfaces[s].there /\ r.assigned = d.surfaces[s].assigned
  BY <1>1 DEF SurfaceRecord
<1>3. e = [d EXCEPT !.surfaces = f]
  BY DEF WithMappings
<1> HIDE DEF r
<1>4. f \in [Surfaces -> SurfaceRecord] /\ f[s] = r /\ \A x \in Surfaces \ {s} : f[x] = d.surfaces[x]
  BY <1>1, <1>2
<1> HIDE DEF f
<1>5. e \in ShowRecord /\ e.surfaces = f /\ e.scene = d.scene /\ e.layer = d.layer /\ e.desk = d.desk
  BY <1>3, <1>4 DEF ShowRecord
<1> QED BY <1>2, <1>4, <1>5

\* A show with the desk's mappings set.
WithDesk(d, ms) == [d EXCEPT !.desk = ms]

\* Nothing but those differs.
LEMMA SetDesk ==
  ASSUME NEW d \in ShowRecord, NEW ms \in SUBSET MappingRecord, NEW e, e = WithDesk(d, ms)
  PROVE  /\ e \in ShowRecord
         /\ e.scene = d.scene /\ e.layer = d.layer /\ e.desk = ms /\ e.surfaces = d.surfaces
BY DEF ShowRecord, WithDesk

\* The mappings of a show, by where they are.
LEMMA ShowParts ==
  ASSUME NEW d \in ShowRecord
  PROVE  /\ d.desk \subseteq MappingRecord /\ d.desk \subseteq SavedIn(d)
         /\ \A s \in Surfaces : d.surfaces[s].mappings \subseteq MappingRecord
                                /\ d.surfaces[s].mappings \subseteq SavedIn(d)
<1>1. d.desk \subseteq MappingRecord /\ \A s \in Surfaces : d.surfaces[s] \in SurfaceRecord
  BY DEF ShowRecord
<1>2. \A s \in Surfaces : d.surfaces[s].mappings \subseteq MappingRecord
  BY <1>1 DEF SurfaceRecord
<1>3. d.desk \subseteq SavedIn(d) /\ \A s \in Surfaces : d.surfaces[s].mappings \subseteq SavedIn(d)
  BY DEF SavedIn
<1> QED BY <1>1, <1>2, <1>3

\* A call that comes to save or to copy, and was not about to copy.
LEMMA WriteStep ==
  ASSUME MidiTypes, MidiInv, NEW c \in Clients, NEW r, call' = [call EXCEPT ![c] = r], r \in CallRecord,
         call[c].pc # "refresh", CallFits(c)', Identified', CaughtFaders',
         r.pc = "save" => OnlyOwn(c, call[c].doc, doc)', r.pc = "refresh" => r.doc = doc,
         doc' = doc, cached' = cached, active' = active, takeovers' = takeovers, pending' = pending, shown' = shown,
         crossed' = crossed, disp' = disp, stale' = stale \ {c}
  PROVE  MidiInv' /\ stale' \subseteq Clients /\ call' \in [Clients -> CallRecord]
<1>1. (\A x \in Clients \ {c} : call'[x] = call[x]) /\ call'[c] = r
  BY DEF MidiTypes
<1>2. \A x \in Clients : CallFits(x)'
  BY OthersFit DEF MidiInv, MidiTypes
<1>3. DispatchFits' /\ OneEachIn(doc)' /\ Told'
  BY DEF MidiInv, DispatchFits, OneEachIn, Told, ShownOf
<1>4. UpToDate'
  <2>1. \A x \in Clients \ {c} : OnlyOwn(x, call[x].doc, doc)' <=> OnlyOwn(x, call[x].doc, doc)
    BY <1>1 DEF OnlyOwn, Own
  <2>2. \A x \in Clients \ stale' : x # c => x \notin stale
    OBVIOUS
  <2> QED BY <1>1, <2>1, <2>2 DEF MidiInv, UpToDate
<1>5. CopySettles'
  <2> SUFFICES ASSUME ~crossed, active # None, doc.surfaces[active].there, cached # doc.surfaces[active].mappings
               PROVE  (\E x \in Clients : call[x].pc = "refresh" /\ call[x].kind \in {"learn", "remove"}
                                          /\ call[x].surface = active)'
    BY DEF CopySettles
  <2>1. PICK x \in Clients : call[x].pc = "refresh" /\ call[x].kind \in {"learn", "remove"} /\ call[x].surface = active
    BY DEF MidiInv, CopySettles
  <2> QED BY <1>1, <2>1
<1> QED BY <1>2, <1>3, <1>4, <1>5 DEF MidiInv, MidiTypes

\* What a call loaded has no mapping the show did not, and keeps what is not its own.
LEMMA LoadedFits ==
  ASSUME MidiTypes, MidiInv, NEW c \in Clients
  PROVE  LET d == Loaded(c)
         IN /\ d \in ShowRecord /\ OneEachIn(d) /\ SavedIn(d) \subseteq SavedIn(doc)
            /\ call[c].kind \in {"remove", "deskremove"} => OnlyOwn(c, d, doc)
            /\ call[c].kind \notin {"remove", "deskremove"} => d = doc
<1>1. doc \in ShowRecord /\ CallFits(c) /\ OneEachIn(doc)
  BY DEF MidiTypes, MidiInv
<1> DEFINE d == Loaded(c)
<1>2. CASE call[c].kind = "remove"
  <2> DEFINE s == call[c].surface
             ms == {m \in doc.surfaces[s].mappings : m.id # call[c].id}
  <2>1. s \in Surfaces
    BY <1>1, <1>2 DEF CallFits
  <2>2. ms \in SUBSET MappingRecord /\ ms \subseteq doc.surfaces[s].mappings
    BY <1>1, <2>1, ShowParts
  <2>3. d = WithMappings(doc, s, ms)
    BY <1>2 DEF Loaded, WithMappings
  <2> HIDE DEF d, s, ms
  <2>4. /\ d \in ShowRecord
        /\ d.scene = doc.scene /\ d.layer = doc.layer /\ d.desk = doc.desk
        /\ d.surfaces[s].mappings = ms
        /\ d.surfaces[s].there = doc.surfaces[s].there /\ d.surfaces[s].assigned = doc.surfaces[s].assigned
        /\ \A x \in Surfaces \ {s} : d.surfaces[x] = doc.surfaces[x]
    BY <1>1, <2>1, <2>2, <2>3, SetMappings
  <2>5. OneEachIn(d)
    BY <1>1, <2>2, <2>4 DEF OneEachIn, OneEach
  <2>6. SavedIn(d) \subseteq SavedIn(doc)
    <3>1. \A x \in Surfaces : d.surfaces[x].mappings \subseteq doc.surfaces[x].mappings
      BY <2>2, <2>4
    <3> QED BY <2>4, <3>1 DEF SavedIn
  <2>7. OnlyOwn(c, d, doc)
    BY <1>2, <2>4 DEF OnlyOwn, s
  <2> QED BY <1>2, <2>4, <2>5, <2>6, <2>7 DEF d
<1>3. CASE call[c].kind = "deskremove"
  <2> DEFINE ms == {m \in doc.desk : m.id # call[c].id}
  <2>1. ms \in SUBSET MappingRecord /\ ms \subseteq doc.desk
    BY <1>1, ShowParts
  <2>2. d = WithDesk(doc, ms)
    BY <1>3 DEF Loaded, WithDesk
  <2> HIDE DEF d, ms
  <2>3. d \in ShowRecord /\ d.scene = doc.scene /\ d.layer = doc.layer /\ d.desk = ms /\ d.surfaces = doc.surfaces
    BY <1>1, <2>1, <2>2, SetDesk
  <2>4. OneEachIn(d) /\ SavedIn(d) \subseteq SavedIn(doc)
    BY <1>1, <2>1, <2>3 DEF OneEachIn, OneEach, SavedIn
  <2>5. call[c].surface = None
    BY <1>1, <1>3 DEF CallFits
  <2>6. OnlyOwn(c, d, doc)
    BY <1>3, <2>3, <2>5 DEF OnlyOwn
  <2> QED BY <1>3, <2>3, <2>4, <2>6 DEF d
<1>4. CASE call[c].kind \notin {"remove", "deskremove"}
  <2>1. d = doc
    BY <1>4 DEF Loaded
  <2> QED BY <1>1, <1>4, <2>1
<1> QED BY <1>2, <1>3, <1>4

\* A call loads the show (show.Load).
LEMMA LoadInv ==
  ASSUME MidiTypes, MidiInv, NEW c \in Clients, Load(c)
  PROVE  MidiTypes' /\ MidiInv'
<1>1. CASE ~Admitted(c)
  <2>1. Answer(c)
    BY <1>1 DEF Load
  <2> QED BY <2>1, AnswerKeeps DEF Load, CallAt, push
<1>2. CASE Admitted(c)
  <2> DEFINE d == Loaded(c)
             r == [call[c] EXCEPT !.pc = After(call[c].kind), !.doc = d]
  <2>1. call[c] \in CallRecord /\ CallFits(c) /\ call[c].pc = "load"
    BY DEF MidiTypes, MidiInv, Load, CallAt
  <2>2. /\ d \in ShowRecord /\ OneEachIn(d) /\ SavedIn(d) \subseteq SavedIn(doc)
        /\ call[c].kind \in {"remove", "deskremove"} => OnlyOwn(c, d, doc)
        /\ call[c].kind \notin {"remove", "deskremove"} => d = doc
    BY LoadedFits
  <2> HIDE DEF d
  <2>3. call[c].kind \in {"learn", "remove", "deskremove", "activate"}
    BY <2>1 DEF CallRecord, CallFits
  <2>4. /\ r.pc = After(call[c].kind) /\ r.doc = d /\ r.kind = call[c].kind /\ r.surface = call[c].surface
        /\ r.target = call[c].target /\ r.key = call[c].key /\ r \in CallRecord
    BY <2>1, <2>2, <2>3 DEF CallRecord, After
  <2>5. call' = [call EXCEPT ![c] = r] /\ call'[c] = r
    BY <1>2 DEF Load, MidiTypes, d
  <2>6. /\ doc' = doc /\ cached' = cached /\ active' = active /\ takeovers' = takeovers /\ pending' = pending
        /\ shown' = shown /\ crossed' = crossed /\ deskCached' = deskCached /\ attached' = attached /\ disp' = disp /\ stale' = stale \ {c}
        /\ spent' = spent /\ out' = out /\ queue' = queue /\ learning' = learning /\ box' = box
    BY <1>2 DEF Load, push
  <2> HIDE DEF r
  <2>7. CallFits(c)'
    <3>1. CallFits(c)' <=>
            /\ r.kind \in {"learn", "remove", "activate"} => r.surface \in Surfaces
            /\ r.kind \in {"desklearn", "deskremove"} => r.surface = None
            /\ r.kind = "learn" => r.target \in Controls
            /\ r.kind = "desklearn" => r.target = "desk"
            /\ r.pc # "idle" => r.kind # "none"
            /\ r.pc \in {"open", "capture", "reload"} => r.kind \in {"learn", "desklearn"}
            /\ r.pc = "load" => r.kind # "desklearn"
            /\ r.pc = "save" => r.kind # "activate"
            /\ r.pc = "reload" => r.key \in Keys
            /\ r.pc \in {"save", "refresh"} => r.doc \in ShowRecord /\ OneEachIn(r.doc)
      BY <2>5 DEF CallFits, Writing
    <3>2. r.pc \in {"open", "save", "refresh"} /\ (r.pc = "open" => r.kind = "learn") /\ (r.pc = "save" => r.kind # "activate")
      BY <2>3, <2>4 DEF After
    <3> QED BY <2>1, <2>2, <2>3, <2>4, <3>1, <3>2 DEF CallFits
  <2>8. Identified' /\ CaughtFaders'
    <3>1. SavedIn(doc)' = SavedIn(doc)
      BY <2>6 DEF SavedIn
    <3>2. \A x \in Clients : Writing(x)' => SavedIn(call[x].doc)' \subseteq Copies
      <4> SUFFICES ASSUME NEW x \in Clients, Writing(x)'
                   PROVE  SavedIn(call[x].doc)' \subseteq Copies
        OBVIOUS
      <4>1. CASE x = c
        <5>1. SavedIn(call[x].doc)' = SavedIn(d)
          BY <2>4, <2>5, <4>1 DEF SavedIn
        <5> QED BY <5>1, <2>2, CopiesOf
      <4>2. CASE x # c
        <5>1. call'[x] = call[x]
          BY <2>5, <4>2 DEF MidiTypes
        <5>2. SavedIn(call[x].doc)' = SavedIn(call[x].doc) /\ Writing(x)
          BY <5>1 DEF SavedIn, Writing
        <5> QED BY <5>2, CopiesOf
      <4> QED BY <4>1, <4>2
    <3>3. Copies' \subseteq Copies
      BY <2>6, <3>1, <3>2, CopiesOf, CopiesWithin
    <3> QED BY <2>6, <3>3, IdentifiedStays DEF MidiInv
  <2>9. (r.pc = "save" => OnlyOwn(c, call[c].doc, doc)') /\ (r.pc = "refresh" => r.doc = doc)
    <3>1. OnlyOwn(c, call[c].doc, doc)' <=> OnlyOwn(c, d, doc)
      BY <2>4, <2>5, <2>6 DEF OnlyOwn, Own
    <3>2. (r.pc = "save" => call[c].kind \in {"remove", "deskremove"}) /\ (r.pc = "refresh" => call[c].kind = "activate")
      BY <2>3, <2>4 DEF After
    <3> QED BY <2>2, <2>4, <3>1, <3>2
  <2>10. MidiInv' /\ stale' \subseteq Clients /\ call' \in [Clients -> CallRecord]
    BY <2>1, <2>4, <2>5, <2>6, <2>7, <2>8, <2>9, WriteStep
  <2> QED BY <2>6, <2>10 DEF MidiTypes
<1> QED BY <1>1, <1>2

\* A mapping named anew shares its name with none.
LEMMA NewMapping ==
  ASSUME MidiTypes, MidiInv, NEW m, m.id = spent.ids + 1, Copies' \subseteq Copies \cup {m},
         spent'.ids = spent.ids + 1, takeovers' = takeovers
  PROVE  Identified' /\ CaughtFaders'
<1>1. spent.ids \in Nat
  BY DEF MidiTypes
<1>2. \A n \in Copies : n.id \in 1..spent.ids
  BY DEF MidiInv, Identified
<1>3. Identified'
  <2>1. \A n \in Copies' : n.id \in 1..spent'.ids
    BY <1>1, <1>2
  <2>2. \A n \in Copies : n.id # m.id
    BY <1>1, <1>2
  <2>3. \A n, o \in Copies' : n.id = o.id => n.key = o.key
    <3> SUFFICES ASSUME NEW n \in Copies', NEW o \in Copies', n.id = o.id
                 PROVE  n.key = o.key
      OBVIOUS
    <3>1. CASE n = m
      BY <2>2, <3>1
    <3>2. CASE o = m
      BY <2>2, <3>2
    <3>3. CASE n # m /\ o # m
      BY <3>3 DEF MidiInv, Identified
    <3> QED BY <3>1, <3>2, <3>3
  <2> QED BY <2>1, <2>3 DEF Identified
<1>4. CaughtFaders'
  <2>1. DOMAIN takeovers \subseteq 1..spent.ids
    BY DEF MidiInv, CaughtFaders
  <2>2. m.id \notin DOMAIN takeovers
    BY <1>1, <2>1
  <2>3. DOMAIN takeovers' \subseteq 1..spent'.ids
    BY <1>1, <2>1
  <2>4. \A n \in Copies' : n.id \in DOMAIN takeovers' => n.key \in Faders
    BY <2>2 DEF MidiInv, CaughtFaders
  <2> QED BY <2>3, <2>4 DEF MidiInv, CaughtFaders
<1> QED BY <1>3, <1>4

\* A learn adds one mapping, of a key its surface, or the desk, does not have.
LEMMA LearnedFits ==
  ASSUME MidiTypes, MidiInv, NEW c \in Clients, call[c].kind \in {"learn", "desklearn"}, call[c].key \in Keys,
         ProposeMapping(c)
  PROVE  LET d == Learned(c, doc)
         IN /\ d \in ShowRecord /\ OneEachIn(d) /\ OnlyOwn(c, d, doc)
            /\ SavedIn(d) \subseteq SavedIn(doc) \cup {Mapping(spent.ids + 1, call[c].key, call[c].target)}
<1> DEFINE d == Learned(c, doc)
           m == Mapping(spent.ids + 1, call[c].key, call[c].target)
<1>1. doc \in ShowRecord /\ CallFits(c) /\ OneEachIn(doc)
  BY DEF MidiTypes, MidiInv
<1>2. m \in MappingRecord /\ m.key = call[c].key
  <2>1. spent.ids + 1 \in Nat
    BY DEF MidiTypes
  <2>2. call[c].target \in Controls \cup {"master", "desk"}
    BY <1>1 DEF CallFits
  <2> QED BY <2>1, <2>2 DEF Mapping, MappingRecord
<1>3. \A n \in Own(c, doc) : n.key # m.key
  BY <1>2 DEF ProposeMapping
<1>4. CASE call[c].kind = "learn"
  <2> DEFINE s == call[c].surface
             ms == doc.surfaces[s].mappings \cup {m}
  <2>1. s \in Surfaces
    BY <1>1, <1>4 DEF CallFits
  <2>2. ms \in SUBSET MappingRecord /\ Own(c, doc) = doc.surfaces[s].mappings
    BY <1>1, <1>2, <1>4, <2>1, ShowParts DEF Own
  <2>3. d = WithMappings(doc, s, ms)
    BY <1>4 DEF Learned, WithMappings
  <2>4. OneEach(ms)
    <3>1. OneEach(doc.surfaces[s].mappings)
      BY <1>1, <2>1 DEF OneEachIn
    <3> HIDE DEF m, s
    <3> QED BY <1>3, <2>2, <3>1 DEF OneEach
  <2>5. doc.surfaces[s].mappings \subseteq ms /\ ms \subseteq doc.surfaces[s].mappings \cup {m}
    OBVIOUS
  <2> HIDE DEF d, s, ms, m
  <2>6. /\ d \in ShowRecord
        /\ d.scene = doc.scene /\ d.layer = doc.layer /\ d.desk = doc.desk
        /\ d.surfaces[s].mappings = ms
        /\ d.surfaces[s].there = doc.surfaces[s].there /\ d.surfaces[s].assigned = doc.surfaces[s].assigned
        /\ \A x \in Surfaces \ {s} : d.surfaces[x] = doc.surfaces[x]
    BY <1>1, <2>1, <2>2, <2>3, SetMappings
  <2>7. OneEachIn(d)
    BY <1>1, <2>4, <2>6 DEF OneEachIn
  <2>8. SavedIn(d) \subseteq SavedIn(doc) \cup {m}
    <3>1. \A x \in Surfaces : d.surfaces[x].mappings \subseteq doc.surfaces[x].mappings \cup {m}
      BY <2>5, <2>6
    <3> QED BY <2>6, <3>1 DEF SavedIn
  <2>9. OnlyOwn(c, d, doc)
    <3>1. Own(c, d) = ms
      BY <1>4, <2>6 DEF Own, s
    <3> QED BY <1>4, <2>2, <2>5, <2>6, <3>1 DEF OnlyOwn, s
  <2> QED BY <2>6, <2>7, <2>8, <2>9 DEF d, m
<1>5. CASE call[c].kind = "desklearn"
  <2> DEFINE ms == doc.desk \cup {m}
  <2>1. ms \in SUBSET MappingRecord /\ Own(c, doc) = doc.desk
    BY <1>1, <1>2, <1>5, ShowParts DEF Own
  <2>2. d = WithDesk(doc, ms)
    BY <1>5 DEF Learned, WithDesk
  <2>3. OneEach(ms)
    <3>1. OneEach(doc.desk)
      BY <1>1 DEF OneEachIn
    <3> HIDE DEF m
    <3> QED BY <1>3, <2>1, <3>1 DEF OneEach
  <2>4. doc.desk \subseteq ms /\ ms \subseteq doc.desk \cup {m}
    OBVIOUS
  <2> HIDE DEF d, ms, m
  <2>5. d \in ShowRecord /\ d.scene = doc.scene /\ d.layer = doc.layer /\ d.desk = ms /\ d.surfaces = doc.surfaces
    BY <1>1, <2>1, <2>2, SetDesk
  <2>6. OneEachIn(d)
    BY <1>1, <2>3, <2>5 DEF OneEachIn
  <2>7. SavedIn(d) \subseteq SavedIn(doc) \cup {m}
    BY <2>4, <2>5 DEF SavedIn
  <2>8. OnlyOwn(c, d, doc)
    <3>1. call[c].surface = None /\ Own(c, d) = ms
      BY <1>1, <1>5, <2>5 DEF CallFits, Own
    <3> QED BY <2>1, <2>4, <2>5, <3>1 DEF OnlyOwn
  <2> QED BY <2>5, <2>6, <2>7, <2>8 DEF d, m
<1> QED BY <1>4, <1>5

\* A learn loads the show again, and adds its mapping (StartLearn, ProposeMapping).
LEMMA ReloadInv ==
  ASSUME MidiTypes, MidiInv, NEW c \in Clients, Reload(c)
  PROVE  MidiTypes' /\ MidiInv'
<1> DEFINE proposed == (call[c].kind = "desklearn" \/ doc.surfaces[call[c].surface].there) /\ ProposeMapping(c)
<1>1. CASE ~proposed
  <2>1. Answer(c) /\ spent' = spent
    BY <1>1 DEF Reload
  <2> QED BY <2>1, AnswerKeeps DEF Reload, CallAt, push
<1>2. CASE proposed
  <2> DEFINE d == Learned(c, doc)
             m == Mapping(spent.ids + 1, call[c].key, call[c].target)
             r == [call[c] EXCEPT !.pc = "save", !.doc = d]
  <2>1. call[c] \in CallRecord /\ CallFits(c) /\ call[c].pc = "reload"
    BY DEF MidiTypes, MidiInv, Reload, CallAt
  <2>2. call[c].kind \in {"learn", "desklearn"} /\ call[c].key \in Keys /\ m.id = spent.ids + 1
    BY <2>1 DEF CallFits, Mapping
  <2>3. d \in ShowRecord /\ OneEachIn(d) /\ OnlyOwn(c, d, doc) /\ SavedIn(d) \subseteq SavedIn(doc) \cup {m}
    BY <1>2, <2>2, LearnedFits
  <2>4. call' = [call EXCEPT ![c] = r] /\ call'[c] = r
    BY <1>2 DEF Reload, MidiTypes
  <2>5. /\ doc' = doc /\ cached' = cached /\ active' = active /\ takeovers' = takeovers /\ pending' = pending
        /\ shown' = shown /\ crossed' = crossed /\ deskCached' = deskCached /\ attached' = attached /\ disp' = disp /\ stale' = stale \ {c}
        /\ out' = out /\ queue' = queue /\ learning' = learning /\ box' = box
    BY <1>2 DEF Reload, push
  <2>6. spent' \in [events : Nat, calls : Nat, edits : Nat, ids : Nat] /\ spent'.ids = spent.ids + 1
    BY <1>2 DEF Reload, MidiTypes
  <2> HIDE DEF d, m, proposed
  <2>7. /\ r.pc = "save" /\ r.doc = d /\ r.kind = call[c].kind /\ r.surface = call[c].surface
        /\ r.target = call[c].target /\ r.key = call[c].key /\ r \in CallRecord
    BY <2>1, <2>3 DEF CallRecord
  <2> HIDE DEF r
  <2>8. CallFits(c)'
    <3>1. CallFits(c)' <=>
            /\ r.kind \in {"learn", "remove", "activate"} => r.surface \in Surfaces
            /\ r.kind \in {"desklearn", "deskremove"} => r.surface = None
            /\ r.kind = "learn" => r.target \in Controls
            /\ r.kind = "desklearn" => r.target = "desk"
            /\ r.pc # "idle" => r.kind # "none"
            /\ r.pc \in {"open", "capture", "reload"} => r.kind \in {"learn", "desklearn"}
            /\ r.pc = "load" => r.kind # "desklearn"
            /\ r.pc = "save" => r.kind # "activate"
            /\ r.pc = "reload" => r.key \in Keys
            /\ r.pc \in {"save", "refresh"} => r.doc \in ShowRecord /\ OneEachIn(r.doc)
      BY <2>4 DEF CallFits, Writing
    <3> QED BY <2>1, <2>2, <2>3, <2>7, <3>1 DEF CallFits
  <2>9. Identified' /\ CaughtFaders'
    <3>1. SavedIn(doc)' = SavedIn(doc)
      BY <2>5 DEF SavedIn
    <3>2. \A x \in Clients : Writing(x)' => SavedIn(call[x].doc)' \subseteq Copies \cup {m}
      <4> SUFFICES ASSUME NEW x \in Clients, Writing(x)'
                   PROVE  SavedIn(call[x].doc)' \subseteq Copies \cup {m}
        OBVIOUS
      <4>1. CASE x = c
        <5>1. SavedIn(call[x].doc)' = SavedIn(d)
          BY <2>4, <2>7, <4>1 DEF SavedIn
        <5> QED BY <5>1, <2>3, CopiesOf
      <4>2. CASE x # c
        <5>1. call'[x] = call[x]
          BY <2>4, <4>2 DEF MidiTypes
        <5>2. SavedIn(call[x].doc)' = SavedIn(call[x].doc) /\ Writing(x)
          BY <5>1 DEF SavedIn, Writing
        <5> QED BY <5>2, CopiesOf
      <4> QED BY <4>1, <4>2
    <3>3. Copies' \subseteq Copies \cup {m}
      BY <2>5, <3>1, <3>2, CopiesOf, CopiesWithin
    <3> QED BY <2>2, <2>5, <2>6, <3>3, NewMapping
  <2>10. OnlyOwn(c, call[c].doc, doc)'
    <3>1. OnlyOwn(c, call[c].doc, doc)' <=> OnlyOwn(c, d, doc)
      BY <2>4, <2>5, <2>7 DEF OnlyOwn, Own
    <3> QED BY <2>3, <3>1
  <2>11. MidiInv' /\ stale' \subseteq Clients /\ call' \in [Clients -> CallRecord]
    BY <2>1, <2>4, <2>5, <2>7, <2>8, <2>9, <2>10, WriteStep
  <2> QED BY <2>5, <2>6, <2>11 DEF MidiTypes
<1> QED BY <1>1, <1>2

-----------------------------------------------------------------------------
\* The steps that save the show and copy what was saved

\* A call saves its show (show.Save).
LEMMA SaveInv ==
  ASSUME MidiTypes, MidiInv, NEW c \in Clients, Save(c)
  PROVE  MidiTypes' /\ MidiInv'
<1> DEFINE r == [call[c] EXCEPT !.pc = "refresh"]
<1>1. call[c] \in CallRecord /\ CallFits(c) /\ call[c].pc = "save"
  BY DEF MidiTypes, MidiInv, Save, CallAt
<1>2. call[c].doc \in ShowRecord /\ OneEachIn(call[c].doc)
  BY <1>1 DEF CallFits, Writing
<1>3. call' = [call EXCEPT ![c] = r] /\ call'[c] = r
  BY DEF Save, Advance, MidiTypes
<1>4. /\ r \in CallRecord /\ r.pc = "refresh" /\ r.doc = call[c].doc /\ r.kind = call[c].kind
      /\ r.surface = call[c].surface /\ r.target = call[c].target /\ r.key = call[c].key
  BY <1>1 DEF CallRecord
<1>5. /\ doc' = call[c].doc /\ cached' = cached /\ active' = active /\ takeovers' = takeovers /\ pending' = pending
      /\ shown' = shown /\ crossed' = (crossed \/ c \in stale) /\ deskCached' = deskCached /\ attached' = attached /\ disp' = disp
      /\ spent' = spent /\ out' = out /\ queue' = queue /\ learning' = learning /\ box' = box
      /\ stale' = {x \in Clients \ {c} : Writing(x)}
  BY DEF Save, SavedBy, Writing, midiService, push
<1> HIDE DEF r
<1>6. \A x \in Clients \ {c} : call'[x] = call[x]
  BY <1>3 DEF MidiTypes
<1>7. \A x \in Clients : CallFits(x)'
  <2>1. CallFits(c)'
    <3>1. CallFits(c)' <=>
            /\ r.kind \in {"learn", "remove", "activate"} => r.surface \in Surfaces
            /\ r.kind \in {"desklearn", "deskremove"} => r.surface = None
            /\ r.kind = "learn" => r.target \in Controls
            /\ r.kind = "desklearn" => r.target = "desk"
            /\ r.pc # "idle" => r.kind # "none"
            /\ r.pc \in {"open", "capture", "reload"} => r.kind \in {"learn", "desklearn"}
            /\ r.pc = "load" => r.kind # "desklearn"
            /\ r.pc = "save" => r.kind # "activate"
            /\ r.pc = "reload" => r.key \in Keys
            /\ r.pc \in {"save", "refresh"} => r.doc \in ShowRecord /\ OneEachIn(r.doc)
      BY <1>3 DEF CallFits, Writing
    <3> QED BY <1>1, <1>2, <1>4, <3>1 DEF CallFits
  <2> QED BY <1>3, <2>1, OthersFit DEF MidiInv, MidiTypes
<1>8. DispatchFits' /\ OneEachIn(doc)' /\ Told'
  <2>1. OneEachIn(doc)'
    BY <1>2, <1>5 DEF OneEachIn
  <2> QED BY <1>5, <2>1 DEF MidiInv, DispatchFits, Told, ShownOf
<1>9. Identified' /\ CaughtFaders'
  <2>1. SavedIn(call[c].doc) \subseteq Copies /\ Writing(c)
    BY <1>1, CopiesOf DEF Writing
  <2>2. SavedIn(doc)' = SavedIn(call[c].doc)
    BY <1>5 DEF SavedIn
  <2>3. \A x \in Clients : Writing(x)' => SavedIn(call[x].doc)' \subseteq Copies
    <3> SUFFICES ASSUME NEW x \in Clients, Writing(x)'
                 PROVE  SavedIn(call[x].doc)' \subseteq Copies
      OBVIOUS
    <3>1. Writing(x) /\ call'[x].doc = call[x].doc
      BY <1>3, <1>4, <1>6, <2>1 DEF Writing
    <3>2. SavedIn(call[x].doc)' = SavedIn(call[x].doc)
      BY <3>1 DEF SavedIn
    <3> QED BY <3>1, <3>2, CopiesOf
  <2>4. Copies' \subseteq Copies
    BY <1>5, <2>1, <2>2, <2>3, CopiesOf, CopiesWithin
  <2> QED BY <1>5, <2>4, IdentifiedStays DEF MidiInv
<1>10. UpToDate'
  <2> SUFFICES ASSUME NEW x \in Clients \ stale'
               PROVE  /\ call'[x].pc = "save" => OnlyOwn(x, call[x].doc, doc)'
                      /\ call'[x].pc = "refresh" => call'[x].doc = doc'
    BY DEF UpToDate
  <2>1. CASE x = c
    BY <1>3, <1>4, <1>5, <2>1
  <2>2. CASE x # c
    BY <1>5, <1>6, <2>2 DEF Writing
  <2> QED BY <2>1, <2>2
<1>11. CopySettles'
  <2> SUFFICES ASSUME ~crossed', active # None, doc'.surfaces[active].there, cached # doc'.surfaces[active].mappings
               PROVE  (\E x \in Clients : call[x].pc = "refresh" /\ call[x].kind \in {"learn", "remove"}
                                          /\ call[x].surface = active)'
    BY <1>5 DEF CopySettles
  <2>1. c \notin stale /\ ~crossed /\ active \in Surfaces
    BY <1>5 DEF MidiTypes
  <2>2. OnlyOwn(c, doc', doc)
    BY <1>1, <1>5, <2>1 DEF MidiInv, UpToDate
  <2>3. CASE call[c].surface = active
    <3>1. call[c].kind \in {"learn", "remove"}
      BY <1>1, <2>1, <2>3, MidiAssumption DEF CallFits, CallRecord
    <3> QED BY <1>3, <1>4, <1>5, <2>3, <3>1
  <2>4. CASE call[c].surface # active
    <3>1. doc'.surfaces[active] = doc.surfaces[active]
      BY <2>1, <2>2, <2>4 DEF OnlyOwn
    <3>2. PICK x \in Clients : call[x].pc = "refresh" /\ call[x].kind \in {"learn", "remove"} /\ call[x].surface = active
      BY <2>1, <3>1 DEF MidiInv, CopySettles
    <3> QED BY <1>1, <1>5, <1>6, <3>2
  <2> QED BY <2>3, <2>4
<1>12. call' \in [Clients -> CallRecord] /\ stale' \subseteq Clients
  BY <1>3, <1>4, <1>5 DEF MidiTypes
<1>13. MidiTypes'
  BY <1>2, <1>5, <1>12 DEF MidiTypes
<1> QED BY <1>7, <1>8, <1>9, <1>10, <1>11, <1>13 DEF MidiInv

\* What a call copies was in the show it saved or loaded.
LEMMA OwnWithin ==
  ASSUME NEW c \in Clients, CallFits(c), call[c].kind # "none", call[c].doc \in ShowRecord, call[c] \in CallRecord
  PROVE  Own(c, call[c].doc) \subseteq SavedIn(call[c].doc) /\ Own(c, call[c].doc) \subseteq MappingRecord
<1>1. CASE call[c].kind \in {"desklearn", "deskremove"}
  BY <1>1, ShowParts DEF Own
<1>2. CASE call[c].kind \notin {"desklearn", "deskremove"}
  <2>1. call[c].surface \in Surfaces
    BY <1>2 DEF CallFits, CallRecord
  <2> QED BY <1>2, <2>1, ShowParts DEF Own
<1> QED BY <1>1, <1>2

\* A call copies what it saved or loaded (refreshActiveSurfaceMappings).
LEMMA RefreshInv ==
  ASSUME MidiTypes, MidiInv, NEW c \in Clients, Refresh(c)
  PROVE  MidiTypes' /\ MidiInv'
<1>1. call[c] \in CallRecord /\ CallFits(c) /\ call[c].pc = "refresh" /\ Writing(c)
  BY DEF MidiTypes, MidiInv, Refresh, CallAt, Writing
<1>2. call[c].doc \in ShowRecord /\ call[c].kind # "none"
  BY <1>1 DEF CallFits
<1>3. Own(c, call[c].doc) \subseteq SavedIn(call[c].doc) /\ Own(c, call[c].doc) \subseteq MappingRecord
  BY <1>1, <1>2, OwnWithin
<1>4. /\ call' = [call EXCEPT ![c] = NoCall] /\ call'[c] = NoCall /\ CallFits(c)'
      /\ learning' \in Clients \cup {None} /\ box' \in [Clients -> Keys \cup {None}]
  BY AnswerFits DEF Refresh
<1>5. \A x \in Clients \ {c} : call'[x] = call[x]
  BY <1>4 DEF MidiTypes
<1>6. /\ doc' = doc /\ pending' = pending /\ shown' = shown /\ disp' = disp /\ spent' = spent /\ out' = out
      /\ queue' = queue /\ crossed' = (crossed \/ c \in stale) /\ stale' = stale \ {c} /\ attached' = attached
      /\ takeovers' = Restrict(takeovers, DOMAIN takeovers \ {call[c].id})
  BY DEF Refresh, push
<1>7. /\ cached' \in {cached, Own(c, call[c].doc)} /\ deskCached' \in {deskCached, Own(c, call[c].doc)}
      /\ active' \in Surfaces \cup {None}
  <2>1. CASE call[c].kind \in {"desklearn", "deskremove"}
    BY <2>1 DEF Refresh, refreshDeskMappings, MidiTypes
  <2>2. CASE call[c].kind \notin {"desklearn", "deskremove"}
    BY <1>1, <2>2 DEF Refresh, refreshActiveSurfaceMappings, MidiTypes, CallRecord
  <2> QED BY <2>1, <2>2
<1>8. /\ DOMAIN takeovers' \subseteq DOMAIN takeovers
      /\ \A i \in DOMAIN takeovers' : takeovers'[i] = takeovers[i]
  BY <1>6 DEF Restrict
<1>9. MidiTypes'
  <2>1. call' \in [Clients -> CallRecord]
    BY <1>4, NoCallFits DEF MidiTypes
  <2>2. cached' \subseteq MappingRecord /\ deskCached' \subseteq MappingRecord
    BY <1>3, <1>7 DEF MidiTypes
  <2>3. \A i \in DOMAIN takeovers' : takeovers'[i] \in TakeoverRecord
    BY <1>8 DEF MidiTypes
  <2> QED BY <1>4, <1>6, <1>7, <2>1, <2>2, <2>3 DEF MidiTypes
<1>10. \A x \in Clients : CallFits(x)'
  BY <1>4, OthersFit DEF MidiInv, MidiTypes
<1>11. DispatchFits' /\ OneEachIn(doc)'
  BY <1>6 DEF MidiInv, DispatchFits, OneEachIn
<1>12. Copies' \subseteq Copies
  <2>1. SavedIn(call[c].doc) \subseteq Copies
    BY <1>1, CopiesOf
  <2>2. SavedIn(doc)' = SavedIn(doc)
    BY <1>6 DEF SavedIn
  <2>3. \A x \in Clients : Writing(x)' => SavedIn(call[x].doc)' \subseteq Copies
    <3> SUFFICES ASSUME NEW x \in Clients, Writing(x)'
                 PROVE  SavedIn(call[x].doc)' \subseteq Copies
      OBVIOUS
    <3>1. x # c
      BY <1>4, NoCallFits DEF Writing
    <3>2. SavedIn(call[x].doc)' = SavedIn(call[x].doc) /\ Writing(x)
      BY <1>5, <3>1 DEF SavedIn, Writing
    <3> QED BY <3>2, CopiesOf
  <2>4. attached.desk' \subseteq Copies
    BY <1>6, CopiesOf
  <2> QED BY <1>3, <1>7, <2>1, <2>2, <2>3, <2>4, CopiesOf, CopiesWithin
<1>13. Identified' /\ CaughtFaders'
  <2>1. Identified'
    BY <1>6, <1>12 DEF MidiInv, Identified
  <2>2. CaughtFaders'
    BY <1>6, <1>8, <1>12 DEF MidiInv, CaughtFaders
  <2> QED BY <2>1, <2>2
<1>14. Told'
  BY <1>6, <1>8 DEF MidiInv, Told, ShownOf
<1>15. UpToDate'
  <2>1. \A x \in Clients \ {c} : OnlyOwn(x, call[x].doc, doc)' <=> OnlyOwn(x, call[x].doc, doc)
    BY <1>5, <1>6 DEF OnlyOwn, Own
  <2>2. call'[c].pc = "idle"
    BY <1>4 DEF NoCall
  <2> QED BY <1>5, <1>6, <2>1, <2>2 DEF MidiInv, UpToDate
<1>16. CopySettles'
  <2> SUFFICES ASSUME ~crossed', active' # None, doc.surfaces[active'].there, cached' # doc.surfaces[active'].mappings
               PROVE  (\E x \in Clients : call[x].pc = "refresh" /\ call[x].kind \in {"learn", "remove"}
                                          /\ call[x].surface = active)'
    BY <1>6 DEF CopySettles
  <2>1. ~crossed /\ call[c].doc = doc
    BY <1>1, <1>6 DEF MidiInv, UpToDate
  <2>2. active' = active /\ cached' = cached /\ ~(call[c].kind \in {"learn", "remove"} /\ call[c].surface = active)
    <3>1. CASE call[c].kind \in {"desklearn", "deskremove"}
      BY <3>1 DEF Refresh
    <3>2. CASE call[c].kind \notin {"desklearn", "deskremove"}
      <4>1. /\ active' = IF call[c].kind = "activate" THEN call[c].surface ELSE active
            /\ cached' = IF active' = call[c].surface THEN doc.surfaces[call[c].surface].mappings ELSE cached
        BY <2>1, <3>2 DEF Refresh, refreshActiveSurfaceMappings, Own
      <4> QED BY <4>1
    <3> QED BY <3>1, <3>2
  <2>3. PICK x \in Clients : call[x].pc = "refresh" /\ call[x].kind \in {"learn", "remove"} /\ call[x].surface = active
    BY <2>1, <2>2 DEF MidiInv, CopySettles
  <2>4. x # c
    BY <2>2, <2>3
  <2> QED BY <1>5, <2>2, <2>3, <2>4
<1> QED BY <1>9, <1>10, <1>11, <1>13, <1>14, <1>15, <1>16 DEF MidiInv

-----------------------------------------------------------------------------
\* A save of another process

\* Another process saves the show: the copies of the calls are stale.
LEMMA OutsideInv ==
  ASSUME MidiTypes, MidiInv, Outside
  PROVE  MidiTypes' /\ MidiInv'
<1>1. doc \in ShowRecord /\ doc.surfaces \in [Surfaces -> SurfaceRecord] /\ OneEachIn(doc)
  BY DEF MidiTypes, MidiInv, ShowRecord
<1>2. /\ doc' \in ShowRecord /\ doc'.desk = doc.desk
      /\ \A s \in Surfaces : \/ doc'.surfaces[s].mappings = doc.surfaces[s].mappings
                                /\ doc'.surfaces[s].there = doc.surfaces[s].there
                             \/ doc'.surfaces[s].mappings = {} /\ ~doc'.surfaces[s].there
  <2>1. CASE doc' = [doc EXCEPT !.scene = FALSE,
                                !.surfaces = [s \in Surfaces |-> [doc.surfaces[s] EXCEPT !.assigned = @ \ {"scene", "layer"}]]]
    <3> DEFINE f == [s \in Surfaces |-> [doc.surfaces[s] EXCEPT !.assigned = @ \ {"scene", "layer"}]]
    <3>1. \A s \in Surfaces : [doc.surfaces[s] EXCEPT !.assigned = @ \ {"scene", "layer"}] \in SurfaceRecord
      BY <1>1 DEF SurfaceRecord
    <3>2. f \in [Surfaces -> SurfaceRecord]
      BY <3>1
    <3>3. \A s \in Surfaces : f[s].mappings = doc.surfaces[s].mappings /\ f[s].there = doc.surfaces[s].there
      BY <1>1 DEF SurfaceRecord
    <3>4. doc' = [[doc EXCEPT !.scene = FALSE] EXCEPT !.surfaces = f]
      BY <2>1
    <3> HIDE DEF f
    <3>5. doc' \in ShowRecord /\ doc'.desk = doc.desk /\ doc'.surfaces = f
      BY <1>1, <3>2, <3>4 DEF ShowRecord
    <3> QED BY <3>3, <3>5
  <2>2. CASE \E s \in Surfaces :
               doc' = [doc EXCEPT !.surfaces[s] = [there |-> FALSE, assigned |-> {}, mappings |-> {}]]
    <3>1. PICK s \in Surfaces :
            doc' = [doc EXCEPT !.surfaces[s] = [there |-> FALSE, assigned |-> {}, mappings |-> {}]]
      BY <2>2
    <3> DEFINE gone == [there |-> FALSE, assigned |-> {}, mappings |-> {}]
               f == [doc.surfaces EXCEPT ![s] = gone]
    <3>2. gone \in SurfaceRecord /\ gone.mappings = {} /\ ~gone.there
      BY DEF SurfaceRecord
    <3>3. doc' = [doc EXCEPT !.surfaces = f]
      BY <3>1
    <3> HIDE DEF gone
    <3>4. f \in [Surfaces -> SurfaceRecord] /\ f[s] = gone /\ \A x \in Surfaces \ {s} : f[x] = doc.surfaces[x]
      BY <1>1, <3>2
    <3> HIDE DEF f
    <3>5. doc' \in ShowRecord /\ doc'.desk = doc.desk /\ doc'.surfaces = f
      BY <1>1, <3>3, <3>4 DEF ShowRecord
    <3> QED BY <3>2, <3>4, <3>5
  <2> QED BY <2>1, <2>2 DEF Outside
<1>3. /\ cached' = cached /\ active' = active /\ takeovers' = takeovers /\ pending' = pending
      /\ shown' = shown /\ crossed' = crossed /\ deskCached' = deskCached /\ attached' = attached /\ disp' = disp /\ call' = call
      /\ out' = out /\ queue' = queue /\ learning' = learning /\ box' = box
      /\ stale' = {x \in Clients : Writing(x)}
  BY NoneIsNoCall DEF Outside, SavedBy, Writing, midiService, push
<1>4. spent' \in [events : Nat, calls : Nat, edits : Nat, ids : Nat] /\ spent'.ids = spent.ids
  BY DEF Outside, MidiTypes
<1>5. MidiTypes'
  BY <1>2, <1>3, <1>4 DEF MidiTypes
<1>6. \A x \in Clients : CallFits(x)'
  BY <1>3, SameFit DEF MidiInv
<1>7. OneEachIn(doc)'
  BY <1>1, <1>2 DEF OneEachIn, OneEach
<1>8. Copies' \subseteq Copies
  <2>1. SavedIn(doc)' \subseteq SavedIn(doc)
    <3>1. \A s \in Surfaces : doc'.surfaces[s].mappings \subseteq doc.surfaces[s].mappings
      BY <1>2
    <3> QED BY <1>2, <3>1 DEF SavedIn
  <2>2. \A x \in Clients : Writing(x)' => SavedIn(call[x].doc)' \subseteq Copies
    BY <1>3, CopiesOf DEF SavedIn, Writing
  <2> QED BY <1>3, <2>1, <2>2, CopiesOf, CopiesWithin
<1>9. Identified' /\ CaughtFaders'
  BY <1>3, <1>4, <1>8, IdentifiedStays DEF MidiInv
<1>10. DispatchFits' /\ Told'
  BY <1>3 DEF MidiInv, DispatchFits, Told, ShownOf
<1>11. UpToDate'
  BY <1>3 DEF UpToDate, Writing
<1>12. CopySettles'
  <2> SUFFICES ASSUME ~crossed, active # None, doc'.surfaces[active].there
               PROVE  \/ cached = doc'.surfaces[active].mappings
                      \/ \E c \in Clients : call[c].pc = "refresh" /\ call[c].kind \in {"learn", "remove"} /\ call[c].surface = active
    BY <1>3 DEF CopySettles
  <2>1. doc'.surfaces[active].mappings = doc.surfaces[active].mappings /\ doc.surfaces[active].there
    BY <1>2 DEF MidiTypes
  <2> QED BY <2>1 DEF MidiInv, CopySettles
<1> QED BY <1>5, <1>6, <1>7, <1>9, <1>10, <1>11, <1>12 DEF MidiInv

-----------------------------------------------------------------------------
\* The invariant, and what it gives

\* Every step keeps the invariant.
LEMMA MidiNextInv == MidiTypes /\ MidiInv /\ [MidiNext]_midiVars => MidiTypes' /\ MidiInv'
<1> SUFFICES ASSUME MidiTypes, MidiInv, [MidiNext]_midiVars
             PROVE  MidiTypes' /\ MidiInv'
  OBVIOUS
<1>1. CASE AttachDriver \/ LoadFails
  BY <1>1, AttachingInv DEF Attaching
<1>2. CASE \E k \in Keys, v \in Positions : Listen(k, v)
  BY <1>2, ListenInv
<1>3. CASE Dispatch
  BY <1>3, RouteInv, CaptureInv, SurfaceInv, LayerToggleInv, DeskInv, AttachingInv DEF Dispatch, Attaching
<1>4. CASE flushFeedback
  BY <1>4, FlushInv
<1>5. CASE CancelLearn
  BY <1>5, CancelLearnInv
<1>6. CASE Outside
  BY <1>6, OutsideInv
<1>7. CASE \E c \in Clients : Calls(c)
  BY <1>7, CallsInv
<1>8. CASE \E c \in Clients : Proceed(c)
  BY <1>8, LoadInv, OpenSessionInv, CaptureCandidateInv, LearnTimeoutInv, ReloadInv, SaveInv, RefreshInv, CallFailsInv
    DEF Proceed
<1>9. CASE UNCHANGED midiVars
  <2>1. /\ doc' = doc /\ stale' = stale /\ cached' = cached /\ active' = active /\ takeovers' = takeovers
        /\ pending' = pending /\ shown' = shown /\ crossed' = crossed /\ deskCached' = deskCached /\ attached' = attached /\ disp' = disp
        /\ call' = call /\ out' = out /\ queue' = queue /\ learning' = learning /\ box' = box /\ spent' = spent
    BY <1>9 DEF midiVars, show, midiService, push
  <2>2. MidiTypes'
    BY <2>1 DEF MidiTypes
  <2>3. Quietly
    BY <2>1 DEF Quietly
  <2>4. (\A x \in Clients : CallFits(x)') /\ DispatchFits'
    BY <2>1, SameFit DEF MidiInv, DispatchFits
  <2> QED BY <2>2, <2>3, <2>4, QuietCall DEF MidiInv
<1> QED BY <1>1, <1>2, <1>3, <1>4, <1>5, <1>6, <1>7, <1>8, <1>9 DEF MidiNext

\* The inductive invariant of the MIDI service: an identifier names one key in
\* every copy of the mappings, and a call that nobody saved since holds the show
\* but for what it is about (svc_midi.go).
THEOREM MidiInvariant == MidiSpec => [](MidiTypes /\ MidiInv)
<1>1. MidiInit => MidiTypes /\ MidiInv
  BY MidiInitInv
<1>2. MidiTypes /\ MidiInv /\ [MidiNext]_midiVars => MidiTypes' /\ MidiInv'
  BY MidiNextInv
<1> QED BY <1>1, <1>2, PTL DEF MidiSpec

\* What the invariant gives: the copies, the show and the feedback agree.
LEMMA InvImpliesAgree == MidiTypes /\ MidiInv => MappingsAgree
<1> SUFFICES ASSUME MidiTypes, MidiInv
             PROVE  MappingsAgree
  OBVIOUS
<1>1. doc \in ShowRecord
  BY DEF MidiTypes
<1>2. MidiTypeOK
  <2>1. Mappings = SavedIn(doc)
    BY DEF Mappings, SavedIn
  <2>2. Mappings \subseteq MappingRecord
    <3>1. doc.desk \subseteq MappingRecord /\ \A s \in Surfaces : doc.surfaces[s].mappings \subseteq MappingRecord
      BY <1>1, ShowParts
    <3> QED BY <3>1 DEF Mappings
  <2>3. \A m \in Mappings : m.id \in 1..spent.ids /\ m.key \in Keys
    BY <2>1, <2>2, CopiesOf DEF MidiInv, Identified, MappingRecord
  <2>4. \A i \in DOMAIN takeovers : takeovers[i].app \in Positions /\ takeovers[i].last \in Positions
    BY DEF MidiTypes, TakeoverRecord
  <2> QED BY <2>3, <2>4 DEF MidiTypeOK, MidiTypes
<1>3. OneMappingPerKey
  BY DEF OneMappingPerKey, MidiInv, OneEachIn, OneEach
<1>4. DispatchesOnSavedMappings
  BY DEF DispatchesOnSavedMappings, MidiInv, CopySettles, CallAt
<1>5. FeedbackIsLatest
  <2> SUFFICES ASSUME pending = <<>>, NEW i \in DOMAIN takeovers
               PROVE  shown[i] = [armed |-> takeovers[i].armed, app |-> takeovers[i].app, physical |-> takeovers[i].last]
    BY DEF FeedbackIsLatest
  <2>1. i \notin DOMAIN pending
    OBVIOUS
  <2> QED BY <2>1 DEF MidiInv, Told, ShownOf
<1> QED BY <1>2, <1>3, <1>4, <1>5 DEF MappingsAgree

\* The mappings saved, the ones messages are dispatched on and the feedback of
\* each fader agree, whatever learns, removals, selections, messages and saves
\* of other processes run at once (StartLearn, refreshActiveSurfaceMappings,
\* EventPusher.flush).
THEOREM MappingsStayInAgreement == MidiSpec => []MappingsAgree
BY MidiInvariant, InvImpliesAgree, PTL

-----------------------------------------------------------------------------
\* What a step may not do

\* Whether a message moves a fader that was at t.last to the marker or across it.
Crosses(t, v) ==
  \/ t.last # None /\ t.last <= t.app /\ v >= t.app
  \/ t.last # None /\ t.last >= t.app /\ v <= t.app

\* An update catches a fader only at the marker, or across it.
LEMMA UpdateArms ==
  ASSUME NEW t, NEW v, t.armed \in BOOLEAN
  PROVE  Update(t, v).last = v /\ (Update(t, v).armed => t.armed \/ Crosses(t, v))
<1> DEFINE arms == t.armed \/ Crosses(t, v)
           app1 == IF arms THEN v ELSE t.app
<1>1. Update(t, v) = [armed |-> arms, app |-> app1, last |-> v]
  BY DEF Update, Crosses
<1>2. arms \in BOOLEAN
  BY DEF Crosses
<1> HIDE DEF arms, app1
<1>3. Update(t, v).armed = arms /\ Update(t, v).last = v
  BY <1>1
<1> QED BY <1>3 DEF arms

\* A message makes a fader caught only at the marker, or across it.
LEMMA PlaysNoJump ==
  ASSUME MidiTypes, MidiInv, NEW m, NEW k, NEW v \in Positions, takeovers' = Arbitrated(m, k, v).takeovers,
         NEW i \in DOMAIN takeovers', takeovers'[i].armed
  PROVE  \/ i \in DOMAIN takeovers /\ takeovers[i].armed
         \/ /\ i \in DOMAIN takeovers /\ takeovers[i].last # None
            /\ (takeovers[i].last - Marker) * (takeovers'[i].last - Marker) <= 0
<1>1. CASE k \in Buttons
  BY <1>1 DEF Arbitrated
<1>2. CASE k \notin Buttons
  <2> DEFINE s == takeoverStateFor(m)
             t == Update(s, v)
  <2>1. takeovers' = Put(takeovers, m, t)
    BY <1>2 DEF Arbitrated
  <2>2. i # m => i \in DOMAIN takeovers /\ takeovers'[i] = takeovers[i]
    BY <2>1 DEF Put
  <2>3. i = m => takeovers'[i] = t
    BY <2>1 DEF Put
  <2>4. CASE i # m
    BY <2>2, <2>4
  <2>5. CASE i = m /\ m \notin DOMAIN takeovers
    <3>1. s.armed = FALSE /\ s.last = None
      BY <2>5 DEF takeoverStateFor, NewTakeoverState
    <3>2. t.armed
      BY <2>3, <2>5
    <3> HIDE DEF s
    <3>3. s.armed \in BOOLEAN
      BY <3>1
    <3>4. t.armed => s.armed \/ s.last # None
      BY <3>3, UpdateArms DEF Crosses
    <3> HIDE DEF t
    <3> QED BY <3>1, <3>2, <3>4
  <2>6. CASE i = m /\ m \in DOMAIN takeovers
    <3>1. s = takeovers[i] /\ s \in TakeoverRecord /\ (s.armed \/ s.app = Marker)
      BY <2>6 DEF takeoverStateFor, MidiTypes, MidiInv, CaughtFaders
    <3>2. CASE ~s.armed
      <4>1. /\ s.last # None
            /\ \/ s.last <= Marker /\ v >= Marker
               \/ s.last >= Marker /\ v <= Marker
        <5>1. t.armed /\ s.app = Marker /\ s.armed \in BOOLEAN
          BY <2>3, <2>6, <3>1, <3>2 DEF TakeoverRecord
        <5> HIDE DEF s
        <5>2. Crosses(s, v)
          BY <3>2, <5>1, UpdateArms
        <5> QED BY <5>1, <5>2 DEF Crosses
      <4>2. takeovers'[i].last = v
        <5>1. s.armed \in BOOLEAN
          BY <3>1 DEF TakeoverRecord
        <5> HIDE DEF s
        <5> QED BY <2>3, <2>6, <5>1, UpdateArms
      <4>3. (s.last - Marker) * (v - Marker) <= 0
        <5>1. s.last \in {0, 1, 2} /\ v \in {0, 1, 2}
          BY <3>1 DEF TakeoverRecord, Positions
        <5> HIDE DEF s
        <5> QED BY <4>1, <5>1 DEF Marker
      <4> QED BY <2>6, <3>1, <4>1, <4>2, <4>3
    <3>3. CASE s.armed
      BY <2>6, <3>1, <3>3
    <3> QED BY <3>2, <3>3
  <2> QED BY <2>4, <2>5, <2>6
<1> QED BY <1>1, <1>2

\* The takeovers a step leaves are those before it, some dropped, or a message's.
LEMMA TakeoverSteps ==
  ASSUME MidiTypes, MidiInv, MidiNext
  PROVE  \/ DOMAIN takeovers' \subseteq DOMAIN takeovers /\ \A i \in DOMAIN takeovers' : takeovers'[i] = takeovers[i]
         \/ \E m, k, v : v \in Positions /\ takeovers' = Arbitrated(m, k, v).takeovers
<1> DEFINE G == \/ DOMAIN takeovers' \subseteq DOMAIN takeovers /\ \A i \in DOMAIN takeovers' : takeovers'[i] = takeovers[i]
                \/ \E m, k, v : v \in Positions /\ takeovers' = Arbitrated(m, k, v).takeovers
<1>1. takeovers' = takeovers => G
  OBVIOUS
<1>2. disp.value \in Positions
  BY DEF MidiTypes, EventRecord
<1>3. dispatchToActiveSurface => G
  <2>1. dispatchToActiveSurface =>
          takeovers' = takeovers \/ \E m : takeovers' = Arbitrated(m, disp.key, disp.value).takeovers
    BY DEF dispatchToActiveSurface
  <2> QED BY <1>2, <2>1
<1>4. dispatchToDeskMappings => G
  <2>1. dispatchToDeskMappings =>
          takeovers' = takeovers \/ \E m : takeovers' = Arbitrated(m, disp.key, disp.value).takeovers
    BY DEF dispatchToDeskMappings
  <2> QED BY <1>2, <2>1
<1>5. \A c \in Clients : Refresh(c) => G
  BY DEF Refresh, Restrict
<1>6. Attaching \/ route \/ Capture \/ dispatchLayerToggle \/ flushFeedback \/ CancelLearn \/ Outside
      \/ (\E k \in Keys, v \in Positions : Listen(k, v)) => takeovers' = takeovers
  BY DEF Attaching, AttachDriver, ensureDeskMappingsLoaded, CopyLoaded, LoadFails, LoadLazily, route, Capture,
         dispatchLayerToggle, flushFeedback, CancelLearn, Outside, Listen, midiService
<1>7. \A c \in Clients : Calls(c) => takeovers' = takeovers
  BY DEF Calls, StartDeskLearn, SetActiveSurface, StartLearn, RemoveMapping, RemoveDeskMapping, Begin, midiService
<1>8. \A c \in Clients : Proceed(c) => Refresh(c) \/ takeovers' = takeovers
  BY DEF Proceed, Load, OpenSession, CaptureCandidate, LearnTimeout, Reload, Save, CallFails, midiService
<1> HIDE DEF G
<1> SUFFICES G
  BY DEF G
<1> QED BY <1>1, <1>3, <1>4, <1>5, <1>6, <1>7, <1>8 DEF MidiNext, Dispatch, Attaching

\* A fader not caught yet moves nothing until it reaches its marker
\* (TakeoverState.Update).
THEOREM NoFaderJumps == MidiSpec => NoJumpPastMarker
<1>1. MidiTypes /\ MidiInv /\ [MidiNext]_midiVars
      => [\A i \in DOMAIN takeovers' : takeovers'[i].armed =>
            \/ i \in DOMAIN takeovers /\ takeovers[i].armed
            \/ /\ i \in DOMAIN takeovers /\ takeovers[i].last # None
               /\ (takeovers[i].last - Marker) * (takeovers'[i].last - Marker) <= 0]_midiVars
  <2> SUFFICES ASSUME MidiTypes, MidiInv, MidiNext, NEW i \in DOMAIN takeovers', takeovers'[i].armed
               PROVE  \/ i \in DOMAIN takeovers /\ takeovers[i].armed
                      \/ /\ i \in DOMAIN takeovers /\ takeovers[i].last # None
                         /\ (takeovers[i].last - Marker) * (takeovers'[i].last - Marker) <= 0
    OBVIOUS
  <2>1. CASE DOMAIN takeovers' \subseteq DOMAIN takeovers /\ \A j \in DOMAIN takeovers' : takeovers'[j] = takeovers[j]
    BY <2>1
  <2>2. CASE \E m, k, v : v \in Positions /\ takeovers' = Arbitrated(m, k, v).takeovers
    BY <2>2, PlaysNoJump
  <2> QED BY <2>1, <2>2, TakeoverSteps
<1> QED BY <1>1, MidiInvariant, PTL DEF NoJumpPastMarker, MidiSpec

\* Only its own save takes a call from saving to copying.
LEMMA OnlySaveSaves ==
  ASSUME MidiTypes, MidiNext, NEW c \in Clients, call[c].pc = "save", call'[c].pc = "refresh"
  PROVE  doc' = call[c].doc
<1>1. AttachDriver \/ LoadFails \/ Dispatch \/ flushFeedback \/ CancelLearn \/ Outside
      \/ (\E k \in Keys, v \in Positions : Listen(k, v)) => call' = call
  BY DEF AttachDriver, ensureDeskMappingsLoaded, CopyLoaded, LoadFails, LoadLazily, Dispatch, route, Capture,
         dispatchToActiveSurface, dispatchToDeskMappings, dispatchLayerToggle, flushFeedback, CancelLearn, Outside, Listen
<1>2. \A x \in Clients : Calls(x) => call[x].pc = "idle" /\ \A y \in Clients \ {x} : call'[y] = call[y]
  BY DEF Calls, StartDeskLearn, SetActiveSurface, StartLearn, RemoveMapping, RemoveDeskMapping, Begin, CallAt, MidiTypes
<1>3. \A x \in Clients : Proceed(x) => \A y \in Clients \ {x} : call'[y] = call[y]
  BY DEF Proceed, Load, OpenSession, CaptureCandidate, LearnTimeout, Reload, Save, Refresh, CallFails, Answer, Advance,
         MidiTypes
<1>4. Proceed(c) => Save(c) \/ CallFails(c)
  BY DEF Proceed, Load, OpenSession, CaptureCandidate, LearnTimeout, Reload, Refresh, CallAt
<1>5. CallFails(c) => call'[c].pc = "idle"
  BY DEF CallFails, Answer, NoCall, MidiTypes
<1>6. Save(c) => doc' = call[c].doc
  BY DEF Save
<1> QED BY <1>1, <1>2, <1>3, <1>4, <1>5, <1>6 DEF MidiNext

\* A learn undoes nothing that was saved while it listened (StartLearn loads
\* the show again after the capture).
THEOREM LearningKeepsEdits == MidiSpec => LearnKeepsEdits
<1> DEFINE K == \A c \in Clients : CallAt(c, "save") /\ call'[c].pc = "refresh" /\ c \notin stale =>
                  /\ doc'.scene = doc.scene /\ doc'.layer = doc.layer
                  /\ \A s \in Surfaces : doc'.surfaces[s].there = doc.surfaces[s].there
                                         /\ doc'.surfaces[s].assigned = doc.surfaces[s].assigned
                  /\ \A s \in Surfaces \ {call[c].surface} : doc'.surfaces[s] = doc.surfaces[s]
                  /\ call[c].surface # None => doc'.desk = doc.desk
                  /\ call[c].kind \in {"learn", "desklearn"} => Own(c, doc) \subseteq Own(c, doc')
<1>1. MidiTypes /\ MidiInv /\ [MidiNext]_midiVars => [K]_midiVars
  <2> SUFFICES ASSUME MidiTypes, MidiInv, MidiNext, NEW c \in Clients, call[c].pc = "save", call'[c].pc = "refresh",
                      c \notin stale
               PROVE  OnlyOwn(c, doc', doc)
    BY DEF OnlyOwn, CallAt
  <2>1. doc' = call[c].doc
    BY OnlySaveSaves
  <2>2. OnlyOwn(c, call[c].doc, doc)
    BY DEF MidiInv, UpToDate
  <2> QED BY <2>1, <2>2
<1> QED BY <1>1, MidiInvariant, PTL DEF LearnKeepsEdits, MidiSpec
-----------------------------------------------------------------------------
\* The inductive invariant of the feeds

\* What the window was sent or told of.
Known == told + Counted(tick)

ScriptTypes ==
  /\ hand \in [Writers -> {"idle", "seen", "unseen"}]
  /\ run \in 0 .. Cardinality(Runs)
  /\ phase \in {"idle", "starting", "reading", "closing"}
  /\ reading \subseteq {w \in Writers : w.kind \in {"out", "err"}}
  /\ lines \in 0 .. MaxLines
  /\ service \in {"off", "starting", "live", "stopping", "quieting", "stopped"}
  /\ pusher \in {"off", "on", "cancelled", "gone"}
  /\ accepted \in Seq(Writers)
  /\ feed \in Seq(1 .. Len(accepted)) /\ Len(feed) <= ChannelLimit
  /\ staging \in [events : Seq(1 .. Len(accepted)), gap : Nat] /\ Len(staging.events) <= StageLimit
  /\ tick \in Seq([gap : Nat, event : 1 .. Len(accepted)])
  /\ told \in Nat /\ Counted(tick) \in Nat
  /\ hasty \subseteq 1 .. run

\* The channel's events are sent, told of, staged and waiting, in this order.
InSequence ==
  /\ \A i \in 1 .. Len(tick) : tick[i].gap = 0 => tick[i].event = told + Counted(SubSeq(tick, 1, i))
  /\ staging.gap > 0 => staging.events # <<>>
  /\ \A i \in 1 .. Len(staging.events) : staging.events[i] = Known + staging.gap + i
  /\ \A i \in 1 .. Len(feed) : feed[i] = Known + staging.gap + Len(staging.events) + i
  /\ ~Subscribed => feed = <<>>
  /\ service \notin {"quieting", "stopped"} =>
        Known + staging.gap + Len(staging.events) + Len(feed) = Len(accepted)

\* The window is gone only once the pusher is.
StoppedIsGone == service = "stopped" => pusher = "gone"

\* Which writers of a run are at work in a phase of it.
AtWorkIn(ph) ==
  CASE ph = "starting" -> {"status"} [] ph = "reading" -> {"out", "err"}
    [] ph = "closing" -> {"terminal"} [] OTHER -> {}

\* Only the current run's writers work, unless a run ended at once.
WritersInTurn ==
  /\ phase # "idle" => run \in Runs
  /\ phase \in {"starting", "reading"} => run \notin hasty
  /\ \A w \in Writers :
        /\ w.kind \in {"out", "err"} /\ hand[w] # "idle" => w \in reading
        /\ hand[w] # "idle" \/ w \in reading =>
              w.run \in hasty \/ (w.run = run /\ w.kind \in AtWorkIn(phase))

\* A run whose end was taken has nothing more to say.
EndsInTurn ==
  /\ \A i \in 1 .. Len(accepted) :
        /\ accepted[i].run <= run
        /\ accepted[i].kind = "terminal" /\ accepted[i].run = run /\ run \notin hasty =>
              phase = "idle" \/ (phase = "closing" /\ hand[accepted[i]] = "idle")
  /\ TerminalIsLast

ScriptInv == InSequence /\ StoppedIsGone /\ WritersInTurn /\ EndsInTurn

LogTypes ==
  /\ logged \in 0 .. MaxLogged
  /\ logHand \in [Loggers -> 0 .. logged]
  /\ logStaging \in [events : Seq(1 .. logged), gap : Nat] /\ Len(logStaging.events) <= StageLimit
  /\ panel \in {"closed", "listening", "asking", "seeded"}
  /\ entries \in [Lines -> Nat]
  /\ panelGap \in Nat

\* The lines from the oldest one retained after n lines.
Retained(n) == {m \in 1 .. n : m + RecentLimit > n}

\* A line is staged once.
StagedOnce ==
  /\ \A l, k \in Loggers : logHand[l] = logHand[k] /\ logHand[l] # 0 => l = k
  /\ \A i, j \in 1 .. Len(logStaging.events) : logStaging.events[i] = logStaging.events[j] => i = j
  /\ Staged \cap InHand = {}

Pushing == Staged \cup InHand

\* Where a line is, it is not yet on the panel.
ShownOnce ==
  /\ panel = "closed" => \A n \in Lines : entries[n] = 0
  /\ panel \in {"closed", "listening"} => twice = {}
  /\ \A n \in Lines : n > logged => entries[n] = 0
  /\ \A n \in Lines \ twice : entries[n] <= 1 /\ (n \in Pushing => entries[n] = 0)

\* The backlog is what was retained when it was read.
BacklogFits ==
  panel \in {"asking", "seeded"} =>
    /\ \E n \in 0 .. logged : backlog = Retained(n)
    /\ \A n \in backlog \ twice : n \notin Pushing
    /\ panel = "seeded" => \A n \in backlog : entries[n] # 0

\* The lines behind the backlog that the panel never had and will not have.
Lost == {n \in (1 .. logged) \ Pushing : entries[n] = 0 /\ \A m \in backlog : m < n}

LostAreTold == panel \in {"asking", "seeded"} => Cardinality(Lost) <= panelGap + logStaging.gap

LogInv == recent = Retained(logged) /\ StagedOnce /\ ShownOnce /\ BacklogFits /\ LostAreTold

\* What a view counts for.
Stands(v) == IF v.gap = 0 THEN 1 ELSE v.gap

\* F counts the first views, one by one.
Counts(F, views) == F = [i \in 0 .. Len(views) |-> IF i = 0 THEN 0 ELSE F[i - 1] + Stands(views[i])]

\* There is one such count.
LEMMA CountsOnce ==
  ASSUME NEW views, Len(views) \in Nat, NEW F, NEW G, Counts(F, views), Counts(G, views)
  PROVE  \A i \in 0 .. Len(views) : F[i] = G[i]
<1> DEFINE n == Len(views)
           Apart == {i \in 0 .. n : F[i] # G[i]}
<1>1. \A i \in 0 .. n : F[i] = (IF i = 0 THEN 0 ELSE F[i - 1] + Stands(views[i]))
  BY DEF Counts
<1>2. \A i \in 0 .. n : G[i] = (IF i = 0 THEN 0 ELSE G[i - 1] + Stands(views[i]))
  BY DEF Counts
<1> SUFFICES ASSUME Apart # {}
             PROVE  FALSE
  OBVIOUS
<1>a. Apart \in SUBSET Nat
  OBVIOUS
<1> HIDE DEF Apart
<1>3. PICK i \in Apart : \A j \in Apart : i <= j
  BY <1>a, LeastOf
<1> USE DEF Apart
<1>4. i # 0
  BY <1>1, <1>2
<1>5. i - 1 \in 0 .. n /\ i - 1 \notin Apart
  BY <1>3, <1>4
<1>6. F[i - 1] = G[i - 1]
  BY <1>5
<1> QED BY <1>1, <1>2, <1>3, <1>4, <1>6

\* Views count for what any count of theirs ends with.
LEMMA CountedIs ==
  ASSUME NEW views, Len(views) \in Nat, NEW F, Counts(F, views)
  PROVE  Counted(views) = F[Len(views)]
<1> DEFINE C == CHOOSE G : Counts(G, views)
<1>1. Counts(C, views)
  OBVIOUS
<1>2. Counted(views) = C[Len(views)]
  BY DEF Counted, Counts, Stands
<1> HIDE DEF C
<1> QED BY <1>1, <1>2, CountsOnce

\* Nothing counts for nothing.
LEMMA CountedNone == Counted(<<>>) = 0
<1> DEFINE F == [i \in 0 .. 0 |-> 0]
<1>1. Counts(F, <<>>)
  BY DEF Counts
<1> QED BY <1>1, CountedIs

\* One more view in front.
LEMMA InFront ==
  ASSUME NEW S, NEW x \in S, NEW T \in Seq(S)
  PROVE  /\ <<x>> \o T \in Seq(S) /\ Len(<<x>> \o T) = Len(T) + 1
         /\ (<<x>> \o T)[1] = x
         /\ \A i \in 1 .. Len(T) : (<<x>> \o T)[i + 1] = T[i]
<1> DEFINE H == <<x>>
<1>1. H \in Seq(S) /\ Len(H) = 1 /\ H[1] = x
  OBVIOUS
<1>2. Len(T) \in Nat
  OBVIOUS
<1> HIDE DEF H
<1>3. /\ H \o T \in Seq(S) /\ Len(H \o T) = Len(H) + Len(T)
      /\ \A i \in 1 .. Len(H) + Len(T) : (H \o T)[i] = IF i <= Len(H) THEN H[i] ELSE T[i - Len(H)]
  BY <1>1, ConcatProperties
<1> DEFINE J == H \o T
<1>4. \A i \in 1 .. 1 + Len(T) : J[i] = IF i <= 1 THEN H[i] ELSE T[i - 1]
  BY <1>1, <1>3
<1>5. J \in Seq(S) /\ Len(J) = Len(T) + 1
  BY <1>1, <1>2, <1>3
<1> HIDE DEF J
<1>6. J[1] = x /\ \A i \in 1 .. Len(T) : J[i + 1] = T[i]
  BY <1>1, <1>2, <1>4
<1> QED BY <1>5, <1>6 DEF H, J

\* The views of a queue: its gap, if it has one, then its events.
LEMMA ViewsAre ==
  ASSUME NEW q, NEW E, q \in [events : Seq(E), gap : Nat], q.gap > 0 => q.events # <<>>
  PROVE  /\ Views(q) \in Seq([gap : Nat, event : E])
         /\ q.gap = 0 => /\ Len(Views(q)) = Len(q.events)
                         /\ \A i \in 1 .. Len(q.events) : Views(q)[i] = [gap |-> 0, event |-> q.events[i]]
         /\ q.gap > 0 => /\ Len(Views(q)) = Len(q.events) + 1
                         /\ Views(q)[1] = [gap |-> q.gap, event |-> q.events[1]]
                         /\ \A i \in 1 .. Len(q.events) : Views(q)[i + 1] = [gap |-> 0, event |-> q.events[i]]
<1> DEFINE V == [gap : Nat, event : E]
           T == [i \in 1 .. Len(q.events) |-> [gap |-> 0, event |-> q.events[i]]]
<1>0. q.events \in Seq(E) /\ Len(q.events) \in Nat /\ q.gap \in Nat
  OBVIOUS
<1>1. \A i \in 1 .. Len(q.events) : q.events[i] \in E
  BY <1>0
<1>2. T \in Seq(V) /\ Len(T) = Len(q.events)
  <2>1. T \in [1 .. Len(q.events) -> V]
    BY <1>1
  <2> QED BY <2>1, <1>0, IsASeq, LenProperties
<1>3. CASE q.gap = 0
  <2>1. Views(q) = <<>> \o T
    BY <1>3 DEF Views
  <2>2. Views(q) = T
    BY <2>1, <1>2, ConcatEmptySeq
  <2> QED BY <2>2, <1>2, <1>3
<1>4. CASE q.gap > 0
  <2> DEFINE x == [gap |-> q.gap, event |-> q.events[1]]
  <2>1. Views(q) = <<x>> \o T
    BY <1>4 DEF Views
  <2>2. x \in V
    BY <1>1, <1>4, <1>0
  <2> HIDE DEF x, T, V
  <2>3. Views(q) \in Seq(V) /\ Len(Views(q)) = Len(T) + 1 /\ Views(q)[1] = x
        /\ \A i \in 1 .. Len(T) : Views(q)[i + 1] = T[i]
    BY <2>1, <2>2, <1>2, InFront
  <2> QED BY <2>3, <1>2, <1>4, <1>0 DEF T, V, x
<1> QED BY <1>0, <1>3, <1>4
\* How many events the first k views of a queue stand for.
CountTo(q, k) == IF k = 0 THEN 0 ELSE IF q.gap = 0 THEN k ELSE q.gap + k - 1

\* The views of a queue count for its gap and its events.
LEMMA ViewsCount ==
  ASSUME NEW q, NEW E, q \in [events : Seq(E), gap : Nat], q.gap > 0 => q.events # <<>>
  PROVE  /\ \A k \in 0 .. Len(Views(q)) : Counted(SubSeq(Views(q), 1, k)) = CountTo(q, k)
         /\ Counted(Views(q)) = q.gap + Len(q.events)
         /\ \A k \in 1 .. Len(Views(q)) : Views(q)[k].gap = 0 =>
               /\ CountTo(q, k) - q.gap \in 1 .. Len(q.events)
               /\ Views(q)[k].event = q.events[CountTo(q, k) - q.gap]
<1> DEFINE V == Views(q)
           S == [gap : Nat, event : E]
<1>1. /\ V \in Seq(S)
      /\ q.gap = 0 => /\ Len(V) = Len(q.events)
                      /\ \A i \in 1 .. Len(q.events) : V[i] = [gap |-> 0, event |-> q.events[i]]
      /\ q.gap > 0 => /\ Len(V) = Len(q.events) + 1
                      /\ V[1] = [gap |-> q.gap, event |-> q.events[1]]
                      /\ \A i \in 1 .. Len(q.events) : V[i + 1] = [gap |-> 0, event |-> q.events[i]]
  BY ViewsAre
<1>2. q.gap \in Nat /\ q.events \in Seq(E) /\ Len(q.events) \in Nat
  OBVIOUS
<1>a. Len(V) \in Nat
  BY <1>1, <1>2
<1> HIDE DEF V, S
<1>3. \A i \in 1 .. Len(V) : V[i].gap = IF q.gap > 0 /\ i = 1 THEN q.gap ELSE 0
  <2> TAKE i \in 1 .. Len(V)
  <2>1. CASE q.gap = 0
    <3>1. i \in 1 .. Len(q.events)
      BY <1>1, <2>1
    <3>2. V[i] = [gap |-> 0, event |-> q.events[i]]
      BY <1>1, <2>1, <3>1
    <3> QED BY <3>2, <2>1
  <2>2. CASE q.gap > 0 /\ i = 1
    <3>1. V[1] = [gap |-> q.gap, event |-> q.events[1]]
      BY <1>1, <2>2
    <3> QED BY <3>1, <2>2
  <2>3. CASE q.gap > 0 /\ i # 1
    <3>1. i - 1 \in 1 .. Len(q.events)
      BY <1>1, <1>2, <2>3
    <3>2. V[(i - 1) + 1] = [gap |-> 0, event |-> q.events[i - 1]]
      BY <1>1, <2>3, <3>1
    <3>3. (i - 1) + 1 = i
      BY <1>a
    <3> QED BY <3>2, <3>3, <2>3
  <2> QED BY <1>2, <2>1, <2>2, <2>3
<1>4. ASSUME NEW k \in 0 .. Len(V)
      PROVE  Counted(SubSeq(V, 1, k)) = CountTo(q, k)
  <2> DEFINE W == SubSeq(V, 1, k)
             F == [i \in 0 .. k |-> CountTo(q, i)]
  <2>1. Len(W) = k /\ \A i \in 1 .. k : W[i] = V[i]
    <3>1. 1 \in 1 .. Len(V) + 1 /\ k \in (1 - 1) .. Len(V)
      BY <1>a
    <3>2. Len(W) = (IF 1 <= k THEN k - 1 + 1 ELSE 0) /\ \A i \in 1 .. k - 1 + 1 : W[i] = V[1 + i - 1]
      BY <1>1, <3>1, SubSeqProperties
    <3> QED BY <3>2, <1>a
  <2> HIDE DEF W
  <2>2. \A i \in 1 .. k : Stands(W[i]) = IF q.gap > 0 /\ i = 1 THEN q.gap ELSE 1
    BY <2>1, <1>3, <1>2, <1>a DEF Stands
  <2>3. \A i \in 1 .. k : CountTo(q, i) = CountTo(q, i - 1) + Stands(W[i])
    <3> TAKE i \in 1 .. k
    <3>1. Stands(W[i]) = IF q.gap > 0 /\ i = 1 THEN q.gap ELSE 1
      BY <2>2
    <3>2. i \in Nat /\ i > 0
      BY <1>a
    <3> QED BY <3>1, <3>2, <1>2 DEF CountTo
  <2>4. F = [i \in 0 .. Len(W) |-> IF i = 0 THEN 0 ELSE F[i - 1] + Stands(W[i])]
    <3>1. \A i \in 0 .. k : CountTo(q, i) = IF i = 0 THEN 0 ELSE F[i - 1] + Stands(W[i])
      <4> TAKE i \in 0 .. k
      <4>1. CASE i = 0
        BY <4>1 DEF CountTo
      <4>2. CASE i # 0
        <5>1. i \in 1 .. k /\ i - 1 \in 0 .. k
          BY <4>2, <1>a
        <5> QED BY <5>1, <2>3, <4>2
      <4> QED BY <4>1, <4>2
    <3> QED BY <3>1, <2>1
  <2>5. Counts(F, W)
    BY <2>4 DEF Counts
  <2>6. Counted(W) = F[k]
    <3> HIDE DEF F
    <3> QED BY <2>5, <2>1, CountedIs, <1>a
  <2>7. k \in 0 .. k
    BY <1>a
  <2> QED BY <2>6, <2>7 DEF W
<1>5. Counted(V) = q.gap + Len(q.events)
  <2>1. SubSeq(V, 1, Len(V)) = V
    BY <1>1, SubSeqFull
  <2>2. Counted(V) = CountTo(q, Len(V))
    <3>1. Len(V) \in 0 .. Len(V)
      BY <1>a
    <3>2. Counted(SubSeq(V, 1, Len(V))) = CountTo(q, Len(V))
      BY <1>4, <3>1
    <3> QED BY <2>1, <3>2
  <2>3. q.gap > 0 => Len(q.events) > 0
    BY <1>2
  <2> QED BY <2>2, <2>3, <1>1, <1>2 DEF CountTo
<1>6. ASSUME NEW k \in 1 .. Len(V), V[k].gap = 0
      PROVE  CountTo(q, k) - q.gap \in 1 .. Len(q.events) /\ V[k].event = q.events[CountTo(q, k) - q.gap]
  <2>1. CASE q.gap = 0
    <3>1. k \in 1 .. Len(q.events)
      BY <1>1, <2>1
    <3>2. V[k] = [gap |-> 0, event |-> q.events[k]]
      BY <1>1, <2>1, <3>1
    <3>3. CountTo(q, k) - q.gap = k
      BY <2>1, <3>1, <1>2 DEF CountTo
    <3> QED BY <3>1, <3>2, <3>3
  <2>2. CASE q.gap > 0
    <3>1. k # 1
      BY <1>3, <1>6, <2>2, <1>a
    <3>2. k - 1 \in 1 .. Len(q.events)
      BY <3>1, <1>1, <1>2, <2>2
    <3>3. V[(k - 1) + 1] = [gap |-> 0, event |-> q.events[k - 1]]
      BY <1>1, <2>2, <3>2
    <3>4. V[k].event = q.events[k - 1]
      BY <3>3, <1>a
    <3>5. CountTo(q, k) - q.gap = k - 1
      BY <1>2, <2>2, <1>a DEF CountTo
    <3> QED BY <3>2, <3>4, <3>5
  <2> QED BY <1>2, <2>1, <2>2
<1> QED BY <1>4, <1>5, <1>6 DEF V
\* The slice r is q with x behind, and c events less in front.
StagedAs(r, q, x, c) ==
  /\ r.gap = q.gap + c /\ Len(r.events) = Len(q.events) + 1 - c
  /\ \A i \in 1 .. Len(r.events) : r.events[i] = IF i = Len(r.events) THEN x ELSE q.events[i + c]

\* What staging one more event leaves: c events fewer than were staged.
LEMMA StageIs ==
  ASSUME NEW q, NEW E, q \in [events : Seq(E), gap : Nat], Len(q.events) <= StageLimit, NEW x \in E,
         NEW r, r = Stage(q, x)
  PROVE  /\ r \in [events : Seq(E), gap : Nat] /\ Len(r.events) <= StageLimit /\ r.events # <<>>
         /\ \E c \in {0, 1} : StagedAs(r, q, x, c)
<1>1. q.events \in Seq(E) /\ Len(q.events) \in Nat /\ q.gap \in Nat
  OBVIOUS
<1>2. StageLimit \in Nat /\ StageLimit > 0
  BY FeedAssumption
<1>3. CASE Len(q.events) >= StageLimit
  <2> DEFINE T == Tail(q.events)
  <2>1. r = [events |-> Append(T, x), gap |-> q.gap + 1]
    BY <1>3 DEF Stage
  <2>2. q.events # <<>>
    BY <1>1, <1>2, <1>3
  <2>3. T \in Seq(E) /\ Len(T) = Len(q.events) - 1 /\ \A i \in 1 .. Len(T) : T[i] = q.events[i + 1]
    BY <1>1, <2>2, HeadTailProperties
  <2> HIDE DEF T
  <2>4. /\ Append(T, x) \in Seq(E) /\ Append(T, x) # <<>> /\ Len(Append(T, x)) = Len(T) + 1
        /\ \A i \in 1 .. Len(T) : Append(T, x)[i] = T[i]
        /\ Append(T, x)[Len(T) + 1] = x
    BY <2>3, AppendProperties
  <2> DEFINE A == Append(T, x)
  <2>5. \A i \in 1 .. Len(A) : A[i] = IF i = Len(A) THEN x ELSE q.events[i + 1]
    <3> HIDE DEF A
    <3> TAKE i \in 1 .. Len(A)
    <3>1. CASE i = Len(A)
      BY <2>4, <3>1 DEF A
    <3>2. CASE i # Len(A)
      <4>1. i \in 1 .. Len(T)
        BY <3>2, <2>4, <2>3, <1>1 DEF A
      <4> QED BY <4>1, <3>2, <2>3, <2>4 DEF A
    <3> QED BY <3>1, <3>2
  <2> HIDE DEF A
  <2>6. r = [events |-> A, gap |-> q.gap + 1] /\ A \in Seq(E) /\ A # <<>> /\ Len(A) = Len(q.events)
    BY <2>1, <2>3, <2>4, <1>1 DEF A
  <2>7. r \in [events : Seq(E), gap : Nat] /\ r.events = A /\ r.gap = q.gap + 1
    BY <2>6, <1>1
  <2>8. StagedAs(r, q, x, 1)
    BY <2>5, <2>6, <2>7, <1>1 DEF StagedAs
  <2> QED BY <2>6, <2>7, <2>8, <1>3
<1>4. CASE Len(q.events) < StageLimit
  <2> DEFINE A == Append(q.events, x)
  <2>1. r = [q EXCEPT !.events = A]
    BY <1>1, <1>2, <1>4 DEF Stage
  <2>2. /\ A \in Seq(E) /\ A # <<>> /\ Len(A) = Len(q.events) + 1
        /\ \A i \in 1 .. Len(q.events) : A[i] = q.events[i]
        /\ A[Len(q.events) + 1] = x
    BY <1>1, AppendProperties
  <2> HIDE DEF A
  <2>3. r \in [events : Seq(E), gap : Nat] /\ r.events = A /\ r.gap = q.gap
    BY <2>1, <2>2
  <2>4. \A i \in 1 .. Len(A) : A[i] = IF i = Len(A) THEN x ELSE q.events[i + 0]
    <3> TAKE i \in 1 .. Len(A)
    <3>1. CASE i = Len(A)
      BY <2>2, <3>1
    <3>2. CASE i # Len(A)
      <4>1. i \in 1 .. Len(q.events) /\ i + 0 = i
        BY <3>2, <2>2, <1>1
      <4> QED BY <4>1, <3>2, <2>2
    <3> QED BY <3>1, <3>2
  <2>5. StagedAs(r, q, x, 0)
    BY <2>2, <2>3, <2>4, <1>1 DEF StagedAs
  <2> QED BY <2>2, <2>3, <2>5, <1>1, <1>2, <1>4
<1> QED BY <1>1, <1>2, <1>3, <1>4

-----------------------------------------------------------------------------
\* The steps of the script feed

\* The bounds are numbers.
LEMMA FeedBounds ==
  /\ ChannelLimit \in Nat /\ ChannelLimit > 0 /\ StageLimit \in Nat /\ StageLimit > 0
  /\ RecentLimit \in Nat /\ RecentLimit > 0 /\ MaxLines \in Nat /\ MaxLogged \in Nat
  /\ Cardinality(Runs) \in Nat /\ Runs = 1 .. Cardinality(Runs)
BY FeedAssumption, FS_CardinalityType

\* At the start nothing was sent.
LEMMA ScriptInitInv == ScriptInit => ScriptTypes /\ ScriptInv
<1> SUFFICES ASSUME ScriptInit
             PROVE  ScriptTypes /\ ScriptInv
  OBVIOUS
<1> USE DEF ScriptInit
<1>1. Counted(tick) = 0
  BY CountedNone
<1>2. <<>> \in Seq(1 .. 0) /\ <<>> \in Seq(Writers) /\ <<>> \in Seq([gap : Nat, event : 1 .. 0]) /\ Len(<<>>) = 0
  BY EmptySeq
<1>3. Nothing \in [events : Seq(1 .. 0), gap : Nat] /\ Nothing.events = <<>> /\ Nothing.gap = 0
  BY <1>2 DEF Nothing
<1>4. ScriptTypes
  BY <1>1, <1>2, <1>3, FeedBounds DEF ScriptTypes
<1>5. InSequence
  BY <1>1, <1>2, <1>3 DEF InSequence, Known, Subscribed
<1>6. WritersInTurn
  BY DEF WritersInTurn, AtWorkIn
<1>7. EndsInTurn
  BY <1>2 DEF EndsInTurn, TerminalIsLast
<1> QED BY <1>4, <1>5, <1>6, <1>7 DEF ScriptInv, StoppedIsGone

\* The steps of a run leave the window's side alone.
LEMMA WindowKept ==
  ASSUME ScriptInv, UNCHANGED <<tick, told, staging, feed, accepted, service, pusher>>
  PROVE  InSequence' /\ StoppedIsGone'
BY DEF ScriptInv, InSequence, StoppedIsGone, Known, Subscribed

\* The steps of the service and the pusher leave the runs alone.
LEMMA RunsKept ==
  ASSUME ScriptInv, UNCHANGED <<hand, run, phase, reading, hasty, accepted>>
  PROVE  WritersInTurn' /\ EndsInTurn'
BY DEF ScriptInv, WritersInTurn, EndsInTurn, TerminalIsLast

\* The service starts.
LEMMA StartStreamInv ==
  ASSUME ScriptTypes, ScriptInv, StartScriptEventStream
  PROVE  ScriptTypes' /\ ScriptInv'
<1> USE DEF StartScriptEventStream, windowVars, runVars
<1>1. ScriptTypes'
  BY DEF ScriptTypes
<1>2. InSequence' /\ StoppedIsGone'
  BY DEF ScriptInv, InSequence, StoppedIsGone, Known, Subscribed
<1> QED BY <1>1, <1>2, RunsKept DEF ScriptInv

\* The channel is there before its first event.
LEMMA SubscribeInv ==
  ASSUME ScriptTypes, ScriptInv, SubscribeScriptEvents
  PROVE  ScriptTypes' /\ ScriptInv'
<1> USE DEF SubscribeScriptEvents, windowVars, runVars
<1>1. feed = <<>>
  BY DEF ScriptInv, InSequence, Subscribed
<1>2. ScriptTypes'
  BY <1>1 DEF ScriptTypes
<1>3. InSequence' /\ StoppedIsGone'
  BY <1>1 DEF ScriptInv, InSequence, StoppedIsGone, Known, Subscribed
<1> QED BY <1>2, <1>3, RunsKept DEF ScriptInv

\* The service is told to stop.
LEMMA StopStreamInv ==
  ASSUME ScriptTypes, ScriptInv, StopScriptEventStream
  PROVE  ScriptTypes' /\ ScriptInv'
<1> USE DEF StopScriptEventStream, windowVars, runVars
<1>1. ScriptTypes'
  BY DEF ScriptTypes
<1>2. InSequence' /\ StoppedIsGone'
  BY DEF ScriptInv, InSequence, StoppedIsGone, Known, Subscribed
<1> QED BY <1>1, <1>2, RunsKept DEF ScriptInv

\* The forwarder leaves the channel behind.
LEMMA ForwarderExitsInv ==
  ASSUME ScriptTypes, ScriptInv, ForwarderExits
  PROVE  ScriptTypes' /\ ScriptInv'
<1> USE DEF ForwarderExits, windowVars, runVars
<1>1. <<>> \in Seq(1 .. Len(accepted)) /\ Len(<<>>) = 0 /\ 0 <= ChannelLimit
  BY EmptySeq, FeedBounds
<1>2. ScriptTypes'
  BY <1>1 DEF ScriptTypes
<1>3. InSequence' /\ StoppedIsGone'
  BY <1>1 DEF ScriptInv, InSequence, StoppedIsGone, Known, Subscribed
<1> QED BY <1>2, <1>3, RunsKept DEF ScriptInv

\* The pusher is gone when the service has stopped.
LEMMA PusherExitsInv ==
  ASSUME ScriptTypes, ScriptInv, PusherExits
  PROVE  ScriptTypes' /\ ScriptInv'
<1> USE DEF PusherExits, windowVars, runVars
<1>1. ScriptTypes'
  BY DEF ScriptTypes
<1>2. InSequence' /\ StoppedIsGone'
  BY DEF ScriptInv, InSequence, StoppedIsGone, Known, Subscribed
<1> QED BY <1>1, <1>2, RunsKept DEF ScriptInv

\* An event goes from the channel to the staging slice, in its place.
LEMMA ForwardInv ==
  ASSUME ScriptTypes, ScriptInv, forwardScriptEvents
  PROVE  ScriptTypes' /\ ScriptInv'
<1> USE DEF forwardScriptEvents, windowVars, runVars, serviceVars
<1> DEFINE N == 1 .. Len(accepted)
           x == Head(feed)
<1>1. /\ feed \in Seq(N) /\ feed # <<>> /\ Len(feed) \in Nat /\ Len(feed) <= ChannelLimit
      /\ staging \in [events : Seq(N), gap : Nat] /\ Len(staging.events) <= StageLimit
      /\ staging.events \in Seq(N) /\ Len(staging.events) \in Nat /\ staging.gap \in Nat
      /\ Known \in Nat /\ Len(accepted) \in Nat
  BY DEF ScriptTypes, Known
<1>2. x \in N /\ x = feed[1] /\ 1 \in 1 .. Len(feed)
  BY <1>1
<1> HIDE DEF N
<1>3. /\ feed' \in Seq(N) /\ Len(feed') = Len(feed) - 1
      /\ \A i \in 1 .. Len(feed') : feed'[i] = feed[i + 1]
  BY <1>1, HeadTailProperties
<1>a. /\ staging' = Stage(staging, x)
      /\ Known' = Known /\ UNCHANGED <<hand, accepted, service, pusher, tick, told, run, phase, reading, lines, hasty>>
      /\ Subscribed
  BY DEF Known
<1> HIDE DEF x, forwardScriptEvents
<1>g. PICK r : r = staging'
  OBVIOUS
<1>h. r = Stage(staging, x)
  BY <1>a, <1>g
<1>i. /\ r \in [events : Seq(N), gap : Nat] /\ Len(r.events) <= StageLimit /\ r.events # <<>>
      /\ \E c \in {0, 1} : StagedAs(r, staging, x, c)
  <2>1. PICK q, y : q = staging /\ y = x
    <3>1. \E q, y : q = staging /\ y = x
      OBVIOUS
    <3> QED BY <3>1
  <2>2. q \in [events : Seq(N), gap : Nat] /\ Len(q.events) <= StageLimit /\ y \in N /\ r = Stage(q, y)
    BY <1>1, <1>2, <1>h, <2>1
  <2>3. /\ r \in [events : Seq(N), gap : Nat] /\ Len(r.events) <= StageLimit /\ r.events # <<>>
        /\ \E c \in {0, 1} : StagedAs(r, q, y, c)
    BY <2>2, StageIs
  <2> QED BY <2>1, <2>3
<1>b. PICK c \in {0, 1} : StagedAs(r, staging, x, c)
  BY <1>i
<1>5. r.gap \in Nat /\ r.gap = staging.gap + c /\ Len(r.events) = Len(staging.events) + 1 - c
      /\ c \in Nat
  BY <1>b, <1>i DEF StagedAs
<1>c. /\ Len(feed) \in Nat /\ Len(staging.events) \in Nat /\ staging.gap \in Nat
      /\ Known \in Nat /\ Len(accepted) \in Nat
  BY <1>1
<1>d. Len(feed') = Len(feed) - 1
  BY <1>3
<1>e. Len(feed') <= ChannelLimit
  BY <1>1, <1>c, <1>d, FeedBounds
<1>f. feed' \in Seq(N) /\ r \in [events : Seq(N), gap : Nat] /\ Len(r.events) <= StageLimit
  BY <1>3, <1>i
<1>k. PICK K : K = Known
  OBVIOUS
<1>l. PICK g, L, G, M : g = staging.gap /\ L = Len(staging.events) /\ G = r.gap /\ M = Len(r.events)
  <2>1. \E g, L, G, M : g = staging.gap /\ L = Len(staging.events) /\ G = r.gap /\ M = Len(r.events)
    OBVIOUS
  <2> QED BY <2>1
<1>m. K \in Nat /\ g \in Nat /\ L \in Nat /\ G = g + c /\ M = L + 1 - c /\ c \in Nat /\ c <= 1
  BY <1>k, <1>l, <1>5, <1>c
<1>n. K + G + M = K + g + L + 1
  BY <1>m
<1>7. ScriptTypes'
  BY <1>e, <1>f, <1>a, <1>g DEF ScriptTypes, N
<1>8. x = Known + staging.gap + Len(staging.events) + 1
  BY <1>2 DEF ScriptInv, InSequence
<1>9. \A i \in 1 .. Len(r.events) : r.events[i] = Known + r.gap + i
  <2> SUFFICES ASSUME NEW i \in 1 .. M
               PROVE  r.events[i] = K + G + i
    BY <1>k, <1>l
  <2>1. i \in Nat
    OBVIOUS
  <2>a. r.events[i] = IF i = M THEN x ELSE staging.events[i + c]
    BY <1>b, <1>l DEF StagedAs
  <2>2. CASE i = M
    <3>1. r.events[i] = K + g + L + 1
      BY <1>8, <1>k, <1>l, <2>a, <2>2
    <3> QED BY <3>1, <1>n, <2>2
  <2>3. CASE i # M
    <3>1. i + c \in 1 .. L
      BY <1>m, <2>1, <2>3
    <3>2. staging.events[i + c] = K + g + (i + c)
      BY <3>1, <1>k, <1>l DEF ScriptInv, InSequence
    <3>3. K + g + (i + c) = K + G + i
      BY <1>m, <2>1
    <3> QED BY <2>a, <3>2, <3>3, <2>3
  <2> QED BY <2>2, <2>3
<1>10. \A i \in 1 .. Len(feed') : feed'[i] = Known + r.gap + Len(r.events) + i
  <2> SUFFICES ASSUME NEW i \in 1 .. Len(feed')
               PROVE  feed'[i] = K + G + M + i
    BY <1>k, <1>l
  <2>1. i + 1 \in 1 .. Len(feed) /\ i \in Nat
    BY <1>c, <1>d
  <2>2. feed[i + 1] = K + g + L + (i + 1)
    BY <2>1, <1>k, <1>l DEF ScriptInv, InSequence
  <2>3. feed'[i] = feed[i + 1]
    BY <1>3
  <2>4. K + g + L + (i + 1) = K + G + M + i
    BY <2>1, <1>m
  <2> QED BY <2>2, <2>3, <2>4
<1>12. service \notin {"quieting", "stopped"} =>
          Known + r.gap + Len(r.events) + Len(feed') = Len(accepted)
  <2> SUFFICES ASSUME service \notin {"quieting", "stopped"}
               PROVE  K + G + M + Len(feed') = Len(accepted)
    BY <1>k, <1>l
  <2>1. K + g + L + Len(feed) = Len(accepted)
    BY <1>k, <1>l DEF ScriptInv, InSequence
  <2>2. K + G + M + Len(feed') = (K + g + L + 1) + (Len(feed) - 1)
    BY <1>d, <1>n
  <2> QED BY <2>1, <2>2, <1>m, <1>c
<1>13. \A i \in 1 .. Len(tick) : tick[i].gap = 0 => tick[i].event = told + Counted(SubSeq(tick, 1, i))
  BY DEF ScriptInv, InSequence
<1>14. InSequence'
  BY <1>a, <1>g, <1>i, <1>9, <1>10, <1>12, <1>13 DEF InSequence, Subscribed
<1>15. StoppedIsGone'
  BY <1>a DEF ScriptInv, StoppedIsGone
<1> QED BY <1>a, <1>7, <1>14, <1>15, RunsKept DEF ScriptInv

\* A tick sends what is staged, and says how much it covers.
LEMMA FlushFeedInv ==
  ASSUME ScriptTypes, ScriptInv, flush
  PROVE  ScriptTypes' /\ ScriptInv'
<1> USE DEF flush, windowVars, runVars, serviceVars
<1> DEFINE N == 1 .. Len(accepted)
<1>1. /\ staging \in [events : Seq(N), gap : Nat] /\ Len(staging.events) \in Nat /\ staging.gap \in Nat
      /\ (staging.gap > 0 => staging.events # <<>>)
      /\ told \in Nat /\ Counted(tick) \in Nat /\ Len(feed) \in Nat /\ Len(accepted) \in Nat
  BY DEF ScriptTypes, ScriptInv, InSequence
<1>2. told' = Known
  BY DEF Known
<1> HIDE DEF N
<1>3. /\ \A k \in 0 .. Len(tick') : Counted(SubSeq(tick', 1, k)) = CountTo(staging, k)
      /\ Counted(tick') = staging.gap + Len(staging.events)
      /\ \A k \in 1 .. Len(tick') : tick'[k].gap = 0 =>
            /\ CountTo(staging, k) - staging.gap \in 1 .. Len(staging.events)
            /\ tick'[k].event = staging.events[CountTo(staging, k) - staging.gap]
  BY <1>1, ViewsCount
<1>4. tick' \in Seq([gap : Nat, event : N])
  BY <1>1, ViewsAre
<1>5. <<>> \in Seq(N) /\ Len(<<>>) = 0
  BY EmptySeq
<1>6. staging' = Nothing /\ Nothing.events = <<>> /\ Nothing.gap = 0 /\ Nothing \in [events : Seq(N), gap : Nat]
  BY <1>5 DEF Nothing
<1>7. Known' = Known + staging.gap + Len(staging.events)
  BY <1>2, <1>3, <1>1 DEF Known
<1>8. feed' = feed /\ accepted' = accepted /\ service' = service /\ pusher' = pusher
  OBVIOUS
<1>a. Counted(tick') \in Nat /\ told' \in Nat /\ Len(staging'.events) <= StageLimit
  <2>1. Known \in Nat
    BY <1>1 DEF Known
  <2>2. staging'.events = <<>>
    BY <1>6
  <2> QED BY <1>1, <1>2, <1>3, <1>5, <2>1, <2>2, FeedBounds
<1>b. staging' \in [events : Seq(N), gap : Nat]
  BY <1>6
<1> HIDE DEF flush
<1>c. UNCHANGED <<hand, feed, accepted, service, pusher, run, phase, reading, lines, hasty>>
  BY DEF flush
<1>9. ScriptTypes'
  BY <1>4, <1>a, <1>b, <1>c DEF ScriptTypes, N
<1> USE DEF flush
<1>10. \A i \in 1 .. Len(tick') : tick'[i].gap = 0 => tick'[i].event = told' + Counted(SubSeq(tick', 1, i))
  <2> SUFFICES ASSUME NEW k \in 1 .. Len(tick'), tick'[k].gap = 0
               PROVE  tick'[k].event = told' + Counted(SubSeq(tick', 1, k))
    OBVIOUS
  <2>1. Len(tick') \in Nat
    BY <1>4
  <2>2. k \in 0 .. Len(tick') /\ k \in Nat /\ k # 0
    BY <2>1
  <2>3. Counted(SubSeq(tick', 1, k)) = CountTo(staging, k)
    BY <1>3, <2>2
  <2> DEFINE j == CountTo(staging, k) - staging.gap
  <2>4. j \in 1 .. Len(staging.events) /\ tick'[k].event = staging.events[j]
    BY <1>3
  <2>5. CountTo(staging, k) \in Nat
    BY <2>2, <1>1 DEF CountTo
  <2>6. j \in Nat /\ staging.gap + j = CountTo(staging, k)
    BY <2>4, <2>5, <1>1
  <2> HIDE DEF j
  <2>7. staging.events[j] = Known + staging.gap + j
    BY <2>4 DEF ScriptInv, InSequence
  <2>8. Known \in Nat
    BY <1>1 DEF Known
  <2> QED BY <2>3, <2>4, <2>6, <2>7, <2>8, <1>1, <1>2
<1>11. \A i \in 1 .. Len(feed) : feed[i] = Known' + 0 + 0 + i
  <2> TAKE i \in 1 .. Len(feed)
  <2>1. feed[i] = Known + staging.gap + Len(staging.events) + i
    BY DEF ScriptInv, InSequence
  <2>2. Known \in Nat /\ i \in Nat
    BY <1>1 DEF Known
  <2> QED BY <2>1, <2>2, <1>7, <1>1
<1>12. service \notin {"quieting", "stopped"} => Known' + 0 + 0 + Len(feed) = Len(accepted)
  <2>1. service \notin {"quieting", "stopped"} => Known + staging.gap + Len(staging.events) + Len(feed) = Len(accepted)
    BY DEF ScriptInv, InSequence
  <2>2. Known \in Nat
    BY <1>1 DEF Known
  <2> QED BY <2>1, <2>2, <1>7, <1>1
<1>13. ~Subscribed => feed = <<>>
  BY DEF ScriptInv, InSequence
<1>14. InSequence'
  BY <1>5, <1>6, <1>8, <1>10, <1>11, <1>12, <1>13 DEF InSequence, Subscribed
<1>15. StoppedIsGone'
  BY <1>8 DEF ScriptInv, StoppedIsGone
<1> QED BY <1>9, <1>14, <1>15, RunsKept DEF ScriptInv
\* A writer's fields.
LEMMA WriterIs ==
  /\ \A w \in Writers : w.run \in Runs /\ w.kind \in {"status", "out", "err", "terminal"} /\ w = [run |-> w.run, kind |-> w.kind]
  /\ \A r \in Runs, k \in {"status", "out", "err", "terminal"} : [run |-> r, kind |-> k] \in Writers
BY DEF Writers

\* What a run's own steps leave alone.
LEMMA RunTypes ==
  ASSUME ScriptTypes, UNCHANGED <<feed, staging, tick, told, accepted, service, pusher>>,
         hand' \in [Writers -> {"idle", "seen", "unseen"}],
         run' \in 0 .. Cardinality(Runs),
         phase' \in {"idle", "starting", "reading", "closing"},
         reading' \subseteq {w \in Writers : w.kind \in {"out", "err"}},
         lines' \in 0 .. MaxLines,
         hasty' \subseteq 1 .. run'
  PROVE  ScriptTypes'
BY DEF ScriptTypes

\* A writer that publishes is at work, and no other changes.
LEMMA PublishIs ==
  ASSUME ScriptTypes, NEW w \in Writers, publish(w)
  PROVE  /\ hand' \in [Writers -> {"idle", "seen", "unseen"}]
         /\ hand[w] = "idle" /\ hand'[w] # "idle"
         /\ \A v \in Writers : v # w => hand'[v] = hand[v]
BY DEF ScriptTypes, publish

\* Who is at work, without its definition by cases.
LEMMA AtWorkIs ==
  /\ AtWorkIn("idle") = {} /\ AtWorkIn("starting") = {"status"}
  /\ AtWorkIn("reading") = {"out", "err"} /\ AtWorkIn("closing") = {"terminal"}
BY DEF AtWorkIn

\* The next run starts when the last one is over.
LEMMA RunStartsInv ==
  ASSUME ScriptTypes, ScriptInv, RunStarts
  PROVE  ScriptTypes' /\ ScriptInv'
<1> DEFINE new == [run |-> run + 1, kind |-> "status"]
<1>1. /\ phase = "idle" /\ run + 1 \in Runs /\ run' = run + 1 /\ phase' = "starting"
      /\ UNCHANGED <<reading, lines, hasty, feed, staging, tick, told, accepted, service, pusher>>
      /\ publish(new)
  BY DEF RunStarts, windowVars, serviceVars
<1>2. run \in Nat /\ run + 1 \in 0 .. Cardinality(Runs) /\ hasty \subseteq 1 .. run
  BY <1>1, FeedBounds DEF ScriptTypes
<1>3. new \in Writers /\ new.run = run + 1 /\ new.kind = "status"
  BY <1>1, WriterIs
<1> HIDE DEF new
<1>4. /\ hand' \in [Writers -> {"idle", "seen", "unseen"}]
      /\ \A v \in Writers : v # new => hand'[v] = hand[v]
  BY <1>1, <1>3, PublishIs
<1>5. hasty \subseteq 1 .. run + 1 /\ run + 1 \notin hasty
  BY <1>2
<1>6. ScriptTypes'
  BY <1>1, <1>2, <1>4, <1>5, RunTypes DEF ScriptTypes
<1>7. WritersInTurn'
  <2>1. run' \notin hasty'
    BY <1>1, <1>5
  <2>2. ASSUME NEW w \in Writers
        PROVE  /\ w.kind \in {"out", "err"} /\ hand'[w] # "idle" => w \in reading
               /\ hand'[w] # "idle" \/ w \in reading => w.run \in hasty \/ (w.run = run + 1 /\ w.kind \in AtWorkIn("starting"))
    <3>1. CASE w = new
      BY <1>3, <3>1, AtWorkIs
    <3>2. CASE w # new
      <4>1. hand'[w] = hand[w]
        BY <1>4, <3>2
      <4> QED BY <4>1, <1>1, AtWorkIs DEF ScriptInv, WritersInTurn
    <3>3. w = new => w \notin reading
      BY <1>3 DEF ScriptTypes
    <3> QED BY <3>1, <3>2
  <2> QED BY <2>1, <2>2, <1>1 DEF WritersInTurn
<1>8. EndsInTurn'
  <2>1. ASSUME NEW i \in 1 .. Len(accepted)
        PROVE  accepted[i].run <= run + 1 /\ accepted[i].run # run + 1
    <3>1. accepted[i].run <= run
      BY DEF ScriptInv, EndsInTurn
    <3>2. accepted[i] \in Writers
      BY DEF ScriptTypes
    <3>3. accepted[i].run \in Nat
      BY <3>2, WriterIs, FeedBounds
    <3> QED BY <3>1, <3>3, <1>2
  <2>2. TerminalIsLast'
    BY <1>1 DEF ScriptInv, EndsInTurn, TerminalIsLast
  <2> QED BY <2>1, <2>2, <1>1 DEF EndsInTurn
<1> QED BY <1>1, <1>6, <1>7, <1>8, WindowKept DEF ScriptInv

\* The status of a run is published before its pipes are read.
LEMMA SpawnsInv ==
  ASSUME ScriptTypes, ScriptInv, Spawns
  PROVE  ScriptTypes' /\ ScriptInv'
<1>1. /\ phase = "starting" /\ hand[Current("status")] = "idle" /\ phase' = "reading"
      /\ reading' = reading \cup {Current("out"), Current("err")}
      /\ UNCHANGED <<hand, run, lines, hasty, feed, staging, tick, told, accepted, service, pusher>>
  BY DEF Spawns, windowVars, serviceVars
<1>2. run \notin hasty
  BY <1>1 DEF ScriptInv, WritersInTurn
<1>3. \A k \in {"status", "out", "err"} :
         Current(k) \in Writers /\ Current(k).kind = k /\ Current(k).run = run
  <2>1. run \in Runs
    BY <1>1 DEF ScriptInv, WritersInTurn
  <2> QED BY <2>1, WriterIs DEF Current
<1>4. reading' \subseteq {w \in Writers : w.kind \in {"out", "err"}}
  BY <1>1, <1>3 DEF ScriptTypes
<1>5. ScriptTypes'
  BY <1>1, <1>4, RunTypes DEF ScriptTypes
<1>6. WritersInTurn'
  <2>1. ASSUME NEW w \in Writers
        PROVE  /\ w.kind \in {"out", "err"} /\ hand[w] # "idle" => w \in reading'
               /\ hand[w] # "idle" \/ w \in reading' => w.run \in hasty \/ (w.run = run /\ w.kind \in {"out", "err"})
    <3>1. w.kind \in {"out", "err"} /\ hand[w] # "idle" => w \in reading
      BY DEF ScriptInv, WritersInTurn
    <3>2. hand[w] # "idle" \/ w \in reading => w.run \in hasty \/ (w.run = run /\ w.kind = "status")
      BY <1>1, AtWorkIs DEF ScriptInv, WritersInTurn
    <3>3. w.run = run /\ w.kind = "status" => hand[w] = "idle" /\ w \notin reading
      <4>1. w.run = run /\ w.kind = "status" => w = Current("status")
        BY WriterIs DEF Current
      <4> QED BY <4>1, <1>1, <1>3 DEF ScriptTypes
    <3>4. w \in reading' => w \in reading \/ (w.run = run /\ w.kind \in {"out", "err"})
      BY <1>1, <1>3
    <3> QED BY <3>1, <3>2, <3>3, <3>4, <1>1
  <2>2. run \in Runs
    BY <1>1 DEF ScriptInv, WritersInTurn
  <2> QED BY <2>1, <2>2, <1>1, <1>2, AtWorkIs DEF WritersInTurn
<1>7. EndsInTurn'
  <2>1. \A i \in 1 .. Len(accepted) : accepted[i].run <= run
                 /\ ~(accepted[i].kind = "terminal" /\ accepted[i].run = run /\ run \notin hasty)
    BY <1>1 DEF ScriptInv, EndsInTurn
  <2> QED BY <2>1, <1>1 DEF ScriptInv, EndsInTurn, TerminalIsLast
<1> QED BY <1>1, <1>5, <1>6, <1>7, WindowKept DEF ScriptInv

\* A line is published by a goroutine that reads its pipe.
LEMMA PublishLineInv ==
  ASSUME ScriptTypes, ScriptInv, NEW x \in Writers, publishLine(x)
  PROVE  ScriptTypes' /\ ScriptInv'
<1>1. /\ x \in reading /\ lines > 0 /\ lines' = lines - 1 /\ publish(x)
      /\ UNCHANGED <<run, phase, reading, hasty, feed, staging, tick, told, accepted, service, pusher>>
  BY DEF publishLine, windowVars, serviceVars
<1>2. /\ hand' \in [Writers -> {"idle", "seen", "unseen"}]
      /\ hand[x] = "idle"
      /\ \A v \in Writers : v # x => hand'[v] = hand[v]
  BY <1>1, PublishIs
<1>3. x.kind \in {"out", "err"}
  BY <1>1 DEF ScriptTypes
<1>4. lines' \in 0 .. MaxLines
  BY <1>1, FeedBounds DEF ScriptTypes
<1>5. ScriptTypes'
  BY <1>1, <1>2, <1>4, RunTypes DEF ScriptTypes
<1>6. WritersInTurn'
  <2>1. ASSUME NEW w \in Writers
        PROVE  /\ w.kind \in {"out", "err"} /\ hand'[w] # "idle" => w \in reading
               /\ hand'[w] # "idle" \/ w \in reading => w.run \in hasty \/ (w.run = run /\ w.kind \in AtWorkIn(phase))
    <3>1. /\ w.kind \in {"out", "err"} /\ hand[w] # "idle" => w \in reading
          /\ hand[w] # "idle" \/ w \in reading => w.run \in hasty \/ (w.run = run /\ w.kind \in AtWorkIn(phase))
      BY DEF ScriptInv, WritersInTurn
    <3>2. w = x \/ hand'[w] = hand[w]
      BY <1>2
    <3> QED BY <3>1, <3>2, <1>1
  <2> QED BY <2>1, <1>1 DEF ScriptInv, WritersInTurn
<1>7. EndsInTurn'
  <2>1. ASSUME NEW i \in 1 .. Len(accepted), accepted[i].kind = "terminal", accepted[i].run = run, run \notin hasty
        PROVE  phase = "idle" \/ (phase = "closing" /\ hand'[accepted[i]] = "idle")
    <3>1. phase = "idle" \/ (phase = "closing" /\ hand[accepted[i]] = "idle")
      BY <2>1 DEF ScriptInv, EndsInTurn
    <3>2. accepted[i] \in Writers /\ accepted[i] # x
      BY <2>1, <1>3 DEF ScriptTypes
    <3> QED BY <3>1, <3>2, <1>2
  <2> QED BY <2>1, <1>1 DEF ScriptInv, EndsInTurn, TerminalIsLast
<1> QED BY <1>1, <1>5, <1>6, <1>7, WindowKept DEF ScriptInv

\* A pipe ends when its reader publishes nothing.
LEMMA PipeEndsInv ==
  ASSUME ScriptTypes, ScriptInv, NEW x \in Writers, pipeEnds(x)
  PROVE  ScriptTypes' /\ ScriptInv'
<1>1. /\ x \in reading /\ hand[x] = "idle" /\ reading' = reading \ {x}
      /\ UNCHANGED <<hand, run, phase, lines, hasty, feed, staging, tick, told, accepted, service, pusher>>
  BY DEF pipeEnds, windowVars, serviceVars
<1>2. ScriptTypes'
  BY <1>1, RunTypes DEF ScriptTypes
<1>3. WritersInTurn'
  BY <1>1 DEF ScriptInv, WritersInTurn
<1>4. EndsInTurn'
  BY <1>1 DEF ScriptInv, EndsInTurn, TerminalIsLast
<1> QED BY <1>1, <1>2, <1>3, <1>4, WindowKept DEF ScriptInv

\* A run is over when its end has been published.
LEMMA RunReturnsInv ==
  ASSUME ScriptTypes, ScriptInv, RunReturns
  PROVE  ScriptTypes' /\ ScriptInv'
<1>1. /\ phase = "closing" /\ hand[Current("terminal")] = "idle" /\ phase' = "idle"
      /\ UNCHANGED <<hand, run, reading, lines, hasty, feed, staging, tick, told, accepted, service, pusher>>
  BY DEF RunReturns, windowVars, serviceVars
<1>2. ScriptTypes'
  BY <1>1, RunTypes DEF ScriptTypes
<1>3. WritersInTurn'
  <2>1. ASSUME NEW w \in Writers, hand[w] # "idle" \/ w \in reading
        PROVE  w.run \in hasty
    <3>1. w.run \in hasty \/ (w.run = run /\ w.kind = "terminal")
      BY <1>1, <2>1, AtWorkIs DEF ScriptInv, WritersInTurn
    <3>2. w.run = run /\ w.kind = "terminal" => w = Current("terminal")
      BY WriterIs DEF Current
    <3>3. w.kind = "terminal" => w \notin reading
      BY DEF ScriptTypes
    <3> QED BY <3>1, <3>2, <3>3, <2>1, <1>1
  <2> QED BY <2>1, <1>1 DEF ScriptInv, WritersInTurn
<1>4. EndsInTurn'
  BY <1>1 DEF ScriptInv, EndsInTurn, TerminalIsLast
<1> QED BY <1>1, <1>2, <1>3, <1>4, WindowKept DEF ScriptInv
\* The end of a run is published when its other writers are done, or the run
\* is one that ended at once.
LEMMA PublishTerminalInv ==
  ASSUME ScriptTypes, ScriptInv, publishTerminal
  PROVE  ScriptTypes' /\ ScriptInv'
<1> DEFINE end == Current("terminal")
<1>1. /\ startFails \/ awaitStderr \/ returnAtOnce
      /\ phase' = "closing" /\ publish(end)
      /\ UNCHANGED <<run, lines, feed, staging, tick, told, accepted, service, pusher>>
  BY DEF publishTerminal, windowVars, serviceVars
<1>2. phase \in {"starting", "reading"}
  BY <1>1 DEF startFails, awaitStderr, returnAtOnce
<1>3. run \in Runs /\ run \in Nat /\ run \in 1 .. run
  BY <1>2, FeedBounds DEF ScriptInv, WritersInTurn
<1>4. /\ end \in Writers /\ end.kind = "terminal" /\ end.run = run
      /\ \A k \in {"status", "out", "err"} : Current(k) \in Writers /\ Current(k).kind = k
      /\ \A w \in Writers : w.run = run => w = Current(w.kind)
  BY <1>3, WriterIs DEF Current
<1>5. /\ hand' \in [Writers -> {"idle", "seen", "unseen"}]
      /\ \A v \in Writers : v # end => hand'[v] = hand[v]
  BY <1>1, <1>4, PublishIs
<1>6. /\ reading' \subseteq reading /\ (\A w \in reading : w \in reading' \/ hand[w] = "idle")
      /\ hasty \subseteq hasty' /\ hasty' \subseteq hasty \cup {run}
  BY <1>1 DEF startFails, awaitStderr, returnAtOnce
<1>7. ASSUME NEW w \in Writers, run \notin hasty', hand[w] # "idle" \/ w \in reading'
      PROVE  w.run \in hasty
  <2> SUFFICES ASSUME w.run = run, w.kind \in AtWorkIn(phase)
               PROVE  FALSE
    BY <1>6, <1>7 DEF ScriptInv, WritersInTurn
  <2>1. w = Current(w.kind)
    BY <1>4
  <2>2. CASE startFails
    <3>1. w = Current("status") /\ w.kind = "status"
      BY <2>1, <2>2, AtWorkIs DEF startFails
    <3> QED BY <3>1, <2>2, <1>7, <1>6 DEF startFails, ScriptTypes
  <2>3. CASE awaitStderr
    <3>1. w \in {Current("out"), Current("err")} /\ w.kind \in {"out", "err"}
      BY <2>1, <2>3, AtWorkIs DEF awaitStderr
    <3>2. w \notin reading
      BY <3>1, <2>3 DEF awaitStderr
    <3>3. hand[w] = "idle"
      BY <3>1, <3>2 DEF ScriptInv, WritersInTurn
    <3> QED BY <3>2, <3>3, <1>6, <1>7
  <2>4. CASE returnAtOnce
    BY <2>4, <1>7 DEF returnAtOnce
  <2> QED BY <1>1, <2>2, <2>3, <2>4
<1> HIDE DEF end
<1>8. hasty' \subseteq 1 .. run'
  BY <1>1, <1>3, <1>6 DEF ScriptTypes
<1>9. ScriptTypes'
  BY <1>1, <1>5, <1>6, <1>8, RunTypes DEF ScriptTypes
<1>10. WritersInTurn'
  <2>1. ASSUME NEW w \in Writers, w.kind \in {"out", "err"}, hand'[w] # "idle"
        PROVE  w \in reading'
    <3>1. hand[w] # "idle"
      BY <2>1, <1>4, <1>5
    <3>2. w \in reading
      BY <2>1, <3>1 DEF ScriptInv, WritersInTurn
    <3> QED BY <3>1, <3>2, <1>6
  <2>2. ASSUME NEW w \in Writers, hand'[w] # "idle" \/ w \in reading'
        PROVE  w.run \in hasty' \/ (w.run = run /\ w.kind = "terminal")
    <3>1. CASE w = end
      BY <3>1, <1>4
    <3>2. CASE w # end
      <4>1. hand[w] # "idle" \/ w \in reading'
        BY <3>2, <2>2, <1>5
      <4>2. CASE run \notin hasty'
        BY <4>1, <4>2, <1>6, <1>7
      <4>3. CASE run \in hasty'
        <5>1. w.run \in hasty \/ w.run = run
          BY <4>1, <1>6 DEF ScriptInv, WritersInTurn
        <5> QED BY <5>1, <4>3, <1>6
      <4> QED BY <4>2, <4>3
    <3> QED BY <3>1, <3>2
  <2> QED BY <2>1, <2>2, <1>1, <1>3, AtWorkIs DEF WritersInTurn
<1>11. EndsInTurn'
  <2>1. \A i \in 1 .. Len(accepted) : accepted[i].run <= run
                 /\ ~(accepted[i].kind = "terminal" /\ accepted[i].run = run /\ run \notin hasty)
    BY <1>2 DEF ScriptInv, EndsInTurn
  <2>2. TerminalIsLast'
    BY <1>1, <1>6 DEF ScriptInv, EndsInTurn, TerminalIsLast
  <2> QED BY <2>1, <2>2, <1>1, <1>6 DEF EndsInTurn
<1> QED BY <1>1, <1>9, <1>10, <1>11, WindowKept DEF ScriptInv

\* One more writer, behind the others.
LEMMA Accept ==
  ASSUME ScriptTypes, ScriptInv, NEW x \in Writers, hand[x] # "idle", NEW i \in 1 .. Len(accepted),
         {accepted[i].run, x.run} \cap hasty = {}
  PROVE  accepted[i].run < x.run \/ (accepted[i].run = x.run /\ accepted[i].kind # "terminal")
<1>1. x.run = run /\ x.kind \in AtWorkIn(phase)
  BY DEF ScriptInv, WritersInTurn
<1>2. accepted[i].run <= run /\ accepted[i] \in Writers
  BY DEF ScriptInv, EndsInTurn, ScriptTypes
<1>3. accepted[i].run \in Nat /\ run \in Nat
  <2>1. run \in Nat
    BY FeedBounds DEF ScriptTypes
  <2>2. accepted[i].run \in Runs
    BY <1>2, WriterIs
  <2> QED BY <2>1, <2>2, FeedBounds
<1>4. ASSUME accepted[i].run = run, accepted[i].kind = "terminal"
      PROVE  FALSE
  <2>1. phase = "idle" \/ (phase = "closing" /\ hand[accepted[i]] = "idle")
    BY <1>1, <1>4 DEF ScriptInv, EndsInTurn
  <2>2. x.kind = "terminal" /\ phase = "closing"
    BY <2>1, <1>1, AtWorkIs
  <2>3. x = accepted[i]
    BY <2>2, <1>1, <1>2, <1>4, WriterIs
  <2> QED BY <2>1, <2>2, <2>3
<1> QED BY <1>1, <1>2, <1>3, <1>4

\* An event is offered to the channel: it is taken, or it is lost.
LEMMA OfferInv ==
  ASSUME ScriptTypes, ScriptInv, NEW x \in Writers, offer(x)
  PROVE  ScriptTypes' /\ ScriptInv'
<1> DEFINE n == Len(accepted)
<1>1. /\ hand[x] # "idle" /\ hand' = [hand EXCEPT ![x] = "idle"]
      /\ \/ /\ Subscribed /\ Len(feed) < ChannelLimit
            /\ accepted' = Append(accepted, x) /\ feed' = Append(feed, n + 1)
         \/ UNCHANGED <<feed, accepted>>
      /\ UNCHANGED <<run, phase, reading, lines, hasty, staging, tick, told, service, pusher>>
  BY DEF offer, windowVars, serviceVars, runVars
<1>2. /\ hand' \in [Writers -> {"idle", "seen", "unseen"}]
      /\ hand'[x] = "idle" /\ \A w \in Writers : w # x => hand'[w] = hand[w]
  BY <1>1 DEF ScriptTypes
<1>3. WritersInTurn'
  BY <1>1, <1>2 DEF ScriptInv, WritersInTurn
<1>4. CASE UNCHANGED <<feed, accepted>>
  <2>1. ScriptTypes'
    BY <1>1, <1>2, <1>4, RunTypes DEF ScriptTypes
  <2>2. EndsInTurn'
    <3>1. ASSUME NEW i \in 1 .. Len(accepted), hand[accepted[i]] = "idle"
          PROVE  hand'[accepted[i]] = "idle"
      <4>1. accepted[i] \in Writers
        BY DEF ScriptTypes
      <4> QED BY <3>1, <4>1, <1>2
    <3> QED BY <3>1, <1>1, <1>4 DEF ScriptInv, EndsInTurn, TerminalIsLast
  <2> QED BY <2>1, <2>2, <1>1, <1>3, <1>4, WindowKept DEF ScriptInv
<1>5. CASE Subscribed /\ Len(feed) < ChannelLimit /\ accepted' = Append(accepted, x) /\ feed' = Append(feed, n + 1)
  <2>1. /\ n \in Nat /\ accepted \in Seq(Writers) /\ Len(feed) \in Nat /\ feed \in Seq(1 .. n)
        /\ staging \in [events : Seq(1 .. n), gap : Nat] /\ Len(staging.events) \in Nat /\ staging.gap \in Nat
        /\ tick \in Seq([gap : Nat, event : 1 .. n]) /\ Known \in Nat
    BY DEF ScriptTypes, Known
  <2> HIDE DEF n
  <2>2. 1 .. n \subseteq 1 .. (n + 1) /\ n + 1 \in 1 .. (n + 1)
    BY <2>1
  <2>3. [gap : Nat, event : 1 .. n] \subseteq [gap : Nat, event : 1 .. (n + 1)]
    BY <2>2
  <2>4. /\ feed \in Seq(1 .. (n + 1)) /\ staging.events \in Seq(1 .. (n + 1))
        /\ tick \in Seq([gap : Nat, event : 1 .. (n + 1)])
    <3>1. staging.events \in Seq(1 .. n)
      BY <2>1
    <3>2. staging.events \in Seq(1 .. (n + 1))
      BY <3>1, <2>2, SeqMonotonic
    <3>3. feed \in Seq(1 .. (n + 1))
      BY <2>1, <2>2, SeqMonotonic
    <3>4. tick \in Seq([gap : Nat, event : 1 .. (n + 1)])
      BY <2>1, <2>3, SeqMonotonic
    <3> QED BY <3>2, <3>3, <3>4
  <2>5. /\ accepted' \in Seq(Writers) /\ Len(accepted') = n + 1
        /\ (\A i \in 1 .. n : accepted'[i] = accepted[i]) /\ accepted'[n + 1] = x
    BY <1>5, <2>1, AppendProperties DEF n
  <2>6. /\ feed' \in Seq(1 .. (n + 1)) /\ Len(feed') = Len(feed) + 1
        /\ (\A i \in 1 .. Len(feed) : feed'[i] = feed[i]) /\ feed'[Len(feed) + 1] = n + 1
    BY <1>5, <2>1, <2>2, <2>4, AppendProperties
  <2>7. staging \in [events : Seq(1 .. (n + 1)), gap : Nat]
    BY <2>1, <2>4
  <2>8. Len(feed') <= ChannelLimit
    BY <1>5, <2>1, <2>6, FeedBounds
  <2>9. ScriptTypes'
    BY <1>1, <1>2, <2>4, <2>5, <2>6, <2>7, <2>8 DEF ScriptTypes
  <2>10. Known' = Known /\ Subscribed'
    BY <1>1, <1>5 DEF Known, Subscribed
  <2>11. service \notin {"quieting", "stopped"} /\ Known + staging.gap + Len(staging.events) + Len(feed) = n
    BY <1>5 DEF ScriptInv, InSequence, Subscribed, n
  <2>12. \A i \in 1 .. Len(feed') : feed'[i] = Known + staging.gap + Len(staging.events) + i
    <3> TAKE i \in 1 .. Len(feed')
    <3>1. CASE i = Len(feed) + 1
      <4>1. feed'[i] = n + 1
        BY <3>1, <2>6
      <4>2. Known + staging.gap + Len(staging.events) + (Len(feed) + 1) = n + 1
        BY <2>1, <2>11
      <4> QED BY <3>1, <4>1, <4>2
    <3>2. CASE i # Len(feed) + 1
      <4>1. i \in 1 .. Len(feed)
        BY <3>2, <2>1, <2>6
      <4>2. feed[i] = Known + staging.gap + Len(staging.events) + i
        BY <4>1 DEF ScriptInv, InSequence
      <4> QED BY <4>1, <4>2, <2>6
    <3> QED BY <3>1, <3>2
  <2>13. Known + staging.gap + Len(staging.events) + Len(feed') = Len(accepted')
    BY <2>1, <2>5, <2>6, <2>11
  <2>14. InSequence'
    BY <1>1, <2>10, <2>12, <2>13 DEF ScriptInv, InSequence
  <2>15. StoppedIsGone'
    BY <1>1 DEF ScriptInv, StoppedIsGone
  <2>16. TerminalIsLast'
    <3> SUFFICES ASSUME NEW i \in 1 .. (n + 1), NEW j \in 1 .. (n + 1), i < j,
                        {accepted'[i].run, accepted'[j].run} \cap hasty = {}
                 PROVE  accepted'[i].run < accepted'[j].run \/ (accepted'[i].run = accepted'[j].run /\ accepted'[i].kind # "terminal")
      BY <1>1, <2>5 DEF TerminalIsLast
    <3>1. i \in 1 .. n /\ accepted'[i] = accepted[i]
      BY <2>1, <2>5
    <3>2. CASE j = n + 1
      BY <3>1, <3>2, <2>5, <1>1, Accept DEF n
    <3>3. CASE j # n + 1
      <4>1. j \in 1 .. n /\ accepted'[j] = accepted[j]
        BY <3>3, <2>1, <2>5
      <4> QED BY <3>1, <4>1 DEF ScriptInv, EndsInTurn, TerminalIsLast, n
    <3> QED BY <3>2, <3>3
  <2>17. ASSUME NEW i \in 1 .. (n + 1)
         PROVE  /\ accepted'[i].run <= run
                /\ accepted'[i].kind = "terminal" /\ accepted'[i].run = run /\ run \notin hasty =>
                      phase = "idle" \/ (phase = "closing" /\ hand'[accepted'[i]] = "idle")
    <3>1. CASE i = n + 1
      <4>1. accepted'[i] = x
        BY <3>1, <2>5
      <4>2. x.run \in hasty \/ (x.run = run /\ x.kind \in AtWorkIn(phase))
        BY <1>1 DEF ScriptInv, WritersInTurn
      <4>3. x.run <= run
        <5>1. run \in Nat /\ hasty \subseteq 1 .. run
          BY FeedBounds DEF ScriptTypes
        <5>2. \A r \in hasty \cup {run} : r <= run
          BY <5>1
        <5>3. x.run \in hasty \cup {run}
          BY <4>2
        <5> QED BY <5>2, <5>3
      <4>4. x.kind = "terminal" /\ x.run = run /\ run \notin hasty => phase = "closing"
        BY <4>2, AtWorkIs DEF ScriptTypes
      <4> QED BY <4>1, <4>3, <4>4, <1>2
    <3>2. CASE i # n + 1
      <4>1. i \in 1 .. n /\ accepted'[i] = accepted[i]
        BY <3>2, <2>1, <2>5
      <4>2. accepted[i] \in Writers
        BY <4>1, <2>1 DEF n
      <4> QED BY <4>1, <4>2, <1>2 DEF ScriptInv, EndsInTurn, n
    <3> QED BY <3>1, <3>2
  <2> QED BY <2>5, <2>9, <2>14, <2>15, <2>16, <2>17, <1>1, <1>3 DEF ScriptInv, EndsInTurn
<1> QED BY <1>1, <1>4, <1>5
\* Every step of the script feed keeps its invariant.
LEMMA ScriptNextInv == ScriptTypes /\ ScriptInv /\ [ScriptNext]_scriptVars => ScriptTypes' /\ ScriptInv'
<1> SUFFICES ASSUME ScriptTypes, ScriptInv, [ScriptNext]_scriptVars
             PROVE  ScriptTypes' /\ ScriptInv'
  OBVIOUS
<1>1. CASE RunStarts
  BY <1>1, RunStartsInv
<1>2. CASE RunSteps
  <2>1. CASE Spawns
    BY <2>1, SpawnsInv
  <2>2. CASE publishTerminal
    BY <2>2, PublishTerminalInv
  <2>3. CASE RunReturns
    BY <2>3, RunReturnsInv
  <2>4. ASSUME NEW w \in Writers, offer(w)
        PROVE  ScriptTypes' /\ ScriptInv'
    BY <2>4, OfferInv
  <2>5. ASSUME NEW w \in Writers, pipeEnds(w)
        PROVE  ScriptTypes' /\ ScriptInv'
    BY <2>5, PipeEndsInv
  <2> QED BY <1>2, <2>1, <2>2, <2>3, <2>4, <2>5 DEF RunSteps
<1>3. ASSUME NEW w \in Writers, publishLine(w)
      PROVE  ScriptTypes' /\ ScriptInv'
  BY <1>3, PublishLineInv
<1>4. CASE StartScriptEventStream
  BY <1>4, StartStreamInv
<1>5. CASE ServiceSteps
  BY <1>5, SubscribeInv, ForwarderExitsInv, PusherExitsInv DEF ServiceSteps
<1>6. CASE StopScriptEventStream
  BY <1>6, StopStreamInv
<1>7. CASE forwardScriptEvents
  BY <1>7, ForwardInv
<1>8. CASE flush
  BY <1>8, FlushFeedInv
<1>9. CASE UNCHANGED scriptVars
  <2>1. ScriptTypes'
    BY <1>9 DEF scriptVars, ScriptTypes
  <2>2. /\ UNCHANGED <<tick, told, staging, feed, accepted, service, pusher>>
        /\ UNCHANGED <<hand, run, phase, reading, hasty, accepted>>
    BY <1>9 DEF scriptVars
  <2> QED BY <2>1, <2>2, WindowKept, RunsKept DEF ScriptInv
<1> QED BY <1>1, <1>2, <1>3, <1>4, <1>5, <1>6, <1>7, <1>8, <1>9 DEF ScriptNext

-----------------------------------------------------------------------------
\* The steps of the log

\* Nothing is logged yet.
LEMMA LogInitInv == LogInit => LogTypes /\ LogInv
<1> SUFFICES ASSUME LogInit
             PROVE  LogTypes /\ LogInv
  OBVIOUS
<1> USE DEF LogInit
<1>1. <<>> \in Seq(1 .. 0) /\ Len(<<>>) = 0
  BY EmptySeq
<1>2. Nothing \in [events : Seq(1 .. 0), gap : Nat] /\ Nothing.events = <<>> /\ Nothing.gap = 0
  BY <1>1 DEF Nothing
<1>3. LogTypes
  BY <1>1, <1>2, FeedBounds DEF LogTypes, Lines
<1>4. recent = Retained(logged)
  BY DEF Retained
<1>5. Staged = {} /\ InHand = {}
  BY <1>1, <1>2 DEF Staged, InHand
<1>6. StagedOnce
  BY <1>1, <1>2, <1>5 DEF StagedOnce
<1>7. ShownOnce
  BY <1>5 DEF ShownOnce, Pushing, Lines
<1> QED BY <1>3, <1>4, <1>6, <1>7 DEF LogInv, BacklogFits, LostAreTold

\* What is being pushed has a number that was given.
LEMMA PushingIs ==
  ASSUME LogTypes
  PROVE  /\ Staged \subseteq 1 .. logged /\ InHand \subseteq 1 .. logged /\ Pushing \subseteq 1 .. logged
         /\ 1 .. logged \subseteq Lines /\ logged \in Nat /\ IsFiniteSet(1 .. logged)
<1>1. logged \in Nat /\ MaxLogged \in Nat /\ logged <= MaxLogged
  BY FeedBounds DEF LogTypes
<1>2. logStaging.events \in Seq(1 .. logged)
  BY DEF LogTypes
<1>3. Staged \subseteq 1 .. logged
  <2>1. \A i \in 1 .. Len(logStaging.events) : logStaging.events[i] \in 1 .. logged
    <3> DEFINE s == logStaging.events
    <3> HIDE DEF s
    <3>1. s \in Seq(1 .. logged)
      BY <1>2 DEF s
    <3>2. \A i \in 1 .. Len(s) : s[i] \in 1 .. logged
      BY <3>1, ElementOfSeq
    <3> QED BY <3>2 DEF s
  <2> QED BY <2>1 DEF Staged
<1>4. InHand \subseteq 1 .. logged
  BY <1>1 DEF InHand, LogTypes
<1>5. IsFiniteSet(1 .. logged)
  BY <1>1, FS_Interval
<1> QED BY <1>1, <1>3, <1>4, <1>5 DEF Pushing, Lines

\* The lines that are lost are finitely many, and fewer when fewer can be.
LEMMA LostWithin ==
  ASSUME LogTypes, NEW L, L \subseteq Lost
  PROVE  IsFiniteSet(Lost) /\ Cardinality(Lost) \in Nat /\ Cardinality(L) \in Nat /\ Cardinality(L) <= Cardinality(Lost)
<1>1. Lost \subseteq 1 .. logged
  BY DEF Lost
<1>2. IsFiniteSet(Lost)
  BY <1>1, PushingIs, FS_Subset
<1> QED BY <1>2, FS_Subset, FS_CardinalityType

\* The panel begins to listen.
LEMMA OnAppLogInv ==
  ASSUME LogTypes, LogInv, onAppLog
  PROVE  LogTypes' /\ LogInv'
<1> USE DEF onAppLog
<1>1. LogTypes'
  BY DEF LogTypes
<1>2. StagedOnce' /\ Pushing' = Pushing
  <2>1. Staged' = Staged /\ InHand' = InHand
    BY DEF Staged, InHand
  <2> QED BY <2>1 DEF LogInv, StagedOnce, Pushing
<1>3. ShownOnce'
  BY <1>2 DEF LogInv, ShownOnce
<1> QED BY <1>1, <1>2, <1>3 DEF LogInv, BacklogFits, LostAreTold

\* The panel asks for what was retained.
LEMMA BacklogInv ==
  ASSUME LogTypes, LogInv, RecentAppLogs
  PROVE  LogTypes' /\ LogInv'
<1> USE DEF RecentAppLogs
<1>1. LogTypes'
  BY DEF LogTypes
<1>2. StagedOnce' /\ Pushing' = Pushing /\ Pushing = Staged \cup InHand
  BY DEF LogInv, StagedOnce, Staged, InHand, Pushing
<1>3. ShownOnce'
  BY <1>2 DEF LogInv, ShownOnce
<1>4. recent = Retained(logged) /\ logged \in 0 .. logged
  BY PushingIs DEF LogInv
<1>5. BacklogFits'
  BY <1>2, <1>4 DEF BacklogFits
<1>6. Lost' = {}
  <2> SUFFICES ASSUME NEW n \in 1 .. logged, \A m \in Retained(logged) : m < n
               PROVE  FALSE
    BY <1>4 DEF Lost
  <2>1. logged \in Retained(logged)
    BY PushingIs, FeedBounds DEF Retained
  <2> QED BY <2>1, PushingIs
<1>7. LostAreTold'
  <2>1. Cardinality({}) = 0
    BY FS_EmptySet
  <2>2. panelGap + logStaging.gap >= 0
    BY DEF LogTypes
  <2> QED BY <1>6, <2>1, <2>2 DEF LostAreTold
<1> QED BY <1>1, <1>2, <1>3, <1>5, <1>7 DEF LogInv

\* The panel adds the lines of the backlog that it has not.
LEMMA SeedInv ==
  ASSUME LogTypes, LogInv, seedAppLog
  PROVE  LogTypes' /\ LogInv'
<1>1. /\ panel = "asking" /\ panel' = "seeded"
      /\ entries' = [n \in Lines |-> IF n \in backlog /\ entries[n] = 0 THEN 1 ELSE entries[n]]
      /\ UNCHANGED <<recent, logged, logHand, logStaging, backlog, panelGap, twice>>
  BY DEF seedAppLog
<1>2. entries' \in [Lines -> Nat] /\ \A n \in Lines : entries'[n] = IF n \in backlog /\ entries[n] = 0 THEN 1 ELSE entries[n]
  BY <1>1 DEF LogTypes
<1>3. LogTypes'
  BY <1>1, <1>2 DEF LogTypes
<1>4. StagedOnce' /\ Pushing' = Pushing
  BY <1>1 DEF LogInv, StagedOnce, Staged, InHand, Pushing
<1>5. /\ \E n \in 0 .. logged : backlog = Retained(n)
      /\ \A n \in backlog \ twice : n \notin Pushing
  BY <1>1 DEF LogInv, BacklogFits
<1>6. backlog \subseteq 1 .. logged /\ 1 .. logged \subseteq Lines
  BY <1>5, PushingIs DEF Retained
<1>7. ShownOnce'
  <2>1. ASSUME NEW n \in Lines, n > logged
        PROVE  entries'[n] = 0
    <3>1. n \notin backlog
      BY <2>1, <1>6, PushingIs DEF Lines
    <3>2. entries[n] = 0
      BY <2>1 DEF LogInv, ShownOnce
    <3> QED BY <3>1, <3>2, <1>2
  <2>2. ASSUME NEW n \in Lines \ twice
        PROVE  entries'[n] <= 1 /\ (n \in Pushing => entries'[n] = 0)
    <3>1. entries[n] <= 1 /\ (n \in Pushing => entries[n] = 0)
      BY DEF LogInv, ShownOnce
    <3>2. CASE n \in backlog
      BY <3>1, <3>2, <1>2, <1>5
    <3>3. CASE n \notin backlog
      BY <3>1, <3>3, <1>2
    <3> QED BY <3>2, <3>3
  <2> QED BY <2>1, <2>2, <1>1, <1>4 DEF ShownOnce
<1>8. BacklogFits'
  BY <1>1, <1>2, <1>4, <1>5, <1>6 DEF BacklogFits
<1>9. LostAreTold'
  <2>1. Lost' \subseteq Lost
    BY <1>1, <1>2, <1>4, <1>6 DEF Lost
  <2>2. Cardinality(Lost) <= panelGap + logStaging.gap /\ panelGap + logStaging.gap \in Nat
    BY <1>1 DEF LogInv, LostAreTold, LogTypes
  <2> QED BY <1>1, <2>1, <2>2, LostWithin DEF LostAreTold
<1> QED BY <1>1, <1>3, <1>4, <1>7, <1>8, <1>9 DEF LogInv
\* A line gets its number, and is in its logger's hand.
LEMMA LogEventInv ==
  ASSUME LogTypes, LogInv, NEW l \in Loggers, logEvent(l)
  PROVE  LogTypes' /\ LogInv'
<1> DEFINE new == logged + 1
<1>1. /\ logHand[l] = 0 /\ logged < MaxLogged /\ logged' = new
      /\ recent' = {n \in recent \cup {new} : n + RecentLimit > new}
      /\ logHand' = [logHand EXCEPT ![l] = new]
      /\ UNCHANGED <<logStaging, panel, backlog, entries, panelGap, twice>>
  BY DEF logEvent
<1>2. /\ logged \in Nat /\ new \in Nat /\ new \in Lines /\ new > logged /\ new # 0
      /\ 1 .. logged \subseteq 1 .. new /\ 0 .. logged \subseteq 0 .. new /\ new \in 1 .. new /\ new \in 0 .. new
  BY <1>1, FeedBounds, PushingIs DEF Lines
<1>3. logHand' \in [Loggers -> 0 .. new] /\ logHand'[l] = new /\ \A k \in Loggers : k # l => logHand'[k] = logHand[k]
  BY <1>1, <1>2 DEF LogTypes
<1>4. \A k \in Loggers : logHand[k] \in 0 .. logged /\ logHand[k] # new
  BY <1>2 DEF LogTypes
<1> HIDE DEF new
<1>5. logStaging \in [events : Seq(1 .. new), gap : Nat]
  <2>1. logStaging.events \in Seq(1 .. logged) /\ logStaging.gap \in Nat
        /\ logStaging \in [events : Seq(1 .. logged), gap : Nat]
    BY DEF LogTypes
  <2>2. logStaging.events \in Seq(1 .. new)
    BY <2>1, <1>2, SeqMonotonic
  <2> QED BY <2>1, <2>2
<1>6. LogTypes'
  <2>1. new \in 0 .. MaxLogged
    BY <1>2, FeedBounds DEF Lines
  <2> QED BY <1>1, <1>3, <1>5, <2>1 DEF LogTypes
<1>7. recent' = Retained(new)
  <2>1. recent = Retained(logged)
    BY DEF LogInv
  <2>2. \A n \in 1 .. new : n # new => n \in 1 .. logged
    BY <1>2 DEF new
  <2>3. \A n \in 1 .. logged : n + RecentLimit > new => n + RecentLimit > logged
    BY <1>2, FeedBounds DEF new
  <2> QED BY <2>1, <2>2, <2>3, <1>1, <1>2 DEF Retained
<1>8. Staged' = Staged /\ InHand' = InHand \cup {new} /\ Pushing' = Pushing \cup {new}
  <2>1. Staged' = Staged
    BY <1>1 DEF Staged
  <2>2. InHand' \subseteq InHand \cup {new}
    <3> SUFFICES ASSUME NEW k \in Loggers, logHand'[k] # 0
                 PROVE  logHand'[k] \in InHand \cup {new}
      BY DEF InHand
    <3> QED BY <1>3 DEF InHand
  <2>3. InHand \subseteq InHand'
    <3> SUFFICES ASSUME NEW k \in Loggers, logHand[k] # 0
                 PROVE  logHand[k] \in InHand'
      BY DEF InHand
    <3>1. k # l
      BY <1>1
    <3> QED BY <3>1, <1>3 DEF InHand
  <2>4. new \in InHand'
    BY <1>2, <1>3 DEF InHand
  <2> QED BY <2>1, <2>2, <2>3, <2>4 DEF Pushing
<1>9. new \notin Staged /\ new \notin Pushing
  BY <1>2, PushingIs
<1>10. StagedOnce'
  <2>1. ASSUME NEW j \in Loggers, NEW k \in Loggers, logHand'[j] = logHand'[k], logHand'[j] # 0
        PROVE  j = k
    BY <2>1, <1>3, <1>4 DEF LogInv, StagedOnce
  <2>2. Staged' \cap InHand' = {}
    BY <1>8, <1>9 DEF LogInv, StagedOnce
  <2> QED BY <2>1, <2>2, <1>1 DEF LogInv, StagedOnce
<1>11. entries[new] = 0
  BY <1>2 DEF LogInv, ShownOnce
<1>12. ShownOnce'
  <2>1. \A n \in Lines : n > new => entries[n] = 0
    BY <1>2 DEF LogInv, ShownOnce, Lines
  <2>2. ASSUME NEW n \in Lines \ twice
        PROVE  entries[n] <= 1 /\ (n \in Pushing \cup {new} => entries[n] = 0)
    BY <1>11 DEF LogInv, ShownOnce
  <2> QED BY <2>1, <2>2, <1>1, <1>8 DEF LogInv, ShownOnce
<1>13. BacklogFits'
  <2> SUFFICES ASSUME panel \in {"asking", "seeded"}
               PROVE  /\ \E n \in 0 .. new : backlog = Retained(n)
                      /\ \A n \in backlog \ twice : n \notin Pushing \cup {new}
                      /\ panel = "seeded" => \A n \in backlog : entries[n] # 0
    BY <1>1, <1>8 DEF BacklogFits
  <2>1. PICK n \in 0 .. logged : backlog = Retained(n)
    BY DEF LogInv, BacklogFits
  <2>2. new \notin backlog
    BY <2>1, <1>2 DEF Retained
  <2> QED BY <2>1, <2>2, <1>2 DEF LogInv, BacklogFits
<1>14. LostAreTold'
  <2>1. Lost' = Lost
    <3>1. (1 .. new) \ Pushing' = (1 .. logged) \ Pushing
      <4>1. \A n \in 1 .. new : n # new => n \in 1 .. logged
        BY <1>2 DEF new
      <4> QED BY <4>1, <1>2, <1>8
    <3> QED BY <3>1, <1>1 DEF Lost
  <2> QED BY <2>1, <1>1 DEF LogInv, LostAreTold
<1> QED BY <1>1, <1>6, <1>7, <1>10, <1>12, <1>13, <1>14 DEF LogInv

\* A line goes from a logger's hand to the staging slice, which may lose its first.
LEMMA QueueIs ==
  ASSUME LogTypes, LogInv, NEW l \in Loggers, QueueAppLog(l)
  PROVE  /\ LogTypes' /\ StagedOnce'
         /\ Pushing' \subseteq Pushing
         /\ \/ Pushing \subseteq Pushing' /\ logStaging'.gap = logStaging.gap
            \/ (\E y : Pushing \subseteq Pushing' \cup {y}) /\ logStaging'.gap = logStaging.gap + 1
<1> DEFINE N == 1 .. logged
<1>1. /\ logHand[l] # 0 /\ logStaging' = Stage(logStaging, logHand[l]) /\ logHand' = [logHand EXCEPT ![l] = 0]
      /\ UNCHANGED <<recent, logged, panel, backlog, entries, panelGap, twice>>
  BY DEF QueueAppLog
<1>2. PICK q, x, r : q = logStaging /\ x = logHand[l] /\ r = logStaging'
  <2>1. \E q, x, r : q = logStaging /\ x = logHand[l] /\ r = logStaging'
    OBVIOUS
  <2> QED BY <2>1
<1>3. /\ q \in [events : Seq(N), gap : Nat] /\ Len(q.events) <= StageLimit /\ x \in N /\ r = Stage(q, x)
      /\ q.events \in Seq(N) /\ Len(q.events) \in Nat /\ q.gap \in Nat /\ x # 0
  BY <1>1, <1>2, PushingIs DEF LogTypes
<1>4. /\ r \in [events : Seq(N), gap : Nat] /\ Len(r.events) <= StageLimit /\ r.events # <<>>
      /\ \E c \in {0, 1} : StagedAs(r, q, x, c)
  <2>1. q \in [events : Seq(N), gap : Nat] /\ Len(q.events) <= StageLimit /\ x \in N /\ r = Stage(q, x)
    BY <1>3
  <2> HIDE DEF N
  <2> QED BY <2>1, StageIs
<1>5. PICK c \in {0, 1} : StagedAs(r, q, x, c)
  BY <1>4
<1> DEFINE e == q.events
           f == r.events
           L == Len(e)
           M == Len(f)
<1> HIDE DEF e, f
<1>6. /\ e \in Seq(N) /\ f \in Seq(N) /\ L \in Nat /\ M \in Nat /\ M > 0 /\ r.gap = q.gap + c /\ M = L + 1 - c
      /\ \A i \in 1 .. M : f[i] = IF i = M THEN x ELSE e[i + c]
  BY <1>3, <1>4, <1>5 DEF StagedAs, e, f
<1>7. Staged = {e[i] : i \in 1 .. L} /\ Staged' = {f[i] : i \in 1 .. M}
  BY <1>2 DEF Staged, e, f
<1> HIDE DEF L, M
<1>8. \A k \in Loggers : logHand[k] \in 0 .. logged
  BY DEF LogTypes
<1>9. /\ logHand' \in [Loggers -> 0 .. logged] /\ logHand'[l] = 0
      /\ \A k \in Loggers : k # l => logHand'[k] = logHand[k]
  BY <1>1, PushingIs DEF LogTypes
<1>10. LogTypes'
  BY <1>1, <1>2, <1>4, <1>9 DEF LogTypes
<1>11. InHand' = InHand \ {x} /\ x \in InHand
  <2>1. x \in InHand
    BY <1>2, <1>3 DEF InHand
  <2>2. InHand' \subseteq InHand \ {x}
    <3> SUFFICES ASSUME NEW k \in Loggers, logHand'[k] # 0
                 PROVE  logHand'[k] \in InHand \ {x}
      BY DEF InHand
    <3>1. k # l /\ logHand'[k] = logHand[k]
      BY <1>9
    <3>2. logHand[k] # x
      BY <3>1, <1>2, <1>3 DEF LogInv, StagedOnce
    <3> QED BY <3>1, <3>2 DEF InHand
  <2>3. InHand \ {x} \subseteq InHand'
    <3> SUFFICES ASSUME NEW k \in Loggers, logHand[k] # 0, logHand[k] # x
                 PROVE  logHand[k] \in InHand'
      BY DEF InHand
    <3>1. k # l
      BY <1>2
    <3> QED BY <3>1, <1>9 DEF InHand
  <2> QED BY <2>1, <2>2, <2>3
<1>12. x \notin Staged
  BY <1>11 DEF LogInv, StagedOnce
<1>13. \A i, j \in 1 .. L : e[i] = e[j] => i = j
  BY <1>2 DEF LogInv, StagedOnce, e, L
<1>14. \A i \in 1 .. M : i # M => i + c \in 1 .. L
  BY <1>6
<1>15. Staged' \subseteq Staged \cup {x} /\ x \in Staged'
  <2>1. \A i \in 1 .. M : f[i] \in Staged \cup {x}
    BY <1>6, <1>7, <1>14
  <2>2. M \in 1 .. M /\ f[M] = x
    BY <1>6
  <2> QED BY <2>1, <2>2, <1>7
<1>16. StagedOnce'
  <2>1. ASSUME NEW i \in 1 .. M, NEW j \in 1 .. M, f[i] = f[j]
        PROVE  i = j
    <3>1. \A k \in 1 .. M : k # M => f[k] \in Staged /\ f[k] # x
      BY <1>6, <1>7, <1>12, <1>14
    <3>2. f[M] = x
      BY <1>6
    <3>3. CASE i # M /\ j # M
      <4>1. e[i + c] = e[j + c] /\ i + c \in 1 .. L /\ j + c \in 1 .. L
        BY <2>1, <3>3, <1>6, <1>14
      <4>2. i + c = j + c
        BY <4>1, <1>13
      <4> QED BY <4>2
    <3> QED BY <2>1, <3>1, <3>2, <3>3
  <2>2. \A j, k \in Loggers : logHand'[j] = logHand'[k] /\ logHand'[j] # 0 => j = k
    BY <1>9 DEF LogInv, StagedOnce
  <2>3. Staged' \cap InHand' = {}
    BY <1>11, <1>15 DEF LogInv, StagedOnce
  <2>4. \A i, j \in 1 .. Len(logStaging'.events) : logStaging'.events[i] = logStaging'.events[j] => i = j
    BY <2>1, <1>2 DEF f, M
  <2> QED BY <2>2, <2>3, <2>4 DEF StagedOnce
<1>17. Pushing' \subseteq Pushing
  BY <1>11, <1>15 DEF Pushing
<1>18. \A i \in 1 .. L : i # c => e[i] \in Staged'
  <2> SUFFICES ASSUME NEW i \in 1 .. L, i # c
               PROVE  e[i] \in Staged'
    OBVIOUS
  <2>1. i - c \in 1 .. M /\ i - c # M /\ (i - c) + c = i
    BY <1>6
  <2>2. f[i - c] = e[i]
    BY <2>1, <1>6
  <2> QED BY <2>1, <2>2, <1>7
<1>19. CASE c = 0
  <2>1. Staged \subseteq Staged'
    BY <1>7, <1>18, <1>19
  <2>2. logStaging'.gap = logStaging.gap
    BY <1>2, <1>3, <1>6, <1>19
  <2>3. Pushing \subseteq Pushing'
    BY <2>1, <1>11, <1>15 DEF Pushing
  <2> QED BY <2>2, <2>3, <1>10, <1>16, <1>17
<1>20. CASE c = 1
  <2>1. Staged \subseteq Staged' \cup {e[1]}
    BY <1>7, <1>18, <1>20
  <2>2. logStaging'.gap = logStaging.gap + 1
    BY <1>2, <1>3, <1>6, <1>20
  <2>3. Pushing \subseteq Pushing' \cup {e[1]}
    BY <2>1, <1>11, <1>15 DEF Pushing
  <2>4. \E y : Pushing \subseteq Pushing' \cup {y}
    BY <2>3
  <2> QED BY <2>2, <2>4, <1>10, <1>16, <1>17
<1> QED BY <1>19, <1>20

\* What the slice loses is counted.
LEMMA QueueAppLogInv ==
  ASSUME LogTypes, LogInv, NEW l \in Loggers, QueueAppLog(l)
  PROVE  LogTypes' /\ LogInv'
<1>1. UNCHANGED <<recent, logged, panel, backlog, entries, panelGap, twice>>
  BY DEF QueueAppLog
<1>2. /\ LogTypes' /\ StagedOnce'
      /\ Pushing' \subseteq Pushing
      /\ \/ Pushing \subseteq Pushing' /\ logStaging'.gap = logStaging.gap
         \/ (\E y : Pushing \subseteq Pushing' \cup {y}) /\ logStaging'.gap = logStaging.gap + 1
  BY QueueIs
<1>3. ShownOnce' /\ BacklogFits'
  BY <1>1, <1>2 DEF LogInv, ShownOnce, BacklogFits
<1>4. LostAreTold'
  <2> SUFFICES ASSUME panel \in {"asking", "seeded"}
               PROVE  Cardinality(Lost') <= panelGap + logStaging'.gap
    BY <1>1 DEF LostAreTold
  <2>1. /\ Cardinality(Lost) <= panelGap + logStaging.gap /\ panelGap \in Nat /\ logStaging.gap \in Nat
        /\ IsFiniteSet(Lost) /\ Cardinality(Lost) \in Nat
    BY LostWithin DEF LogInv, LostAreTold, LogTypes
  <2>2. CASE Pushing \subseteq Pushing' /\ logStaging'.gap = logStaging.gap
    <3>1. Lost' \subseteq Lost
      BY <1>1, <2>2 DEF Lost
    <3>2. Cardinality(Lost') \in Nat /\ Cardinality(Lost') <= Cardinality(Lost)
      BY <3>1, LostWithin
    <3> QED BY <2>1, <2>2, <3>2
  <2>3. CASE (\E y : Pushing \subseteq Pushing' \cup {y}) /\ logStaging'.gap = logStaging.gap + 1
    <3>1. PICK y : Pushing \subseteq Pushing' \cup {y}
      BY <2>3
    <3>2. Lost' \subseteq Lost \cup {y}
      BY <1>1, <3>1 DEF Lost
    <3>3. IsFiniteSet(Lost \cup {y}) /\ Cardinality(Lost \cup {y}) <= Cardinality(Lost) + 1
          /\ Cardinality(Lost \cup {y}) \in Nat
      <4>1. IsFiniteSet(Lost \cup {y}) /\ (Cardinality(Lost \cup {y}) = Cardinality(Lost) \/ Cardinality(Lost \cup {y}) = Cardinality(Lost) + 1)
        BY <2>1, FS_AddElement
      <4> QED BY <4>1, <2>1
    <3>4. Cardinality(Lost') \in Nat /\ Cardinality(Lost') <= Cardinality(Lost \cup {y})
      BY <3>2, <3>3, FS_Subset, FS_CardinalityType
    <3> QED BY <2>1, <2>3, <3>3, <3>4
  <2> QED BY <1>2, <2>2, <2>3
<1> QED BY <1>1, <1>2, <1>3, <1>4 DEF LogInv

\* What is staged is on the panel, or was told to it.
LEMMA FlushLogsInv ==
  ASSUME LogTypes, LogInv, flushAppLogs
  PROVE  LogTypes' /\ LogInv'
<1> DEFINE e == logStaging.events
           places(n) == {i \in 1 .. Len(e) : e[i] = n}
<1>1. /\ logStaging' = Nothing /\ UNCHANGED <<recent, logged, logHand, panel, backlog, twice>>
      /\ panel = "closed" => UNCHANGED <<entries, panelGap>>
      /\ panel # "closed" => /\ entries' = [n \in Lines |-> entries[n] + Cardinality(places(n))]
                             /\ panelGap' = panelGap + logStaging.gap
  BY DEF flushAppLogs
<1>2. Len(e) \in Nat
  BY DEF LogTypes
<1>3. ASSUME NEW n
      PROVE  /\ Cardinality(places(n)) \in Nat
             /\ n \in Staged => Cardinality(places(n)) = 1
             /\ n \notin Staged => Cardinality(places(n)) = 0
  <2>1. CASE n \in Staged
    <3>1. PICK i \in 1 .. Len(e) : e[i] = n
      BY <2>1 DEF Staged
    <3>2. places(n) = {i}
      BY <3>1 DEF LogInv, StagedOnce
    <3>3. Cardinality({i}) = 1
      BY FS_Singleton
    <3> HIDE DEF places
    <3>4. Cardinality(places(n)) = 1
      BY <3>2, <3>3
    <3> QED BY <2>1, <3>4
  <2>2. CASE n \notin Staged
    <3>1. places(n) = {}
      BY <2>2 DEF Staged
    <3> QED BY <2>2, <3>1, FS_EmptySet
  <2> QED BY <2>1, <2>2
<1> HIDE DEF e, places
<1>4. <<>> \in Seq(1 .. logged) /\ Len(<<>>) = 0
  BY EmptySeq
<1>5. Nothing \in [events : Seq(1 .. logged), gap : Nat] /\ Nothing.events = <<>> /\ Nothing.gap = 0
  BY <1>4 DEF Nothing
<1>6. entries' \in [Lines -> Nat] /\ panelGap' \in Nat
  BY <1>1, <1>3 DEF LogTypes
<1>7. LogTypes'
  BY <1>1, <1>4, <1>5, <1>6, FeedBounds DEF LogTypes
<1>8. Staged' = {} /\ InHand' = InHand /\ Pushing' = InHand /\ Pushing' \subseteq Pushing
  <2>1. Staged' = {}
    BY <1>1, <1>4, <1>5 DEF Staged
  <2>2. InHand' = InHand
    BY <1>1 DEF InHand
  <2> QED BY <2>1, <2>2 DEF Pushing
<1>9. StagedOnce'
  BY <1>1, <1>4, <1>5, <1>8 DEF LogInv, StagedOnce
<1>10. \A n \in Lines : \/ entries'[n] = entries[n] /\ (panel = "closed" \/ n \notin Staged)
                        \/ entries'[n] = entries[n] + 1 /\ n \in Staged /\ panel # "closed"
  BY <1>1, <1>3 DEF LogTypes
<1>11. \A n \in Lines : entries[n] \in Nat
  BY DEF LogTypes
<1>12. ShownOnce'
  <2>1. panel = "closed" => \A n \in Lines : entries'[n] = 0
    BY <1>1 DEF LogInv, ShownOnce
  <2>2. ASSUME NEW n \in Lines, n > logged
        PROVE  entries'[n] = 0
    <3>1. n \notin Staged /\ entries[n] = 0
      BY <2>2, PushingIs DEF LogInv, ShownOnce, Lines
    <3> QED BY <3>1, <1>10
  <2>3. ASSUME NEW n \in Lines \ twice
        PROVE  entries'[n] <= 1 /\ (n \in InHand => entries'[n] = 0)
    <3>1. entries[n] <= 1 /\ (n \in Pushing => entries[n] = 0)
      BY DEF LogInv, ShownOnce
    <3>2. n \in InHand => n \in Pushing /\ n \notin Staged
      BY DEF LogInv, StagedOnce, Pushing
    <3>3. n \in Staged => n \in Pushing
      BY DEF Pushing
    <3> QED BY <3>1, <3>2, <3>3, <1>10
  <2> QED BY <2>1, <2>2, <2>3, <1>1, <1>8 DEF LogInv, ShownOnce
<1>13. BacklogFits'
  <2>1. ASSUME panel \in {"asking", "seeded"}
        PROVE  \A n \in backlog : n \in Lines
    <3>1. PICK k \in 0 .. logged : backlog = Retained(k)
      BY <2>1 DEF LogInv, BacklogFits
    <3> QED BY <3>1, PushingIs DEF Retained
  <2>2. \A n \in Lines : entries[n] # 0 => entries'[n] # 0
    BY <1>10, <1>11
  <2> QED BY <2>1, <2>2, <1>1, <1>8 DEF LogInv, BacklogFits
<1>14. LostAreTold'
  <2> SUFFICES ASSUME panel \in {"asking", "seeded"}
               PROVE  Cardinality(Lost') <= panelGap' + 0
    BY <1>1, <1>5 DEF LostAreTold
  <2>1. Lost' \subseteq Lost
    <3> SUFFICES ASSUME NEW n \in 1 .. logged, n \notin InHand, entries'[n] = 0, \A m \in backlog : m < n
                 PROVE  n \in Lost
      BY <1>1, <1>8 DEF Lost
    <3>1. n \in Lines
      BY PushingIs
    <3>2. entries[n] = 0 /\ n \notin Staged
      BY <3>1, <1>10, <1>11
    <3> QED BY <3>2 DEF Lost, Pushing
  <2>2. Cardinality(Lost) <= panelGap + logStaging.gap
    BY DEF LogInv, LostAreTold
  <2>3. panelGap' = panelGap + logStaging.gap /\ panelGap' \in Nat
    BY <1>1, <1>6
  <2> QED BY <2>1, <2>2, <2>3, LostWithin
<1> QED BY <1>1, <1>7, <1>9, <1>12, <1>13, <1>14 DEF LogInv
\* Every step of the log keeps its invariant.
LEMMA LogNextInv == LogTypes /\ LogInv /\ [LogNext]_logVars => LogTypes' /\ LogInv'
<1> SUFFICES ASSUME LogTypes, LogInv, [LogNext]_logVars
             PROVE  LogTypes' /\ LogInv'
  OBVIOUS
<1>1. ASSUME NEW l \in Loggers, logEvent(l)
      PROVE  LogTypes' /\ LogInv'
  BY <1>1, LogEventInv
<1>2. ASSUME NEW l \in Loggers, QueueAppLog(l)
      PROVE  LogTypes' /\ LogInv'
  BY <1>2, QueueAppLogInv
<1>3. CASE LogSteps
  BY <1>3, FlushLogsInv, OnAppLogInv, BacklogInv, SeedInv DEF LogSteps
<1>4. CASE UNCHANGED logVars
  <2> USE <1>4 DEF logVars
  <2>1. LogTypes'
    BY DEF LogTypes
  <2>2. Staged' = Staged /\ InHand' = InHand /\ Pushing' = Pushing
    BY DEF Staged, InHand, Pushing
  <2>3. StagedOnce'
    BY <2>2 DEF LogInv, StagedOnce
  <2>4. ShownOnce' /\ BacklogFits'
    BY <2>2 DEF LogInv, ShownOnce, BacklogFits
  <2>5. LostAreTold'
    BY <2>2 DEF LogInv, LostAreTold, Lost
  <2> QED BY <2>1, <2>3, <2>4, <2>5 DEF LogInv
<1> QED BY <1>1, <1>2, <1>3, <1>4 DEF LogNext

-----------------------------------------------------------------------------
\* What the invariant says

FeedInv == ScriptTypes /\ ScriptInv /\ LogTypes /\ LogInv

\* Both feeds keep their invariants: the events of a run reach the window in
\* the order the channel took them, and a line is staged, shown or told of once.
THEOREM FeedsInvariant == FeedsSpec => []FeedInv
<1>1. ScriptInit /\ LogInit => FeedInv
  BY ScriptInitInv, LogInitInv DEF FeedInv
<1>2. FeedInv /\ [FeedsNext]_<<scriptVars, logVars>> => FeedInv'
  <2> SUFFICES ASSUME FeedInv, [FeedsNext]_<<scriptVars, logVars>>
               PROVE  FeedInv'
    OBVIOUS
  <2>1. [ScriptNext]_scriptVars /\ [LogNext]_logVars
    BY DEF FeedsNext
  <2> QED BY <2>1, ScriptNextInv, LogNextInv DEF FeedInv
<1> QED BY <1>1, <1>2, PTL DEF FeedsSpec

\* The number of lines retained.
LEMMA RetainedFits ==
  ASSUME NEW n \in Nat
  PROVE  Retained(n) \subseteq 1 .. n /\ Cardinality(Retained(n)) <= RecentLimit
<1>1. Retained(n) \subseteq 1 .. n
  BY DEF Retained
<1>2. CASE n <= RecentLimit
  <2>1. IsFiniteSet(1 .. n) /\ Cardinality(1 .. n) = n
    <3>1. IsFiniteSet(1 .. n) /\ Cardinality(1 .. n) = IF 1 > n THEN 0 ELSE n - 1 + 1
      BY FS_Interval
    <3> QED BY <3>1
  <2>2. Cardinality(Retained(n)) \in Nat /\ Cardinality(Retained(n)) <= n
    BY <1>1, <2>1, FS_Subset, FS_CardinalityType
  <2> QED BY <1>1, <1>2, <2>2, FeedBounds
<1>3. CASE n > RecentLimit
  <2> DEFINE a == n - RecentLimit + 1
  <2>1. a \in Int /\ a <= n /\ n - a + 1 = RecentLimit
    BY <1>3, FeedBounds
  <2>2. IsFiniteSet(a .. n) /\ Cardinality(a .. n) = RecentLimit
    <3> HIDE DEF a
    <3>1. IsFiniteSet(a .. n) /\ Cardinality(a .. n) = IF a > n THEN 0 ELSE n - a + 1
      BY <2>1, FS_Interval
    <3> QED BY <3>1, <2>1
  <2>3. Retained(n) \subseteq a .. n
    BY <1>3, FeedBounds DEF Retained
  <2>4. Cardinality(Retained(n)) <= Cardinality(a .. n)
    BY <2>2, <2>3, FS_Subset
  <2> QED BY <1>1, <2>2, <2>4
<1> QED BY <1>2, <1>3, FeedBounds

\* The types of the two feeds.
LEMMA InvImpliesFeedTypes == FeedInv => FeedTypeOK
<1> SUFFICES ASSUME FeedInv
             PROVE  FeedTypeOK
  OBVIOUS
<1> USE DEF FeedInv
<1>1. run \in Runs \cup {0} /\ hasty \subseteq Runs
  <2>1. run \in 0 .. Cardinality(Runs) /\ hasty \subseteq 1 .. run
    BY DEF ScriptTypes
  <2> QED BY <2>1, FeedBounds
<1>2. recent \subseteq Lines /\ Cardinality(recent) <= RecentLimit
  <2>1. recent = Retained(logged)
    BY DEF LogInv
  <2> QED BY <2>1, RetainedFits, PushingIs
<1>3. logHand \in [Loggers -> Lines \cup {0}]
  <2>1. 0 .. logged \subseteq Lines \cup {0}
    BY PushingIs, FeedBounds DEF Lines, LogTypes
  <2> QED BY <2>1 DEF LogTypes
<1>4. staging.events \in Seq(1 .. Len(accepted))
  BY DEF ScriptTypes
<1> QED BY <1>1, <1>2, <1>3, <1>4 DEF FeedTypeOK, ScriptTypes, LogTypes

\* The window can tell what it missed.
LEMMA InvImpliesGapsAreTold == ScriptTypes /\ ScriptInv => GapsAreTold
BY DEF ScriptInv, InSequence, GapsAreTold, Known

\* A line that is not there is being pushed, was told of, or is old.
LEMMA InvImpliesNoLineLost == LogTypes /\ LogInv => NoLineLost
<1> SUFFICES ASSUME LogTypes, LogInv, panel = "seeded"
             PROVE  NoLineLost
  BY DEF NoLineLost
<1> DEFINE missing == {n \in 1 .. logged : entries[n] = 0} \ (Staged \cup InHand)
           old == {n \in missing : backlog # {} /\ \A m \in backlog : n < m}
<1>1. PICK k \in 0 .. logged : backlog = Retained(k)
  BY DEF LogInv, BacklogFits
<1>2. k \in Nat /\ logged \in Nat
  BY PushingIs
<1>3. missing \ old \subseteq Lost
  <2> SUFFICES ASSUME NEW n \in missing, n \notin old
               PROVE  n \in Lost
    OBVIOUS
  <2>1. n \in 1 .. logged /\ entries[n] = 0 /\ n \notin Pushing
    BY DEF Pushing
  <2>2. n \notin Retained(k)
    BY <1>1, <2>1 DEF LogInv, BacklogFits
  <2>3. CASE n > k
    <3>1. \A m \in backlog : m < n
      BY <1>1, <1>2, <2>1, <2>3 DEF Retained
    <3> QED BY <2>1, <3>1 DEF Lost
  <2>4. CASE n <= k
    <3>1. n + RecentLimit <= k
      BY <2>1, <2>2, <2>4, <1>2, FeedBounds DEF Retained
    <3>2. \A m \in backlog : n < m
      BY <1>1, <1>2, <2>1, <3>1, FeedBounds DEF Retained
    <3>3. k \in backlog
      BY <1>1, <1>2, <2>1, <2>4, FeedBounds DEF Retained
    <3> QED BY <3>2, <3>3
  <2> QED BY <1>2, <2>1, <2>3, <2>4
<1> HIDE DEF missing, old
<1>4. Cardinality(Lost) <= panelGap + logStaging.gap /\ panelGap + logStaging.gap \in Nat
  BY DEF LogInv, LostAreTold, LogTypes
<1>5. Cardinality(missing \ old) <= panelGap + logStaging.gap
  BY <1>3, <1>4, LostWithin
<1> QED BY <1>5 DEF NoLineLost, missing, old

\* The window shows what happened: the end of a run after all it published, an
\* overflow announced before the first event behind it, each line of the log
\* once, and none missing without being told.
THEOREM FeedsStayTruthful == FeedsSpec => []FeedsAreTruthful
<1>1. FeedInv => FeedsAreTruthful
  <2>1. FeedInv => LinesOnce
    BY DEF FeedInv, LogInv, ShownOnce, LinesOnce
  <2>2. FeedInv => TerminalIsLast
    BY DEF FeedInv, ScriptInv, EndsInTurn
  <2> QED BY <2>1, <2>2, InvImpliesFeedTypes, InvImpliesGapsAreTold, InvImpliesNoLineLost DEF FeedsAreTruthful, FeedInv
<1> QED BY <1>1, FeedsInvariant, PTL

\* Nothing is sent to the window once StopScriptEventStream has returned.
THEOREM NothingAfterStop == FeedsSpec => SilentOnceStopped
<1>1. FeedInv /\ [FeedsNext]_<<scriptVars, logVars>> => [service = "stopped" => UNCHANGED windowVars]_scriptVars
  <2> SUFFICES ASSUME FeedInv, ScriptNext, service = "stopped"
               PROVE  UNCHANGED windowVars
    BY DEF FeedsNext
  <2>1. pusher = "gone"
    BY DEF FeedInv, ScriptInv, StoppedIsGone
  <2>2. ~flush
    BY <2>1 DEF flush
  <2> QED BY <2>2 DEF ScriptNext, RunStarts, RunSteps, Spawns, publishTerminal, RunReturns, offer, pipeEnds,
                      publishLine, StartScriptEventStream, ServiceSteps, SubscribeScriptEvents, ForwarderExits,
                      PusherExits, StopScriptEventStream, forwardScriptEvents
<1> QED BY <1>1, FeedsInvariant, PTL DEF FeedsSpec, SilentOnceStopped
=============================================================================
