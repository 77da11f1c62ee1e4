---------------------------- MODULE DesktopFeeds ----------------------------
(***************************************************************************)
(* What the desktop pushes to its window: the events of script runs        *)
(* (script/events.go, ScriptService and the EventPusher of wails) and the  *)
(* lines of the application log (App.logEvent, AppLogStream.tsx).          *)
(*                                                                         *)
(* A script's event goes from its publisher to the channel of the desktop, *)
(* from there to the pusher's staging slice, and with the next tick to the *)
(* window.  An event is known by its place among those the channel took;   *)
(* the bus's Seq and its ring buffer, which the desktop never asks to be   *)
(* replayed (it subscribes with no Seq), are left out.                     *)
(***************************************************************************)
EXTENDS Naturals, Sequences, FiniteSets

CONSTANTS
    Runs,           \* script runs, 1 .. the bound; one at a time
    ChannelLimit,   \* ScriptEventRingCapacity, of the subscriber's channel
    StageLimit,     \* maxStagedScriptEvents, maxStagedAppLogs
    MaxLines,       \* bound: log lines and call outcomes of all runs
    Loggers,        \* goroutines that log
    RecentLimit,    \* maxRecentAppLogs
    MaxLogged       \* bound: application log lines

ASSUME FeedAssumption ==
    /\ IsFiniteSet(Runs) /\ Runs = 1 .. Cardinality(Runs)
    /\ {ChannelLimit, StageLimit, RecentLimit} \subseteq Nat \ {0}
    /\ {MaxLines, MaxLogged} \subseteq Nat

\* "out" is the loop over the child's stdout, "err" the goroutine that reads
\* its stderr; Run itself publishes the first and the last event of a run
Writers == [run : Runs, kind : {"status", "out", "err", "terminal"}]

VARIABLES
    hand,       \* each writer: idle, or publishing an event to the subscribers
                \* it saw: the desktop (seen) or none (unseen)
    run,        \* the last run started
    phase,      \* where Run is
    reading,    \* the writers "out" and "err" that have not ended
    lines,      \* lines still to come (bound)
    service,    \* ScriptService: off, starting, live, stopping, quieting, stopped
    feed,       \* the desktop's channel
    staging,    \* EventPusher.scriptEvents and pendingScriptEventGap
    pusher,     \* the pusher's loop: off, on, cancelled, gone
    tick,       \* what the window was sent by the last tick with something to send
    told,       \* history: events and gaps it was told of before that tick
    accepted,   \* history: the writers of the events the channel took
    hasty       \* history: runs that ended without waiting for "err"

scriptVars == <<hand, run, phase, reading, lines, service, feed,
                staging, pusher, tick, told, accepted, hasty>>
serviceVars == <<service, pusher>>
windowVars == <<tick, told>>
runVars == <<run, phase, reading, lines, hasty>>

Nothing == [events |-> <<>>, gap |-> 0]
Subscribed == service \in {"live", "stopping"}

ScriptInit ==
    /\ hand = [w \in Writers |-> "idle"]
    /\ run = 0
    /\ phase = "idle"
    /\ reading = {}
    /\ lines = MaxLines
    /\ service = "off"
    /\ feed = <<>>
    /\ staging = Nothing
    /\ pusher = "off"
    /\ tick = <<>>
    /\ told = 0
    /\ accepted = <<>>
    /\ hasty = {}

-----------------------------------------------------------------------------
(* The bus: publish *)

\* its critical section: the subscribers at this moment
publish(w) ==
    /\ hand[w] = "idle"
    /\ hand' = [hand EXCEPT ![w] = IF Subscribed THEN "seen" ELSE "unseen"]

\* its fan-out, outside the lock: a full channel loses the event
offer(w) ==
    /\ hand[w] # "idle"
    /\ hand' = [hand EXCEPT ![w] = "idle"]
    /\ IF hand[w] = "seen" /\ Subscribed /\ Len(feed) < ChannelLimit
       THEN /\ accepted' = Append(accepted, w)
            /\ feed' = Append(feed, Len(accepted) + 1)
       ELSE UNCHANGED <<feed, accepted>>
    /\ UNCHANGED <<staging, windowVars>>
    /\ UNCHANGED serviceVars
    /\ UNCHANGED runVars

-----------------------------------------------------------------------------
(* Host.Run, as far as it publishes *)

Current(kind) == [run |-> run, kind |-> kind]

\* A run starts by publishing its status.  The window that asks for it is
\* there only after OnStartup has begun and before OnShutdown.
RunStarts ==
    /\ phase = "idle"
    /\ service \in {"starting", "live"}
    /\ run + 1 \in Runs
    /\ run' = run + 1
    /\ phase' = "starting"
    /\ publish([run |-> run + 1, kind |-> "status"])
    /\ UNCHANGED <<reading, lines, hasty, feed, staging, windowVars, accepted>>
    /\ UNCHANGED serviceVars

\* the child is spawned and its pipes are read
Spawns ==
    /\ phase = "starting"
    /\ hand[Current("status")] = "idle"
    /\ phase' = "reading"
    /\ reading' = reading \cup {Current("out"), Current("err")}
    /\ UNCHANGED <<hand, run, lines, hasty, feed, staging, windowVars, accepted>>
    /\ UNCHANGED serviceVars

\* a log frame, a stderr line, or the outcome of a call (publishCallOutcome)
publishLine(w) ==
    /\ w \in reading
    /\ lines > 0
    /\ lines' = lines - 1
    /\ publish(w)
    /\ UNCHANGED <<run, phase, reading, hasty, feed, staging, windowVars, accepted>>
    /\ UNCHANGED serviceVars

\* the pipe ends, or was closed by cmd.Wait
pipeEnds(w) ==
    /\ w \in reading
    /\ hand[w] = "idle"
    /\ reading' = reading \ {w}
    /\ UNCHANGED <<hand, run, phase, lines, hasty, feed, staging, windowVars, accepted>>
    /\ UNCHANGED serviceVars

\* a step before the child starts fails
startFails ==
    /\ phase = "starting"
    /\ hand[Current("status")] = "idle"
    /\ UNCHANGED <<reading, hasty>>

\* <-stderrDone: runDispatchIO returns once both pipes have ended
awaitStderr ==
    /\ phase = "reading"
    /\ {Current("out"), Current("err")} \cap reading = {}
    /\ UNCHANGED <<reading, hasty>>

\* the answer to a call cannot be written, or the frame is of no known kind:
\* runDispatchIO returns at once, and the reader of stderr is still at work
returnAtOnce ==
    /\ phase = "reading"
    /\ Current("out") \in reading
    /\ hand[Current("out")] = "idle"
    /\ reading' = reading \ {Current("out")}
    /\ hasty' = hasty \cup {run}

\* however Run ends, its outermost defer publishes the terminal event
publishTerminal ==
    /\ startFails \/ awaitStderr \/ returnAtOnce
    /\ phase' = "closing"
    /\ publish(Current("terminal"))
    /\ UNCHANGED <<run, lines, feed, staging, windowVars, accepted>>
    /\ UNCHANGED serviceVars

\* and the one before it lets the next run start
RunReturns ==
    /\ phase = "closing"
    /\ hand[Current("terminal")] = "idle"
    /\ phase' = "idle"
    /\ UNCHANGED <<hand, run, reading, lines, hasty, feed, staging, windowVars, accepted>>
    /\ UNCHANGED serviceVars

-----------------------------------------------------------------------------
(* EventPusher *)

\* A fault: the event that does not fit replaces the oldest, and is not counted
FaultCoalesce(q, ev) ==
    IF Len(q.events) >= StageLimit
    THEN [q EXCEPT !.events = Append(Tail(@), ev)]
    ELSE [q EXCEPT !.events = Append(@, ev)]

\* QueueScriptEvent, QueueAppLog: the oldest goes when there is no room, and is
\* counted
Stage(q, ev) ==
    IF Len(q.events) >= StageLimit
    THEN [events |-> Append(Tail(q.events), ev), gap |-> q.gap + 1]
    ELSE [q EXCEPT !.events = Append(@, ev)]

\* how many events these views stand for
Counted(views) ==
    LET Sum[i \in 0 .. Len(views)] ==
            IF i = 0 THEN 0
            ELSE Sum[i - 1] + IF views[i].gap = 0 THEN 1 ELSE views[i].gap
    IN  Sum[Len(views)]

\* what one flush emits: a gap first, then the events as they were staged; a
\* gap's event is only there to give every view the same fields
Views(q) ==
    (IF q.gap > 0 THEN <<[gap |-> q.gap, event |-> q.events[1]]>> ELSE <<>>) \o
    [i \in 1 .. Len(q.events) |-> [gap |-> 0, event |-> q.events[i]]]

\* A fault: a tick with a gap to tell emits nothing, and keeps it for the next
FaultSkipGaps ==
    /\ pusher \in {"on", "cancelled"}
    /\ staging # Nothing
    /\ staging.gap = 0
    /\ tick' = Views(staging)
    /\ told' = told + Counted(tick)
    /\ staging' = Nothing
    /\ UNCHANGED <<hand, feed, accepted>>
    /\ UNCHANGED serviceVars
    /\ UNCHANGED runVars

\* a tick of the loop; it may be picked once more after the context is done
flush ==
    /\ pusher \in {"on", "cancelled"}
    /\ staging # Nothing
    /\ tick' = Views(staging)
    /\ told' = told + Counted(tick)
    /\ staging' = Nothing
    /\ UNCHANGED <<hand, feed, accepted>>
    /\ UNCHANGED serviceVars
    /\ UNCHANGED runVars

-----------------------------------------------------------------------------
(* ScriptService: started once by OnStartup, stopped once by OnShutdown *)

StartScriptEventStream ==
    /\ service = "off"
    /\ service' = "starting"
    /\ pusher' = "on"
    /\ UNCHANGED <<hand, feed, staging, windowVars, accepted>>
    /\ UNCHANGED runVars

SubscribeScriptEvents ==
    /\ service = "starting"
    /\ service' = "live"
    /\ feed' = <<>>
    /\ UNCHANGED <<hand, pusher, staging, windowVars, accepted>>
    /\ UNCHANGED runVars

\* the goroutine takes an event though it may be cancelled: select picks any
\* ready case
forwardScriptEvents ==
    /\ Subscribed
    /\ feed # <<>>
    /\ feed' = Tail(feed)
    /\ staging' = Stage(staging, Head(feed))
    /\ UNCHANGED <<hand, windowVars, accepted>>
    /\ UNCHANGED serviceVars
    /\ UNCHANGED runVars

StopScriptEventStream ==
    /\ service = "live"
    /\ service' = "stopping"
    /\ UNCHANGED <<hand, feed, staging, windowVars, accepted, pusher>>
    /\ UNCHANGED runVars

\* the goroutine sees ctx.Done, unsubscribes and closes streamDone; Stop goes
\* on to cancel the pusher
ForwarderExits ==
    /\ service = "stopping"
    /\ service' = "quieting"
    /\ pusher' = "cancelled"
    /\ feed' = <<>>
    /\ UNCHANGED <<hand, staging, windowVars, accepted>>
    /\ UNCHANGED runVars

\* the loop ends, and with it EventPusher.Stop
PusherExits ==
    /\ service = "quieting"
    /\ service' = "stopped"
    /\ pusher' = "gone"
    /\ UNCHANGED <<hand, feed, staging, windowVars, accepted>>
    /\ UNCHANGED runVars

RunSteps ==
    \/ Spawns \/ publishTerminal \/ RunReturns
    \/ \E w \in Writers : offer(w) \/ pipeEnds(w)
ServiceSteps == SubscribeScriptEvents \/ ForwarderExits \/ PusherExits

ScriptNext ==
    \/ RunStarts \/ RunSteps
    \/ \E w \in Writers : publishLine(w)
    \/ StartScriptEventStream \/ ServiceSteps \/ StopScriptEventStream
    \/ forwardScriptEvents \/ flush

\* goroutines run, a pipe of a finite child ends, a ticker ticks
ScriptFairness ==
    /\ WF_scriptVars(RunSteps)
    /\ WF_scriptVars(ServiceSteps)
    /\ WF_scriptVars(forwardScriptEvents)
    /\ WF_scriptVars(flush)
-----------------------------------------------------------------------------
(* The application log: App.logEvent, RecentAppLogs, and the panel *)

VARIABLES
    recent,     \* App.recentAppLogs: the numbers of the lines retained
    logged,     \* App.logSeq
    logHand,    \* each logger: the line it has still to stage (0: none)
    logStaging, \* EventPusher.appLogs and pendingAppLogGap
    panel,      \* the log panel: closed, listening, asking, or seeded
    backlog,    \* what RecentAppLogs answered
    entries,    \* how often each line is on the panel
    panelGap,   \* lines the panel was told are missing
    twice       \* history: lines staged or in hand when the backlog was read

logVars == <<recent, logged, logHand, logStaging, panel, backlog, entries,
             panelGap, twice>>

Lines == 1 .. MaxLogged

LogInit ==
    /\ recent = {}
    /\ logged = 0
    /\ logHand = [l \in Loggers |-> 0]
    /\ logStaging = Nothing
    /\ panel = "closed"
    /\ backlog = {}
    /\ entries = [n \in Lines |-> 0]
    /\ panelGap = 0
    /\ twice = {}

\* its critical section: number the line and retain the latest
logEvent(l) ==
    /\ logHand[l] = 0
    /\ logged < MaxLogged
    /\ logged' = logged + 1
    /\ recent' = {n \in recent \cup {logged + 1} : n + RecentLimit > logged + 1}
    /\ logHand' = [logHand EXCEPT ![l] = logged + 1]
    /\ UNCHANGED <<logStaging, panel, backlog, entries, panelGap, twice>>

\* outside the lock, so that two lines may be staged in either order
QueueAppLog(l) ==
    /\ logHand[l] # 0
    /\ logStaging' = Stage(logStaging, logHand[l])
    /\ logHand' = [logHand EXCEPT ![l] = 0]
    /\ UNCHANGED <<recent, logged, panel, backlog, entries, panelGap, twice>>

\* EventsEmit reaches the panel only if it listens; appendAppLog does not ask
\* whether the line is there
flushAppLogs ==
    /\ logStaging # Nothing
    /\ logStaging' = Nothing
    /\ IF panel = "closed" THEN UNCHANGED <<entries, panelGap>>
       ELSE /\ entries' = [n \in Lines |-> entries[n] +
                   Cardinality({i \in 1 .. Len(logStaging.events) : logStaging.events[i] = n})]
            /\ panelGap' = panelGap + logStaging.gap
    /\ UNCHANGED <<recent, logged, logHand, panel, backlog, twice>>

\* AppLogStream: listen first,
onAppLog ==
    /\ panel = "closed"
    /\ panel' = "listening"
    /\ UNCHANGED <<recent, logged, logHand, logStaging, backlog, entries, panelGap, twice>>

Staged == {logStaging.events[i] : i \in 1 .. Len(logStaging.events)}
InHand == {logHand[l] : l \in Loggers} \ {0}

\* then ask for the backlog,
RecentAppLogs ==
    /\ panel = "listening"
    /\ panel' = "asking"
    /\ backlog' = recent
    /\ twice' = recent \cap (Staged \cup InHand)
    /\ UNCHANGED <<recent, logged, logHand, logStaging, entries, panelGap>>

\* and add the lines of it that did not come live in the meantime
seedAppLog ==
    /\ panel = "asking"
    /\ panel' = "seeded"
    /\ entries' = [n \in Lines |-> IF n \in backlog /\ entries[n] = 0 THEN 1 ELSE entries[n]]
    /\ UNCHANGED <<recent, logged, logHand, logStaging, backlog, panelGap, twice>>

LogSteps == flushAppLogs \/ onAppLog \/ RecentAppLogs \/ seedAppLog

LogNext ==
    \/ \E l \in Loggers : logEvent(l) \/ QueueAppLog(l)
    \/ LogSteps

(* The two feeds of a desktop: they share no state *)
FeedsNext ==
    \/ ScriptNext /\ UNCHANGED logVars
    \/ LogNext /\ UNCHANGED scriptVars

FeedsSpec ==
    /\ ScriptInit /\ LogInit
    /\ [][FeedsNext]_<<scriptVars, logVars>>
    /\ ScriptFairness

-----------------------------------------------------------------------------
(* Properties *)

\* Every variable has its type, and no queue is longer than its limit.
FeedTypeOK ==
    /\ hand \in [Writers -> {"idle", "seen", "unseen"}]
    /\ run \in Runs \cup {0}
    /\ phase \in {"idle", "starting", "reading", "closing"}
    /\ reading \subseteq Writers
    /\ lines \in 0 .. MaxLines
    /\ service \in {"off", "starting", "live", "stopping", "quieting", "stopped"}
    /\ pusher \in {"off", "on", "cancelled", "gone"}
    /\ accepted \in Seq(Writers)
    /\ {feed, staging.events} \subseteq Seq(1 .. Len(accepted))
    /\ tick \in Seq([gap : Nat, event : 1 .. Len(accepted)]) /\ told \in Nat
    /\ hasty \subseteq Runs
    /\ Len(feed) <= ChannelLimit
    /\ Len(staging.events) <= StageLimit /\ Len(logStaging.events) <= StageLimit
    /\ recent \subseteq Lines /\ Cardinality(recent) <= RecentLimit
    /\ logHand \in [Loggers -> Lines \cup {0}]
    /\ panel \in {"closed", "listening", "asking", "seeded"}
    /\ entries \in [Lines -> Nat]

\* After a run's last event nothing more of that run reaches the desktop, and
\* nothing of a later run comes before it, though two goroutines publish and
\* the offers to the channel are made outside the lock (the terminal event
\* tells a subscriber that the run ended); a run that ended at once, with the
\* reader of its stderr still at work, is excused.
TerminalIsLast ==
    \A i, j \in 1 .. Len(accepted) :
        LET a == accepted[i]
            b == accepted[j]
        IN  i < j /\ {a.run, b.run} \cap hasty = {} =>
                a.run < b.run \/ (a.run = b.run /\ a.kind # "terminal")

\* The window can tell what it missed: each event it is sent is the next one
\* the channel took, after those it was sent and those it was told are gone,
\* so that an overflow of the staging slice is announced before the first
\* event behind it ("a consumer ... learns about the drop before").
GapsAreTold ==
    /\ \A i \in 1 .. Len(tick) :
          tick[i].gap = 0 =>
            tick[i].event = told + Counted(SubSeq(tick, 1, i))
    /\ service = "live" =>
          told + Counted(tick) + staging.gap + Len(staging.events) + Len(feed)
              = Len(accepted)

\* Once StopScriptEventStream has returned nothing is sent to the window,
\* which Wails is about to take down.
SilentOnceStopped == [][service = "stopped" => UNCHANGED windowVars]_scriptVars

\* the end of run r is in the channel, or came through it, at place i
EndAt(r, i) ==
    i <= Len(accepted) /\ accepted[i] = [run |-> r, kind |-> "terminal"]

\* While the desktop runs, the end of a run that its channel took reaches the
\* window, or the window is told of a gap that covers it.
EndsReachTheWindow ==
    \A r \in Runs :
        (\E i \in 1 .. Len(accepted) : EndAt(r, i)) ~>
        \/ \E i \in 1 .. Len(accepted) : EndAt(r, i) /\ told + Counted(tick) >= i
        \/ service # "live"

\* No line of the application log is on the panel twice, whether it came live
\* before the backlog or with it; lines that were logged but not yet pushed
\* when the backlog was read are excused.
LinesOnce == \A n \in Lines \ twice : entries[n] <= 1

\* No line is lost between the backlog and the live push: once the panel is
\* seeded, a line that is not there is still to be pushed, was told as a gap,
\* or was older than what the backlog retains.
NoLineLost ==
    panel = "seeded" =>
        LET missing == {n \in 1 .. logged : entries[n] = 0} \ (Staged \cup InHand)
            old == {n \in missing : backlog # {} /\ \A m \in backlog : n < m}
        IN  Cardinality(missing \ old) <= panelGap + logStaging.gap

\* The window shows what happened: a script's end after all of its lines, a gap
\* where lines were dropped, and each line of the log exactly once.
FeedsAreTruthful ==
  /\ FeedTypeOK
  /\ TerminalIsLast
  /\ GapsAreTold
  /\ LinesOnce
  /\ NoLineLost
=============================================================================
