--------------------------- MODULE PlaybackEngine ---------------------------
(***************************************************************************)
(* internal/playback/engine.go: the tick goroutine, and the goroutines     *)
(* that call StageEdit and SwitchScene, sharing four atomic pointers and   *)
(* no lock.  Every atomic Load or Store on which two goroutines can        *)
(* interleave is a step of its own.                                        *)
(*                                                                         *)
(* A show.State is abstracted to what Compile tells apart: which scene is  *)
(* active, and the rest of its contents.  A CompiledPlan is the active     *)
(* scene and the contents it was compiled from.                            *)
(***************************************************************************)
EXTENDS Integers, MusicalClock

CONSTANTS
    Scenes,         \* scene names
    Contents,       \* everything else in a show.State
    Has,            \* Has[c]: the scenes that exist in contents c
    Broken,         \* contents whose active scene does not compile
    Bars,           \* Bars[s]: Scene.BarsPerLoop
    Tempo,          \* Tempo[c]: Tempo.BPM, in steps per unit of time
    Preserve,       \* Preserve[s]: Scene.PreserveMusicalPositionOnBPMChange
    Stagers,        \* goroutines that call StageEdit / SwitchScene
    MaxEdits,       \* bound: calls made in one behaviour
    MaxLag,         \* bound: units of time between two ticks
    None            \* nil, and "no scene is active"

ASSUME ShowAssumption ==
    /\ None \notin Scenes
    /\ Has \in [Contents -> SUBSET Scenes]
    /\ Broken \subseteq Contents
    /\ Bars \in [Scenes -> Nat \ {0}]
    /\ Tempo \in [Contents -> Nat \ {0}]
    /\ Preserve \in [Scenes -> BOOLEAN]
ASSUME BoundAssumption == MaxEdits \in Nat /\ MaxLag \in Nat \ {0}

ShowStates ==
    {s \in [active : Scenes \cup {None}, content : Contents] :
        s.active # None => s.active \in Has[s.content]}

Plans == [scene : Scenes, content : Contents]
Positions == [bar : Nat, frac : Nat]
Frames == [plan : Plans, pos : Positions]

ASSUME NoneAssumption ==
    None \notin Plans /\ None \notin ShowStates /\ None \notin Frames

NoBar == -1     \* lastBar before any position was computed

VARIABLES
    activePlan,     \* atomic.Pointer: the plan being played, or nil
    pendingPlan,    \* atomic.Pointer: the staged plan, or nil
    lastState,      \* atomic.Pointer: the state SwitchScene starts from
    activeFrame,    \* atomic.Pointer: the published frame, or nil
    position,       \* atomic.Pointer: the published position, or nil
    phase,          \* now - loopStart, in steps (tick goroutine only)
    lastBar,        \* tick goroutine only
    tick,           \* where the tick goroutine is, and the pending it loaded
    stager,         \* where each staging goroutine is, and its local state
    running,        \* the context Start derived is not cancelled
    edits,          \* calls still to come (bound)
    staged          \* history: the plan stored by the latest accepted call

tickVars   == <<activePlan, activeFrame, position, phase, lastBar, tick>>
stagerVars == <<lastState, stager, edits, staged>>
vars == <<activePlan, pendingPlan, lastState, activeFrame, position, phase,
          lastBar, tick, stager, running, edits, staged>>

-----------------------------------------------------------------------------
(* compile.go: what Compile answers *)

NoActiveScene(s) == s.active = None

Compiles(s) == ~NoActiveScene(s) /\ s.content \notin Broken
Compile(s) == [scene |-> s.active, content |-> s.content]

\* scene.ActivateScene on a name the state has
ActivateScene(s, name) == [s EXCEPT !.active = name]

BarsPerLoop(plan) == Bars[plan.scene]
BPM(plan) == Tempo[plan.content]

\* evaluate.go: a frame is determined by the plan and the position
Evaluate(plan, pos) == [plan |-> plan, pos |-> pos]

TickIdle == [pc |-> "idle", pending |-> None]
StagerIdle == [pc |-> "idle", state |-> None]

-----------------------------------------------------------------------------
(* NewEngine: a state whose active scene does not compile yields no engine; *)
(* one without an active scene yields an idle engine.                       *)

NewEngine(s) ==
    /\ NoActiveScene(s) \/ Compiles(s)
    /\ lastState = s
    /\ phase = 0
    /\ pendingPlan = None
    /\ IF NoActiveScene(s)
       THEN /\ activePlan = None
            /\ activeFrame = None
            /\ position = None
            /\ lastBar = NoBar
       ELSE LET plan == Compile(s)
                pos  == Position(0, BarsPerLoop(plan))
            IN  /\ activePlan = plan
                /\ activeFrame = Evaluate(plan, pos)
                /\ position = pos
                /\ lastBar = pos.bar

Init ==
    /\ \E s \in ShowStates : NewEngine(s)
    /\ tick = TickIdle
    /\ stager = [g \in Stagers |-> StagerIdle]
    /\ running = TRUE
    /\ edits = MaxEdits
    /\ staged = None

-----------------------------------------------------------------------------
(* The tick goroutine.  tick returns at once when activePlan is nil, which  *)
(* is no step.  Otherwise it loads pendingPlan (TickLoad); when it adopts,  *)
(* it stores activePlan, then clears pendingPlan; it always publishes.      *)

TickLoad(dt) ==
    LET now == Advance(phase, BPM(activePlan), dt)
        bar == BarIndex(now, BarsPerLoop(activePlan))
        adopt == /\ pendingPlan # None
                 /\ CrossedBarBoundary(lastBar, bar, BarsPerLoop(activePlan))
    IN  /\ tick.pc = "idle"
        /\ activePlan # None
        /\ tick' = IF adopt THEN [pc |-> "adopt", pending |-> pendingPlan]
                            ELSE [pc |-> "publish", pending |-> None]
        /\ phase' = IF adopt /\ BPM(pendingPlan) # BPM(activePlan)
                    THEN RecomputeEpoch(Preserve[pendingPlan.scene], now)
                    ELSE now
        /\ UNCHANGED <<activePlan, pendingPlan, activeFrame, position, lastBar,
                       running>>
        /\ UNCHANGED stagerVars

TickAdopt ==
    /\ tick.pc = "adopt"
    /\ activePlan' = tick.pending
    /\ tick' = [tick EXCEPT !.pc = "clear"]
    /\ UNCHANGED <<pendingPlan, activeFrame, position, phase, lastBar, running>>
    /\ UNCHANGED stagerVars

\* Fault: the wrong pointer is cleared
FaultClearActive ==
    /\ tick.pc = "clear"
    /\ activePlan' = None
    /\ tick' = [pc |-> "publish", pending |-> None]
    /\ UNCHANGED <<pendingPlan, activeFrame, position, phase, lastBar, running>>
    /\ UNCHANGED stagerVars

TickClear ==
    /\ tick.pc = "clear"
    /\ pendingPlan' = None
    /\ tick' = [pc |-> "publish", pending |-> None]
    /\ UNCHANGED <<activePlan, activeFrame, position, phase, lastBar, running>>
    /\ UNCHANGED stagerVars

\* the position is stored by the next atomic Store, after the frame
TickPublish ==
    LET pos == Position(phase, BarsPerLoop(activePlan)) IN
    /\ tick.pc = "publish"
    /\ lastBar' = pos.bar
    /\ activeFrame' = Evaluate(activePlan, pos)
    /\ tick' = [tick EXCEPT !.pc = "position"]
    /\ UNCHANGED <<activePlan, pendingPlan, position, phase, running>>
    /\ UNCHANGED stagerVars

\* Fault: the position is not stored
FaultKeepPosition ==
    /\ tick.pc = "position"
    /\ tick' = TickIdle
    /\ UNCHANGED <<activePlan, pendingPlan, activeFrame, position, phase, lastBar, running>>
    /\ UNCHANGED stagerVars

TickPosition ==
    /\ tick.pc = "position"
    /\ position' = Position(phase, BarsPerLoop(activePlan))
    /\ tick' = TickIdle
    /\ UNCHANGED <<activePlan, pendingPlan, activeFrame, phase, lastBar, running>>
    /\ UNCHANGED stagerVars

\* Stop cancels the context; a tick in flight still runs to its end, and the
\* goroutine's select may pick the ticker again before it sees the context
Stop ==
    /\ running
    /\ running' = FALSE
    /\ UNCHANGED pendingPlan
    /\ UNCHANGED tickVars
    /\ UNCHANGED stagerVars

-----------------------------------------------------------------------------
(* Staging goroutines *)

\* StageEdit(s): a state that does not compile is refused and changes
\* nothing; one that does is about to be stored
StageEdit(g, s) ==
    /\ stager[g].pc = "idle"
    /\ edits > 0
    /\ edits' = edits - 1
    /\ stager' = [stager EXCEPT ![g] =
                    IF Compiles(s) THEN [pc |-> "pending", state |-> s]
                                   ELSE StagerIdle]
    /\ UNCHANGED <<lastState, staged, pendingPlan, running>>
    /\ UNCHANGED tickVars

\* SwitchScene(name), its Load of lastState; an unknown name is refused
SwitchScene(g, name) ==
    LET s == ActivateScene(lastState, name) IN
    /\ stager[g].pc = "idle"
    /\ edits > 0
    /\ edits' = edits - 1
    /\ stager' = [stager EXCEPT ![g] =
                    IF name \in Has[lastState.content] /\ Compiles(s)
                    THEN [pc |-> "pending", state |-> s] ELSE StagerIdle]
    /\ UNCHANGED <<lastState, staged, pendingPlan, running>>
    /\ UNCHANGED tickVars

StagePending(g) ==
    /\ stager[g].pc = "pending"
    /\ pendingPlan' = Compile(stager[g].state)
    /\ staged' = Compile(stager[g].state)
    /\ stager' = [stager EXCEPT ![g].pc = "last"]
    /\ UNCHANGED <<lastState, edits, running>>
    /\ UNCHANGED tickVars

StageLast(g) ==
    /\ stager[g].pc = "last"
    /\ lastState' = stager[g].state
    /\ stager' = [stager EXCEPT ![g] = StagerIdle]
    /\ UNCHANGED <<edits, staged, pendingPlan, running>>
    /\ UNCHANGED tickVars

-----------------------------------------------------------------------------
TickStep == TickAdopt \/ TickClear \/ TickPublish \/ TickPosition
Tick == (\E dt \in 1 .. MaxLag : TickLoad(dt)) \/ TickStep

Stage(g) == StagePending(g) \/ StageLast(g)
Call(g) ==
    \/ \E s \in ShowStates : StageEdit(g, s)
    \/ \E name \in Scenes : SwitchScene(g, name)

Next ==
    \/ Tick
    \/ Stop
    \/ \E g \in Stagers : Stage(g) \/ Call(g)

\* The ticker keeps firing until the context is cancelled, and a tick or a
\* staging call, once begun, runs to its end.  Nobody is obliged to call or to
\* Stop.
LiveTick == (running /\ \E dt \in 1 .. MaxLag : TickLoad(dt)) \/ TickStep
Fairness == WF_vars(LiveTick) /\ \A g \in Stagers : WF_vars(Stage(g))

Spec == Init /\ [][Next]_vars /\ Fairness

-----------------------------------------------------------------------------
(* Properties *)

\* Every variable has the type its Go declaration gives it.
TypeOK ==
    /\ activePlan \in Plans \cup {None}
    /\ pendingPlan \in Plans \cup {None}
    /\ staged \in Plans \cup {None}
    /\ lastState \in ShowStates
    /\ position \in Positions \cup {None}
    /\ activeFrame \in Frames \cup {None}
    /\ phase \in Phases
    /\ lastBar \in Int
    /\ tick \in [pc : {"idle", "adopt", "clear", "publish", "position"},
                pending : Plans \cup {None}]
    /\ stager \in [Stagers -> [pc : {"idle", "pending", "last"},
                              state : ShowStates \cup {None}]]
    /\ running \in BOOLEAN
    /\ edits \in 0 .. MaxEdits

\* No such thing as an engine running an invalid plan (engine.go, NewEngine
\* and StageEdit): whatever edits are refused, and however calls and ticks
\* interleave, a plan that is staged, being adopted, played or shown is the
\* compilation of a state whose active scene exists and compiles.
ValidPlan(p) == p.content \notin Broken /\ p.scene \in Has[p.content]
OnlyValidPlans ==
    /\ \A p \in {activePlan, pendingPlan, tick.pending} : p # None => ValidPlan(p)
    /\ activeFrame # None => ValidPlan(activeFrame.plan)

\* Between two ticks lastBar is the bar of the plan now playing, whatever
\* loop length the plan before it had.  So crossedBarBoundary's two escapes
\* (no bar yet, a stale bar out of range) never let a plan in mid-bar.
LastBarIsCurrent ==
    (tick.pc = "idle" /\ activePlan # None) =>
        lastBar = BarIndex(phase, BarsPerLoop(activePlan))

\* Between two ticks what CurrentPlan, CurrentFrame and CurrentPosition
\* answer belongs together, though tick stores the three one by one.
PublishedTogether ==
    (tick.pc = "idle" /\ activePlan # None) =>
        activeFrame = Evaluate(activePlan, position)

\* Where a single goroutine stages,
\* then outside a call lastState is the state the latest staged plan was
\* compiled from, so a SwitchScene builds on the latest accepted edit
\* (engine.go: "lastState holds the most recently successfully compiled
\* show.State").  Two goroutines may store the plan of one and the state of
\* the other.
LastStateIsLatest ==
    \A g \in Stagers :
        (Stagers = {g} /\ stager[g].pc = "idle" /\ staged # None) =>
            Compile(lastState) = staged

\* What the engine owes its callers between any two steps of its goroutines.
EngineInvariant ==
    /\ TypeOK
    /\ OnlyValidPlans
    /\ LastBarIsCurrent
    /\ PublishedTogether
    /\ LastStateIsLatest

\* A tick, a rejected edit or a switch never blanks a running engine: once a
\* plan and its frame are published there is always a plan and a frame.
NeverBlanked ==
    [][activePlan # None => activePlan' # None /\ activeFrame' # None]_vars

\* While an engine plays, a staged plan does not stay staged for ever: some
\* tick crosses a bar and takes it (StageEdit: "for adoption at the next
\* bar-boundary crossing").  Engines that started idle never take one, for
\* tick returns first; loops of one bar, and stalls of a whole loop, have no
\* boundary to see.
PendingDrains ==
    (pendingPlan # None /\ activePlan # None) ~> (pendingPlan = None \/ ~running)
=============================================================================
