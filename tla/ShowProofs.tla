----------------------------- MODULE ShowProofs -----------------------------
(***************************************************************************)
(* Proofs about the show that plays and the file it is kept in.  The       *)
(* playback engine keeps its invariants for every show, every number of    *)
(* staging goroutines and every interleaving, and a late tick catches up   *)
(* with on-time ones for every loop, resolution and tempo.  The show file  *)
(* is whole for any number of processes, edits, crashes and failed         *)
(* transactions: first with commands and recovery calls alone (ShowStore), *)
(* then with every process that may use it, migrations among them          *)
(* (ShowMigration).  What is in the file stays whole under every sequence  *)
(* of authoring commands, for every rig, library and number of saves.      *)
(***************************************************************************)
EXTENDS PlaybackEngine, LateTick, ShowMigration, ShowAuthoring, FiniteSetTheorems,
        SequenceTheorems, WellFoundedInduction, TLAPS

-----------------------------------------------------------------------------
(* The musical clock *)

\* Position's bar is a natural number, for any loop length ValidateScene accepts.
LEMMA BarIsNat ==
    ASSUME NEW ph \in Phases, NEW b \in Nat \ {0}
    PROVE  /\ BarIndex(ph, b) \in Nat
           /\ Position(ph, b) \in Positions
           /\ Position(ph, b).bar = BarIndex(ph, b)
<1>1. ph \in Nat
    BY CycleAssumption DEF Phases
<1>2. ph \div Res \in Nat /\ ph % Res \in Nat
    BY <1>1, ResAssumption
<1>3. ClampBars(b) \in Nat \ {0}
    BY DEF ClampBars
<1>4. (ph \div Res) % ClampBars(b) \in Nat
    BY <1>2, <1>3
<1> QED
    BY <1>2, <1>4 DEF BarIndex, Position, Positions

\* The phase stays within its cycle while it advances.
LEMMA AdvanceInCycle ==
    ASSUME NEW ph \in Phases, NEW t \in Nat, NEW dt \in Nat
    PROVE  Advance(ph, t, dt) \in Phases
<1>1. ph + t * dt \in Nat
    BY CycleAssumption DEF Phases
<1>2. (ph + t * dt) % Cycle \in 0 .. (Cycle - 1)
    BY <1>1, CycleAssumption
<1> QED
    BY <1>2 DEF Advance, Phases

\* Recomputing the epoch keeps the phase within its cycle.
LEMMA EpochInCycle ==
    ASSUME NEW ph \in Phases, NEW b \in BOOLEAN
    PROVE  RecomputeEpoch(b, ph) \in Phases
BY CycleAssumption DEF RecomputeEpoch, Phases

-----------------------------------------------------------------------------
(* Plans and states *)

\* What Compile makes of a state it accepts is a valid plan.
LEMMA CompileIsValid ==
    ASSUME NEW s \in ShowStates, Compiles(s)
    PROVE  Compile(s) \in Plans /\ Compile(s) # None /\ ValidPlan(Compile(s))
<1>1. s.active \in Scenes /\ s.content \in Contents /\ s.active \in Has[s.content]
    BY DEF ShowStates, Compiles, NoActiveScene
<1>2. Compile(s) \in Plans
    BY <1>1 DEF Compile, Plans
<1> QED
    BY <1>1, <1>2, NoneAssumption DEF Compile, ValidPlan, Compiles

\* Activating a scene that the state has yields a state.
LEMMA ActivateIsState ==
    ASSUME NEW s \in ShowStates, NEW name \in Scenes, name \in Has[s.content]
    PROVE  ActivateScene(s, name) \in ShowStates
BY DEF ShowStates, ActivateScene

\* A plan's loop has at least one bar, and its tempo moves.
LEMMA PlanHasLoop ==
    ASSUME NEW p \in Plans
    PROVE  /\ BarsPerLoop(p) \in Nat \ {0}
           /\ BPM(p) \in Nat
           /\ Preserve[p.scene] \in BOOLEAN
           /\ p # None
BY ShowAssumption, NoneAssumption DEF Plans, BarsPerLoop, BPM

-----------------------------------------------------------------------------
(* The inductive invariant *)

\* inside a tick there is a plan, and from its adoption on a loaded one
TickHasPlan ==
    /\ tick.pc # "idle" => activePlan # None
    /\ tick.pc = "adopt" => tick.pending # None

\* a staging call between its steps holds a state that compiled
StagersHoldCompiled ==
    \A g \in Stagers : stager[g].pc # "idle" =>
        stager[g].state \in ShowStates /\ Compiles(stager[g].state)

\* before its last Store a tick has published the frame of the plan in force
HalfPublished ==
    tick.pc = "position" =>
        /\ lastBar = BarIndex(phase, BarsPerLoop(activePlan))
        /\ activeFrame = Evaluate(activePlan, Position(phase, BarsPerLoop(activePlan)))

\* a playing engine has a frame
FrameWithPlan == activePlan # None => activeFrame # None

EngineIInv ==
    /\ TypeOK
    /\ TickHasPlan
    /\ StagersHoldCompiled
    /\ OnlyValidPlans
    /\ HalfPublished
    /\ LastBarIsCurrent
    /\ PublishedTogether
    /\ FrameWithPlan

\* NewEngine establishes the invariant.
LEMMA EngineInitIInv == Init => EngineIInv
<1> SUFFICES ASSUME Init PROVE EngineIInv
    OBVIOUS
<1>1. PICK s \in ShowStates : NewEngine(s)
    BY DEF Init
<1>2. lastState = s /\ phase = 0 /\ phase \in Phases /\ pendingPlan = None
    BY <1>1, CycleAssumption DEF NewEngine, Phases
<1>3. /\ tick = TickIdle /\ running = TRUE /\ edits \in 0 .. MaxEdits /\ staged = None
      /\ stager = [g \in Stagers |-> StagerIdle]
    BY BoundAssumption DEF Init
<1>4. CASE NoActiveScene(s)
  <2>1. activePlan = None /\ activeFrame = None /\ position = None /\ lastBar = -1
    BY <1>1, <1>4 DEF NewEngine, NoBar
  <2>2. TypeOK
    BY <1>2, <1>3, <2>1 DEF TypeOK, TickIdle, StagerIdle
  <2> QED
    BY <1>2, <1>3, <2>1, <2>2 DEF EngineIInv, TickHasPlan, StagersHoldCompiled, TickIdle,
       StagerIdle, OnlyValidPlans, HalfPublished, LastBarIsCurrent, PublishedTogether,
       FrameWithPlan
<1>5. CASE ~NoActiveScene(s)
  <2> DEFINE plan == Compile(s)
             pos  == Position(0, BarsPerLoop(plan))
  <2>1. /\ Compiles(s)
        /\ activePlan = plan /\ activeFrame = Evaluate(plan, pos)
        /\ position = pos /\ lastBar = pos.bar
    BY <1>1, <1>5 DEF NewEngine
  <2>2. plan \in Plans /\ plan # None /\ ValidPlan(plan)
    BY <2>1, CompileIsValid
  <2>3. BarsPerLoop(plan) \in Nat \ {0}
    BY <2>2, PlanHasLoop
  <2>4. pos \in Positions /\ pos.bar = BarIndex(0, BarsPerLoop(plan)) /\ pos.bar \in Nat
    BY <2>3, <1>2, BarIsNat
  <2> HIDE DEF plan, pos
  <2>5. activeFrame \in Frames /\ activeFrame.plan = plan
    BY <2>1, <2>2, <2>4 DEF Evaluate, Frames
  <2>6. TypeOK
    BY <1>2, <1>3, <2>1, <2>2, <2>4, <2>5 DEF TypeOK, TickIdle, StagerIdle
  <2>7. activeFrame # None
    BY <2>5, NoneAssumption
  <2> QED
    BY <1>2, <1>3, <2>1, <2>2, <2>4, <2>5, <2>6, <2>7 DEF EngineIInv, TickHasPlan,
       StagersHoldCompiled, TickIdle, StagerIdle, OnlyValidPlans, HalfPublished,
       LastBarIsCurrent, PublishedTogether, FrameWithPlan
<1> QED
    BY <1>4, <1>5

\* Every step keeps the invariant.
LEMMA EngineNextIInv == EngineIInv /\ [Next]_vars => EngineIInv'
<1> SUFFICES ASSUME EngineIInv, [Next]_vars PROVE EngineIInv'
    OBVIOUS
<1> USE DEF EngineIInv
<1>1. ASSUME NEW dt \in 1 .. MaxLag, TickLoad(dt) PROVE EngineIInv'
  <2> DEFINE now == Advance(phase, BPM(activePlan), dt)
  <2>1. activePlan \in Plans /\ phase \in Phases /\ dt \in Nat
    BY <1>1, BoundAssumption DEF TickLoad, TypeOK
  <2>2. now \in Phases
    BY <2>1, PlanHasLoop, AdvanceInCycle
  <2> HIDE DEF now
  <2>3. pendingPlan # None => pendingPlan \in Plans
    BY DEF TypeOK
  <2>4. pendingPlan # None => RecomputeEpoch(Preserve[pendingPlan.scene], now) \in Phases
    BY <2>2, <2>3, PlanHasLoop, EpochInCycle
  <2>5. phase' \in Phases
    BY <1>1, <2>2, <2>4 DEF TickLoad, now
  <2>6. \/ tick' = [pc |-> "adopt", pending |-> pendingPlan] /\ pendingPlan # None
        \/ tick' = [pc |-> "publish", pending |-> None]
    BY <1>1 DEF TickLoad
  <2>7. UNCHANGED <<activePlan, pendingPlan, activeFrame, position, lastBar, running,
                    lastState, stager, edits, staged>>
    BY <1>1 DEF TickLoad, stagerVars
  <2>8. TypeOK'
    BY <2>3, <2>5, <2>6, <2>7 DEF TypeOK
  <2>9. OnlyValidPlans'
    BY <2>6, <2>7 DEF OnlyValidPlans, ValidPlan
  <2>10. TickHasPlan' /\ HalfPublished' /\ LastBarIsCurrent' /\ PublishedTogether'
    BY <1>1, <2>6, <2>7 DEF TickLoad, TickHasPlan, HalfPublished, LastBarIsCurrent,
       PublishedTogether
  <2>11. StagersHoldCompiled' /\ FrameWithPlan'
    BY <2>7 DEF StagersHoldCompiled, FrameWithPlan
  <2> QED
    BY <2>8, <2>9, <2>10, <2>11
<1>2. ASSUME TickAdopt PROVE EngineIInv'
  <2>1. /\ activePlan' = tick.pending /\ tick.pending # None /\ tick.pending \in Plans
        /\ tick.pc = "adopt" /\ tick' = [tick EXCEPT !.pc = "clear"]
    BY <1>2 DEF TickAdopt, TickHasPlan, TypeOK
  <2>2. UNCHANGED <<pendingPlan, activeFrame, position, phase, lastBar, running,
                    lastState, stager, edits, staged>>
    BY <1>2 DEF TickAdopt, stagerVars
  <2>3. tick'.pc = "clear" /\ tick'.pending = tick.pending
    BY <2>1 DEF TypeOK
  <2>4. TypeOK'
    BY <2>1, <2>2 DEF TypeOK
  <2>5. OnlyValidPlans'
    BY <2>1, <2>2, <2>3 DEF OnlyValidPlans, ValidPlan
  <2>6. TickHasPlan' /\ HalfPublished' /\ LastBarIsCurrent' /\ PublishedTogether'
    BY <2>1, <2>3 DEF TickHasPlan, HalfPublished, LastBarIsCurrent, PublishedTogether
  <2>7. StagersHoldCompiled' /\ FrameWithPlan'
    BY <2>1, <2>2 DEF StagersHoldCompiled, FrameWithPlan, TickHasPlan
  <2> QED
    BY <2>4, <2>5, <2>6, <2>7
<1>3. ASSUME TickClear PROVE EngineIInv'
  <2>1. pendingPlan' = None /\ tick.pc = "clear" /\ tick' = [pc |-> "publish", pending |-> None]
    BY <1>3 DEF TickClear
  <2>2. UNCHANGED <<activePlan, activeFrame, position, phase, lastBar, running,
                    lastState, stager, edits, staged>>
    BY <1>3 DEF TickClear, stagerVars
  <2>3. TypeOK'
    BY <2>1, <2>2 DEF TypeOK
  <2>4. OnlyValidPlans'
    BY <2>1, <2>2 DEF OnlyValidPlans, ValidPlan
  <2>5. TickHasPlan' /\ HalfPublished' /\ LastBarIsCurrent' /\ PublishedTogether'
    BY <2>1, <2>2 DEF TickHasPlan, HalfPublished, LastBarIsCurrent, PublishedTogether
  <2>6. StagersHoldCompiled' /\ FrameWithPlan'
    BY <2>2 DEF StagersHoldCompiled, FrameWithPlan
  <2> QED
    BY <2>3, <2>4, <2>5, <2>6
<1>4. ASSUME TickPublish PROVE EngineIInv'
  <2> DEFINE pos == Position(phase, BarsPerLoop(activePlan))
  <2>1. activePlan \in Plans /\ activePlan # None /\ phase \in Phases
    BY <1>4 DEF TickPublish, TickHasPlan, TypeOK
  <2>2. pos \in Positions /\ pos.bar = BarIndex(phase, BarsPerLoop(activePlan)) /\ pos.bar \in Nat
    BY <2>1, PlanHasLoop, BarIsNat
  <2>3. /\ lastBar' = pos.bar /\ activeFrame' = Evaluate(activePlan, pos)
        /\ tick.pc = "publish" /\ tick' = [tick EXCEPT !.pc = "position"]
    BY <1>4 DEF TickPublish
  <2>4. UNCHANGED <<activePlan, pendingPlan, position, phase, running,
                    lastState, stager, edits, staged>>
    BY <1>4 DEF TickPublish, stagerVars
  <2>5. tick'.pc = "position" /\ tick'.pending = tick.pending
    BY <2>3 DEF TypeOK
  <2>6. HalfPublished'
    BY <2>2, <2>3, <2>4 DEF HalfPublished
  <2> HIDE DEF pos
  <2>7. activeFrame' \in Frames /\ activeFrame'.plan = activePlan
    BY <2>1, <2>2, <2>3 DEF Evaluate, Frames
  <2>8. TypeOK'
    BY <2>2, <2>3, <2>4, <2>7 DEF TypeOK
  <2>9. OnlyValidPlans'
    BY <2>1, <2>4, <2>5, <2>7 DEF OnlyValidPlans, ValidPlan
  <2>10. TickHasPlan' /\ LastBarIsCurrent' /\ PublishedTogether'
    BY <2>1, <2>4, <2>5 DEF TickHasPlan, LastBarIsCurrent, PublishedTogether
  <2>11. StagersHoldCompiled' /\ FrameWithPlan'
    BY <2>4, <2>7, NoneAssumption DEF StagersHoldCompiled, FrameWithPlan
  <2> QED
    BY <2>6, <2>8, <2>9, <2>10, <2>11
<1>5. ASSUME TickPosition PROVE EngineIInv'
  <2> DEFINE pos == Position(phase, BarsPerLoop(activePlan))
  <2>1. activePlan \in Plans /\ activePlan # None /\ phase \in Phases
    BY <1>5 DEF TickPosition, TickHasPlan, TypeOK
  <2>2. pos \in Positions
    BY <2>1, PlanHasLoop, BarIsNat
  <2>3. position' = pos /\ tick.pc = "position" /\ tick' = [pc |-> "idle", pending |-> None]
    BY <1>5 DEF TickPosition, TickIdle
  <2>4. UNCHANGED <<activePlan, pendingPlan, activeFrame, phase, lastBar, running,
                    lastState, stager, edits, staged>>
    BY <1>5 DEF TickPosition, stagerVars
  <2>5. LastBarIsCurrent' /\ PublishedTogether'
    BY <2>3, <2>4 DEF HalfPublished, LastBarIsCurrent, PublishedTogether
  <2> HIDE DEF pos
  <2>6. TypeOK'
    BY <2>2, <2>3, <2>4 DEF TypeOK
  <2>7. OnlyValidPlans'
    BY <2>3, <2>4 DEF OnlyValidPlans, ValidPlan
  <2>8. TickHasPlan' /\ HalfPublished'
    BY <2>3 DEF TickHasPlan, HalfPublished
  <2>9. StagersHoldCompiled' /\ FrameWithPlan'
    BY <2>4 DEF StagersHoldCompiled, FrameWithPlan
  <2> QED
    BY <2>5, <2>6, <2>7, <2>8, <2>9
<1>6. ASSUME Stop PROVE EngineIInv'
  <2>1. running' = FALSE
    BY <1>6 DEF Stop
  <2>2. UNCHANGED <<activePlan, pendingPlan, activeFrame, position, phase, lastBar, tick,
                    lastState, stager, edits, staged>>
    BY <1>6 DEF Stop, tickVars, stagerVars
  <2> QED
    BY <2>1, <2>2 DEF TypeOK, TickHasPlan, StagersHoldCompiled, OnlyValidPlans, ValidPlan,
       HalfPublished, LastBarIsCurrent, PublishedTogether, FrameWithPlan
<1>7. ASSUME NEW g \in Stagers, NEW s \in ShowStates, StageEdit(g, s) PROVE EngineIInv'
  <2>1. \/ stager' = [stager EXCEPT ![g] = [pc |-> "pending", state |-> s]] /\ Compiles(s)
        \/ stager' = [stager EXCEPT ![g] = [pc |-> "idle", state |-> None]]
    BY <1>7 DEF StageEdit, StagerIdle
  <2>2. edits' \in 0 .. MaxEdits
    BY <1>7, BoundAssumption DEF StageEdit, TypeOK
  <2>3. UNCHANGED <<activePlan, pendingPlan, activeFrame, position, phase, lastBar, tick,
                    running, lastState, staged>>
    BY <1>7 DEF StageEdit, tickVars
  <2>4. TypeOK'
    BY <2>1, <2>2, <2>3 DEF TypeOK
  <2>5. StagersHoldCompiled'
    BY <2>1 DEF StagersHoldCompiled, TypeOK
  <2> QED
    BY <2>3, <2>4, <2>5 DEF TickHasPlan, OnlyValidPlans, ValidPlan, HalfPublished,
       LastBarIsCurrent, PublishedTogether, FrameWithPlan
<1>8. ASSUME NEW g \in Stagers, NEW name \in Scenes, SwitchScene(g, name) PROVE EngineIInv'
  <2> DEFINE s == ActivateScene(lastState, name)
  <2>1. \/ /\ stager' = [stager EXCEPT ![g] = [pc |-> "pending", state |-> s]]
           /\ Compiles(s) /\ name \in Has[lastState.content]
        \/ stager' = [stager EXCEPT ![g] = [pc |-> "idle", state |-> None]]
    BY <1>8 DEF SwitchScene, StagerIdle
  <2>2. name \in Has[lastState.content] => s \in ShowStates
    BY ActivateIsState DEF TypeOK
  <2> HIDE DEF s
  <2>3. edits' \in 0 .. MaxEdits
    BY <1>8, BoundAssumption DEF SwitchScene, TypeOK
  <2>4. UNCHANGED <<activePlan, pendingPlan, activeFrame, position, phase, lastBar, tick,
                    running, lastState, staged>>
    BY <1>8 DEF SwitchScene, tickVars
  <2>5. TypeOK'
    BY <2>1, <2>2, <2>3, <2>4 DEF TypeOK
  <2>6. StagersHoldCompiled'
    BY <2>1, <2>2 DEF StagersHoldCompiled, TypeOK
  <2> QED
    BY <2>4, <2>5, <2>6 DEF TickHasPlan, OnlyValidPlans, ValidPlan, HalfPublished,
       LastBarIsCurrent, PublishedTogether, FrameWithPlan
<1>9. ASSUME NEW g \in Stagers, StagePending(g) PROVE EngineIInv'
  <2> DEFINE plan == Compile(stager[g].state)
  <2>1. stager[g].state \in ShowStates /\ Compiles(stager[g].state)
    BY <1>9 DEF StagePending, StagersHoldCompiled
  <2>2. plan \in Plans /\ ValidPlan(plan)
    BY <2>1, CompileIsValid
  <2>3. /\ pendingPlan' = plan /\ staged' = plan
        /\ stager[g].pc = "pending" /\ stager' = [stager EXCEPT ![g].pc = "last"]
    BY <1>9 DEF StagePending
  <2> HIDE DEF plan
  <2>4. UNCHANGED <<activePlan, activeFrame, position, phase, lastBar, tick,
                    running, lastState, edits>>
    BY <1>9 DEF StagePending, tickVars
  <2>5. TypeOK'
    BY <2>2, <2>3, <2>4 DEF TypeOK
  <2>6. StagersHoldCompiled'
    BY <2>1, <2>3 DEF StagersHoldCompiled, TypeOK
  <2>7. OnlyValidPlans'
    BY <2>2, <2>3, <2>4 DEF OnlyValidPlans, ValidPlan
  <2> QED
    BY <2>4, <2>5, <2>6, <2>7 DEF TickHasPlan, HalfPublished, LastBarIsCurrent,
       PublishedTogether, FrameWithPlan
<1>10. ASSUME NEW g \in Stagers, StageLast(g) PROVE EngineIInv'
  <2>1. /\ stager[g].pc = "last" /\ lastState' = stager[g].state
        /\ stager' = [stager EXCEPT ![g] = [pc |-> "idle", state |-> None]]
    BY <1>10 DEF StageLast, StagerIdle
  <2>2. lastState' \in ShowStates
    BY <2>1 DEF StagersHoldCompiled
  <2>3. UNCHANGED <<activePlan, pendingPlan, activeFrame, position, phase, lastBar, tick,
                    running, edits, staged>>
    BY <1>10 DEF StageLast, tickVars
  <2>4. TypeOK'
    BY <2>1, <2>2, <2>3 DEF TypeOK
  <2>5. StagersHoldCompiled'
    BY <2>1 DEF StagersHoldCompiled, TypeOK
  <2> QED
    BY <2>3, <2>4, <2>5 DEF TickHasPlan, OnlyValidPlans, ValidPlan, HalfPublished,
       LastBarIsCurrent, PublishedTogether, FrameWithPlan
<1>11. CASE UNCHANGED vars
    BY <1>11 DEF vars, TypeOK, TickHasPlan, StagersHoldCompiled, OnlyValidPlans, ValidPlan,
       HalfPublished, LastBarIsCurrent, PublishedTogether, FrameWithPlan
<1> QED
    BY <1>1, <1>2, <1>3, <1>4, <1>5, <1>6, <1>7, <1>8, <1>9, <1>10, <1>11
       DEF Next, Tick, TickStep, Stage, Call

-----------------------------------------------------------------------------
\* The invariant holds in every behaviour of the engine.
THEOREM EngineInvariance == Spec => []EngineIInv
BY EngineInitIInv, EngineNextIInv, PTL DEF Spec

\* Every shared pointer and local variable keeps its type.
THEOREM TypeCorrect == Spec => []TypeOK
<1>1. EngineIInv => TypeOK
    BY DEF EngineIInv
<1> QED
    BY <1>1, EngineInvariance, PTL

\* No engine plays, shows or has staged an invalid plan, with any number of
\* goroutines staging edits and switching scenes while it ticks.
THEOREM ValidPlansOnly == Spec => []OnlyValidPlans
<1>1. EngineIInv => OnlyValidPlans
    BY DEF EngineIInv
<1> QED
    BY <1>1, EngineInvariance, PTL

\* Between ticks lastBar is the bar of the plan in force, so no plan is
\* adopted in mid-bar through crossedBarBoundary's escapes.
THEOREM BarIsCurrent == Spec => []LastBarIsCurrent
<1>1. EngineIInv => LastBarIsCurrent
    BY DEF EngineIInv
<1> QED
    BY <1>1, EngineInvariance, PTL

\* Between ticks the plan, the frame and the position belong together.
THEOREM FrameMatchesPlan == Spec => []PublishedTogether
<1>1. EngineIInv => PublishedTogether
    BY DEF EngineIInv
<1> QED
    BY <1>1, EngineInvariance, PTL

-----------------------------------------------------------------------------
(* The state SwitchScene starts from *)

\* while its only stager is between its two Stores, lastState is one call old
StoresAgree ==
    \A g \in Stagers : Stagers = {g} =>
        /\ (stager[g].pc # "last" /\ staged # None) => Compile(lastState) = staged
        /\ stager[g].pc = "last" => Compile(stager[g].state) = staged

\* Every step keeps the two Stores of the only stager in agreement.
LEMMA NextStoresAgree ==
    ASSUME TypeOK, StoresAgree, [Next]_vars
    PROVE  StoresAgree'
<1> SUFFICES ASSUME NEW h \in Stagers, Stagers = {h}
             PROVE  /\ (stager'[h].pc # "last" /\ staged' # None) => Compile(lastState') = staged'
                    /\ stager'[h].pc = "last" => Compile(stager'[h].state) = staged'
    BY DEF StoresAgree
<1> USE DEF TypeOK, StoresAgree, Compile
<1>1. CASE UNCHANGED <<lastState, stager, staged>>
    BY <1>1
<1>2. ASSUME NEW g \in Stagers, NEW s \in ShowStates, StageEdit(g, s)
      PROVE  stager'[h].pc # "last" /\ stager[h].pc # "last" /\ UNCHANGED <<lastState, staged>>
    BY <1>2 DEF StageEdit, StagerIdle
<1>3. ASSUME NEW g \in Stagers, NEW name \in Scenes, SwitchScene(g, name)
      PROVE  stager'[h].pc # "last" /\ stager[h].pc # "last" /\ UNCHANGED <<lastState, staged>>
    BY <1>3 DEF SwitchScene, StagerIdle
<1>4. ASSUME NEW g \in Stagers, StagePending(g)
      PROVE  stager'[h].pc = "last" /\ Compile(stager'[h].state) = staged'
    BY <1>4 DEF StagePending
<1>5. ASSUME NEW g \in Stagers, StageLast(g)
      PROVE  stager'[h].pc = "idle" /\ Compile(lastState') = staged'
    BY <1>5 DEF StageLast, StagerIdle
<1>6. Tick \/ Stop \/ UNCHANGED vars => UNCHANGED <<lastState, stager, staged>>
    BY DEF Tick, TickStep, TickLoad, TickAdopt, TickClear, TickPublish, TickPosition, Stop,
       stagerVars, vars
<1> QED
    BY <1>1, <1>2, <1>3, <1>4, <1>5, <1>6 DEF Next, Stage, Call

\* A lone staging goroutine never leaves a stale lastState behind.
THEOREM LastStateCurrent == Spec => []LastStateIsLatest
<1>1. Init => StoresAgree
    BY DEF Init, StoresAgree, StagerIdle
<1>2. TypeOK /\ StoresAgree /\ [Next]_vars => StoresAgree'
    BY NextStoresAgree
<1>3. StoresAgree => LastStateIsLatest
    BY DEF StoresAgree, LastStateIsLatest
<1> QED
    BY <1>1, <1>2, <1>3, TypeCorrect, PTL DEF Spec

\* Whatever the show, the number of goroutines and their order, the engine
\* keeps the whole of its invariant.
THEOREM EngineCorrect == Spec => []EngineInvariant
<1>1. EngineIInv /\ LastStateIsLatest => EngineInvariant
    BY DEF EngineIInv, EngineInvariant
<1> QED
    BY <1>1, EngineInvariance, LastStateCurrent, PTL

\* Once the engine plays, no step of anyone leaves it without plan or frame:
\* a rejected edit never blanks the show.
THEOREM NotBlanked == Spec => NeverBlanked
<1>1. EngineIInv /\ EngineIInv' /\ [Next]_vars =>
        [activePlan # None => activePlan' # None /\ activeFrame' # None]_vars
  <2> SUFFICES ASSUME EngineIInv, EngineIInv', [Next]_vars, activePlan # None
               PROVE  activePlan' # None /\ activeFrame' # None
    OBVIOUS
  <2>1. activePlan' = activePlan \/ TickAdopt
    BY DEF Next, Tick, TickStep, Stage, Call, TickLoad, TickClear, TickPublish, TickPosition,
       Stop, StageEdit, SwitchScene, StagePending, StageLast, tickVars, vars
  <2>2. TickAdopt => activePlan' # None
    BY DEF TickAdopt, EngineIInv, TickHasPlan
  <2> QED
    BY <2>1, <2>2 DEF EngineIInv, FrameWithPlan
<1> QED
    BY <1>1, EngineInvariance, PTL DEF Spec, NeverBlanked

-----------------------------------------------------------------------------
(* Late ticks: the arithmetic of bars, and what a stall does to an engine *)

\* Quotient and remainder.
LEMMA DivMod ==
  ASSUME NEW x \in Int, NEW d \in Nat \ {0}
  PROVE  /\ x \div d \in Int /\ x % d \in 0 .. (d - 1)
         /\ x = d * (x \div d) + (x % d)
<1>1. x \div d \in Int
  OBVIOUS
<1>2. x % d \in 0 .. (d - 1)
  OBVIOUS
<1>3. x = d * (x \div d) + (x % d)
  OBVIOUS
<1> QED
  BY <1>1, <1>2, <1>3

\* The same, with names for them.
LEMMA Divided ==
  ASSUME NEW x \in Int, NEW d \in Nat \ {0}
  PROVE  \E q \in Int, r \in 0 .. (d - 1) : q = x \div d /\ r = x % d /\ x = d * q + r
<1>1. PICK q \in Int : q = x \div d
  BY DivMod
<1>2. PICK r \in 0 .. (d - 1) : r = x % d
  BY DivMod
<1>3. x = d * q + r
  BY <1>1, <1>2, DivMod
<1> QED
  BY <1>1, <1>2, <1>3

\* A multiple of d that lies between -d and d is zero.
LEMMA SmallMultiple ==
  ASSUME NEW d \in Nat \ {0}, NEW z \in Int, z * d < d, -d < z * d
  PROVE  z = 0
<1>1. CASE z >= 1
  BY <1>1
<1>2. CASE z <= -1
  BY <1>2
<1> QED
  BY <1>1, <1>2

\* There is one quotient and one remainder.
LEMMA DivUnique ==
  ASSUME NEW x \in Int, NEW d \in Nat \ {0}, NEW q \in Int, NEW r \in 0 .. (d - 1), x = q * d + r
  PROVE  x \div d = q /\ x % d = r
<1>1. PICK s \in Int, u \in 0 .. (d - 1) : s = x \div d /\ u = x % d /\ x = d * s + u
  BY DivMod
<1>2. (s - q) * d = r - u
  BY <1>1
<1>3. r - u < d /\ -d < r - u
  OBVIOUS
<1>4. s - q = 0
  BY <1>2, <1>3, SmallMultiple
<1>5. s = q /\ u = r
  BY <1>2, <1>4
<1> QED
  BY <1>1, <1>5

\* c steps are a whole number of loops
Wraps(c, res, bars) == \E m \in Nat \ {0} : c = res * bars * m

\* The bar of a phase is the bar of what it was wrapped from.
LEMMA WrapBar ==
  ASSUME NEW x \in Int, NEW res \in Nat \ {0}, NEW bars \in Nat \ {0},
         NEW c \in Nat \ {0}, Wraps(c, res, bars)
  PROVE  ((x % c) \div res) % bars = (x \div res) % bars
<1>1. PICK q \in Int, r \in 0 .. (c - 1) : q = x \div c /\ r = x % c /\ x = c * q + r
  BY Divided, Zenon
<1>2. PICK s \in Int, u \in 0 .. (res - 1) : s = r \div res /\ u = r % res /\ r = res * s + u
  <2>1. r \in Int
    OBVIOUS
  <2> QED
    BY <2>1, Divided, Zenon
<1>3. PICK v \in Int, w \in 0 .. (bars - 1) : v = s \div bars /\ w = s % bars /\ s = bars * v + w
  BY Divided, Zenon
<1>0. PICK m \in Nat \ {0} : c = res * bars * m
  BY DEF Wraps
<1>4. PICK qm \in Int : qm = q * m
  OBVIOUS
<1>5. PICK bq \in Int, y \in Int : bq = bars * qm /\ y = bq + s
  OBVIOUS
<1>6. c * q = res * bq
  BY <1>0, <1>4, <1>5
<1>7. x = y * res + u
  <2>1. PICK i \in Int, j \in Int, k \in Int : i = res * bq /\ j = res * s /\ k = y * res
    OBVIOUS
  <2>2. k = i + j
    BY <1>5, <2>1
  <2>3. x = i + r /\ r = j + u
    BY <1>1, <1>2, <1>6, <2>1, Zenon
  <2>4. x = k + u
    BY <2>2, <2>3
  <2> QED
    BY <2>1, <2>4, Zenon
<1>8. x \div res = y
  BY <1>7, DivUnique
<1>9. PICK z \in Int : z = qm + v
  OBVIOUS
<1>10. y = z * bars + w
  BY <1>3, <1>5, <1>9
<1>11. y % bars = w
  BY <1>10, DivUnique
<1> QED
  BY <1>1, <1>2, <1>3, <1>8, <1>11

\* Two bars less than a loop apart are one bar of the loop only if they are one.
LEMMA SameBar ==
  ASSUME NEW a \in Int, NEW b \in Int, NEW bars \in Nat \ {0}, b - a \in 0 .. (bars - 1)
  PROVE  a % bars = b % bars <=> a = b
<1> SUFFICES ASSUME a % bars = b % bars PROVE a = b
  OBVIOUS
<1>1. PICK v \in Int, w \in 0 .. (bars - 1) : v = a \div bars /\ w = a % bars /\ a = bars * v + w
  BY DivMod
<1>2. PICK v2 \in Int, w2 \in 0 .. (bars - 1) : v2 = b \div bars /\ w2 = b % bars /\ b = bars * v2 + w2
  BY DivMod
<1>3. (v2 - v) * bars = b - a
  BY <1>1, <1>2
<1>4. b - a < bars /\ -bars < b - a
  OBVIOUS
<1>5. v2 - v = 0
  BY <1>3, <1>4, SmallMultiple
<1> QED
  BY <1>3, <1>5

\* How many bars a stall of d steps passes.
LEMMA BarsPassed ==
  ASSUME NEW p \in Nat, NEW d \in Nat, NEW res \in Nat \ {0}, NEW bars \in Nat \ {0},
         d <= (bars - 1) * res
  PROVE  (p + d) \div res - p \div res \in 0 .. (bars - 1)
<1>1. PICK s \in Int, u \in 0 .. (res - 1) : s = p \div res /\ p = res * s + u
  BY DivMod
<1>2. PICK s2 \in Int, u2 \in 0 .. (res - 1) : s2 = (p + d) \div res /\ p + d = res * s2 + u2
  BY DivMod
<1>3. PICK z \in Int : z = s2 - s
  OBVIOUS
<1>4. z * res = d + u - u2
  <2>1. z * res = res * s2 - res * s
    BY <1>3
  <2> QED
    BY <1>1, <1>2, <2>1
<1>5. z >= 0
  <2>1. CASE z <= -1
    BY <1>4, <2>1
  <2> QED
    BY <2>1
<1>6. z <= bars - 1
  <2>1. CASE z >= bars
    <3>1. z * res >= bars * res
      BY <2>1
    <3>2. bars * res = (bars - 1) * res + res
      OBVIOUS
    <3> QED
      BY <1>4, <3>1, <3>2
  <2> QED
    BY <2>1
<1> QED
  BY <1>1, <1>2, <1>3, <1>5, <1>6

\* What is not beyond c does not wrap.
LEMMA NoWrap ==
  ASSUME NEW c \in Nat \ {0}, NEW x \in 0 .. (c - 1)
  PROVE  x % c = x
<1>1. x = 0 * c + x
  OBVIOUS
<1> QED
  BY <1>1, DivUnique

\* Wrapping twice is wrapping once.
LEMMA WrapTwice ==
  ASSUME NEW x \in Nat, NEW y \in Nat, NEW c \in Nat \ {0}
  PROVE  ((x % c) + y) % c = (x + y) % c
<1>1. PICK q \in Int, r \in 0 .. (c - 1) : q = x \div c /\ r = x % c /\ x = c * q + r
  BY DivMod
<1>2. PICK s \in Int, u \in 0 .. (c - 1) : s = (r + y) \div c /\ u = (r + y) % c /\ r + y = c * s + u
  BY DivMod
<1>3. PICK z \in Int : z = q + s
  OBVIOUS
<1>4. x + y = z * c + u
  <2>1. z * c = c * q + c * s
    BY <1>3
  <2> QED
    BY <1>1, <1>2, <2>1
<1>5. (x + y) % c = u
  <2>1. PICK n \in Int : n = x + y
    OBVIOUS
  <2>2. n % c = u
    BY <1>4, <2>1, DivUnique
  <2> QED
    BY <2>1, <2>2
<1> QED
  BY <1>1, <1>2, <1>5

-----------------------------------------------------------------------------
\* What the comment of tick leaves unsaid: the tempo stays, and a stall is at
\* most a loop less a bar.  The phase wraps at a whole number of loops.
StallsAreShort ==
  /\ \A p, q \in LatePlans : p.tempo = q.tempo
  /\ \A p \in LatePlans : p.tempo * MaxStall <= (p.bars - 1) * Res
  /\ \A p \in LatePlans : Wraps(Cycle, Res, p.bars)

EngineType ==
  [plan : LatePlans, pending : LatePlans \cup {NoPlan}, phase : Phases, lastBar : Nat]

\* the phase of e, k units of time later, before it wraps
Later(e, k) == e.phase + e.plan.tempo * k

\* What on-time ticks make of e in k units of time: the pending plan is adopted
\* once a bar has passed.
AfterStall(e, k) ==
  LET adopted == e.pending # NoPlan /\ Later(e, k) \div Res # e.phase \div Res
      plan == IF adopted THEN e.pending ELSE e.plan
  IN  [plan |-> plan,
       pending |-> IF adopted THEN NoPlan ELSE e.pending,
       phase |-> Later(e, k) % Cycle,
       lastBar |-> BarIndex(Later(e, k) % Cycle, plan.bars)]

BarIsOwn(e) == e \in EngineType /\ e.lastBar = BarIndex(e.phase, e.plan.bars)

LateInv ==
  /\ lag \in 0 .. MaxStall
  /\ BarIsOwn(late)
  /\ onTime = AfterStall(late, lag)

LateSpec == LateInit /\ [][LateNext]_lateVars

\* The facts about a plan that the arithmetic needs.
LEMMA PlanFacts ==
  ASSUME NEW p \in LatePlans
  PROVE  p.bars \in Nat \ {0} /\ p.tempo \in Nat \ {0} /\ p.preserve \in BOOLEAN /\ p # NoPlan
BY LatePlansAssumption, LagAssumption

\* The bar at a phase that was wrapped.
LEMMA BarOf ==
  ASSUME StallsAreShort, NEW p \in LatePlans, NEW x \in Nat
  PROVE  BarIndex(x % Cycle, p.bars) = (x \div Res) % p.bars
<1>1. PICK b \in Nat \ {0} : b = p.bars
  BY PlanFacts
<1>2. Wraps(Cycle, Res, b)
  BY <1>1 DEF StallsAreShort
<1>3. ((x % Cycle) \div Res) % b = (x \div Res) % b
  BY <1>2, ResAssumption, CycleAssumption, WrapBar
<1>4. b # 0
  BY <1>1
<1> QED
  BY <1>1, <1>3, <1>4 DEF BarIndex, ClampBars

\* Advancing from a wrapped phase.
LEMMA AdvanceOf ==
  ASSUME NEW x \in Nat, NEW y \in Nat, NEW dt \in Nat
  PROVE  Advance(x % Cycle, y, dt) = (x + y * dt) % Cycle
<1>1. PICK z \in Nat : z = y * dt
  OBVIOUS
<1> QED
  BY <1>1, CycleAssumption, WrapTwice DEF Advance

\* Between the start of a stall and its end a bar has passed exactly when the
\* bar of the loop is another one.
LEMMA CrossesOnce ==
  ASSUME StallsAreShort, NEW p \in LatePlans, NEW x \in Nat, NEW k \in 0 .. MaxStall
  PROVE  /\ CrossedBarBoundary(BarIndex(x % Cycle, p.bars),
                               BarIndex((x + p.tempo * k) % Cycle, p.bars), p.bars)
              <=> (x + p.tempo * k) \div Res # x \div Res
         /\ x \div Res <= (x + p.tempo * k) \div Res
<1>1. PICK b \in Nat \ {0}, t \in Nat : b = p.bars /\ t = p.tempo
  BY PlanFacts
<1>2. PICK d \in Nat : d = t * k
  OBVIOUS
<1>3. d <= (b - 1) * Res
  <2>1. t * MaxStall <= (b - 1) * Res
    BY <1>1 DEF StallsAreShort
  <2>2. MaxStall \in Nat
    BY LagAssumption
  <2>3. t * k <= t * MaxStall
    BY <2>2
  <2>4. PICK f \in Int, g \in Int : f = (b - 1) * Res /\ g = t * MaxStall
    BY <2>2, ResAssumption
  <2> QED
    BY <1>2, <2>1, <2>3, <2>4
<1>4. PICK a \in Int, c \in Int : a = x \div Res /\ c = (x + d) \div Res
  BY ResAssumption
<1>5. c - a \in 0 .. (b - 1)
  BY <1>3, <1>4, ResAssumption, BarsPassed
<1>6. a % b = c % b <=> a = c
  BY <1>5, SameBar
<1>7. BarIndex(x % Cycle, p.bars) = a % b
  BY <1>1, <1>4, BarOf
<1>8. BarIndex((x + d) % Cycle, p.bars) = c % b
  <2>1. PICK n \in Nat : n = x + d
    OBVIOUS
  <2>2. BarIndex(n % Cycle, p.bars) = (n \div Res) % p.bars
    BY BarOf
  <2> QED
    BY <1>1, <1>4, <2>1, <2>2
<1>9. a % b \in 0 .. (b - 1) /\ c % b \in 0 .. (b - 1)
  BY DivMod
<1>10. CrossedBarBoundary(a % b, c % b, b) <=> a # c
  BY <1>6, <1>9 DEF CrossedBarBoundary
<1>11. x + p.tempo * k = x + d
  BY <1>1, <1>2
<1>12. c >= a
  BY <1>5
<1> QED
  BY <1>1, <1>4, <1>7, <1>8, <1>10, <1>11, <1>12

\* One tick from e, k units late, does what on-time ticks did.
LEMMA TickIsStall ==
  ASSUME StallsAreShort, NEW e, BarIsOwn(e), NEW k \in 0 .. MaxStall
  PROVE  TickOf(e, k) = AfterStall(e, k)
<1>1. /\ e.plan \in LatePlans /\ e.pending \in LatePlans \cup {NoPlan} /\ e.phase \in 0 .. (Cycle - 1)
      /\ e.lastBar = BarIndex(e.phase, e.plan.bars)
  BY DEF BarIsOwn, EngineType, Phases
<1>2. PICK x \in Nat, t \in Nat \ {0}, n \in Nat :
        x = e.phase /\ t = e.plan.tempo /\ n = x + t * k
  <2>1. e.phase \in Nat /\ e.plan.tempo \in Nat \ {0}
    BY <1>1, PlanFacts, CycleAssumption
  <2>2. \A x \in Nat, t \in Nat \ {0} : x + t * k \in Nat
    OBVIOUS
  <2> QED
    BY <2>1, <2>2, Zenon
<1>3. x % Cycle = x
  BY <1>1, <1>2, CycleAssumption, NoWrap
<1>4. CrossedBarBoundary(e.lastBar, BarIndex(n % Cycle, e.plan.bars), e.plan.bars)
        <=> n \div Res # x \div Res
  BY <1>1, <1>2, <1>3, CrossesOnce
<1>5. Later(e, k) = n /\ Advance(e.phase, e.plan.tempo, k) = n % Cycle
  BY <1>2 DEF Later, Advance
<1>6. PICK plan \in LatePlans :
        plan = (IF e.pending # NoPlan /\ n \div Res # x \div Res THEN e.pending ELSE e.plan)
  BY <1>1
<1>7. plan.tempo = e.plan.tempo
  BY <1>1 DEF StallsAreShort
<1> QED
  BY <1>2, <1>4, <1>5, <1>6, <1>7 DEF TickOf, AfterStall

\* A tick of the on-time engine.
LEMMA StallGrows ==
  ASSUME StallsAreShort, NEW e, BarIsOwn(e), NEW k \in Nat, k + 1 \in 0 .. MaxStall
  PROVE  TickOf(AfterStall(e, k), 1) = AfterStall(e, k + 1)
<1>1. /\ e.plan \in LatePlans /\ e.pending \in LatePlans \cup {NoPlan} /\ e.phase \in 0 .. (Cycle - 1)
      /\ e.lastBar = BarIndex(e.phase, e.plan.bars)
  BY DEF BarIsOwn, EngineType, Phases
<1>2. k \in 0 .. MaxStall /\ 1 \in 0 .. MaxStall
  BY LagAssumption
<1>3. PICK x \in Nat, t \in Nat \ {0}, n \in Nat, n1 \in Nat :
        x = e.phase /\ t = e.plan.tempo /\ n = x + t * k /\ n1 = x + t * (k + 1)
  <2>1. e.phase \in Nat /\ e.plan.tempo \in Nat \ {0}
    BY <1>1, PlanFacts, CycleAssumption
  <2>2. \A x \in Nat, t \in Nat \ {0} : x + t * k \in Nat /\ x + t * (k + 1) \in Nat
    OBVIOUS
  <2> QED
    BY <2>1, <2>2, Zenon
<1>4. n1 = n + t * 1
  <2>1. t * (k + 1) = t * k + t * 1
    OBVIOUS
  <2> QED
    BY <1>3, <2>1
<1>5. Later(e, k) = n /\ Later(e, k + 1) = n1
  BY <1>3 DEF Later
<1> DEFINE adopted == e.pending # NoPlan /\ n \div Res # x \div Res
           f == AfterStall(e, k)
<1>6. PICK plan \in LatePlans : plan = (IF adopted THEN e.pending ELSE e.plan)
  BY <1>1
<1>7. /\ f.plan = plan /\ f.pending = (IF adopted THEN NoPlan ELSE e.pending)
      /\ f.phase = n % Cycle /\ f.lastBar = BarIndex(n % Cycle, plan.bars)
  BY <1>3, <1>5, <1>6 DEF AfterStall
<1>8. plan.tempo = t
  BY <1>1, <1>3 DEF StallsAreShort
<1>9. Advance(f.phase, f.plan.tempo, 1) = n1 % Cycle
  <2>1. Advance(n % Cycle, t, 1) = (n + t * 1) % Cycle
    BY AdvanceOf
  <2> QED
    BY <1>4, <1>7, <1>8, <2>1
<1>10. CrossedBarBoundary(f.lastBar, BarIndex(n1 % Cycle, plan.bars), plan.bars)
         <=> n1 \div Res # n \div Res
  BY <1>2, <1>4, <1>7, <1>8, CrossesOnce
<1>11. n \div Res <= n1 \div Res
  BY <1>2, <1>4, <1>8, CrossesOnce
<1>12. x \div Res <= n \div Res
  BY <1>1, <1>2, <1>3, CrossesOnce
<1>13. PICK a \in Int, b \in Int, c \in Int : a = x \div Res /\ b = n \div Res /\ c = n1 \div Res
  BY ResAssumption
<1> HIDE DEF f
<1>14. CASE adopted
  <2>1. f.pending = NoPlan /\ plan = e.pending
    BY <1>6, <1>7, <1>14
  <2>2. c # a
    BY <1>11, <1>12, <1>13, <1>14
  <2>3. AfterStall(e, k + 1) = [plan |-> plan, pending |-> NoPlan, phase |-> n1 % Cycle,
                                lastBar |-> BarIndex(n1 % Cycle, plan.bars)]
    BY <1>3, <1>5, <1>13, <1>14, <2>1, <2>2 DEF AfterStall
  <2>4. TickOf(f, 1) = [plan |-> plan, pending |-> NoPlan, phase |-> n1 % Cycle,
                        lastBar |-> BarIndex(n1 % Cycle, plan.bars)]
    BY <1>7, <1>9, <2>1 DEF TickOf
  <2> QED
    BY <2>3, <2>4 DEF f
<1>15. CASE ~adopted /\ e.pending = NoPlan
  <2>1. f.pending = NoPlan /\ plan = e.plan
    BY <1>6, <1>7, <1>15
  <2>2. AfterStall(e, k + 1) = [plan |-> plan, pending |-> NoPlan, phase |-> n1 % Cycle,
                                lastBar |-> BarIndex(n1 % Cycle, plan.bars)]
    BY <1>5, <1>15, <2>1 DEF AfterStall
  <2>3. TickOf(f, 1) = [plan |-> plan, pending |-> NoPlan, phase |-> n1 % Cycle,
                        lastBar |-> BarIndex(n1 % Cycle, plan.bars)]
    BY <1>7, <1>9, <2>1 DEF TickOf
  <2> QED
    BY <2>2, <2>3 DEF f
<1>16. CASE ~adopted /\ e.pending # NoPlan
  <2>1. f.pending = e.pending /\ plan = e.plan /\ a = b
    BY <1>6, <1>7, <1>13, <1>16
  <2>2. PICK next \in LatePlans : next = (IF c # a THEN e.pending ELSE e.plan)
    BY <1>1, <1>16
  <2>3. next.tempo = t
    BY <1>1, <1>3 DEF StallsAreShort
  <2>4. AfterStall(e, k + 1) = [plan |-> next, pending |-> IF c # a THEN NoPlan ELSE e.pending,
                                phase |-> n1 % Cycle, lastBar |-> BarIndex(n1 % Cycle, next.bars)]
    BY <1>3, <1>5, <1>13, <1>16, <2>2 DEF AfterStall
  <2>5. TickOf(f, 1) = [plan |-> next, pending |-> IF c # a THEN NoPlan ELSE e.pending,
                        phase |-> n1 % Cycle, lastBar |-> BarIndex(n1 % Cycle, next.bars)]
    BY <1>7, <1>8, <1>9, <1>10, <1>13, <1>16, <2>1, <2>2, <2>3 DEF TickOf
  <2> QED
    BY <2>4, <2>5 DEF f
<1> QED
  BY <1>14, <1>15, <1>16

\* No stall changes nothing.
LEMMA NoStall ==
  ASSUME NEW e, BarIsOwn(e)
  PROVE  AfterStall(e, 0) = e
<1>1. /\ e \in EngineType /\ e.plan \in LatePlans /\ e.phase \in 0 .. (Cycle - 1)
      /\ e.lastBar = BarIndex(e.phase, e.plan.bars)
  BY DEF BarIsOwn, EngineType, Phases
<1>2. Later(e, 0) = e.phase
  BY <1>1, PlanFacts, CycleAssumption DEF Later
<1>3. e.phase % Cycle = e.phase
  BY <1>1, CycleAssumption, NoWrap
<1>4. AfterStall(e, 0) = [plan |-> e.plan, pending |-> e.pending, phase |-> e.phase, lastBar |-> e.lastBar]
  BY <1>1, <1>2, <1>3 DEF AfterStall
<1> QED
  BY <1>1, <1>4 DEF EngineType

\* What a stall leaves is an engine whose bar is its own.
LEMMA StallKeeps ==
  ASSUME NEW e, BarIsOwn(e), NEW k \in Nat
  PROVE  BarIsOwn(AfterStall(e, k))
<1>1. /\ e.plan \in LatePlans /\ e.pending \in LatePlans \cup {NoPlan} /\ e.phase \in 0 .. (Cycle - 1)
  BY DEF BarIsOwn, EngineType, Phases
<1>2. Later(e, k) \in Nat
  BY <1>1, PlanFacts, CycleAssumption DEF Later
<1>3. PICK ph \in 0 .. (Cycle - 1) : ph = Later(e, k) % Cycle
  BY <1>2, CycleAssumption, DivMod
<1>4. PICK plan \in LatePlans, pending \in LatePlans \cup {NoPlan} :
        AfterStall(e, k) = [plan |-> plan, pending |-> pending, phase |-> ph,
                            lastBar |-> BarIndex(ph, plan.bars)]
  BY <1>1, <1>3 DEF AfterStall
<1>5. BarIndex(ph, plan.bars) \in Nat
  BY PlanFacts, BarIsNat DEF Phases
<1> QED
  BY <1>4, <1>5 DEF BarIsOwn, EngineType, Phases

\* The on-time engine is, at every lag, what a stall makes of the late one.
THEOREM LateInvariance == StallsAreShort => (LateSpec => []LateInv)
<1> SUFFICES ASSUME StallsAreShort PROVE LateSpec => []LateInv
  OBVIOUS
<1>1. LateInit => LateInv
  <2> SUFFICES ASSUME LateInit PROVE LateInv
    OBVIOUS
  <2>1. PICK p \in LatePlans : late = EngineWith(p) /\ onTime = late /\ lag = 0
    BY DEF LateInit
  <2>2. BarIsOwn(late)
    <3>1. PICK b \in Nat \ {0} : b = p.bars
      BY PlanFacts
    <3>2. BarIndex(0, b) = 0
      <4>1. 0 \div Res = 0
        <5>1. 0 = 0 * Res + 0 /\ 0 \in 0 .. (Res - 1)
          BY ResAssumption
        <5> QED
          BY <5>1, ResAssumption, DivUnique
      <4>2. 0 % b = 0
        BY NoWrap
      <4>3. b # 0
        BY <3>1
      <4> QED
        BY <4>1, <4>2, <4>3 DEF BarIndex, ClampBars
    <3>3. 0 \in Phases
      BY CycleAssumption DEF Phases
    <3> QED
      BY <2>1, <3>1, <3>2, <3>3 DEF BarIsOwn, EngineType, EngineWith
  <2>3. lag \in 0 .. MaxStall
    BY <2>1, LagAssumption
  <2> QED
    BY <2>1, <2>2, <2>3, NoStall DEF LateInv
<1>2. LateInv /\ [LateNext]_lateVars => LateInv'
  <2> SUFFICES ASSUME LateInv, [LateNext]_lateVars PROVE LateInv'
    OBVIOUS
  <2>1. lag \in 0 .. MaxStall /\ BarIsOwn(late) /\ onTime = AfterStall(late, lag) /\ MaxStall \in Nat
    BY LagAssumption DEF LateInv
  <2>2. ASSUME NEW p \in LatePlans, StageBoth(p) PROVE LateInv'
    <3>1. /\ lag = 0 /\ lag' = 0 /\ late' = [late EXCEPT !.pending = p]
          /\ onTime' = [onTime EXCEPT !.pending = p]
      BY <2>2 DEF StageBoth
    <3>2. onTime = late
      BY <2>1, <3>1, NoStall
    <3>3. BarIsOwn(late')
      BY <2>1, <3>1 DEF BarIsOwn, EngineType
    <3>4. AfterStall(late', 0) = late'
      BY <3>3, NoStall
    <3> QED
      BY <2>1, <3>1, <3>2, <3>3, <3>4 DEF LateInv
  <2>3. CASE OnTimeTick
    <3>1. lag < MaxStall /\ onTime' = TickOf(onTime, 1) /\ lag' = lag + 1 /\ late' = late
      BY <2>3 DEF OnTimeTick
    <3>2. lag + 1 \in 0 .. MaxStall /\ lag \in Nat
      BY <2>1, <3>1
    <3>3. TickOf(AfterStall(late, lag), 1) = AfterStall(late, lag + 1)
      BY <2>1, <3>2, StallGrows
    <3> QED
      BY <2>1, <3>1, <3>2, <3>3 DEF LateInv
  <2>4. CASE CatchUp
    <3>1. late' = TickOf(late, lag) /\ lag' = 0 /\ onTime' = onTime
      BY <2>4 DEF CatchUp
    <3>2. TickOf(late, lag) = AfterStall(late, lag)
      BY <2>1, TickIsStall
    <3>3. late' = onTime
      BY <2>1, <3>1, <3>2
    <3>4. BarIsOwn(late')
      BY <2>1, <3>1, <3>2, StallKeeps
    <3>5. AfterStall(late', 0) = late'
      BY <3>4, NoStall
    <3> QED
      BY <2>1, <3>1, <3>3, <3>4, <3>5 DEF LateInv
  <2>5. CASE UNCHANGED lateVars
    BY <2>5 DEF LateInv, lateVars
  <2> QED
    BY <2>2, <2>3, <2>4, <2>5 DEF LateNext
<1> QED
  BY <1>1, <1>2, PTL DEF LateSpec

\* A late tick ends with the plan and the frame that on-time ticks up to the
\* same now would have produced (engine.go, tick).
THEOREM LateCatchesUp == StallsAreShort => (LateSpec => []LateEqualsOnTime)
<1> SUFFICES ASSUME StallsAreShort PROVE LateSpec => []LateEqualsOnTime
  OBVIOUS
<1>1. LateInv => LateEqualsOnTime
  BY NoStall DEF LateInv, LateEqualsOnTime
<1>2. LateSpec => []LateInv
  BY LateInvariance
<1> QED
  BY <1>1, <1>2, PTL

-----------------------------------------------------------------------------
(* The show file *)

\* A process that has read a checksum read it from a file that holds a blob,
\* and no step takes the blob away again.
LoadsSaved == \A p \in Procs : op[p].pc = "load" => blob # NoBlob

StoreIInv == StoreTypeOK /\ LoadsSaved /\ FileLoads

Records == [pc : Pcs, sum : States \cup {NoBlob}, rev : Nat, id : Nat,
            edit : SUBSET Edits, draft : States]

-----------------------------------------------------------------------------
\* The revision a threshold query returns is a natural number.
LEMMA RevisionIsNat == StoreTypeOK => CurrentRevision \in Nat
BY DEF StoreTypeOK, CurrentRevision

\* Save's increment keeps a State a State.
LEMMA BumpedIsState ==
    ASSUME NEW s \in States
    PROVE  Bumped(s) \in States
BY DEF Bumped, States

\* Pruning only removes rows.
LEMMA PruneShrinks ==
    ASSUME NEW rows
    PROVE  Prune(rows) \subseteq rows
BY DEF Prune

\* An idle process has the type of a process.
LEMMA IdleIsRecord == Idle \in Records /\ EmptyState \in States
BY DEF Idle, Records, Pcs, EmptyState, States

\* A freshly created file loads.
LEMMA StoreInitIInv == StoreInit => StoreIInv
<1> SUFFICES ASSUME StoreInit PROVE StoreIInv
    OBVIOUS
<1>1. op \in [Procs -> Records]
    BY IdleIsRecord DEF StoreInit
<1>a. /\ meta = [rev |-> 0, sum |-> NoBlob] /\ blob = NoBlob /\ points = {} /\ nextId = 1
      /\ todo = Edits /\ faults = MaxFaults /\ recoveries = MaxRecoveries
      /\ acked = {} /\ interrupted = {} /\ lastInterrupted = 0
    BY DEF StoreInit
<1>b. acceptCut \in BOOLEAN /\ overlapped \in BOOLEAN
    BY DEF StoreInit
<1>c. faults \in 0 .. MaxFaults /\ recoveries \in 0 .. MaxRecoveries
    BY <1>a, StoreAssumption
<1>d. meta \in [rev : Nat, sum : States \cup {NoBlob}]
    BY <1>a
<1>2. StoreTypeOK
    BY <1>1, <1>a, <1>b, <1>c, <1>d DEF StoreTypeOK, Records
<1>3. LoadsSaved /\ FileLoads
    BY DEF StoreInit, LoadsSaved, FileLoads, Saved, Idle
<1> QED
    BY <1>2, <1>3 DEF StoreIInv

\* Steps that leave the file alone keep the invariant when what they make of
\* the process is a process, which loads only from a saved file.
LEMMA LocalStep ==
    ASSUME StoreIInv, NEW p \in Procs, NEW r \in Records,
           op' = [op EXCEPT ![p] = r],
           r.pc = "load" => blob # NoBlob,
           UNCHANGED <<meta, blob>>,
           points' \subseteq points, nextId' = nextId,
           todo' \subseteq todo, faults' \in 0 .. MaxFaults,
           recoveries' \in 0 .. MaxRecoveries, acked' = acked,
           interrupted' \subseteq Nat, lastInterrupted' \in Nat, acceptCut' \in BOOLEAN,
           overlapped' \in BOOLEAN
    PROVE  StoreIInv'
<1>1. op \in [Procs -> Records]
    BY DEF StoreIInv, StoreTypeOK, Records
<1>2. op' \in [Procs -> Records]
    BY <1>1
<1>3. StoreTypeOK'
    BY <1>2 DEF StoreIInv, StoreTypeOK, Records
<1>4. LoadsSaved'
    BY <1>1 DEF StoreIInv, LoadsSaved
<1>5. FileLoads'
    BY DEF StoreIInv, FileLoads, Saved
<1> QED
    BY <1>3, <1>4, <1>5 DEF StoreIInv

\* Every step of every process keeps the invariant.
LEMMA StoreNextIInv == StoreIInv /\ [StoreNext]_storeVars => StoreIInv'
<1> SUFFICES ASSUME StoreIInv, [StoreNext]_storeVars PROVE StoreIInv'
    OBVIOUS
<1>a. /\ op \in [Procs -> Records] /\ points \subseteq points /\ todo \subseteq todo
      /\ faults \in 0 .. MaxFaults /\ recoveries \in 0 .. MaxRecoveries
      /\ interrupted \subseteq Nat /\ lastInterrupted \in Nat /\ acceptCut \in BOOLEAN
      /\ overlapped \in BOOLEAN
      /\ MaxFaults \in Nat /\ MaxRecoveries \in Nat
    BY StoreAssumption DEF StoreIInv, StoreTypeOK, Records
<1>b. CurrentRevision \in Nat
    BY RevisionIsNat DEF StoreIInv
<1>1. ASSUME NEW p \in Procs, NEW e \in Edits, LoadMeta(p, e) PROVE StoreIInv'
  <2> DEFINE r == IF Saved
                  THEN [Idle EXCEPT !.pc = "load", !.sum = meta.sum, !.edit = {e}]
                  ELSE [Idle EXCEPT !.pc = "stage", !.edit = {e},
                                    !.draft = [rev |-> 1, val |-> {e}]]
  <2>1. r \in Records
    BY IdleIsRecord DEF StoreIInv, StoreTypeOK, Records, States, Pcs
  <2>2. r.pc = "load" => blob # NoBlob
    BY DEF Saved, Idle
  <2>3. op' = [op EXCEPT ![p] = r]
    BY <1>1 DEF LoadMeta
  <2> HIDE DEF r
  <2>4. /\ UNCHANGED <<meta, blob, points, nextId, faults, recoveries,
                       acked, interrupted, lastInterrupted, acceptCut>>
        /\ todo' \subseteq todo
    BY <1>1 DEF LoadMeta, diskVars, Begins
  <2>5. overlapped' \in BOOLEAN
    BY <1>1, Zenon DEF LoadMeta, Begins
  <2> QED
    BY <1>a, <2>1, <2>2, <2>3, <2>4, <2>5, LocalStep
<1>2. ASSUME NEW p \in Procs, LoadBlob(p) PROVE StoreIInv'
  <2> DEFINE r == IF blob = op[p].sum
                  THEN [op[p] EXCEPT !.pc = "stage",
                            !.draft = Bumped([blob EXCEPT !.val = @ \cup op[p].edit])]
                  ELSE [op[p] EXCEPT !.pc = "mismatch"]
  <2>1. op[p] \in Records /\ blob \in States
    BY <1>2, <1>a DEF LoadBlob, StoreIInv, LoadsSaved, StoreTypeOK
  <2>2. [blob EXCEPT !.val = @ \cup op[p].edit] \in States
    BY <2>1 DEF States, Records
  <2>3. Bumped([blob EXCEPT !.val = @ \cup op[p].edit]) \in States
    BY <2>2, BumpedIsState
  <2>4. r \in Records /\ r.pc # "load"
    BY <2>1, <2>3 DEF Records, Pcs
  <2>5. op' = [op EXCEPT ![p] = r]
    BY <1>2 DEF LoadBlob
  <2> HIDE DEF r
  <2>6. UNCHANGED <<meta, blob, points, nextId, todo, faults, recoveries,
                    acked, interrupted, lastInterrupted, acceptCut, overlapped>>
    BY <1>2 DEF LoadBlob, diskVars, boundVars, histVars
  <2> QED
    BY <1>a, <2>4, <2>5, <2>6, LocalStep
<1>3. ASSUME NEW p \in Procs, ReportMismatch(p) \/ Refuse(p) PROVE StoreIInv'
  <2>1. op' = [op EXCEPT ![p] = Idle] /\ Idle.pc # "load"
    BY <1>3 DEF ReportMismatch, Refuse, Idle
  <2>2. UNCHANGED <<meta, blob, points, nextId, todo, faults, recoveries,
                    acked, interrupted, lastInterrupted, acceptCut, overlapped>>
    BY <1>3 DEF ReportMismatch, Refuse, diskVars, boundVars, histVars
  <2> QED
    BY <1>a, <2>1, <2>2, IdleIsRecord, LocalStep
<1>4. ASSUME NEW p \in Procs, StageRecoveryPoint(p) PROVE StoreIInv'
  <2> DEFINE row == [id |-> nextId, state |-> op[p].draft]
             r == [op[p] EXCEPT !.pc = "promote", !.id = nextId]
  <2>0. nextId \in Nat \ {0} /\ nextId + 1 \in Nat \ {0}
    BY DEF StoreIInv, StoreTypeOK
  <2>1. row \in Points
    BY <1>a, <2>0 DEF Points, Records
  <2>2. points' \subseteq Points
    BY <1>4, <2>1, PruneShrinks DEF StageRecoveryPoint, StoreIInv, StoreTypeOK
  <2>3. r \in Records /\ r.pc # "load"
    BY <1>a, <2>0 DEF Records, Pcs
  <2>a. op' = [op EXCEPT ![p].pc = "promote", ![p].id = nextId] /\ nextId' = nextId + 1
    BY <1>4 DEF StageRecoveryPoint
  <2>b. op' = [op EXCEPT ![p] = r]
    BY <1>a, <2>a DEF Records
  <2> HIDE DEF r
  <2>4. op' = [op EXCEPT ![p] = r] /\ nextId' \in Nat \ {0}
    BY <2>0, <2>a, <2>b
  <2>5. UNCHANGED <<meta, blob, todo, faults, recoveries,
                    acked, interrupted, lastInterrupted, acceptCut, overlapped>>
    BY <1>4 DEF StageRecoveryPoint, boundVars, histVars
  <2>6. op' \in [Procs -> Records]
    BY <1>a, <2>3, <2>4
  <2>7. StoreTypeOK'
    BY <2>2, <2>4, <2>5, <2>6 DEF StoreIInv, StoreTypeOK, Records
  <2>8. LoadsSaved' /\ FileLoads'
    BY <1>a, <2>3, <2>4, <2>5 DEF StoreIInv, LoadsSaved, FileLoads, Saved
  <2> QED
    BY <2>7, <2>8 DEF StoreIInv
<1>5. ASSUME NEW p \in Procs, PromoteState(p) PROVE StoreIInv'
  <2>1. op[p].draft \in States /\ op[p].edit \in SUBSET Edits
    BY <1>a DEF Records
  <2>2. /\ meta' = [rev |-> op[p].draft.rev, sum |-> op[p].draft]
        /\ blob' = op[p].draft /\ op' = [op EXCEPT ![p] = Idle]
        /\ acked' = acked \cup op[p].edit /\ lastInterrupted' = 0
    BY <1>5 DEF PromoteState
  <2>3. UNCHANGED <<points, nextId, interrupted, acceptCut, overlapped, todo, faults, recoveries>>
    BY <1>5 DEF PromoteState, boundVars
  <2>4. op' \in [Procs -> Records]
    BY <1>a, <2>2, IdleIsRecord
  <2>5. meta' \in [rev : Nat, sum : States \cup {NoBlob}]
    BY <2>1, <2>2 DEF States
  <2>6. StoreTypeOK'
    BY <2>1, <2>2, <2>3, <2>4, <2>5 DEF StoreIInv, StoreTypeOK, Records
  <2>7. blob' # NoBlob
    BY <2>1, <2>2, NoBlobAssumption
  <2>8. LoadsSaved' /\ FileLoads'
    BY <2>2, <2>7 DEF LoadsSaved, FileLoads, Saved
  <2> QED
    BY <2>6, <2>8 DEF StoreIInv
<1>6. ASSUME NEW p \in Procs, PromoteFails(p) \/ Crash(p) PROVE StoreIInv'
  <2>1. op' = [op EXCEPT ![p] = Idle] /\ Idle.pc # "load"
    BY <1>6 DEF PromoteFails, Crash, Idle
  <2>2. UNCHANGED <<meta, blob, points, nextId, todo, recoveries>>
    BY <1>6 DEF PromoteFails, Crash, diskVars
  <2>3. faults' \in 0 .. MaxFaults
    BY <1>6, <1>a DEF PromoteFails, Crash
  <2>4. LeavesPoint(p) \/ UNCHANGED histVars
    BY <1>6 DEF PromoteFails, Crash
  <2>5. /\ acked' = acked
        /\ interrupted' \subseteq Nat /\ lastInterrupted' \in Nat /\ acceptCut' \in BOOLEAN
        /\ overlapped' \in BOOLEAN
    BY <1>a, <2>4 DEF LeavesPoint, histVars, Records
  <2> QED
    BY <1>a, <2>1, <2>2, <2>3, <2>5, IdleIsRecord, LocalStep
<1>7. ASSUME NEW p \in Procs, NEW row \in points, AcceptThreshold(p, row.id) PROVE StoreIInv'
  <2> DEFINE r == [Idle EXCEPT !.pc = "accept", !.id = row.id, !.rev = CurrentRevision]
  <2>1. row.id \in Nat
    BY DEF StoreIInv, StoreTypeOK, Points
  <2>2. r \in Records /\ r.pc # "load"
    BY <1>b, <2>1, IdleIsRecord DEF Records, Pcs
  <2>3. op' = [op EXCEPT ![p] = r]
    BY <1>7 DEF AcceptThreshold
  <2> HIDE DEF r
  <2>4. /\ UNCHANGED <<meta, blob, points, nextId, todo, faults,
                       acked, interrupted, lastInterrupted, acceptCut>>
        /\ recoveries' \in 0 .. MaxRecoveries
    BY <1>7, <1>a DEF AcceptThreshold, diskVars, Begins
  <2>5. overlapped' \in BOOLEAN
    BY <1>7, Zenon DEF AcceptThreshold, Begins
  <2> QED
    BY <1>a, <2>2, <2>3, <2>4, <2>5, LocalStep
<1>8. ASSUME NEW p \in Procs, AcceptRow(p) PROVE StoreIInv'
  <2>1. UNCHANGED <<meta, blob, points, nextId, todo, faults, recoveries,
                    acked, interrupted, lastInterrupted, acceptCut, overlapped>>
    BY <1>8 DEF AcceptRow, diskVars, boundVars, histVars
  <2>2. CASE op' = [op EXCEPT ![p] = Idle]
    BY <1>a, <2>1, <2>2, IdleIsRecord, LocalStep DEF Idle
  <2>3. ASSUME NEW row \in points,
               op' = [op EXCEPT ![p].pc = "stage", ![p].draft = Bumped(row.state)]
        PROVE  StoreIInv'
    <3> DEFINE r == [op[p] EXCEPT !.pc = "stage", !.draft = Bumped(row.state)]
    <3>1. row.state \in States
      BY DEF StoreIInv, StoreTypeOK, Points
    <3>2. Bumped(row.state) \in States
      BY <3>1, BumpedIsState
    <3>3. r \in Records /\ r.pc # "load"
      BY <1>a, <3>2 DEF Records, Pcs
    <3>4. op' = [op EXCEPT ![p] = r]
      BY <1>a, <2>3 DEF Records
    <3> HIDE DEF r
    <3> QED
      BY <1>a, <2>1, <3>3, <3>4, LocalStep
  <2> QED
    BY <1>8, <2>2, <2>3 DEF AcceptRow, OfferedAbove
<1>9. ASSUME NEW p \in Procs, DiscardThreshold(p) PROVE StoreIInv'
  <2> DEFINE r == [Idle EXCEPT !.pc = "discard", !.rev = CurrentRevision]
  <2>1. r \in Records /\ r.pc # "load"
    BY <1>b, IdleIsRecord DEF Records, Pcs
  <2>2. op' = [op EXCEPT ![p] = r]
    BY <1>9 DEF DiscardThreshold
  <2> HIDE DEF r
  <2>3. /\ UNCHANGED <<meta, blob, points, nextId, todo, faults,
                       acked, interrupted, lastInterrupted, acceptCut>>
        /\ recoveries' \in 0 .. MaxRecoveries
    BY <1>9, <1>a DEF DiscardThreshold, diskVars, Begins
  <2>4. overlapped' \in BOOLEAN
    BY <1>9, Zenon DEF DiscardThreshold, Begins
  <2> QED
    BY <1>a, <2>1, <2>2, <2>3, <2>4, LocalStep
<1>10. ASSUME NEW p \in Procs, DiscardDelete(p) PROVE StoreIInv'
  <2>1. op' = [op EXCEPT ![p] = Idle] /\ Idle.pc # "load"
    BY <1>10 DEF DiscardDelete, Idle
  <2>2. /\ UNCHANGED <<meta, blob, nextId, todo, faults, recoveries,
                       acked, interrupted, acceptCut, overlapped>>
        /\ points' \subseteq points /\ lastInterrupted' \in Nat
    BY <1>10 DEF DiscardDelete, boundVars
  <2> QED
    BY <1>a, <2>1, <2>2, IdleIsRecord, LocalStep
<1>11. CASE UNCHANGED storeVars
    BY <1>11 DEF storeVars, StoreIInv, StoreTypeOK, LoadsSaved, FileLoads, Saved
<1> QED
    BY <1>1, <1>2, <1>3, <1>4, <1>5, <1>6, <1>7, <1>8, <1>9, <1>10, <1>11
       DEF StoreNext, Command, SaveStep, Fault, Recovery

-----------------------------------------------------------------------------
\* The invariant holds in every behaviour of the file and its processes.
THEOREM StoreInvariance == StoreSpec => []StoreIInv
BY StoreInitIInv, StoreNextIInv, PTL DEF StoreSpec

\* Every column and every local variable keeps its type.
THEOREM StoreTypeCorrect == StoreSpec => []StoreTypeOK
<1>1. StoreIInv => StoreTypeOK
    BY DEF StoreIInv
<1> QED
    BY <1>1, StoreInvariance, PTL

\* However many processes share the file, and wherever they crash or fail, its
\* checksum and revision are those of its blob: it loads.
THEOREM FileAlwaysLoads == StoreSpec => []FileLoads
<1>1. StoreIInv => FileLoads
    BY DEF StoreIInv
<1> QED
    BY <1>1, StoreInvariance, PTL

\* Every state of the file that any number of processes, crashes and failures
\* lead to is well formed and loads.
THEOREM StoreCorrect == StoreSpec => []StoreInvariant
<1>1. StoreIInv => StoreInvariant
    BY DEF StoreIInv, StoreInvariant
<1> QED
    BY <1>1, StoreInvariance, PTL

-----------------------------------------------------------------------------
\* With migrations

MigPcs == {"none", "meta", "backup", "create", "copy", "transform", "replace", "sidecars"}
MigRecords == [pc : MigPcs, from : Nat, backup : Files]

\* the columns and locals that ShowMigration adds
MigrationTypeOK ==
    /\ version \in Nat
    /\ temp \in Files \cup {NoFile}
    /\ backups \subseteq Files
    /\ mig \in [Procs -> MigRecords]
    /\ crossed \in BOOLEAN

\* FileLoads, of a file that is not the show
FileOK(f) ==
    /\ f.blob # NoBlob => f.meta.sum = f.blob /\ f.meta.rev = f.blob.rev
    /\ f.blob = NoBlob => f.meta.rev = 0

\* a migration may swap in the temporary file, and copies its backup there:
\* both load
CopiesLoad ==
    /\ temp # NoFile => FileOK(temp)
    /\ \A p \in Procs : FileOK(mig[p].backup)

MInv == StoreIInv /\ MigrationTypeOK /\ CopiesLoad

-----------------------------------------------------------------------------
(* Every file loads *)

\* A call of a command or of recovery is a step of ShowStore.
LEMMA UsesIsStoreStep ==
    ASSUME NEW p \in Procs, Uses(p)
    PROVE  StoreNext
BY DEF Uses, StoreNext, Command, SaveStep, Fault

\* The file an empty one opens as is a file, and loads.
LEMMA TornIsFile == Torn \in Files /\ FileOK(Torn) /\ NoMig \in MigRecords
BY DEF Torn, Files, FileOK, NoMig, MigRecords, MigPcs

\* The show is a file that loads.
LEMMA SnapshotIsFile ==
    ASSUME StoreIInv, version \in Nat
    PROVE  Snapshot \in Files /\ FileOK(Snapshot)
BY DEF StoreIInv, StoreTypeOK, FileLoads, Saved, Snapshot, Files, FileOK

\* A process at work on a migration has the type of a process.
LEMMA MigratingIsRecord == [Idle EXCEPT !.pc = "migrate"] \in Records
BY IdleIsRecord DEF Records, Pcs

\* A fresh file, one to migrate and one of a newer build all load.
LEMMA InitMInv == MigrationInit => MInv
<1> SUFFICES ASSUME MigrationInit PROVE MInv
    OBVIOUS
<1>0. version \in Nat
    BY MigrationAssumption DEF MigrationInit
<1>1. MigrationTypeOK /\ CopiesLoad
    BY <1>0, TornIsFile DEF MigrationInit, MigrationTypeOK, CopiesLoad, NoMig
<1>2. CASE StoreInit
    BY <1>1, <1>2, StoreInitIInv DEF MInv
<1>3. CASE ~StoreInit
  <2> DEFINE old == [rev |-> 1, val |-> {}]
  <2>1. /\ meta = [rev |-> 1, sum |-> old] /\ blob = old
        /\ points = {[id |-> 1, state |-> old], [id |-> 2, state |-> Bumped(old)]}
        /\ nextId = 3 /\ op = [p \in Procs |-> Idle]
        /\ todo = Edits /\ faults = MaxFaults /\ recoveries = MaxRecoveries
        /\ acked = {} /\ interrupted = {2} /\ lastInterrupted = 2
        /\ acceptCut = FALSE /\ overlapped = FALSE
    BY <1>3, Zenon DEF MigrationInit
  <2>2. old \in States
    BY DEF States
  <2> HIDE DEF old
  <2>3. Bumped(old) \in States
    BY <2>2, BumpedIsState
  <2>4. points \subseteq Points
    BY <2>1, <2>2, <2>3 DEF Points
  <2>5. op \in [Procs -> Records]
    BY <2>1, IdleIsRecord
  <2>6. faults \in 0 .. MaxFaults /\ recoveries \in 0 .. MaxRecoveries
    BY <2>1, StoreAssumption
  <2>7. acceptCut \in BOOLEAN /\ overlapped \in BOOLEAN
    BY <2>1
  <2>8. meta \in [rev : Nat, sum : States \cup {NoBlob}]
    BY <2>1, <2>2
  <2>9. StoreTypeOK
    BY <2>1, <2>2, <2>4, <2>5, <2>6, <2>7, <2>8 DEF StoreTypeOK, Records
  <2>10. blob # NoBlob
    BY <2>1, <2>2, NoBlobAssumption
  <2>11. meta.sum = blob /\ meta.rev = 1 /\ blob.rev = 1
    BY <2>1 DEF old
  <2>12. LoadsSaved /\ FileLoads
    BY <2>10, <2>11 DEF LoadsSaved, FileLoads, Saved
  <2> QED
    BY <1>1, <2>9, <2>12 DEF MInv, StoreIInv
<1> QED
    BY <1>2, <1>3

\* A step of a migration that leaves the show alone.
LEMMA QuietStep ==
    ASSUME StoreIInv, NEW p \in Procs, NEW r \in Records, r.pc # "load",
           op' = [op EXCEPT ![p] = r] \/ UNCHANGED op,
           faults' \in 0 .. MaxFaults, Quietly
    PROVE  StoreIInv'
<1>1. op \in [Procs -> Records]
    BY DEF StoreIInv, StoreTypeOK, Records
<1>2. /\ UNCHANGED <<meta, blob, points, nextId, todo, recoveries,
                     acked, interrupted, lastInterrupted, acceptCut, overlapped>>
    BY DEF Quietly, diskVars, histVars
<1>3. op' \in [Procs -> Records]
    BY <1>1
<1>4. StoreTypeOK'
    BY <1>2, <1>3 DEF StoreIInv, StoreTypeOK, Records
<1>5. LoadsSaved' /\ FileLoads'
    BY <1>1, <1>2 DEF StoreIInv, LoadsSaved, FileLoads, Saved
<1> QED
    BY <1>4, <1>5 DEF StoreIInv

\* What each step of a migration makes of the temporary file, the backups and
\* its own place is of its type and loads.
LEMMA QuietFiles ==
    ASSUME MInv, NEW p \in Procs, NEW m \in MigRecords, FileOK(m.backup),
           mig' = [mig EXCEPT ![p] = m], temp' \in Files \cup {NoFile},
           temp' # NoFile => FileOK(temp'), backups' \subseteq Files,
           version' \in Nat, crossed' \in BOOLEAN
    PROVE  MigrationTypeOK' /\ CopiesLoad'
<1>1. mig' \in [Procs -> MigRecords]
    BY DEF MInv, MigrationTypeOK
<1>2. \A q \in Procs : FileOK(mig[q].backup)'
    BY DEF MInv, MigrationTypeOK, CopiesLoad, FileOK
<1> QED
    BY <1>1, <1>2 DEF MigrationTypeOK, CopiesLoad, FileOK

\* Every step of every process keeps the invariant.
LEMMA NextMInv ==
    MInv /\ [\E p \in Procs : Uses(p) \/ Migrate(p)]_migrationVars => MInv'
<1> SUFFICES ASSUME MInv, [\E p \in Procs : Uses(p) \/ Migrate(p)]_migrationVars
             PROVE  MInv'
    OBVIOUS
<1>a. /\ op \in [Procs -> Records] /\ mig \in [Procs -> MigRecords]
      /\ version \in Nat /\ temp \in Files \cup {NoFile} /\ backups \subseteq Files
      /\ crossed \in BOOLEAN /\ faults \in 0 .. MaxFaults /\ MaxFaults \in Nat
      /\ temp # NoFile => FileOK(temp)
      /\ SchemaVersion \in Nat
    BY StoreAssumption, MigrationAssumption
       DEF MInv, StoreIInv, StoreTypeOK, Records, MigrationTypeOK, CopiesLoad
<1>b. \A p \in Procs : mig[p] \in MigRecords /\ FileOK(mig[p].backup)
    BY <1>a DEF MInv, CopiesLoad
<1>c. Idle \in Records /\ Idle.pc # "load" /\ NoMig \in MigRecords /\ FileOK(NoMig.backup)
    BY IdleIsRecord, TornIsFile DEF Idle, NoMig
<1>1. ASSUME NEW p \in Procs, Uses(p) PROVE MInv'
  <2>1. StoreIInv'
    BY <1>1, UsesIsStoreStep, StoreNextIInv DEF MInv
  <2>2. CASE UNCHANGED fileVars
    BY <2>1, <2>2, <1>a DEF fileVars, MInv, MigrationTypeOK, CopiesLoad, FileOK
  <2>3. CASE version' = SchemaVersion /\ UNCHANGED <<temp, backups, mig, crossed>>
    BY <2>1, <2>3, <1>a DEF MInv, MigrationTypeOK, CopiesLoad, FileOK
  <2>4. CASE mig' = [mig EXCEPT ![p] = NoMig] /\ UNCHANGED <<version, temp, backups, crossed>>
    <3>1. MigrationTypeOK' /\ CopiesLoad'
      BY <2>4, <1>a, <1>c, QuietFiles
    <3> QED
      BY <2>1, <3>1 DEF MInv
  <2> QED
    BY <1>1, <2>2, <2>3, <2>4 DEF Uses
<1>2. ASSUME NEW p \in Procs, runShowOpen(p) PROVE MInv'
  <2> DEFINE r == [Idle EXCEPT !.pc = "migrate"]
             m == [mig[p] EXCEPT !.pc = "meta"]
  <2>1. r \in Records /\ r.pc # "load"
    BY MigratingIsRecord DEF Idle
  <2>2. m \in MigRecords /\ m.backup = mig[p].backup
    BY <1>b DEF MigRecords, MigPcs
  <2>3. /\ op' = [op EXCEPT ![p] = r]
        /\ UNCHANGED <<meta, blob, points, nextId, todo, faults, recoveries, acked,
                       interrupted, lastInterrupted, acceptCut, version, temp, backups>>
    BY <1>2 DEF runShowOpen, Begins, diskVars
  <2>4. mig' = [mig EXCEPT ![p] = m]
    BY <1>2, <1>a DEF runShowOpen, MigRecords
  <2>5. overlapped' \in BOOLEAN /\ crossed' \in BOOLEAN
    BY <1>2, Zenon DEF runShowOpen, Begins
  <2> HIDE DEF r, m
  <2>6. StoreIInv'
    <3>1. /\ points' \subseteq points /\ todo' \subseteq todo /\ faults' \in 0 .. MaxFaults
          /\ recoveries' \in 0 .. MaxRecoveries /\ acked' = acked
          /\ interrupted' \subseteq Nat /\ lastInterrupted' \in Nat /\ acceptCut' \in BOOLEAN
      BY <2>3 DEF MInv, StoreIInv, StoreTypeOK
    <3> QED
      BY <2>1, <2>3, <2>5, <3>1, LocalStep DEF MInv
  <2>7. MigrationTypeOK' /\ CopiesLoad'
    BY <1>a, <1>b, <2>2, <2>3, <2>4, <2>5, QuietFiles
  <2> QED
    BY <2>6, <2>7 DEF MInv
<1>3. ASSUME NEW p \in Procs, NEW m \in MigRecords, FileOK(m.backup),
             op' = [op EXCEPT ![p] = Idle] \/ UNCHANGED op,
             mig' = [mig EXCEPT ![p] = m], faults' \in 0 .. MaxFaults, Quietly,
             temp' \in Files \cup {NoFile}, temp' # NoFile => FileOK(temp'),
             backups' \subseteq Files
      PROVE  MInv'
  <2>1. StoreIInv'
    BY <1>3, <1>c, QuietStep DEF MInv
  <2>2. version' = version /\ crossed' = crossed
    BY <1>3 DEF Quietly
  <2>3. MigrationTypeOK' /\ CopiesLoad'
    BY <1>3, <1>a, <2>2, QuietFiles
  <2> QED
    BY <2>1, <2>3 DEF MInv
<1>4. ASSUME NEW p \in Procs, Returns(p) PROVE MInv'
    BY <1>3, <1>4, <1>a, <1>c DEF Returns, Ends
<1>5. ASSUME NEW p \in Procs, migrationMeta(p) PROVE MInv'
  <2>1. CASE Ends(p)
    BY <1>3, <1>5, <2>1, <1>a, <1>c DEF migrationMeta, Ends
  <2>2. CASE mig' = [mig EXCEPT ![p].pc = "backup", ![p].from = version] /\ UNCHANGED op
    <3> DEFINE m == [mig[p] EXCEPT !.pc = "backup", !.from = version]
    <3>1. m \in MigRecords /\ m.backup = mig[p].backup
      BY <1>a, <1>b DEF MigRecords, MigPcs
    <3>2. mig' = [mig EXCEPT ![p] = m]
      BY <2>2, <1>a DEF MigRecords
    <3> HIDE DEF m
    <3> QED
      BY <1>3, <1>5, <2>2, <3>1, <3>2, <1>a, <1>b DEF migrationMeta
  <2> QED
    BY <1>5, <2>1, <2>2 DEF migrationMeta
<1>6. ASSUME NEW p \in Procs, verifiedBackup(p) PROVE MInv'
  <2> DEFINE m == [mig[p] EXCEPT !.pc = "create", !.backup = Snapshot]
  <2>1. Snapshot \in Files /\ FileOK(Snapshot)
    BY <1>a, SnapshotIsFile DEF MInv
  <2>2. m \in MigRecords /\ m.backup = Snapshot
    BY <1>a, <1>b, <2>1 DEF MigRecords, MigPcs
  <2>3. mig' = [mig EXCEPT ![p] = m]
    BY <1>6, <1>a DEF verifiedBackup, MigRecords
  <2> HIDE DEF m
  <2>4. FileOK(m.backup) /\ UNCHANGED op /\ Quietly
    BY <1>6, <2>1, <2>2 DEF verifiedBackup
  <2>5. faults' \in 0 .. MaxFaults /\ temp' \in Files \cup {NoFile} /\ (temp' # NoFile => FileOK(temp'))
    BY <1>6, <1>a, <1>c DEF verifiedBackup
  <2>6. backups' \subseteq Files
    BY <1>6, <1>a, <2>1 DEF verifiedBackup
  <2> QED
    BY <1>3, <2>2, <2>3, <2>4, <2>5, <2>6
<1>7. ASSUME NEW p \in Procs, NEW pc \in MigPcs, Goes(p, pc), Quietly, UNCHANGED backups,
             temp' \in Files, FileOK(temp')
      PROVE  MInv'
  <2> DEFINE m == [mig[p] EXCEPT !.pc = pc]
  <2>1. m \in MigRecords /\ m.backup = mig[p].backup
    BY <1>b DEF MigRecords
  <2>2. mig' = [mig EXCEPT ![p] = m]
    BY <1>7, <1>a DEF Goes, MigRecords
  <2> HIDE DEF m
  <2> QED
    BY <1>3, <1>7, <2>1, <2>2, <1>a, <1>b DEF Goes
<1>8. ASSUME NEW p \in Procs, copyFile(p) PROVE MInv'
    BY <1>7, <1>8, TornIsFile DEF copyFile, MigPcs
<1>9. ASSUME NEW p \in Procs, CopyEnds(p) PROVE MInv'
    BY <1>7, <1>9, <1>b DEF CopyEnds, MigPcs, MigRecords
<1>10. ASSUME NEW p \in Procs, migrateTemp(p) PROVE MInv'
  <2>1. CASE Returns(p)
    BY <1>4, <2>1
  <2>2. CASE ~Returns(p)
    <3>1. /\ temp # NoFile /\ temp' = [temp EXCEPT !.version = SchemaVersion]
          /\ Goes(p, "replace") /\ UNCHANGED backups /\ Quietly
      BY <1>10, <2>2 DEF migrateTemp
    <3>2. temp \in Files /\ FileOK(temp)
      BY <1>a, <3>1
    <3>3. temp' \in Files /\ FileOK(temp')
      BY <1>a, <3>1, <3>2 DEF Files, FileOK
    <3> QED
      BY <1>7, <3>1, <3>3 DEF MigPcs
  <2> QED
    BY <2>1, <2>2
<1>11. ASSUME NEW p \in Procs, StepFails(p) PROVE MInv'
  <2>1. faults' \in 0 .. MaxFaults
    BY <1>11, <1>a DEF StepFails
  <2>2. temp' = temp \/ temp' = NoFile
    BY <1>11 DEF StepFails
  <2>3. temp' \in Files \cup {NoFile} /\ (temp' # NoFile => FileOK(temp'))
    BY <1>a, <2>2
  <2> QED
    BY <1>3, <1>11, <2>1, <2>3, <1>a, <1>c DEF StepFails, Ends
<1>12. ASSUME NEW p \in Procs, atomicReplace(p) PROVE MInv'
  <2>1. CASE Returns(p)
    BY <1>4, <2>1
  <2>2. CASE ~Returns(p)
    <3>1. /\ At(p, "replace") /\ temp # NoFile /\ ~Open(p)
          /\ version' = temp.version /\ meta' = temp.meta /\ blob' = temp.blob
          /\ points' = temp.points /\ nextId' = temp.nextId /\ temp' = NoFile
          /\ Goes(p, "sidecars")
          /\ UNCHANGED <<backups, todo, recoveries, acked, interrupted,
                         lastInterrupted, acceptCut, overlapped, crossed>>
      BY <1>12, <2>2 DEF atomicReplace, histVars
    <3>2. temp \in Files /\ FileOK(temp)
      BY <1>a, <3>1
    <3> DEFINE m == [mig[p] EXCEPT !.pc = "sidecars"]
    <3>a. m \in MigRecords /\ m.backup = mig[p].backup
      BY <1>b DEF MigRecords, MigPcs
    <3>b. mig' = [mig EXCEPT ![p] = m]
      BY <3>1, <1>a DEF Goes, MigRecords
    <3> HIDE DEF m
    <3>3. op' \in [Procs -> Records] /\ op' = op /\ faults' = faults
      BY <1>a, <3>1 DEF Goes
    <3>4. StoreTypeOK' /\ version' \in Nat
      BY <3>1, <3>2, <3>3 DEF MInv, StoreIInv, StoreTypeOK, Records, Files
    <3>5. FileLoads'
      BY <3>1, <3>2 DEF FileLoads, FileOK, Saved
    <3>6. \A q \in Procs : op'[q].pc # "load"
      BY <3>1, <3>3, <1>a, <1>c DEF Open, At
    <3>7. LoadsSaved'
      BY <3>6 DEF LoadsSaved
    <3>8. MigrationTypeOK' /\ CopiesLoad'
      BY <1>a, <1>b, <3>1, <3>4, <3>a, <3>b, QuietFiles
    <3> QED
      BY <3>4, <3>5, <3>7, <3>8 DEF MInv, StoreIInv
  <2> QED
    BY <2>1, <2>2
<1>14. ASSUME NEW p \in Procs, RemoveSidecars(p) PROVE MInv'
    BY <1>4, <1>14 DEF RemoveSidecars
<1>13. CASE UNCHANGED migrationVars
  <2>1. UNCHANGED storeVars /\ UNCHANGED fileVars
    BY <1>13 DEF migrationVars, storeVars, fileVars
  <2>2. StoreIInv'
    BY <2>1, StoreNextIInv DEF MInv
  <2> QED
    BY <2>1, <2>2 DEF fileVars, MInv, MigrationTypeOK, CopiesLoad, FileOK
<1> QED
    BY <1>1, <1>2, <1>5, <1>6, <1>8, <1>9, <1>10, <1>11, <1>12, <1>13, <1>14 DEF Migrate

\* The invariant holds in every behaviour of the file and its processes.
THEOREM MigrationInvariance == MigrationSpec => []MInv
BY InitMInv, NextMInv, PTL DEF MigrationSpec

\* Also with migrations that swap in another file, wherever a process dies or
\* fails and however many there are, the show is well formed and loads.
THEOREM MigrationStoreCorrect == MigrationSpec => []StoreInvariant
<1>1. MInv => StoreInvariant
    BY DEF MInv, StoreIInv, StoreInvariant
<1> QED
    BY <1>1, MigrationInvariance, PTL

-----------------------------------------------------------------------------
(* What a step may change *)

\* A step of one process leaves the others where they are, and begins a call or
\* goes on with one.
LEMMA OnlyOwn ==
    ASSUME MInv, NEW p \in Procs, Uses(p) \/ Migrate(p)
    PROVE  /\ \A q \in Procs : q # p => op'[q] = op[q] /\ mig'[q] = mig[q]
           /\ Begins(p) \/ (op[p].pc # "idle" /\ overlapped' = overlapped)
<1>a. op \in [Procs -> Records] /\ mig \in [Procs -> MigRecords]
    BY DEF MInv, StoreIInv, StoreTypeOK, Records, MigrationTypeOK
<1> DEFINE Own == \A q \in Procs : q # p => op'[q] = op[q] /\ mig'[q] = mig[q]
           Going == Begins(p) \/ (op[p].pc # "idle" /\ overlapped' = overlapped)
<1>1. ASSUME NEW e \in Edits, LoadMeta(p, e), UNCHANGED fileVars PROVE Own /\ Going
    BY <1>1, <1>a DEF LoadMeta, fileVars
<1>2. CASE LoadBlob(p) /\ UNCHANGED fileVars
    BY <1>2, <1>a DEF LoadBlob, fileVars, histVars
<1>3. CASE (ReportMismatch(p) \/ Refuse(p) \/ StageRecoveryPoint(p)) /\ UNCHANGED fileVars
    BY <1>3, <1>a DEF ReportMismatch, Refuse, StageRecoveryPoint, fileVars, histVars
<1>4. CASE PromoteFails(p) /\ UNCHANGED fileVars
    BY <1>4, <1>a DEF PromoteFails, LeavesPoint, fileVars
<1>5. CASE Recovery(p) /\ UNCHANGED fileVars
  <2>1. mig' = mig
    BY <1>5 DEF fileVars
  <2>2. ASSUME NEW id, AcceptThreshold(p, id) PROVE Own /\ Going
    BY <2>1, <2>2, <1>a DEF AcceptThreshold
  <2>3. CASE AcceptRow(p)
    <3>1. op[p].pc # "idle" /\ overlapped' = overlapped
      BY <2>3 DEF AcceptRow, histVars
    <3>2. \A q \in Procs : q # p => op'[q] = op[q]
      BY <2>3, <1>a DEF AcceptRow
    <3> QED
      BY <2>1, <3>1, <3>2
  <2>4. CASE DiscardThreshold(p)
    BY <2>1, <2>4, <1>a DEF DiscardThreshold
  <2>5. CASE DiscardDelete(p)
    BY <2>1, <2>5, <1>a DEF DiscardDelete
  <2> QED
    BY <1>5, <2>2, <2>3, <2>4, <2>5 DEF Recovery
<1>6. CASE PromoteState(p) /\ UNCHANGED <<temp, backups, mig, crossed>>
    BY <1>6, <1>a DEF PromoteState
<1>7. CASE Crash(p) /\ mig' = [mig EXCEPT ![p] = NoMig]
    BY <1>7, <1>a DEF Crash, LeavesPoint, histVars
<1>8. CASE Uses(p)
    BY <1>1, <1>2, <1>3, <1>4, <1>5, <1>6, <1>7, <1>8 DEF Uses
<1>9. CASE runShowOpen(p)
    BY <1>9, <1>a DEF runShowOpen
<1>10. CASE migrationMeta(p) \/ verifiedBackup(p) \/ copyFile(p) \/ CopyEnds(p)
    BY <1>10, <1>a DEF migrationMeta, verifiedBackup, copyFile, CopyEnds, At, Goes, Ends,
                       Quietly, histVars
<1>11. CASE migrateTemp(p) \/ atomicReplace(p) \/ RemoveSidecars(p) \/ StepFails(p)
    BY <1>11, <1>a DEF migrateTemp, atomicReplace, RemoveSidecars, StepFails, Returns, At, Goes, Ends,
                       Quietly, histVars
<1> QED
    BY <1>8, <1>9, <1>10, <1>11 DEF Migrate

\* A command or a recovery call leaves the files of migrations alone and never
\* takes the show away; one that goes on to load a show has one edit to add.
LEMMA UsesEffect ==
    ASSUME MInv, NEW p \in Procs, Uses(p)
    PROVE  /\ op'[p].pc # "migrate"
           /\ op'[p].pc = "load" => \E e \in Edits : op'[p].edit = {e}
           /\ UNCHANGED <<temp, backups, crossed>>
           /\ mig'[p] = mig[p] \/ mig'[p] = NoMig
           /\ Saved => Saved'
<1>a. op \in [Procs -> Records] /\ mig \in [Procs -> MigRecords] /\ op[p].draft \in States
    BY DEF MInv, StoreIInv, StoreTypeOK, Records, MigrationTypeOK
<1>b. Idle.pc = "idle"
    BY DEF Idle
<1>1. UNCHANGED <<temp, backups, crossed>> /\ (mig'[p] = mig[p] \/ mig'[p] = NoMig)
    BY <1>a DEF Uses, fileVars
<1>2. ASSUME NEW e \in Edits, LoadMeta(p, e)
      PROVE  op'[p].pc # "migrate" /\ op'[p].edit = {e} /\ blob' = blob
    BY <1>2, <1>a DEF LoadMeta, Idle, diskVars
<1> DEFINE Elsewhere == op'[p].pc \notin {"migrate", "load"} /\ (Saved => Saved')
<1>3. CASE LoadBlob(p)
    BY <1>1, <1>3, <1>a DEF LoadBlob, Records, diskVars, Saved
<1>4. CASE ReportMismatch(p) \/ Refuse(p) \/ StageRecoveryPoint(p) \/ PromoteFails(p) \/ Crash(p)
    BY <1>1, <1>4, <1>a, <1>b DEF ReportMismatch, Refuse, StageRecoveryPoint, PromoteFails,
                                  Crash, Records, diskVars, Saved
<1>5. CASE PromoteState(p)
    BY <1>1, <1>5, <1>a, <1>b, NoBlobAssumption DEF PromoteState, Saved
<1>6. CASE Recovery(p)
  <2>1. ASSUME NEW id, AcceptThreshold(p, id) PROVE Elsewhere
    BY <2>1, <1>a DEF AcceptThreshold, Idle, diskVars, Saved
  <2>2. ASSUME AcceptRow(p) PROVE Elsewhere
    BY <2>2, <1>a, <1>b DEF AcceptRow, Records, diskVars, Saved
  <2>3. ASSUME DiscardThreshold(p) PROVE Elsewhere
    BY <2>3, <1>a DEF DiscardThreshold, Idle, diskVars, Saved
  <2>4. ASSUME DiscardDelete(p) PROVE Elsewhere
    BY <2>4, <1>a, <1>b DEF DiscardDelete, Saved
  <2> QED
    BY <1>1, <1>6, <2>1, <2>2, <2>3, <2>4 DEF Recovery
<1> QED
    BY <1>1, <1>2, <1>3, <1>4, <1>5, <1>6 DEF Uses, Saved

-----------------------------------------------------------------------------
\* a command that loads has one edit to add
LoadsOneEdit == \A p \in Procs : op[p].pc = "load" => \E e \in Edits : op[p].edit = {e}

\* Until two migrations cross, the one that runs works on a file that was
\* saved, and what it will swap in holds a show.
CrossInv ==
    ~crossed =>
        /\ \A p, q \in Procs : op[p].pc = "migrate" /\ op[q].pc = "migrate" => p = q
        /\ \A p \in Procs :
             op[p].pc = "migrate" =>
                /\ mig[p].pc \in {"meta", "backup"} => Saved
                /\ mig[p].pc \in {"create", "copy"} => mig[p].backup.blob # NoBlob
                /\ mig[p].pc \in {"transform", "replace"} =>
                        temp # NoFile /\ temp.blob # NoBlob

RInv == LoadsOneEdit /\ CrossInv

\* Every step keeps what the refinement rests on.
LEMMA NextRInv ==
    ASSUME MInv, RInv, NEW p \in Procs, Uses(p) \/ Migrate(p)
    PROVE  RInv'
<1>a. /\ op \in [Procs -> Records] /\ mig \in [Procs -> MigRecords] /\ mig[p] \in MigRecords
      /\ temp \in Files \cup {NoFile} /\ NoFile \notin Files
    BY MigrationAssumption DEF MInv, StoreIInv, StoreTypeOK, Records, MigrationTypeOK
<1>b. \A q \in Procs : q # p => op'[q] = op[q] /\ mig'[q] = mig[q]
    BY OnlyOwn
<1>c. Idle.pc = "idle"
    BY DEF Idle
<1>d. Migrate(p) => op'[p].pc \in {"idle", "migrate"} /\ (runShowOpen(p) \/ op[p].pc = "migrate")
    BY <1>a, <1>c DEF Migrate, runShowOpen, migrationMeta, verifiedBackup, copyFile, CopyEnds,
            migrateTemp, atomicReplace, RemoveSidecars, StepFails, Returns, At, Goes, Ends, Idle
<1>1. LoadsOneEdit'
    BY <1>b, <1>d, UsesEffect DEF RInv, LoadsOneEdit
<1>2. ASSUME ~crossed', Uses(p) PROVE CrossInv'
    BY <1>2, <1>b, UsesEffect DEF RInv, CrossInv
<1>3. ASSUME ~crossed', Migrate(p), ~runShowOpen(p)
      PROVE  /\ ~crossed /\ op[p].pc = "migrate"
             /\ \A q \in Procs : q # p => op[q].pc # "migrate"
  <2>1. ~crossed /\ op[p].pc = "migrate"
    BY <1>3, <1>d DEF Migrate, migrationMeta, verifiedBackup, copyFile, CopyEnds, migrateTemp,
            atomicReplace, RemoveSidecars, StepFails, Returns, Quietly
  <2> QED
    BY <2>1 DEF RInv, CrossInv
<1>4. ASSUME ~crossed', Migrate(p), ~runShowOpen(p),
             op'[p].pc = "migrate" =>
                /\ mig'[p].pc \in {"meta", "backup"} => Saved'
                /\ mig'[p].pc \in {"create", "copy"} => mig'[p].backup.blob # NoBlob
                /\ mig'[p].pc \in {"transform", "replace"} =>
                        temp' # NoFile /\ temp'.blob # NoBlob
      PROVE  CrossInv'
    BY <1>3, <1>4, <1>b DEF CrossInv
<1>5. ASSUME ~crossed', runShowOpen(p) PROVE CrossInv'
  <2>1. ~crossed /\ \A q \in Procs : op[q].pc # "migrate"
    BY <1>5 DEF runShowOpen
  <2>2. Saved' /\ mig'[p].pc = "meta"
    BY <1>5, <1>a DEF runShowOpen, Saved, diskVars, MigRecords
  <2> QED
    BY <1>b, <2>1, <2>2 DEF CrossInv
<1>6. Ends(p) => op'[p].pc = "idle"
    BY <1>a, <1>c DEF Ends
<1>7. ASSUME ~crossed', migrationMeta(p) PROVE CrossInv'
  <2>1. CASE Ends(p)
    BY <1>4, <1>6, <1>7, <2>1 DEF Migrate, migrationMeta, At, runShowOpen, Begins
  <2>2. CASE ~Ends(p)
    <3>1. mig'[p].pc = "backup" /\ blob' = blob
      BY <1>7, <2>2, <1>a DEF migrationMeta, Quietly, diskVars, MigRecords
    <3>2. ~runShowOpen(p) /\ Migrate(p) /\ At(p, "meta")
      BY <1>7 DEF Migrate, migrationMeta, At, runShowOpen, Begins
    <3>3. Saved'
      BY <1>3, <1>7, <3>1, <3>2 DEF At, RInv, CrossInv, Saved
    <3> QED
      BY <1>4, <1>7, <3>1, <3>2, <3>3
  <2> QED
    BY <2>1, <2>2
<1>8. ASSUME ~crossed', verifiedBackup(p) PROVE CrossInv'
  <2>1. ~runShowOpen(p) /\ Migrate(p) /\ At(p, "backup")
    BY <1>8 DEF Migrate, verifiedBackup, At, runShowOpen, Begins
  <2>2. mig'[p].pc = "create" /\ mig'[p].backup = Snapshot
    BY <1>8, <1>a DEF verifiedBackup, MigRecords
  <2>3. Saved
    BY <1>3, <1>8, <2>1 DEF At, RInv, CrossInv
  <2>4. mig'[p].backup.blob # NoBlob
    BY <2>2, <2>3 DEF Snapshot, Saved
  <2> QED
    BY <1>4, <1>8, <2>1, <2>2, <2>4
<1>9. ASSUME ~crossed', copyFile(p) PROVE CrossInv'
  <2>1. ~runShowOpen(p) /\ Migrate(p) /\ At(p, "create")
    BY <1>9 DEF Migrate, copyFile, At, runShowOpen, Begins
  <2>2. mig'[p].pc = "copy" /\ mig'[p].backup = mig[p].backup
    BY <1>9, <1>a DEF copyFile, Goes, MigRecords
  <2>3. mig[p].backup.blob # NoBlob
    BY <1>3, <1>9, <2>1 DEF At, RInv, CrossInv
  <2> QED
    BY <1>4, <1>9, <2>1, <2>2, <2>3
<1>10. ASSUME ~crossed', CopyEnds(p) PROVE CrossInv'
  <2>1. ~runShowOpen(p) /\ Migrate(p) /\ At(p, "copy")
    BY <1>10 DEF Migrate, CopyEnds, At, runShowOpen, Begins
  <2>2. mig'[p].pc = "transform" /\ temp' = mig[p].backup
    BY <1>10, <1>a DEF CopyEnds, Goes, MigRecords
  <2>3. mig[p].backup.blob # NoBlob
    BY <1>3, <1>10, <2>1 DEF At, RInv, CrossInv
  <2>4. temp' # NoFile
    BY <1>a, <2>2 DEF MigRecords
  <2> QED
    BY <1>4, <1>10, <2>1, <2>2, <2>3, <2>4
<1>11. ASSUME ~crossed', migrateTemp(p) PROVE CrossInv'
  <2>1. ~runShowOpen(p) /\ Migrate(p) /\ At(p, "transform")
    BY <1>11 DEF Migrate, migrateTemp, At, runShowOpen, Begins
  <2>2. CASE Returns(p)
    BY <1>4, <1>6, <1>11, <2>1, <2>2 DEF Returns
  <2>3. CASE ~Returns(p)
    <3>1. mig'[p].pc = "replace" /\ temp' = [temp EXCEPT !.version = SchemaVersion]
      BY <1>11, <2>3, <1>a DEF migrateTemp, Goes, MigRecords
    <3>2. temp # NoFile /\ temp.blob # NoBlob
      BY <1>3, <1>11, <2>1 DEF At, RInv, CrossInv
    <3>3. temp \in Files /\ temp' \in Files /\ temp'.blob = temp.blob
      BY <1>a, <3>1, <3>2, MigrationAssumption DEF Files
    <3> QED
      BY <1>4, <1>11, <1>a, <2>1, <3>1, <3>2, <3>3
  <2> QED
    BY <2>2, <2>3
<1>12. ASSUME ~crossed', atomicReplace(p) \/ RemoveSidecars(p) \/ StepFails(p) PROVE CrossInv'
  <2>1. ~runShowOpen(p) /\ Migrate(p) /\ (op'[p].pc = "idle" \/ mig'[p].pc = "sidecars")
    BY <1>6, <1>12, <1>a DEF Migrate, atomicReplace, RemoveSidecars, StepFails, Returns, At, Goes, runShowOpen, Begins,
                             MigRecords
  <2> QED
    BY <1>4, <1>12, <2>1
<1>13. CrossInv'
    BY <1>2, <1>5, <1>7, <1>8, <1>9, <1>10, <1>11, <1>12 DEF CrossInv, Migrate
<1> QED
    BY <1>1, <1>13 DEF RInv

\* Until two migrations cross, what one will swap in holds a show.
THEOREM RInvariance == MigrationSpec => []RInv
<1>1. MigrationInit => RInv
    BY DEF MigrationInit, StoreInit, RInv, LoadsOneEdit, CrossInv, Idle
<1>2. MInv /\ RInv /\ [\E p \in Procs : Uses(p) \/ Migrate(p)]_migrationVars => RInv'
  <2>1. ASSUME RInv, UNCHANGED migrationVars PROVE RInv'
    BY <2>1 DEF migrationVars, RInv, LoadsOneEdit, CrossInv, Saved
  <2> QED
    BY <2>1, NextRInv
<1> QED
    BY <1>1, <1>2, MigrationInvariance, PTL DEF MigrationSpec

-----------------------------------------------------------------------------
(* Readers see the register of ShowRegister *)

\* every State a file holds is in S
Within(f, S) == (f.blob # NoBlob => f.blob \in S) /\ \A r \in f.points : r.state \in S

\* What the drafts are made of.
LEMMA InDrafts ==
    /\ \A q \in Procs : op[q].pc \in {"stage", "promote"} => op[q].draft \in Drafts
    /\ \A r \in points : r.state \in Drafts
    /\ \A f \in KeptFiles : Within(f, Drafts)
    /\ backups \subseteq KeptFiles
    /\ temp # NoFile => temp \in KeptFiles
    /\ \A q \in Procs : mig[q].backup \in KeptFiles
<1>1. /\ backups \subseteq KeptFiles
      /\ temp # NoFile => temp \in KeptFiles
      /\ \A q \in Procs : mig[q].backup \in KeptFiles
    BY DEF KeptFiles
<1>2. \A q \in Procs : op[q].pc \in {"stage", "promote"} => op[q].draft \in Drafts
    BY DEF Drafts
<1>3. \A r \in points : r.state \in Drafts
    BY DEF Drafts
<1>4. \A f \in KeptFiles : Within(f, Drafts)
    BY DEF Drafts, Within
<1> QED
    BY <1>1, <1>2, <1>3, <1>4

\* The drafts after a step of p are within S when what the step adds is.
LEMMA DraftsGrow ==
    ASSUME NEW p \in Procs, NEW S, Drafts \subseteq S,
           \A q \in Procs : q # p => op'[q] = op[q] /\ mig'[q] = mig[q],
           op'[p].pc \in {"stage", "promote"} => op'[p].draft \in S,
           \A r \in points' : r.state \in S,
           \A f \in backups' : f \in backups \/ Within(f, S),
           temp' = temp \/ temp' = NoFile \/ Within(temp', S),
           mig'[p].backup = mig[p].backup \/ Within(mig'[p].backup, S)
    PROVE  Drafts' \subseteq S
<1>1. \A f \in KeptFiles : Within(f, S)
    BY InDrafts DEF Within
<1>2. \A f \in KeptFiles' : Within(f, S)
  <2>1. \A f \in backups' : Within(f, S)
    BY <1>1, InDrafts
  <2>2. temp' # NoFile => Within(temp', S)
    BY <1>1, InDrafts
  <2>3. \A q \in Procs : Within(mig'[q].backup, S)
    BY <1>1, InDrafts
  <2> QED
    BY <2>1, <2>2, <2>3 DEF KeptFiles
<1>3. \A q \in Procs : op'[q].pc \in {"stage", "promote"} => op'[q].draft \in S
    BY InDrafts
<1>4. \A s \in Drafts' : \/ \E q \in Procs : /\ op'[q].pc \in {"stage", "promote"}
                                             /\ s = op'[q].draft
                         \/ \E r \in points' : s = r.state
                         \/ \E f \in KeptFiles' : f.blob # NoBlob /\ s = f.blob
                         \/ \E f \in KeptFiles' : \E r \in f.points : s = r.state
    BY DEF Drafts
<1> QED
    BY <1>2, <1>3, <1>4 DEF Within

\* Every draft is a State.
LEMMA DraftsAreStates ==
    ASSUME MInv
    PROVE  Drafts \subseteq States
<1>1. KeptFiles \subseteq Files
    BY DEF MInv, MigrationTypeOK, KeptFiles, MigRecords
<1>2. \A q \in Procs : op[q].draft \in States
    BY DEF MInv, StoreIInv, StoreTypeOK
<1>3. \A r \in points : r.state \in States
    BY DEF MInv, StoreIInv, StoreTypeOK, Points
<1>4. \A f \in KeptFiles : (f.blob # NoBlob => f.blob \in States)
                           /\ \A r \in f.points : r.state \in States
    BY <1>1 DEF Files, Points
<1> QED
    BY <1>2, <1>3, <1>4 DEF Drafts

\* A step that drafts nothing new.
LEMMA Keeping ==
    ASSUME blob' = blob, crossed => crossed', Drafts' \subseteq Drafts \cup Register!Base
    PROVE  Register!Next
<1>1. PICK base : base \in Register!Base
    BY DEF Register!Base
<1>2. Drafts' \subseteq Drafts \cup Register!Base
                          \cup {[rev |-> base.rev + 1, val |-> base.val \cup {}]}
    OBVIOUS
<1>3. Register!Draft
    BY <1>1, <1>2 DEF Register!Draft
<1> QED
    BY <1>3 DEF Register!Next

\* A step that drafts one State.
LEMMA Drafting ==
    ASSUME blob' = blob, crossed => crossed', NEW base \in Drafts \cup Register!Base,
           NEW more \in {{}} \cup {{e} : e \in Edits},
           Drafts' \subseteq Drafts \cup {[rev |-> base.rev + 1, val |-> base.val \cup more]}
    PROVE  Register!Next
<1>1. Register!Draft
    BY DEF Register!Draft
<1> QED
    BY <1>1 DEF Register!Next

\* The drafts after a command or a recovery call.
LEMMA UsesDrafts ==
    ASSUME MInv, NEW p \in Procs, Uses(p), NEW S, Drafts \subseteq S,
           op'[p].pc \in {"stage", "promote"} => op'[p].draft \in S,
           \A r \in points' : r.state \in S
    PROVE  Drafts' \subseteq S
<1>1. mig'[p].backup = mig[p].backup \/ Within(mig'[p].backup, S)
    BY UsesEffect DEF NoMig, Torn, Within
<1>2. \A q \in Procs : q # p => op'[q] = op[q] /\ mig'[q] = mig[q]
    BY OnlyOwn
<1> QED
    BY <1>1, <1>2, UsesEffect, DraftsGrow

\* A command or a recovery call that drafts one State.
LEMMA UsesDraftsOne ==
    ASSUME MInv, NEW p \in Procs, Uses(p), blob' = blob, points' = points,
           NEW base \in Drafts \cup Register!Base,
           NEW more \in {{}} \cup {{e} : e \in Edits},
           op'[p].pc \in {"stage", "promote"} =>
               op'[p].draft = [rev |-> base.rev + 1, val |-> base.val \cup more]
    PROVE  Register!Next
<1> DEFINE new == [rev |-> base.rev + 1, val |-> base.val \cup more]
           S == Drafts \cup {new}
<1>1. Drafts \subseteq S /\ (op'[p].pc \in {"stage", "promote"} => op'[p].draft \in S)
    OBVIOUS
<1>2. \A r \in points' : r.state \in S
    BY InDrafts
<1> HIDE DEF S
<1>3. Drafts' \subseteq S
    BY <1>1, <1>2, UsesDrafts
<1>4. Drafts' \subseteq Drafts \cup {[rev |-> base.rev + 1, val |-> base.val \cup more]}
    BY <1>3 DEF S
<1>5. crossed => crossed'
    BY UsesEffect
<1> QED
    BY <1>4, <1>5, Drafting

\* A command or a recovery call is a step of the register.
LEMMA UsesRefines ==
    ASSUME MInv, RInv, NEW p \in Procs, Uses(p)
    PROVE  Register!Next
<1>a. /\ op \in [Procs -> Records] /\ op[p] \in Records /\ op[p].draft \in States
      /\ blob \in States \cup {NoBlob}
    BY DEF MInv, StoreIInv, StoreTypeOK, Records
<1>b. crossed' = crossed
    BY UsesEffect
<1>c. \A r \in points : r.state \in Drafts
    BY InDrafts
<1>d. Idle.pc = "idle"
    BY DEF Idle
<1>i. \A e \in Edits : {e} \in {{}} \cup {{x} : x \in Edits}
    OBVIOUS
<1>1. ASSUME NEW e \in Edits, LoadMeta(p, e) PROVE Register!Next
  <2>1. points' = points /\ blob' = blob
    BY <1>1 DEF LoadMeta, diskVars
  <2>2. CASE Saved
    <3>1. op'[p].pc = "load"
      BY <1>1, <2>2, <1>a DEF LoadMeta, Idle
    <3>2. Drafts' \subseteq Drafts
      BY <1>c, <2>1, <3>1, UsesDrafts
    <3> QED
      BY <1>b, <2>1, <3>2, Keeping
  <2>3. CASE ~Saved
    <3> DEFINE base == [rev |-> 0, val |-> {}]
    <3>1. op'[p].draft = [rev |-> 1, val |-> {e}]
      BY <1>1, <2>3, <1>a DEF LoadMeta, Idle
    <3>2. op'[p].draft = [rev |-> base.rev + 1, val |-> base.val \cup {e}]
      BY <3>1
    <3>3. base \in Register!Base
      BY <2>3 DEF Register!Base, Saved
    <3> HIDE DEF base
    <3> QED
      BY <1>i, <2>1, <3>2, <3>3, UsesDraftsOne
  <2> QED
    BY <2>2, <2>3
<1>2. CASE LoadBlob(p)
  <2>1. points' = points /\ blob' = blob
    BY <1>2 DEF LoadBlob, diskVars
  <2>2. blob \in States /\ blob \in Register!Base
    BY <1>2, <1>a DEF LoadBlob, MInv, StoreIInv, LoadsSaved, Register!Base
  <2>3. PICK e \in Edits : op[p].edit = {e}
    BY <1>2 DEF LoadBlob, RInv, LoadsOneEdit
  <2> DEFINE new == [rev |-> blob.rev + 1, val |-> blob.val \cup {e}]
  <2>4. Bumped([blob EXCEPT !.val = @ \cup op[p].edit]) = new
    <3> DEFINE edited == [blob EXCEPT !.val = @ \cup op[p].edit]
    <3>1. blob = [rev |-> blob.rev, val |-> blob.val]
      BY <2>2 DEF States
    <3>2. edited = [rev |-> blob.rev, val |-> blob.val \cup {e}]
      BY <2>3, <3>1
    <3> HIDE DEF edited
    <3>3. Bumped(edited) = new
      BY <3>2 DEF Bumped
    <3> QED
      BY <3>3 DEF edited
  <2>5. op'[p].pc \in {"stage", "promote"} => op'[p].draft = new
    BY <1>2, <1>a, <2>4 DEF LoadBlob, Records
  <2> QED
    BY <1>i, <2>1, <2>2, <2>5, UsesDraftsOne
<1>3. ASSUME op'[p].pc = "idle", points' \subseteq points, blob' = blob PROVE Register!Next
  <2>1. Drafts' \subseteq Drafts
    BY <1>3, <1>c, UsesDrafts
  <2> QED
    BY <1>3, <1>b, <2>1, Keeping
<1>4. CASE ReportMismatch(p) \/ Refuse(p) \/ PromoteFails(p) \/ Crash(p)
    BY <1>3, <1>4, <1>a, <1>d DEF ReportMismatch, Refuse, PromoteFails, Crash, diskVars
<1>5. CASE StageRecoveryPoint(p)
  <2>1. op[p].draft \in Drafts
    BY <1>5, InDrafts DEF StageRecoveryPoint
  <2>2. \A r \in points' : r \in points \/ r = [id |-> nextId, state |-> op[p].draft]
    BY <1>5, PruneShrinks DEF StageRecoveryPoint
  <2>3. op'[p].draft = op[p].draft
    BY <1>5, <1>a DEF StageRecoveryPoint, Records
  <2>4. Drafts' \subseteq Drafts
    BY <1>c, <2>1, <2>2, <2>3, UsesDrafts
  <2> QED
    BY <1>5, <1>b, <2>4, Keeping DEF StageRecoveryPoint
<1>6. CASE PromoteState(p)
  <2>1. op[p].draft \in Drafts /\ blob' = op[p].draft /\ points' = points /\ op'[p].pc = "idle"
    BY <1>6, <1>a, <1>d, InDrafts DEF PromoteState
  <2>2. Drafts' \subseteq Drafts
    BY <1>c, <2>1, UsesDrafts
  <2> QED
    BY <1>b, <2>1, <2>2 DEF Register!Next, Register!Commit
<1>7. CASE Recovery(p)
  <2>1. ASSUME NEW id, AcceptThreshold(p, id) PROVE Register!Next
    <3>1. op'[p].pc = "accept" /\ points' = points /\ blob' = blob
      BY <2>1, <1>a DEF AcceptThreshold, Idle, diskVars
    <3>2. Drafts' \subseteq Drafts
      BY <1>c, <3>1, UsesDrafts
    <3> QED
      BY <1>b, <3>1, <3>2, Keeping
  <2>2. CASE DiscardThreshold(p)
    <3>1. op'[p].pc = "discard" /\ points' = points /\ blob' = blob
      BY <2>2, <1>a DEF DiscardThreshold, Idle, diskVars
    <3>2. Drafts' \subseteq Drafts
      BY <1>c, <3>1, UsesDrafts
    <3> QED
      BY <1>b, <3>1, <3>2, Keeping
  <2>3. CASE DiscardDelete(p)
    BY <1>3, <2>3, <1>a, <1>d DEF DiscardDelete
  <2>4. CASE AcceptRow(p)
    <3>1. points' = points /\ blob' = blob
      BY <2>4 DEF AcceptRow, diskVars
    <3>2. CASE op' = [op EXCEPT ![p] = Idle]
      BY <1>3, <1>a, <1>d, <3>1, <3>2
    <3>3. ASSUME NEW r \in points,
                 op' = [op EXCEPT ![p].pc = "stage", ![p].draft = Bumped(r.state)]
          PROVE  Register!Next
      <4> DEFINE base == r.state
                 new == [rev |-> base.rev + 1, val |-> base.val \cup {}]
      <4>1. base \in Drafts /\ base \in States
        BY <1>c, DraftsAreStates
      <4>2. Bumped(r.state) = new
        BY <4>1 DEF States, Bumped
      <4>3. op'[p].draft = new
        BY <1>a, <3>3, <4>2 DEF Records
      <4> QED
        BY <3>1, <4>1, <4>3, UsesDraftsOne
    <3> QED
      BY <2>4, <3>2, <3>3 DEF AcceptRow, OfferedAbove
  <2> QED
    BY <1>7, <2>1, <2>2, <2>3, <2>4 DEF Recovery
<1> QED
    BY <1>1, <1>2, <1>4, <1>5, <1>6, <1>7 DEF Uses

\* A step of a migration is a step of the register: it keeps States, brings up
\* one that was kept or, where two migrations crossed, loses the show.
LEMMA MigrateRefines ==
    ASSUME MInv, RInv, NEW p \in Procs, Migrate(p)
    PROVE  Register!Next
<1>a. /\ op \in [Procs -> Records] /\ mig \in [Procs -> MigRecords] /\ mig[p] \in MigRecords
      /\ temp \in Files \cup {NoFile} /\ blob \in States \cup {NoBlob}
    BY DEF MInv, StoreIInv, StoreTypeOK, Records, MigrationTypeOK
<1>b. \A q \in Procs : q # p => op'[q] = op[q] /\ mig'[q] = mig[q]
    BY OnlyOwn
<1>c. Idle.pc = "idle" /\ [Idle EXCEPT !.pc = "migrate"].pc = "migrate"
    BY DEF Idle
<1> DEFINE S == Drafts \cup Register!Base
<1>d. Drafts \subseteq S
    OBVIOUS
<1>e. op'[p].pc \notin {"stage", "promote"}
    BY <1>a, <1>c DEF Migrate, runShowOpen, migrationMeta, verifiedBackup, copyFile, CopyEnds,
            migrateTemp, atomicReplace, RemoveSidecars, StepFails, Returns, At, Goes, Ends
<1>f. \A f \in KeptFiles : Within(f, Drafts) /\ Within(f, S)
    BY InDrafts DEF Within
<1>g. Within(Torn, S) /\ Within(NoMig.backup, S) /\ Within(NoMig.backup, Drafts)
    BY DEF Within, Torn, NoMig
<1>h. \A r \in points : r.state \in Drafts
    BY InDrafts
<1> HIDE DEF S
<1>1. ASSUME blob' = blob, points' = points, crossed => crossed',
             \A f \in backups' : f \in backups \/ Within(f, S),
             temp' = temp \/ temp' = NoFile \/ Within(temp', S),
             mig'[p].backup = mig[p].backup \/ Within(mig'[p].backup, S)
      PROVE  Register!Next
  <2>1. \A r \in points' : r.state \in S
    BY <1>1, <1>h DEF S
  <2>2. Drafts' \subseteq S
    BY <1>1, <1>b, <1>d, <1>e, <2>1, DraftsGrow
  <2> QED
    BY <1>1, <2>2, Keeping DEF S
<1>2. Quietly => blob' = blob /\ points' = points /\ crossed' = crossed
    BY DEF Quietly, diskVars
<1>3. \A pc : Goes(p, pc) => mig'[p].backup = mig[p].backup
    BY <1>a DEF Goes, MigRecords
<1>4. Ends(p) => mig'[p] = NoMig
    BY <1>a DEF Ends
<1>5. CASE runShowOpen(p)
  <2>1. crossed => crossed'
    BY <1>5, Zenon DEF runShowOpen
  <2>2. blob' = blob /\ points' = points /\ temp' = temp /\ backups' = backups
    BY <1>5 DEF runShowOpen, diskVars
  <2>3. mig'[p].backup = mig[p].backup
    BY <1>5, <1>a DEF runShowOpen, MigRecords
  <2> QED
    BY <1>1, <2>1, <2>2, <2>3
<1>6. CASE migrationMeta(p)
  <2>1. mig'[p].backup = mig[p].backup \/ Within(mig'[p].backup, S)
    BY <1>4, <1>6, <1>a, <1>g DEF migrationMeta, MigRecords
  <2> QED
    BY <1>1, <1>2, <1>6, <2>1 DEF migrationMeta
<1>7. CASE verifiedBackup(p)
  <2>1. Within(Snapshot, S)
    BY <1>h DEF Within, Snapshot, S, Register!Base
  <2>2. mig'[p].backup = Snapshot
    BY <1>7, <1>a DEF verifiedBackup, MigRecords
  <2> QED
    BY <1>1, <1>2, <1>7, <2>1, <2>2 DEF verifiedBackup
<1>8. CASE copyFile(p)
    BY <1>1, <1>2, <1>3, <1>8, <1>g DEF copyFile
<1>9. CASE CopyEnds(p)
  <2>1. Within(mig[p].backup, S)
    BY <1>f, InDrafts
  <2> QED
    BY <1>1, <1>2, <1>3, <1>9, <2>1 DEF CopyEnds
<1>10. CASE Returns(p)
    BY <1>1, <1>2, <1>4, <1>10, <1>g DEF Returns
<1>11. CASE migrateTemp(p)
  <2>1. ASSUME ~Returns(p) PROVE Register!Next
    <3>1. /\ temp # NoFile /\ temp' = [temp EXCEPT !.version = SchemaVersion]
          /\ Goes(p, "replace") /\ backups' = backups /\ Quietly
      BY <1>11, <2>1 DEF migrateTemp
    <3>2. temp \in Files /\ Within(temp, S)
      BY <1>a, <1>f, <3>1, InDrafts
    <3>3. Within(temp', S)
      BY <3>1, <3>2 DEF Files, Within
    <3> QED
      BY <1>1, <1>2, <1>3, <3>1, <3>3
  <2> QED
    BY <1>10, <2>1
<1>12. CASE StepFails(p)
  <2>1. temp' = temp \/ temp' = NoFile
    BY <1>12 DEF StepFails
  <2> QED
    BY <1>1, <1>2, <1>4, <1>12, <1>g, <2>1 DEF StepFails
<1>13. CASE atomicReplace(p)
  <2>1. ASSUME ~Returns(p) PROVE Register!Next
    <3>1. /\ At(p, "replace") /\ temp # NoFile /\ blob' = temp.blob /\ points' = temp.points
          /\ temp' = NoFile /\ Goes(p, "sidecars") /\ backups' = backups /\ crossed' = crossed
      BY <1>13, <2>1 DEF atomicReplace
    <3>2. Within(temp, Drafts)
      BY <1>f, <3>1, InDrafts
    <3>3. Drafts' \subseteq Drafts
      <4>1. \A r \in points' : r.state \in Drafts
        BY <3>1, <3>2 DEF Within
      <4> QED
        BY <1>3, <1>b, <1>e, <1>g, <3>1, <4>1, DraftsGrow
    <3>4. CASE temp.blob # NoBlob
      <4>1. blob' \in Drafts
        BY <3>1, <3>2, <3>4 DEF Within
      <4> QED
        BY <3>1, <3>3, <4>1 DEF Register!Next, Register!Commit
    <3>5. CASE temp.blob = NoBlob
      <4>1. crossed
        BY <3>1, <3>5 DEF At, RInv, CrossInv
      <4> QED
        BY <3>1, <3>3, <3>5, <4>1 DEF Register!Next, Register!Lose
    <3> QED
      BY <3>4, <3>5
  <2> QED
    BY <1>10, <2>1
<1> QED
    BY <1>5, <1>6, <1>7, <1>8, <1>9, <1>10, <1>11, <1>12, <1>13 DEF Migrate, RemoveSidecars

\* However many processes save, recover, migrate and crash at once, readers of
\* the file see the register that ShowRegister specifies.
THEOREM RefinesRegister == MigrationSpec => IsARegister
<1>1. MigrationInit => Register!Init
  <2> SUFFICES ASSUME MigrationInit PROVE Register!Init
    OBVIOUS
  <2>1. MInv
    BY InitMInv
  <2>2. blob \in States \cup {NoBlob} /\ Drafts \subseteq States /\ crossed = FALSE
    BY <2>1, DraftsAreStates DEF MigrationInit, MInv, StoreIInv, StoreTypeOK
  <2> QED
    BY <2>2 DEF Register!Init, Register!States, States
<1>2. MInv /\ RInv /\ [\E p \in Procs : Uses(p) \/ Migrate(p)]_migrationVars
        => [Register!Next]_<<blob, Drafts, crossed>>
  <2>1. ASSUME UNCHANGED migrationVars PROVE UNCHANGED <<blob, Drafts, crossed>>
    BY <2>1 DEF migrationVars, Drafts, KeptFiles
  <2> QED
    BY <2>1, UsesRefines, MigrateRefines
<1> QED
    BY <1>1, <1>2, MigrationInvariance, RInvariance, PTL
       DEF MigrationSpec, IsARegister, Register!Spec

-----------------------------------------------------------------------------
\* calls that do not overlap: one process at a time
OneAtATime ==
    ~overlapped => /\ ~crossed
                   /\ \A p, q \in Procs : op[p].pc # "idle" /\ op[q].pc # "idle" => p = q

\* a migration that nothing overlaps: its backup is the show, and so is its
\* copy but for the version
SoloMigration ==
    ~overlapped =>
        \A p \in Procs :
            op[p].pc = "migrate" =>
                /\ mig[p].pc \in {"create", "copy", "transform", "replace"}
                        => mig[p].backup = Snapshot /\ Snapshot \in backups
                /\ mig[p].pc = "transform" => temp = Snapshot
                /\ mig[p].pc = "replace"
                        => temp = [Snapshot EXCEPT !.version = SchemaVersion]

KInv == OneAtATime /\ SoloMigration

\* Where no call overlaps another, the process that takes a step is alone.
LEMMA Alone ==
    ASSUME MInv, OneAtATime, NEW p \in Procs, Uses(p) \/ Migrate(p), ~overlapped'
    PROVE  /\ ~overlapped /\ ~crossed
           /\ \A q \in Procs : q # p => /\ op[q].pc = "idle" /\ op'[q] = op[q]
                                        /\ mig'[q] = mig[q]
<1>1. CASE Begins(p)
    BY <1>1, OnlyOwn, Zenon DEF Begins, OneAtATime
<1>2. CASE op[p].pc # "idle" /\ overlapped' = overlapped
    BY <1>2, OnlyOwn DEF OneAtATime
<1> QED
    BY <1>1, <1>2, OnlyOwn

\* Every step keeps calls that do not overlap apart.
LEMMA NextOneAtATime ==
    ASSUME MInv, OneAtATime, NEW p \in Procs, Uses(p) \/ Migrate(p)
    PROVE  OneAtATime'
<1> SUFFICES ASSUME ~overlapped' PROVE OneAtATime'
    BY DEF OneAtATime
<1>1. ~crossed /\ \A q \in Procs : q # p => op[q].pc = "idle" /\ op'[q] = op[q]
    BY Alone
<1>2. crossed' = crossed \/ (runShowOpen(p) /\ crossed' = (\E q \in Procs : op[q].pc = "migrate"))
  <2>1. CASE Uses(p)
    BY <2>1 DEF Uses, fileVars
  <2>2. CASE runShowOpen(p)
    BY <2>2, <1>1, Zenon DEF runShowOpen
  <2>3. CASE Migrate(p) /\ ~runShowOpen(p)
    BY <2>3 DEF Migrate, migrationMeta, verifiedBackup, copyFile, CopyEnds, migrateTemp,
                atomicReplace, RemoveSidecars, StepFails, Returns, Quietly
  <2> QED
    BY <2>1, <2>2, <2>3
<1>3. runShowOpen(p) => ~\E q \in Procs : op[q].pc = "migrate"
    BY <1>1 DEF runShowOpen, Begins
<1>4. ~crossed'
    BY <1>1, <1>2, <1>3
<1> QED
    BY <1>1, <1>4 DEF OneAtATime

\* A migration that nothing overlaps works on copies of the show.
LEMMA NextSoloMigration ==
    ASSUME MInv, KInv, NEW p \in Procs, Uses(p) \/ Migrate(p)
    PROVE  SoloMigration'
<1> SUFFICES ASSUME ~overlapped', op'[p].pc = "migrate"
             PROVE  /\ mig'[p].pc \in {"create", "copy", "transform", "replace"}
                         => mig'[p].backup = Snapshot' /\ Snapshot' \in backups'
                    /\ mig'[p].pc = "transform" => temp' = Snapshot'
                    /\ mig'[p].pc = "replace"
                         => temp' = [Snapshot' EXCEPT !.version = SchemaVersion]
  <2>1. ASSUME NEW q \in Procs, ~overlapped', q # p PROVE op'[q].pc # "migrate"
    BY <2>1, Alone DEF KInv
  <2> QED
    BY <2>1 DEF SoloMigration
<1>a. /\ op \in [Procs -> Records] /\ mig \in [Procs -> MigRecords] /\ mig[p] \in MigRecords
      /\ temp \in Files \cup {NoFile}
    BY DEF MInv, StoreIInv, StoreTypeOK, Records, MigrationTypeOK
<1>b. ~overlapped
    BY Alone DEF KInv
<1>c. Idle.pc = "idle"
    BY DEF Idle
<1>d. Snapshot \in Files
    BY SnapshotIsFile DEF MInv, MigrationTypeOK
<1>1. CASE Uses(p)
    BY <1>1, UsesEffect
<1>2. CASE runShowOpen(p)
    BY <1>2, <1>a DEF runShowOpen, MigRecords
<1>3. ASSUME Ends(p) PROVE FALSE
    BY <1>3, <1>a, <1>c DEF Ends
<1>4. ASSUME Quietly PROVE Snapshot' = Snapshot
    BY <1>4 DEF Quietly, Snapshot, diskVars
<1>5. CASE migrationMeta(p)
    BY <1>3, <1>5, <1>a DEF migrationMeta, MigRecords
<1>6. CASE verifiedBackup(p)
    BY <1>4, <1>6, <1>a DEF verifiedBackup, MigRecords
<1>7. CASE copyFile(p)
  <2>1. mig'[p].pc = "copy" /\ mig'[p].backup = mig[p].backup
    BY <1>7, <1>a DEF copyFile, Goes, MigRecords
  <2>2. op[p].pc = "migrate" /\ mig[p].pc = "create" /\ backups' = backups /\ Quietly
    BY <1>7 DEF copyFile, At
  <2> QED
    BY <1>4, <1>b, <2>1, <2>2 DEF KInv, SoloMigration
<1>8. CASE CopyEnds(p)
  <2>1. mig'[p].pc = "transform" /\ mig'[p].backup = mig[p].backup /\ temp' = mig[p].backup
    BY <1>8, <1>a DEF CopyEnds, Goes, MigRecords
  <2>2. op[p].pc = "migrate" /\ mig[p].pc = "copy" /\ backups' = backups /\ Quietly
    BY <1>8 DEF CopyEnds, At
  <2> QED
    BY <1>4, <1>b, <2>1, <2>2 DEF KInv, SoloMigration
<1>9. CASE migrateTemp(p)
  <2>1. /\ At(p, "transform") /\ temp' = [temp EXCEPT !.version = SchemaVersion]
        /\ Goes(p, "replace") /\ backups' = backups /\ Quietly
    BY <1>3, <1>9 DEF migrateTemp, Returns
  <2>2. mig'[p].pc = "replace" /\ mig'[p].backup = mig[p].backup
    BY <1>a, <2>1 DEF Goes, MigRecords
  <2>3. temp = Snapshot /\ mig[p].backup = Snapshot /\ Snapshot \in backups
    BY <1>b, <2>1 DEF At, KInv, SoloMigration
  <2> QED
    BY <1>4, <2>1, <2>2, <2>3
<1>10. CASE atomicReplace(p) \/ RemoveSidecars(p) \/ StepFails(p)
    BY <1>3, <1>10, <1>a DEF atomicReplace, RemoveSidecars, StepFails, Returns, Goes, MigRecords
<1> QED
    BY <1>1, <1>2, <1>5, <1>6, <1>7, <1>8, <1>9, <1>10 DEF Migrate

\* The invariant of calls that do not overlap holds throughout.
THEOREM SoloInvariance == MigrationSpec => []KInv
<1>1. MigrationInit => KInv
    BY DEF MigrationInit, StoreInit, KInv, OneAtATime, SoloMigration, Idle
<1>2. MInv /\ KInv /\ [\E p \in Procs : Uses(p) \/ Migrate(p)]_migrationVars => KInv'
  <2>1. ASSUME MInv, KInv, NEW p \in Procs, Uses(p) \/ Migrate(p) PROVE KInv'
    BY <2>1, NextOneAtATime, NextSoloMigration DEF KInv
  <2>2. ASSUME KInv, UNCHANGED migrationVars PROVE KInv'
    BY <2>2 DEF migrationVars, KInv, OneAtATime, SoloMigration, Snapshot
  <2> QED
    BY <2>1, <2>2
<1> QED
    BY <1>1, <1>2, MigrationInvariance, PTL DEF MigrationSpec

\* Whoever swaps in the file of a migration that nothing overlapped leaves the
\* show as it was, in this build's schema.
LEMMA ReplaceKeepsShow ==
    ASSUME MInv, KInv, NEW p \in Procs, atomicReplace(p), ~overlapped
    PROVE  /\ version' = SchemaVersion
           /\ <<meta, blob, points, nextId>>' = <<meta, blob, points, nextId>>
           /\ Snapshot \in backups
<1>1. op[p].pc = "migrate" /\ mig[p].pc = "replace"
    BY DEF atomicReplace, At
<1>2. temp = [Snapshot EXCEPT !.version = SchemaVersion] /\ Snapshot \in backups
    BY <1>1 DEF KInv, SoloMigration
<1>3. Snapshot \in Files
    BY SnapshotIsFile DEF MInv, MigrationTypeOK
<1>4. temp \in Files
    BY <1>2, <1>3, MigrationAssumption DEF Files
<1>5. temp # NoFile
    BY <1>4, MigrationAssumption
<1>6. \A q \in Procs : q # p => op[q].pc = "idle"
    BY <1>1 DEF KInv, OneAtATime
<1>7. ~Open(p)
    BY <1>6 DEF Open, At
<1>8. /\ version' = temp.version /\ meta' = temp.meta /\ blob' = temp.blob
      /\ points' = temp.points /\ nextId' = temp.nextId
    BY <1>5, <1>7 DEF atomicReplace
<1>9. /\ temp.version = SchemaVersion /\ temp.meta = meta /\ temp.blob = blob
      /\ temp.points = points /\ temp.nextId = nextId
    BY <1>2 DEF Snapshot
<1> QED
    BY <1>2, <1>8, <1>9

\* A migration that nothing overlapped swaps in the show it found, points and
\* revision included, with a verified backup of it on disk.
THEOREM MigrationKeepsTheShow == MigrationSpec => MigrationKeepsShow
<1> DEFINE Keeps == ~overlapped /\ (\E p \in Procs : At(p, "replace") /\ mig'[p].pc = "sidecars")
                       => /\ version' = SchemaVersion
                          /\ <<meta, blob, points, nextId>>' = <<meta, blob, points, nextId>>
                          /\ Snapshot \in backups
<1>1. MInv /\ KInv /\ [\E p \in Procs : Uses(p) \/ Migrate(p)]_migrationVars
        => [Keeps]_migrationVars
  <2> SUFFICES ASSUME MInv, KInv, [\E p \in Procs : Uses(p) \/ Migrate(p)]_migrationVars,
                      ~overlapped, NEW p \in Procs, At(p, "replace"), mig'[p].pc = "sidecars"
               PROVE  /\ version' = SchemaVersion
                      /\ <<meta, blob, points, nextId>>' = <<meta, blob, points, nextId>>
                      /\ Snapshot \in backups
    OBVIOUS
  <2>a. /\ op[p].pc = "migrate" /\ mig[p].pc = "replace" /\ mig'[p].pc = "sidecars"
        /\ mig' # mig /\ NoMig.pc # "sidecars" /\ mig \in [Procs -> MigRecords]
    BY DEF At, NoMig, MInv, MigrationTypeOK
  <2>1. PICK q \in Procs : Uses(q) \/ Migrate(q)
    BY <2>a DEF migrationVars
  <2>2. q = p
    BY <2>1, <2>a, OnlyOwn
  <2>3. ~Uses(p)
    <3>1. CASE UNCHANGED mig
      BY <3>1, <2>a
    <3>2. CASE mig' = [mig EXCEPT ![p] = NoMig]
      <4>1. mig'[p] = NoMig
        BY <3>2, <2>a
      <4> QED
        BY <4>1, <2>a
    <3> QED
      BY <3>1, <3>2 DEF Uses, fileVars
  <2>4. atomicReplace(p)
    BY <2>1, <2>2, <2>3, <2>a DEF Migrate, runShowOpen, Begins, migrationMeta, verifiedBackup,
                copyFile, CopyEnds, migrateTemp, RemoveSidecars, StepFails, Ends, At
  <2> QED
    BY <2>4, ReplaceKeepsShow
<1> QED
    BY <1>1, MigrationInvariance, SoloInvariance, PTL DEF MigrationSpec, MigrationKeepsShow

-----------------------------------------------------------------------------
Saving(p) == op[p].pc \in {"stage", "promote"}
OwnPoint(p) == [id |-> op[p].id, state |-> op[p].draft]

\* the row belongs to a Save between its two transactions
InPromote(r) == \E p \in Procs : op[p].pc = "promote" /\ r = OwnPoint(p)

\* what the one process at work has read is still so
FreshReads ==
    /\ \A r \in points : r.id < nextId
    /\ \A p \in Procs :
         /\ op[p].pc = "load" => op[p].sum = blob
         /\ op[p].pc # "mismatch"
         /\ op[p].pc \in {"accept", "discard"} => op[p].rev = CurrentRevision
         /\ op[p].pc = "accept" => op[p].edit = {}
         /\ Saving(p) => op[p].draft.rev > CurrentRevision
         /\ op[p].pc = "promote" => op[p].id + 1 = nextId /\ OwnPoint(p) \in points

\* a row ahead of the show is that of an interrupted Save or of the one at work
AheadIsInterrupted ==
    \A r \in points :
        r.state.rev > CurrentRevision => r.id \in interrupted \/ InPromote(r)

\* the row of the last interrupted Save is ahead of the show, and the newest
\* or the newest but one: the prune keeps it
LastIsKept ==
    lastInterrupted # 0 =>
        /\ \E r \in points : r.id = lastInterrupted /\ r.state.rev > CurrentRevision
        /\ \/ lastInterrupted + 1 = nextId
           \/ lastInterrupted + 2 = nextId /\ \E p \in Procs : op[p].pc = "promote"

\* Whatever is ahead of the show holds every committed edit, and is one
\* revision ahead but for the row of a Save at work.
CommittedAhead ==
    /\ IF Saved THEN acked \subseteq blob.val ELSE acked = {}
    /\ \A r \in points :
         r.state.rev > CurrentRevision =>
            /\ acked \subseteq r.state.val
            /\ InPromote(r) \/ (r.state.rev = CurrentRevision + 1 /\ lastInterrupted # 0)
    /\ \A p \in Procs :
         Saving(p) =>
            /\ acked \cup op[p].edit \subseteq op[p].draft.val
            /\ op[p].edit # {} => op[p].draft.rev = CurrentRevision + 1

Solo == FreshReads /\ AheadIsInterrupted /\ LastIsKept
SoloInv ==
    /\ ~overlapped => Solo
    /\ ~overlapped /\ ~acceptCut => CommittedAhead

-----------------------------------------------------------------------------
\* A row that fewer than KeepPoints rows are newer than survives the prune: the
\* new one, and the one before it.
LEMMA PruneKeepsNewest ==
    ASSUME NEW row, NEW rows, NEW n \in Nat, row.id = n,
           \A r \in rows : r.id \in Nat /\ r.id < n
    PROVE  /\ row \in Prune(rows \cup {row})
           /\ \A r \in rows : r.id + 1 = n => r \in Prune(rows \cup {row})
<1> DEFINE all == rows \cup {row}
<1>1. {q \in all : q.id > row.id} = {}
    OBVIOUS
<1>2. Cardinality({q \in all : q.id > row.id}) < KeepPoints
    BY <1>1, FS_EmptySet, StoreAssumption
<1>3. ASSUME NEW r \in rows, r.id + 1 = n
      PROVE  Cardinality({q \in all : q.id > r.id}) < KeepPoints
  <2>1. {q \in all : q.id > r.id} = {row}
    BY <1>3
  <2>2. Cardinality({row}) = 1
    BY FS_Singleton
  <2> QED
    BY <2>1, <2>2, StoreAssumption
<1> QED
    BY <1>2, <1>3 DEF Prune

\* What a step of a process that is alone starts from.
LEMMA SoloContext ==
    ASSUME MInv, KInv, SoloInv, NEW p \in Procs, Uses(p) \/ Migrate(p), ~overlapped'
    PROVE  /\ op \in [Procs -> Records] /\ op[p] \in Records
           /\ op[p].draft \in States /\ op[p].draft.rev \in Nat
           /\ \A r \in points : r \in Points /\ r.id \in Nat \ {0}
                                /\ r.state \in States /\ r.state.rev \in Nat
           /\ nextId \in Nat /\ CurrentRevision \in Nat /\ lastInterrupted \in Nat
           /\ Solo /\ (~acceptCut => CommittedAhead)
           /\ \A q \in Procs : q # p => op[q].pc = "idle" /\ op'[q] = op[q]
           /\ \A r : InPromote(r) <=> op[p].pc = "promote" /\ r = OwnPoint(p)
<1>1. \A q \in Procs : q # p => op[q].pc = "idle" /\ op'[q] = op[q]
    BY Alone DEF KInv
<1>2. Solo /\ (~acceptCut => CommittedAhead)
    BY Alone DEF KInv, SoloInv
<1>3. op \in [Procs -> Records] /\ op[p] \in Records /\ op[p].draft \in States
      /\ op[p].draft.rev \in Nat
    BY DEF MInv, StoreIInv, StoreTypeOK, Records, States
<1>4. \A r \in points : r \in Points /\ r.id \in Nat \ {0}
                        /\ r.state \in States /\ r.state.rev \in Nat
    BY DEF MInv, StoreIInv, StoreTypeOK, Points, States
<1>5. nextId \in Nat /\ CurrentRevision \in Nat /\ lastInterrupted \in Nat
    BY RevisionIsNat DEF MInv, StoreIInv, StoreTypeOK
<1>6. \A r : InPromote(r) <=> op[p].pc = "promote" /\ r = OwnPoint(p)
    BY <1>1 DEF InPromote
<1> QED
    BY <1>1, <1>2, <1>3, <1>4, <1>5, <1>6

\* A step after which nothing is being saved, and no row is newly ahead.
LEMMA SoloRest ==
    ASSUME MInv, KInv, SoloInv, NEW p \in Procs, Uses(p) \/ Migrate(p), ~overlapped',
           op[p].pc # "promote",
           op'[p].pc \in {"idle", "migrate", "load", "accept", "discard"},
           op'[p].pc = "load" => op'[p].sum = blob,
           op'[p].pc \in {"accept", "discard"} => op'[p].rev = CurrentRevision,
           op'[p].pc = "accept" => op'[p].edit = {},
           UNCHANGED <<meta, blob, nextId, acked, interrupted, acceptCut>>,
           \/ points' = points /\ lastInterrupted' = lastInterrupted
           \/ points' = {r \in points : r.state.rev <= CurrentRevision} /\ lastInterrupted' = 0
    PROVE  Solo' /\ (~acceptCut' => CommittedAhead')
<1>1. CurrentRevision' = CurrentRevision /\ (Saved <=> Saved')
    BY DEF CurrentRevision, Saved
<1>2. points' \subseteq points
    OBVIOUS
<1>3. FreshReads'
    BY <1>1, <1>2, SoloContext DEF Solo, FreshReads, Saving
<1>4. AheadIsInterrupted'
    BY <1>1, <1>2, SoloContext DEF Solo, AheadIsInterrupted
<1>5. LastIsKept'
    BY <1>1, SoloContext DEF Solo, LastIsKept
<1>6. ~acceptCut' => CommittedAhead'
    BY <1>1, SoloContext DEF CommittedAhead, Saving
<1> QED
    BY <1>3, <1>4, <1>5, <1>6 DEF Solo

\* A command that goes on to save what it loaded, or a recovery call that saves
\* the row it accepted.
LEMMA SoloDrafts ==
    ASSUME MInv, KInv, SoloInv, NEW p \in Procs, Uses(p), ~overlapped',
           op[p].pc # "promote", op'[p].pc = "stage",
           UNCHANGED <<meta, blob, points, nextId, acked, interrupted, lastInterrupted, acceptCut>>,
           op'[p].draft.rev > CurrentRevision,
           ~acceptCut => acked \cup op'[p].edit \subseteq op'[p].draft.val,
           op'[p].edit # {} => op'[p].draft.rev = CurrentRevision + 1
    PROVE  Solo' /\ (~acceptCut' => CommittedAhead')
<1>1. CurrentRevision' = CurrentRevision /\ (Saved <=> Saved')
    BY DEF CurrentRevision, Saved
<1>2. FreshReads'
    BY <1>1, SoloContext DEF Solo, FreshReads, Saving
<1>3. AheadIsInterrupted'
    BY <1>1, SoloContext DEF Solo, AheadIsInterrupted
<1>4. LastIsKept'
    BY <1>1, SoloContext DEF Solo, LastIsKept
<1>5. ~acceptCut' => CommittedAhead'
    BY <1>1, SoloContext DEF CommittedAhead, Saving
<1> QED
    BY <1>2, <1>3, <1>4, <1>5 DEF Solo

\* stageRecoveryPoint: the new row and that of the last interrupted Save are
\* there after the prune.
LEMMA SoloStages ==
    ASSUME MInv, KInv, SoloInv, NEW p \in Procs, Uses(p), ~overlapped', StageRecoveryPoint(p)
    PROVE  Solo' /\ (~acceptCut' => CommittedAhead')
<1>0. PICK row : row = [id |-> nextId, state |-> op[p].draft]
    OBVIOUS
<1>a. /\ op[p].pc = "stage" /\ points' = Prune(points \cup {row}) /\ nextId' = nextId + 1
      /\ UNCHANGED <<meta, blob, acked, interrupted, lastInterrupted, acceptCut>>
    BY <1>0 DEF StageRecoveryPoint, histVars
<1>b. /\ op'[p].pc = "promote" /\ op'[p].id = nextId /\ op'[p].draft = op[p].draft
      /\ op'[p].edit = op[p].edit
    BY SoloContext DEF StageRecoveryPoint, Records
<1>c. OwnPoint(p)' = row
    BY <1>0, <1>b DEF OwnPoint
<1>d. row.id = nextId /\ row.state = op[p].draft
    BY <1>0
<1>1. CurrentRevision' = CurrentRevision /\ (Saved <=> Saved')
    BY <1>a DEF CurrentRevision, Saved
<1>2. \A r \in points' : r \in points \/ r = row
    BY <1>a, PruneShrinks
<1>3. row \in points' /\ \A r \in points : r.id + 1 = nextId => r \in points'
  <2>1. \A r \in points : r.id \in Nat /\ r.id < nextId
    BY SoloContext DEF Solo, FreshReads
  <2> QED
    BY <1>a, <1>d, <2>1, SoloContext, PruneKeepsNewest
<1>4. row.state.rev > CurrentRevision
    BY <1>a, <1>d, SoloContext DEF Solo, FreshReads, Saving
<1>5. FreshReads'
  <2>0. nextId \in Nat /\ \A r \in points : r.id \in Nat /\ r.id < nextId
    BY SoloContext DEF Solo, FreshReads
  <2>a. nextId' = nextId + 1
    BY <1>a
  <2>1. \A r \in points' : r.id < nextId'
    BY <1>d, <1>2, <2>0, <2>a
  <2>2. /\ op'[p].draft.rev > CurrentRevision' /\ op'[p].id + 1 = nextId'
        /\ OwnPoint(p)' \in points'
    BY <1>a, <1>b, <1>c, <1>d, <1>1, <1>3, <1>4
  <2>3. \A q \in Procs : q # p => op'[q].pc = "idle"
    BY SoloContext
  <2> QED
    BY <1>b, <2>1, <2>2, <2>3 DEF FreshReads, Saving
<1>6. AheadIsInterrupted'
  <2>1. InPromote(row)'
    BY <1>b, <1>c DEF InPromote
  <2> QED
    BY <1>a, <1>1, <1>2, <2>1, SoloContext DEF Solo, AheadIsInterrupted
<1>7. LastIsKept'
  <2> SUFFICES ASSUME lastInterrupted # 0 PROVE LastIsKept'
    BY <1>a DEF LastIsKept
  <2>1. PICK r \in points : r.id = lastInterrupted /\ r.state.rev > CurrentRevision
    BY SoloContext DEF Solo, LastIsKept
  <2>2. lastInterrupted + 1 = nextId /\ lastInterrupted \in Nat
    BY <1>a, SoloContext DEF Solo, LastIsKept
  <2>3. r \in points'
    BY <1>3, <2>1, <2>2
  <2>4. nextId' = nextId + 1 /\ lastInterrupted' = lastInterrupted
    BY <1>a
  <2>5. lastInterrupted' + 2 = nextId'
    BY <2>2, <2>4
  <2> QED
    BY <1>b, <1>1, <2>1, <2>3, <2>4, <2>5 DEF LastIsKept
<1>8. ~acceptCut' => CommittedAhead'
  <2> SUFFICES ASSUME ~acceptCut PROVE CommittedAhead'
    BY <1>a
  <2>0. CommittedAhead
    BY SoloContext
  <2>1. InPromote(row)'
    BY <1>b, <1>c DEF InPromote
  <2>2. acked \subseteq row.state.val
    BY <1>a, <1>d, <2>0 DEF CommittedAhead, Saving
  <2>3. \A r \in points' : r.state.rev > CurrentRevision =>
            /\ acked \subseteq r.state.val
            /\ InPromote(r)' \/ (r.state.rev = CurrentRevision + 1 /\ lastInterrupted # 0)
    BY <1>a, <1>2, <2>0, <2>1, <2>2, SoloContext DEF CommittedAhead
  <2>4. \A q \in Procs : Saving(q)' =>
            /\ acked \cup op'[q].edit \subseteq op'[q].draft.val
            /\ op'[q].edit # {} => op'[q].draft.rev = CurrentRevision + 1
    BY <1>a, <1>b, <2>0, SoloContext DEF CommittedAhead, Saving
  <2> QED
    BY <1>a, <1>1, <2>0, <2>3, <2>4 DEF CommittedAhead
<1> QED
    BY <1>5, <1>6, <1>7, <1>8 DEF Solo

\* promoteState: the show has passed every row that was ahead, but for what an
\* interrupted AcceptRecoveryPoint left.
LEMMA SoloPromotes ==
    ASSUME MInv, KInv, SoloInv, NEW p \in Procs, Uses(p), ~overlapped', PromoteState(p)
    PROVE  Solo' /\ (~acceptCut' => CommittedAhead')
<1>a. /\ op[p].pc = "promote" /\ meta'.rev = op[p].draft.rev /\ blob' = op[p].draft
      /\ acked' = acked \cup op[p].edit /\ lastInterrupted' = 0
      /\ UNCHANGED <<points, nextId, interrupted, acceptCut>>
    BY DEF PromoteState
<1>b. op'[p].pc = "idle"
    BY SoloContext DEF PromoteState, Idle
<1>1. Saved' /\ CurrentRevision' = op[p].draft.rev
    BY <1>a, SoloContext, NoBlobAssumption DEF CurrentRevision, Saved
<1>2. op[p].draft.rev > CurrentRevision
    BY <1>a, SoloContext DEF Solo, FreshReads, Saving
<1>3. OwnPoint(p).state = op[p].draft
    BY DEF OwnPoint
<1>4. FreshReads'
    BY <1>a, <1>b, <1>1, SoloContext DEF Solo, FreshReads, Saving
<1>5. AheadIsInterrupted'
    BY <1>a, <1>1, <1>2, <1>3, SoloContext DEF Solo, AheadIsInterrupted
<1>6. LastIsKept'
    BY <1>a DEF LastIsKept
<1>7. ~acceptCut' => CommittedAhead'
  <2> SUFFICES ASSUME ~acceptCut PROVE CommittedAhead'
    BY <1>a
  <2>0. CommittedAhead
    BY SoloContext
  <2>1. acked' \subseteq blob'.val
    BY <1>a, <2>0 DEF CommittedAhead, Saving
  <2>2. \A r \in points' : ~(r.state.rev > CurrentRevision')
    BY <1>a, <1>1, <1>2, <1>3, <2>0, SoloContext DEF CommittedAhead
  <2>3. \A q \in Procs : ~Saving(q)'
    BY <1>b, SoloContext DEF Saving
  <2> QED
    BY <1>1, <2>1, <2>2, <2>3 DEF CommittedAhead
<1> QED
    BY <1>4, <1>5, <1>6, <1>7 DEF Solo

\* A Save that stops between its transactions leaves its row on offer.
LEMMA SoloLeaves ==
    ASSUME MInv, KInv, SoloInv, NEW p \in Procs, Uses(p), ~overlapped',
           op[p].pc = "promote", op' = [op EXCEPT ![p] = Idle], LeavesPoint(p), UNCHANGED diskVars
    PROVE  Solo' /\ (~acceptCut' => CommittedAhead')
<1>a. /\ interrupted' = interrupted \cup {op[p].id} /\ lastInterrupted' = op[p].id
      /\ UNCHANGED <<meta, blob, points, nextId, acked>>
      /\ ~acceptCut' => ~acceptCut /\ op[p].edit # {}
    BY DEF LeavesPoint, diskVars
<1>b. op'[p].pc = "idle"
    BY SoloContext DEF Idle
<1>c. OwnPoint(p).state = op[p].draft /\ OwnPoint(p).id = op[p].id
    BY DEF OwnPoint
<1>1. CurrentRevision' = CurrentRevision /\ (Saved <=> Saved')
    BY <1>a DEF CurrentRevision, Saved
<1>2. /\ op[p].draft.rev > CurrentRevision /\ op[p].id + 1 = nextId
      /\ OwnPoint(p) \in points
    BY SoloContext DEF Solo, FreshReads, Saving
<1>3. op[p].id \in Nat \ {0}
    BY <1>c, <1>2, SoloContext
<1>4. FreshReads'
    BY <1>a, <1>b, <1>1, SoloContext DEF Solo, FreshReads, Saving
<1>5. AheadIsInterrupted'
    BY <1>a, <1>c, <1>1, SoloContext DEF Solo, AheadIsInterrupted
<1>6. LastIsKept'
    BY <1>a, <1>c, <1>1, <1>2 DEF LastIsKept
<1>7. ~acceptCut' => CommittedAhead'
  <2> SUFFICES ASSUME ~acceptCut, op[p].edit # {} PROVE CommittedAhead'
    BY <1>a
  <2>0. CommittedAhead
    BY SoloContext
  <2>1. op[p].draft.rev = CurrentRevision + 1
    BY <2>0 DEF CommittedAhead, Saving
  <2>2. \A r \in points' : r.state.rev > CurrentRevision' =>
            /\ acked' \subseteq r.state.val
            /\ r.state.rev = CurrentRevision' + 1 /\ lastInterrupted' # 0
    BY <1>a, <1>c, <1>1, <1>3, <2>0, <2>1, SoloContext DEF CommittedAhead
  <2>3. \A q \in Procs : ~Saving(q)'
    BY <1>b, SoloContext DEF Saving
  <2> QED
    BY <1>a, <1>1, <2>0, <2>2, <2>3 DEF CommittedAhead
<1> QED
    BY <1>4, <1>5, <1>6, <1>7 DEF Solo

\* Every command and recovery call keeps the invariant of calls that do not
\* overlap.
LEMMA UsesSolo ==
    ASSUME MInv, KInv, SoloInv, NEW p \in Procs, Uses(p), ~overlapped'
    PROVE  Solo' /\ (~acceptCut' => CommittedAhead')
<1>a. op \in [Procs -> Records] /\ op[p] \in Records /\ Idle.pc = "idle" /\ FileLoads
    BY SoloContext DEF Idle, MInv, StoreIInv
<1>b. CurrentRevision \in Nat
    BY SoloContext
<1>1. ASSUME NEW e \in Edits, LoadMeta(p, e) PROVE Solo' /\ (~acceptCut' => CommittedAhead')
  <2>1. /\ op[p].pc = "idle"
        /\ UNCHANGED <<meta, blob, points, nextId, acked, interrupted, lastInterrupted, acceptCut>>
    BY <1>1 DEF LoadMeta, Begins, diskVars
  <2>2. CASE Saved
    <3>1. op'[p].pc = "load" /\ op'[p].sum = blob
      BY <1>1, <1>a, <2>2 DEF LoadMeta, Idle, FileLoads
    <3> QED
      BY <2>1, <3>1, SoloRest
  <2>3. CASE ~Saved
    <3>1. op'[p].pc = "stage" /\ op'[p].edit = {e} /\ op'[p].draft = [rev |-> 1, val |-> {e}]
      BY <1>1, <1>a, <2>3 DEF LoadMeta, Idle
    <3>2. CurrentRevision = 0
      BY <2>3 DEF CurrentRevision
    <3>3. ~acceptCut => acked = {}
      BY <2>3, SoloContext DEF CommittedAhead
    <3>4. /\ op'[p].draft.rev > CurrentRevision /\ op'[p].draft.rev = CurrentRevision + 1
          /\ ~acceptCut => acked \cup op'[p].edit \subseteq op'[p].draft.val
      BY <3>1, <3>2, <3>3
    <3> QED
      BY <2>1, <3>1, <3>4, SoloDrafts
  <2> QED
    BY <2>2, <2>3
<1>2. CASE LoadBlob(p)
  <2>1. /\ op[p].pc = "load" /\ op[p].sum = blob /\ Saved /\ blob \in States
        /\ UNCHANGED <<meta, blob, points, nextId, acked, interrupted, lastInterrupted, acceptCut>>
    BY <1>2, SoloContext DEF LoadBlob, diskVars, histVars, Solo, FreshReads, MInv, StoreIInv,
                             StoreTypeOK, LoadsSaved, Saved
  <2> DEFINE edited == [blob EXCEPT !.val = @ \cup op[p].edit]
  <2>2. edited \in States /\ edited.rev = blob.rev /\ edited.val = blob.val \cup op[p].edit
    BY <1>a, <2>1 DEF States, Records
  <2> HIDE DEF edited
  <2>3. op'[p].pc = "stage" /\ op'[p].edit = op[p].edit /\ op'[p].draft = Bumped(edited)
    BY <1>2, <1>a, <2>1 DEF LoadBlob, Records, edited
  <2>4. Bumped(edited).rev = blob.rev + 1 /\ Bumped(edited).val = blob.val \cup op[p].edit
    BY <2>2 DEF Bumped, States
  <2>5. blob.rev = CurrentRevision
    BY <1>a, <2>1 DEF CurrentRevision, FileLoads
  <2>6. ~acceptCut => acked \subseteq blob.val
    BY <2>1, SoloContext DEF CommittedAhead
  <2>7. /\ op'[p].draft.rev > CurrentRevision /\ op'[p].draft.rev = CurrentRevision + 1
        /\ ~acceptCut => acked \cup op'[p].edit \subseteq op'[p].draft.val
    BY <1>b, <2>3, <2>4, <2>5, <2>6
  <2> QED
    BY <2>1, <2>3, <2>7, SoloDrafts
<1>3. CASE ReportMismatch(p)
    BY <1>3, SoloContext DEF ReportMismatch, Solo, FreshReads
<1>4. CASE Refuse(p)
  <2>1. /\ op[p].pc # "promote" /\ op'[p].pc = "idle"
        /\ UNCHANGED <<meta, blob, points, nextId, acked, interrupted, lastInterrupted, acceptCut>>
    BY <1>4, <1>a DEF Refuse, diskVars, histVars
  <2> QED
    BY <2>1, SoloRest
<1>5. CASE StageRecoveryPoint(p)
    BY <1>5, SoloStages
<1>6. CASE PromoteState(p)
    BY <1>6, SoloPromotes
<1>7. CASE PromoteFails(p)
    BY <1>7, SoloLeaves DEF PromoteFails
<1>8. CASE Crash(p)
  <2>1. CASE op[p].pc = "promote"
    BY <1>8, <2>1, SoloLeaves DEF Crash
  <2>2. CASE op[p].pc # "promote"
    <3>1. /\ op'[p].pc = "idle"
          /\ UNCHANGED <<meta, blob, points, nextId, acked, interrupted, lastInterrupted, acceptCut>>
      BY <1>8, <1>a, <2>2 DEF Crash, diskVars, histVars
    <3> QED
      BY <2>2, <3>1, SoloRest
  <2> QED
    BY <2>1, <2>2
<1>9. ASSUME NEW id, AcceptThreshold(p, id) PROVE Solo' /\ (~acceptCut' => CommittedAhead')
  <2>1. /\ op[p].pc = "idle"
        /\ UNCHANGED <<meta, blob, points, nextId, acked, interrupted, lastInterrupted, acceptCut>>
    BY <1>9 DEF AcceptThreshold, Begins, diskVars
  <2>2. op'[p].pc = "accept" /\ op'[p].rev = CurrentRevision /\ op'[p].edit = {}
    BY <1>9, <1>a DEF AcceptThreshold, Idle
  <2> QED
    BY <2>1, <2>2, SoloRest
<1>10. CASE AcceptRow(p)
  <2>1. /\ op[p].pc = "accept" /\ op[p].rev = CurrentRevision /\ op[p].edit = {}
        /\ UNCHANGED <<meta, blob, points, nextId, acked, interrupted, lastInterrupted, acceptCut>>
    BY <1>10, SoloContext DEF AcceptRow, diskVars, histVars, Solo, FreshReads
  <2>2. CASE op' = [op EXCEPT ![p] = Idle]
    <3>1. op'[p].pc = "idle"
      BY <1>a, <2>2
    <3> QED
      BY <2>1, <3>1, SoloRest
  <2>3. ASSUME NEW r \in points, r.state.rev > CurrentRevision,
               op' = [op EXCEPT ![p].pc = "stage", ![p].draft = Bumped(r.state)]
        PROVE  Solo' /\ (~acceptCut' => CommittedAhead')
    <3>1. op'[p].pc = "stage" /\ op'[p].edit = {} /\ op'[p].draft = Bumped(r.state)
      BY <1>a, <2>1, <2>3 DEF Records
    <3>2. r.state \in States /\ r.state.rev \in Nat
      BY SoloContext
    <3>3. Bumped(r.state).rev = r.state.rev + 1 /\ Bumped(r.state).val = r.state.val
      BY <3>2 DEF Bumped, States
    <3>4. ~acceptCut => acked \subseteq r.state.val
      BY <2>3, SoloContext DEF CommittedAhead
    <3>5. op'[p].draft.rev > CurrentRevision
      BY <1>b, <2>3, <3>1, <3>2, <3>3
    <3>6. ~acceptCut => acked \cup op'[p].edit \subseteq op'[p].draft.val
      BY <3>1, <3>3, <3>4
    <3> QED
      BY <2>1, <3>1, <3>5, <3>6, SoloDrafts
  <2> QED
    BY <1>10, <2>1, <2>2, <2>3 DEF AcceptRow, OfferedAbove
<1>11. CASE DiscardThreshold(p)
  <2>1. /\ op[p].pc = "idle"
        /\ UNCHANGED <<meta, blob, points, nextId, acked, interrupted, lastInterrupted, acceptCut>>
    BY <1>11 DEF DiscardThreshold, Begins, diskVars
  <2>2. op'[p].pc = "discard" /\ op'[p].rev = CurrentRevision
    BY <1>11, <1>a DEF DiscardThreshold, Idle
  <2> QED
    BY <2>1, <2>2, SoloRest
<1>12. CASE DiscardDelete(p)
  <2>1. /\ op[p].pc = "discard" /\ op[p].rev = CurrentRevision /\ lastInterrupted' = 0
        /\ points' = points \ OfferedAbove(CurrentRevision)
        /\ UNCHANGED <<meta, blob, nextId, acked, interrupted, acceptCut>>
    BY <1>12, SoloContext DEF DiscardDelete, Solo, FreshReads
  <2>2. op'[p].pc = "idle"
    BY <1>12, <1>a DEF DiscardDelete
  <2>3. \A r \in points : r.state.rev \in Nat
    BY SoloContext
  <2>4. points' = {r \in points : r.state.rev <= CurrentRevision}
    BY <1>b, <2>1, <2>3 DEF OfferedAbove
  <2> QED
    BY <2>1, <2>2, <2>4, SoloRest
<1> QED
    BY <1>1, <1>2, <1>3, <1>4, <1>5, <1>6, <1>7, <1>8, <1>9, <1>10, <1>11, <1>12
       DEF Uses, Recovery

\* A migration that nothing overlaps leaves the show and its rows as they are.
LEMMA MigrateSolo ==
    ASSUME MInv, KInv, SoloInv, NEW p \in Procs, Migrate(p), ~overlapped'
    PROVE  Solo' /\ (~acceptCut' => CommittedAhead')
<1>a. op \in [Procs -> Records] /\ Idle.pc = "idle" /\ [Idle EXCEPT !.pc = "migrate"].pc = "migrate"
    BY SoloContext DEF Idle
<1>b. ~overlapped
    BY Alone DEF KInv
<1>1. op[p].pc \in {"idle", "migrate"} /\ op'[p].pc \in {"idle", "migrate"}
    BY <1>a DEF Migrate, runShowOpen, Begins, migrationMeta, verifiedBackup, copyFile, CopyEnds,
            migrateTemp, atomicReplace, RemoveSidecars, StepFails, Returns, At, Goes, Ends
<1>2. UNCHANGED <<meta, blob, points, nextId, acked, interrupted, lastInterrupted, acceptCut>>
  <2>1. CASE runShowOpen(p)
    BY <2>1 DEF runShowOpen, Begins, diskVars
  <2>2. CASE atomicReplace(p)
    <3>1. UNCHANGED <<meta, blob, points, nextId>>
      BY <1>b, <2>2, ReplaceKeepsShow
    <3>2. UNCHANGED histVars
      BY <2>2 DEF atomicReplace, Returns, Quietly
    <3> QED
      BY <3>1, <3>2 DEF histVars
  <2>3. CASE Quietly
    BY <2>3 DEF Quietly, diskVars, histVars
  <2> QED
    BY <2>1, <2>2, <2>3 DEF Migrate, migrationMeta, verifiedBackup, copyFile, CopyEnds,
            migrateTemp, RemoveSidecars, StepFails, Returns
<1> QED
    BY <1>1, <1>2, SoloRest

\* A fresh file, and one whose last Save was interrupted before these processes
\* opened it, both satisfy it.
LEMMA InitSolo == MigrationInit => SoloInv
<1> SUFFICES ASSUME MigrationInit PROVE Solo /\ CommittedAhead
    BY DEF SoloInv
<1>0. \A q \in Procs : op[q].pc = "idle"
    BY DEF MigrationInit, StoreInit, Idle
<1>1. CASE StoreInit
    BY <1>0, <1>1 DEF StoreInit, Solo, FreshReads, AheadIsInterrupted, LastIsKept, CommittedAhead,
            Saving, Saved
<1>2. CASE ~StoreInit
  <2> DEFINE old == [rev |-> 1, val |-> {}]
  <2>1. /\ meta = [rev |-> 1, sum |-> old] /\ blob = old
        /\ points = {[id |-> 1, state |-> old], [id |-> 2, state |-> Bumped(old)]}
        /\ nextId = 3 /\ acked = {} /\ interrupted = {2} /\ lastInterrupted = 2
    BY <1>2, Zenon DEF MigrationInit
  <2>2. old \in States /\ old.rev = 1 /\ Bumped(old).rev = 2
    BY DEF States, Bumped
  <2> HIDE DEF old
  <2>3. Saved /\ CurrentRevision = 1
    BY <2>1, <2>2, NoBlobAssumption DEF Saved, CurrentRevision
  <2>4. \A r \in points : \/ r.id = 1 /\ r.state.rev = 1
                          \/ r.id = 2 /\ r.state.rev = 2
    BY <2>1, <2>2
  <2>5. \E r \in points : r.id = 2 /\ r.state.rev = 2
    BY <2>1, <2>2
  <2>6. FreshReads
    BY <1>0, <2>1, <2>4 DEF FreshReads, Saving
  <2>7. AheadIsInterrupted
    BY <2>1, <2>3, <2>4 DEF AheadIsInterrupted
  <2>8. LastIsKept
    BY <2>1, <2>3, <2>5 DEF LastIsKept
  <2>9. CommittedAhead
    BY <1>0, <2>1, <2>3, <2>4 DEF CommittedAhead, Saving
  <2> QED
    BY <2>6, <2>7, <2>8, <2>9 DEF Solo
<1> QED
    BY <1>1, <1>2

\* The rows of the file are as RecoveryOffers and CommittedEditsSurvive need
\* them, in every behaviour.
THEOREM SaveInvariance == MigrationSpec => []SoloInv
<1>1. MInv /\ KInv /\ SoloInv /\ [\E p \in Procs : Uses(p) \/ Migrate(p)]_migrationVars
        => SoloInv'
  <2>1. ASSUME MInv, KInv, SoloInv, NEW p \in Procs, Uses(p) \/ Migrate(p) PROVE SoloInv'
    BY <2>1, UsesSolo, MigrateSolo DEF SoloInv
  <2>2. ASSUME SoloInv, UNCHANGED migrationVars PROVE SoloInv'
    BY <2>2 DEF migrationVars, SoloInv, Solo, FreshReads, AheadIsInterrupted, LastIsKept,
            CommittedAhead, InPromote, OwnPoint, Saving, Saved, CurrentRevision
  <2> QED
    BY <2>1, <2>2
<1> QED
    BY <1>1, InitSolo, MigrationInvariance, SoloInvariance, PTL DEF MigrationSpec

\* No edit whose Save committed is ever missing from the file, through crashes,
\* failed promotes, accepted recovery points and migrations, as long as calls do
\* not overlap and no AcceptRecoveryPoint was itself interrupted.
THEOREM EditsSurvive == MigrationSpec => []CommittedEditsSurvive
<1>1. SoloInv => CommittedEditsSurvive
    BY DEF SoloInv, CommittedAhead, CommittedEditsSurvive
<1> QED
    BY <1>1, SaveInvariance, PTL

\* DetectRecoveryPoints offers the work of the latest interrupted Save, nothing
\* that was not interrupted, and nothing at all after a clean close.
THEOREM OffersAreRight == MigrationSpec => []RecoveryOffers
<1>1. ASSUME MInv, SoloInv PROVE RecoveryOffers
  <2>1. CleanCloseOffersNothing
    BY <1>1 DEF SoloInv, CommittedAhead, CleanCloseOffersNothing, DetectRecoveryPoints,
            OfferedAbove, InPromote
  <2>2. OnlyInterruptedOffered
    BY <1>1 DEF SoloInv, Solo, AheadIsInterrupted, OnlyInterruptedOffered, DetectRecoveryPoints,
            OfferedAbove, InPromote, OwnPoint
  <2>3. InterruptedStaysOffered
    BY <1>1 DEF SoloInv, Solo, LastIsKept, InterruptedStaysOffered, DetectRecoveryPoints,
            OfferedAbove
  <2> QED
    BY <2>1, <2>2, <2>3 DEF RecoveryOffers
<1> QED
    BY <1>1, MigrationInvariance, SaveInvariance, PTL
-----------------------------------------------------------------------------
(* Addresses *)

\* A set of numbers that is not empty has a least one.
LEMMA LeastNumber ==
  ASSUME NEW S \in SUBSET Nat, S # {}
  PROVE  \E n \in S : \A m \in S : n <= m
<1> DEFINE R == OpToRel(<, Nat)
<1>1. IsWellFoundedOn(R, Nat)
  BY NatLessThanWellFounded
<1>2. \A m, n \in Nat : m < n => <<m, n>> \in R
  BY DEF OpToRel
<1> HIDE DEF R
<1>3. PICK n \in S : \A m \in S : ~(<<m, n>> \in R)
  BY <1>1, WFMin
<1>4. \A m \in S : ~(m < n)
  BY <1>2, <1>3
<1>5. \A m \in S : n <= m
  BY <1>4
<1> QED BY <1>5

\* A set of addresses that is not empty has a first one, in the order of the
\* search: by universe, then by channel.
LEMMA FirstAddress ==
  ASSUME NEW free \in SUBSET (Nat \X Nat), free # {}
  PROVE  \E at \in free : \A other \in free : Before(at, other)
<1> DEFINE Universes == {at[1] : at \in free}
<1>1. Universes \in SUBSET Nat /\ Universes # {}
  OBVIOUS
<1> HIDE DEF Universes
<1>2. PICK u \in Universes : \A v \in Universes : u <= v
  BY <1>1, LeastNumber
<1> DEFINE Chans == {at[2] : at \in {x \in free : x[1] = u}}
<1>3. Chans \in SUBSET Nat /\ Chans # {}
  BY <1>2 DEF Universes
<1> HIDE DEF Chans
<1>4. PICK c \in Chans : \A e \in Chans : c <= e
  BY <1>3, LeastNumber
<1>5. PICK at \in free : at[1] = u /\ at[2] = c
  BY <1>4 DEF Chans
<1>6. ASSUME NEW other \in free PROVE Before(at, other)
  <2>1. u <= other[1] /\ u \in Nat /\ other[1] \in Nat
    BY <1>1, <1>2 DEF Universes
  <2>2. CASE other[1] = u
    BY <1>4, <1>5, <2>2 DEF Before, Chans
  <2>3. CASE other[1] # u
    BY <1>5, <2>1, <2>3 DEF Before
  <2> QED BY <2>2, <2>3
<1> QED BY <1>6

\* Universe and channel.
Addresses == Nat \X Nat

\* What "--add" may ask for: a fixture and its width.
Specs == [fixture : Fixtures, width : Nat \ {0}]

\* The search answers with no address at all, or with one in the universe that
\* nothing in the deployment starts at.
LEMMA SearchFindsFree ==
  ASSUME NEW taken \in SUBSET Addresses, NEW width \in Nat \ {0},
         NEW start \in Addresses, start[1] >= 1
  PROVE  LET at == NextFreeAddressFrom(taken, width, start)
         IN  /\ at \in Addresses
             /\ at # NoAddress => at[1] >= 1 /\ at[2] \in 1..Channels /\ at \notin taken
<1> DEFINE free == {at \in (start[1]..MaxUniverse) \X (1..Channels) :
                      /\ Before(start, at)
                      /\ at[2] + width - 1 <= Channels
                      /\ ~overlapsExisting(taken, at, width)}
<1> DEFINE found == NextFreeAddressFrom(taken, width, start)
<1>1. found = IF free = {} THEN NoAddress
              ELSE CHOOSE at \in free : \A other \in free : Before(at, other)
  BY DEF NextFreeAddressFrom
<1>2. start[1]..MaxUniverse \subseteq Nat /\ 1..Channels \subseteq Nat
  BY ShowStateAssumption DEF Addresses
<1>3. free \in SUBSET (Nat \X Nat)
  BY <1>2
<1>4. ASSUME NEW at \in free
      PROVE  at[1] >= 1 /\ at[2] \in 1..Channels /\ at \notin taken
  <2>1. at[1] \in start[1]..MaxUniverse /\ at[2] \in 1..Channels /\ ~overlapsExisting(taken, at, width)
    OBVIOUS
  <2>2. at[1] >= 1
    BY <2>1, ShowStateAssumption DEF Addresses
  <2>3. at \notin taken
    BY <2>1, ShowStateAssumption DEF overlapsExisting
  <2> QED BY <2>1, <2>2, <2>3
<1> HIDE DEF free, found
<1>5. CASE free = {}
  BY <1>1, <1>5 DEF NoAddress, Addresses, found
<1>6. CASE free # {}
  <2>1. found \in free
    BY <1>1, <1>3, <1>6, FirstAddress
  <2>2. found \in Addresses
    BY <2>1, <1>3 DEF Addresses
  <2> QED BY <1>4, <2>1, <2>2 DEF found
<1> QED BY <1>5, <1>6

\* What the search proposes for added members is never taken twice: neither from
\* an instance of the deployment nor from a member proposed before.
LEMMA ProposedAreFree ==
  ASSUME NEW s, NEW d, TakenIn(s, d) \in SUBSET Addresses, NEW add \in Seq(Specs),
         NEW start \in Addresses, start[1] >= 1
  PROVE  LET p == Proposed(s, d, add, start)
         IN  \A n \in 1..Len(add) :
               p[n] # NoAddress =>
                 /\ p[n] \in Addresses /\ p[n][1] >= 1 /\ p[n][2] \in 1..Channels
                 /\ p[n] \notin TakenIn(s, d)
                 /\ \A m \in 1..(n - 1) : p[m] # p[n]
<1> DEFINE L == Len(add)
           Search(taken, n) == NextFreeAddressFrom(taken, add[n].width, start)
           Body(f, n) == IF n = 0 THEN <<>>
                         ELSE Append(f[n - 1], Search(TakenIn(s, d) \cup {f[n - 1][j] : j \in 1..(n - 1)}, n))
           upTo == Proposals(s, d, add, start)
<1>1. L \in Nat
  OBVIOUS
<1>2. upTo = CHOOSE f : f = [n \in 0..L |-> Body(f, n)]
  BY DEF Proposals
<1>3. ASSUME NEW n \in 1..L, NEW taken \in SUBSET Addresses
      PROVE  /\ Search(taken, n) \in Addresses
             /\ Search(taken, n) # NoAddress =>
                  /\ Search(taken, n)[1] >= 1 /\ Search(taken, n)[2] \in 1..Channels
                  /\ Search(taken, n) \notin taken
  <2>1. add[n] \in Specs
    BY <1>1
  <2>2. add[n].width \in Nat \ {0}
    BY <2>1 DEF Specs
  <2> QED BY <2>2, SearchFindsFree
<1> HIDE DEF L, Search, upTo
<1>4. \A f, g, n : n \in Nat /\ (n # 0 => f[n - 1] = g[n - 1]) => Body(f, n) = Body(g, n)
  OBVIOUS
<1> HIDE DEF Body
<1>5. \E f : f = [n \in 0..L |-> Body(f, n)]
  <2> DEFINE bad == {N \in 0..L : ~ \E g : g = [n \in 0..N |-> Body(g, n)]}
  <2>1. bad \in SUBSET Nat
    BY <1>1
  <2>2. SUFFICES ASSUME bad # {} PROVE FALSE
    BY <1>1
  <2>3. PICK N \in bad : \A M \in bad : N <= M
    BY <2>1, <2>2, LeastNumber
  <2>4. N \in 0..L /\ ~ \E g : g = [n \in 0..N |-> Body(g, n)]
    OBVIOUS
  <2>5. CASE N = 0
    <3> DEFINE g == [n \in 0..0 |-> Body(<<>>, n)]
    <3>1. \A n \in 0..0 : Body(g, n) = Body(<<>>, n)
      BY <1>4
    <3> HIDE DEF g
    <3>2. g = [n \in 0..0 |-> Body(g, n)]
      BY <3>1 DEF g
    <3> QED BY <2>4, <2>5, <3>2
  <2>6. CASE N # 0
    <3>1. N - 1 \in 0..L /\ N - 1 \notin bad
      BY <1>1, <2>3, <2>4, <2>6
    <3>2. PICK g : g = [n \in 0..(N - 1) |-> Body(g, n)]
      BY <3>1
    <3> DEFINE h == [n \in 0..N |-> IF n < N THEN g[n] ELSE Body(g, N)]
    <3>3. \A n \in 0..N : n # 0 => h[n - 1] = g[n - 1]
      BY <1>1, <2>4
    <3>4. \A n \in 0..N : Body(h, n) = Body(g, n)
      BY <1>1, <1>4, <2>4, <3>3
    <3>5. \A n \in 0..N : h[n] = Body(g, n)
      BY <1>1, <2>4, <3>2
    <3>6. h = [n \in 0..N |-> h[n]]
      OBVIOUS
    <3> HIDE DEF h
    <3>7. h = [n \in 0..N |-> Body(h, n)]
      BY <3>4, <3>5, <3>6
    <3> QED BY <2>4, <3>7
  <2> QED BY <2>5, <2>6
<1>6. upTo = [n \in 0..L |-> Body(upTo, n)]
  BY <1>2, <1>5
<1> DEFINE Good(n) ==
      /\ upTo[n] \in Seq(Addresses) /\ Len(upTo[n]) = n
      /\ \A k \in 1..n :
           upTo[n][k] = Search(TakenIn(s, d) \cup {upTo[n][j] : j \in 1..(k - 1)}, k)
<1>7. \A n \in 0..L : Good(n)
  <2> DEFINE bad == {n \in 0..L : ~ Good(n)}
  <2>1. bad \in SUBSET Nat
    BY <1>1
  <2>2. SUFFICES ASSUME bad # {} PROVE FALSE
    OBVIOUS
  <2>3. PICK n \in bad : \A m \in bad : n <= m
    BY <2>1, <2>2, LeastNumber
  <2>4. n \in 0..L /\ upTo[n] = Body(upTo, n) /\ ~ Good(n)
    BY <1>6
  <2>5. CASE n = 0
    <3>1. upTo[n] = <<>>
      BY <2>4, <2>5 DEF Body
    <3>2. Good(n)
      BY <2>5, <3>1
    <3> QED BY <2>4, <3>2
  <2>6. CASE n # 0
    <3> DEFINE u == upTo[n - 1]
               x == Search(TakenIn(s, d) \cup {u[j] : j \in 1..(n - 1)}, n)
    <3>0. n - 1 \in 0..L /\ n \in Nat /\ n \in 1..L
      BY <1>1, <2>4, <2>6
    <3>1. n - 1 \in 0..L /\ n - 1 \notin bad /\ n \in Nat /\ n \in 1..L
      <4> HIDE DEF bad, u, x
      <4>1. ~(n <= n - 1)
        BY <3>0
      <4> QED BY <2>3, <3>0, <4>1
    <3>2. Good(n - 1)
      BY <3>1
    <3>3. upTo[n] = Append(u, x)
      BY <2>4, <2>6 DEF Body
    <3>4. u \in Seq(Addresses) /\ Len(u) = n - 1
      BY <3>2
    <3>5. \A k \in 1..(n - 1) : u[k] = Search(TakenIn(s, d) \cup {u[j] : j \in 1..(k - 1)}, k)
      BY <3>2
    <3>6. {u[j] : j \in 1..(n - 1)} \subseteq Addresses
      BY <3>1, <3>4
    <3>7. x \in Addresses
      BY <1>3, <3>1, <3>6
    <3> HIDE DEF u, x, Good
    <3>8. /\ upTo[n] \in Seq(Addresses) /\ Len(upTo[n]) = n
          /\ upTo[n][n] = x
          /\ \A k \in 1..(n - 1) : upTo[n][k] = u[k]
      BY <3>1, <3>3, <3>4, <3>7
    <3>9. \A k \in 1..n : {upTo[n][j] : j \in 1..(k - 1)} = {u[j] : j \in 1..(k - 1)}
      BY <3>1, <3>8
    <3>10. ASSUME NEW k \in 1..n
           PROVE  upTo[n][k] = Search(TakenIn(s, d) \cup {upTo[n][j] : j \in 1..(k - 1)}, k)
      <4>1. {upTo[n][j] : j \in 1..(k - 1)} = {u[j] : j \in 1..(k - 1)}
        BY <3>9
      <4>2. CASE k = n
        BY <3>8, <4>1, <4>2 DEF x
      <4>3. CASE k # n
        BY <3>1, <3>5, <3>8, <4>1, <4>3
      <4> QED BY <4>2, <4>3
    <3>11. Good(n)
      BY <3>8, <3>10 DEF Good
    <3> QED BY <2>4, <3>11
  <2> QED BY <2>5, <2>6
<1> DEFINE p == Proposed(s, d, add, start)
<1>8. p = upTo[L]
  BY DEF Proposed, upTo, L
<1>9. Good(L)
  BY <1>1, <1>7
<1> HIDE DEF p
<1>10. ASSUME NEW n \in 1..L, p[n] # NoAddress
       PROVE  /\ p[n] \in Addresses /\ p[n][1] >= 1 /\ p[n][2] \in 1..Channels
              /\ p[n] \notin TakenIn(s, d)
              /\ \A m \in 1..(n - 1) : p[m] # p[n]
  <2> DEFINE taken == TakenIn(s, d) \cup {p[j] : j \in 1..(n - 1)}
  <2>1. p \in Seq(Addresses) /\ Len(p) = L
    BY <1>8, <1>9
  <2>2. {p[j] : j \in 1..(n - 1)} \subseteq Addresses
    BY <1>1, <2>1
  <2>3. p[n] = Search(taken, n)
    BY <1>8, <1>9
  <2>4. taken \in SUBSET Addresses
    BY <2>2
  <2> HIDE DEF taken
  <2>5. /\ p[n] \in Addresses /\ p[n][1] >= 1 /\ p[n][2] \in 1..Channels
        /\ p[n] \notin taken
    BY <1>3, <1>10, <2>3, <2>4
  <2> QED BY <2>5 DEF taken
<1> QED BY <1>10 DEF p, L

-----------------------------------------------------------------------------
(* Save *)

\* The tests of Save look at some fields only.
LEMMA ValidateLooksAt ==
  ASSUME NEW s, NEW t, t.objs = s.objs, t.active = s.active, t.members = s.members,
         t.instances = s.instances, t.groupRefs = s.groupRefs, t.layers = s.layers,
         t.controls = s.controls, t.desk = s.desk
  PROVE  validate(t) <=> validate(s)
<1>1. \A k : Ids(t, k) = Ids(s, k)
  BY DEF Ids, Objs
<1>2. InstanceIds(t) = InstanceIds(s)
  BY DEF InstanceIds
<1>3. ValidateUniqueNames(t) <=> ValidateUniqueNames(s)
  BY DEF ValidateUniqueNames
<1>4. ValidateSingleActive(t) <=> ValidateSingleActive(s)
  BY <1>1 DEF ValidateSingleActive
<1>5. ValidateGroupReferences(t) <=> ValidateGroupReferences(s)
  BY <1>1 DEF ValidateGroupReferences
<1>6. ValidateLayerReferences(t) <=> ValidateLayerReferences(s)
  BY <1>1 DEF ValidateLayerReferences
<1>7. ValidateSurfaces(t) <=> ValidateSurfaces(s)
  BY <1>1 DEF ValidateSurfaces
<1>8. ValidateDesk(t) <=> ValidateDesk(s)
  BY <1>2 DEF ValidateDesk
<1> QED BY <1>3, <1>4, <1>5, <1>6, <1>7, <1>8 DEF validate

\* What can be selected depends on some fields only.
LEMMA TargetsLookAt ==
  ASSUME NEW s, NEW t, t.objs = s.objs, t.members = s.members, t.instances = s.instances
  PROVE  Targets(t) = Targets(s)
<1>1. \A k : Ids(t, k) = Ids(s, k)
  BY DEF Ids, Objs
<1>2. InstanceIds(t) = InstanceIds(s)
  BY DEF InstanceIds
<1> QED BY <1>1, <1>2 DEF Targets

\* So is what a command keeps tidy: the rest of the state may change freely.
LEMMA TidyLooksAt ==
  ASSUME NEW s, NEW t, Tidy(s), IsState(t), t.revision \in 1..MaxRevision,
         t.minted = s.minted, t.objs = s.objs, t.active = s.active, t.order = s.order,
         t.members = s.members, t.instances = s.instances, t.layers = s.layers,
         t.desk = s.desk
  PROVE  Tidy(t)
<1>1. \A k : Ids(t, k) = Ids(s, k)
  BY DEF Ids, Objs
<1>2. InstancesHaveMembers(t) <=> InstancesHaveMembers(s)
  BY <1>1 DEF InstancesHaveMembers
<1>3. StartsDistinct(t) <=> StartsDistinct(s)
  BY DEF StartsDistinct
<1> QED BY <1>1, <1>2, <1>3 DEF Tidy

\* Scrubbing changes layers' selections and desk faders, and nothing else.
LEMMA ScrubbedFields ==
  ASSUME NEW s, IsState(s)
  PROVE  LET t == Scrubbed(s)
         IN  /\ IsState(t)
             /\ t.revision = s.revision /\ t.minted = s.minted /\ t.objs = s.objs
             /\ t.active = s.active /\ t.order = s.order /\ t.members = s.members
             /\ t.instances = s.instances /\ t.groupRefs = s.groupRefs
             /\ t.controls = s.controls
             /\ t.layers = {[l EXCEPT !.sel = @ \cap Targets(s)] : l \in s.layers}
             /\ t.desk = {d \in s.desk : d.instance \in InstanceIds(s)}
<1> DEFINE v == ScrubDanglingSelections(s)
           t == Scrubbed(s)
<1>1. /\ IsState(v)
      /\ v.revision = s.revision /\ v.minted = s.minted /\ v.objs = s.objs
      /\ v.active = s.active /\ v.order = s.order /\ v.members = s.members
      /\ v.instances = s.instances /\ v.groupRefs = s.groupRefs
      /\ v.controls = s.controls /\ v.desk = s.desk
      /\ v.layers = {[l EXCEPT !.sel = @ \cap Targets(s)] : l \in s.layers}
  BY DEF IsState, ScrubDanglingSelections
<1>2. InstanceIds(v) = InstanceIds(s)
  BY <1>1 DEF InstanceIds
<1>3. t = [v EXCEPT !.desk = {d \in @ : d.instance \in InstanceIds(v)}]
  BY DEF Scrubbed, ScrubDangling
<1> HIDE DEF v, t
<1>4. /\ IsState(t)
      /\ t.revision = v.revision /\ t.minted = v.minted /\ t.objs = v.objs
      /\ t.active = v.active /\ t.order = v.order /\ t.members = v.members
      /\ t.instances = v.instances /\ t.groupRefs = v.groupRefs
      /\ t.controls = v.controls /\ t.layers = v.layers
      /\ t.desk = {d \in v.desk : d.instance \in InstanceIds(v)}
  BY <1>1, <1>3 DEF IsState
<1> QED BY <1>1, <1>2, <1>4 DEF t

\* A scene layer.
LayerRecords == [scene : Nat, kind : LayerKinds, ref : Int, enabled : BOOLEAN,
                 sel : SUBSET [to : {"pool", "group", "instance", "fixture"}, id : Int]]

\* A tidy state that passes the tests is written, and what is written is saved.
LEMMA SaveWritesSaved ==
  ASSUME NEW s, Tidy(s), s.revision + 1 <= MaxRevision, validate(Scrubbed(s))
  PROVE  LET t == [Scrubbed(s) EXCEPT !.revision = @ + 1]
         IN  SavedShow(t) /\ t.revision = s.revision + 1
<1> DEFINE u == Scrubbed(s)
           t == [u EXCEPT !.revision = @ + 1]
<1>1. IsState(s)
  BY DEF Tidy
<1>2. /\ IsState(u)
      /\ u.revision = s.revision /\ u.minted = s.minted /\ u.objs = s.objs
      /\ u.active = s.active /\ u.order = s.order /\ u.members = s.members
      /\ u.instances = s.instances /\ u.groupRefs = s.groupRefs
      /\ u.controls = s.controls
      /\ u.layers = {[l EXCEPT !.sel = @ \cap Targets(s)] : l \in s.layers}
      /\ u.desk = {d \in s.desk : d.instance \in InstanceIds(s)}
  BY <1>1, ScrubbedFields
<1>3. validate(u)
  OBVIOUS
<1> HIDE DEF u
<1>4. /\ IsState(t) /\ t.revision = s.revision + 1
      /\ t.minted = s.minted /\ t.objs = u.objs /\ t.active = u.active /\ t.order = s.order
      /\ t.members = u.members /\ t.instances = u.instances /\ t.groupRefs = u.groupRefs
      /\ t.layers = u.layers /\ t.controls = u.controls /\ t.desk = u.desk
  BY <1>2 DEF IsState
<1> HIDE DEF t
<1>5. validate(t)
  BY <1>3, <1>4, ValidateLooksAt
<1>6. Targets(t) = Targets(s)
  BY <1>2, <1>4, TargetsLookAt
<1>7. \A l \in t.layers : l \in LayerRecords /\ l.sel \subseteq Targets(s)
  <2> SUFFICES ASSUME NEW m \in t.layers
               PROVE  m \in LayerRecords /\ m.sel \subseteq Targets(s)
    OBVIOUS
  <2>1. PICK l \in s.layers : m = [l EXCEPT !.sel = @ \cap Targets(s)]
    BY <1>2, <1>4
  <2>2. l \in LayerRecords
    BY DEF Tidy, LayerRecords
  <2> QED BY <2>1, <2>2 DEF LayerRecords
<1>8. Tidy(t)
  <2>1. \A k : Ids(t, k) = Ids(s, k)
    BY <1>2, <1>4 DEF Ids, Objs
  <2>2. InstancesHaveMembers(t) /\ StartsDistinct(t)
    BY <1>2, <1>4, <2>1 DEF Tidy, InstancesHaveMembers, StartsDistinct
  <2>3. t.revision \in 1..MaxRevision
    BY <1>4, ShowStateAssumption DEF Tidy
  <2> QED BY <1>2, <1>4, <1>7, <2>1, <2>2, <2>3 DEF Tidy, LayerRecords
<1>9. SavedShow(t)
  BY <1>5, <1>6, <1>7, <1>8 DEF SavedShow
<1> QED BY <1>4, <1>9 DEF t, u

-----------------------------------------------------------------------------
(* Edits *)

\* An object of a state.
ObjRecords(s) == [kind : Kinds, id : 1..s.minted, name : Names, val : Vals \cup {NoVal}]

\* The scenes that the list of scenes names.
Listed(s) == {s.order[i] : i \in 1..Len(s.order)}

\* An object is looked up by its id.
LEMMA IdsOf ==
  ASSUME NEW s, NEW k, NEW i
  PROVE  i \in Ids(s, k) <=> \E o \in s.objs : o.kind = k /\ o.id = i
BY DEF Ids, Objs

\* A new object, with a new id, and a new scene at the end of the list.
LEMMA CreationIsTidy ==
  ASSUME Tidy(show), NEW t, NEW k \in Kinds, NEW n \in Names, NEW v \in Vals \cup {NoVal},
         IsState(t), t.revision = show.revision, t.minted = show.minted + 1,
         t.objs = show.objs \cup {[kind |-> k, id |-> Mint, name |-> n, val |-> v]},
         t.active = show.active,
         t.order = IF k = "scene" THEN Append(show.order, Mint) ELSE show.order,
         t.members = show.members, t.instances = show.instances,
         t.layers \subseteq LayerRecords, t.desk = show.desk
  PROVE  Tidy(t)
<1> DEFINE new == [kind |-> k, id |-> Mint, name |-> n, val |-> v]
<1>1. show.minted \in Nat /\ Mint = show.minted + 1 /\ Mint \in Nat /\ t.minted \in Nat
  BY DEF Tidy, Mint
<1>2. new.kind = k /\ new.id = Mint /\ new \in ObjRecords(t) /\ t.objs = show.objs \cup {new}
  BY <1>1 DEF ObjRecords
<1>3. \A o \in show.objs : o \in ObjRecords(show) /\ o \in ObjRecords(t) /\ o.id # Mint
  BY <1>1 DEF Tidy, ObjRecords
<1> HIDE DEF new
<1>4. t.objs \subseteq ObjRecords(t)
  BY <1>2, <1>3
<1>5. \A a, b \in t.objs : a.id = b.id => a = b
  BY <1>2, <1>3 DEF Tidy
<1>6. t.active \subseteq {o.id : o \in t.objs}
  BY <1>2 DEF Tidy
<1>7. show.order \in Seq(Nat) /\ t.order \in Seq(Nat)
  BY <1>1 DEF Tidy
<1>8. Ids(t, "scene") \subseteq Listed(t)
  <2> SUFFICES ASSUME NEW i \in Ids(t, "scene") PROVE i \in Listed(t)
    OBVIOUS
  <2>1. PICK o \in t.objs : o.kind = "scene" /\ o.id = i
    BY IdsOf
  <2>2. CASE o = new
    <3>1. t.order = Append(show.order, Mint) /\ i = Mint
      BY <1>2, <2>1, <2>2
    <3>2. Len(t.order) \in 1..Len(t.order) /\ t.order[Len(t.order)] = i
      BY <1>1, <1>7, <3>1
    <3> QED BY <3>2 DEF Listed
  <2>3. CASE o \in show.objs
    <3>1. i \in Ids(show, "scene")
      BY <2>1, <2>3, IdsOf
    <3>2. PICK j \in 1..Len(show.order) : show.order[j] = i
      BY <3>1 DEF Tidy
    <3>3. j \in 1..Len(t.order) /\ t.order[j] = i
      BY <1>1, <1>7, <3>2
    <3> QED BY <3>3 DEF Listed
  <2> QED BY <1>2, <2>2, <2>3
<1>9. InstancesHaveMembers(t)
  <2>1. \A q, i : i \in Ids(show, q) => i \in Ids(t, q)
    BY <1>2, IdsOf
  <2> QED BY <2>1 DEF Tidy, InstancesHaveMembers
<1>10. StartsDistinct(t)
  BY DEF Tidy, StartsDistinct
<1>11. IsFiniteSet(t.objs) /\ IsFiniteSet(t.members)
  <2>1. IsFiniteSet(show.objs) /\ IsFiniteSet(show.members)
    BY DEF Tidy
  <2>2. IsFiniteSet(show.objs \cup {new})
    BY <2>1, FS_AddElement
  <2> QED BY <1>2, <2>1, <2>2
<1>12. t.instances \subseteq [id : 1..t.minted, dep : Nat, pool : Nat, member : Nat, at : Nat \X Nat]
  <2>1. 1..show.minted \subseteq 1..t.minted
    BY <1>1
  <2> QED BY <2>1 DEF Tidy
<1>13. t.members \subseteq [pool : Nat, id : Nat, fixture : Fixtures] /\ \A d \in t.desk : d.key \in Keys
  BY DEF Tidy
<1>14. t.revision \in 1..MaxRevision
  BY DEF Tidy
<1> QED
  BY <1>1, <1>4, <1>5, <1>6, <1>7, <1>8, <1>9, <1>10, <1>11, <1>12, <1>13, <1>14
  DEF Tidy, ObjRecords, Listed, LayerRecords

\* An object keeps its kind and its id when its name or its payload changes.
LEMMA EditIsTidy ==
  ASSUME Tidy(show), NEW o \in show.objs, NEW n \in Names, NEW v \in Vals \cup {NoVal}
  PROVE  Tidy(Edited(o, n, v)) /\ Edited(o, n, v).revision = show.revision
<1> DEFINE new == [o EXCEPT !.name = n, !.val = v]
           t == Edited(o, n, v)
<1>1. /\ IsState(t) /\ t.revision = show.revision /\ t.minted = show.minted
      /\ t.objs = (show.objs \ {o}) \cup {new}
      /\ t.active = show.active /\ t.order = show.order /\ t.members = show.members
      /\ t.instances = show.instances /\ t.layers = show.layers /\ t.desk = show.desk
  <2>1. IsState(show)
    BY DEF Tidy
  <2> QED BY <2>1 DEF Edited, IsState
<1>2. o \in ObjRecords(show)
  BY DEF Tidy, ObjRecords
<1>3. new.kind = o.kind /\ new.id = o.id /\ new \in ObjRecords(t)
  BY <1>1, <1>2 DEF ObjRecords
<1> HIDE DEF new, t
<1>4. \A k : Ids(t, k) = Ids(show, k)
  BY <1>1, <1>3 DEF Ids, Objs
<1>5. t.objs \subseteq ObjRecords(t)
  BY <1>1, <1>3 DEF Tidy, ObjRecords
<1>6. \A a, b \in t.objs : a.id = b.id => a = b
  BY <1>1, <1>3 DEF Tidy
<1>7. t.active \subseteq {x.id : x \in t.objs}
  BY <1>1, <1>3 DEF Tidy
<1>8. InstancesHaveMembers(t) /\ StartsDistinct(t)
  BY <1>1, <1>4 DEF Tidy, InstancesHaveMembers, StartsDistinct
<1>9. IsFiniteSet(t.objs)
  <2>1. IsFiniteSet(show.objs)
    BY DEF Tidy
  <2>2. IsFiniteSet(show.objs \ {o})
    BY <2>1, FS_RemoveElement
  <2> QED BY <1>1, <2>2, FS_AddElement
<1>10. Tidy(t)
  BY <1>1, <1>4, <1>5, <1>6, <1>7, <1>8, <1>9 DEF Tidy, ObjRecords
<1> QED BY <1>1, <1>10 DEF t

\* Dropping an element of a list leaves the others.
LEMMA DroppedKeeps ==
  ASSUME NEW seq \in Seq(Nat), NEW x, \E i \in 1..Len(seq) : seq[i] = x,
         NEW rest, rest = Dropped(seq, x)
  PROVE  /\ rest \in Seq(Nat)
         /\ \A j \in 1..Len(seq) :
              seq[j] # x => \E k \in 1..Len(rest) : rest[k] = seq[j]
<1> DEFINE n == CHOOSE i \in 1..Len(seq) : seq[i] = x
           A == SubSeq(seq, 1, n - 1)
           B == SubSeq(seq, n + 1, Len(seq))
           D == A \o B
<1>1. Len(seq) \in Nat /\ n \in 1..Len(seq) /\ seq[n] = x
  OBVIOUS
<1>2. D = rest
  BY DEF Dropped
<1> HIDE DEF n
<1>3. A \in Seq(Nat) /\ Len(A) = n - 1 /\ \A i \in 1..(n - 1) : A[i] = seq[i]
  <2>1. 1..(n - 1) \subseteq 1..Len(seq)
    BY <1>1
  <2> QED BY <1>1, <2>1
<1>4. B \in Seq(Nat) /\ Len(B) = Len(seq) - n /\ \A i \in 1..(Len(seq) - n) : B[i] = seq[n + i]
  <2>1. (n + 1)..Len(seq) \subseteq 1..Len(seq)
    BY <1>1
  <2> QED BY <1>1, <2>1
<1> HIDE DEF A, B
<1>5. /\ D \in Seq(Nat) /\ Len(D) = Len(seq) - 1
      /\ \A i \in 1..Len(D) : D[i] = IF i <= n - 1 THEN A[i] ELSE B[i - (n - 1)]
  <2>1. /\ D \in Seq(Nat) /\ Len(D) = Len(A) + Len(B)
        /\ \A i \in 1..(Len(A) + Len(B)) : D[i] = IF i <= Len(A) THEN A[i] ELSE B[i - Len(A)]
    BY <1>3, <1>4, ConcatProperties
  <2>2. Len(A) + Len(B) = Len(seq) - 1
    BY <1>1, <1>3, <1>4
  <2> QED BY <1>3, <2>1, <2>2
<1> HIDE DEF D
<1>6. ASSUME NEW j \in 1..Len(seq), seq[j] # x
      PROVE  \E k \in 1..Len(D) : D[k] = seq[j]
  <2>1. j # n
    BY <1>1, <1>6
  <2>2. CASE j < n
    <3>1. j \in 1..Len(D) /\ j <= n - 1
      BY <1>1, <1>5, <2>2
    <3>2. D[j] = A[j] /\ A[j] = seq[j]
      BY <1>1, <1>3, <1>5, <2>2, <3>1
    <3> QED BY <3>1, <3>2
  <2>3. CASE j > n
    <3>1. j - 1 \in 1..Len(D) /\ j - n \in 1..Len(B) /\ j - n \in 1..(Len(seq) - n)
      BY <1>1, <1>4, <1>5, <2>3
    <3>2. D[j - 1] = B[j - n]
      <4>1. ~(j - 1 <= n - 1) /\ (j - 1) - (n - 1) = j - n
        BY <1>1, <2>3
      <4> QED BY <1>5, <3>1, <4>1
    <3>3. B[j - n] = seq[j]
      <4>1. n + (j - n) = j
        BY <1>1
      <4> QED BY <1>4, <3>1, <4>1
    <3> QED BY <3>1, <3>2, <3>3
  <2> QED BY <1>1, <2>1, <2>2, <2>3
<1> QED BY <1>2, <1>5, <1>6

\* An object that goes leaves the others listed, active and addressed, if the
\* instances that remain still have their deployment, pool and member.
LEMMA RemovalIsTidy ==
  ASSUME Tidy(show), NEW o \in show.objs, NEW t, IsState(t),
         t.revision = show.revision, t.minted = show.minted,
         t.objs = show.objs \ {o}, t.active = show.active \ {o.id},
         t.order = IF o.kind = "scene" THEN Dropped(show.order, o.id) ELSE show.order,
         t.members \subseteq show.members, t.instances \subseteq show.instances,
         t.layers \subseteq LayerRecords, t.desk = show.desk, InstancesHaveMembers(t)
  PROVE  Tidy(t)
<1>1. t.active \subseteq {x.id : x \in t.objs}
  BY DEF Tidy
<1>2. show.order \in Seq(Nat) /\ Ids(show, "scene") \subseteq Listed(show)
  BY DEF Tidy, Listed
<1>3. t.order \in Seq(Nat) /\ Ids(t, "scene") \subseteq Listed(t)
  <2>1. ASSUME NEW i \in Ids(t, "scene")
        PROVE  i \in Ids(show, "scene") /\ i # o.id
    <3>1. PICK x \in t.objs : x.kind = "scene" /\ x.id = i
      BY IdsOf
    <3>2. x # o /\ x \in show.objs
      OBVIOUS
    <3> QED BY <3>1, <3>2, IdsOf DEF Tidy
  <2>2. CASE o.kind = "scene"
    <3>1. o.id \in Ids(show, "scene")
      BY <2>2, IdsOf
    <3>2. \E j \in 1..Len(show.order) : show.order[j] = o.id
      BY <1>2, <3>1 DEF Listed
    <3>3. t.order = Dropped(show.order, o.id)
      BY <2>2
    <3>4. /\ t.order \in Seq(Nat)
          /\ \A j \in 1..Len(show.order) :
               show.order[j] # o.id => \E k \in 1..Len(t.order) : t.order[k] = show.order[j]
      <4> DEFINE list == show.order
                 gone == o.id
                 rest == t.order
      <4>1. list \in Seq(Nat) /\ (\E j \in 1..Len(list) : list[j] = gone) /\ rest = Dropped(list, gone)
        BY <1>2, <3>2, <3>3
      <4> HIDE DEF list, gone, rest
      <4>2. /\ rest \in Seq(Nat)
            /\ \A j \in 1..Len(list) :
                 list[j] # gone => \E k \in 1..Len(rest) : rest[k] = list[j]
        BY <4>1, DroppedKeeps, Z3
      <4> QED BY <4>2 DEF list, gone, rest
    <3>5. ASSUME NEW i \in Ids(t, "scene") PROVE i \in Listed(t)
      <4>1. PICK j \in 1..Len(show.order) : show.order[j] = i
        BY <1>2, <2>1, <3>5 DEF Listed
      <4> QED BY <2>1, <3>4, <3>5, <4>1 DEF Listed
    <3> QED BY <3>4, <3>5
  <2>3. CASE o.kind # "scene"
    BY <1>2, <2>1, <2>3 DEF Listed
  <2> QED BY <2>2, <2>3
<1>4. IsFiniteSet(t.objs) /\ IsFiniteSet(t.members)
  <2>1. IsFiniteSet(show.objs) /\ IsFiniteSet(show.members)
    BY DEF Tidy
  <2> QED BY <2>1, FS_RemoveElement, FS_Subset
<1>5. StartsDistinct(t)
  BY DEF Tidy, StartsDistinct
<1>6. t.objs \subseteq ObjRecords(t) /\ \A a, b \in t.objs : a.id = b.id => a = b
  BY DEF Tidy, ObjRecords
<1>7. /\ t.members \subseteq [pool : Nat, id : Nat, fixture : Fixtures]
      /\ t.instances \subseteq [id : 1..t.minted, dep : Nat, pool : Nat, member : Nat, at : Nat \X Nat]
      /\ t.revision \in 1..MaxRevision /\ t.minted \in Nat
      /\ \A d \in t.desk : d.key \in Keys
  BY DEF Tidy
<1> QED
  BY <1>1, <1>3, <1>4, <1>5, <1>6, <1>7 DEF Tidy, Listed, ObjRecords, LayerRecords

\* Activating an object that exists activates no other of its kind.
LEMMA ActivationIsTidy ==
  ASSUME Tidy(show), NEW k, NEW o \in Objs(show, k)
  PROVE  Tidy(Activated(k, o)) /\ Activated(k, o).revision = show.revision
<1> DEFINE t == Activated(k, o)
<1>1. IsState(show) /\ o \in show.objs
  BY DEF Tidy, Objs
<1>2. /\ IsState(t) /\ t.revision = show.revision /\ t.minted = show.minted
      /\ t.objs = show.objs
      /\ t.active = (show.active \ Ids(show, k)) \cup {o.id}
      /\ t.order = show.order /\ t.members = show.members
      /\ t.instances = show.instances /\ t.layers = show.layers /\ t.desk = show.desk
  BY <1>1 DEF Activated, IsState
<1> HIDE DEF t
<1>3. t.active \subseteq {x.id : x \in t.objs}
  BY <1>1, <1>2 DEF Tidy
<1>4. \A q : Ids(t, q) = Ids(show, q)
  BY <1>2 DEF Ids, Objs
<1>5. InstancesHaveMembers(t) /\ StartsDistinct(t)
  BY <1>2, <1>4 DEF Tidy, InstancesHaveMembers, StartsDistinct
<1>6. Tidy(t)
  BY <1>2, <1>3, <1>4, <1>5 DEF Tidy
<1> QED BY <1>2, <1>6 DEF t

\* A permutation of the list of scenes lists the same scenes, so that no scene
\* is lost.
LEMMA ReorderingIsTidy ==
  ASSUME Tidy(show), NEW order \in Permutations(Len(show.order))
  PROVE  Tidy(reorderScenes(order)) /\ reorderScenes(order).revision = show.revision
<1> DEFINE N == Len(show.order)
           list == [i \in 1..Len(show.order) |-> show.order[order[i]]]
           kept == {list[i] : i \in 1..Len(list)}
           t == reorderScenes(order)
<1>1. IsState(show) /\ show.order \in Seq(Nat) /\ N \in Nat
  BY DEF Tidy
<1>2. order \in [1..N -> 1..N] /\ \A i, j \in 1..N : order[i] = order[j] => i = j
  BY DEF Permutations
<1>3. \A j \in 1..N : \E i \in 1..N : order[i] = j
  <2>1. order \in Injection(1..N, 1..N)
    BY <1>2 DEF Injection, IsInjective
  <2>2. IsFiniteSet(1..N)
    BY <1>1, FS_Interval
  <2>3. order \in Surjection(1..N, 1..N)
    BY <2>1, <2>2, FS_Injection
  <2> QED BY <2>3 DEF Surjection
<1>4. list \in Seq(Nat) /\ Len(list) = N /\ \A i \in 1..N : list[i] = show.order[order[i]]
  <2>1. ASSUME NEW i \in 1..N PROVE show.order[order[i]] \in Nat
    <3>1. order[i] \in 1..N
      BY <1>2
    <3> QED BY <1>1, <3>1, ElementOfSeq
  <2>2. list \in [1..N -> Nat]
    BY <2>1
  <2> QED BY <1>1, <2>2
<1>5. /\ IsState(t) /\ t.revision = show.revision /\ t.minted = show.minted
      /\ t.objs = {o \in show.objs : o.kind = "scene" => o.id \in kept}
      /\ t.active = show.active /\ t.order = list /\ t.members = show.members
      /\ t.instances = show.instances /\ t.desk = show.desk
      /\ t.layers = {l \in show.layers : l.scene \in kept}
  <2>1. t = [show EXCEPT !.order = list,
                         !.objs = {o \in @ : o.kind = "scene" => o.id \in kept},
                         !.layers = {l \in @ : l.scene \in kept}]
    BY DEF reorderScenes
  <2> HIDE DEF list, kept, t
  <2> QED BY <1>1, <2>1 DEF IsState
<1> HIDE DEF list, t
<1>6. \A i \in Listed(show) : i \in kept
  <2> SUFFICES ASSUME NEW j \in 1..N PROVE show.order[j] \in kept
    BY DEF Listed
  <2>1. PICK i \in 1..N : order[i] = j
    BY <1>3
  <2>2. i \in 1..Len(list) /\ list[i] = show.order[j]
    BY <1>4, <2>1
  <2> QED BY <2>2
<1>7. \A o \in show.objs : o.kind = "scene" => o.id \in kept
  BY <1>6, IdsOf DEF Tidy, Listed
<1>8. t.objs = show.objs
  BY <1>5, <1>7
<1>9. \A q : Ids(t, q) = Ids(show, q)
  BY <1>8 DEF Ids, Objs
<1>10. InstancesHaveMembers(t) /\ StartsDistinct(t)
  BY <1>5, <1>9 DEF Tidy, InstancesHaveMembers, StartsDistinct
<1>11. Ids(t, "scene") \subseteq Listed(t)
  <2>1. Ids(t, "scene") \subseteq Listed(show)
    BY <1>9 DEF Tidy, Listed
  <2>2. kept = Listed(t)
    BY <1>5 DEF Listed
  <2> QED BY <1>6, <2>1, <2>2
<1>12. t.layers \subseteq LayerRecords
  BY <1>5 DEF Tidy, LayerRecords
<1>13. Tidy(t)
  BY <1>4, <1>5, <1>8, <1>10, <1>11, <1>12 DEF Tidy, Listed, LayerRecords
<1> QED BY <1>5, <1>13 DEF t

\* No command names a target that is not one of the four kinds.
LEMMA SelectionsTyped ==
  ASSUME Tidy(show)
  PROVE  Selections \subseteq SUBSET [to : {"pool", "group", "instance", "fixture"}, id : Int]
<1> DEFINE T == [to : {"pool", "group", "instance", "fixture"}, id : Int]
<1>1. \A k : Ids(show, k) \subseteq Int
  BY IdsOf DEF Tidy
<1>2. InstanceIds(show) \subseteq Int /\ {m.id : m \in show.members} \subseteq Int
  BY DEF Tidy, InstanceIds
<1>3. Targets(show) \subseteq T
  <2>1. /\ {[to |-> "pool", id |-> i] : i \in Ids(show, "pool")} \subseteq T
        /\ {[to |-> "group", id |-> i] : i \in Ids(show, "group")} \subseteq T
    BY <1>1
  <2>2. {[to |-> "instance", id |-> i] : i \in InstanceIds(show)} \subseteq T
    BY <1>2
  <2>3. {[to |-> "fixture", id |-> m.id] : m \in show.members} \subseteq T
    BY <1>2
  <2> QED BY <2>1, <2>2, <2>3 DEF Targets
<1>4. [to |-> "pool", id |-> Unknown] \in T
  BY DEF Unknown
<1> QED BY <1>3, <1>4 DEF Selections

\* A layer that is set keeps its scene and its kind.
LEMMA LayerSetIsTidy ==
  ASSUME Tidy(show), NEW l \in show.layers, NEW arg \in parseSceneLayerSetArgs
  PROVE  LET t == [show EXCEPT !.layers = (@ \ {l}) \cup
                     {[l EXCEPT !.ref = arg.ref, !.enabled = ~arg.disable,
                                !.sel = {x \in @ : \A u \in arg.sel : u.to # x.to} \cup arg.sel]}]
         IN  Tidy(t) /\ t.revision = show.revision
<1> DEFINE rest == {x \in l.sel : \A u \in arg.sel : u.to # x.to}
           new == [l EXCEPT !.ref = arg.ref, !.enabled = ~arg.disable, !.sel = rest \cup arg.sel]
           t == [show EXCEPT !.layers = (@ \ {l}) \cup {new}]
<1>1. /\ arg.ref \in {NoRef, Unknown} \cup UNION {Ids(show, RefKind[k]) : k \in LayerKinds}
      /\ arg.disable \in BOOLEAN /\ arg.sel \in Selections
  BY DEF parseSceneLayerSetArgs
<1>2. \A k : Ids(show, k) \subseteq Int
  BY IdsOf DEF Tidy
<1>3. arg.ref \in Int
  BY <1>1, <1>2 DEF NoRef, Unknown
<1>4. l \in LayerRecords /\ show.layers \subseteq LayerRecords
  BY DEF Tidy, LayerRecords
<1>5. arg.sel \subseteq [to : {"pool", "group", "instance", "fixture"}, id : Int]
  BY <1>1, SelectionsTyped
<1>6. rest \subseteq l.sel
  OBVIOUS
<1> HIDE DEF rest
<1>7. new \in LayerRecords
  BY <1>1, <1>3, <1>4, <1>5, <1>6 DEF LayerRecords
<1> HIDE DEF new
<1>8. IsState(show)
  BY DEF Tidy
<1>9. /\ IsState(t) /\ t.revision = show.revision /\ t.minted = show.minted
      /\ t.objs = show.objs /\ t.active = show.active /\ t.order = show.order
      /\ t.members = show.members /\ t.instances = show.instances /\ t.desk = show.desk
      /\ t.layers = (show.layers \ {l}) \cup {new}
  BY <1>8 DEF IsState
<1> HIDE DEF t
<1>10. \A k : Ids(t, k) = Ids(show, k)
  BY <1>9 DEF Ids, Objs
<1>11. InstancesHaveMembers(t) /\ StartsDistinct(t)
  BY <1>9, <1>10 DEF Tidy, InstancesHaveMembers, StartsDistinct
<1>12. t.layers \subseteq LayerRecords
  BY <1>4, <1>7, <1>9
<1>13. Tidy(t)
  BY <1>9, <1>10, <1>11, <1>12 DEF Tidy, LayerRecords
<1> QED BY <1>9, <1>13 DEF t, new, rest

\* An instance that is moved by hand moves to a start that is free.
LEMMA ReassignmentIsTidy ==
  ASSUME Tidy(show), NEW i \in show.instances, NEW at \in Nat \X Nat,
         ~overlapsExisting(TakenIn([show EXCEPT !.instances = @ \ {i}], i.dep), at, 1)
  PROVE  LET t == [show EXCEPT !.instances = (@ \ {i}) \cup {[i EXCEPT !.at = at]}]
         IN  Tidy(t) /\ t.revision = show.revision
<1> DEFINE new == [i EXCEPT !.at = at]
           t == [show EXCEPT !.instances = (@ \ {i}) \cup {new}]
           IR == [id : 1..show.minted, dep : Nat, pool : Nat, member : Nat, at : Nat \X Nat]
<1>1. IsState(show) /\ show.instances \subseteq IR /\ i \in IR
  BY DEF Tidy
<1>2. new \in IR /\ new.at = at /\ new.dep = i.dep /\ new.pool = i.pool /\ new.member = i.member
  BY <1>1
<1> HIDE DEF new, IR
<1>3. /\ IsState(t) /\ t.revision = show.revision /\ t.minted = show.minted
      /\ t.objs = show.objs /\ t.active = show.active /\ t.order = show.order
      /\ t.members = show.members /\ t.layers = show.layers /\ t.desk = show.desk
      /\ t.instances = (show.instances \ {i}) \cup {new}
  BY <1>1 DEF IsState
<1> HIDE DEF t
<1>4. ASSUME NEW j \in show.instances \ {i}, j.dep = i.dep PROVE j.at # at
  <2> DEFINE w == [show EXCEPT !.instances = @ \ {i}]
  <2>1. w.instances = show.instances \ {i}
    BY <1>1 DEF IsState
  <2> HIDE DEF w
  <2>2. j.at \in TakenIn(w, i.dep)
    BY <1>4, <2>1 DEF TakenIn
  <2>3. ~overlapsExisting(TakenIn(w, i.dep), at, 1)
    BY DEF w
  <2>4. j.at = at => overlapsExisting(TakenIn(w, i.dep), at, 1)
    BY <2>2 DEF overlapsExisting
  <2> QED BY <2>3, <2>4
<1>5. StartsDistinct(t)
  BY <1>2, <1>3, <1>4 DEF Tidy, StartsDistinct
<1>6. \A k : Ids(t, k) = Ids(show, k)
  BY <1>3 DEF Ids, Objs
<1>7. InstancesHaveMembers(t)
  BY <1>2, <1>3, <1>6 DEF Tidy, InstancesHaveMembers
<1>8. t.instances \subseteq IR
  BY <1>1, <1>2, <1>3
<1>9. Tidy(t)
  BY <1>3, <1>5, <1>6, <1>7, <1>8 DEF Tidy, IR
<1> QED BY <1>3, <1>9 DEF t, new

-----------------------------------------------------------------------------
(* Applying a plan *)

\* What a plan may be asked for.
Requests == [pool : Nat, add : Seq(Specs), remove : SUBSET Nat, attach : SUBSET Nat,
             start : {<<1, 1>>, <<1, 2>>}]

\* A product does not shrink when a factor grows.
LEMMA TimesGrows ==
  ASSUME NEW a \in Nat, NEW b \in Nat, NEW c \in Nat, a <= b
  PROVE  c * a <= c * b /\ c * a \in Nat /\ c * b \in Nat
<1>1. PICK k \in Nat : b = a + k
  <2>1. b - a \in Nat /\ b = a + (b - a)
    OBVIOUS
  <2> QED BY <2>1
<1>2. c * b = c * a + c * k /\ c * a \in Nat /\ c * k \in Nat
  BY <1>1
<1> QED BY <1>2

\* A plan that can be made of the show can be applied to it: the new instances
\* get new ids and free addresses, and nothing is left of a removed member.
LEMMA ApplicationIsTidy ==
  ASSUME Tidy(show), NEW req \in Requests, Plannable(show, req)
  PROVE  LET t == Apply(show, BuildImpactPlan(show, req))
         IN  Tidy(t) /\ t.revision = show.revision
<1> DEFINE plan == BuildImpactPlan(show, req)
           t == Apply(show, plan)
           D == Affected(show, req)
           count == Len(req.add)
           P(d) == Proposed(show, d, req.add, req.start)
           adds == {[dep |-> d, n |-> n, at |-> P(d)[n]] : d \in D, n \in 1..count}
           gone(x) == x.pool = req.pool /\ x.member \in req.remove
           lost(m) == m.pool = req.pool /\ m.id \in req.remove
           rank(d) == Cardinality({e \in D : e < d})
           instance(added) == [id |-> show.minted + count * (1 + rank(added.dep)) + added.n,
                               dep |-> added.dep, pool |-> req.pool,
                               member |-> show.minted + added.n, at |-> added.at]
           fresh == {[pool |-> req.pool, id |-> show.minted + n, fixture |-> req.add[n].fixture] : n \in 1..count}
           new == {instance(added) : added \in adds}
           IR == [id : 1..t.minted, dep : Nat, pool : Nat, member : Nat, at : Nat \X Nat]
<1>1. /\ IsState(show) /\ show.minted \in Nat /\ IsFiniteSet(show.objs) /\ IsFiniteSet(show.members)
      /\ show.objs \subseteq ObjRecords(show)
  BY DEF Tidy, ObjRecords
<1>2. /\ req.pool \in Nat /\ req.add \in Seq(Specs) /\ count \in Nat
      /\ req.start \in Addresses /\ req.start[1] = 1
  <2>1. /\ req.pool \in Nat /\ req.add \in Seq(Specs)
        /\ req.start = <<1, 1>> \/ req.start = <<1, 2>>
    BY DEF Requests
  <2>2. <<1, 1>> \in Addresses /\ <<1, 2>> \in Addresses /\ <<1, 1>>[1] = 1 /\ <<1, 2>>[1] = 1
    BY DEF Addresses
  <2>3. req.start \in Addresses /\ req.start[1] = 1
    BY <2>1, <2>2
  <2> QED BY <2>1, <2>3
<1>3. req.pool \in Ids(show, "pool") /\ D \subseteq Ids(show, "deployment")
  BY DEF Plannable, Affected
<1>4. D \subseteq Nat /\ IsFiniteSet(D) /\ Cardinality(D) \in Nat
  <2> DEFINE idOf == [o \in show.objs |-> o.id]
             ids == {o.id : o \in show.objs}
  <2>1. idOf \in Surjection(show.objs, ids)
    BY DEF Surjection
  <2>2. IsFiniteSet(ids)
    BY <1>1, <2>1, FS_Surjection
  <2>3. D \subseteq ids /\ ids \subseteq Nat
    BY <1>1, <1>3, IdsOf DEF ObjRecords
  <2> QED BY <2>2, <2>3, FS_Subset, FS_CardinalityType
<1>5. plan = [req |-> req, revision |-> show.revision, adds |-> adds, drops |-> plan.drops, ungroups |-> plan.ungroups]
  BY DEF BuildImpactPlan
<1>6. t = [show EXCEPT
             !.members = {m \in @ : ~ lost(m)} \cup fresh,
             !.instances = {i \in @ : ~ gone(i)} \cup new,
             !.groupRefs = {r \in @ : ~ gone(r)},
             !.minted = @ + count + Cardinality(adds)]
  <2>1. plan.req = req /\ plan.adds = adds
    BY <1>5
  <2> HIDE DEF plan, adds
  <2> QED BY <2>1 DEF Apply
<1>7. \A added \in adds : added.dep \in D /\ added.n \in 1..count /\ added.at = P(added.dep)[added.n]
                     /\ added = [dep |-> added.dep, n |-> added.n, at |-> added.at]
  OBVIOUS
<1>8. Cardinality(adds) = Cardinality(D) * count
  <2> DEFINE pairs == D \X (1..count)
             f == [x \in pairs |-> [dep |-> x[1], n |-> x[2], at |-> P(x[1])[x[2]]]]
  <2>1. IsFiniteSet(pairs) /\ Cardinality(pairs) = Cardinality(D) * count
    <3>1. IsFiniteSet(1..count) /\ Cardinality(1..count) = count
      <4> HIDE DEF count
      <4>1. count \in Nat
        BY <1>2
      <4>2. /\ IsFiniteSet(1..count)
            /\ Cardinality(1..count) = IF 1 > count THEN 0 ELSE count - 1 + 1
        BY <4>1, FS_Interval
      <4> QED BY <4>1, <4>2
    <3> QED BY <1>4, <3>1, FS_Product
  <2>2. f \in [pairs -> adds]
    OBVIOUS
  <2>3. \A x, y \in pairs : f[x] = f[y] => x = y
    OBVIOUS
  <2>4. \A added \in adds : \E x \in pairs : f[x] = added
    <3>1. ASSUME NEW added \in adds PROVE \E x \in pairs : f[x] = added
      <4>1. <<added.dep, added.n>> \in pairs /\ f[<<added.dep, added.n>>] = added
        BY <1>7
      <4> HIDE DEF f, adds, pairs
      <4> QED BY <4>1
    <3> HIDE DEF f, adds, pairs
    <3> QED BY <3>1
  <2> HIDE DEF f, adds, pairs
  <2>5. f \in Bijection(pairs, adds)
    BY <2>2, <2>3, <2>4 DEF Bijection, Injection, Surjection, IsInjective
  <2>6. ExistsBijection(pairs, adds)
    BY <2>5 DEF ExistsBijection
  <2> QED BY <2>1, <2>6, FS_Bijection
<1>9. ASSUME NEW d \in D
      PROVE  rank(d) \in Nat /\ rank(d) + 1 <= Cardinality(D)
  <2> DEFINE below == {e \in D : e < d}
  <2>1. below \subseteq D \ {d}
    BY <1>4
  <2>2. IsFiniteSet(D \ {d}) /\ Cardinality(D \ {d}) = Cardinality(D) - 1
    BY <1>4, FS_RemoveElement
  <2>3. IsFiniteSet(below) /\ Cardinality(below) <= Cardinality(D \ {d})
    BY <2>1, <2>2, FS_Subset
  <2>4. Cardinality(below) \in Nat
    BY <2>3, FS_CardinalityType
  <2> QED BY <1>4, <2>2, <2>3, <2>4
<1>10. /\ IsState(t) /\ t.revision = show.revision
       /\ t.minted = show.minted + count + Cardinality(adds)
       /\ t.objs = show.objs /\ t.active = show.active /\ t.order = show.order
       /\ t.members = {m \in show.members : ~ lost(m)} \cup fresh
       /\ t.instances = {i \in show.instances : ~ gone(i)} \cup new
       /\ t.layers = show.layers /\ t.desk = show.desk
  <2> HIDE DEF t, fresh, new, adds
  <2> QED BY <1>1, <1>6 DEF IsState
<1> HIDE DEF t, plan
<1>11. ASSUME NEW d \in D, NEW n \in 1..count
       PROVE  /\ P(d)[n] \in Addresses
              /\ P(d)[n] \notin TakenIn(show, d)
              /\ \A m \in 1..(n - 1) : P(d)[m] # P(d)[n]
  <2>1. P(d)[n] # NoAddress
    BY DEF Plannable
  <2>2. TakenIn(show, d) \in SUBSET Addresses
    BY DEF Tidy, TakenIn, Addresses
  <2> QED BY <1>2, <2>1, <2>2, ProposedAreFree
<1> HIDE DEF P, D, rank, count, adds
<1>12. count * Cardinality(D) \in Nat /\ t.minted = show.minted + count + count * Cardinality(D) /\ t.minted \in Nat
  <2>1. Cardinality(D) * count = count * Cardinality(D) /\ count * Cardinality(D) \in Nat
    BY <1>2, <1>4
  <2> QED BY <1>1, <1>2, <1>8, <1>10, <2>1
<1>13. ASSUME NEW added \in adds PROVE instance(added) \in IR
  <2>1. added.dep \in D /\ added.n \in 1..count /\ added.at = P(added.dep)[added.n]
    BY <1>7
  <2>2. added.at \in Nat \X Nat
    BY <1>11, <2>1 DEF Addresses
  <2>3. rank(added.dep) \in Nat /\ rank(added.dep) + 1 <= Cardinality(D)
    BY <1>9, <2>1
  <2> DEFINE steps == count * (1 + rank(added.dep))
  <2>4. steps \in Nat /\ steps <= count * Cardinality(D)
    BY <1>2, <1>4, <2>3, TimesGrows
  <2> HIDE DEF steps
  <2>5. show.minted + steps + added.n \in 1..t.minted
    BY <1>1, <1>2, <1>12, <2>1, <2>4
  <2>6. added.dep \in Nat
    BY <1>4, <2>1
  <2>7. added.n \in Nat /\ show.minted + added.n \in Nat
    BY <1>1, <1>2, <2>1
  <2> QED BY <1>2, <2>2, <2>5, <2>6, <2>7 DEF steps
<1>14. t.instances \subseteq IR
  <2>1. 1..show.minted \subseteq 1..t.minted
    BY <1>1, <1>2, <1>12
  <2>2. show.instances \subseteq IR
    BY <2>1 DEF Tidy
  <2> HIDE DEF IR, instance, gone
  <2> QED BY <1>10, <1>13, <2>2
<1>15. fresh \subseteq [pool : Nat, id : Nat, fixture : Fixtures] /\ IsFiniteSet(fresh)
  <2>1. ASSUME NEW n \in 1..count
        PROVE  [pool |-> req.pool, id |-> show.minted + n, fixture |-> req.add[n].fixture]
                 \in [pool : Nat, id : Nat, fixture : Fixtures]
    <3>1. req.add[n] \in Specs
      BY <1>2, ElementOfSeq DEF count
    <3> QED BY <1>1, <1>2, <3>1 DEF Specs
  <2> DEFINE f == [n \in 1..count |->
                     [pool |-> req.pool, id |-> show.minted + n, fixture |-> req.add[n].fixture]]
  <2>2. f \in Surjection(1..count, fresh)
    BY DEF Surjection
  <2>3. IsFiniteSet(1..count)
    BY <1>2, FS_Interval
  <2>4. IsFiniteSet(fresh)
    BY <2>2, <2>3, FS_Surjection
  <2> QED BY <2>1, <2>4
<1>16. t.members \subseteq [pool : Nat, id : Nat, fixture : Fixtures] /\ IsFiniteSet(t.members)
  <2> DEFINE kept == {m \in show.members : ~ lost(m)}
  <2>1. kept \subseteq show.members
    OBVIOUS
  <2>2. IsFiniteSet(kept) /\ kept \subseteq [pool : Nat, id : Nat, fixture : Fixtures]
    BY <1>1, <2>1, FS_Subset DEF Tidy
  <2> HIDE DEF fresh
  <2>3. t.members = kept \cup fresh
    BY <1>10
  <2> HIDE DEF kept
  <2> QED BY <1>15, <2>2, <2>3, FS_Union
<1>17. \A k : Ids(t, k) = Ids(show, k)
  BY <1>10 DEF Ids, Objs
<1>18. InstancesHaveMembers(t)
  <2> SUFFICES ASSUME NEW i \in t.instances
               PROVE  /\ i.dep \in Ids(show, "deployment") /\ i.pool \in Ids(show, "pool")
                      /\ \E m \in t.members : m.id = i.member /\ m.pool = i.pool
    BY <1>17 DEF InstancesHaveMembers
  <2>1. CASE i \in show.instances /\ ~ gone(i)
    <3>1. PICK m \in show.members : m.id = i.member /\ m.pool = i.pool
      BY <2>1 DEF Tidy, InstancesHaveMembers
    <3>2. m \in t.members
      BY <1>10, <2>1, <3>1
    <3> QED BY <2>1, <3>1, <3>2 DEF Tidy, InstancesHaveMembers
  <2>2. CASE i \in new
    <3>1. PICK added \in adds : i = instance(added)
      BY <2>2
    <3>2. i.dep = added.dep /\ i.pool = req.pool /\ i.member = show.minted + added.n
      BY <3>1
    <3>3. added.dep \in D /\ added.n \in 1..count
      BY <1>7
    <3>4. PICK m \in fresh : m.pool = req.pool /\ m.id = show.minted + added.n
      <4> DEFINE m == [pool |-> req.pool, id |-> show.minted + added.n, fixture |-> req.add[added.n].fixture]
      <4>1. m \in fresh /\ m.pool = req.pool /\ m.id = show.minted + added.n
        BY <3>3
      <4> HIDE DEF fresh, m
      <4> QED BY <4>1
    <3> HIDE DEF fresh
    <3>5. m \in t.members
      BY <1>10
    <3> QED BY <1>3, <3>2, <3>3, <3>4, <3>5
  <2> HIDE DEF new, gone
  <2> QED BY <1>10, <2>1, <2>2
<1>19. StartsDistinct(t)
  <2> SUFFICES ASSUME NEW i \in t.instances, NEW j \in t.instances, i.dep = j.dep, i.at = j.at
               PROVE  i = j
    BY DEF StartsDistinct
  <2> DEFINE old(x) == x \in show.instances
  <2>1. \A x \in t.instances : old(x) \/ x \in new
    <3> HIDE DEF new
    <3> QED BY <1>10
  <2>2. ASSUME NEW x, NEW y, old(x), y \in new, x.dep = y.dep, x.at = y.at
        PROVE  FALSE
    <3>1. PICK added \in adds : y = instance(added)
      BY <2>2
    <3>2. y.dep = added.dep /\ y.at = added.at
      BY <3>1
    <3>3. added.at \notin TakenIn(show, added.dep)
      BY <1>7, <1>11
    <3>4. x.at \in TakenIn(show, added.dep)
      BY <2>2, <3>2 DEF TakenIn
    <3> QED BY <2>2, <3>2, <3>3, <3>4
  <2>3. CASE i \in new /\ j \in new
    <3>1. PICK added \in adds : i = instance(added)
      BY <2>3
    <3>2. PICK oq \in adds : j = instance(oq)
      BY <2>3
    <3>3. added.dep = oq.dep /\ added.at = oq.at
      BY <3>1, <3>2
    <3>4. /\ added.dep \in D /\ added.n \in 1..count /\ oq.n \in 1..count
          /\ P(added.dep)[added.n] = P(added.dep)[oq.n]
      BY <1>7, <3>3
    <3>5. ~(added.n < oq.n) /\ ~(oq.n < added.n)
      <4>1. added.n \in Nat /\ oq.n \in Nat
        BY <1>2, <3>4
      <4>2. added.n < oq.n => added.n \in 1..(oq.n - 1)
        BY <1>2, <3>4
      <4>3. oq.n < added.n => oq.n \in 1..(added.n - 1)
        BY <1>2, <3>4
      <4> QED BY <1>11, <3>4, <4>2, <4>3
    <3>6. added.n = oq.n
      BY <1>2, <3>4, <3>5
    <3>7. added = oq
      BY <1>7, <3>3, <3>6
    <3> QED BY <3>1, <3>2, <3>7
  <2>4. CASE old(i) /\ old(j)
    BY <2>4 DEF Tidy, StartsDistinct
  <2> HIDE DEF new
  <2> QED BY <2>1, <2>2, <2>3, <2>4
<1>20. t.objs \subseteq ObjRecords(t)
  <2>1. 1..show.minted \subseteq 1..t.minted
    BY <1>1, <1>2, <1>12
  <2> QED BY <1>1, <1>10, <2>1 DEF ObjRecords
<1>21. /\ \A a, b \in t.objs : a.id = b.id => a = b
       /\ t.active \subseteq {o.id : o \in t.objs}
       /\ t.order \in Seq(Nat)
       /\ Ids(t, "scene") \subseteq Listed(t)
       /\ t.layers \subseteq LayerRecords
       /\ \A d \in t.desk : d.key \in Keys
       /\ IsFiniteSet(t.objs)
       /\ t.revision \in 1..MaxRevision
  <2> HIDE DEF fresh, new, gone, lost
  <2> QED BY <1>10, <1>17 DEF Tidy, LayerRecords, Listed
<1>22. Tidy(t)
  <2> HIDE DEF fresh, new, gone, lost
  <2> QED BY <1>10, <1>12, <1>14, <1>16, <1>18, <1>19, <1>20, <1>21
    DEF Tidy, LayerRecords, Listed, ObjRecords
<1> QED BY <1>10, <1>22 DEF t, plan

-----------------------------------------------------------------------------
(* Deletions *)

\* Removing an object touches the objects and what is active, and nothing else.
LEMMA RemovedFields ==
  ASSUME IsState(show), NEW o
  PROVE  LET t == Removed(o)
         IN  /\ IsState(t)
             /\ t.revision = show.revision /\ t.minted = show.minted
             /\ t.objs = show.objs \ {o} /\ t.active = show.active \ {o.id}
             /\ t.order = show.order /\ t.steps = show.steps /\ t.members = show.members
             /\ t.instances = show.instances /\ t.groupRefs = show.groupRefs
             /\ t.layers = show.layers /\ t.controls = show.controls /\ t.desk = show.desk
<1> DEFINE t == Removed(o)
           objs == show.objs \ {o}
           active == show.active \ {o.id}
<1>1. t = [show EXCEPT !.objs = objs, !.active = active]
  BY DEF Removed, IsState
<1> HIDE DEF t, objs, active
<1>2. /\ IsState(t)
      /\ t.revision = show.revision /\ t.minted = show.minted
      /\ t.objs = objs /\ t.active = active
      /\ t.order = show.order /\ t.steps = show.steps /\ t.members = show.members
      /\ t.instances = show.instances /\ t.groupRefs = show.groupRefs
      /\ t.layers = show.layers /\ t.controls = show.controls /\ t.desk = show.desk
  BY <1>1 DEF IsState
<1> QED BY <1>2 DEF t, objs, active

\* The layers that lose a reference are layers still.
LEMMA ScrubLayerRefFields ==
  ASSUME NEW s, IsState(s), NEW kind, NEW id
  PROVE  LET t == ScrubLayerRef(s, kind, id)
         IN  /\ IsState(t)
             /\ t.revision = s.revision /\ t.minted = s.minted
             /\ t.objs = s.objs /\ t.active = s.active
             /\ t.order = s.order /\ t.members = s.members
             /\ t.instances = s.instances /\ t.groupRefs = s.groupRefs
             /\ t.controls = s.controls /\ t.desk = s.desk
             /\ s.layers \subseteq LayerRecords =>
                  \A m \in t.layers :
                    /\ m \in LayerRecords
                    /\ m.ref # NoRef =>
                         /\ ~(m.kind = kind /\ m.ref = id)
                         /\ m \in s.layers
<1> DEFINE t == ScrubLayerRef(s, kind, id)
           cleared(l) == [l EXCEPT !.ref = NoRef, !.enabled = FALSE]
           layers == {IF l.kind = kind /\ l.ref = id THEN cleared(l) ELSE l : l \in s.layers}
<1>1. t = [s EXCEPT !.layers = layers]
  BY DEF ScrubLayerRef, IsState
<1>2. ASSUME s.layers \subseteq LayerRecords, NEW m \in layers
      PROVE  m \in LayerRecords /\ (m.ref # NoRef => ~(m.kind = kind /\ m.ref = id) /\ m \in s.layers)
  <2>1. PICK l \in s.layers : m = IF l.kind = kind /\ l.ref = id THEN cleared(l) ELSE l
    OBVIOUS
  <2>2. l \in LayerRecords
    BY <1>2
  <2>3. CASE l.kind = kind /\ l.ref = id
    <3>1. m = [l EXCEPT !.ref = NoRef, !.enabled = FALSE]
      BY <2>1, <2>3
    <3> HIDE DEF layers, cleared
    <3>2. NoRef \in Int
      BY DEF NoRef
    <3>3. m \in LayerRecords /\ m.ref = NoRef
      BY <2>2, <3>1, <3>2 DEF LayerRecords
    <3> QED BY <3>3
  <2>4. CASE ~(l.kind = kind /\ l.ref = id)
    BY <2>1, <2>2, <2>4
  <2> QED BY <2>3, <2>4
<1> HIDE DEF layers, t
<1>3. /\ IsState(t)
      /\ t.revision = s.revision /\ t.minted = s.minted
      /\ t.objs = s.objs /\ t.active = s.active
      /\ t.order = s.order /\ t.members = s.members
      /\ t.instances = s.instances /\ t.groupRefs = s.groupRefs
      /\ t.controls = s.controls /\ t.desk = s.desk /\ t.layers = layers
  BY <1>1 DEF IsState
<1> QED BY <1>2, <1>3 DEF t

\* Nothing on the rig goes with an object that is not a pool or a deployment.
LEMMA LooseRemovalIsTidy ==
  ASSUME Tidy(show), NEW o \in show.objs, o.kind \notin {"pool", "deployment"}, NEW t, IsState(t),
         t.revision = show.revision, t.minted = show.minted,
         t.objs = show.objs \ {o}, t.active = show.active \ {o.id},
         t.order = IF o.kind = "scene" THEN Dropped(show.order, o.id) ELSE show.order,
         t.members = show.members, t.instances = show.instances,
         t.layers \subseteq LayerRecords, t.desk = show.desk
  PROVE  Tidy(t)
<1>1. Ids(t, "pool") = Ids(show, "pool") /\ Ids(t, "deployment") = Ids(show, "deployment")
  BY DEF Ids, Objs
<1>2. InstancesHaveMembers(t)
  BY <1>1 DEF Tidy, InstancesHaveMembers
<1> QED BY <1>2, RemovalIsTidy

\* The instances of a pool go with it, so that the others lose nothing.
LEMMA PoolDeletion ==
  ASSUME Tidy(show), NEW o \in Objs(show, "pool")
  PROVE  LET t == DeletePool(o)
         IN  /\ Tidy(t) /\ t.revision = show.revision
             /\ t.objs = show.objs \ {o} /\ t.active = show.active \ {o.id}
             /\ t.members = {m \in show.members : m.pool # o.id}
             /\ t.instances = {i \in show.instances : i.pool # o.id}
             /\ t.groupRefs = {r \in show.groupRefs : r.pool # o.id}
             /\ t.layers = show.layers /\ t.controls = show.controls /\ t.desk = show.desk
<1> DEFINE t == DeletePool(o)
           r == Removed(o)
<1>1. IsState(show) /\ o \in show.objs /\ o.kind = "pool"
  BY DEF Tidy, Objs
<1>2. /\ IsState(r)
      /\ r.revision = show.revision /\ r.minted = show.minted
      /\ r.objs = show.objs \ {o} /\ r.active = show.active \ {o.id}
      /\ r.order = show.order /\ r.members = show.members
      /\ r.instances = show.instances /\ r.groupRefs = show.groupRefs
      /\ r.layers = show.layers /\ r.controls = show.controls /\ r.desk = show.desk
  BY <1>1, RemovedFields
<1>3. t = [r EXCEPT !.members = {m \in @ : m.pool # o.id},
                    !.instances = {i \in @ : i.pool # o.id},
                    !.groupRefs = {x \in @ : x.pool # o.id}]
  BY DEF DeletePool
<1> HIDE DEF r, t
<1>4. /\ IsState(t) /\ t.revision = show.revision /\ t.minted = show.minted
      /\ t.objs = show.objs \ {o} /\ t.active = show.active \ {o.id}
      /\ t.order = show.order
      /\ t.members = {m \in show.members : m.pool # o.id}
      /\ t.instances = {i \in show.instances : i.pool # o.id}
      /\ t.groupRefs = {x \in show.groupRefs : x.pool # o.id}
      /\ t.layers = show.layers /\ t.controls = show.controls /\ t.desk = show.desk
  BY <1>2, <1>3 DEF IsState
<1>5. InstancesHaveMembers(t)
  <2>1. Ids(t, "deployment") = Ids(show, "deployment")
    BY <1>1, <1>4 DEF Ids, Objs
  <2>2. \A i \in Ids(show, "pool") : i # o.id => i \in Ids(t, "pool")
    BY <1>1, <1>4 DEF Ids, Objs
  <2> QED BY <1>4, <2>1, <2>2 DEF Tidy, InstancesHaveMembers
<1>6. t.layers \subseteq LayerRecords
  BY <1>4 DEF Tidy, LayerRecords
<1>7. Tidy(t)
  BY <1>1, <1>4, <1>5, <1>6, RemovalIsTidy
<1> QED BY <1>4, <1>7 DEF t

\* The same for a deployment.
LEMMA DeploymentDeletion ==
  ASSUME Tidy(show), NEW o \in Objs(show, "deployment")
  PROVE  LET t == DeleteDeployment(o)
         IN  /\ Tidy(t) /\ t.revision = show.revision
             /\ t.objs = show.objs \ {o} /\ t.active = show.active \ {o.id}
             /\ t.members = show.members
             /\ t.instances = {i \in show.instances : i.dep # o.id}
             /\ t.groupRefs = show.groupRefs
             /\ t.layers = show.layers /\ t.controls = show.controls /\ t.desk = show.desk
<1> DEFINE t == DeleteDeployment(o)
           r == Removed(o)
<1>1. IsState(show) /\ o \in show.objs /\ o.kind = "deployment"
  BY DEF Tidy, Objs
<1>2. /\ IsState(r)
      /\ r.revision = show.revision /\ r.minted = show.minted
      /\ r.objs = show.objs \ {o} /\ r.active = show.active \ {o.id}
      /\ r.order = show.order /\ r.members = show.members
      /\ r.instances = show.instances /\ r.groupRefs = show.groupRefs
      /\ r.layers = show.layers /\ r.controls = show.controls /\ r.desk = show.desk
  BY <1>1, RemovedFields
<1>3. t = [r EXCEPT !.instances = {i \in @ : i.dep # o.id}]
  BY DEF DeleteDeployment
<1> HIDE DEF r, t
<1>4. /\ IsState(t) /\ t.revision = show.revision /\ t.minted = show.minted
      /\ t.objs = show.objs \ {o} /\ t.active = show.active \ {o.id}
      /\ t.order = show.order /\ t.members = show.members
      /\ t.instances = {i \in show.instances : i.dep # o.id}
      /\ t.groupRefs = show.groupRefs
      /\ t.layers = show.layers /\ t.controls = show.controls /\ t.desk = show.desk
  BY <1>2, <1>3 DEF IsState
<1>5. InstancesHaveMembers(t)
  <2>1. Ids(t, "pool") = Ids(show, "pool")
    BY <1>1, <1>4 DEF Ids, Objs
  <2>2. \A i \in Ids(show, "deployment") : i # o.id => i \in Ids(t, "deployment")
    BY <1>1, <1>4 DEF Ids, Objs
  <2> QED BY <1>4, <2>1, <2>2 DEF Tidy, InstancesHaveMembers
<1>6. t.layers \subseteq LayerRecords
  BY <1>4 DEF Tidy, LayerRecords
<1>7. Tidy(t)
  BY <1>1, <1>4, <1>5, <1>6, RemovalIsTidy
<1> QED BY <1>4, <1>7 DEF t

\* What a layer can refer to goes with the references of the layers to it.
LEMMA PlayedDeletion ==
  ASSUME Tidy(show), NEW o \in show.objs, o.kind \notin {"pool", "deployment", "scene"}, NEW kind, NEW r, IsState(r),
         r.revision = show.revision, r.minted = show.minted,
         r.objs = show.objs \ {o}, r.active = show.active \ {o.id},
         r.order = show.order, r.members = show.members, r.instances = show.instances,
         r.groupRefs = show.groupRefs, r.layers = show.layers,
         r.controls = show.controls, r.desk = show.desk
  PROVE  LET t == ScrubLayerRef(r, kind, o.id)
         IN  /\ Tidy(t) /\ t.revision = show.revision
             /\ t.objs = show.objs \ {o} /\ t.active = show.active \ {o.id}
             /\ t.members = show.members /\ t.instances = show.instances
             /\ t.groupRefs = show.groupRefs
             /\ t.controls = show.controls /\ t.desk = show.desk
             /\ \A m \in t.layers :
                  m.ref # NoRef => m \in show.layers /\ ~(m.kind = kind /\ m.ref = o.id)
<1> DEFINE t == ScrubLayerRef(r, kind, o.id)
<1>1. r.layers \subseteq LayerRecords
  BY DEF Tidy, LayerRecords
<1>2. /\ IsState(t)
      /\ t.revision = show.revision /\ t.minted = show.minted
      /\ t.objs = show.objs \ {o} /\ t.active = show.active \ {o.id}
      /\ t.order = show.order /\ t.members = show.members
      /\ t.instances = show.instances /\ t.groupRefs = show.groupRefs
      /\ t.controls = show.controls /\ t.desk = show.desk
      /\ \A m \in t.layers :
           /\ m \in LayerRecords
           /\ m.ref # NoRef => m \in show.layers /\ ~(m.kind = kind /\ m.ref = o.id)
  BY <1>1, ScrubLayerRefFields
<1> HIDE DEF t
<1>3. t.layers \subseteq LayerRecords
  BY <1>2
<1>4. Tidy(t)
  BY <1>2, <1>3, LooseRemovalIsTidy
<1> QED BY <1>2, <1>4 DEF t

\* Every kind of layer refers to a kind of object of its own.
LEMMA RefKinds ==
  /\ \A k \in LayerKinds : RefKind[k] \in {"preset", "theme", "chase", "motion"}
  /\ \A j, k \in LayerKinds : RefKind[j] = RefKind[k] => j = k
  /\ RefKind["base_look"] = "preset" /\ RefKind["color_theme"] = "theme"
  /\ RefKind["chase"] = "chase" /\ RefKind["motion"] = "motion"
BY DEF RefKind, LayerKinds

\* At most one object of a kind stays active when some objects go.
LEMMA FewerActive ==
  ASSUME SavedShow(show), NEW s, s.objs \subseteq show.objs, s.active \subseteq show.active
  PROVE  ValidateSingleActive(s)
<1> SUFFICES ASSUME NEW k \in {"deployment", "scene"}
             PROVE  Cardinality(s.active \cap Ids(s, k)) <= 1
  BY DEF ValidateSingleActive
<1> DEFINE now == s.active \cap Ids(s, k)
           before == show.active \cap Ids(show, k)
           ids == {o.id : o \in show.objs}
           idOf == [o \in show.objs |-> o.id]
<1>1. IsFiniteSet(show.objs) /\ show.active \subseteq ids
  BY DEF SavedShow, Tidy
<1>2. idOf \in Surjection(show.objs, ids)
  BY DEF Surjection
<1>3. IsFiniteSet(ids)
  BY <1>1, <1>2, FS_Surjection
<1>4. IsFiniteSet(before)
  BY <1>1, <1>3, FS_Subset
<1>5. Cardinality(before) <= 1 /\ Cardinality(before) \in Nat
  BY <1>4, FS_CardinalityType DEF SavedShow, validate, ValidateSingleActive
<1>6. Ids(s, k) \subseteq Ids(show, k)
  BY DEF Ids, Objs
<1>7. now \subseteq before
  BY <1>6
<1> HIDE DEF now, before
<1>8. IsFiniteSet(now) /\ Cardinality(now) <= Cardinality(before) /\ Cardinality(now) \in Nat
  BY <1>4, <1>7, FS_Subset, FS_CardinalityType
<1>9. Cardinality(now) <= 1
  BY <1>5, <1>8
<1> QED BY <1>9 DEF now

\* A deletion passes the tests when what remains of the groups, the layers and
\* the surfaces refers to nothing that went.
LEMMA DeletionPasses ==
  ASSUME SavedShow(show), NEW o, NEW t, Tidy(t),
         t.objs = show.objs \ {o}, t.active \subseteq show.active,
         t.instances \subseteq show.instances, t.desk = show.desk,
         ValidateGroupReferences(t), ValidateSurfaces(t), ValidateLayerReferences(t)
  PROVE  validate(Scrubbed(t))
<1> DEFINE u == Scrubbed(t)
<1>1. /\ u.objs = t.objs /\ u.active = t.active /\ u.members = t.members
      /\ u.instances = t.instances /\ u.groupRefs = t.groupRefs
      /\ u.controls = t.controls
      /\ u.layers = {[l EXCEPT !.sel = @ \cap Targets(t)] : l \in t.layers}
      /\ u.desk = {d \in t.desk : d.instance \in InstanceIds(t)}
  BY ScrubbedFields DEF Tidy
<1> HIDE DEF u
<1>2. ValidateUniqueNames(u)
  BY <1>1 DEF SavedShow, validate, ValidateUniqueNames
<1>3. ValidateSingleActive(u)
  <2>1. u.objs \subseteq show.objs /\ u.active \subseteq show.active
    BY <1>1
  <2> QED BY <2>1, FewerActive
<1>4. \A i \in u.instances : ValidateInstanceAddress(i)
  BY <1>1 DEF SavedShow, validate
<1>5. (\A k : Ids(u, k) = Ids(t, k)) /\ InstanceIds(u) = InstanceIds(t)
  BY <1>1 DEF Ids, Objs, InstanceIds
<1>6. ValidateGroupReferences(u)
  BY <1>1, <1>5 DEF ValidateGroupReferences
<1>7. ValidateSurfaces(u)
  BY <1>1, <1>5 DEF ValidateSurfaces
<1>8. ValidateLayerReferences(u)
  <2> SUFFICES ASSUME NEW m \in u.layers
               PROVE  m.ref = NoRef \/ m.ref \in Ids(t, RefKind[m.kind])
    BY <1>5 DEF ValidateLayerReferences
  <2>1. PICK l \in t.layers : m = [l EXCEPT !.sel = @ \cap Targets(t)]
    BY <1>1
  <2>2. l \in LayerRecords
    BY DEF Tidy, LayerRecords
  <2>3. m.ref = l.ref /\ m.kind = l.kind
    BY <2>1, <2>2 DEF LayerRecords
  <2> QED BY <2>3 DEF ValidateLayerReferences
<1>9. ValidateDesk(u)
  <2>1. \A d \in u.desk : d \in show.desk /\ d.instance \in InstanceIds(u)
    BY <1>1, <1>5
  <2>2. \A a, b \in show.desk : a.key = b.key => a = b
    BY DEF SavedShow, validate, ValidateDesk
  <2> QED BY <2>1, <2>2 DEF ValidateDesk
<1>10. validate(u)
  BY <1>2, <1>3, <1>4, <1>6, <1>7, <1>8, <1>9 DEF validate
<1> QED BY <1>10 DEF u

\* Groups and surfaces lose nothing with an object of a kind they do not name.
LEMMA OthersKeepReferences ==
  ASSUME SavedShow(show), NEW o \in show.objs, NEW t, t.objs = show.objs \ {o}
  PROVE  /\ o.kind # "pool" /\ t.groupRefs = show.groupRefs /\ t.members = show.members
              => ValidateGroupReferences(t)
         /\ o.kind \notin {"scene", "group"} /\ t.controls \subseteq show.controls
              => ValidateSurfaces(t)
         /\ o.kind \notin {"preset", "theme", "chase", "motion"} /\ t.layers \subseteq show.layers
              => ValidateLayerReferences(t)
<1>1. \A k : o.kind # k => Ids(t, k) = Ids(show, k)
  BY DEF Ids, Objs
<1>2. ValidateGroupReferences(show) /\ ValidateSurfaces(show) /\ ValidateLayerReferences(show)
  BY DEF SavedShow, validate
<1>3. ASSUME o.kind # "pool", t.groupRefs = show.groupRefs, t.members = show.members
      PROVE  ValidateGroupReferences(t)
  BY <1>1, <1>2, <1>3 DEF ValidateGroupReferences
<1>4. ASSUME o.kind \notin {"scene", "group"}, t.controls \subseteq show.controls
      PROVE  ValidateSurfaces(t)
  BY <1>1, <1>2, <1>4 DEF ValidateSurfaces
<1>5. ASSUME o.kind \notin {"preset", "theme", "chase", "motion"}, t.layers \subseteq show.layers
      PROVE  ValidateLayerReferences(t)
  <2>1. \A l \in show.layers : l.kind \in LayerKinds
    BY DEF SavedShow, Tidy
  <2>2. \A k \in LayerKinds : o.kind # RefKind[k]
    BY <1>5, RefKinds
  <2> QED BY <1>1, <1>2, <1>5, <2>1, <2>2 DEF ValidateLayerReferences
<1> QED BY <1>3, <1>4, <1>5

\* What a layer can play is deleted without a refusal.
LEMMA PlayedPasses ==
  ASSUME SavedShow(show), NEW kind \in LayerKinds, NEW o \in Objs(show, RefKind[kind]), NEW r, IsState(r),
         r.revision = show.revision, r.minted = show.minted,
         r.objs = show.objs \ {o}, r.active = show.active \ {o.id},
         r.order = show.order, r.members = show.members, r.instances = show.instances,
         r.groupRefs = show.groupRefs, r.layers = show.layers,
         r.controls = show.controls, r.desk = show.desk
  PROVE  LET t == ScrubLayerRef(r, kind, o.id)
         IN  Tidy(t) /\ t.revision = show.revision /\ validate(Scrubbed(t))
<1> DEFINE t == ScrubLayerRef(r, kind, o.id)
<1>1. Tidy(show) /\ validate(show)
  BY DEF SavedShow
<1>2. o \in show.objs /\ o.kind = RefKind[kind] /\ o.kind \in {"preset", "theme", "chase", "motion"}
  BY RefKinds DEF Objs
<1>3. o.kind \notin {"pool", "deployment", "scene", "group"}
  BY <1>2
<1>4. /\ Tidy(t) /\ t.revision = show.revision
      /\ t.objs = show.objs \ {o} /\ t.active = show.active \ {o.id}
      /\ t.members = show.members /\ t.instances = show.instances
      /\ t.groupRefs = show.groupRefs
      /\ t.controls = show.controls /\ t.desk = show.desk
      /\ \A m \in t.layers :
           m.ref # NoRef => m \in show.layers /\ ~(m.kind = kind /\ m.ref = o.id)
  <2>1. o \in show.objs
    BY <1>2
  <2>2. o.kind \notin {"pool", "deployment", "scene"}
    BY <1>3
  <2> QED BY <1>1, <2>1, <2>2, PlayedDeletion, Z3
<1> HIDE DEF t
<1>5. ValidateGroupReferences(t) /\ ValidateSurfaces(t)
  BY <1>2, <1>3, <1>4, OthersKeepReferences
<1>6. ValidateLayerReferences(t)
  <2> SUFFICES ASSUME NEW m \in t.layers, m.ref # NoRef
               PROVE  m.ref \in Ids(t, RefKind[m.kind])
    BY DEF ValidateLayerReferences
  <2>1. m \in show.layers /\ ~(m.kind = kind /\ m.ref = o.id)
    BY <1>4
  <2>2. m.ref \in Ids(show, RefKind[m.kind]) /\ m.kind \in LayerKinds
    BY <1>1, <2>1 DEF validate, ValidateLayerReferences, Tidy
  <2>3. PICK x \in show.objs : x.kind = RefKind[m.kind] /\ x.id = m.ref
    BY <2>2, IdsOf
  <2>4. x # o
    BY <1>2, <2>1, <2>2, <2>3, RefKinds
  <2> QED BY <1>4, <2>3, <2>4, IdsOf
<1>7. t.active \subseteq show.active /\ t.instances \subseteq show.instances
  BY <1>4
<1>8. validate(Scrubbed(t))
  BY <1>4, <1>5, <1>6, <1>7, DeletionPasses
<1> QED BY <1>4, <1>8 DEF t

\* No deletion of an object that exists is refused, and each leaves the state
\* tidy.
LEMMA PoolDeletePasses ==
  ASSUME SavedShow(show), NEW o \in Objs(show, "pool")
  PROVE  /\ Tidy(DeletePool(o)) /\ DeletePool(o).revision = show.revision
         /\ validate(Scrubbed(DeletePool(o)))
<1> DEFINE t == DeletePool(o)
<1>1. Tidy(show) /\ validate(show) /\ o \in show.objs /\ o.kind = "pool"
  BY DEF SavedShow, Objs
<1>2. /\ Tidy(t) /\ t.revision = show.revision
      /\ t.objs = show.objs \ {o} /\ t.active = show.active \ {o.id}
      /\ t.members = {m \in show.members : m.pool # o.id}
      /\ t.instances = {i \in show.instances : i.pool # o.id}
      /\ t.groupRefs = {r \in show.groupRefs : r.pool # o.id}
      /\ t.layers = show.layers /\ t.controls = show.controls /\ t.desk = show.desk
  BY <1>1, PoolDeletion
<1> HIDE DEF t
<1>3. ValidateGroupReferences(t)
  <2>1. \A i \in Ids(show, "pool") : i # o.id => i \in Ids(t, "pool")
    BY <1>2 DEF Ids, Objs
  <2> QED BY <1>1, <1>2, <2>1 DEF validate, ValidateGroupReferences
<1>4. ValidateSurfaces(t) /\ ValidateLayerReferences(t)
  BY <1>1, <1>2, OthersKeepReferences
<1>5. t.active \subseteq show.active /\ t.instances \subseteq show.instances
  BY <1>2
<1>6. validate(Scrubbed(t))
  BY <1>2, <1>3, <1>4, <1>5, DeletionPasses
<1> QED BY <1>2, <1>6 DEF t

\* A deployment goes with its instances; faders and selections are scrubbed.
LEMMA DeploymentDeletePasses ==
  ASSUME SavedShow(show), NEW o \in Objs(show, "deployment")
  PROVE  /\ Tidy(DeleteDeployment(o)) /\ DeleteDeployment(o).revision = show.revision
         /\ validate(Scrubbed(DeleteDeployment(o)))
<1> DEFINE t == DeleteDeployment(o)
<1>1. Tidy(show) /\ o \in show.objs /\ o.kind = "deployment"
  BY DEF SavedShow, Objs
<1>2. /\ Tidy(t) /\ t.revision = show.revision
      /\ t.objs = show.objs \ {o} /\ t.active = show.active \ {o.id}
      /\ t.members = show.members
      /\ t.instances = {i \in show.instances : i.dep # o.id}
      /\ t.groupRefs = show.groupRefs
      /\ t.layers = show.layers /\ t.controls = show.controls /\ t.desk = show.desk
  BY <1>1, DeploymentDeletion
<1> HIDE DEF t
<1>3. ValidateGroupReferences(t) /\ ValidateSurfaces(t) /\ ValidateLayerReferences(t)
  BY <1>1, <1>2, OthersKeepReferences
<1>4. t.active \subseteq show.active /\ t.instances \subseteq show.instances
  BY <1>2
<1>5. validate(Scrubbed(t))
  BY <1>2, <1>3, <1>4, DeletionPasses
<1> QED BY <1>2, <1>5 DEF t

\* The layers that played a theme lose it before the theme goes.
LEMMA ThemeDeletePasses ==
  ASSUME SavedShow(show), NEW o \in Objs(show, "theme")
  PROVE  /\ Tidy(ThemeDeleted(o)) /\ ThemeDeleted(o).revision = show.revision
         /\ validate(Scrubbed(ThemeDeleted(o)))
<1>1. IsState(show)
  BY DEF SavedShow, Tidy
<1>2. "color_theme" \in LayerKinds /\ o \in Objs(show, RefKind["color_theme"])
  BY RefKinds DEF LayerKinds
<1> QED BY <1>1, <1>2, RemovedFields, PlayedPasses DEF ThemeDeleted

\* A preset goes with what it captured, and the layers that played it lose it.
LEMMA PresetDeletePasses ==
  ASSUME SavedShow(show), NEW o \in Objs(show, "preset")
  PROVE  /\ Tidy(PresetDeleted(o)) /\ PresetDeleted(o).revision = show.revision
         /\ validate(Scrubbed(PresetDeleted(o)))
<1> DEFINE r == Removed(o)
           captured == {c \in r.captured : c.preset # o.id}
           q == [r EXCEPT !.captured = captured]
<1>1. IsState(show)
  BY DEF SavedShow, Tidy
<1>2. "base_look" \in LayerKinds /\ o \in Objs(show, RefKind["base_look"])
  BY RefKinds DEF LayerKinds
<1>3. /\ IsState(r)
      /\ r.revision = show.revision /\ r.minted = show.minted
      /\ r.objs = show.objs \ {o} /\ r.active = show.active \ {o.id}
      /\ r.order = show.order /\ r.members = show.members
      /\ r.instances = show.instances /\ r.groupRefs = show.groupRefs
      /\ r.layers = show.layers /\ r.controls = show.controls /\ r.desk = show.desk
  BY <1>1, RemovedFields
<1>4. PresetDeleted(o) = ScrubLayerRef(q, "base_look", o.id)
  BY <1>3 DEF PresetDeleted, IsState
<1> HIDE DEF r, captured
<1>5. /\ IsState(q)
      /\ q.revision = show.revision /\ q.minted = show.minted
      /\ q.objs = show.objs \ {o} /\ q.active = show.active \ {o.id}
      /\ q.order = show.order /\ q.members = show.members
      /\ q.instances = show.instances /\ q.groupRefs = show.groupRefs
      /\ q.layers = show.layers /\ q.controls = show.controls /\ q.desk = show.desk
  BY <1>3 DEF IsState
<1> HIDE DEF q
<1> QED BY <1>2, <1>5, <1>4, PlayedPasses

\* A chase goes with its steps, and the layers that played it lose it.
LEMMA ChaseDeletePasses ==
  ASSUME SavedShow(show), NEW o \in Objs(show, "chase")
  PROVE  /\ Tidy(ChaseDeleted(o)) /\ ChaseDeleted(o).revision = show.revision
         /\ validate(Scrubbed(ChaseDeleted(o)))
<1> DEFINE r == Removed(o)
           q == [r EXCEPT !.steps = {c \in @ : c.chase # o.id}]
<1>1. IsState(show)
  BY DEF SavedShow, Tidy
<1>2. "chase" \in LayerKinds /\ o \in Objs(show, RefKind["chase"])
  BY RefKinds DEF LayerKinds
<1>3. /\ IsState(r)
      /\ r.revision = show.revision /\ r.minted = show.minted
      /\ r.objs = show.objs \ {o} /\ r.active = show.active \ {o.id}
      /\ r.order = show.order /\ r.members = show.members
      /\ r.instances = show.instances /\ r.groupRefs = show.groupRefs
      /\ r.layers = show.layers /\ r.controls = show.controls /\ r.desk = show.desk
  BY <1>1, RemovedFields
<1> HIDE DEF r
<1>4. /\ IsState(q)
      /\ q.revision = show.revision /\ q.minted = show.minted
      /\ q.objs = show.objs \ {o} /\ q.active = show.active \ {o.id}
      /\ q.order = show.order /\ q.members = show.members
      /\ q.instances = show.instances /\ q.groupRefs = show.groupRefs
      /\ q.layers = show.layers /\ q.controls = show.controls /\ q.desk = show.desk
  BY <1>3 DEF IsState
<1>5. ChaseDeleted(o) = ScrubLayerRef(q, "chase", o.id)
  BY DEF ChaseDeleted, r
<1> HIDE DEF q
<1> QED BY <1>2, <1>4, <1>5, PlayedPasses

\* The layers that played a motion lose it before the motion goes.
LEMMA MotionDeletePasses ==
  ASSUME SavedShow(show), NEW o \in Objs(show, "motion")
  PROVE  /\ Tidy(MotionDeleted(o)) /\ MotionDeleted(o).revision = show.revision
         /\ validate(Scrubbed(MotionDeleted(o)))
<1>1. IsState(show)
  BY DEF SavedShow, Tidy
<1>2. "motion" \in LayerKinds /\ o \in Objs(show, RefKind["motion"])
  BY RefKinds DEF LayerKinds
<1> QED BY <1>1, <1>2, RemovedFields, PlayedPasses DEF MotionDeleted

\* A scene goes with its layers and its place in the list, and the surfaces
\* lose the controls that named it.
LEMMA SceneDeletePasses ==
  ASSUME SavedShow(show), NEW o \in Objs(show, "scene")
  PROVE  /\ Tidy(SceneDeleted(o)) /\ SceneDeleted(o).revision = show.revision
         /\ validate(Scrubbed(SceneDeleted(o)))
<1> DEFINE r == Removed(o)
           order == Dropped(show.order, o.id)
           layers == {l \in show.layers : l.scene # o.id}
           q == [r EXCEPT !.order = order, !.layers = layers]
           t == SceneDeleted(o)
<1>1. IsState(show) /\ Tidy(show) /\ validate(show) /\ o \in show.objs /\ o.kind = "scene"
  BY DEF SavedShow, Tidy, Objs
<1>2. /\ IsState(r)
      /\ r.revision = show.revision /\ r.minted = show.minted
      /\ r.objs = show.objs \ {o} /\ r.active = show.active \ {o.id}
      /\ r.order = show.order /\ r.members = show.members
      /\ r.instances = show.instances /\ r.groupRefs = show.groupRefs
      /\ r.layers = show.layers /\ r.controls = show.controls /\ r.desk = show.desk
  BY <1>1, RemovedFields
<1>3. t = [q EXCEPT !.controls = {c \in @ : ~(c.to \in {"scene", "layer"} /\ c.id = o.id)}]
  BY <1>2 DEF SceneDeleted, ScrubSceneReferences, IsState
<1> HIDE DEF r, order, layers
<1>4. /\ IsState(q)
      /\ q.revision = show.revision /\ q.minted = show.minted
      /\ q.objs = show.objs \ {o} /\ q.active = show.active \ {o.id}
      /\ q.order = order /\ q.members = show.members
      /\ q.instances = show.instances /\ q.groupRefs = show.groupRefs
      /\ q.layers = layers
      /\ q.controls = show.controls /\ q.desk = show.desk
  <2>1. IsState(r)
    BY <1>2
  <2> DEFINE p == [r EXCEPT !.order = order]
  <2>2. /\ IsState(p)
        /\ p.revision = r.revision /\ p.minted = r.minted
        /\ p.objs = r.objs /\ p.active = r.active
        /\ p.order = order /\ p.members = r.members
        /\ p.instances = r.instances /\ p.groupRefs = r.groupRefs
        /\ p.layers = r.layers
        /\ p.controls = r.controls /\ p.desk = r.desk
    BY <2>1 DEF IsState
  <2>3. q = [p EXCEPT !.layers = layers]
    OBVIOUS
  <2> HIDE DEF p, q
  <2>4. /\ IsState(q)
        /\ q.revision = p.revision /\ q.minted = p.minted
        /\ q.objs = p.objs /\ q.active = p.active
        /\ q.order = p.order /\ q.members = p.members
        /\ q.instances = p.instances /\ q.groupRefs = p.groupRefs
        /\ q.layers = layers
        /\ q.controls = p.controls /\ q.desk = p.desk
    BY <2>2, <2>3 DEF IsState
  <2> QED BY <1>2, <2>2, <2>4
<1> HIDE DEF q, t
<1>5. /\ IsState(t)
      /\ t.revision = show.revision /\ t.minted = show.minted
      /\ t.objs = show.objs \ {o} /\ t.active = show.active \ {o.id}
      /\ t.order = Dropped(show.order, o.id) /\ t.members = show.members
      /\ t.instances = show.instances /\ t.groupRefs = show.groupRefs
      /\ t.layers = {l \in show.layers : l.scene # o.id}
      /\ t.controls = {c \in show.controls : ~(c.to \in {"scene", "layer"} /\ c.id = o.id)}
      /\ t.desk = show.desk
  BY <1>3, <1>4 DEF IsState, order, layers
<1>6. t.layers \subseteq LayerRecords /\ t.layers \subseteq show.layers
  BY <1>1, <1>5 DEF Tidy, LayerRecords
<1>7. Tidy(t)
  BY <1>1, <1>5, <1>6, LooseRemovalIsTidy
<1>8. ValidateGroupReferences(t) /\ ValidateLayerReferences(t)
  BY <1>1, <1>5, <1>6, OthersKeepReferences
<1>9. ValidateSurfaces(t)
  <2>1. \A i \in Ids(show, "scene") : i # o.id => i \in Ids(t, "scene")
    BY <1>5 DEF Ids, Objs
  <2>2. Ids(t, "group") = Ids(show, "group")
    BY <1>1, <1>5 DEF Ids, Objs
  <2> QED BY <1>1, <1>5, <2>1, <2>2 DEF validate, ValidateSurfaces
<1>10. t.active \subseteq show.active /\ t.instances \subseteq show.instances
  BY <1>5
<1>11. validate(Scrubbed(t))
  BY <1>5, <1>7, <1>8, <1>9, <1>10, DeletionPasses
<1> QED BY <1>5, <1>7, <1>11 DEF t

\* A surface goes with its controls and mappings; nothing else refers to it.
LEMMA SurfaceRemovePasses ==
  ASSUME SavedShow(show), NEW o \in Objs(show, "surface")
  PROVE  /\ Tidy(SurfaceRemoved(o)) /\ SurfaceRemoved(o).revision = show.revision
         /\ validate(Scrubbed(SurfaceRemoved(o)))
<1> DEFINE r == Removed(o)
           t == SurfaceRemoved(o)
<1>1. IsState(show) /\ Tidy(show) /\ o \in show.objs /\ o.kind = "surface"
  BY DEF SavedShow, Tidy, Objs
<1>2. /\ IsState(r)
      /\ r.revision = show.revision /\ r.minted = show.minted
      /\ r.objs = show.objs \ {o} /\ r.active = show.active \ {o.id}
      /\ r.order = show.order /\ r.members = show.members
      /\ r.instances = show.instances /\ r.groupRefs = show.groupRefs
      /\ r.layers = show.layers /\ r.controls = show.controls /\ r.desk = show.desk
  BY <1>1, RemovedFields
<1>3. t = [r EXCEPT !.controls = {c \in @ : c.surface # o.id},
                    !.midi = {m \in @ : m.surface # o.id}]
  BY DEF SurfaceRemoved
<1> HIDE DEF r, t
<1>4. /\ IsState(t)
      /\ t.revision = show.revision /\ t.minted = show.minted
      /\ t.objs = show.objs \ {o} /\ t.active = show.active \ {o.id}
      /\ t.order = show.order /\ t.members = show.members
      /\ t.instances = show.instances /\ t.groupRefs = show.groupRefs
      /\ t.layers = show.layers
      /\ t.controls = {c \in show.controls : c.surface # o.id}
      /\ t.desk = show.desk
  BY <1>2, <1>3 DEF IsState
<1>5. t.layers \subseteq LayerRecords /\ t.controls \subseteq show.controls
  BY <1>1, <1>4 DEF Tidy, LayerRecords
<1>6. Tidy(t)
  BY <1>1, <1>4, <1>5, LooseRemovalIsTidy
<1>7. ValidateGroupReferences(t) /\ ValidateLayerReferences(t) /\ ValidateSurfaces(t)
  BY <1>1, <1>4, <1>5, OthersKeepReferences
<1>8. t.active \subseteq show.active /\ t.instances \subseteq show.instances
  BY <1>4
<1>9. validate(Scrubbed(t))
  BY <1>4, <1>6, <1>7, <1>8, DeletionPasses
<1> QED BY <1>4, <1>6, <1>9 DEF t

-----------------------------------------------------------------------------
(* Every command hands Save a tidy state *)

\* A tidy edit of the show as it was loaded.
Edit(t) == Tidy(t) /\ t.revision = show.revision

\* The fields that nothing above looks at.
LEMMA LooseFields ==
  ASSUME NEW s, Edit(s), NEW x
  PROVE  /\ Edit([s EXCEPT !.bpm = x]) /\ Edit([s EXCEPT !.steps = x])
         /\ Edit([s EXCEPT !.controls = x]) /\ Edit([s EXCEPT !.midi = x])
         /\ Edit([s EXCEPT !.touched = x]) /\ Edit([s EXCEPT !.captured = x])
<1> DEFINE same(t) == /\ IsState(t) /\ t.revision = s.revision /\ t.minted = s.minted
                      /\ t.objs = s.objs /\ t.active = s.active /\ t.order = s.order
                      /\ t.members = s.members /\ t.instances = s.instances
                      /\ t.layers = s.layers /\ t.desk = s.desk
<1>1. Tidy(s) /\ IsState(s) /\ s.revision = show.revision /\ s.revision \in 1..MaxRevision
  BY DEF Edit, Tidy
<1>2. ASSUME NEW t, same(t) PROVE Edit(t)
  BY <1>1, <1>2, TidyLooksAt DEF Edit
<1>3. same([s EXCEPT !.bpm = x])
  BY <1>1 DEF IsState
<1>4. same([s EXCEPT !.steps = x])
  BY <1>1 DEF IsState
<1>5. same([s EXCEPT !.controls = x])
  BY <1>1 DEF IsState
<1>6. same([s EXCEPT !.midi = x])
  BY <1>1 DEF IsState
<1>7. same([s EXCEPT !.touched = x])
  BY <1>1 DEF IsState
<1>8. same([s EXCEPT !.captured = x])
  BY <1>1 DEF IsState
<1> HIDE DEF same
<1> QED BY <1>2, <1>3, <1>4, <1>5, <1>6, <1>7, <1>8

\* A mapping takes an id of its own; a fader's key is one of the keys.
LEMMA MappingIsTidy ==
  ASSUME Edit(show), NEW s, IsState(s), s.revision = show.revision, s.minted = show.minted + 1,
         s.objs = show.objs, s.active = show.active, s.order = show.order,
         s.members = show.members, s.instances = show.instances, s.layers = show.layers,
         \A d \in s.desk : d.key \in Keys
  PROVE  Edit(s)
<1>1. \A k : Ids(s, k) = Ids(show, k)
  BY DEF Ids, Objs
<1>2. InstancesHaveMembers(s) /\ StartsDistinct(s)
  BY <1>1 DEF Edit, Tidy, InstancesHaveMembers, StartsDistinct
<1>3. show.minted \in Nat /\ s.minted \in Nat /\ 1..show.minted \subseteq 1..s.minted
  BY DEF Edit, Tidy
<1>4. s.objs \subseteq ObjRecords(s)
  BY <1>3 DEF Edit, Tidy, ObjRecords
<1>5. s.instances \subseteq [id : 1..s.minted, dep : Nat, pool : Nat, member : Nat, at : Nat \X Nat]
  BY <1>3 DEF Edit, Tidy
<1>6. Tidy(s)
  BY <1>1, <1>2, <1>3, <1>4, <1>5 DEF Edit, Tidy, ObjRecords
<1> QED BY <1>6 DEF Edit

\* Objects that are created alone.
LEMMA CreatedIsTidy ==
  ASSUME Edit(show), NEW k \in Kinds \ {"scene"}, NEW n \in Names, NEW v \in Vals \cup {NoVal}
  PROVE  Edit(Created(k, n, v))
<1> DEFINE t == Created(k, n, v)
           objs == show.objs \cup {[kind |-> k, id |-> Mint, name |-> n, val |-> v]}
<1>1. Tidy(show) /\ IsState(show)
  BY DEF Edit, Tidy
<1>2. t = [show EXCEPT !.objs = objs, !.minted = show.minted + 1]
  BY <1>1 DEF Created, IsState
<1> HIDE DEF t, objs
<1>3. /\ IsState(t) /\ t.revision = show.revision /\ t.minted = show.minted + 1
      /\ t.objs = objs /\ t.active = show.active /\ t.order = show.order
      /\ t.members = show.members /\ t.instances = show.instances
      /\ t.layers = show.layers /\ t.desk = show.desk
  BY <1>1, <1>2 DEF IsState
<1>4. t.layers \subseteq LayerRecords
  BY <1>1, <1>3 DEF Tidy, LayerRecords
<1>5. Tidy(t)
  BY <1>1, <1>3, <1>4, CreationIsTidy DEF objs
<1> QED BY <1>3, <1>5 DEF Edit, t

\* A scene is created with its layers, at the end of the list.
LEMMA SceneCreatedIsTidy ==
  ASSUME Edit(show), NEW n \in Names, NEW v \in Vals \cup {NoVal}, NEW new, new \subseteq LayerRecords
  PROVE  Edit([Created("scene", n, v) EXCEPT !.order = Append(@, Mint), !.layers = @ \cup new])
<1> DEFINE c == Created("scene", n, v)
           objs == show.objs \cup {[kind |-> "scene", id |-> Mint, name |-> n, val |-> v]}
           order == Append(show.order, Mint)
           layers == show.layers \cup new
           d == [c EXCEPT !.order = Append(@, Mint)]
           t == [d EXCEPT !.layers = @ \cup new]
<1>1. Tidy(show) /\ IsState(show)
  BY DEF Edit, Tidy
<1>2. c = [show EXCEPT !.objs = objs, !.minted = show.minted + 1]
  BY <1>1 DEF Created, IsState
<1> HIDE DEF c, objs
<1>3. /\ IsState(c) /\ c.revision = show.revision /\ c.minted = show.minted + 1
      /\ c.objs = objs /\ c.active = show.active /\ c.order = show.order
      /\ c.members = show.members /\ c.instances = show.instances
      /\ c.layers = show.layers /\ c.desk = show.desk
  BY <1>1, <1>2 DEF IsState
<1>4. /\ IsState(d) /\ d.revision = c.revision /\ d.minted = c.minted
      /\ d.objs = c.objs /\ d.active = c.active /\ d.order = order
      /\ d.members = c.members /\ d.instances = c.instances
      /\ d.layers = c.layers /\ d.desk = c.desk
  <2>1. d = [c EXCEPT !.order = order]
    BY <1>3 DEF IsState
  <2> HIDE DEF d, order
  <2> QED BY <1>3, <2>1 DEF IsState
<1> HIDE DEF d
<1>5. /\ IsState(t) /\ t.revision = d.revision /\ t.minted = d.minted
      /\ t.objs = d.objs /\ t.active = d.active /\ t.order = d.order
      /\ t.members = d.members /\ t.instances = d.instances
      /\ t.layers = layers /\ t.desk = d.desk
  <2>1. t = [d EXCEPT !.layers = layers]
    BY <1>3, <1>4 DEF IsState
  <2> HIDE DEF t, layers, order
  <2> QED BY <1>4, <2>1 DEF IsState
<1> HIDE DEF t
<1>6. t.layers \subseteq LayerRecords
  BY <1>1, <1>5 DEF Tidy, LayerRecords
<1>7. "scene" \in Kinds
  BY DEF Kinds
<1>8. Tidy(t)
  BY <1>1, <1>3, <1>4, <1>5, <1>6, <1>7, CreationIsTidy DEF objs
<1> QED BY <1>3, <1>4, <1>5, <1>8 DEF Edit, t, d, c

\* Renames and edits of a payload.
LEMMA EditedIsTidy ==
  ASSUME Edit(show), NEW k, NEW o \in Objs(show, k), NEW n \in Names, NEW v \in Vals \cup {NoVal}
  PROVE  Edit(Edited(o, n, v))
<1>1. Tidy(show) /\ o \in show.objs
  BY DEF Edit, Objs
<1> QED BY <1>1, EditIsTidy DEF Edit

\* What an object holds is a name and a payload that it can be given.
LEMMA ObjFields ==
  ASSUME Edit(show), NEW k, NEW o \in Objs(show, k)
  PROVE  o.name \in Names /\ o.val \in Vals \cup {NoVal} /\ o.kind = k /\ o \in show.objs
<1>1. o \in ObjRecords(show) /\ o.kind = k /\ o \in show.objs
  BY DEF Edit, Tidy, Objs, ObjRecords
<1> QED BY <1>1 DEF ObjRecords

\* Objects that nothing refers to.
LEMMA RemovedIsTidy ==
  ASSUME Edit(show), NEW k \in {"blend", "note", "script"}, NEW o \in Objs(show, k)
  PROVE  Edit(Removed(o))
<1> DEFINE t == Removed(o)
<1>1. Tidy(show) /\ IsState(show) /\ o \in show.objs /\ o.kind \notin {"pool", "deployment", "scene"}
  BY DEF Edit, Tidy, Objs
<1>2. /\ IsState(t)
      /\ t.revision = show.revision /\ t.minted = show.minted
      /\ t.objs = show.objs \ {o} /\ t.active = show.active \ {o.id}
      /\ t.order = show.order /\ t.members = show.members
      /\ t.instances = show.instances /\ t.layers = show.layers /\ t.desk = show.desk
  BY <1>1, RemovedFields
<1> HIDE DEF t
<1>3. t.layers \subseteq LayerRecords
  BY <1>1, <1>2 DEF Tidy, LayerRecords
<1>4. Tidy(t)
  BY <1>1, <1>2, <1>3, LooseRemovalIsTidy
<1> QED BY <1>2, <1>4 DEF Edit, t

-----------------------------------------------------------------------------
(* The commands *)

\* A command that saves: the next revision, and neither a plan nor the history.
Written ==
  /\ SavedShow(show') /\ show'.revision = show.revision + 1
  /\ plans' = plans /\ applied' = applied

\* A tidy edit that Save accepts is written as the next revision.
LEMMA SaveWrites ==
  ASSUME NEW s, Edit(s), show.revision < MaxRevision, Save(s)
  PROVE  Written
<1>1. Tidy(s) /\ s.revision = show.revision /\ s.revision \in Nat /\ MaxRevision \in Nat
  BY ShowStateAssumption DEF Edit, Tidy
<1>2. s.revision + 1 <= MaxRevision
  BY <1>1
<1>3. validate(Scrubbed(s)) /\ show' = [Scrubbed(s) EXCEPT !.revision = @ + 1]
      /\ plans' = plans /\ applied' = applied
  BY DEF Save
<1>4. SavedShow([Scrubbed(s) EXCEPT !.revision = @ + 1])
      /\ [Scrubbed(s) EXCEPT !.revision = @ + 1].revision = s.revision + 1
  BY <1>1, <1>2, <1>3, SaveWritesSaved
<1> QED BY <1>1, <1>3, <1>4 DEF Written

\* The commands on the rig that save.
LEMMA PatchWrites ==
  ASSUME SavedShow(show), show.revision < MaxRevision,
         \/ runPoolCreate \/ runPoolRename \/ runPoolDelete
         \/ runDeploymentCreate \/ runDeploymentActivate \/ runDeploymentRename
         \/ runDeploymentDelete \/ runDeploymentInstanceReassign
  PROVE  Written
<1>1. Tidy(show) /\ Edit(show)
  BY DEF SavedShow, Edit
<1>2. CASE runPoolCreate
  <2>1. PICK n \in Names : Save(Created("pool", n, NoVal))
    BY <1>2 DEF runPoolCreate
  <2>2. Edit(Created("pool", n, NoVal))
    BY <1>1, CreatedIsTidy DEF Kinds
  <2> QED BY <2>1, <2>2, SaveWrites
<1>3. CASE runPoolRename
  <2>1. PICK o \in Objs(show, "pool"), n \in Names : Save(Edited(o, n, o.val))
    BY <1>3 DEF runPoolRename
  <2>2. Edit(Edited(o, n, o.val))
    BY <1>1, ObjFields, EditedIsTidy
  <2> QED BY <2>1, <2>2, SaveWrites
<1>4. CASE runPoolDelete
  <2>1. PICK o \in Objs(show, "pool") : Save(DeletePool(o))
    BY <1>4 DEF runPoolDelete
  <2>2. Edit(DeletePool(o))
    BY PoolDeletePasses DEF Edit
  <2> QED BY <2>1, <2>2, SaveWrites
<1>5. CASE runDeploymentCreate
  <2>1. PICK n \in Names : Save(Created("deployment", n, NoVal))
    BY <1>5 DEF runDeploymentCreate
  <2>2. Edit(Created("deployment", n, NoVal))
    BY <1>1, CreatedIsTidy DEF Kinds
  <2> QED BY <2>1, <2>2, SaveWrites
<1>6. CASE runDeploymentActivate
  <2>1. PICK o \in Objs(show, "deployment") : Save(Activated("deployment", o))
    BY <1>6 DEF runDeploymentActivate
  <2>2. Edit(Activated("deployment", o))
    BY <1>1, ActivationIsTidy DEF Edit
  <2> QED BY <2>1, <2>2, SaveWrites
<1>7. CASE runDeploymentRename
  <2>1. PICK o \in Objs(show, "deployment"), n \in Names : Save(Edited(o, n, o.val))
    BY <1>7 DEF runDeploymentRename
  <2>2. Edit(Edited(o, n, o.val))
    BY <1>1, ObjFields, EditedIsTidy
  <2> QED BY <2>1, <2>2, SaveWrites
<1>8. CASE runDeploymentDelete
  <2>1. PICK o \in Objs(show, "deployment") : Save(DeleteDeployment(o))
    BY <1>8 DEF runDeploymentDelete
  <2>2. Edit(DeleteDeployment(o))
    BY DeploymentDeletePasses DEF Edit
  <2> QED BY <2>1, <2>2, SaveWrites
<1>9. CASE runDeploymentInstanceReassign
  <2>1. PICK i \in show.instances, a \in parseDeploymentInstanceReassignArgs :
          Reassign(i, <<IF a[1] > 0 THEN a[1] ELSE i.at[1], IF a[2] > 0 THEN a[2] ELSE i.at[2]>>)
    BY <1>9 DEF runDeploymentInstanceReassign
  <2> DEFINE at == <<IF a[1] > 0 THEN a[1] ELSE i.at[1], IF a[2] > 0 THEN a[2] ELSE i.at[2]>>
             t == [show EXCEPT !.instances = (@ \ {i}) \cup {[i EXCEPT !.at = at]}]
  <2>2. a \in Nat \X Nat
    BY ShowStateAssumption DEF parseDeploymentInstanceReassignArgs
  <2>3. i.at \in Nat \X Nat
    BY <1>1 DEF Tidy
  <2>4. at \in Nat \X Nat
    BY <2>2, <2>3
  <2>5. Reassign(i, at)
    BY <2>1
  <2> HIDE DEF at
  <2>6. ~overlapsExisting(TakenIn([show EXCEPT !.instances = @ \ {i}], i.dep), at, 1) /\ Save(t)
    BY <2>5 DEF Reassign
  <2>7. Edit(t)
    BY <1>1, <2>4, <2>6, ReassignmentIsTidy DEF Edit
  <2> HIDE DEF t
  <2> QED BY <2>6, <2>7, SaveWrites
<1> QED BY <1>2, <1>3, <1>4, <1>5, <1>6, <1>7, <1>8, <1>9

\* The commands on the programmer, themes, presets, chases and motions.
LEMMA PlayedWrites ==
  ASSUME SavedShow(show), show.revision < MaxRevision,
         \/ runProgrammerSet \/ runProgrammerClear
         \/ runThemeCreate \/ runThemeRename \/ runThemeDelete
         \/ runPresetRecord \/ runPresetRename \/ runPresetDelete
         \/ runChaseCreate \/ runChaseUpdate \/ runChaseReorder
         \/ runChaseDuplicate \/ runChaseDelete
         \/ runMotionCreate \/ runMotionRename \/ runMotionDuplicate \/ runMotionDelete
  PROVE  Written
<1>1. Tidy(show) /\ Edit(show)
  BY DEF SavedShow, Edit
<1>2. \A x : Edit([show EXCEPT !.touched = x]) /\ Edit([show EXCEPT !.steps = x])
  BY <1>1, LooseFields
<1>3. CASE runProgrammerSet
  <2>1. PICK sel \in Selections : Save([show EXCEPT !.touched = @ \cup Resolve(show, sel)])
    BY <1>3 DEF runProgrammerSet
  <2>2. Edit([show EXCEPT !.touched = @ \cup Resolve(show, sel)])
    BY <1>2
  <2> QED BY <2>1, <2>2, SaveWrites
<1>4. CASE runProgrammerClear
  <2>1. Save([show EXCEPT !.touched = {}])
    BY <1>4 DEF runProgrammerClear
  <2>2. Edit([show EXCEPT !.touched = {}])
    BY <1>2
  <2> QED BY <2>1, <2>2, SaveWrites
<1>5. CASE runThemeCreate
  <2>1. PICK n \in Names, v \in Vals : Save(Created("theme", n, v))
    BY <1>5 DEF runThemeCreate
  <2>2. Edit(Created("theme", n, v))
    BY <1>1, CreatedIsTidy DEF Kinds
  <2> QED BY <2>1, <2>2, SaveWrites
<1>6. CASE runThemeRename
  <2>1. PICK o \in Objs(show, "theme"), n \in Names : Save(Edited(o, n, o.val))
    BY <1>6 DEF runThemeRename
  <2>2. Edit(Edited(o, n, o.val))
    BY <1>1, ObjFields, EditedIsTidy
  <2> QED BY <2>1, <2>2, SaveWrites
<1>7. CASE runThemeDelete
  <2>1. PICK o \in Objs(show, "theme") : Save(ThemeDeleted(o))
    BY <1>7 DEF runThemeDelete
  <2>2. Edit(ThemeDeleted(o))
    BY ThemeDeletePasses DEF Edit
  <2> QED BY <2>1, <2>2, SaveWrites
<1>8. CASE runPresetRecord
  <2>1. PICK n \in Names :
          Save([Created("preset", n, NoVal) EXCEPT
                  !.captured = @ \cup {[preset |-> Mint, instance |-> i] : i \in show.touched}])
    BY <1>8 DEF runPresetRecord
  <2>2. Edit(Created("preset", n, NoVal))
    BY <1>1, CreatedIsTidy DEF Kinds
  <2>3. \A x : Edit([Created("preset", n, NoVal) EXCEPT !.captured = x])
    BY <2>2, LooseFields
  <2>4. Edit([Created("preset", n, NoVal) EXCEPT
                  !.captured = @ \cup {[preset |-> Mint, instance |-> i] : i \in show.touched}])
    BY <2>3
  <2> QED BY <2>1, <2>4, SaveWrites
<1>9. CASE runPresetRename
  <2>1. PICK o \in Objs(show, "preset"), n \in Names : Save(Edited(o, n, o.val))
    BY <1>9 DEF runPresetRename
  <2>2. Edit(Edited(o, n, o.val))
    BY <1>1, ObjFields, EditedIsTidy
  <2> QED BY <2>1, <2>2, SaveWrites
<1>10. CASE runPresetDelete
  <2>1. PICK o \in Objs(show, "preset") : Save(PresetDeleted(o))
    BY <1>10 DEF runPresetDelete
  <2>2. Edit(PresetDeleted(o))
    BY PresetDeletePasses DEF Edit
  <2> QED BY <2>1, <2>2, SaveWrites
<1>11. CASE runChaseCreate
  <2>1. PICK n \in Names, v \in Vals :
          Save([Created("chase", n, v) EXCEPT !.steps = @ \cup {[chase |-> Mint, list |-> <<>>]}])
    BY <1>11 DEF runChaseCreate
  <2>2. Edit(Created("chase", n, v))
    BY <1>1, CreatedIsTidy DEF Kinds
  <2>3. Edit([Created("chase", n, v) EXCEPT !.steps = @ \cup {[chase |-> Mint, list |-> <<>>]}])
    BY <2>2, LooseFields
  <2> QED BY <2>1, <2>3, SaveWrites
<1>12. CASE runChaseUpdate
  <2>1. PICK o \in Objs(show, "chase"), n \in Names, v \in Vals : Save(Edited(o, n, v))
    BY <1>12 DEF runChaseUpdate
  <2>2. Edit(Edited(o, n, v))
    BY <1>1, EditedIsTidy
  <2> QED BY <2>1, <2>2, SaveWrites
<1>13. CASE runChaseReorder
  <2>1. PICK c \in show.steps : \E order \in Permutations(Len(c.list)) : Save(reorderChaseSteps(c, order))
    BY <1>13 DEF runChaseReorder
  <2>3. PICK order \in Permutations(Len(c.list)) : Save(reorderChaseSteps(c, order))
    BY <2>1
  <2>2. Edit(reorderChaseSteps(c, order))
    BY <1>2 DEF reorderChaseSteps
  <2> QED BY <2>2, <2>3, SaveWrites
<1>14. CASE runChaseDuplicate
  <2>1. PICK o \in Objs(show, "chase"), n \in Names, c \in show.steps :
          Save([Created("chase", n, o.val) EXCEPT !.steps = @ \cup {[chase |-> Mint, list |-> c.list]}])
    BY <1>14 DEF runChaseDuplicate
  <2>2. o.val \in Vals \cup {NoVal}
    BY <1>1, ObjFields
  <2>3. Edit(Created("chase", n, o.val))
    BY <1>1, <2>2, CreatedIsTidy DEF Kinds
  <2>4. Edit([Created("chase", n, o.val) EXCEPT !.steps = @ \cup {[chase |-> Mint, list |-> c.list]}])
    BY <2>3, LooseFields
  <2> QED BY <2>1, <2>4, SaveWrites
<1>15. CASE runChaseDelete
  <2>1. PICK o \in Objs(show, "chase") : Save(ChaseDeleted(o))
    BY <1>15 DEF runChaseDelete
  <2>2. Edit(ChaseDeleted(o))
    BY ChaseDeletePasses DEF Edit
  <2> QED BY <2>1, <2>2, SaveWrites
<1>16. CASE runMotionCreate
  <2>1. PICK n \in Names : Save(Created("motion", n, NoVal))
    BY <1>16 DEF runMotionCreate
  <2>2. Edit(Created("motion", n, NoVal))
    BY <1>1, CreatedIsTidy DEF Kinds
  <2> QED BY <2>1, <2>2, SaveWrites
<1>17. CASE runMotionRename
  <2>1. PICK o \in Objs(show, "motion"), n \in Names : Save(Edited(o, n, o.val))
    BY <1>17 DEF runMotionRename
  <2>2. Edit(Edited(o, n, o.val))
    BY <1>1, ObjFields, EditedIsTidy
  <2> QED BY <2>1, <2>2, SaveWrites
<1>18. CASE runMotionDuplicate
  <2>1. PICK o \in Objs(show, "motion"), n \in Names : Save(Created("motion", n, o.val))
    BY <1>18 DEF runMotionDuplicate
  <2>2. Edit(Created("motion", n, o.val))
    BY <1>1, ObjFields, CreatedIsTidy DEF Kinds
  <2> QED BY <2>1, <2>2, SaveWrites
<1>19. CASE runMotionDelete
  <2>1. PICK o \in Objs(show, "motion") : Save(MotionDeleted(o))
    BY <1>19 DEF runMotionDelete
  <2>2. Edit(MotionDeleted(o))
    BY MotionDeletePasses DEF Edit
  <2> QED BY <2>1, <2>2, SaveWrites
<1> QED
  BY <1>3, <1>4, <1>5, <1>6, <1>7, <1>8, <1>9, <1>10, <1>11, <1>12, <1>13, <1>14, <1>15, <1>16,
     <1>17, <1>18, <1>19

\* The commands on scenes and their layers.
LEMMA SceneWrites ==
  ASSUME SavedShow(show), show.revision < MaxRevision,
         \/ runSceneCreate \/ runSceneRename \/ runSceneDuplicate \/ runSceneDelete
         \/ runSceneActivate \/ runPlaybackSwitch \/ runSceneReorder \/ runSceneLayerSet
  PROVE  Written
<1>1. Tidy(show) /\ Edit(show)
  BY DEF SavedShow, Edit
<1>2. CASE runSceneCreate
  <2>1. PICK n \in Names :
          Save([Created("scene", n, NoVal) EXCEPT
                  !.order = Append(@, Mint), !.layers = @ \cup newLayers(Mint)])
    BY <1>2 DEF runSceneCreate
  <2>2. newLayers(Mint) \subseteq LayerRecords
    <3>1. Mint \in Nat
      BY <1>1 DEF Tidy, Mint
    <3>2. NoRef \in Int
      BY DEF NoRef
    <3>3. ASSUME NEW k \in LayerKinds
          PROVE  [scene |-> Mint, kind |-> k, ref |-> NoRef, enabled |-> FALSE, sel |-> {}] \in LayerRecords
      BY <3>1, <3>2 DEF LayerRecords
    <3> QED BY <3>3 DEF newLayers
  <2>3. Edit([Created("scene", n, NoVal) EXCEPT
                !.order = Append(@, Mint), !.layers = @ \cup newLayers(Mint)])
    BY <1>1, <2>2, SceneCreatedIsTidy
  <2> QED BY <2>1, <2>3, SaveWrites
<1>3. CASE runSceneRename
  <2>1. PICK o \in Objs(show, "scene"), n \in Names : Save(Edited(o, n, o.val))
    BY <1>3 DEF runSceneRename
  <2>2. Edit(Edited(o, n, o.val))
    BY <1>1, ObjFields, EditedIsTidy
  <2> QED BY <2>1, <2>2, SaveWrites
<1>4. CASE runSceneDuplicate
  <2>1. PICK o \in Objs(show, "scene"), n \in Names :
          Save([Created("scene", n, o.val) EXCEPT
                  !.order = Append(@, Mint),
                  !.layers = @ \cup {[l EXCEPT !.scene = Mint] :
                                       l \in {x \in show.layers : x.scene = o.id}}])
    BY <1>4 DEF runSceneDuplicate
  <2> DEFINE new == {[l EXCEPT !.scene = Mint] : l \in {x \in show.layers : x.scene = o.id}}
  <2>2. new \subseteq LayerRecords
    <3>1. Mint \in Nat
      BY <1>1 DEF Tidy, Mint
    <3>2. \A l \in show.layers : l \in LayerRecords
      BY <1>1 DEF Tidy, LayerRecords
    <3>3. \A l \in LayerRecords : [l EXCEPT !.scene = Mint] \in LayerRecords
      BY <3>1 DEF LayerRecords
    <3> QED BY <3>2, <3>3
  <2>3. o.val \in Vals \cup {NoVal}
    BY <1>1, ObjFields
  <2> HIDE DEF new
  <2>4. Edit([Created("scene", n, o.val) EXCEPT !.order = Append(@, Mint), !.layers = @ \cup new])
    BY <1>1, <2>2, <2>3, SceneCreatedIsTidy
  <2> QED BY <2>1, <2>4, SaveWrites DEF new
<1>5. CASE runSceneDelete
  <2>1. PICK o \in Objs(show, "scene") : Save(SceneDeleted(o))
    BY <1>5 DEF runSceneDelete
  <2>2. Edit(SceneDeleted(o))
    BY SceneDeletePasses DEF Edit
  <2> QED BY <2>1, <2>2, SaveWrites
<1>6. CASE runSceneActivate
  <2>1. PICK o \in Objs(show, "scene") : Save(Activated("scene", o))
    BY <1>6 DEF runSceneActivate
  <2>2. Edit(Activated("scene", o))
    BY <1>1, ActivationIsTidy DEF Edit
  <2> QED BY <2>1, <2>2, SaveWrites
<1>7. CASE runPlaybackSwitch
  <2>1. PICK o \in Objs(show, "scene") : Save(Activated("scene", o))
    BY <1>7 DEF runPlaybackSwitch
  <2>2. Edit(Activated("scene", o))
    BY <1>1, ActivationIsTidy DEF Edit
  <2> QED BY <2>1, <2>2, SaveWrites
<1>8. CASE runSceneReorder
  <2>1. PICK order \in Permutations(Len(show.order)) : Save(reorderScenes(order))
    BY <1>8 DEF runSceneReorder
  <2>2. Edit(reorderScenes(order))
    BY <1>1, ReorderingIsTidy DEF Edit
  <2> QED BY <2>1, <2>2, SaveWrites
<1>9. CASE runSceneLayerSet
  <2> DEFINE set(l, arg) ==
        [show EXCEPT !.layers = (@ \ {l}) \cup
           {[l EXCEPT !.ref = arg.ref, !.enabled = ~arg.disable,
                      !.sel = {t \in @ : \A u \in arg.sel : u.to # t.to} \cup arg.sel]}]
  <2>1. PICK l \in show.layers, arg \in parseSceneLayerSetArgs : Save(set(l, arg))
    BY <1>9 DEF runSceneLayerSet
  <2>2. Edit(set(l, arg))
    BY <1>1, LayerSetIsTidy DEF Edit
  <2> HIDE DEF set
  <2> QED BY <2>1, <2>2, SaveWrites
<1> QED BY <1>2, <1>3, <1>4, <1>5, <1>6, <1>7, <1>8, <1>9

\* The commands on blends, tempo, notes and scripts, and saving as it is.
LEMMA TextWrites ==
  ASSUME SavedShow(show), show.revision < MaxRevision,
         \/ runBlendCreate \/ runBlendRename \/ runBlendDelete \/ runPlaybackBPMSet
         \/ runPlaybackBPMTap \/ runNoteCreate \/ runNoteEdit \/ runNoteDelete
         \/ runScriptCreate \/ runScriptEdit \/ runScriptProfileSet \/ runScriptDelete
         \/ runShowSave
  PROVE  Written
<1>1. Tidy(show) /\ Edit(show)
  BY DEF SavedShow, Edit
<1>2. \A x : Edit([show EXCEPT !.bpm = x])
  BY <1>1, LooseFields
<1>3. CASE runBlendCreate
  <2>1. PICK n \in Names, v \in Vals : Save(Created("blend", n, v))
    BY <1>3 DEF runBlendCreate
  <2>2. Edit(Created("blend", n, v))
    BY <1>1, CreatedIsTidy DEF Kinds
  <2> QED BY <2>1, <2>2, SaveWrites
<1>4. CASE runBlendRename
  <2>1. PICK o \in Objs(show, "blend"), n \in Names : Save(Edited(o, n, o.val))
    BY <1>4 DEF runBlendRename
  <2>2. Edit(Edited(o, n, o.val))
    BY <1>1, ObjFields, EditedIsTidy
  <2> QED BY <2>1, <2>2, SaveWrites
<1>5. CASE runBlendDelete
  <2>1. PICK o \in Objs(show, "blend") : Save(Removed(o))
    BY <1>5 DEF runBlendDelete
  <2>2. Edit(Removed(o))
    BY <1>1, RemovedIsTidy
  <2> QED BY <2>1, <2>2, SaveWrites
<1>6. CASE runPlaybackBPMSet
  <2>1. PICK b \in Tempos : Save([show EXCEPT !.bpm = b])
    BY <1>6 DEF runPlaybackBPMSet
  <2>2. Edit([show EXCEPT !.bpm = b])
    BY <1>2
  <2> QED BY <2>1, <2>2, SaveWrites
<1>7. CASE runPlaybackBPMTap
  <2>1. PICK b \in Tempos : Save([show EXCEPT !.bpm = b])
    BY <1>7 DEF runPlaybackBPMTap
  <2>2. Edit([show EXCEPT !.bpm = b])
    BY <1>2
  <2> QED BY <2>1, <2>2, SaveWrites
<1>8. CASE runNoteCreate
  <2>1. PICK n \in Names, v \in Vals : Save(Created("note", n, v))
    BY <1>8 DEF runNoteCreate
  <2>2. Edit(Created("note", n, v))
    BY <1>1, CreatedIsTidy DEF Kinds
  <2> QED BY <2>1, <2>2, SaveWrites
<1>9. CASE runNoteEdit
  <2>1. PICK o \in Objs(show, "note"), n \in Names, v \in Vals : Save(Edited(o, n, v))
    BY <1>9 DEF runNoteEdit
  <2>2. Edit(Edited(o, n, v))
    BY <1>1, EditedIsTidy
  <2> QED BY <2>1, <2>2, SaveWrites
<1>10. CASE runNoteDelete
  <2>1. PICK o \in Objs(show, "note") : Save(Removed(o))
    BY <1>10 DEF runNoteDelete
  <2>2. Edit(Removed(o))
    BY <1>1, RemovedIsTidy
  <2> QED BY <2>1, <2>2, SaveWrites
<1>11. CASE runScriptCreate
  <2>1. PICK n \in Names, v \in Vals : Save(Created("script", n, v))
    BY <1>11 DEF runScriptCreate
  <2>2. Edit(Created("script", n, v))
    BY <1>1, CreatedIsTidy DEF Kinds
  <2> QED BY <2>1, <2>2, SaveWrites
<1>12. CASE runScriptEdit
  <2>1. PICK o \in Objs(show, "script"), v \in Vals : Save(Edited(o, o.name, v))
    BY <1>12 DEF runScriptEdit
  <2>2. Edit(Edited(o, o.name, v))
    BY <1>1, ObjFields, EditedIsTidy
  <2> QED BY <2>1, <2>2, SaveWrites
<1>13. CASE runScriptProfileSet
  <2>1. PICK o \in Objs(show, "script"), v \in Vals : Save(Edited(o, o.name, v))
    BY <1>13 DEF runScriptProfileSet
  <2>2. Edit(Edited(o, o.name, v))
    BY <1>1, ObjFields, EditedIsTidy
  <2> QED BY <2>1, <2>2, SaveWrites
<1>14. CASE runScriptDelete
  <2>1. PICK o \in Objs(show, "script") : Save(Removed(o))
    BY <1>14 DEF runScriptDelete
  <2>2. Edit(Removed(o))
    BY <1>1, RemovedIsTidy
  <2> QED BY <2>1, <2>2, SaveWrites
<1>15. CASE runShowSave
  <2>1. Save(show)
    BY <1>15 DEF runShowSave
  <2>2. Edit(show)
    BY <1>1
  <2> QED BY <2>1, <2>2, SaveWrites
<1> QED
  BY <1>3, <1>4, <1>5, <1>6, <1>7, <1>8, <1>9, <1>10, <1>11, <1>12, <1>13, <1>14, <1>15

\* The commands on operator surfaces and MIDI mappings.
LEMMA SurfaceWrites ==
  ASSUME SavedShow(show), show.revision < MaxRevision,
         \/ runOperatorSurfaceCreate \/ runOperatorSurfaceAssign
         \/ runOperatorSurfaceUnassign \/ runOperatorSurfaceRemove
         \/ RemoveMapping \/ RemoveDeskMapping
         \/ \E o \in Objs(show, "surface"), key \in Keys, ref \in resolveControlRef :
              AddMidiMapping(o, key, ref)
         \/ \E key \in Keys, i \in InstanceIds(show) : AddMapping(key, i)
  PROVE  Written
<1>1. Tidy(show) /\ Edit(show) /\ IsState(show)
  BY DEF SavedShow, Edit, Tidy
<1>2. \A x : Edit([show EXCEPT !.controls = x]) /\ Edit([show EXCEPT !.midi = x])
  BY <1>1, LooseFields
<1>3. CASE runOperatorSurfaceCreate
  <2>1. PICK n \in Names : Save(Created("surface", n, NoVal))
    BY <1>3 DEF runOperatorSurfaceCreate
  <2>2. Edit(Created("surface", n, NoVal))
    BY <1>1, CreatedIsTidy DEF Kinds
  <2> QED BY <2>1, <2>2, SaveWrites
<1>4. CASE runOperatorSurfaceAssign
  <2>1. PICK o \in Objs(show, "surface"), ref \in resolveControlRef : Save([show EXCEPT !.controls = @ \cup {OnSurface(o, ref)}])
    BY <1>4 DEF runOperatorSurfaceAssign
  <2>2. Edit([show EXCEPT !.controls = @ \cup {OnSurface(o, ref)}])
    BY <1>2
  <2> QED BY <2>1, <2>2, SaveWrites
<1>5. CASE runOperatorSurfaceUnassign
  <2>1. PICK o \in Objs(show, "surface"), ref \in resolveControlRef : Save([show EXCEPT !.controls = @ \ {OnSurface(o, ref)}])
    BY <1>5 DEF runOperatorSurfaceUnassign
  <2>2. Edit([show EXCEPT !.controls = @ \ {OnSurface(o, ref)}])
    BY <1>2
  <2> QED BY <2>1, <2>2, SaveWrites
<1>6. CASE runOperatorSurfaceRemove
  <2>1. PICK o \in Objs(show, "surface") : Save(SurfaceRemoved(o))
    BY <1>6 DEF runOperatorSurfaceRemove
  <2>2. Edit(SurfaceRemoved(o))
    BY SurfaceRemovePasses DEF Edit
  <2> QED BY <2>1, <2>2, SaveWrites
<1>7. CASE RemoveMapping
  <2>1. PICK m \in show.midi : Save([show EXCEPT !.midi = @ \ {m}])
    BY <1>7 DEF RemoveMapping
  <2>2. Edit([show EXCEPT !.midi = @ \ {m}])
    BY <1>2
  <2> QED BY <2>1, <2>2, SaveWrites
<1>8. CASE RemoveDeskMapping
  <2>1. PICK d \in show.desk : Save([show EXCEPT !.desk = @ \ {d}])
    BY <1>8 DEF RemoveDeskMapping
  <2> DEFINE t == [show EXCEPT !.desk = @ \ {d}]
  <2>2. /\ IsState(t) /\ t.revision = show.revision /\ t.minted = show.minted
        /\ t.objs = show.objs /\ t.active = show.active /\ t.order = show.order
        /\ t.members = show.members /\ t.instances = show.instances
        /\ t.layers = show.layers /\ t.desk = show.desk \ {d}
    BY <1>1 DEF IsState
  <2>3. Save(t)
    BY <2>1
  <2> HIDE DEF t
  <2>4. \A k : Ids(t, k) = Ids(show, k)
    BY <2>2 DEF Ids, Objs
  <2>5. InstancesHaveMembers(t) /\ StartsDistinct(t)
    BY <1>1, <2>2, <2>4 DEF Tidy, InstancesHaveMembers, StartsDistinct
  <2>6. \A x \in t.desk : x.key \in Keys
    BY <1>1, <2>2 DEF Tidy
  <2>7. t.active \subseteq {x.id : x \in t.objs} /\ Ids(t, "scene") \subseteq Listed(t)
    BY <1>1, <2>2, <2>4 DEF Tidy, Listed
  <2>8. t.layers \subseteq LayerRecords /\ t.objs \subseteq ObjRecords(t)
    BY <1>1, <2>2 DEF Tidy, LayerRecords, ObjRecords
  <2>9. /\ t.revision \in 1..MaxRevision /\ t.minted \in Nat /\ t.order \in Seq(Nat)
        /\ \A a, b \in t.objs : a.id = b.id => a = b
        /\ t.members \subseteq [pool : Nat, id : Nat, fixture : Fixtures]
        /\ t.instances \subseteq [id : 1..t.minted, dep : Nat, pool : Nat, member : Nat, at : Nat \X Nat]
        /\ IsFiniteSet(t.objs) /\ IsFiniteSet(t.members)
    BY <1>1, <2>2 DEF Tidy
  <2>10. Tidy(t)
    BY <2>2, <2>5, <2>6, <2>7, <2>8, <2>9 DEF Tidy, LayerRecords, ObjRecords, Listed
  <2>11. Edit(t)
    BY <2>2, <2>10 DEF Edit
  <2> QED BY <2>3, <2>11, SaveWrites
<1>9. ASSUME NEW o \in Objs(show, "surface"), NEW key \in Keys, NEW ref \in resolveControlRef,
             AddMidiMapping(o, key, ref)
      PROVE  Written
  <2> DEFINE midi == show.midi \cup
                       {[surface |-> o.id, id |-> Mint, key |-> key, target |-> OnSurface(o, ref)]}
             p == [show EXCEPT !.minted = show.minted + 1]
             t == [p EXCEPT !.midi = midi]
  <2>1. Save(t)
    BY <1>1, <1>9 DEF AddMidiMapping, IsState
  <2> HIDE DEF midi
  <2>5. /\ IsState(p) /\ p.revision = show.revision /\ p.minted = show.minted + 1
        /\ p.objs = show.objs /\ p.active = show.active /\ p.order = show.order
        /\ p.members = show.members /\ p.instances = show.instances
        /\ p.layers = show.layers /\ p.desk = show.desk
    BY <1>1 DEF IsState
  <2> HIDE DEF p
  <2>2. /\ IsState(t) /\ t.revision = show.revision /\ t.minted = show.minted + 1
        /\ t.objs = show.objs /\ t.active = show.active /\ t.order = show.order
        /\ t.members = show.members /\ t.instances = show.instances
        /\ t.layers = show.layers /\ t.desk = show.desk
    BY <2>5 DEF IsState
  <2> HIDE DEF t
  <2>3. \A d \in t.desk : d.key \in Keys
    BY <1>1, <2>2 DEF Tidy
  <2>4. Edit(t)
    BY <1>1, <2>2, <2>3, MappingIsTidy
  <2> QED BY <2>1, <2>4, SaveWrites
<1>10. ASSUME NEW key \in Keys, NEW i \in InstanceIds(show), AddMapping(key, i)
       PROVE  Written
  <2> DEFINE desk == show.desk \cup {[id |-> Mint, key |-> key, instance |-> i]}
             p == [show EXCEPT !.minted = show.minted + 1]
             t == [p EXCEPT !.desk = desk]
  <2>1. Save(t)
    BY <1>1, <1>10 DEF AddMapping, IsState
  <2>2. \A d \in desk : d.key \in Keys
    BY <1>1 DEF Tidy
  <2> HIDE DEF desk
  <2>5. /\ IsState(p) /\ p.revision = show.revision /\ p.minted = show.minted + 1
        /\ p.objs = show.objs /\ p.active = show.active /\ p.order = show.order
        /\ p.members = show.members /\ p.instances = show.instances
        /\ p.layers = show.layers /\ p.desk = show.desk
    BY <1>1 DEF IsState
  <2> HIDE DEF p
  <2>3. /\ IsState(t) /\ t.revision = show.revision /\ t.minted = show.minted + 1
        /\ t.objs = show.objs /\ t.active = show.active /\ t.order = show.order
        /\ t.members = show.members /\ t.instances = show.instances
        /\ t.layers = show.layers /\ t.desk = desk
    BY <2>5 DEF IsState
  <2> HIDE DEF t
  <2>4. Edit(t)
    BY <1>1, <2>2, <2>3, MappingIsTidy
  <2> QED BY <2>1, <2>4, SaveWrites
<1> QED BY <1>3, <1>4, <1>5, <1>6, <1>7, <1>8, <1>9, <1>10

-----------------------------------------------------------------------------
(* Plans and their application *)

\* The digest of a plan file is that of a plan that could be made.
PlansSound == \A p \in plans : p = [body |-> p.body, id |-> p.id] /\ p.id.req \in Requests

\* The plans that were applied are plans on disk, each applied at the revision
\* it was made at, and each application was at a revision of its own.
HistorySound ==
  /\ applied \in Seq([plan : {p.id : p \in plans}, at : 1..MaxRevision])
  /\ \A a \in 1..Len(applied) :
       applied[a].plan.revision = applied[a].at /\ applied[a].at < show.revision
  /\ \A a, b \in 1..Len(applied) : applied[a].at = applied[b].at => a = b

\* The inductive invariant of a session.
AuthoringIInv == SavedShow(show) /\ PlansSound /\ HistorySound

\* The history stays sound while the show only moves on and no digest is lost.
LEMMA HistoryKept ==
  ASSUME HistorySound, applied' = applied, show.revision \in Nat, show'.revision \in Nat,
         show'.revision >= show.revision,
         {p.id : p \in plans} \subseteq {p.id : p \in plans'}
  PROVE  HistorySound'
<1> DEFINE ids == {p.id : p \in plans}
           later == {p.id : p \in plans'}
<1>1. applied \in Seq([plan : ids, at : 1..MaxRevision])
  BY DEF HistorySound
<1>2. ids \subseteq later
  OBVIOUS
<1> HIDE DEF ids, later
<1>3. applied' \in Seq([plan : later, at : 1..MaxRevision])
  <2>1. [plan : ids, at : 1..MaxRevision] \subseteq [plan : later, at : 1..MaxRevision]
    BY <1>2
  <2>2. Seq([plan : ids, at : 1..MaxRevision]) \subseteq Seq([plan : later, at : 1..MaxRevision])
    BY <2>1, SeqMonotonic
  <2> QED BY <1>1, <2>2
<1>4. ASSUME NEW a \in 1..Len(applied) PROVE applied[a].at < show'.revision
  <2>1. applied[a].at < show.revision /\ applied[a].at \in Nat
    <3>1. applied[a] \in [plan : ids, at : 1..MaxRevision]
      BY <1>1, ElementOfSeq
    <3>2. applied[a].at \in 1..MaxRevision
      BY <3>1
    <3> QED BY <3>2, ShowStateAssumption DEF HistorySound
  <2> QED BY <2>1
<1> QED BY <1>3, <1>4 DEF HistorySound, later

\* A command that saves disturbs neither the plans nor the history.
LEMMA WrittenKeeps ==
  ASSUME AuthoringIInv, Written
  PROVE  AuthoringIInv'
<1>1. plans' = plans /\ applied' = applied /\ SavedShow(show)' /\ show'.revision = show.revision + 1
  BY DEF Written
<1>2. show.revision \in Nat
  BY ShowStateAssumption DEF AuthoringIInv, SavedShow, Tidy
<1>3. HistorySound'
  BY <1>1, <1>2, HistoryKept DEF AuthoringIInv
<1>4. PlansSound'
  BY <1>1 DEF AuthoringIInv, PlansSound
<1> QED BY <1>1, <1>3, <1>4 DEF AuthoringIInv

\* Members and deployments have numbers for ids.
LEMMA IdsAreNumbers ==
  ASSUME Tidy(show)
  PROVE  /\ \A k : Ids(show, k) \subseteq Nat
         /\ {m.id : m \in show.members} \subseteq Nat
<1>1. show.objs \subseteq ObjRecords(show) /\ show.members \subseteq [pool : Nat, id : Nat, fixture : Fixtures]
      /\ show.minted \in Nat
  BY DEF Tidy, ObjRecords
<1>2. \A o \in show.objs : o.id \in Nat
  BY <1>1 DEF ObjRecords
<1> QED BY <1>1, <1>2 DEF Ids, Objs

\* A plan file is written: its digest is that of a plan for a request.
LEMMA PlanWritten ==
  ASSUME AuthoringIInv, NEW req \in Requests, writeImpactPlan(BuildImpactPlan(show, req))
  PROVE  AuthoringIInv'
<1> DEFINE plan == BuildImpactPlan(show, req)
           new == [body |-> plan, id |-> plan]
<1>1. plan.req = req
  BY DEF BuildImpactPlan
<1>2. plans' = plans \cup {new} /\ show' = show /\ applied' = applied
  BY DEF writeImpactPlan
<1> HIDE DEF plan
<1>3. new = [body |-> new.body, id |-> new.id] /\ new.id = plan
  OBVIOUS
<1> HIDE DEF new
<1>4. PlansSound'
  BY <1>1, <1>2, <1>3 DEF AuthoringIInv, PlansSound
<1>5. SavedShow(show)'
  BY <1>2 DEF AuthoringIInv
<1>6. show.revision \in Nat
  BY ShowStateAssumption DEF AuthoringIInv, SavedShow, Tidy
<1>7. HistorySound'
  BY <1>2, <1>6, HistoryKept DEF AuthoringIInv
<1> QED BY <1>4, <1>5, <1>7 DEF AuthoringIInv

\* "pool update" plans a request that its command line accepts.
LEMMA UpdateKeeps ==
  ASSUME AuthoringIInv, runPoolUpdate
  PROVE  AuthoringIInv'
<1>1. PICK req \in parsePoolUpdateArgs : writeImpactPlan(BuildImpactPlan(show, req))
  BY DEF runPoolUpdate
<1>2. Tidy(show)
  BY DEF AuthoringIInv, SavedShow
<1>3. /\ Ids(show, "pool") \subseteq Nat /\ Ids(show, "deployment") \subseteq Nat
      /\ {m.id : m \in show.members} \subseteq Nat
  BY <1>2, IdsAreNumbers
<1>4. Additions \subseteq Seq(Specs)
  BY PatchAssumption DEF Specs
<1>5. parsePoolUpdateArgs \subseteq Requests
  BY <1>3, <1>4 DEF parsePoolUpdateArgs, Requests
<1> QED BY <1>1, <1>5, PlanWritten

\* "pool substitute" plans a request with as many additions as removals.
LEMMA SubstituteKeeps ==
  ASSUME AuthoringIInv, runPoolSubstitute
  PROVE  AuthoringIInv'
<1>1. PICK p \in Ids(show, "pool"), from \in Fixtures, to \in Fixtures : BuildSubstitutionPlan(p, from, to)
  BY DEF runPoolSubstitute
<1> DEFINE old == {x \in show.members : x.pool = p /\ x.fixture = from}
           gone == {m.id : m \in old}
           add == [n \in 1..Cardinality(gone) |-> [fixture |-> to, width |-> 1]]
           req == [pool |-> p, remove |-> gone, attach |-> {}, start |-> <<1, 1>>, add |-> add]
<1>2. writeImpactPlan(BuildImpactPlan(show, req))
  BY <1>1 DEF BuildSubstitutionPlan
<1>3. Tidy(show)
  BY DEF AuthoringIInv, SavedShow
<1>4. p \in Nat /\ gone \subseteq Nat
  BY <1>3, IdsAreNumbers
<1>5. Cardinality(gone) \in Nat
  <2>1. IsFiniteSet(old)
    BY <1>3, FS_Subset DEF Tidy
  <2> DEFINE idOf == [m \in old |-> m.id]
  <2>2. idOf \in Surjection(old, gone)
    BY DEF Surjection
  <2> HIDE DEF idOf, old, gone
  <2>3. IsFiniteSet(gone)
    BY <2>1, <2>2, FS_Surjection
  <2> QED BY <2>3, FS_CardinalityType
<1>6. add \in Seq(Specs)
  <2>1. [fixture |-> to, width |-> 1] \in Specs
    BY DEF Specs
  <2> HIDE DEF gone
  <2> QED BY <1>5, <2>1
<1> HIDE DEF gone, add
<1>7. req \in Requests
  BY <1>4, <1>6 DEF Requests
<1> HIDE DEF req
<1> QED BY <1>2, <1>7, PlanWritten

\* An edit by hand changes what a file says, and not its digest.
LEMMA HandEditKeeps ==
  ASSUME AuthoringIInv, EditPlanFile
  PROVE  AuthoringIInv'
<1>1. PICK p \in plans :
        /\ plans' = (plans \ {p}) \cup {[p EXCEPT !.body = [p.body EXCEPT !.drops = {}, !.req.remove = {}]]}
        /\ show' = show /\ applied' = applied
  BY DEF EditPlanFile
<1> DEFINE body == [p.body EXCEPT !.drops = {}, !.req.remove = {}]
           new == [p EXCEPT !.body = body]
<1>2. p = [body |-> p.body, id |-> p.id] /\ p.id.req \in Requests
  BY DEF AuthoringIInv, PlansSound
<1>4. plans' = (plans \ {p}) \cup {new}
  BY <1>1
<1> HIDE DEF body
<1>3. new = [body |-> new.body, id |-> p.id] /\ new.id = p.id
  BY <1>2
<1> HIDE DEF new
<1>5. PlansSound'
  BY <1>2, <1>3, <1>4 DEF AuthoringIInv, PlansSound
<1>6. {q.id : q \in plans} \subseteq {q.id : q \in plans'}
  BY <1>3, <1>4
<1>7. show.revision \in Nat
  BY ShowStateAssumption DEF AuthoringIInv, SavedShow, Tidy
<1>8. HistorySound'
  BY <1>1, <1>6, <1>7, HistoryKept DEF AuthoringIInv
<1>9. SavedShow(show)'
  BY <1>1 DEF AuthoringIInv
<1> QED BY <1>5, <1>8, <1>9 DEF AuthoringIInv

\* A fresh plan is applied at the revision it was made at; the show is whole
\* after it, and has moved past every other plan of that revision.
LEMMA ApplyKeeps ==
  ASSUME AuthoringIInv, runPoolApply, show.revision < MaxRevision
  PROVE  AuthoringIInv'
<1>1. PICK p \in plans :
        LET s == Scrubbed(Apply(show, p.body)) IN
        /\ ValidatePlanIntegrity(p)
        /\ ValidatePlanFreshness(p)
        /\ validate(s)
        /\ show' = [s EXCEPT !.revision = @ + 1]
        /\ applied' = Append(applied, [plan |-> p.body, at |-> show.revision])
        /\ plans' = plans
  BY DEF runPoolApply
<1> DEFINE s == Apply(show, p.body)
           new == [plan |-> p.id, at |-> show.revision]
<1>2. p.body = p.id /\ p.id.req \in Requests
  BY <1>1 DEF ValidatePlanIntegrity, AuthoringIInv, PlansSound
<1>3. Plannable(show, p.id.req) /\ BuildImpactPlan(show, p.id.req) = p.id
  BY <1>1, <1>2 DEF ValidatePlanFreshness
<1>4. p.id.revision = show.revision
  BY <1>3 DEF BuildImpactPlan
<1>5. Tidy(show) /\ show.revision \in Nat /\ show.revision \in 1..MaxRevision
  BY ShowStateAssumption DEF AuthoringIInv, SavedShow, Tidy
<1>6. Tidy(s) /\ s.revision = show.revision
  BY <1>2, <1>3, <1>5, ApplicationIsTidy
<1>7. validate(Scrubbed(s)) /\ show' = [Scrubbed(s) EXCEPT !.revision = @ + 1]
      /\ applied' = Append(applied, new) /\ plans' = plans
  BY <1>1, <1>2
<1> HIDE DEF s
<1>8. SavedShow(show') /\ show'.revision = show.revision + 1
  <2>1. s.revision + 1 <= MaxRevision
    BY <1>5, <1>6, ShowStateAssumption
  <2> QED BY <1>6, <1>7, <2>1, SaveWritesSaved
<1>9. PlansSound'
  BY <1>7 DEF AuthoringIInv, PlansSound
<1> DEFINE ids == {q.id : q \in plans}
           Entry == [plan : ids, at : 1..MaxRevision]
<1>10. applied \in Seq(Entry) /\ new \in Entry /\ new.plan = p.id /\ new.at = show.revision
  BY <1>5 DEF AuthoringIInv, HistorySound
<1>11. ids = {q.id : q \in plans}'
  BY <1>7
<1> HIDE DEF new, ids
<1>12. /\ applied' \in Seq(Entry) /\ Len(applied') = Len(applied) + 1 /\ Len(applied) \in Nat
       /\ applied'[Len(applied) + 1] = new
       /\ \A a \in 1..Len(applied) : applied'[a] = applied[a]
  <2> HIDE DEF Entry
  <2> QED BY <1>7, <1>10
<1>13. \A a \in 1..Len(applied) :
         /\ applied[a].plan.revision = applied[a].at
         /\ applied[a].at < show.revision /\ applied[a].at \in Nat
  <2> SUFFICES ASSUME NEW a \in 1..Len(applied)
               PROVE  /\ applied[a].plan.revision = applied[a].at
                      /\ applied[a].at < show.revision /\ applied[a].at \in Nat
    OBVIOUS
  <2>1. applied[a] \in Entry
    BY <1>10, ElementOfSeq
  <2>2. applied[a].at \in 1..MaxRevision
    BY <2>1
  <2> QED BY <2>2, ShowStateAssumption DEF AuthoringIInv, HistorySound
<1>14. HistorySound'
  <2>1. \A a \in 1..Len(applied') :
          applied'[a].plan.revision = applied'[a].at /\ applied'[a].at < show'.revision
    <3> SUFFICES ASSUME NEW a \in 1..Len(applied')
                 PROVE  applied'[a].plan.revision = applied'[a].at /\ applied'[a].at < show'.revision
      OBVIOUS
    <3>1. CASE a \in 1..Len(applied)
      BY <1>5, <1>8, <1>12, <1>13, <3>1
    <3>2. CASE a = Len(applied) + 1
      BY <1>4, <1>5, <1>8, <1>10, <1>12, <3>2
    <3> QED BY <1>12, <3>1, <3>2
  <2>2. \A a, b \in 1..Len(applied') : applied'[a].at = applied'[b].at => a = b
    <3> SUFFICES ASSUME NEW a \in 1..Len(applied'), NEW b \in 1..Len(applied'),
                        applied'[a].at = applied'[b].at
                 PROVE  a = b
      OBVIOUS
    <3>1. CASE a \in 1..Len(applied) /\ b \in 1..Len(applied)
      BY <1>12, <3>1 DEF AuthoringIInv, HistorySound
    <3>2. CASE a \in 1..Len(applied) /\ b = Len(applied) + 1
      BY <1>5, <1>10, <1>12, <1>13, <3>2
    <3>3. CASE a = Len(applied) + 1 /\ b \in 1..Len(applied)
      BY <1>5, <1>10, <1>12, <1>13, <3>3
    <3>4. CASE a = Len(applied) + 1 /\ b = Len(applied) + 1
      BY <3>4
    <3> QED BY <1>12, <3>1, <3>2, <3>3, <3>4
  <2> QED BY <1>11, <1>12, <2>1, <2>2 DEF HistorySound
<1> QED BY <1>8, <1>9, <1>14 DEF AuthoringIInv

-----------------------------------------------------------------------------
(* The session *)

\* The invariant holds of every session that starts from a saved show: each
\* command of internal/command keeps it.
THEOREM AuthoringInvariance == AuthoringSpec => []AuthoringIInv
<1>1. AuthoringInit => AuthoringIInv
  <2> SUFFICES ASSUME AuthoringInit PROVE AuthoringIInv
    OBVIOUS
  <2>1. SavedShow(show) /\ plans = {} /\ applied = <<>>
    BY ShowsAssumption DEF AuthoringInit
  <2>2. applied \in Seq([plan : {p.id : p \in plans}, at : 1..MaxRevision]) /\ 1..Len(applied) = {}
    BY <2>1
  <2>3. HistorySound
    BY <2>2 DEF HistorySound
  <2> QED BY <2>1, <2>3 DEF AuthoringIInv, PlansSound
<1>2. AuthoringIInv /\ [AuthoringNext]_authoringVars => AuthoringIInv'
  <2> SUFFICES ASSUME AuthoringIInv, [AuthoringNext]_authoringVars PROVE AuthoringIInv'
    OBVIOUS
  <2>1. SavedShow(show)
    BY DEF AuthoringIInv
  <2>2. CASE runPoolApply /\ show.revision < MaxRevision
    BY <2>2, ApplyKeeps
  <2>3. CASE PatchNext /\ show.revision < MaxRevision
    <3>1. CASE runPoolUpdate
      BY <3>1, UpdateKeeps
    <3>2. CASE runPoolSubstitute
      BY <3>2, SubstituteKeeps
    <3>3. CASE EditPlanFile
      BY <3>3, HandEditKeeps
    <3>4. CASE \/ runPoolCreate \/ runPoolRename \/ runPoolDelete
               \/ runDeploymentCreate \/ runDeploymentActivate \/ runDeploymentRename
               \/ runDeploymentDelete \/ runDeploymentInstanceReassign
      BY <2>1, <2>3, <3>4, PatchWrites, WrittenKeeps
    <3> QED BY <2>3, <3>1, <3>2, <3>3, <3>4 DEF PatchNext
  <2>4. CASE ProgrammingNext /\ show.revision < MaxRevision
    <3>1. CASE \/ runProgrammerSet \/ runProgrammerClear
               \/ runThemeCreate \/ runThemeRename \/ runThemeDelete
               \/ runPresetRecord \/ runPresetRename \/ runPresetDelete
               \/ runChaseCreate \/ runChaseUpdate \/ runChaseReorder
               \/ runChaseDuplicate \/ runChaseDelete
               \/ runMotionCreate \/ runMotionRename \/ runMotionDuplicate \/ runMotionDelete
      BY <2>1, <2>4, <3>1, PlayedWrites, WrittenKeeps
    <3>2. CASE \/ runSceneCreate \/ runSceneRename \/ runSceneDuplicate \/ runSceneDelete
               \/ runSceneActivate \/ runPlaybackSwitch \/ runSceneReorder \/ runSceneLayerSet
      BY <2>1, <2>4, <3>2, SceneWrites, WrittenKeeps
    <3>3. CASE \/ runBlendCreate \/ runBlendRename \/ runBlendDelete
               \/ runPlaybackBPMSet \/ runPlaybackBPMTap
      BY <2>1, <2>4, <3>3, TextWrites, WrittenKeeps
    <3> QED BY <2>4, <3>1, <3>2, <3>3 DEF ProgrammingNext
  <2>5. CASE SurroundingsNext /\ show.revision < MaxRevision
    <3>1. CASE \/ runNoteCreate \/ runNoteEdit \/ runNoteDelete \/ runScriptCreate
               \/ runScriptEdit \/ runScriptProfileSet \/ runScriptDelete \/ runShowSave
      BY <2>1, <2>5, <3>1, TextWrites, WrittenKeeps
    <3>2. CASE \/ runOperatorSurfaceCreate \/ runOperatorSurfaceAssign
               \/ runOperatorSurfaceUnassign \/ runOperatorSurfaceRemove
               \/ RemoveMapping \/ RemoveDeskMapping
               \/ \E o \in Objs(show, "surface"), key \in Keys, ref \in resolveControlRef :
                    AddMidiMapping(o, key, ref)
               \/ \E key \in Keys, i \in InstanceIds(show) : AddMapping(key, i)
      BY <2>1, <2>5, <3>2, SurfaceWrites, WrittenKeeps
    <3> QED BY <2>5, <3>1, <3>2 DEF SurroundingsNext
  <2>6. CASE UNCHANGED authoringVars
    BY <2>6 DEF authoringVars, AuthoringIInv, PlansSound, HistorySound
  <2> QED BY <2>2, <2>3, <2>4, <2>5, <2>6 DEF AuthoringNext
<1> QED BY <1>1, <1>2, PTL DEF AuthoringSpec

\* Whatever was deleted, renamed, repatched or substituted, the show that is
\* saved loads, its active scene compiles, its instances are of members that
\* exist and no two of a deployment start at one address.
THEOREM ShowsStayWhole == AuthoringSpec => []SavedShowIsWhole
<1>1. AuthoringIInv => SavedShowIsWhole
  <2> SUFFICES ASSUME AuthoringIInv PROVE SavedShowIsWhole
    OBVIOUS
  <2>1. SavedShow(show) /\ Tidy(show) /\ validate(show) /\ \A l \in show.layers : l.sel \subseteq Targets(show)
    BY DEF AuthoringIInv, SavedShow
  <2>2. ShowTypeOK
    <3>1. show.revision \in 1..MaxRevision /\ show.minted \in Nat
          /\ show.active \subseteq {o.id : o \in show.objs}
          /\ \A d \in show.desk : d.key \in Keys
      BY <2>1 DEF Tidy
    <3>2. \A o \in show.objs : o.kind \in Kinds /\ o.id \in 1..show.minted /\ o.name \in Names
      BY <2>1 DEF Tidy
    <3>3. \A i \in show.instances : i.id \in 1..show.minted
      BY <2>1 DEF Tidy
    <3>4. \A l \in show.layers : l.kind \in LayerKinds /\ l.enabled \in BOOLEAN
      BY <2>1 DEF Tidy
    <3>5. applied \in Seq([plan : {p.id : p \in plans}, at : 1..MaxRevision])
      BY DEF AuthoringIInv, HistorySound
    <3> QED BY <3>1, <3>2, <3>3, <3>4, <3>5 DEF ShowTypeOK
  <2>3. ActiveSceneCompiles
    <3>1. ValidateLayerReferences(show)
      BY <2>1 DEF validate
    <3> QED BY <2>1, <3>1 DEF ActiveSceneCompiles, SceneCompiles, compileLayer, Resolves, ValidateLayerReferences
  <2>4. InstancesHaveMembers(show) /\ StartsDistinct(show)
    BY <2>1 DEF Tidy
  <2> QED BY <2>2, <2>3, <2>4 DEF SavedShowIsWhole
<1> QED BY <1>1, AuthoringInvariance, PTL

\* Save never refuses the deletion of a pool, a deployment, a theme, a preset,
\* a chase, a motion, a scene or a surface that is there.
THEOREM DeletesPass == AuthoringSpec => []DeleteNeverRefused
<1>1. AuthoringIInv => DeleteNeverRefused
  BY PoolDeletePasses, DeploymentDeletePasses, ThemeDeletePasses, PresetDeletePasses,
     ChaseDeletePasses, MotionDeletePasses, SceneDeletePasses, SurfaceRemovePasses
  DEF AuthoringIInv, DeleteNeverRefused
<1> QED BY <1>1, AuthoringInvariance, PTL

\* "pool apply" applies a plan at the revision it was reviewed at, as it was
\* reviewed, and once.
THEOREM AppliesReviewed == AuthoringSpec => []AppliedAsReviewed
<1>1. AuthoringIInv => AppliedAsReviewed
  <2> SUFFICES ASSUME AuthoringIInv, NEW a \in 1..Len(applied)
               PROVE  /\ applied[a].plan.revision = applied[a].at
                      /\ \E p \in plans : p.id = applied[a].plan
                      /\ \A b \in 1..Len(applied) : applied[a].plan = applied[b].plan => a = b
    BY DEF AppliedAsReviewed
  <2>1. HistorySound
    BY DEF AuthoringIInv
  <2>2. applied[a] \in [plan : {p.id : p \in plans}, at : 1..MaxRevision]
    BY <2>1, ElementOfSeq DEF HistorySound
  <2>3. \E p \in plans : p.id = applied[a].plan
    BY <2>2
  <2>4. \A b \in 1..Len(applied) : applied[b].plan.revision = applied[b].at
    BY <2>1 DEF HistorySound
  <2> QED BY <2>1, <2>3, <2>4 DEF HistorySound
<1> QED BY <1>1, AuthoringInvariance, PTL
=============================================================================
