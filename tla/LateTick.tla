------------------------------ MODULE LateTick ------------------------------
(***************************************************************************)
(* What engine.go says of tick: fed a late now, it ends with the plan and  *)
(* the frame that on-time ticks up to the same now would have produced.    *)
(* Two engines are given the same edits.  One ticks at every unit of time, *)
(* the other misses some and catches up in one tick.  No other goroutine   *)
(* runs during a tick here, so a tick is one step (PlaybackEngine has the  *)
(* interleavings).                                                         *)
(***************************************************************************)
EXTENDS MusicalClock

CONSTANTS
    LatePlans,      \* [name, bars, tempo, preserve] of the compiled plans
    MaxStall,     \* bound: units of time the late engine may miss
    NoPlan      \* nil

ASSUME LatePlansAssumption ==
    \A p \in LatePlans : /\ p.bars \in Nat \ {0}
                     /\ p.tempo \in Nat \ {0}
                     /\ p.preserve \in BOOLEAN
ASSUME LagAssumption == MaxStall \in Nat \ {0} /\ NoPlan \notin LatePlans

VARIABLES onTime, late, lag

lateVars == <<onTime, late, lag>>

\* NewEngine on a state with an active scene
EngineWith(p) == [plan |-> p, pending |-> NoPlan, phase |-> 0, lastBar |-> 0]

\* Fault: the epoch is recomputed at every adoption, not only when the tempo
\* changes
FaultAlwaysRecompute(e, dt) ==
    LET now == Advance(e.phase, e.plan.tempo, dt)
        adopt == /\ e.pending # NoPlan
                 /\ CrossedBarBoundary(e.lastBar, BarIndex(now, e.plan.bars), e.plan.bars)
        plan == IF adopt THEN e.pending ELSE e.plan
        phase == IF adopt THEN RecomputeEpoch(plan.preserve, now) ELSE now
    IN  [plan |-> plan,
         pending |-> IF adopt THEN NoPlan ELSE e.pending,
         phase |-> phase,
         lastBar |-> BarIndex(phase, plan.bars)]

\* tick(now), dt after the previous one
TickOf(e, dt) ==
    LET now == Advance(e.phase, e.plan.tempo, dt)
        adopt == /\ e.pending # NoPlan
                 /\ CrossedBarBoundary(e.lastBar, BarIndex(now, e.plan.bars), e.plan.bars)
        plan == IF adopt THEN e.pending ELSE e.plan
        phase == IF plan.tempo # e.plan.tempo
                 THEN RecomputeEpoch(plan.preserve, now) ELSE now
    IN  [plan |-> plan,
         pending |-> IF adopt THEN NoPlan ELSE e.pending,
         phase |-> phase,
         lastBar |-> BarIndex(phase, plan.bars)]

LateInit ==
    /\ \E p \in LatePlans : onTime = EngineWith(p)
    /\ late = onTime
    /\ lag = 0

\* StageEdit, while the two engines have ticked equally far
StageBoth(p) ==
    /\ lag = 0
    /\ onTime' = [onTime EXCEPT !.pending = p]
    /\ late' = [late EXCEPT !.pending = p]
    /\ UNCHANGED lag

OnTimeTick ==
    /\ lag < MaxStall
    /\ onTime' = TickOf(onTime, 1)
    /\ lag' = lag + 1
    /\ UNCHANGED late

CatchUp ==
    /\ lag > 0
    /\ late' = TickOf(late, lag)
    /\ lag' = 0
    /\ UNCHANGED onTime

LateNext == (\E p \in LatePlans : StageBoth(p)) \/ OnTimeTick \/ CatchUp

-----------------------------------------------------------------------------
\* The frame an engine shows: its plan, at its position
FrameOf(e) == <<e.plan, Position(e.phase, e.plan.bars)>>

\* Once the late engine has caught up, both play the same plan and show the
\* same frame (engine.go, tick: "produces the exact same final activePlan and
\* Frame a sequence of on-time ticks reaching that same final now would have
\* produced").  It needs a stall of at most the loop less a bar, so that the late tick
\* sees the boundary, and no change of tempo, which restarts or rescales the
\* loop at the tick that notices it and not at the boundary.
LateEqualsOnTime == lag = 0 => FrameOf(late) = FrameOf(onTime)
=============================================================================
