---------------------------- MODULE MusicalClock ----------------------------
(***************************************************************************)
(* The musical clock of internal/playback/clock.go, as operators over      *)
(* integers.  The code keeps an epoch loopStart and derives everything     *)
(* from now - loopStart and the tempo.  Here the musical distance from the *)
(* epoch is kept directly, in steps of 1/Res of a bar ("phase"): a plan of *)
(* tempo t moves t steps per unit of time.  Keeping the phase instead of   *)
(* the epoch makes both outcomes of RecomputeEpoch exact: the code's       *)
(* preserve branch is the one that leaves the phase where it is.           *)
(***************************************************************************)
EXTENDS Integers

CONSTANT
    Res,        \* steps per bar: the resolution of BeatFraction
    Cycle       \* the phase is kept modulo Cycle, a multiple of every loop length

ASSUME ResAssumption == Res \in Nat \ {0}
ASSUME CycleAssumption == Cycle \in Nat \ {0}

Phases == 0 .. (Cycle - 1)

\* now.Sub(loopStart) after dt more units at tempo t, in steps
Advance(phase, tempo, dt) == (phase + tempo * dt) % Cycle

\* Position: the wrapped bar and the fraction of it (a non-positive
\* barsPerLoop is clamped to 1)
ClampBars(barsPerLoop) == IF barsPerLoop = 0 THEN 1 ELSE barsPerLoop

BarIndex(phase, barsPerLoop) == (phase \div Res) % ClampBars(barsPerLoop)

Position(phase, barsPerLoop) ==
    [bar |-> BarIndex(phase, barsPerLoop), frac |-> phase % Res]

\* RecomputeEpoch: the loop restarts at now, or now keeps its bar and beat
RecomputeEpoch(preserve, phase) == IF preserve THEN phase ELSE 0

\* Fault: a bar that differs from the last one is no boundary
FaultOnlyStaleBars(lastBar, curBar, barsPerLoop) ==
    lastBar < 0 \/ lastBar >= barsPerLoop

\* crossedBarBoundary of engine.go
CrossedBarBoundary(lastBar, curBar, barsPerLoop) ==
    \/ lastBar < 0
    \/ lastBar >= barsPerLoop
    \/ curBar # lastBar
=============================================================================
