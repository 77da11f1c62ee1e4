-------------------------- MODULE MCPlaybackEngine --------------------------
(* A small instance of PlaybackEngine: two scenes, one valid contents at    *)
(* each of two tempos, and one that does not compile; and two engines side  *)
(* by side for LateTick.  The two share no state, so a behaviour is of one. *)
EXTENDS PlaybackEngine, LateTick

CONSTANTS s1, s2, c1, c2, bad

MCScenes == {s1, s2}
MCContents == {c1, c2, bad}
MCHas == [c \in MCContents |-> IF c = c2 THEN {s1} ELSE {s1, s2}]
MCBroken == {bad}
MCTempo == [c \in MCContents |-> IF c = c2 THEN 2 ELSE 1]
MCPreserve == [s \in MCScenes |-> s = s2]

\* loops of 2 and 3 bars; 24 steps are a whole number of both
LoopsOfTwoAndThree == [s \in MCScenes |-> IF s = s1 THEN 2 ELSE 3]

\* compiled plans of one tempo, with the same two lengths
Plan(n, b, p) == [name |-> n, bars |-> b, tempo |-> 1, preserve |-> p]
OneTempo == {Plan("a", 2, TRUE), Plan("b", 3, FALSE), Plan("c", 2, FALSE)}

VARIABLE part

MCInit == part \in {"engine", "late"} /\ Init /\ LateInit

MCNext ==
  /\ UNCHANGED part
  /\ \/ part = "engine" /\ Next /\ UNCHANGED lateVars
     \/ part = "late" /\ LateNext /\ UNCHANGED vars

EngineFairness ==
  /\ WF_vars(part = "engine" /\ LiveTick)
  /\ \A g \in Stagers : WF_vars(part = "engine" /\ Stage(g))

MCSpec == MCInit /\ [][MCNext]_<<vars, lateVars, part>> /\ EngineFairness
=============================================================================
