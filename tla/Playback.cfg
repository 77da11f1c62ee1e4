SPECIFICATION MCSpec
CONSTANTS
    s1 = s1
    s2 = s2
    c1 = c1
    c2 = c2
    bad = bad
    None = None
    NoPlan = NoPlan
    LatePlans <- OneTempo
    MaxStall = 4
    Scenes <- MCScenes
    Contents <- MCContents
    Has <- MCHas
    Broken <- MCBroken
    Bars <- LoopsOfTwoAndThree
    Tempo <- MCTempo
    Preserve <- MCPreserve
    Stagers = {"g1"}
    MaxEdits = 3
    MaxLag = 2
    Res = 4
    Cycle = 24
CHECK_DEADLOCK FALSE
INVARIANTS
  EngineInvariant
  LateEqualsOnTime
PROPERTIES
  NeverBlanked
  PendingDrains
