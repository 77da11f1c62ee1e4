SPECIFICATION MCSpec
CONSTANTS
  N = 2
  Kind <- MCKind
  Parent <- MCParent
  Files = {f1, f2}
  MaxTitle = 2
  MaxCommands = 5
  MaxObjects = 8
  MaxEdits = 1
  MaxHand = 1
  MaxFaults = 1
  Keys = {"log", "remote", "go"}
  Unlocked = {"log", "remote"}
  Required = {"go"}
  Texts = {"a", "b"}
  Allowed <- MCAllowed
  Setters = {p, q}
  MaxHands = 1
CHECK_DEADLOCK FALSE
INVARIANTS
  AppliesAreRight
  ResolvesAsDeclared
PROPERTIES
  EndsKeepingHandEdits
  SetsAreLocal
