SPECIFICATION Spec
CONSTANTS
  Tools = {"mage", "node"}
  Versioned = {"node"}
  Stages <- MCStages
  Unfit <- MCUnfit
  Bare <- MCBare
  MaxPin = 2
  MaxEdits = 1
  MaxFaults = 1
  MaxCommands = 3
CHECK_DEADLOCK FALSE
INVARIANTS
  LeftInOrder
PROPERTIES
  FailuresAreUndone
  BootstrapSettles
