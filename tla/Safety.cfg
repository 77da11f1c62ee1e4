SPECIFICATION Spec
CONSTANTS
    Instances <- MCInstances
    Member <- MCMember
    Faders <- MCFaders
    Groups = {"g"}
    EngineFrame <- Lit
    NoFrame = NoFrame
    Handlers = {"h1"}
    Hotkeys = {"blackout"}
    MaxRequests = 2
    MaxPresses = 1
CHECK_DEADLOCK FALSE
INVARIANTS
  RequestsStand
PROPERTIES
  HeldFlagIsDark
  ReachesTheOutput
