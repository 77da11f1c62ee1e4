SPECIFICATION MCSpec
CONSTANTS
    Targets = {"t1"}
    Handlers = {"h1", "h2"}
    MaxRequests = 2
    MaxErrors = 1
    MaxFrames = 2
    Calls = {"c1", "c2"}
    Definitions <- MCDefinitions
    Catalog <- MCCatalog
    Picks <- MCPicks
    Slug <- MCSlug
    OflName <- MCOflName
    MaxCalls = 3
    MaxTroubles = 1
CHECK_DEADLOCK FALSE
INVARIANTS
  ServedByOne
  LibraryIsSound
PROPERTIES
  DarkReachesTargets
  WaitersAreServed
