SPECIFICATION MigrationSpec
CONSTANTS
    e1 = e1
    e2 = e2
    e3 = e3
    e4 = e4
    cli = cli
    app = app
    NoBlob = NoBlob
    NoFile = NoFile
    SchemaVersion = 2
    Procs <- TwoProcs
    Edits <- ThreeEdits
    KeepPoints = 3
    MaxFaults = 2
    MaxRecoveries = 1
CHECK_DEADLOCK FALSE
SYMMETRY Symmetry
INVARIANTS
  StoreInvariant
  CommittedEditsSurvive
  RecoveryOffers
PROPERTIES
  MigrationKeepsShow
  IsARegister
