SPECIFICATION Spec
CONSTANTS
  NRuns = 2
  Stops = {s1}
  Names = {"s"}
  NameOf <- MCNameOf
  Modes <- MCModes
  Jobs <- MCJobs
  Rate = 1
  MaxLive = 1
  Sources <- MCSources
  MaxEdits = 1
CHECK_DEADLOCK FALSE
INVARIANTS
  OutcomesAreTrue
  LiveRunIsFindable
PROPERTIES
  RunsAndStopsEnd
