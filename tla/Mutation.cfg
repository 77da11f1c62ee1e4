SPECIFICATION Spec
CONSTANTS
  Requests = {r1, r2}
  Inputs <- MCInputs
  KeyIds = {"author", "keeper"}
  Minted = {{"author"}, {"keeper"}}
  Scopes <- MCScopes
  Others = {"o"}
  Burst = 1
  MaxEvents = 3
CHECK_DEADLOCK FALSE
INVARIANTS
  AnswersAreTrue
  RetriesReplay
PROPERTIES
  EveryRequestIsAnswered
