SPECIFICATION AuthoringSpec
CONSTANTS
  Names = {"a", "b"}
  Vals = {0}
  Keys = {"k", "l"}
  Channels = 4
  MaxUniverse = 2
  MaxRevision = 3
  Fixtures = {"f", "g"}
  Additions <- MCAdditions
  MaxPlans = 1
  Tempos = {90}
  Shows <- MCShows
CHECK_DEADLOCK FALSE
INVARIANTS
  SavedShowIsWhole
  DeleteNeverRefused
  AppliedAsReviewed
