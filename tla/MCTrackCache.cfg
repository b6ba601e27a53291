SPECIFICATION FairSpec
CONSTANTS
  Requests = {p, q}
  Nobody = Nobody
  MaxCuts = 1
  MaxTimers = 2
  MaxRestarts = 1
  Scenes <- MCScenes
INVARIANTS
  HandedPathLives
PROPERTIES
  LikedBoundKept
  RequestsAnswered
  RawIsDropped
