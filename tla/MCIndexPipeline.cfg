SPECIFICATION Spec
CONSTANTS
  Tracks = {t1}
  UploadIds = {1}
  EventIds = {1, 2}
  Nobody = 0
  LocalStore = FALSE
  FaultMixes <- Mixes
  MaxStrikes = 2
  IdleReaps = 1
INVARIANTS
  QualityIsTrue
  NoStuckRecord
PROPERTIES
  ImplementsTrackLife
