SPECIFICATION FairSpec
CONSTANTS
  Tracks = {t1}
  UploadIds = {1}
  EventIds = {1, 2}
  Nobody = 0
  LocalStore = FALSE
  FaultMixes <- SettlingMixes
  MaxStrikes = 2
  IdleReaps = 1
PROPERTIES
  TracksSettle
