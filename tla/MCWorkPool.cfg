SPECIFICATION FairSpec
CONSTANTS
  Tracks = {t1, t2}
  Slots = {s1, s2}
  MaxAttempts = 3
  KickBuffer = 1
  NoItem = NoItem
  Faults = {"fail", "timeout", "write", "crash"}
INVARIANTS
  OneRunPerTrack
  DeadIsSpent
PROPERTIES
  TracksEnd
  FailureKeepsLease
