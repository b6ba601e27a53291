SPECIFICATION FairPlaylistSpec
CONSTANTS
  Sync = Sync
  Actions = {Sync}
  Healable = {Sync}
  inverse <- MCInverse
  Targets = {p1}
  Tracks = {a}
  Lists <- MCLists
  MaxRev = 2
  WithPayload = {}
  Payloads = {}
  NoPayload = NoPayload
  Ids = {1, 2}
  Workers = {w1}
  Callers = {c1, c2}
  MaxRetries = 1
  NoAction = NoAction
  NoRow = NoRow
  Nobody = Nobody
  NoCall = NoCall
  Faults = {"fail", "exhaust", "answer", "lost", "drop", "stale", "web", "purge"}
INVARIANTS
  PendingIsKept
PROPERTIES
  MarksWhatWasSent
  EditsSettle
