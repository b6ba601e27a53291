SPECIFICATION PlaylistSpec
CONSTANTS
  Sync = Sync
  Actions = {Sync}
  Healable = {Sync}
  inverse <- MCInverse
  Targets = {p1}
  Tracks = {a, b}
  Lists <- MCLists
  MaxRev = 2
  WithPayload = {}
  Payloads = {}
  NoPayload = NoPayload
  Ids = {1, 2}
  Workers = {w1}
  Callers = {c1, c2}
  MaxRetries = 2
  NoAction = NoAction
  NoRow = NoRow
  Nobody = Nobody
  NoCall = NoCall
  Faults = {"fail", "exhaust", "answer", "lost", "drop", "truncated", "unseeded", "purge"}
INVARIANTS
  SyncedIsDelivered
SYMMETRY MCSymmetry
