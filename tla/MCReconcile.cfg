SPECIFICATION FairReconcileSpec
CONSTANTS
  Like = Like
  Unlike = Unlike
  Actions = {Like, Unlike}
  Healable = {Like, Unlike}
  inverse <- MCInverse
  Targets = {t1}
  WithPayload = {}
  Payloads = {}
  NoPayload = NoPayload
  Ids = {1, 2, 3}
  Workers = {w1}
  Callers = {c1}
  MaxRetries = 1
  NoAction = NoAction
  NoRow = NoRow
  Nobody = Nobody
  NoCall = NoCall
  Absent = Absent
  Scenes <- MCScenes
  Refreshers = {r1}
  Steady = 3
  PageLimit = 2
  NoRefresh = NoRefresh
INVARIANTS
  PullLosesNothing
PROPERTIES
  OrphansOnly
  MirrorConverges
