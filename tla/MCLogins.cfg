SPECIFICATION Spec
CONSTANTS
  u1 = u1  u2 = u2  s1 = s1  s2 = s2  s3 = s3
  Users = {u1, u2}
  SessionIds = {s1, s2, s3}
  Requests = {p, q}
  Serials = {1, 2, 3}
  Locks = {l1, l2}
  Nothing = Nothing
  Channels = 2
  LoginIds = {l}
  Tasks = {k1}
  MaxRetries = 1
  Starts <- MCStarts
INVARIANTS
  KeepsGrant
  ActsForItsUser
  ReauthIsTrue
PROPERTIES
  FinishedForGood
