SPECIFICATION FairLikeSpec
CONSTANTS
  Like = Like
  Unlike = Unlike
  Actions = {Like, Unlike}
  Healable = {Like, Unlike}
  inverse <- MCInverse
  Targets = {t1}
  WithPayload = {}
  Payloads = {}
  NoPayload = NoPayload
  Ids = {1, 2, 3, 4}
  Workers = {w1}
  Callers = {c1}
  MaxRetries = 1
  NoAction = NoAction
  NoRow = NoRow
  Nobody = Nobody
  NoCall = NoCall
  Absent = Absent
  Scenes = {{"fail", "exhaust", "answer", "lost", "drop", "heal_race", "repeat", "overlap", "purge"}}
INVARIANTS
  AnswerIsCurrent
PROPERTIES
  IntentIsTheUsers
  MirrorSettles
