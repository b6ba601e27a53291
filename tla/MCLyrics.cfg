SPECIFICATION FairSpec
CONSTANTS
  Requests = {p, q}
  Enqueuers = {d, e}
  Nobody = Nobody
  Texts = {plain, timed, brief, edge, line}
  SelfGen = heard
  SyncedTexts = {timed}
  ShortTexts = {line}
  MiddleTexts = {brief}
  EdgeTexts = {edge}
  MaxFaults = 1
  Scenes <- MCScenes
INVARIANTS
  ShownIsStored
  VectorMatches
PROPERTIES
  SettledForGood
  LyricsSettle
