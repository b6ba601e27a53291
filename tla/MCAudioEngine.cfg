SPECIFICATION FairAudioSpec
CONSTANTS
  NoTrack = NoTrack
  Tracks = {a, b}
  Loads = {1, 2}
  End = 4
  LoopEnd = 2
  MaxGen = 3
  MaxBreaks = 2
  MaxQueue = 2
  AudioScenes <- MCScenes
INVARIANTS
  PreviewMatches
  PlaysAsShown
  PositionIsExact
PROPERTIES
  SoundComesBack
  EndIsTold
