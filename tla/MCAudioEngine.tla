---------------------------- MODULE MCAudioEngine ----------------------------
(* What else happens while two tracks are played.                           *)
EXTENDS AudioEngine

MCScenes == {
  {"preview"},
  {"time", "early", "overlap", "missing"},
  {"time", "dies"},
  {"time", "mute"},
  {"time", "seek"},
  {"time", "dislike"},
  {"dislike", "dies"},
  {"seek", "rate", "dies"},
  {"seek", "loop", "rate"},
  {"loop", "rate", "mute"},
  {"pick", "follow", "dies", "mute", "missing"},
  {"pick", "slow"},
  {"hurry", "follow"},
  {"hurry", "overlap"},
  {"busy", "dies"}
}
=============================================================================
