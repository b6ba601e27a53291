---------------------------- MODULE MCTrackCache ----------------------------
(* One track of the client's cache: who asks for it and what else happens.  *)
EXTENDS TrackCache

MCScenes == {
  {"play", "crash"},
  {"play", "export"},
  {"play", "short"},
  {"play", "like"},
  {"like", "crash", "cancel", "limit"},
  {"like", "remove", "clear"}
}
=============================================================================
