------------------------------ MODULE MCLyrics ------------------------------
(* One track: two requests, texts of the aggregators that are synchronised, *)
(* plain, too short or of a length on an edge, whisper's, and what goes on  *)
(* besides.                                                                 *)
EXTENDS Lyrics

MCScenes == {
  {"overlap", "embed"},
  {"overlap", "fault"},
  {"race", "fault"},
  {"race", "long"},
  {"embed", "fault"}
}
=============================================================================
