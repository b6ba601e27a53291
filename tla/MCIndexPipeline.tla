--------------------------- MODULE MCIndexPipeline ---------------------------
(* One track: no statement, cache entry or message concerns two.  Faults    *)
(* that do not touch one another are in different mixes.                    *)
EXTENDS IndexPipeline

Mixes ==
  { {"redeliver", "resync"}, {"redeliver", "restart"}, {"long", "resync"},
    {"restart", "lost", "silent"}, {"overlap", "hasty"}, {"listen", "cleanup"} }

\* The faults under which tracks settle.
SettlingMixes == {{"redeliver", "restart", "resync"}, {"overlap"}}
=============================================================================
