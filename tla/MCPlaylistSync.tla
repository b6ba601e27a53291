---------------------------- MODULE MCPlaylistSync ----------------------------
(* One playlist of up to two tracks, with the outbox of SyncQueue.            *)
EXTENDS PlaylistSync, TLC

MCInverse == [a \in {Sync} |-> NoAction]

MCLists == {l \in UNION {[1..n -> Tracks] : n \in 0..Cardinality(Tracks)} :
              \A i, j \in DOMAIN l : l[i] = l[j] => i = j}

\* For the run without liveness.
MCSymmetry == Permutations(Callers) \cup Permutations(Tracks)
=============================================================================
