------------------------------ MODULE TrackLists ------------------------------
(* What the requests of the playlist editor do to a list of tracks: the       *)
(* closures the repository hands to mutate_desired, and the part of a list    *)
(* that an interrupted pagination brings.                                     *)
EXTENDS Naturals, Sequences, FiniteSets
LOCAL INSTANCE SequencesExt

CONSTANT Tracks

Without(l, t) == SelectSeq(l, LAMBDA x : x # t)

DedupKeepFirst(s) ==
  FoldLeft(LAMBDA acc, t : IF t \in ToSet(acc) THEN acc ELSE Append(acc, t), <<>>, s)

AddTrack(l, t) == IF t \in ToSet(l) THEN l ELSE Append(l, t)

\* to is an index from 0.
MoveTrack(l, t, to) ==
  IF t \notin ToSet(l) THEN l
  ELSE LET rest == Without(l, t)
           at   == IF to > Len(rest) THEN Len(rest) ELSE to
       IN InsertAt(rest, at + 1, t)

SetOrder(l, submitted) == DedupKeepFirst(submitted)

MergeOrder(l, submitted) == DedupKeepFirst(submitted \o l)

\* One edit of l; a client submits at most as many tracks as there are.
Edits(l) ==
  LET submitted == BoundedSeq(Tracks, Cardinality(Tracks))
  IN {AddTrack(l, t) : t \in Tracks}
     \cup {Without(l, t) : t \in Tracks}
     \cup {MoveTrack(l, t, n) : t \in Tracks, n \in 0..Len(l)}
     \cup {SetOrder(l, s) : s \in submitted}
     \cup {MergeOrder(l, s) : s \in submitted}

\* The pages fetch_all_pages has read before the pagination broke off.
Truncated(l) == {SubSeq(l, 1, n) : n \in 1..Len(l)}
=============================================================================
