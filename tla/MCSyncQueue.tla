----------------------------- MODULE MCSyncQueue -----------------------------
(* A small instance of SyncQueue: a pair of opposite actions and one action   *)
(* that carries a payload, on one target.                                      *)
EXTENDS SyncQueue, TLC

CONSTANTS like, unlike, share

MCInverse == [a \in {like, unlike, share} |->
                IF a = like THEN unlike ELSE IF a = unlike THEN like ELSE NoAction]

\* Ids are only compared, and any fresh id is as good as FreshId.
MCSymmetry == Permutations(Payloads) \cup Permutations(Ids)
=============================================================================
