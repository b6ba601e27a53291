----------------------------- MODULE MCLikeSync -------------------------------
(* One target that a user likes and unlikes, with the outbox of SyncQueue.    *)
EXTENDS LikeSync, TLC

MCInverse == [a \in {Like, Unlike} |-> IF a = Like THEN Unlike ELSE Like]
=============================================================================
