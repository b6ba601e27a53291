------------------------------ MODULE MCWorkPool ------------------------------
(* Two tracks and two permits, and a kick channel with room for one.           *)
EXTENDS WorkPool, TLC

=============================================================================
