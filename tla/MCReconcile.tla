----------------------------- MODULE MCReconcile ------------------------------
(* One target that the user may like here and on the website.                 *)
EXTENDS Reconcile, TLC

MCInverse == [a \in {Like, Unlike} |-> IF a = Like THEN Unlike ELSE Like]

MCScenes ==
  {{"fail", "exhaust", "purge", "repeat", "heal_race", "cut"},
   {"overlap", "race", "lag"},
   {"web", "race", "overlap"},
   {"web", "lag", "cut"},
   {"race", "lag", "fail", "exhaust"},
   {"web", "race", "answer", "heal_race"},
   {"overlap", "race", "lost"}}
=============================================================================
