------------------------------- MODULE MCLogins -------------------------------
(* Two users, three sessions, two requests at a time, one login at a time.   *)
EXTENDS Logins, TLC

CONSTANTS u1, u2, s1, s2, s3

Row(u, n, age) == [user |-> u, token |-> <<u, n>>, age |-> age]
\* One session, and one that is not used but takes an id; two; one that is linked.
One  == (s1 :> Row(u1, 1, "due")) @@ (s2 :> NoRow) @@ (s3 :> Row(u2, 1, "fresh"))
Two  == (s1 :> Row(u1, 1, "due")) @@ (s2 :> Row(u2, 1, "fresh")) @@ (s3 :> NoRow)
Link == (s1 :> Row(u1, 1, "due")) @@ (s2 :> NoRow) @@ (s3 :> NoRow)

Start(table, scenes) == {[table |-> table, scene |-> x] : x \in scenes}

MCStarts ==
  Start(Two, {{s1, s2, "busy"}}) \cup
  Start(Link, {{s1, "busy", "link"}, {s1, "busy", "link", "overlap"}}) \cup
  Start(One, {{s1, "busy", "lost"}, {s1, "busy", "race"}, {s1, "busy", "revoked"},
              {s1, "login"}, {s1, "login", "switch"}, {s1, "login", "lost"},
              {s1, "login", "logout", "reap"}})
=============================================================================
