-------------------------------- MODULE Logins --------------------------------
(***************************************************************************)
(* Signing in, and the whole of auth: login requests, the callback that    *)
(* claims one, the task that exchanges the code and stores the session,    *)
(* and the retry with another app, composed with Sessions.                 *)
(***************************************************************************)
EXTENDS Sessions

CONSTANTS LoginIds, Tasks,
          MaxRetries   \* MAX_AUTH_RETRIES

ASSUME LoginAssumption == MaxRetries \in Nat

VARIABLES logins,  \* the table login_requests
          tasks    \* run_callback_background

loginVars == <<logins, tasks>>
vars      == <<sessionVars, scene, loginVars>>

NoLogin  == [status |-> "none", tries |-> 0, target |-> Nothing]
Logins   == [status : {"pending", "processing", "completed", "failed"}, tries : 0..MaxRetries,
             target : SessionIds \cup {Nothing}]
NoTask   == [pc |-> "none", l |-> Nothing, row |-> NoLogin, user |-> Nothing]
TaskRows == [pc : {"exchange", "save", "complete"}, l : LoginIds, row : Logins, user : Users]

LoginTypeOK ==
  /\ SessionTypeOK
  /\ logins \in [LoginIds -> Logins \cup {NoLogin}]
  /\ tasks \in [Tasks -> TaskRows \cup {NoTask}]

Init ==
  /\ SessionsInit
  /\ logins = [l \in LoginIds |-> NoLogin]
  /\ tasks = [k \in Tasks |-> NoTask]

----------------------------------------------------------------------------
(* Helpers                                                                 *)

TaskAt(k, pc) == tasks[k].pc = pc
Goto(k, pc)   == tasks' = [tasks EXCEPT ![k].pc = pc]
Ends(k)       == tasks' = [tasks EXCEPT ![k] = NoTask]
\* Ids are never used twice: not those of sessions that are gone, but still named.
Targeted      == {logins[l].target : l \in LoginIds} \cup {tasks[k].row.target : k \in Tasks}
NewIds        == FreeIds \ Targeted

\* The tokens that are still known when the row of s is overwritten.
Held(s) == {sessions[r].token : r \in SessionIds \ {s}} \cup {reqs[p].row.token : p \in Requests}

\* UPDATE login_requests SET status: nothing, when the row is gone.  Of a login
\* that has ended only the outcome is kept.
Becomes(l, status) ==
  logins' = [logins EXCEPT ![l] = IF @ = NoLogin THEN @
                                  ELSE IF status = "processing" THEN [@ EXCEPT !.status = status]
                                  ELSE [NoLogin EXCEPT !.status = status]]

----------------------------------------------------------------------------
(* Actions                                                                 *)

\* A sign-in, on a session of this device or on none.  Bound: an id is kept for
\* each login that may need a new one.
Active == {l \in LoginIds : logins[l].status \in {"pending", "processing"}}

Initiate(l, target) ==
  /\ "login" \in scene /\ logins[l] = NoLogin /\ \A k \in Tasks : tasks[k].l # l
  /\ target \in SessionIds => Used(target)
  /\ Cardinality(NewIds) > Cardinality(Active)
  /\ logins' = [logins EXCEPT ![l] = [NoLogin EXCEPT !.status = "pending", !.target = target]]
  /\ UNCHANGED <<sessionVars, scene, tasks>>

\* (mutant) the status is not asked
ClaimableAlways(row) == TRUE

\* Only a pending row is claimed; its state is new after every retry.
Claimable(row) == row.status = "pending"

\* u has signed in at SoundCloud.
Callback(k, l, u) ==
  /\ TaskAt(k, "none") /\ logins[l] # NoLogin /\ Claimable(logins[l])
  /\ Becomes(l, "processing")
  /\ tasks' = [tasks EXCEPT ![k] = [pc |-> "exchange", l |-> l, row |-> logins[l], user |-> u]]
  /\ UNCHANGED <<sessionVars, scene>>

\* The retries are counted by the row as the callback claimed it.
Spent(row) == row.tries >= MaxRetries

Retried(row) == [row EXCEPT !.status = "pending", !.tries = @ + 1]

\* retry_with_new_app
Again(k, HasApp) ==
  LET l == tasks[k].l IN
    IF ~Spent(tasks[k].row) /\ HasApp
    THEN logins' = [logins EXCEPT ![l] = IF @ = NoLogin THEN @ ELSE Retried(@)]
    ELSE Becomes(l, "failed")

\* The code is exchanged, and the token says whose it is; or SoundCloud refuses
\* either, or cannot be reached; or the callback has come too late.
Exchange(k) ==
  /\ TaskAt(k, "exchange")
  /\ \/ Goto(k, "save") /\ UNCHANGED logins
     \/ Ends(k) /\ \E HasApp \in BOOLEAN : Again(k, HasApp)
     \/ Ends(k) /\ Becomes(tasks[k].l, "failed")
  /\ UNCHANGED <<sessionVars, scene>>

\* (mutant) soundcloud_user_id of the row stays
SignedInKeepingUser(s, u) ==
  [user |-> IF Present(s) THEN sessions[s].user ELSE u, token |-> NewToken(u), age |-> "fresh"]

\* The columns a login writes.
SignedIn(s, u) == [user |-> u, token |-> NewToken(u), age |-> "fresh"]

\* The row of s is being renewed for another user than u.
Overlaps(s, u) == sessions[s].user # u /\ \E p \in Holding : reqs[p].s = s

\* The row of the target is overwritten, a new one is made if it is gone.  The
\* new token is live since the exchange, and nobody has seen it before.
SaveSession(k) ==
  /\ TaskAt(k, "save")
  /\ LET u == tasks[k].user  target == tasks[k].row.target IN
     \E s \in SessionIds :
       /\ Fresh(u) # {}
       /\ IF target \in SessionIds /\ Present(target) THEN s = target
          ELSE NewIds # {} /\ s = CHOOSE r \in NewIds : TRUE
       /\ "switch" \notin scene => ~Overlaps(s, u)
       /\ sessions' = [sessions EXCEPT ![s] = SignedIn(s, u)]
       /\ live' = (live \cap Held(s)) \cup {NewToken(u)}
  /\ Goto(k, "complete")
  /\ UNCHANGED <<locks, fails, reqs, link, scene, logins>>

Complete(k) ==
  /\ TaskAt(k, "complete")
  /\ Becomes(tasks[k].l, "completed") /\ Ends(k)
  /\ UNCHANGED <<sessionVars, scene>>

\* A statement fails, and the row is marked failed unless that fails too.
TaskFails(k) ==
  /\ "lost" \in scene /\ ~TaskAt(k, "none")
  /\ Ends(k) /\ (Becomes(tasks[k].l, "failed") \/ UNCHANGED logins)
  /\ UNCHANGED <<sessionVars, scene>>

\* A restart leaves the rows as they are.
Restart ==
  /\ HandlersRestart
  /\ tasks' = [k \in Tasks |-> NoTask]
  /\ UNCHANGED logins

\* cleanup_expired_login_requests: every row whose time is over, whatever its status.
Cleanup(l) ==
  /\ logins[l] # NoLogin
  /\ logins' = [logins EXCEPT ![l] = NoLogin]
  /\ UNCHANGED <<sessionVars, scene, tasks>>

----------------------------------------------------------------------------
TaskStep(k) == Exchange(k) \/ SaveSession(k) \/ Complete(k)

LoginNext ==
  \/ \E l \in LoginIds :
       \/ \E target \in SessionIds \cup {Nothing} : Initiate(l, target)
       \/ \E k \in Tasks, u \in Users : Callback(k, l, u)
       \/ Cleanup(l)
  \/ \E k \in Tasks : TaskStep(k) \/ TaskFails(k)
  \/ Restart

Next == (SessionsNext(NewIds) /\ UNCHANGED loginVars) \/ LoginNext
Spec == Init /\ [][Next]_vars

----------------------------------------------------------------------------
(* Properties                                                              *)

\* A login that has ended is not begun again by a second callback, nor does a
\* late task change its outcome (claim_login_request.sql, retry_with_new_app): it
\* stays until the row is deleted.
Outcome(l)      == logins[l].status
FinishedForGood ==
  [][\A l \in LoginIds :
       Outcome(l) \in {"completed", "failed"} => Outcome(l)' \in {Outcome(l), "none"}]_vars
=============================================================================
