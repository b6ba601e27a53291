------------------------------- MODULE Sessions -------------------------------
(***************************************************************************)
(* The sessions of the backend and their SoundCloud grants: renewal under  *)
(* a lock per session, the breaker for failed renewals, the channels by    *)
(* which a renewal is sent, the linking of a second device, logout and the *)
(* reaper.  SoundCloud renews a grant once: a refresh token is dead when   *)
(* it has been used, unless the answer brings no new one.                  *)
(***************************************************************************)
EXTENDS Naturals, FiniteSets

CONSTANTS Users, SessionIds, Requests,
          Serials,     \* bound: the tokens of a user that are known at a time
          Locks,       \* bound: the mutexes in use at a time
          Nothing,     \* no session, no token, no lock
          Channels,    \* direct, proxy and relay: how many are configured
          Starts       \* the rows the backend may start with, and the scene that follows

\* A token is its user's; access and refresh token of an answer are one here.
Tokens   == Users \X Serials
Owner(t) == t[1]

Events ==
  { "busy",     \* no fault: several requests are handled at a time
    "login",    \* no fault: users sign in, also on a session they have
    "link",     \* no fault: a device is linked
    "logout",   \* no fault: users sign out
    "reap",     \* no fault: expired sessions are deleted
    "switch",   \* a login takes a session over while it is renewed for another user
    "race",     \* two requests look for a session's lock at the same time
    "overlap",  \* two requests claim a link at the same time
    "revoked",  \* SoundCloud ends a grant
    "lost" }    \* an answer is lost, a request is dropped, an UPDATE fails

VARIABLES sessions,  \* the table sessions
          live,      \* SoundCloud: the tokens that can be used
          locks,     \* refresh_locks: the mutex of a session, if it is cached
          fails,     \* Redis: the remembered failure of a session
          reqs,      \* the requests that are being handled
          link,      \* the status of a link request
          scene      \* the sessions that are used in this behaviour, and what happens to them

sessionVars == <<sessions, live, locks, fails, reqs, link>>

NoRow   == [user |-> Nothing, token |-> Nothing, age |-> "none"]
Rows    == [user : Users, token : Tokens, age : {"fresh", "due", "expired"}]
Idle    == [pc |-> "idle", kind |-> "open", s |-> Nothing, lock |-> Nothing, row |-> NoRow,
            left |-> 0]
Request == [pc : {"idle", "lock", "insert", "wait", "send", "save", "copy", "mark", "delete"},
            kind : {"open", "refresh", "link", "logout"}, s : SessionIds \cup {Nothing},
            lock : Locks \cup {Nothing}, row : Rows \cup {NoRow}, left : 0..Channels]

\* The rows at the start have a grant of their own each.
ASSUME SessionAssumption ==
  /\ Nothing \notin SessionIds \cup Tokens \cup Locks
  /\ Channels \in Nat \ {0}
  /\ Starts \subseteq [table : [SessionIds -> Rows \cup {NoRow}], scene : SUBSET (SessionIds \cup Events)]
  /\ \A start \in Starts : \A s \in SessionIds : start.table[s] # NoRow =>
       /\ start.table[s].user = Owner(start.table[s].token)
       /\ \A r \in SessionIds \ {s} : start.table[r].token # start.table[s].token

SessionTypeOK ==
  /\ sessions \in [SessionIds -> Rows \cup {NoRow}]
  /\ live \subseteq Tokens
  /\ locks \in [SessionIds -> Locks \cup {Nothing}]
  /\ fails \in [SessionIds -> {"none", "transient", "reauth"}]
  /\ reqs \in [Requests -> Request]
  /\ link \in {"none", "pending", "claimed", "failed"}
  /\ scene \subseteq SessionIds \cup Events

SessionsInit ==
  /\ \E start \in Starts : sessions = start.table /\ scene = start.scene
  /\ live = {sessions[s].token : s \in SessionIds} \ {Nothing}
  /\ locks = [s \in SessionIds |-> Nothing]
  /\ fails = [s \in SessionIds |-> "none"]
  /\ reqs = [p \in Requests |-> Idle]
  /\ link = "none"

----------------------------------------------------------------------------
(* Helpers                                                                 *)

Present(s)  == sessions[s] # NoRow
Used(s)     == Present(s) /\ s \in scene
NeedsRefresh(row) == row.age # "fresh"
Holding     == {p \in Requests : reqs[p].pc \in {"send", "save"}}
\* (mutant) nobody waits for the mutex
FreeAlways(p) == TRUE

\* The mutex p waits for is not taken.
Free(p) == \A q \in Holding : reqs[q].lock # reqs[p].lock

FreeLocks   == Locks \ ({locks[s] : s \in SessionIds} \cup {reqs[p].lock : p \in Requests})
\* Ids are never used twice: none that a request or a remembered failure names.
FreeIds     == {s \in SessionIds :
                  ~Present(s) /\ fails[s] = "none" /\ \A p \in Requests : reqs[p].s # s}

At(p, pc)   == reqs[p].pc = pc
Goes(p, pc) == reqs' = [reqs EXCEPT ![p].pc = pc]
Done(p)     == reqs' = [reqs EXCEPT ![p] = Idle]

\* get_valid_session has a row to return: a claim goes on with it.
Returns(p, row) ==
  IF reqs[p].kind = "link" THEN reqs' = [reqs EXCEPT ![p].pc = "copy", ![p].row = row,
                                                     ![p].lock = Nothing]
                           ELSE Done(p)

----------------------------------------------------------------------------
(* Requests                                                                *)

Begins(p, s, kind, pc, row) ==
  /\ At(p, "idle")
  /\ "busy" \notin scene => p = CHOOSE q \in Requests : TRUE
  /\ reqs' = [reqs EXCEPT ![p] = [Idle EXCEPT !.pc = pc, !.kind = kind, !.s = s, !.row = row]]

\* get_valid_session of a row that is still good returns at once.
Open(p, s) ==
  /\ Used(s) /\ NeedsRefresh(sessions[s])
  /\ Begins(p, s, "open", "lock", NoRow)
  /\ UNCHANGED <<sessions, live, locks, fails, link, scene>>

\* POST /auth/refresh
ForceRefresh(p, s) ==
  /\ Used(s) /\ Begins(p, s, "refresh", "lock", NoRow)
  /\ UNCHANGED <<sessions, live, locks, fails, link, scene>>

\* get_or_create_lock: get, then insert.
GetLock(p) ==
  /\ At(p, "lock")
  /\ LET s == reqs[p].s IN
       IF locks[s] # Nothing
       THEN reqs' = [reqs EXCEPT ![p].pc = "wait", ![p].lock = locks[s]] /\ UNCHANGED locks
       ELSE \E l \in FreeLocks :
              /\ l = CHOOSE x \in FreeLocks : TRUE
              /\ IF "race" \in scene
                 THEN /\ reqs' = [reqs EXCEPT ![p].pc = "insert", ![p].lock = l]
                      /\ UNCHANGED locks
                 ELSE /\ reqs' = [reqs EXCEPT ![p].pc = "wait", ![p].lock = l]
                      /\ locks' = [locks EXCEPT ![s] = l]
  /\ UNCHANGED <<sessions, live, fails, link, scene>>

InsertLock(p) ==
  /\ At(p, "insert")
  /\ locks' = [locks EXCEPT ![reqs[p].s] = reqs[p].lock]
  /\ Goes(p, "wait")
  /\ UNCHANGED <<sessions, live, fails, link, scene>>

\* The mutex is taken and the row read again; then the breaker is asked.  Both
\* are written under the mutex, so the reads are one step.
GoneMeanwhile(p)    == ~Present(reqs[p].s)
RenewedMeanwhile(p) == reqs[p].kind # "refresh" /\ ~NeedsRefresh(sessions[reqs[p].s])

Reread(p) ==
  /\ At(p, "wait") /\ Free(p)
  /\ LET s == reqs[p].s IN
       IF GoneMeanwhile(p) THEN Done(p)
       ELSE IF RenewedMeanwhile(p) THEN Returns(p, sessions[s])
       ELSE IF fails[s] # "none" THEN Done(p)
       ELSE reqs' = [reqs EXCEPT ![p].pc = "send", ![p].row = sessions[s], ![p].left = Channels]
  /\ UNCHANGED <<sessions, live, locks, fails, link, scene>>

----------------------------------------------------------------------------
(* do_refresh                                                              *)

\* Tokens nobody in the backend knows: their serials serve again.
Known       == {sessions[s].token : s \in SessionIds} \cup {reqs[p].row.token : p \in Requests}
Fresh(u)    == {t \in Tokens \ Known : Owner(t) = u}
NewToken(u) == CHOOSE t \in Fresh(u) : TRUE

\* SoundCloud renews the grant of t: t is dead and n lives, or t is kept.
Renewed(t, n) ==
  /\ t \in live
  /\ \/ n = t /\ UNCHANGED live
     \/ /\ Fresh(Owner(t)) # {} /\ n = NewToken(Owner(t))
        /\ live' = (live \ {t}) \cup {n}

\* A channel brings an error: the next one is tried with the same body, and the
\* last one's error is the verdict, which the breaker remembers.
Verdict(p, kind) ==
  IF reqs[p].left > 1 THEN reqs' = [reqs EXCEPT ![p].left = @ - 1] /\ UNCHANGED fails
  ELSE Done(p) /\ fails' = [fails EXCEPT ![reqs[p].s] = kind]

Granted(p) ==
  /\ At(p, "send")
  /\ \E n \in Tokens :
       /\ Renewed(reqs[p].row.token, n)
       /\ reqs' = [reqs EXCEPT ![p].pc = "save", ![p].row = [@ EXCEPT !.token = n]]
  /\ fails' = [fails EXCEPT ![reqs[p].s] = "none"]
  /\ UNCHANGED <<sessions, locks, link, scene>>

AnswerLost(p) ==
  /\ At(p, "send") /\ "lost" \in scene
  /\ reqs[p].row.token \in live
  /\ live' \in {live, live \ {reqs[p].row.token}}
  /\ Verdict(p, "transient")
  /\ UNCHANGED <<sessions, locks, link, scene>>

Refused(p) ==
  /\ At(p, "send") /\ reqs[p].row.token \notin live
  /\ Verdict(p, "reauth")
  /\ UNCHANGED <<sessions, live, locks, link, scene>>

\* A rate limit is remembered for longer, and else treated alike.
NotReached(p) ==
  /\ At(p, "send") /\ Verdict(p, "transient")
  /\ UNCHANGED <<sessions, live, locks, link, scene>>

\* (mutant) the refresh token of the answer is not stored
SavedWithOld(row, token) == [row EXCEPT !.age = "fresh"]

\* refresh_session_update: by the id alone, and only the token and its age.
Saved(row, token) == [row EXCEPT !.token = token, !.age = "fresh"]

Save(p) ==
  /\ At(p, "save")
  /\ LET s == reqs[p].s IN
       IF Present(s)
       THEN /\ sessions' = [sessions EXCEPT ![s] = Saved(@, reqs[p].row.token)]
            /\ Returns(p, sessions'[s])
       ELSE Done(p) /\ UNCHANGED sessions
  /\ UNCHANGED <<live, locks, fails, link, scene>>

\* The client is gone, and with it the handler; or a statement fails.
Dropped(p) ==
  /\ "lost" \in scene /\ ~At(p, "idle")
  /\ Done(p)
  /\ UNCHANGED <<sessions, live, locks, fails, link, scene>>

\* The process is started again: handlers and mutexes are gone.
HandlersRestart ==
  /\ "lost" \in scene
  /\ reqs' = [p \in Requests |-> Idle]
  /\ locks' = [s \in SessionIds |-> Nothing]
  /\ UNCHANGED <<sessions, live, fails, link, scene>>

----------------------------------------------------------------------------
(* Linking a device                                                        *)

CreateLink ==
  /\ "link" \in scene /\ link = "none"
  /\ link' = "pending"
  /\ UNCHANGED <<sessions, live, locks, fails, reqs, scene>>

\* claim refuses a link that is not pending.
Unclaimed == link = "pending"

Linking == {q \in Requests : reqs[q].kind = "link"}

\* claim reads the link, and then the source session by get_valid_session.
Claim(p, s) ==
  /\ Unclaimed /\ Used(s) /\ Cardinality(FreeIds) > Cardinality(Linking)
  /\ "overlap" \in scene \/ Linking = {}
  /\ IF NeedsRefresh(sessions[s]) THEN Begins(p, s, "link", "lock", NoRow)
                                  ELSE Begins(p, s, "link", "copy", sessions[s])
  /\ UNCHANGED <<sessions, live, locks, fails, link, scene>>

\* insert_target_session; ids are those a new session may have.
Copy(p, ids) ==
  /\ At(p, "copy") /\ ids # {}
  /\ sessions' = [sessions EXCEPT ![CHOOSE s \in ids : TRUE] = reqs[p].row]
  /\ Goes(p, "mark")
  /\ UNCHANGED <<live, locks, fails, link, scene>>

MarkClaimed(p) ==
  /\ At(p, "mark")
  /\ link' = "claimed"
  /\ Done(p)
  /\ UNCHANGED <<sessions, live, locks, fails, scene>>

LinkExpires ==
  /\ link = "pending"
  /\ link' = "failed"
  /\ UNCHANGED <<sessions, live, locks, fails, reqs, scene>>

----------------------------------------------------------------------------
(* Logout, reaper, time                                                    *)

\* The grant is ended at SoundCloud, if it can be reached; then the row goes.
Logout(p, s) ==
  /\ "logout" \in scene /\ Used(s)
  /\ Begins(p, s, "logout", "delete", NoRow)
  /\ live' \in {live, live \ {sessions[s].token}}
  /\ UNCHANGED <<sessions, locks, fails, link, scene>>

DeleteSession(p) ==
  /\ At(p, "delete")
  /\ sessions' = [sessions EXCEPT ![reqs[p].s] = NoRow]
  /\ locks' = [locks EXCEPT ![reqs[p].s] = Nothing]
  /\ Done(p)
  /\ UNCHANGED <<live, fails, link, scene>>

\* reap_dead_sessions; which of the expired rows, by updated_at, is left open.
Reap(s) ==
  /\ "reap" \in scene /\ sessions[s].age = "expired"
  /\ sessions' = [sessions EXCEPT ![s] = NoRow]
  /\ UNCHANGED <<live, locks, fails, reqs, link, scene>>

Age(s) ==
  /\ s \in scene
  /\ sessions[s].age = "fresh" \/ (sessions[s].age = "due" /\ "reap" \in scene)
  /\ sessions' = [sessions EXCEPT ![s].age = IF @ = "fresh" THEN "due" ELSE "expired"]
  /\ UNCHANGED <<live, locks, fails, reqs, link, scene>>

FailureExpires(s) ==
  /\ fails[s] # "none"
  /\ fails' = [fails EXCEPT ![s] = "none"]
  /\ UNCHANGED <<sessions, live, locks, reqs, link, scene>>

\* time_to_idle of refresh_locks: longer than any request takes.
LockForgotten(s) ==
  /\ "busy" \in scene /\ locks[s] # Nothing /\ \A p \in Requests : reqs[p].s # s
  /\ locks' = [locks EXCEPT ![s] = Nothing]
  /\ UNCHANGED <<sessions, live, fails, reqs, link, scene>>

Revoked(t) ==
  /\ "revoked" \in scene
  /\ live' = live \ {t}
  /\ UNCHANGED <<sessions, locks, fails, reqs, link, scene>>

----------------------------------------------------------------------------
Send(p) == Granted(p) \/ AnswerLost(p) \/ Refused(p) \/ NotReached(p)
Proceeds(p, ids) ==
  \/ GetLock(p) \/ InsertLock(p) \/ Reread(p) \/ Send(p) \/ Save(p)
  \/ Copy(p, ids) \/ MarkClaimed(p) \/ DeleteSession(p)

SessionsNext(ids) ==
  \/ \E p \in Requests :
       \/ Proceeds(p, ids) \/ Dropped(p)
       \/ \E s \in SessionIds : Open(p, s) \/ ForceRefresh(p, s) \/ Claim(p, s) \/ Logout(p, s)
  \/ \E s \in SessionIds : Reap(s) \/ Age(s) \/ FailureExpires(s) \/ LockForgotten(s)
  \/ \E t \in live : Revoked(t)
  \/ CreateLink \/ LinkExpires

----------------------------------------------------------------------------
(* Properties                                                              *)

\* The stored refresh token of a session works, except while it is being
\* replaced (get_valid_session, do_refresh): no request sends one that another
\* has used up or stores one that is dead, so that nobody has to sign in again
\* because of the backend.  Needs that SoundCloud's answers arrive and are
\* stored, that requests find the same mutex, and that no other session has the
\* same token.
Replacing(s) == \E p \in Requests : reqs[p].s = s /\ At(p, "save")
KeepsGrant ==
  \A s \in SessionIds :
    scene \cap {"lost", "race", "link", "revoked", "logout"} = {} /\ Present(s) /\ ~Replacing(s)
      => sessions[s].token \in live

\* A session acts for the user it names, however renewals, links and logins
\* overlap (refresh_session_update.sql writes by the id alone): only a login of
\* another user must not come between a renewal's read and its write.
ActsForItsUser ==
  \A s \in SessionIds :
    "switch" \notin scene /\ Present(s) => Owner(sessions[s].token) = sessions[s].user

\* "Sign in again" is remembered only of a session whose grant is dead
\* (is_invalid_grant, cache_refresh_failure): not of one that SoundCloud could
\* not be asked about.  A login does not clear it, an answer that was lost on one
\* channel makes the next one refuse.
ReauthIsTrue ==
  \A s \in SessionIds :
    scene \cap {"login", "race", "lost"} = {} /\ fails[s] = "reauth" /\ Present(s) => sessions[s].token \notin live
=============================================================================
