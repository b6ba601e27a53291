----------------------------- MODULE LoginsProofs -----------------------------
(* Theorems about auth: what a session stores is its user's, works, and is    *)
(* forgotten only when it does not; a login ends once.                        *)
EXTENDS Logins, TLAPS

----------------------------------------------------------------------------
(* Shapes                                                                    *)

\* A request that is under way names its session, and has a row to send or copy.
RequestOK ==
  \A p \in Requests :
    /\ ~At(p, "idle") => reqs[p].s \in SessionIds
    /\ reqs[p].pc \in {"send", "save", "copy", "mark"} => reqs[p].row \in Rows

\* A task is the only one of its login, whose row is in processing or deleted.
ClaimOK ==
  \A k \in Tasks : tasks[k] # NoTask =>
    LET l == tasks[k].l IN
      /\ logins[l] # NoLogin => Outcome(l) = "processing" /\ logins[l].tries = tasks[k].row.tries
      /\ \A j \in Tasks \ {k} : tasks[j] # NoTask => tasks[j].l # l

ShapeInv == LoginTypeOK /\ RequestOK /\ ClaimOK

LEMMA NoRowIsNone ==
  /\ NoRow \notin Rows
  /\ Idle \in Request
  /\ Nothing \notin Tokens
  /\ \A row \in Rows : row.token \in Tokens /\ row.user \in Users
BY SessionAssumption DEF NoRow, Rows, Idle, Request

\* A new token is the user's and nobody has seen it.
LEMMA NewTokens ==
  ASSUME NEW u \in Users, Fresh(u) # {}
  PROVE  NewToken(u) \in Tokens /\ NewToken(u) \notin Known /\ Owner(NewToken(u)) = u
BY DEF Fresh, NewToken

LEMMA OwnersAreUsers == \A t \in Tokens : Owner(t) \in Users
BY DEF Tokens, Owner

\* What the answer of SoundCloud brings.
LEMMA RenewedTypes ==
  ASSUME SessionTypeOK, NEW t \in Tokens, NEW n \in Tokens, Renewed(t, n)
  PROVE  /\ live' \subseteq Tokens /\ Owner(n) = Owner(t)
         /\ t \in live /\ n \in live'
         /\ live \ {t} \subseteq live'
         /\ live' \subseteq live \cup {n}
         /\ n = t \/ n \notin Known
BY NewTokens, OwnersAreUsers DEF Renewed, SessionTypeOK

----------------------------------------------------------------------------
(* Steps by what they change.                                                *)

\* A request begins.
Enters(p, s) ==
  \/ Open(p, s) \/ ForceRefresh(p, s) \/ Claim(p, s) \/ Logout(p, s)

\* Nothing but locks, the link, remembered failures and live changes.
LEMMA BeginsShape ==
  ASSUME SessionTypeOK, RequestOK, NEW p \in Requests, NEW s \in SessionIds,
         NEW kind \in {"open", "refresh", "link", "logout"}, NEW pc \in {"lock", "copy", "delete"},
         NEW row \in Rows \cup {NoRow}, Begins(p, s, kind, pc, row), pc = "copy" => row \in Rows
  PROVE  reqs' \in [Requests -> Request] /\ RequestOK'
<1>1. reqs' = [reqs EXCEPT ![p] = [Idle EXCEPT !.pc = pc, !.kind = kind, !.s = s, !.row = row]]
  BY DEF Begins
<1>2. reqs' \in [Requests -> Request]
  BY <1>1, NoRowIsNone DEF SessionTypeOK, Request
<1>3. reqs'[p].pc = pc /\ reqs'[p].s = s /\ reqs'[p].row = row
  BY <1>1, NoRowIsNone DEF SessionTypeOK, Request
<1>4. \A q \in Requests \ {p} : reqs'[q] = reqs[q]
  BY <1>1 DEF SessionTypeOK
<1> QED
  BY <1>2, <1>3, <1>4 DEF RequestOK, At

LEMMA EntersShape ==
  ASSUME SessionTypeOK, RequestOK, NEW p \in Requests, NEW s \in SessionIds, Enters(p, s)
  PROVE  SessionTypeOK' /\ RequestOK'
<1>1. CASE Open(p, s)
  BY <1>1, BeginsShape DEF Open, SessionTypeOK
<1>2. CASE ForceRefresh(p, s)
  BY <1>2, BeginsShape DEF ForceRefresh, SessionTypeOK
<1>3. CASE Claim(p, s)
  <2>1. sessions[s] \in Rows
    BY <1>3 DEF Claim, SessionTypeOK, Used, Present
  <2>2. Begins(p, s, "link", "lock", NoRow) \/ Begins(p, s, "link", "copy", sessions[s])
    BY <1>3 DEF Claim
  <2>3. reqs' \in [Requests -> Request] /\ RequestOK'
    BY <2>1, <2>2, BeginsShape
  <2> QED
    BY <1>3, <2>3 DEF Claim, SessionTypeOK
<1>4. CASE Logout(p, s)
  <2>1. reqs' \in [Requests -> Request] /\ RequestOK'
    BY <1>4, BeginsShape DEF Logout
  <2> QED
    BY <1>4, <2>1 DEF Logout, SessionTypeOK
<1> QED
  BY <1>1, <1>2, <1>3, <1>4 DEF Enters

LEMMA ReturnsShape ==
  ASSUME SessionTypeOK, RequestOK, NEW p \in Requests, NEW row \in Rows, ~At(p, "idle"),
         Returns(p, row)
  PROVE  reqs' \in [Requests -> Request] /\ RequestOK'
BY NoRowIsNone DEF SessionTypeOK, RequestOK, Returns, Done, Request, At, Idle

LEMMA ProceedsShape ==
  ASSUME SessionTypeOK, RequestOK, NEW p \in Requests, NEW ids \in SUBSET SessionIds,
         Proceeds(p, ids) \/ Dropped(p)
  PROVE  SessionTypeOK' /\ RequestOK'
<1> USE NoRowIsNone, SessionAssumption DEF SessionTypeOK, RequestOK, At, Goes
<1>1. CASE GetLock(p)
  BY <1>1 DEF GetLock, Request, FreeLocks
<1>2. CASE InsertLock(p)
  BY <1>2 DEF InsertLock, Request
<1>3. CASE Reread(p)
  BY <1>3, ReturnsShape DEF Reread, Request, Done, Idle, GoneMeanwhile, Present
<1>4. CASE Granted(p)
  <2>1. PICK n \in Tokens : /\ Renewed(reqs[p].row.token, n)
                            /\ reqs' = [reqs EXCEPT ![p].pc = "save",
                                                    ![p].row = [@ EXCEPT !.token = n]]
    BY <1>4 DEF Granted
  <2>2. reqs[p].row \in Rows /\ reqs[p].row.token \in Tokens
    BY <1>4 DEF Granted
  <2>3. live' \subseteq Tokens
    BY <2>1, <2>2, RenewedTypes
  <2> DEFINE row == [reqs[p].row EXCEPT !.token = n]
  <2>4. row \in Rows
    BY <2>2 DEF Rows
  <2>5. reqs' = [reqs EXCEPT ![p].pc = "save", ![p].row = row]
    BY <2>1
  <2>6. reqs[p].s \in SessionIds
    BY <1>4 DEF Granted
  <2> HIDE DEF row
  <2>7. reqs' \in [Requests -> Request] /\ RequestOK'
    BY <2>4, <2>5, <2>6 DEF Request
  <2> QED
    BY <1>4, <2>3, <2>7 DEF Granted
<1>5. CASE AnswerLost(p) \/ Refused(p) \/ NotReached(p)
  BY <1>5 DEF AnswerLost, Refused, NotReached, Verdict, Done, Request, Idle
<1>6. CASE Save(p)
  <2>1. CASE Present(reqs[p].s)
    <3>1. sessions[reqs[p].s] \in Rows /\ reqs[p].row.token \in Tokens /\ reqs[p].s \in SessionIds
      BY <1>6, <2>1 DEF Save, Present
    <3>2. Saved(sessions[reqs[p].s], reqs[p].row.token) \in Rows
      BY <3>1 DEF Saved, Rows
    <3>3. /\ sessions' = [sessions EXCEPT ![reqs[p].s] = Saved(@, reqs[p].row.token)]
          /\ Returns(p, sessions'[reqs[p].s])
      BY <1>6, <2>1 DEF Save
    <3>4. sessions' \in [SessionIds -> Rows \cup {NoRow}] /\ sessions'[reqs[p].s] \in Rows
      BY <3>1, <3>2, <3>3
    <3>5. reqs' \in [Requests -> Request] /\ RequestOK'
      BY <1>6, <3>3, <3>4, ReturnsShape DEF Save
    <3> QED
      BY <1>6, <3>4, <3>5 DEF Save
  <2>2. CASE ~Present(reqs[p].s)
    BY <1>6, <2>2 DEF Save, Done, Idle
  <2> QED
    BY <2>1, <2>2
<1>7. CASE Copy(p, ids)
  BY <1>7 DEF Copy, Request
<1>8. CASE MarkClaimed(p) \/ Dropped(p)
  BY <1>8 DEF MarkClaimed, Dropped, Done, Idle
<1>9. CASE DeleteSession(p)
  BY <1>9 DEF DeleteSession, Done, Idle
<1> QED
  BY <1>1, <1>2, <1>3, <1>4, <1>5, <1>6, <1>7, <1>8, <1>9 DEF Proceeds, Send

Elapses(s) == Reap(s) \/ Age(s) \/ FailureExpires(s) \/ LockForgotten(s)

LEMMA ElapsesShape ==
  ASSUME SessionTypeOK, RequestOK,
         \/ \E s \in SessionIds : Elapses(s)
         \/ \E t \in live : Revoked(t)
         \/ CreateLink \/ LinkExpires
  PROVE  SessionTypeOK' /\ RequestOK'
<1> USE DEF SessionTypeOK, RequestOK, At
<1>1. ASSUME NEW s \in SessionIds, Reap(s) \/ FailureExpires(s) \/ LockForgotten(s)
      PROVE  SessionTypeOK' /\ RequestOK'
  BY <1>1 DEF Reap, FailureExpires, LockForgotten
<1>2. ASSUME NEW s \in SessionIds, Age(s) PROVE SessionTypeOK' /\ RequestOK'
  BY <1>2 DEF Age, Rows, NoRow
<1>3. ASSUME NEW t \in live, Revoked(t) PROVE SessionTypeOK' /\ RequestOK'
  BY <1>3 DEF Revoked
<1>4. CASE CreateLink \/ LinkExpires
  BY <1>4 DEF CreateLink, LinkExpires
<1> QED
  BY <1>1, <1>2, <1>3, <1>4 DEF Elapses

LEMMA NoLoginIsNone ==
  /\ NoLogin \in [status : {"none"}, tries : 0..MaxRetries, target : {Nothing}]
  /\ NoLogin.tries = 0
  /\ NoLogin \notin Logins
  /\ NoTask.pc = "none" /\ NoTask \notin TaskRows
BY LoginAssumption DEF NoLogin, Logins, NoTask, TaskRows

\* What an UPDATE of a login leaves.
LEMMA BecomesTypes ==
  ASSUME LoginTypeOK, NEW l \in LoginIds, NEW status \in {"processing", "completed", "failed"},
         Becomes(l, status)
  PROVE  /\ logins' \in [LoginIds -> Logins \cup {NoLogin}]
         /\ \A m \in LoginIds \ {l} : logins'[m] = logins[m]
         /\ logins[l] = NoLogin => logins'[l] = NoLogin
         /\ logins[l] # NoLogin => logins'[l] # NoLogin /\ logins'[l].status = status
         /\ logins[l] # NoLogin /\ status = "processing" => logins'[l].tries = logins[l].tries
<1>1. logins \in [LoginIds -> Logins \cup {NoLogin}]
  BY DEF LoginTypeOK
<1>2. CASE status = "processing"
  BY <1>1, <1>2, NoLoginIsNone DEF Becomes, Logins
<1>3. CASE status # "processing"
  <2>1. [NoLogin EXCEPT !.status = status] \in Logins
    BY <1>3, NoLoginIsNone, LoginAssumption DEF Logins
  <2>2. [NoLogin EXCEPT !.status = status].status = status
    BY NoLoginIsNone
  <2>3. logins' = [logins EXCEPT ![l] = IF logins[l] = NoLogin THEN logins[l]
                                        ELSE [NoLogin EXCEPT !.status = status]]
    BY <1>1, <1>3 DEF Becomes
  <2> QED
    BY <1>1, <1>3, <2>1, <2>2, <2>3, NoLoginIsNone
<1> QED
  BY <1>2, <1>3

\* The end of a task, with whatever it does to its login.
LEMMA EndsShape ==
  ASSUME ShapeInv, NEW k \in Tasks, tasks[k] # NoTask, Ends(k), UNCHANGED <<sessionVars, scene>>,
         logins' \in [LoginIds -> Logins \cup {NoLogin}],
         \A l \in LoginIds \ {tasks[k].l} : logins'[l] = logins[l]
  PROVE  ShapeInv'
<1>1. SessionTypeOK' /\ RequestOK'
  BY DEF ShapeInv, LoginTypeOK, SessionTypeOK, RequestOK, At, sessionVars
<1>2. tasks' = [tasks EXCEPT ![k] = NoTask] /\ tasks' \in [Tasks -> TaskRows \cup {NoTask}]
  BY DEF Ends, ShapeInv, LoginTypeOK
<1>3. ClaimOK'
  <2> SUFFICES ASSUME NEW j \in Tasks, tasks'[j] # NoTask
               PROVE  LET l == tasks'[j].l IN
                        /\ logins'[l] # NoLogin => logins'[l].status = "processing" /\
                                                   logins'[l].tries = tasks'[j].row.tries
                        /\ \A i \in Tasks \ {j} : tasks'[i] # NoTask => tasks'[i].l # l
    BY DEF ClaimOK, Outcome
  <2>1. j # k /\ tasks'[j] = tasks[j] /\ tasks[j].l \in LoginIds /\ tasks[j].l # tasks[k].l
    BY <1>2, NoLoginIsNone DEF ShapeInv, ClaimOK, LoginTypeOK, TaskRows
  <2>2. logins'[tasks[j].l] = logins[tasks[j].l]
    BY <2>1
  <2>3. \A i \in Tasks : tasks'[i] # NoTask => tasks'[i] = tasks[i]
    BY <1>2 DEF ShapeInv, LoginTypeOK
  <2> QED
    BY <2>1, <2>2, <2>3 DEF ShapeInv, ClaimOK, Outcome
<1> QED
  BY <1>1, <1>2, <1>3 DEF ShapeInv, LoginTypeOK

LEMMA RetriedTypes ==
  ASSUME NEW row \in Logins, ~Spent(row)
  PROVE  Retried(row) \in Logins
<1>1. row.tries + 1 \in 0..MaxRetries
  BY LoginAssumption DEF Spent, Logins
<1> QED
  BY <1>1 DEF Retried, Logins

LEMMA AgainTypes ==
  ASSUME ShapeInv, NEW k \in Tasks, tasks[k] # NoTask, NEW HasApp \in BOOLEAN, Again(k, HasApp)
  PROVE  /\ logins' \in [LoginIds -> Logins \cup {NoLogin}]
         /\ \A l \in LoginIds \ {tasks[k].l} : logins'[l] = logins[l]
<1>1. tasks[k].l \in LoginIds /\ tasks[k].row \in Logins
  BY DEF ShapeInv, LoginTypeOK, TaskRows
<1>2. CASE ~Spent(tasks[k].row) /\ HasApp
  <2>1. logins \in [LoginIds -> Logins \cup {NoLogin}]
    BY DEF ShapeInv, LoginTypeOK
  <2>2. logins' = [logins EXCEPT ![tasks[k].l] = IF @ = NoLogin THEN @ ELSE Retried(@)]
    BY <1>2 DEF Again
  <2>3. ASSUME logins[tasks[k].l] # NoLogin
        PROVE  Retried(logins[tasks[k].l]) \in Logins
    <3>1. logins[tasks[k].l] \in Logins /\ logins[tasks[k].l].tries = tasks[k].row.tries
      BY <1>1, <2>1, <2>3 DEF ShapeInv, ClaimOK
    <3> QED
      BY <1>2, <3>1, RetriedTypes DEF Spent
  <2> QED
    BY <1>1, <2>1, <2>2, <2>3
<1>3. CASE ~(~Spent(tasks[k].row) /\ HasApp)
  <2>1. Becomes(tasks[k].l, "failed")
    BY <1>3 DEF Again
  <2> QED
    BY <1>1, <2>1, BecomesTypes DEF ShapeInv
<1> QED
  BY <1>2, <1>3

\* What a sign-in writes: a token nobody knows, on the target or a new session.
SavesSession(s, u) ==
  /\ u \in Users /\ Fresh(u) # {}
  /\ Present(s) \/ s \in FreeIds
  /\ "switch" \notin scene => ~Overlaps(s, u)
  /\ sessions' = [sessions EXCEPT ![s] = SignedIn(s, u)]
  /\ live' = (live \cap Held(s)) \cup {NewToken(u)}
  /\ UNCHANGED <<locks, fails, reqs, link, scene>>

LEMMA SaveSessionWrites ==
  ASSUME LoginTypeOK, NEW k \in Tasks, SaveSession(k)
  PROVE  /\ \E s \in SessionIds, u \in Users : SavesSession(s, u)
         /\ tasks[k] # NoTask /\ Goto(k, "complete") /\ UNCHANGED logins
<1>1. tasks[k].user \in Users /\ tasks[k] # NoTask
  BY NoLoginIsNone DEF SaveSession, TaskAt, LoginTypeOK, TaskRows
<1>2. NewIds \subseteq FreeIds
  BY DEF NewIds
<1> QED
  BY <1>1, <1>2 DEF SaveSession, SavesSession

LEMMA SavesSessionShape ==
  ASSUME SessionTypeOK, RequestOK, NEW s \in SessionIds, NEW u \in Users, SavesSession(s, u)
  PROVE  SessionTypeOK' /\ RequestOK'
<1>1. NewToken(u) \in Tokens
  BY NewTokens DEF SavesSession
<1>2. SignedIn(s, u) \in Rows
  BY <1>1 DEF SignedIn, Rows
<1> QED
  BY <1>1, <1>2 DEF SavesSession, SessionTypeOK, RequestOK, At

LEMMA LoginShape ==
  ASSUME ShapeInv, LoginNext
  PROVE  ShapeInv'
<1> USE DEF ShapeInv, LoginTypeOK
<1>1. ASSUME NEW l \in LoginIds, NEW target \in SessionIds \cup {Nothing}, Initiate(l, target)
      PROVE  ShapeInv'
  <2>1. SessionTypeOK' /\ RequestOK'
    BY <1>1 DEF Initiate, SessionTypeOK, RequestOK, At, sessionVars
  <2>2. [NoLogin EXCEPT !.status = "pending", !.target = target] \in Logins
    BY NoLoginIsNone DEF Logins
  <2>3. /\ logins' = [logins EXCEPT ![l] = [NoLogin EXCEPT !.status = "pending", !.target = target]]
        /\ UNCHANGED tasks /\ \A k \in Tasks : tasks[k].l # l
    BY <1>1 DEF Initiate
  <2>4. logins' \in [LoginIds -> Logins \cup {NoLogin}]
    BY <2>2, <2>3
  <2>5. ClaimOK'
    BY <2>3 DEF ClaimOK, Outcome, TaskRows
  <2> QED
    BY <2>1, <2>3, <2>4, <2>5
<1>2. ASSUME NEW l \in LoginIds, NEW k \in Tasks, NEW u \in Users, Callback(k, l, u)
      PROVE  ShapeInv'
  <2>1. SessionTypeOK' /\ RequestOK'
    BY <1>2 DEF Callback, SessionTypeOK, RequestOK, At, sessionVars
  <2>2. /\ tasks[k].pc = "none" /\ logins[l] \in Logins /\ logins[l].status = "pending"
        /\ Becomes(l, "processing")
        /\ tasks' = [tasks EXCEPT ![k] = [pc |-> "exchange", l |-> l, row |-> logins[l], user |-> u]]
    BY <1>2 DEF Callback, TaskAt, Claimable
  <2>3. tasks' \in [Tasks -> TaskRows \cup {NoTask}]
    BY <2>2 DEF TaskRows
  <2>4. /\ logins' \in [LoginIds -> Logins \cup {NoLogin}]
        /\ \A m \in LoginIds \ {l} : logins'[m] = logins[m]
        /\ logins'[l].status = "processing" /\ logins'[l].tries = logins[l].tries
    BY <2>2, BecomesTypes, NoLoginIsNone
  <2>5. \A j \in Tasks : tasks[j] # NoTask => tasks[j].l # l
    BY <2>2, NoLoginIsNone DEF ClaimOK, Outcome
  <2>6. tasks'[k].l = l /\ tasks'[k].row = logins[l] /\ \A j \in Tasks \ {k} : tasks'[j] = tasks[j]
    BY <2>2
  <2>7. \A j \in Tasks : tasks[j] # NoTask => tasks[j].l \in LoginIds
    BY NoLoginIsNone DEF TaskRows
  <2>8. ClaimOK'
    BY <2>4, <2>5, <2>6, <2>7 DEF ClaimOK, Outcome
  <2> QED
    BY <2>1, <2>3, <2>4, <2>8
<1>3. ASSUME NEW l \in LoginIds, Cleanup(l) PROVE ShapeInv'
  <2>1. SessionTypeOK' /\ RequestOK'
    BY <1>3 DEF Cleanup, SessionTypeOK, RequestOK, At, sessionVars
  <2>2. logins' = [logins EXCEPT ![l] = NoLogin] /\ UNCHANGED tasks
    BY <1>3 DEF Cleanup
  <2>3. ClaimOK'
    BY <2>2, NoLoginIsNone DEF ClaimOK, Outcome, TaskRows
  <2> QED
    BY <2>1, <2>2, <2>3
<1>4. ASSUME NEW k \in Tasks, Exchange(k) PROVE ShapeInv'
  <2>1. tasks[k] # NoTask /\ tasks[k] \in TaskRows /\ tasks[k].l \in LoginIds /\ UNCHANGED <<sessionVars, scene>>
    BY <1>4, NoLoginIsNone DEF Exchange, TaskAt, TaskRows
  <2>2. CASE Goto(k, "save") /\ UNCHANGED logins
    <3>1. SessionTypeOK' /\ RequestOK'
      BY <2>1 DEF SessionTypeOK, RequestOK, At, sessionVars
    <3>2. tasks' \in [Tasks -> TaskRows \cup {NoTask}]
      BY <2>1, <2>2 DEF Goto, TaskRows
    <3>3. /\ tasks'[k].l = tasks[k].l /\ tasks'[k].row = tasks[k].row
          /\ \A j \in Tasks \ {k} : tasks'[j] = tasks[j]
      BY <2>1, <2>2 DEF Goto, TaskRows
    <3>4. ClaimOK'
      BY <2>1, <2>2, <3>3 DEF ClaimOK, Outcome
    <3> QED
      BY <2>2, <3>1, <3>2, <3>4
  <2>3. CASE Ends(k) /\ \E HasApp \in BOOLEAN : Again(k, HasApp)
    BY <2>1, <2>3, AgainTypes, EndsShape
  <2>4. CASE Ends(k) /\ Becomes(tasks[k].l, "failed")
    BY <2>1, <2>4, BecomesTypes, EndsShape
  <2> QED
    BY <1>4, <2>2, <2>3, <2>4 DEF Exchange
<1>5. ASSUME NEW k \in Tasks, SaveSession(k) PROVE ShapeInv'
  <2>1. tasks[k] # NoTask /\ tasks[k] \in TaskRows /\ Goto(k, "complete") /\ UNCHANGED logins
    BY <1>5, SaveSessionWrites
  <2>2. SessionTypeOK' /\ RequestOK'
    BY <1>5, SaveSessionWrites, SavesSessionShape
  <2>3. tasks' \in [Tasks -> TaskRows \cup {NoTask}]
    BY <2>1 DEF Goto, TaskRows
  <2>4. /\ tasks'[k].l = tasks[k].l /\ tasks'[k].row = tasks[k].row
        /\ \A j \in Tasks \ {k} : tasks'[j] = tasks[j]
    BY <2>1 DEF Goto, TaskRows
  <2>5. ClaimOK'
    BY <2>1, <2>4 DEF ClaimOK, Outcome
  <2> QED
    BY <2>1, <2>2, <2>3, <2>5
<1>6. ASSUME NEW k \in Tasks, Complete(k) \/ TaskFails(k) PROVE ShapeInv'
  <2>1. tasks[k] # NoTask /\ tasks[k].l \in LoginIds /\ Ends(k) /\ UNCHANGED <<sessionVars, scene>>
    BY <1>6, NoLoginIsNone DEF Complete, TaskFails, TaskAt, TaskRows
  <2>2. Becomes(tasks[k].l, "completed") \/ Becomes(tasks[k].l, "failed") \/ UNCHANGED logins
    BY <1>6 DEF Complete, TaskFails
  <2> QED
    BY <2>1, <2>2, BecomesTypes, EndsShape
<1>7. CASE Restart
  BY <1>7, NoRowIsNone, NoLoginIsNone DEF Restart, HandlersRestart, SessionTypeOK, RequestOK, At, ClaimOK, Idle
<1> QED
  BY <1>1, <1>2, <1>3, <1>4, <1>5, <1>6, <1>7 DEF LoginNext, TaskStep

LEMMA ShapeNext ==
  ASSUME ShapeInv, [Next]_vars
  PROVE  ShapeInv'
<1>1. CASE SessionsNext(NewIds) /\ UNCHANGED loginVars
  <2>1. NewIds \subseteq SessionIds
    BY DEF NewIds, FreeIds
  <2>2. SessionTypeOK' /\ RequestOK'
    BY <1>1, <2>1, EntersShape, ProceedsShape, ElapsesShape
    DEF SessionsNext, ShapeInv, LoginTypeOK, Enters, Elapses
  <2> QED
    BY <1>1, <2>2 DEF ShapeInv, LoginTypeOK, ClaimOK, Outcome, loginVars
<1>2. CASE UNCHANGED vars
  BY <1>2 DEF vars, sessionVars, loginVars, ShapeInv, LoginTypeOK, SessionTypeOK, RequestOK, ClaimOK,
              Outcome, At
<1> QED
  BY <1>1, <1>2, LoginShape DEF Next

LEMMA ShapeInit ==
  ASSUME Init
  PROVE  ShapeInv
<1>1. PICK start \in Starts : sessions = start.table /\ scene = start.scene
  BY DEF Init, SessionsInit
<1>2. sessions \in [SessionIds -> Rows \cup {NoRow}] /\ scene \subseteq SessionIds \cup Events
  BY <1>1, SessionAssumption
<1>3. live \subseteq Tokens
  BY <1>2, NoRowIsNone DEF Init, SessionsInit, NoRow
<1>4. SessionTypeOK /\ RequestOK
  BY <1>2, <1>3, NoRowIsNone DEF Init, SessionsInit, SessionTypeOK, RequestOK, At, Idle
<1> QED
  BY <1>4, NoLoginIsNone DEF Init, ShapeInv, LoginTypeOK, ClaimOK

\* The sessions, requests, logins and tasks keep their shapes, and a login that
\* is claimed is one task's until the task ends (claim_login_request.sql).
THEOREM LoginTypeCorrect == Spec => []ShapeInv
BY ShapeInit, ShapeNext, PTL DEF Spec

----------------------------------------------------------------------------
(* A login ends once                                                         *)

FinishedStep ==
  \A l \in LoginIds :
    Outcome(l) \in {"completed", "failed"} => Outcome(l)' \in {Outcome(l), "none"}

\* The row a task writes is in processing, so none that has ended.
LEMMA FinishedNext ==
  ASSUME ShapeInv, [Next]_vars
  PROVE  FinishedStep
<1> SUFFICES ASSUME NEW l \in LoginIds, logins[l].status \in {"completed", "failed"}
             PROVE  logins'[l] = logins[l] \/ logins'[l].status = "none"
  BY DEF FinishedStep, Outcome
<1> USE DEF ShapeInv, LoginTypeOK
<1>1. logins[l] # NoLogin
  BY DEF NoLogin
<1>2. ASSUME NEW k \in Tasks, tasks[k] # NoTask PROVE tasks[k].l # l /\ tasks[k].l \in LoginIds
  BY <1>1, <1>2 DEF ClaimOK, Outcome, TaskRows
<1>3. CASE UNCHANGED logins
  BY <1>3
<1>4. ASSUME NEW m \in LoginIds, NEW target \in SessionIds \cup {Nothing}, Initiate(m, target)
      PROVE  logins'[l] = logins[l]
  BY <1>1, <1>4 DEF Initiate
<1>5. ASSUME NEW m \in LoginIds, NEW k \in Tasks, NEW u \in Users, Callback(k, m, u)
      PROVE  logins'[l] = logins[l]
  BY <1>5 DEF Callback, Claimable, Becomes
<1>6. ASSUME NEW m \in LoginIds, Cleanup(m)
      PROVE  logins'[l] = logins[l] \/ logins'[l].status = "none"
  BY <1>6 DEF Cleanup, NoLogin
<1>7. ASSUME NEW k \in Tasks, Exchange(k) \/ Complete(k) \/ TaskFails(k)
      PROVE  logins'[l] = logins[l]
  <2>1. tasks[k] # NoTask
    BY <1>7, NoLoginIsNone DEF Exchange, Complete, TaskFails, TaskAt
  <2>2. CASE \E HasApp \in BOOLEAN : Again(k, HasApp)
    BY <1>2, <2>1, <2>2 DEF Again, Becomes
  <2>3. CASE Becomes(tasks[k].l, "completed") \/ Becomes(tasks[k].l, "failed") \/ UNCHANGED logins
    BY <1>2, <2>1, <2>3 DEF Becomes
  <2> QED
    BY <1>7, <2>2, <2>3 DEF Exchange, Complete, TaskFails
<1>8. ASSUME NEW k \in Tasks, SaveSession(k) PROVE logins'[l] = logins[l]
  BY <1>8 DEF SaveSession
<1> QED
  BY <1>3, <1>4, <1>5, <1>6, <1>7, <1>8
  DEF Next, LoginNext, TaskStep, Restart, vars, loginVars

\* A login that has ended is not begun again by a second callback, nor does a
\* late task change its outcome (claim_login_request.sql, retry_with_new_app).
THEOREM LoginsEndOnce == Spec => FinishedForGood
<1>1. ShapeInv /\ [Next]_vars => [FinishedStep]_vars
  BY FinishedNext
<1> QED
  BY <1>1, LoginTypeCorrect, PTL DEF Spec, FinishedForGood, FinishedStep

----------------------------------------------------------------------------
(* How a request moves                                                       *)

Others(p) == \A q \in Requests \ {p} : reqs'[q] = reqs[q]

LEMMA IdleFields ==
  Idle.pc = "idle" /\ Idle.kind = "open" /\ Idle.row = NoRow /\ Idle.lock = Nothing /\ Idle.s = Nothing
BY DEF Idle

LEMMA DoneMoves ==
  ASSUME SessionTypeOK, NEW p \in Requests, Done(p)
  PROVE  reqs'[p] = Idle /\ Others(p)
BY DEF SessionTypeOK, Done, Others

LEMMA ReturnsMoves ==
  ASSUME SessionTypeOK, NEW p \in Requests, NEW row, Returns(p, row)
  PROVE  /\ Others(p)
         /\ \/ reqs'[p] = Idle
            \/ reqs[p].kind = "link" /\ reqs'[p].pc = "copy" /\ reqs'[p].row = row
<1>1. CASE reqs[p].kind = "link"
  BY <1>1 DEF SessionTypeOK, Returns, Others, Request
<1>2. CASE reqs[p].kind # "link"
  BY <1>2, DoneMoves DEF Returns
<1> QED
  BY <1>1, <1>2

LEMMA VerdictMoves ==
  ASSUME SessionTypeOK, NEW p \in Requests, NEW kind, Verdict(p, kind)
  PROVE  /\ Others(p)
         /\ \/ reqs'[p] = Idle /\ fails' = [fails EXCEPT ![reqs[p].s] = kind]
            \/ /\ reqs'[p].pc = reqs[p].pc /\ reqs'[p].s = reqs[p].s
               /\ reqs'[p].lock = reqs[p].lock /\ reqs'[p].row = reqs[p].row
               /\ reqs'[p].kind = reqs[p].kind /\ fails' = fails
<1>1. CASE reqs[p].left > 1
  BY <1>1 DEF SessionTypeOK, Verdict, Others, Request
<1>2. CASE ~(reqs[p].left > 1)
  BY <1>2, DoneMoves DEF Verdict
<1> QED
  BY <1>1, <1>2

LEMMA GrantedMoves ==
  ASSUME SessionTypeOK, RequestOK, NEW p \in Requests, Granted(p)
  PROVE  /\ Others(p)
         /\ reqs[p].pc = "send" /\ reqs[p].row \in Rows /\ reqs[p].s \in SessionIds
         /\ reqs'[p].pc = "save" /\ reqs'[p].s = reqs[p].s /\ reqs'[p].lock = reqs[p].lock
         /\ reqs'[p].kind = reqs[p].kind /\ fails' = [fails EXCEPT ![reqs[p].s] = "none"]
         /\ reqs'[p].row \in Rows /\ reqs'[p].row.user = reqs[p].row.user
         /\ Renewed(reqs[p].row.token, reqs'[p].row.token)
<1>1. PICK n \in Tokens : /\ Renewed(reqs[p].row.token, n)
                          /\ reqs' = [reqs EXCEPT ![p].pc = "save",
                                                  ![p].row = [@ EXCEPT !.token = n]]
  BY DEF Granted
<1>2. reqs[p].pc = "send" /\ reqs[p].row \in Rows /\ reqs[p].s \in SessionIds
  BY DEF Granted, At, RequestOK
<1> DEFINE row == [reqs[p].row EXCEPT !.token = n]
<1>3. row \in Rows /\ row.user = reqs[p].row.user /\ row.token = n
  BY <1>2 DEF Rows
<1>4. reqs' = [reqs EXCEPT ![p].pc = "save", ![p].row = row]
  BY <1>1
<1> HIDE DEF row
<1>5. /\ Others(p) /\ reqs'[p].pc = "save" /\ reqs'[p].s = reqs[p].s /\ reqs'[p].lock = reqs[p].lock
      /\ reqs'[p].row = row /\ reqs'[p].kind = reqs[p].kind
  BY <1>4 DEF SessionTypeOK, Request, Others
<1> QED
  BY <1>1, <1>2, <1>3, <1>5 DEF Granted

LEMMA BeginsMoves ==
  ASSUME SessionTypeOK, NEW p \in Requests, NEW s, NEW kind, NEW pc, NEW row,
         Begins(p, s, kind, pc, row)
  PROVE  /\ Others(p) /\ At(p, "idle")
         /\ reqs'[p].pc = pc /\ reqs'[p].s = s /\ reqs'[p].row = row /\ reqs'[p].kind = kind
BY NoRowIsNone DEF SessionTypeOK, Request, Begins, Others

\* A request that begins has the session's row, if it has to copy it.
LEMMA EntersMoves ==
  ASSUME SessionTypeOK, NEW p \in Requests, NEW s \in SessionIds, Enters(p, s)
  PROVE  /\ Others(p) /\ At(p, "idle") /\ reqs'[p].s = s /\ Present(s)
         /\ reqs'[p].kind = "link" => link = "pending"
         /\ \/ reqs'[p].pc = "lock" /\ reqs'[p].row = NoRow
            \/ reqs'[p].pc = "copy" /\ reqs'[p].row = sessions[s] /\ link = "pending"
            \/ reqs'[p].pc = "delete" /\ reqs'[p].row = NoRow /\ "logout" \in scene
BY BeginsMoves DEF Enters, Open, ForceRefresh, Claim, Logout, Used, Unclaimed

----------------------------------------------------------------------------
(* One renewal of a session at a time                                        *)

\* Requests that wait for a session's mutex or hold it have the one that is
\* cached, unless the session is gone; so no two of them hold it.
WithMutex(p) == reqs[p].pc \in {"wait", "send", "save"}

SameMutex ==
  \A p \in Requests : WithMutex(p) /\ Present(reqs[p].s) =>
    reqs[p].lock = locks[reqs[p].s] /\ reqs[p].lock # Nothing

OneHolder ==
  \A p, q \in Holding : p # q /\ reqs[p].s = reqs[q].s => ~Present(reqs[p].s)

MutexInv ==
  "race" \notin scene =>
    /\ \A p \in Requests : ~At(p, "insert")
    /\ SameMutex /\ OneHolder

\* A request moves without taking a mutex.
Stays(p) ==
  /\ Others(p)
  /\ \/ ~WithMutex(p)' /\ ~At(p, "insert")'
     \/ /\ WithMutex(p) /\ WithMutex(p)' /\ reqs'[p].s = reqs[p].s /\ reqs'[p].lock = reqs[p].lock
        /\ p \in Holding \/ reqs'[p].pc = "wait"

\* A session that appears is one that no request names.
Survive == \A s \in SessionIds : Present(s)' => Present(s) \/ s \in FreeIds

KeepLocks == \A s \in SessionIds : Present(s)' => locks'[s] = locks[s] \/ \A p \in Requests : reqs[p].s # s

LEMMA MutexFrame ==
  ASSUME RequestOK, RequestOK', MutexInv, scene' = scene, Survive, KeepLocks,
         UNCHANGED reqs \/ \E p \in Requests : Stays(p)
  PROVE  MutexInv'
<1> SUFFICES ASSUME "race" \notin scene
             PROVE  (\A p \in Requests : ~At(p, "insert"))' /\ SameMutex' /\ OneHolder'
  BY DEF MutexInv
<1>1. (\A p \in Requests : ~At(p, "insert"))'
  BY DEF MutexInv, Stays, Others, At, WithMutex
<1>2. ASSUME NEW q \in Requests, WithMutex(q)', Present(reqs[q].s)'
      PROVE  /\ reqs'[q].s = reqs[q].s /\ reqs'[q].lock = reqs[q].lock /\ WithMutex(q)
             /\ Present(reqs[q].s) /\ locks'[reqs[q].s] = locks[reqs[q].s]
             /\ q \in Holding' => q \in Holding
  <2>1. /\ reqs'[q].s = reqs[q].s /\ reqs'[q].lock = reqs[q].lock /\ WithMutex(q)
        /\ q \in Holding' => q \in Holding
    BY <1>2 DEF Stays, Others, WithMutex, Holding, At
  <2>2. reqs[q].s \in SessionIds /\ reqs[q].s \notin FreeIds
    BY <2>1 DEF RequestOK, WithMutex, At, FreeIds
  <2> QED
    BY <1>2, <2>1, <2>2 DEF Survive, KeepLocks, Present
<1>3. SameMutex'
  BY <1>2 DEF MutexInv, SameMutex
<1>4. OneHolder'
  <2> SUFFICES ASSUME NEW p \in Requests, NEW q \in Requests, p \in Holding', q \in Holding',
                      p # q, reqs'[p].s = reqs'[q].s, Present(reqs[p].s)'
               PROVE  FALSE
    BY DEF OneHolder, Holding
  <2>1. WithMutex(p)' /\ WithMutex(q)'
    BY DEF Holding, WithMutex
  <2> QED
    BY <1>2, <2>1 DEF MutexInv, OneHolder
<1> QED
  BY <1>1, <1>3, <1>4

LEMMA MutexNext ==
  ASSUME ShapeInv, ShapeInv', MutexInv, [Next]_vars
  PROVE  MutexInv'
<1>1. SessionTypeOK /\ RequestOK /\ RequestOK' /\ LoginTypeOK
  BY DEF ShapeInv, LoginTypeOK
<1> USE DEF SessionTypeOK
<1>2. CASE UNCHANGED vars
  BY <1>1, <1>2, MutexFrame DEF vars, sessionVars, Survive, KeepLocks, Present
<1>3. ASSUME UNCHANGED sessions PROVE Survive
  BY <1>3 DEF Survive, Present
<1>4. ASSUME UNCHANGED locks PROVE KeepLocks
  BY <1>4 DEF KeepLocks
<1>5. ASSUME NEW p \in Requests, NEW s \in SessionIds, Enters(p, s) PROVE MutexInv'
  <2>1. UNCHANGED <<sessions, locks, scene>>
    BY <1>5 DEF Enters, Open, ForceRefresh, Claim, Logout
  <2>2. Stays(p)
    BY <1>1, <1>5, EntersMoves DEF Stays, WithMutex, At
  <2> QED
    BY <1>1, <1>3, <1>4, <2>1, <2>2, MutexFrame
<1>6. ASSUME NEW p \in Requests, GetLock(p) PROVE MutexInv'
  <2> SUFFICES ASSUME "race" \notin scene
               PROVE  (\A q \in Requests : ~At(q, "insert"))' /\ SameMutex' /\ OneHolder'
    BY <1>6 DEF MutexInv, GetLock
  <2> DEFINE s == reqs[p].s
  <2>1. s \in SessionIds /\ At(p, "lock") /\ UNCHANGED <<sessions, scene>>
    BY <1>1, <1>6 DEF GetLock, RequestOK, At
  <2>2. /\ reqs'[p].pc = "wait" /\ reqs'[p].s = s
        /\ reqs'[p].lock = locks'[s] /\ reqs'[p].lock # Nothing
        /\ \A q \in Requests \ {p} : reqs'[q] = reqs[q]
        /\ \A r \in SessionIds : locks[r] # Nothing \/ r # s => locks'[r] = locks[r]
    BY <1>1, <1>6, <2>1, SessionAssumption DEF GetLock, FreeLocks, Request
  <2>3. SameMutex'
    BY <1>1, <2>1, <2>2 DEF MutexInv, SameMutex, WithMutex, Present, RequestOK, At
  <2>4. OneHolder' /\ (\A q \in Requests : ~At(q, "insert"))'
    BY <2>1, <2>2 DEF MutexInv, OneHolder, Holding, Present, At
  <2> QED
    BY <2>3, <2>4
<1>7. ASSUME NEW p \in Requests, InsertLock(p) PROVE MutexInv'
  BY <1>7 DEF MutexInv, InsertLock
<1>8. ASSUME NEW p \in Requests, Reread(p) PROVE MutexInv'
  <2>1. /\ UNCHANGED <<sessions, locks, scene>> /\ WithMutex(p) /\ reqs[p].s \in SessionIds
        /\ \A q \in Requests \ {p} : reqs'[q] = reqs[q]
    BY <1>1, <1>8 DEF Reread, RequestOK, At, WithMutex, Done, Returns
  <2>2. CASE Done(p) \/ Returns(p, sessions[reqs[p].s])
    <3>1. Stays(p)
      BY <1>1, <2>2, DoneMoves, ReturnsMoves, IdleFields DEF Stays, WithMutex, At
    <3> QED
      BY <1>1, <1>3, <1>4, <2>1, <3>1, MutexFrame
  <2>3. CASE reqs' = [reqs EXCEPT ![p].pc = "send", ![p].row = sessions[reqs[p].s], ![p].left = Channels]
    <3> SUFFICES ASSUME "race" \notin scene
                 PROVE  (\A q \in Requests : ~At(q, "insert"))' /\ SameMutex' /\ OneHolder'
      BY <2>1 DEF MutexInv
    <3>1. reqs'[p].pc = "send" /\ reqs'[p].s = reqs[p].s /\ reqs'[p].lock = reqs[p].lock
      BY <1>1, <2>3
    <3>2. \A q \in Requests : reqs'[q].s = reqs[q].s /\ reqs'[q].lock = reqs[q].lock
      BY <2>1, <3>1
    <3>3. SameMutex' /\ (\A q \in Requests : ~At(q, "insert"))'
      BY <2>1, <3>1, <3>2 DEF MutexInv, SameMutex, WithMutex, Present, At
    <3>4. ASSUME NEW q \in Requests \ {p}, q \in Holding, reqs[q].s = reqs[p].s
          PROVE  ~Present(reqs[p].s)
      <4>1. reqs[q].lock # reqs[p].lock /\ WithMutex(q)
        BY <1>8, <3>4 DEF Reread, Free, Holding, WithMutex
      <4> QED
        BY <2>1, <3>4, <4>1 DEF MutexInv, SameMutex
    <3>5. OneHolder'
      <4> SUFFICES ASSUME NEW q \in Requests, NEW r \in Requests, q # r,
                          q \in Holding', r \in Holding', reqs'[q].s = reqs'[r].s
                   PROVE  ~Present(reqs[q].s)
        BY <2>1, <3>2 DEF OneHolder, Present, Holding
      <4>1. (q = p \/ q \in Holding) /\ (r = p \/ r \in Holding)
        BY <2>1 DEF Holding
      <4> QED
        BY <3>2, <3>4, <4>1 DEF MutexInv, OneHolder
    <3> QED
      BY <3>3, <3>5
  <2> QED
    BY <1>8, <2>2, <2>3 DEF Reread
<1>9. ASSUME NEW p \in Requests, Send(p) \/ MarkClaimed(p) \/ Dropped(p) PROVE MutexInv'
  <2>1. UNCHANGED <<sessions, locks, scene>>
    BY <1>9 DEF Send, Granted, AnswerLost, Refused, NotReached, MarkClaimed, Dropped
  <2>2. Stays(p)
    <3>1. CASE Granted(p)
      BY <1>1, <3>1, GrantedMoves DEF Stays, WithMutex, Holding
    <3>2. CASE AnswerLost(p) \/ Refused(p) \/ NotReached(p)
      BY <1>1, <3>2, VerdictMoves, IdleFields
      DEF AnswerLost, Refused, NotReached, Stays, WithMutex, At, Holding
    <3>3. CASE MarkClaimed(p) \/ Dropped(p)
      BY <1>1, <3>3, DoneMoves, IdleFields DEF MarkClaimed, Dropped, Stays, WithMutex, At
    <3> QED
      BY <1>9, <3>1, <3>2, <3>3 DEF Send
  <2> QED
    BY <1>1, <1>3, <1>4, <2>1, <2>2, MutexFrame
<1>10. ASSUME NEW p \in Requests, Save(p) PROVE MutexInv'
  <2>1. UNCHANGED <<locks, scene>> /\ At(p, "save")
    BY <1>10 DEF Save
  <2>2. Survive
    BY <1>1, <1>10 DEF Save, Survive, Present
  <2>3. Stays(p)
    BY <1>1, <1>10, DoneMoves, ReturnsMoves, IdleFields DEF Save, Stays, WithMutex, At
  <2> QED
    BY <1>1, <1>4, <2>1, <2>2, <2>3, MutexFrame
<1>11. ASSUME NEW p \in Requests, Copy(p, NewIds) PROVE MutexInv'
  <2>1. UNCHANGED <<locks, scene>>
    BY <1>11 DEF Copy
  <2>2. Survive
    BY <1>1, <1>11 DEF Copy, Survive, Present, NewIds
  <2>3. Stays(p)
    BY <1>1, <1>11 DEF Copy, Stays, Others, Goes, WithMutex, At
  <2> QED
    BY <1>1, <1>4, <2>1, <2>2, <2>3, MutexFrame
<1>12. ASSUME NEW p \in Requests, DeleteSession(p) PROVE MutexInv'
  <2>1. Survive /\ KeepLocks /\ UNCHANGED scene
    BY <1>1, <1>12 DEF DeleteSession, Survive, KeepLocks, Present
  <2>2. Stays(p)
    BY <1>1, <1>12, DoneMoves, IdleFields DEF DeleteSession, Stays, WithMutex, At
  <2> QED
    BY <1>1, <2>1, <2>2, MutexFrame
<1>13. ASSUME NEW s \in SessionIds, Elapses(s) PROVE MutexInv'
  <2>1. UNCHANGED <<reqs, scene>>
    BY <1>13 DEF Elapses, Reap, Age, FailureExpires, LockForgotten
  <2>2. Survive /\ KeepLocks
    BY <1>1, <1>13 DEF Elapses, Reap, Age, FailureExpires, LockForgotten, Survive, KeepLocks, Present, NoRow
  <2> QED
    BY <1>1, <2>1, <2>2, MutexFrame
<1>14. CASE (\E t \in live : Revoked(t)) \/ CreateLink \/ LinkExpires
  <2>1. UNCHANGED <<sessions, locks, reqs, scene>>
    BY <1>14 DEF Revoked, CreateLink, LinkExpires
  <2> QED
    BY <1>1, <1>3, <1>4, <2>1, MutexFrame
<1>15. CASE LoginNext
  <2>1. CASE \E k \in Tasks : SaveSession(k)
    <3>1. PICK s \in SessionIds, u \in Users : SavesSession(s, u)
      BY <1>1, <2>1, SaveSessionWrites
    <3>2. Survive /\ UNCHANGED <<locks, reqs, scene>>
      BY <1>1, <3>1 DEF SavesSession, Survive, Present
    <3> QED
      BY <1>1, <1>4, <3>2, MutexFrame
  <2>2. CASE Restart
    BY <2>2, NoRowIsNone DEF Restart, HandlersRestart, MutexInv, SameMutex, OneHolder, WithMutex, Holding, At,
                             Idle
  <2>3. CASE UNCHANGED <<sessionVars, scene>>
    BY <1>1, <1>3, <1>4, <2>3, MutexFrame DEF sessionVars
  <2> QED
    BY <1>15, <2>1, <2>2, <2>3
    DEF LoginNext, TaskStep, Initiate, Callback, Cleanup, Exchange, Complete, TaskFails
<1> QED
  BY <1>2, <1>5, <1>6, <1>7, <1>8, <1>9, <1>10, <1>11, <1>12, <1>13, <1>14, <1>15
  DEF Next, SessionsNext, Proceeds, Enters, Elapses

\* Unless two requests look for a session's mutex at the same time, no session
\* is renewed twice at a time (get_or_create_lock): whatever restarts, deletions,
\* logins and forgotten mutexes come between.
OneRenewal == "race" \notin scene => OneHolder

THEOREM RenewedOnceAtATime == Spec => []OneRenewal
<1>1. Init => MutexInv
  BY NoRowIsNone DEF Init, SessionsInit, MutexInv, SameMutex, OneHolder, WithMutex, Holding, At, Idle
<1>2. ShapeInv /\ ShapeInv' /\ MutexInv /\ [Next]_vars => MutexInv'
  BY MutexNext
<1>3. MutexInv => OneRenewal
  BY DEF MutexInv, OneRenewal
<1> QED
  BY <1>1, <1>2, <1>3, LoginTypeCorrect, PTL DEF Spec

----------------------------------------------------------------------------
(* A session acts for its user                                               *)

Own(row) == Owner(row.token) = row.user

\* The rows that requests have read are of the user their tokens name, and what
\* is being renewed is for the user the session still names.
OwnerInv ==
  "switch" \notin scene =>
    /\ \A s \in SessionIds : Present(s) => Own(sessions[s])
    /\ \A p \in Requests : reqs[p].row # NoRow => Own(reqs[p].row)
    /\ \A p \in Holding : Present(reqs[p].s) => sessions[reqs[p].s].user = reqs[p].row.user

\* Sessions stay, keep the user they name, or are new.
KeepUsers ==
  \A s \in SessionIds : Present(s)' =>
    /\ Own(sessions'[s])
    /\ s \in FreeIds \/ (Present(s) /\ sessions'[s].user = sessions[s].user)

\* A request takes up a row that is its user's, and keeps the user it renews for.
KeepRow(p) ==
  /\ Others(p)
  /\ reqs'[p].row = NoRow \/ Own(reqs'[p].row)
  /\ \/ p \notin Holding'
     \/ p \in Holding /\ reqs'[p].s = reqs[p].s /\ reqs'[p].row.user = reqs[p].row.user
     \/ Present(reqs[p].s) /\ reqs'[p].s = reqs[p].s /\ reqs'[p].row.user = sessions[reqs[p].s].user

LEMMA OwnerFrame ==
  ASSUME RequestOK, RequestOK', OwnerInv, "switch" \notin scene, KeepUsers,
         UNCHANGED reqs \/ \E p \in Requests : KeepRow(p)
  PROVE  OwnerInv'
<1>1. \A s \in SessionIds : Present(s)' => Own(sessions'[s])
  BY DEF KeepUsers
<1>2. \A p \in Requests : reqs'[p].row # NoRow => Own(reqs'[p].row)
  BY DEF KeepRow, Others, OwnerInv
<1>3. ASSUME NEW p \in Requests, p \in Holding', sessions'[reqs'[p].s] # NoRow
      PROVE  sessions'[reqs'[p].s].user = reqs'[p].row.user
  <2>1. \/ p \in Holding /\ reqs'[p].s = reqs[p].s /\ reqs'[p].row.user = reqs[p].row.user
        \/ Present(reqs[p].s) /\ reqs'[p].s = reqs[p].s /\ reqs'[p].row.user = sessions[reqs[p].s].user
    BY <1>3 DEF KeepRow, Others, Holding
  <2>2. reqs'[p].s \in SessionIds
    BY <1>3 DEF RequestOK, Holding, At
  <2>3. reqs[p].s \notin FreeIds
    BY DEF FreeIds
  <2>4. Present(reqs[p].s) /\ sessions'[reqs[p].s].user = sessions[reqs[p].s].user
    BY <1>3, <2>1, <2>2, <2>3 DEF KeepUsers, Present
  <2> QED
    BY <2>1, <2>4 DEF OwnerInv
<1> QED
  BY <1>1, <1>2, <1>3 DEF OwnerInv, Own, Present, Holding

\* A request that gets its mutex or enters it: its row is none, or the session's.
LEMMA LockMoves ==
  ASSUME SessionTypeOK, NEW p \in Requests, GetLock(p) \/ InsertLock(p)
  PROVE  /\ Others(p) /\ UNCHANGED <<sessions, live, fails, link, scene>>
         /\ reqs'[p].pc \in {"insert", "wait"} /\ reqs'[p].row = reqs[p].row /\ reqs'[p].s = reqs[p].s
         /\ reqs'[p].kind = reqs[p].kind /\ reqs[p].pc \in {"lock", "insert"}
BY DEF SessionTypeOK, GetLock, InsertLock, Request, Others, Goes, At

LEMMA RereadMoves ==
  ASSUME SessionTypeOK, RequestOK, NEW p \in Requests, Reread(p)
  PROVE  /\ Others(p) /\ UNCHANGED <<sessions, live, locks, fails, link, scene>>
         /\ reqs[p].pc = "wait" /\ Free(p) /\ reqs[p].s \in SessionIds
         /\ \/ reqs'[p] = Idle
            \/ /\ Present(reqs[p].s) /\ reqs'[p].row = sessions[reqs[p].s]
               /\ \/ reqs'[p].pc = "copy" /\ reqs[p].kind = "link"
                  \/ /\ reqs'[p].pc = "send" /\ reqs'[p].s = reqs[p].s
                     /\ reqs'[p].lock = reqs[p].lock /\ reqs'[p].kind = reqs[p].kind
                     /\ fails[reqs[p].s] = "none"
<1>1. /\ UNCHANGED <<sessions, live, locks, fails, link, scene>> /\ reqs[p].pc = "wait" /\ Free(p)
      /\ reqs[p].s \in SessionIds
  BY DEF Reread, At, RequestOK
<1>2. CASE Done(p)
  BY <1>1, <1>2, DoneMoves
<1>3. CASE Present(reqs[p].s) /\ Returns(p, sessions[reqs[p].s])
  BY <1>1, <1>3, ReturnsMoves
<1>4. CASE /\ Present(reqs[p].s) /\ fails[reqs[p].s] = "none"
           /\ reqs' = [reqs EXCEPT ![p].pc = "send", ![p].row = sessions[reqs[p].s], ![p].left = Channels]
  BY <1>1, <1>4 DEF SessionTypeOK, Request, Others
<1> QED
  BY <1>2, <1>3, <1>4 DEF Reread, GoneMeanwhile, Present

LEMMA SaveMoves ==
  ASSUME SessionTypeOK, RequestOK, NEW p \in Requests, Save(p)
  PROVE  /\ Others(p) /\ UNCHANGED <<live, locks, fails, link, scene>>
         /\ p \in Holding /\ reqs[p].pc = "save" /\ reqs[p].s \in SessionIds /\ reqs[p].row \in Rows
         /\ \A s \in SessionIds \ {reqs[p].s} : sessions'[s] = sessions[s]
         /\ Present(reqs[p].s) =>
              /\ sessions'[reqs[p].s] # NoRow
              /\ sessions'[reqs[p].s].token = reqs[p].row.token
              /\ sessions'[reqs[p].s].user = sessions[reqs[p].s].user
         /\ ~Present(reqs[p].s) => UNCHANGED sessions
         /\ \/ reqs'[p] = Idle
            \/ /\ Present(reqs[p].s) /\ reqs[p].kind = "link"
               /\ reqs'[p].pc = "copy" /\ reqs'[p].row = sessions'[reqs[p].s]
<1>1. /\ UNCHANGED <<live, locks, fails, link, scene>> /\ reqs[p].pc = "save" /\ p \in Holding
      /\ reqs[p].s \in SessionIds /\ reqs[p].row \in Rows
  BY DEF Save, At, RequestOK, Holding
<1>2. CASE Present(reqs[p].s)
  <2>1. /\ sessions' = [sessions EXCEPT ![reqs[p].s] = Saved(@, reqs[p].row.token)]
        /\ Returns(p, sessions'[reqs[p].s])
    BY <1>2 DEF Save
  <2>2. sessions[reqs[p].s] \in Rows /\ reqs[p].row.token \in Tokens
    BY <1>1, <1>2, NoRowIsNone DEF SessionTypeOK, Present
  <2> DEFINE row == Saved(sessions[reqs[p].s], reqs[p].row.token)
  <2>3. row \in Rows /\ row.token = reqs[p].row.token /\ row.user = sessions[reqs[p].s].user
    BY <2>2 DEF Saved, Rows
  <2>4. sessions' = [sessions EXCEPT ![reqs[p].s] = row]
    BY <2>1
  <2> HIDE DEF row
  <2> QED
    BY <1>1, <1>2, <2>1, <2>3, <2>4, ReturnsMoves, NoRowIsNone DEF SessionTypeOK
<1>3. CASE ~Present(reqs[p].s)
  BY <1>1, <1>3, DoneMoves DEF Save
<1> QED
  BY <1>2, <1>3

LEMMA CopyMoves ==
  ASSUME SessionTypeOK, RequestOK, NEW p \in Requests, Copy(p, NewIds)
  PROVE  /\ Others(p) /\ UNCHANGED <<live, locks, fails, link, scene>>
         /\ reqs[p].pc = "copy" /\ reqs[p].row \in Rows
         /\ reqs'[p].pc = "mark" /\ reqs'[p].row = reqs[p].row /\ reqs'[p].s = reqs[p].s
         /\ \E s \in FreeIds : sessions' = [sessions EXCEPT ![s] = reqs[p].row]
<1>1. /\ UNCHANGED <<live, locks, fails, link, scene>> /\ reqs[p].pc = "copy" /\ reqs[p].row \in Rows
  BY DEF Copy, At, RequestOK
<1>2. Others(p) /\ reqs'[p].pc = "mark" /\ reqs'[p].row = reqs[p].row /\ reqs'[p].s = reqs[p].s
  BY DEF Copy, Goes, SessionTypeOK, Request, Others
<1>3. \E s \in FreeIds : sessions' = [sessions EXCEPT ![s] = reqs[p].row]
  BY DEF Copy, NewIds
<1> QED
  BY <1>1, <1>2, <1>3

\* Time passes: a session keeps its token and user, or is gone.
LEMMA ElapsesMoves ==
  ASSUME SessionTypeOK, NEW s \in SessionIds, Elapses(s)
  PROVE  /\ UNCHANGED <<live, reqs, link, scene>>
         /\ \A r \in SessionIds : Present(r)' =>
              Present(r) /\ sessions'[r].token = sessions[r].token /\ sessions'[r].user = sessions[r].user
         /\ \A r \in SessionIds : fails'[r] \in {fails[r], "none"}
<1>1. CASE Age(s)
  <2>1. sessions[s] \in Rows /\ UNCHANGED <<live, reqs, link, scene, fails>>
    BY <1>1, NoRowIsNone DEF Age, SessionTypeOK, NoRow
  <2>2. sessions'[s].token = sessions[s].token /\ sessions'[s].user = sessions[s].user
    BY <1>1, <2>1 DEF Age, SessionTypeOK, Rows
  <2>3. \A r \in SessionIds \ {s} : sessions'[r] = sessions[r]
    BY <1>1 DEF Age, SessionTypeOK
  <2> QED
    BY <2>1, <2>2, <2>3, NoRowIsNone DEF Present
<1>2. CASE Reap(s) \/ FailureExpires(s) \/ LockForgotten(s)
  BY <1>2 DEF Reap, FailureExpires, LockForgotten, SessionTypeOK, Present
<1> QED
  BY <1>1, <1>2 DEF Elapses

LEMMA SceneKept ==
  ASSUME [Next]_vars
  PROVE  UNCHANGED scene
BY DEF Next, SessionsNext, Proceeds, Send, Open, ForceRefresh, GetLock, InsertLock, Reread, Granted,
       AnswerLost, Refused, NotReached, Save, Dropped, Claim, Copy, MarkClaimed, Logout, DeleteSession,
       Reap, Age, FailureExpires, LockForgotten, Revoked, CreateLink, LinkExpires, LoginNext, TaskStep,
       Initiate, Callback, Cleanup, Exchange, SaveSession, Complete, TaskFails, Restart, HandlersRestart,
       vars

LEMMA OwnerNext ==
  ASSUME ShapeInv, ShapeInv', OwnerInv, [Next]_vars
  PROVE  OwnerInv'
<1>1. SessionTypeOK /\ RequestOK /\ RequestOK' /\ LoginTypeOK
  BY DEF ShapeInv, LoginTypeOK
<1>2. UNCHANGED scene
  BY SceneKept
<1> SUFFICES ASSUME "switch" \notin scene PROVE OwnerInv'
  BY <1>2 DEF OwnerInv
<1>3. /\ \A s \in SessionIds : Present(s) => Own(sessions[s])
      /\ \A p \in Requests : reqs[p].row # NoRow => Own(reqs[p].row)
  BY DEF OwnerInv
<1>4. ASSUME UNCHANGED sessions PROVE KeepUsers
  BY <1>3, <1>4 DEF KeepUsers, Present
<1>5. ASSUME NEW p \in Requests, NEW s \in SessionIds, Enters(p, s) PROVE OwnerInv'
  <2>1. KeepRow(p)
    BY <1>1, <1>3, <1>5, EntersMoves DEF KeepRow, Holding, Present
  <2>2. UNCHANGED sessions
    BY <1>5 DEF Enters, Open, ForceRefresh, Claim, Logout
  <2> QED
    BY <1>1, <1>4, <2>1, <2>2, OwnerFrame
<1>6. ASSUME NEW p \in Requests, GetLock(p) \/ InsertLock(p) PROVE OwnerInv'
  <2>1. KeepRow(p)
    BY <1>1, <1>3, <1>6, LockMoves DEF KeepRow, Holding
  <2> QED
    BY <1>1, <1>4, <1>6, <2>1, LockMoves, OwnerFrame
<1>7. ASSUME NEW p \in Requests, Reread(p) PROVE OwnerInv'
  <2>1. KeepRow(p)
    BY <1>1, <1>3, <1>7, RereadMoves, IdleFields DEF KeepRow, Holding
  <2> QED
    BY <1>1, <1>4, <1>7, <2>1, RereadMoves, OwnerFrame
<1>8. ASSUME NEW p \in Requests, Granted(p) PROVE OwnerInv'
  <2>1. reqs[p].row.token \in Tokens /\ reqs'[p].row.token \in Tokens /\ reqs[p].row # NoRow
    BY <1>1, <1>8, GrantedMoves, NoRowIsNone
  <2>2. Owner(reqs'[p].row.token) = Owner(reqs[p].row.token)
    BY <1>1, <1>8, <2>1, GrantedMoves, RenewedTypes
  <2>3. KeepRow(p)
    BY <1>1, <1>3, <1>8, <2>1, <2>2, GrantedMoves DEF KeepRow, Holding, Own
  <2> QED
    BY <1>1, <1>4, <1>8, <2>3, OwnerFrame DEF Granted
<1>9. ASSUME NEW p \in Requests, AnswerLost(p) \/ Refused(p) \/ NotReached(p) PROVE OwnerInv'
  <2>1. UNCHANGED sessions /\ reqs[p].pc = "send"
    BY <1>9 DEF AnswerLost, Refused, NotReached, At
  <2>2. KeepRow(p)
    BY <1>1, <1>3, <1>9, <2>1, VerdictMoves, IdleFields
    DEF AnswerLost, Refused, NotReached, KeepRow, Holding
  <2> QED
    BY <1>1, <1>4, <2>1, <2>2, OwnerFrame
<1>10. ASSUME NEW p \in Requests, Save(p) PROVE OwnerInv'
  <2>1. reqs[p].row # NoRow /\ Own(reqs[p].row) /\ p \in Holding /\ reqs[p].s \in SessionIds
    BY <1>1, <1>3, <1>10, SaveMoves, NoRowIsNone
  <2>2. Present(reqs[p].s) => Own(sessions'[reqs[p].s])
    BY <1>1, <1>10, <2>1, SaveMoves DEF OwnerInv, Own
  <2>3. KeepUsers
    BY <1>1, <1>3, <1>10, <2>1, <2>2, SaveMoves DEF KeepUsers, Present
  <2>4. KeepRow(p)
    BY <1>1, <1>10, <2>2, SaveMoves, IdleFields DEF KeepRow, Holding
  <2> QED
    BY <1>1, <2>3, <2>4, OwnerFrame
<1>11. ASSUME NEW p \in Requests, Copy(p, NewIds) PROVE OwnerInv'
  <2>1. PICK s \in FreeIds : sessions' = [sessions EXCEPT ![s] = reqs[p].row]
    BY <1>1, <1>11, CopyMoves
  <2>2. Own(reqs[p].row)
    BY <1>1, <1>3, <1>11, CopyMoves, NoRowIsNone
  <2>3. KeepUsers
    BY <1>1, <1>3, <2>1, <2>2 DEF KeepUsers, SessionTypeOK, Present
  <2>4. KeepRow(p)
    BY <1>1, <1>11, <2>2, CopyMoves DEF KeepRow, Holding
  <2> QED
    BY <1>1, <2>3, <2>4, OwnerFrame
<1>12. ASSUME NEW p \in Requests, MarkClaimed(p) \/ Dropped(p) \/ DeleteSession(p) PROVE OwnerInv'
  <2>1. KeepUsers
    BY <1>1, <1>3, <1>12 DEF MarkClaimed, Dropped, DeleteSession, KeepUsers, SessionTypeOK, Present
  <2>2. KeepRow(p)
    BY <1>1, <1>12, DoneMoves, IdleFields DEF MarkClaimed, Dropped, DeleteSession, KeepRow, Holding
  <2> QED
    BY <1>1, <2>1, <2>2, OwnerFrame
<1>13. ASSUME NEW s \in SessionIds, Elapses(s) PROVE OwnerInv'
  <2>1. KeepUsers
    BY <1>1, <1>3, <1>13, ElapsesMoves DEF KeepUsers, Own
  <2> QED
    BY <1>1, <1>13, <2>1, ElapsesMoves, OwnerFrame
<1>14. CASE (\E t \in live : Revoked(t)) \/ CreateLink \/ LinkExpires
  BY <1>1, <1>4, <1>14, OwnerFrame DEF Revoked, CreateLink, LinkExpires
<1>15. ASSUME NEW k \in Tasks, SaveSession(k) PROVE OwnerInv'
  <2>1. PICK s \in SessionIds, u \in Users : SavesSession(s, u)
    BY <1>1, <1>15, SaveSessionWrites
  <2>2. sessions'[s].user = u /\ Owner(sessions'[s].token) = u
    BY <1>1, <2>1, NewTokens DEF SavesSession, SignedIn, SessionTypeOK
  <2>3. \A r \in SessionIds \ {s} : sessions'[r] = sessions[r]
    BY <1>1, <2>1 DEF SavesSession, SessionTypeOK
  <2>4. UNCHANGED reqs /\ (Present(s) \/ s \in FreeIds) /\ ~Overlaps(s, u)
    BY <2>1 DEF SavesSession
  <2>5. CASE sessions[s].user = u \/ s \in FreeIds
    <3>1. KeepUsers
      BY <1>3, <2>2, <2>3, <2>4, <2>5 DEF KeepUsers, Own, Present
    <3> QED
      BY <1>1, <2>4, <3>1, OwnerFrame
  <2>6. CASE sessions[s].user # u
    \* Nobody renews s, so that nobody's row has to agree with its new user.
    <3>1. \A p \in Holding : reqs[p].s # s
      BY <2>4, <2>6 DEF Overlaps
    <3>2. \A r \in SessionIds : Present(r)' => Own(sessions'[r])
      BY <1>3, <2>2, <2>3 DEF Own, Present
    <3>3. ASSUME NEW p \in Requests, p \in Holding, sessions'[reqs[p].s] # NoRow
          PROVE  sessions'[reqs[p].s].user = reqs[p].row.user
      <4>1. sessions'[reqs[p].s] = sessions[reqs[p].s]
        BY <1>1, <2>3, <3>1, <3>3 DEF RequestOK, Holding, At
      <4> QED
        BY <3>3, <4>1 DEF OwnerInv, Present
    <3> QED
      BY <1>3, <2>4, <3>2, <3>3 DEF OwnerInv, Own, Present, Holding
  <2> QED
    BY <2>5, <2>6
<1>16. CASE Restart
  BY <1>3, <1>16, IdleFields DEF Restart, HandlersRestart, OwnerInv, Own, Present, Holding
<1>17. CASE UNCHANGED <<sessionVars, scene>>
  BY <1>1, <1>4, <1>17, OwnerFrame DEF sessionVars
<1> QED
  BY <1>5, <1>6, <1>7, <1>8, <1>9, <1>10, <1>11, <1>12, <1>13, <1>14, <1>15, <1>16, <1>17
  DEF Next, SessionsNext, Proceeds, Send, Enters, Elapses, LoginNext, TaskStep, Initiate, Callback, Cleanup,
      Exchange, Complete, TaskFails, vars

LEMMA OwnerInit ==
  ASSUME Init
  PROVE  OwnerInv
<1>1. \A s \in SessionIds : sessions[s] # NoRow => sessions[s].user = Owner(sessions[s].token)
  BY SessionAssumption DEF Init, SessionsInit
<1> QED
  BY <1>1, IdleFields DEF Init, SessionsInit, OwnerInv, Own, Present, Holding

\* A session acts for the user it names, however renewals, links, logins, losses
\* and restarts overlap, unless a login of another user comes between a renewal's
\* read and its write (refresh_session_update.sql writes by the id alone).
THEOREM SessionsActForTheirUser == Spec => []ActsForItsUser
<1>1. ShapeInv /\ ShapeInv' /\ OwnerInv /\ [Next]_vars => OwnerInv'
  BY OwnerNext
<1>2. OwnerInv => ActsForItsUser
  BY DEF OwnerInv, Own, ActsForItsUser
<1> QED
  BY <1>1, <1>2, OwnerInit, LoginTypeCorrect, PTL DEF Spec

----------------------------------------------------------------------------
(* The stored grant works                                                    *)

\* SoundCloud's answers arrive and are stored, requests find the same mutex, no
\* other session has the same token, and nobody ends the grant.
Calm == scene \cap {"lost", "race", "link", "revoked", "logout"} = {}

Token(s) == sessions[s].token

\* What has been renewed and is still to be written works; no token is known to
\* two sessions, nor to a session and the renewal of another.
GrantInv ==
  Calm =>
    /\ link = "none"
    /\ \A p \in Requests : reqs[p].pc \notin {"copy", "mark", "delete"} /\ reqs[p].kind # "link"
    /\ \A s \in SessionIds : Present(s) /\ ~Replacing(s) => Token(s) \in live
    /\ \A p \in Requests : At(p, "save") /\ Present(reqs[p].s) => reqs[p].row.token \in live
    /\ \A s, r \in SessionIds : s # r /\ Present(s) /\ Present(r) => Token(s) # Token(r)
    /\ \A p \in Holding, s \in SessionIds : Present(s) /\ s # reqs[p].s => Token(s) # reqs[p].row.token
    /\ \A p, q \in Holding : reqs[p].s # reqs[q].s => reqs[p].row.token # reqs[q].row.token

\* A request that neither renews nor has renewed.
Aside(p) ==
  \/ /\ reqs'[p].pc \notin {"send", "save", "copy", "mark", "delete"} /\ reqs[p].pc # "save"
     /\ reqs'[p].kind = "link" => reqs[p].kind = "link"
  \/ /\ reqs'[p].pc = reqs[p].pc /\ reqs'[p].s = reqs[p].s /\ reqs'[p].row = reqs[p].row
     /\ reqs'[p].kind = reqs[p].kind

LEMMA GrantFrame ==
  ASSUME GrantInv, Calm, UNCHANGED <<live, link, scene>>,
         \A s \in SessionIds : Present(s)' => Present(s) /\ Token(s)' = Token(s),
         \A p \in Requests : Aside(p),
         RequestOK, RequestOK'
  PROVE  GrantInv'
<1>1. \A s \in SessionIds : Replacing(s) => Replacing(s)'
  BY DEF Aside, Replacing, At
<1>2. ASSUME NEW p \in Requests, p \in Holding'
      PROVE  /\ p \in Holding /\ reqs'[p].pc = reqs[p].pc /\ reqs'[p].s = reqs[p].s
             /\ reqs'[p].row = reqs[p].row /\ reqs[p].s \in SessionIds
  BY <1>2 DEF Aside, Holding, RequestOK, At
<1>3. \A p \in Requests : reqs'[p].pc \notin {"copy", "mark", "delete"} /\ reqs'[p].kind # "link"
  BY DEF GrantInv, Aside
<1>4. ASSUME NEW p \in Requests, reqs'[p].pc = "save", sessions'[reqs'[p].s] # NoRow
      PROVE  reqs'[p].row.token \in live
  <2>1. p \in Holding'
    BY <1>4 DEF Holding
  <2>2. reqs[p].pc = "save" /\ Present(reqs[p].s) /\ reqs'[p].row = reqs[p].row
    BY <1>2, <1>4, <2>1 DEF Present
  <2> QED
    BY <2>2 DEF GrantInv, At
<1>5. \A s \in SessionIds : Present(s)' /\ ~Replacing(s)' => Token(s)' \in live
  BY <1>1 DEF GrantInv
<1>6. \A s, r \in SessionIds : s # r /\ Present(s)' /\ Present(r)' => Token(s)' # Token(r)'
  BY DEF GrantInv
<1>7. \A p \in Holding', s \in SessionIds :
        Present(s)' /\ s # reqs'[p].s => Token(s)' # reqs'[p].row.token
  BY <1>2 DEF GrantInv, Holding
<1>8. \A p, q \in Holding' : reqs'[p].s # reqs'[q].s => reqs'[p].row.token # reqs'[q].row.token
  BY <1>2 DEF GrantInv, Holding
<1>9. \A p \in Requests : At(p, "save")' /\ (sessions'[reqs'[p].s] # NoRow) => reqs'[p].row.token \in live
  BY <1>4 DEF At
<1> QED
  BY <1>3, <1>5, <1>6, <1>7, <1>8, <1>9 DEF GrantInv, Calm, Present

\* The answer with a new token: the old one dies, and is nobody else's.
LEMMA GrantGranted ==
  ASSUME ShapeInv, ShapeInv', MutexInv, GrantInv, Calm, NEW p \in Requests, Granted(p)
  PROVE  GrantInv'
<1>1. SessionTypeOK /\ RequestOK /\ RequestOK'
  BY DEF ShapeInv, LoginTypeOK
<1>0. PICK z \in SessionIds : z = reqs[p].s
  BY <1>1, GrantedMoves
<1> DEFINE t == reqs[p].row.token
           n == reqs'[p].row.token
<1>2. /\ Others(p) /\ reqs[p].pc = "send" /\ reqs'[p].pc = "save" /\ reqs'[p].s = reqs[p].s
      /\ reqs'[p].kind = reqs[p].kind /\ reqs[p].s \in SessionIds /\ t \in Tokens /\ n \in Tokens
      /\ Renewed(t, n) /\ UNCHANGED <<sessions, link, scene>>
  BY <1>1, GrantedMoves, NoRowIsNone DEF Granted
<1>3. n \in live' /\ live \ {t} \subseteq live' /\ (n = t \/ n \notin Known)
  BY <1>1, <1>2, RenewedTypes
<1>4. p \in Holding /\ \A q \in Holding' : q = p \/ (q \in Holding /\ reqs'[q] = reqs[q])
  BY <1>2 DEF Holding, Others
<1>5. \A r \in SessionIds : Token(r) \in Known
  BY DEF Known, Token
<1>6. \A q \in Requests : reqs[q].row.token \in Known
  BY DEF Known
<1>7. /\ Replacing(z)'
      /\ \A s \in SessionIds : Replacing(s) => Replacing(s)'
  BY <1>0, <1>2 DEF Replacing, At, Others
<1>8. ASSUME NEW s \in SessionIds, Present(s), ~Replacing(s)' PROVE Token(s) \in live'
  <2>1. s # z /\ Token(s) # t /\ Token(s) \in live
    BY <1>0, <1>4, <1>7, <1>8 DEF GrantInv
  <2> QED
    BY <1>3, <2>1
<1>9. ASSUME NEW q \in Requests, reqs'[q].pc = "save", Present(reqs'[q].s) PROVE reqs'[q].row.token \in live'
  <2>1. CASE q = p
    BY <1>3, <2>1
  <2>2. CASE q # p
    <3>1. q \in Holding /\ reqs'[q] = reqs[q] /\ reqs[q].pc = "save"
      BY <1>2, <1>9, <2>2 DEF Others, Holding
    <3>2. reqs[q].s # reqs[p].s
      BY <1>4, <1>9, <2>2, <3>1 DEF MutexInv, OneHolder, Calm
    <3>3. reqs[q].row.token # t /\ reqs[q].row.token \in live
      BY <1>4, <1>9, <3>1, <3>2 DEF GrantInv, At
    <3> QED
      BY <1>3, <3>1, <3>3
  <2> QED
    BY <2>1, <2>2
<1>10. ASSUME NEW q \in Holding', NEW s \in SessionIds, Present(s), s # reqs'[q].s
       PROVE  Token(s) # reqs'[q].row.token
  <2>1. CASE q = p
    BY <1>2, <1>3, <1>4, <1>5, <1>10, <2>1 DEF GrantInv
  <2>2. CASE q # p
    BY <1>4, <1>10, <2>2 DEF GrantInv
  <2> QED
    BY <2>1, <2>2
<1>11. ASSUME NEW q \in Holding', NEW r \in Holding', reqs'[q].s # reqs'[r].s
       PROVE  reqs'[q].row.token # reqs'[r].row.token
  <2>1. q # r
    BY <1>11
  <2>2. CASE q # p /\ r # p
    BY <1>4, <1>11, <2>2 DEF GrantInv
  <2>3. \A x \in Holding : x # p /\ reqs[x].s # reqs[p].s => reqs[x].row.token # n
    BY <1>3, <1>4, <1>6 DEF GrantInv, Holding
  <2> QED
    BY <1>2, <1>4, <1>11, <2>1, <2>2, <2>3
<1>12. \A q \in Requests : reqs'[q].pc \notin {"copy", "mark", "delete"} /\ reqs'[q].kind # "link"
  BY <1>2 DEF Others, GrantInv
<1> QED
  BY <1>2, <1>8, <1>9, <1>10, <1>11, <1>12 DEF GrantInv, Calm, Token, Present, At

LEMMA GrantSaved ==
  ASSUME ShapeInv, ShapeInv', GrantInv, Calm, NEW p \in Requests, Save(p)
  PROVE  GrantInv'
<1>1. SessionTypeOK /\ RequestOK /\ RequestOK'
  BY DEF ShapeInv, LoginTypeOK
<1>0. PICK z \in SessionIds : z = reqs[p].s
  BY <1>1, SaveMoves
<1>2. /\ Others(p) /\ UNCHANGED <<live, link, scene>> /\ p \in Holding /\ reqs[p].pc = "save" /\ z \in SessionIds
      /\ reqs'[p] = Idle
      /\ \A s \in SessionIds \ {z} : sessions'[s] = sessions[s]
      /\ Present(z) => sessions'[z] # NoRow /\ sessions'[z].token = reqs[p].row.token
      /\ ~Present(z) => UNCHANGED sessions
  BY <1>0, <1>1, SaveMoves DEF GrantInv
<1>3. \A q \in Holding' : q \in Holding /\ q # p /\ reqs'[q] = reqs[q]
  BY <1>2, IdleFields DEF Holding, Others
<1>4. \A s \in SessionIds : Present(s)' <=> Present(s)
  BY <1>2 DEF Present
<1>5. Present(z) => Token(z)' \in live
  BY <1>0, <1>2 DEF GrantInv, At, Token
<1>6. \A s \in SessionIds \ {z} : Token(s)' = Token(s) /\ (Replacing(s) => Replacing(s)')
  BY <1>0, <1>2 DEF Token, Replacing, At, Others
<1>7. \A s \in SessionIds : Present(s)' /\ ~Replacing(s)' => Token(s)' \in live
  BY <1>4, <1>5, <1>6 DEF GrantInv
<1>8. ASSUME NEW q \in Requests, reqs'[q].pc = "save", sessions'[reqs'[q].s] # NoRow
      PROVE  reqs'[q].row.token \in live
  <2>1. q # p /\ reqs'[q] = reqs[q] /\ reqs[q].s \in SessionIds
    BY <1>1, <1>2, <1>8, IdleFields DEF Others, RequestOK, At
  <2> QED
    BY <1>4, <1>8, <2>1 DEF GrantInv, At, Present
<1>9. \A s \in SessionIds \ {z} : Present(z)' /\ Present(s)' => Token(s)' # Token(z)'
  BY <1>0, <1>2, <1>4, <1>6 DEF GrantInv, Token
<1>10. \A s, r \in SessionIds : s # r /\ Present(s)' /\ Present(r)' => Token(s)' # Token(r)'
  BY <1>4, <1>6, <1>9 DEF GrantInv
<1>11. ASSUME NEW q \in Holding', NEW s \in SessionIds, Present(s)', s # reqs'[q].s
       PROVE  Token(s)' # reqs'[q].row.token
  <2>1. CASE s = z
    <3>1. reqs[q].s # z /\ Token(z)' = reqs[p].row.token
      BY <1>2, <1>3, <1>4, <1>11, <2>1 DEF Token
    <3> QED
      BY <1>0, <1>2, <1>3, <2>1, <3>1 DEF GrantInv
  <2>2. CASE s # z
    BY <1>3, <1>4, <1>6, <1>11, <2>2 DEF GrantInv
  <2> QED
    BY <2>1, <2>2
<1>12. \A q, r \in Holding' : reqs'[q].s # reqs'[r].s => reqs'[q].row.token # reqs'[r].row.token
  BY <1>3 DEF GrantInv
<1>13. \A q \in Requests : reqs'[q].pc \notin {"copy", "mark", "delete"} /\ reqs'[q].kind # "link"
  BY <1>2, IdleFields DEF Others, GrantInv
<1> QED
  BY <1>2, <1>7, <1>8, <1>10, <1>11, <1>12, <1>13 DEF GrantInv, Calm, Present, At

LEMMA GrantReread ==
  ASSUME ShapeInv, ShapeInv', GrantInv, Calm, NEW p \in Requests, Reread(p)
  PROVE  GrantInv'
<1>1. SessionTypeOK /\ RequestOK /\ RequestOK'
  BY DEF ShapeInv, LoginTypeOK
<1>0. PICK z \in SessionIds : z = reqs[p].s
  BY <1>1, RereadMoves
<1>2. /\ Others(p) /\ UNCHANGED <<sessions, live, link, scene>> /\ reqs[p].pc = "wait" /\ z \in SessionIds
      /\ \/ reqs'[p] = Idle
         \/ /\ Present(z) /\ reqs'[p].row = sessions[z] /\ reqs'[p].pc = "send" /\ reqs'[p].s = z
            /\ reqs'[p].kind = reqs[p].kind
  BY <1>0, <1>1, RereadMoves DEF GrantInv
<1>3. CASE reqs'[p] = Idle
  <2>1. \A q \in Requests : Aside(q)
    BY <1>2, <1>3, IdleFields DEF Aside, Others
  <2> QED
    BY <1>1, <1>2, <2>1, GrantFrame DEF Present, Token
<1>4. CASE /\ Present(z) /\ reqs'[p].row = sessions[z] /\ reqs'[p].pc = "send" /\ reqs'[p].s = z
           /\ reqs'[p].kind = reqs[p].kind
  <2>1. reqs'[p].row.token = Token(z) /\ p \notin Holding
    BY <1>2, <1>4 DEF Token, Holding
  <2>2. \A q \in Holding' : q = p \/ (q \in Holding /\ reqs'[q] = reqs[q])
    BY <1>2 DEF Holding, Others
  <2>3. \A q \in Requests : reqs'[q].pc = "save" => reqs'[q] = reqs[q]
    BY <1>2, <1>4 DEF Others
  <2>4. \A s \in SessionIds : Replacing(s) => Replacing(s)'
    BY <1>2 DEF Replacing, At, Others
  <2>5. ASSUME NEW q \in Holding', NEW s \in SessionIds, Present(s), s # reqs'[q].s
        PROVE  Token(s) # reqs'[q].row.token
    BY <1>4, <2>1, <2>2, <2>5 DEF GrantInv
  <2>6. ASSUME NEW q \in Holding', NEW r \in Holding', reqs'[q].s # reqs'[r].s
        PROVE  reqs'[q].row.token # reqs'[r].row.token
    <3>1. \A x \in Holding : reqs[x].s # z => reqs[x].row.token # Token(z)
      BY <1>2, <1>4 DEF GrantInv
    <3> QED
      BY <1>4, <2>1, <2>2, <2>6, <3>1 DEF GrantInv
  <2>7. \A q \in Requests : reqs'[q].pc \notin {"copy", "mark", "delete"} /\ reqs'[q].kind # "link"
    BY <1>2, <1>4 DEF Others, GrantInv
  <2> QED
    BY <1>2, <2>3, <2>4, <2>5, <2>6, <2>7 DEF GrantInv, Calm, Token, Present, At
<1> QED
  BY <1>2, <1>3, <1>4

LEMMA GrantSignedIn ==
  ASSUME ShapeInv, ShapeInv', GrantInv, Calm, NEW s \in SessionIds, NEW u \in Users, SavesSession(s, u)
  PROVE  GrantInv'
<1>1. SessionTypeOK /\ RequestOK
  BY DEF ShapeInv, LoginTypeOK
<1> DEFINE n == NewToken(u)
<1>2. n \notin Known
  BY NewTokens DEF SavesSession
<1>3. /\ UNCHANGED <<reqs, link, scene>>
      /\ sessions'[s] # NoRow /\ Token(s)' = n
      /\ \A r \in SessionIds \ {s} : sessions'[r] = sessions[r]
      /\ live' = (live \cap Held(s)) \cup {n}
  BY <1>1, <1>2, NewTokens, NoRowIsNone DEF SavesSession, SignedIn, SessionTypeOK, Token, Rows
<1>4. \A r \in SessionIds \ {s} : Token(r) \in Held(s) /\ Token(r) # n
  BY <1>2 DEF Held, Token, Known
<1>5. \A p \in Requests : reqs[p].row.token \in Held(s) /\ reqs[p].row.token # n
  BY <1>2 DEF Held, Known
<1>6. \A r \in SessionIds \ {s} : Token(r)' = Token(r) /\ Present(r)' = Present(r)
  BY <1>3 DEF Token, Present
<1>7. \A r \in SessionIds : Replacing(r)' = Replacing(r)
  BY <1>3 DEF Replacing, At
<1>8. \A r \in SessionIds : Present(r)' /\ ~Replacing(r)' => Token(r)' \in live'
  BY <1>3, <1>4, <1>6, <1>7 DEF GrantInv
<1>9. ASSUME NEW p \in Requests, reqs[p].pc = "save", sessions'[reqs[p].s] # NoRow
      PROVE  reqs[p].row.token \in live'
  <2>1. reqs[p].s \in SessionIds /\ reqs[p].s \notin FreeIds
    BY <1>1, <1>9 DEF RequestOK, At, FreeIds
  <2>2. Present(reqs[p].s)
    BY <1>3, <1>9, <2>1 DEF SavesSession, Present
  <2> QED
    BY <1>3, <1>5, <1>9, <2>2 DEF GrantInv, At
<1>10. \A x, r \in SessionIds : x # r /\ Present(x)' /\ Present(r)' => Token(x)' # Token(r)'
  BY <1>3, <1>4, <1>6 DEF GrantInv
<1>11. \A p \in Holding, r \in SessionIds : Present(r)' /\ r # reqs[p].s => Token(r)' # reqs[p].row.token
  BY <1>3, <1>5, <1>6 DEF GrantInv, Holding
<1> QED
  BY <1>3, <1>8, <1>9, <1>10, <1>11 DEF GrantInv, Calm, Present, At, Holding

LEMMA GrantNext ==
  ASSUME ShapeInv, ShapeInv', MutexInv, GrantInv, [Next]_vars
  PROVE  GrantInv'
<1> SUFFICES ASSUME Calm PROVE GrantInv'
  BY SceneKept DEF GrantInv, Calm
<1>1. SessionTypeOK /\ RequestOK /\ RequestOK' /\ LoginTypeOK
  BY DEF ShapeInv, LoginTypeOK
<1>2. \A p \in Requests : reqs[p].pc \notin {"copy", "mark", "delete"}
  BY DEF GrantInv
<1>3. link = "none" /\ {"lost", "race", "link", "revoked", "logout"} \cap scene = {}
  BY DEF GrantInv, Calm
<1>4. UNCHANGED sessions => \A s \in SessionIds : Present(s)' => Present(s) /\ Token(s)' = Token(s)
  BY DEF Present, Token
<1>5. ASSUME NEW p \in Requests, NEW s \in SessionIds, Enters(p, s) PROVE GrantInv'
  <2>1. UNCHANGED <<sessions, live, link, scene>>
    BY <1>3, <1>5 DEF Enters, Open, ForceRefresh, Claim, Unclaimed, Logout
  <2>2. \A q \in Requests : Aside(q)
    BY <1>1, <1>3, <1>5, EntersMoves DEF Aside, Others, At
  <2> QED
    BY <1>1, <1>4, <2>1, <2>2, GrantFrame
<1>6. ASSUME NEW p \in Requests, GetLock(p) \/ InsertLock(p) PROVE GrantInv'
  <2>1. \A q \in Requests : Aside(q)
    BY <1>1, <1>6, LockMoves DEF Aside, Others
  <2> QED
    BY <1>1, <1>4, <1>6, <2>1, LockMoves, GrantFrame
<1>7. ASSUME NEW p \in Requests, Refused(p) \/ NotReached(p) PROVE GrantInv'
  <2>1. UNCHANGED <<sessions, live, link, scene>> /\ reqs[p].pc = "send"
    BY <1>7 DEF Refused, NotReached, At
  <2>2. \A q \in Requests : Aside(q)
    BY <1>1, <1>7, <2>1, VerdictMoves, IdleFields DEF Refused, NotReached, Aside, Others
  <2> QED
    BY <1>1, <1>4, <2>1, <2>2, GrantFrame
<1>8. ASSUME NEW s \in SessionIds, Elapses(s) PROVE GrantInv'
  <2>1. \A p \in Requests : Aside(p)
    BY <1>1, <1>8, ElapsesMoves DEF Aside
  <2> QED
    BY <1>1, <1>8, <2>1, ElapsesMoves, GrantFrame DEF Token
<1>9. ASSUME NEW k \in Tasks, SaveSession(k) PROVE GrantInv'
  BY <1>1, <1>9, SaveSessionWrites, GrantSignedIn
<1>10. CASE UNCHANGED <<sessionVars, scene>>
  <2>1. \A p \in Requests : Aside(p)
    BY <1>10 DEF sessionVars, Aside
  <2> QED
    BY <1>1, <1>4, <1>10, <2>1, GrantFrame DEF sessionVars
<1>11. ASSUME NEW p \in Requests,
              AnswerLost(p) \/ Copy(p, NewIds) \/ MarkClaimed(p) \/ DeleteSession(p) \/ Dropped(p)
       PROVE  FALSE
  BY <1>2, <1>3, <1>11 DEF AnswerLost, Copy, MarkClaimed, DeleteSession, Dropped, At
<1>12. ~((\E t \in live : Revoked(t)) \/ CreateLink \/ LinkExpires \/ Restart)
  BY <1>3 DEF Revoked, CreateLink, LinkExpires, Restart, HandlersRestart
<1> QED
  BY <1>5, <1>6, <1>7, <1>8, <1>9, <1>10, <1>11, <1>12, GrantGranted, GrantSaved, GrantReread
  DEF Next, SessionsNext, Proceeds, Send, Enters, Elapses, LoginNext, TaskStep, Initiate, Callback, Cleanup,
      Exchange, Complete, TaskFails, vars

LEMMA GrantInit ==
  ASSUME Init
  PROVE  GrantInv
<1>1. \A s, r \in SessionIds : s # r /\ sessions[s] # NoRow => sessions[s].token # sessions[r].token
  BY SessionAssumption DEF Init, SessionsInit
<1>2. \A s \in SessionIds : Present(s) => Token(s) \in live
  BY ShapeInit, NoRowIsNone DEF Init, SessionsInit, Present, Token, ShapeInv, LoginTypeOK, SessionTypeOK
<1> QED
  BY <1>1, <1>2, IdleFields DEF Init, SessionsInit, GrantInv, Present, Token, Holding, At

\* The stored refresh token of a session works, except while it is being
\* replaced, however renewals, forced refreshes, logins, reaps and failures that
\* did not reach SoundCloud overlap (get_valid_session, do_refresh).
THEOREM GrantsKept == Spec => []KeepsGrant
<1>1. Init => MutexInv
  BY NoRowIsNone DEF Init, SessionsInit, MutexInv, SameMutex, OneHolder, WithMutex, Holding, At, Idle
<1>2. ShapeInv /\ ShapeInv' /\ MutexInv /\ GrantInv /\ [Next]_vars => MutexInv' /\ GrantInv'
  BY MutexNext, GrantNext
<1>3. GrantInv => KeepsGrant
  BY DEF GrantInv, Calm, KeepsGrant, Token
<1> QED
  BY <1>1, <1>2, <1>3, GrantInit, LoginTypeCorrect, PTL DEF Spec

----------------------------------------------------------------------------
(* "Sign in again" is true                                                   *)

\* Nobody signs in, requests find the same mutex, and SoundCloud's answers
\* arrive and are stored.
NoSignIn == scene \cap {"login", "race", "lost"} = {}

\* What is sent is what the session has; a grant that has been renewed is not
\* remembered as refused.
ReauthInv ==
  NoSignIn =>
    /\ \A l \in LoginIds : logins[l] = NoLogin
    /\ \A k \in Tasks : tasks[k] = NoTask
    /\ \A s \in SessionIds : fails[s] = "reauth" /\ Present(s) => Token(s) \notin live
    /\ \A p \in Requests : At(p, "send") /\ Present(reqs[p].s) => Token(reqs[p].s) = reqs[p].row.token
    /\ \A p \in Requests : At(p, "save") /\ Present(reqs[p].s) => fails[reqs[p].s] # "reauth"

\* A request does not get to renewing.
Calls(p) ==
  \/ reqs'[p].pc \notin {"send", "save"}
  \/ reqs'[p].pc = reqs[p].pc /\ reqs'[p].s = reqs[p].s /\ reqs'[p].row = reqs[p].row

LEMMA ReauthFrame ==
  ASSUME ReauthInv, NoSignIn, UNCHANGED <<loginVars, scene>>, live' \subseteq live,
         \A s \in SessionIds : Present(s)' => Present(s) /\ Token(s)' = Token(s),
         \A s \in SessionIds : fails'[s] = "reauth" => fails[s] = "reauth",
         \A p \in Requests : Calls(p),
         RequestOK, RequestOK'
  PROVE  ReauthInv'
<1>1. \A s \in SessionIds : fails'[s] = "reauth" /\ Present(s)' => Token(s)' \notin live'
  BY DEF ReauthInv
<1>2. ASSUME NEW p \in Requests, reqs'[p].pc \in {"send", "save"}, sessions'[reqs'[p].s] # NoRow
      PROVE  /\ reqs'[p].pc = reqs[p].pc /\ reqs'[p].s = reqs[p].s /\ reqs'[p].row = reqs[p].row
             /\ reqs[p].s \in SessionIds /\ Present(reqs[p].s)
             /\ sessions'[reqs'[p].s].token = Token(reqs[p].s)
  BY <1>2 DEF Calls, RequestOK, At, Present, Token
<1>3. \A p \in Requests : reqs'[p].pc = "send" /\ sessions'[reqs'[p].s] # NoRow =>
        sessions'[reqs'[p].s].token = reqs'[p].row.token
  BY <1>2 DEF ReauthInv, At
<1>4. \A p \in Requests : reqs'[p].pc = "save" /\ sessions'[reqs'[p].s] # NoRow =>
        fails'[reqs'[p].s] # "reauth"
  BY <1>2 DEF ReauthInv, At
<1> QED
  BY <1>1, <1>3, <1>4 DEF ReauthInv, NoSignIn, loginVars, At, Present, Token

\* Steps of one request on its session z.
LEMMA ReauthRequest ==
  ASSUME ShapeInv, ShapeInv', MutexInv, ReauthInv, NoSignIn, UNCHANGED <<loginVars, scene>>,
         NEW p \in Requests,
         Reread(p) \/ Granted(p) \/ Refused(p) \/ NotReached(p) \/ Save(p) \/ Copy(p, NewIds)
  PROVE  ReauthInv'
<1>1. SessionTypeOK /\ RequestOK /\ RequestOK'
  BY DEF ShapeInv, LoginTypeOK
<1>2. PICK z \in SessionIds : z = reqs[p].s
  BY <1>1 DEF Reread, Granted, Refused, NotReached, Save, Copy, RequestOK, At
<1>3. UNCHANGED sessions => \A s \in SessionIds : Present(s)' => Present(s) /\ Token(s)' = Token(s)
  BY DEF Present, Token
<1>4. ASSUME NEW q \in Requests, q # p, p \in Holding, q \in Holding, reqs[q].s = z PROVE ~Present(z)
  BY <1>2, <1>4 DEF MutexInv, OneHolder, NoSignIn
<1>5. CASE Reread(p)
  <2>1. CASE reqs'[p].pc = "send"
    <3>1. /\ Others(p) /\ UNCHANGED <<sessions, live, fails>> /\ reqs'[p].s = z
          /\ reqs'[p].row.token = Token(z)
      BY <1>1, <1>2, <1>5, <2>1, RereadMoves, IdleFields DEF Token
    <3> QED
      BY <2>1, <3>1 DEF ReauthInv, NoSignIn, loginVars, Others, At, Present, Token
  <2>2. CASE reqs'[p].pc # "send"
    <3>1. \A q \in Requests : Calls(q)
      BY <1>1, <1>5, <2>2, RereadMoves, IdleFields DEF Calls, Others
    <3> QED
      BY <1>1, <1>3, <1>5, <3>1, RereadMoves, ReauthFrame
  <2> QED
    BY <2>1, <2>2
<1>6. CASE Granted(p)
  <2> DEFINE t == reqs[p].row.token
             n == reqs'[p].row.token
  <2>1. /\ Others(p) /\ reqs'[p].pc = "save" /\ reqs'[p].s = z /\ UNCHANGED sessions
        /\ fails' = [fails EXCEPT ![z] = "none"] /\ Renewed(t, n)
        /\ t \in Tokens /\ n \in Tokens
    BY <1>1, <1>2, <1>6, GrantedMoves, NoRowIsNone DEF Granted
  <2>2. t \in live /\ live' \subseteq live \cup {n} /\ (n = t \/ n \notin Known)
    BY <1>1, <2>1, RenewedTypes
  <2>3. \A s \in SessionIds : Token(s) \in Known
    BY DEF Token, Known
  <2>4. \A s \in SessionIds : fails'[s] = "reauth" /\ Present(s) => Token(s) \notin live'
    BY <1>1, <2>1, <2>2, <2>3 DEF ReauthInv, SessionTypeOK
  <2>5. \A s \in SessionIds : fails'[s] = "reauth" => fails[s] = "reauth" /\ s # z
    BY <1>1, <2>1 DEF SessionTypeOK
  <2>6. ASSUME NEW q \in Requests, reqs'[q].pc = "save", sessions[reqs'[q].s] # NoRow
        PROVE  fails'[reqs'[q].s] # "reauth"
    <3>1. reqs'[q].s \in SessionIds
      BY <1>1, <2>6 DEF RequestOK, At
    <3> QED
      BY <2>1, <2>5, <2>6, <3>1 DEF ReauthInv, Others, At, Present
  <2>7. \A q \in Requests : reqs'[q].pc = "send" /\ sessions[reqs'[q].s] # NoRow =>
          sessions[reqs'[q].s].token = reqs'[q].row.token
    BY <2>1 DEF ReauthInv, Others, At, Present, Token
  <2> QED
    BY <2>1, <2>4, <2>6, <2>7 DEF ReauthInv, NoSignIn, loginVars, At, Present, Token
<1>7. CASE Refused(p) \/ NotReached(p)
  <2>1. /\ Others(p) /\ UNCHANGED <<sessions, live>> /\ reqs[p].pc = "send" /\ p \in Holding
        /\ \/ /\ reqs'[p] = Idle
              /\ \E kind \in {"reauth", "transient"} :
                   fails' = [fails EXCEPT ![z] = kind] /\ (kind = "reauth" => reqs[p].row.token \notin live)
           \/ /\ reqs'[p].pc = reqs[p].pc /\ reqs'[p].s = reqs[p].s /\ reqs'[p].row = reqs[p].row
              /\ fails' = fails
    BY <1>1, <1>2, <1>7, VerdictMoves DEF Refused, NotReached, Holding, At
  <2>2. \A q \in Requests : Calls(q)
    BY <2>1, IdleFields DEF Calls, Others
  <2>3. CASE \A s \in SessionIds : fails'[s] = "reauth" => fails[s] = "reauth"
    BY <1>1, <1>3, <1>7, <2>1, <2>2, <2>3, ReauthFrame DEF Refused, NotReached
  <2>4. CASE ~\A s \in SessionIds : fails'[s] = "reauth" => fails[s] = "reauth"
    <3>1. /\ reqs'[p] = Idle /\ fails' = [fails EXCEPT ![z] = "reauth"]
          /\ reqs[p].row.token \notin live
      BY <1>1, <2>1, <2>4 DEF SessionTypeOK
    <3>2. Present(z) => Token(z) \notin live
      BY <1>2, <2>1, <3>1 DEF ReauthInv, At
    <3>3. \A s \in SessionIds : fails'[s] = "reauth" /\ Present(s) => Token(s) \notin live
      BY <1>1, <3>1, <3>2 DEF ReauthInv, SessionTypeOK
    <3>4. ASSUME NEW q \in Requests, reqs'[q].pc = "save", sessions[reqs'[q].s] # NoRow
          PROVE  fails'[reqs'[q].s] # "reauth"
      <4>1. q # p /\ reqs'[q] = reqs[q] /\ q \in Holding /\ reqs[q].s \in SessionIds
        BY <1>1, <2>1, <3>1, <3>4, IdleFields DEF Others, Holding, RequestOK, At
      <4>2. reqs[q].s # z
        BY <1>4, <2>1, <3>4, <4>1 DEF Present
      <4> QED
        BY <1>1, <3>1, <3>4, <4>1, <4>2 DEF ReauthInv, SessionTypeOK, At, Present
    <3>5. \A q \in Requests : reqs'[q].pc = "send" /\ sessions[reqs'[q].s] # NoRow =>
            sessions[reqs'[q].s].token = reqs'[q].row.token
      BY <2>1, <3>1, IdleFields DEF ReauthInv, Others, At, Present, Token
    <3> QED
      BY <2>1, <3>3, <3>4, <3>5 DEF ReauthInv, NoSignIn, loginVars, At, Present, Token
  <2> QED
    BY <2>3, <2>4
<1>8. CASE Save(p)
  <2>1. /\ Others(p) /\ UNCHANGED <<live, fails>> /\ p \in Holding /\ reqs[p].pc = "save"
        /\ reqs'[p].pc \notin {"send", "save"}
        /\ \A s \in SessionIds \ {z} : sessions'[s] = sessions[s]
        /\ sessions'[z] # NoRow => Present(z)
    BY <1>1, <1>2, <1>8, SaveMoves, IdleFields DEF Present
  <2>2. Present(z) => fails[z] # "reauth"
    BY <1>2, <2>1 DEF ReauthInv, At
  <2>3. \A s \in SessionIds : fails[s] = "reauth" /\ sessions'[s] # NoRow => sessions'[s].token \notin live
    BY <2>1, <2>2 DEF ReauthInv, Present, Token
  <2>4. ASSUME NEW q \in Requests, reqs'[q].pc \in {"send", "save"}, sessions'[reqs'[q].s] # NoRow
        PROVE  /\ reqs'[q] = reqs[q] /\ Present(reqs[q].s)
               /\ sessions'[reqs'[q].s] = sessions[reqs[q].s]
    <3>1. q # p /\ reqs'[q] = reqs[q] /\ q \in Holding /\ reqs[q].s \in SessionIds
      BY <1>1, <2>1, <2>4 DEF Others, Holding, RequestOK, At
    <3>2. reqs[q].s # z
      BY <1>4, <2>1, <2>4, <3>1
    <3> QED
      BY <2>1, <2>4, <3>1, <3>2 DEF Present
  <2> QED
    BY <2>1, <2>3, <2>4 DEF ReauthInv, NoSignIn, loginVars, At, Present, Token
<1>9. CASE Copy(p, NewIds)
  <2>1. PICK s \in FreeIds : sessions' = [sessions EXCEPT ![s] = reqs[p].row]
    BY <1>1, <1>9, CopyMoves
  <2>2. Others(p) /\ UNCHANGED <<live, fails>> /\ reqs'[p].pc = "mark"
    BY <1>1, <1>9, CopyMoves
  <2>3. s \in SessionIds /\ fails[s] = "none" /\ \A q \in Requests : reqs[q].s # s
    BY DEF FreeIds
  <2>4. \A r \in SessionIds \ {s} : sessions'[r] = sessions[r]
    BY <1>1, <2>1 DEF SessionTypeOK
  <2>5. \A r \in SessionIds : fails[r] = "reauth" /\ sessions'[r] # NoRow => sessions'[r].token \notin live
    BY <2>3, <2>4 DEF ReauthInv, Present, Token
  <2>6. ASSUME NEW q \in Requests, reqs'[q].pc \in {"send", "save"}
        PROVE  reqs'[q] = reqs[q] /\ sessions'[reqs'[q].s] = sessions[reqs[q].s]
    <3>1. q # p /\ reqs'[q] = reqs[q]
      BY <2>2, <2>6 DEF Others
    <3>2. reqs[q].s \in SessionIds
      BY <1>1, <2>6, <3>1 DEF RequestOK, At
    <3> QED
      BY <2>3, <2>4, <3>1, <3>2
  <2> QED
    BY <2>2, <2>5, <2>6 DEF ReauthInv, NoSignIn, loginVars, At, Present, Token
<1> QED
  BY <1>5, <1>6, <1>7, <1>8, <1>9

LEMMA ReauthNext ==
  ASSUME ShapeInv, ShapeInv', MutexInv, ReauthInv, [Next]_vars
  PROVE  ReauthInv'
<1> SUFFICES ASSUME NoSignIn PROVE ReauthInv'
  BY SceneKept DEF ReauthInv, NoSignIn
<1>1. SessionTypeOK /\ RequestOK /\ RequestOK' /\ UNCHANGED scene
  BY SceneKept DEF ShapeInv, LoginTypeOK
<1>2. UNCHANGED sessions => \A s \in SessionIds : Present(s)' => Present(s) /\ Token(s)' = Token(s)
  BY DEF Present, Token
<1>3. {"login", "race", "lost"} \cap scene = {}
  BY DEF NoSignIn
<1>4. ~LoginNext
  <2>1. /\ \A l \in LoginIds : logins[l] = NoLogin
        /\ \A k \in Tasks : tasks[k].pc = "none"
    BY NoLoginIsNone DEF ReauthInv
  <2> QED
    BY <1>3, <2>1 DEF LoginNext, Initiate, Callback, Cleanup, TaskStep, Exchange, SaveSession, Complete,
                      TaskFails, TaskAt, Restart, HandlersRestart
<1>5. UNCHANGED loginVars
  BY <1>4 DEF Next, vars
<1>6. ASSUME NEW p \in Requests, NEW s \in SessionIds, Enters(p, s) PROVE ReauthInv'
  <2>1. UNCHANGED <<sessions, fails>> /\ live' \subseteq live
    BY <1>6 DEF Enters, Open, ForceRefresh, Claim, Logout
  <2>2. \A q \in Requests : Calls(q)
    BY <1>1, <1>6, EntersMoves DEF Calls, Others
  <2> QED
    BY <1>1, <1>2, <1>5, <2>1, <2>2, ReauthFrame
<1>7. ASSUME NEW p \in Requests, GetLock(p) \/ InsertLock(p) PROVE ReauthInv'
  <2>1. \A q \in Requests : Calls(q)
    BY <1>1, <1>7, LockMoves DEF Calls, Others
  <2> QED
    BY <1>1, <1>2, <1>5, <1>7, <2>1, LockMoves, ReauthFrame
<1>8. ASSUME NEW p \in Requests, MarkClaimed(p) \/ DeleteSession(p) PROVE ReauthInv'
  <2>1. \A q \in Requests : Calls(q)
    BY <1>1, <1>8, DoneMoves, IdleFields DEF MarkClaimed, DeleteSession, Calls, Others
  <2>2. UNCHANGED <<live, fails>> /\ \A s \in SessionIds : Present(s)' => Present(s) /\ Token(s)' = Token(s)
    BY <1>1, <1>8 DEF MarkClaimed, DeleteSession, SessionTypeOK, Present, Token
  <2> QED
    BY <1>1, <1>5, <2>1, <2>2, ReauthFrame
<1>9. ASSUME NEW s \in SessionIds, Elapses(s) PROVE ReauthInv'
  <2>1. \A p \in Requests : Calls(p)
    BY <1>1, <1>9, ElapsesMoves DEF Calls
  <2>2. \A r \in SessionIds : fails'[r] = "reauth" => fails[r] = "reauth"
    BY <1>1, <1>9, ElapsesMoves
  <2> QED
    BY <1>1, <1>5, <1>9, <2>1, <2>2, ElapsesMoves, ReauthFrame DEF Token
<1>10. CASE (\E t \in live : Revoked(t)) \/ CreateLink \/ LinkExpires \/ UNCHANGED vars
  <2>1. UNCHANGED <<sessions, fails, reqs>> /\ live' \subseteq live
    BY <1>10 DEF Revoked, CreateLink, LinkExpires, vars, sessionVars
  <2>2. \A p \in Requests : Calls(p)
    BY <2>1 DEF Calls
  <2> QED
    BY <1>1, <1>2, <1>5, <2>1, <2>2, ReauthFrame
<1>11. ASSUME NEW p \in Requests, AnswerLost(p) \/ Dropped(p) PROVE FALSE
  BY <1>3, <1>11 DEF AnswerLost, Dropped
<1> QED
  BY <1>1, <1>4, <1>5, <1>6, <1>7, <1>8, <1>9, <1>10, <1>11, ReauthRequest
  DEF Next, SessionsNext, Proceeds, Send, Enters, Elapses

\* "Sign in again" is remembered only of a session whose grant is dead
\* (is_invalid_grant, cache_refresh_failure), whatever renewals, links, logouts,
\* reaps and revocations overlap.
THEOREM ReauthOnlyOfTheDead == Spec => []ReauthIsTrue
<1>1. Init => MutexInv /\ ReauthInv
  BY IdleFields DEF Init, SessionsInit, MutexInv, SameMutex, OneHolder, WithMutex, Holding, ReauthInv, At
<1>2. ShapeInv /\ ShapeInv' /\ MutexInv /\ ReauthInv /\ [Next]_vars => MutexInv' /\ ReauthInv'
  BY MutexNext, ReauthNext
<1>3. ReauthInv => ReauthIsTrue
  BY DEF ReauthInv, NoSignIn, ReauthIsTrue, Token
<1> QED
  BY <1>1, <1>2, <1>3, LoginTypeCorrect, PTL DEF Spec

=============================================================================
