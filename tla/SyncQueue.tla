------------------------------ MODULE SyncQueue ------------------------------
(***************************************************************************)
(* The outbox of the backend: the table sync_queue, the requests that put  *)
(* rows in it, and the flush, heal and admin statements that work on it.   *)
(* What an action_type does to SoundCloud is left open: an attempt returns *)
(* Ok or an error.  LikeSync and PlaylistSync say what the attempts do.    *)
(*                                                                         *)
(* One action is one SQL statement or one return of an awaited call, so    *)
(* everything that can run between two statements of the code does.        *)
(*                                                                         *)
(* next_run_at is abstracted: a backoff may or may not have elapsed at any *)
(* moment, so a claim takes any set of the rows the other conditions let   *)
(* it take.  The LIMIT and the ORDER BY of the claim are covered by that.  *)
(***************************************************************************)
EXTENDS Naturals, FiniteSets

CONSTANTS
  Actions,     \* action_type values
  Targets,     \* (user_id, target_urn) pairs
  inverse,     \* the opposite action_type, or NoAction
  Healable,    \* the action types a heal statement re-enqueues
  WithPayload, \* the action types enqueued with a payload
  Payloads,    \* values of the payload column
  NoPayload,   \* payload IS NULL
  Ids,         \* row ids; an id nobody remembers may be used again
  Workers,     \* processes that run the flush tick
  Callers,     \* concurrent request handlers inside enqueue
  MaxRetries,  \* MAX_RETRIES
  NoAction, NoRow, Nobody, NoCall

Key == Actions \X Targets   \* UNIQUE (user_id, action_type, target_urn)

ASSUME InverseAssumption ==
  /\ inverse \in [Actions -> Actions \cup {NoAction}]
  /\ NoAction \notin Actions
ASSUME KindAssumption == Healable \subseteq Actions /\ WithPayload \subseteq Actions
ASSUME RetryAssumption == MaxRetries \in Nat \ {0}
ASSUME NobodyAssumption == Nobody \notin Workers

Row == [id       : Ids,
        payload  : Payloads \cup {NoPayload},
        lockedBy : Workers \cup {Nobody},  \* whose claim set locked_at
        live     : BOOLEAN,                \* locked_at is within LOCK_TIMEOUT
        retries  : Nat,
        dead     : BOOLEAN]

\* A claimed row in the hands of a flush: the copy the claim returned.
Job == [worker  : Workers,
        key     : Key,
        id      : Ids,
        payload : Payloads \cup {NoPayload},
        retries : Nat,
        phase   : {"picked", "running", "ok", "failed"}]

Call == [key     : Key,
         payload : Payloads \cup {NoPayload},
         step    : {"cancel", "insert"}]

ASSUME NullAssumption == NoRow \notin Row /\ NoCall \notin Call

VARIABLES
  queue,   \* the table, by its unique key
  jobs,    \* claimed rows that a flush still holds
  calls    \* enqueue calls in progress

vars == <<queue, jobs, calls>>

TypeOK ==
  /\ queue \in [Key -> Row \cup {NoRow}]
  /\ jobs \subseteq Job
  /\ calls \in [Callers -> Call \cup {NoCall}]

PayloadFor(a) == IF a \in WithPayload THEN Payloads ELSE {NoPayload}

-----------------------------------------------------------------------------
(* Rows of the table.                                                      *)

Rows    == {k \in Key : queue[k] # NoRow}
UsedIds == {queue[k].id : k \in Rows} \cup {j.id : j \in jobs}

\* gen_random_uuid(): an id that no row and no job has.  Ids are only compared,
\* so states that differ in the fresh id that was taken behave alike.
FreshIds == Ids \ UsedIds
FreshId  == CHOOSE id \in Ids : id \notin UsedIds

NewRow(id, p) ==
  [id |-> id, payload |-> p, lockedBy |-> Nobody, live |-> FALSE,
   retries |-> 0, dead |-> FALSE]

Unlocked(r) == [r EXCEPT !.lockedBy = Nobody, !.live = FALSE]

Leased(k) == queue[k] # NoRow /\ queue[k].lockedBy # Nobody /\ queue[k].live

HasInverse(k) == inverse[k[1]] # NoAction
InverseKey(k) == <<inverse[k[1]], k[2]>>

\* (mutant) The delete compares only the id.
OwnedById(j) == queue[j.key] # NoRow /\ queue[j.key].id = j.id

\* The row a job was made from is still there (id), and still has the
\* locked_at the claim wrote.
SameRow(j)    == queue[j.key] # NoRow /\ queue[j.key].id = j.id
StillOwned(j) == SameRow(j) /\ queue[j.key].lockedBy = j.worker

Init ==
  /\ queue = [k \in Key |-> NoRow]
  /\ jobs = {}
  /\ calls = [c \in Callers |-> NoCall]

-----------------------------------------------------------------------------
(* enqueue: cancel the opposite row if nobody has claimed it, otherwise    *)
(* insert or refresh the row.  Two statements, no transaction.             *)

BeginEnqueue(c, k, p) ==
  /\ calls[c] = NoCall
  /\ calls' = [calls EXCEPT ![c] = [key |-> k, payload |-> p, step |-> "cancel"]]
  /\ UNCHANGED <<queue, jobs>>

Cancellable(k) == queue[k] # NoRow /\ queue[k].lockedBy = Nobody

CancelInverse(c) ==
  /\ calls[c] # NoCall
  /\ calls[c].step = "cancel"
  /\ LET k   == calls[c].key
         hit == HasInverse(k) /\ Cancellable(InverseKey(k))
     IN \/ /\ hit
           /\ queue' = [queue EXCEPT ![InverseKey(k)] = NoRow]
           /\ calls' = [calls EXCEPT ![c] = NoCall]
        \/ /\ ~hit
           /\ calls' = [calls EXCEPT ![c] = [@ EXCEPT !.step = "insert"]]
           /\ UNCHANGED queue
  /\ UNCHANGED jobs

\* (mutant) ON CONFLICT DO UPDATE that forgets locked_at = NULL.
RefreshedKeepsLease(r, p) ==
  [r EXCEPT !.payload = IF p = NoPayload THEN r.payload ELSE p, !.retries = 0]

\* ON CONFLICT DO UPDATE: the dead flag is not among the columns it sets.
Refreshed(r, p) ==
  [Unlocked(r) EXCEPT !.payload = IF p = NoPayload THEN r.payload ELSE p,
                      !.retries = 0]

InsertRow(c) ==
  /\ calls[c] # NoCall
  /\ calls[c].step = "insert"
  /\ LET k == calls[c].key
         p == calls[c].payload
     IN /\ FreshIds # {}
        /\ queue' = [queue EXCEPT ![k] = IF @ = NoRow THEN NewRow(FreshId, p)
                                                      ELSE Refreshed(@, p)]
  /\ calls' = [calls EXCEPT ![c] = NoCall]
  /\ UNCHANGED jobs

\* The handler is dropped at an await, or a statement fails: the client went
\* away or the process died.
DropCall(c) ==
  /\ calls[c] # NoCall
  /\ calls' = [calls EXCEPT ![c] = NoCall]
  /\ UNCHANGED <<queue, jobs>>

-----------------------------------------------------------------------------
(* flush: claim a batch, keep one row per target, run the rows, settle.    *)

Claimable ==
  {k \in Rows :
     /\ ~queue[k].dead
     /\ ~Leased(k)
     /\ \A s \in Rows \ {k} : s[2] = k[2] => ~Leased(s)}

JobFor(w, k) ==
  [worker |-> w, key |-> k, id |-> queue[k].id, payload |-> queue[k].payload,
   retries |-> queue[k].retries, phase |-> "picked"]

\* run_periodic starts a flush only after the previous one has returned.
Claim(w, S) ==
  /\ \A j \in jobs : j.worker # w
  /\ S # {}
  /\ S \subseteq Claimable
  /\ queue' = [k \in Key |->
                 IF k \in S THEN [queue[k] EXCEPT !.lockedBy = w, !.live = TRUE]
                            ELSE queue[k]]
  /\ jobs' = jobs \cup {JobFor(w, k) : k \in S}
  /\ UNCHANGED calls

Picked(w) == {j \in jobs : j.worker = w /\ j.phase = "picked"}

\* (mutant) Every claimed row is run.
KeepAll(K, P) == K = P

\* One row per (user, target) survives; RETURNING has no order, so any may.
OnePerTarget(K, P) ==
  /\ K \subseteq P
  /\ \A j \in P : \E i \in K : i.key[2] = j.key[2]
  /\ \A i, j \in K : i.key[2] = j.key[2] => i = j

Release(ids) ==
  [k \in Key |-> IF queue[k] # NoRow /\ queue[k].id \in ids
                 THEN Unlocked(queue[k]) ELSE queue[k]]

\* The result of release_locks is ignored, so it may also have done nothing.
Dedup(w, K) ==
  /\ Picked(w) # {}
  /\ OnePerTarget(K, Picked(w))
  /\ jobs' = (jobs \ Picked(w)) \cup {[j EXCEPT !.phase = "running"] : j \in K}
  /\ \/ queue' = Release({j.id : j \in Picked(w) \ K})
     \/ UNCHANGED queue
  /\ UNCHANGED calls

SetPhase(j, ph) == jobs' = (jobs \ {j}) \cup {[j EXCEPT !.phase = ph]}

\* execute_one returned.
AttemptOk(j) ==
  /\ j.phase = "running"
  /\ SetPhase(j, "ok")
  /\ UNCHANGED <<queue, calls>>

AttemptFails(j) ==
  /\ j.phase = "running"
  /\ SetPhase(j, "failed")
  /\ UNCHANGED <<queue, calls>>

DeleteIfUnchanged(j) ==
  /\ j.phase = "ok"
  /\ queue' = IF StillOwned(j) THEN [queue EXCEPT ![j.key] = NoRow] ELSE queue
  /\ jobs' = jobs \ {j}
  /\ UNCHANGED calls

\* record_failure: three statements, each WHERE id = the claimed id.
UpdateById(j, r) == IF SameRow(j) THEN [queue EXCEPT ![j.key] = r] ELSE queue

ExternalBackoff(j) ==
  /\ j.phase = "failed"
  /\ queue' = UpdateById(j, Unlocked(queue[j.key]))
  /\ jobs' = jobs \ {j}
  /\ UNCHANGED calls

RetryBackoff(j) ==
  /\ j.phase = "failed"
  /\ j.retries + 1 < MaxRetries
  /\ queue' = UpdateById(j, [Unlocked(queue[j.key]) EXCEPT !.retries = @ + 1])
  /\ jobs' = jobs \ {j}
  /\ UNCHANGED calls

ParkDead(j) ==
  /\ j.phase = "failed"
  /\ j.retries + 1 >= MaxRetries
  /\ queue' = UpdateById(j, [Unlocked(queue[j.key]) EXCEPT !.dead = TRUE,
                                                           !.retries = j.retries + 1])
  /\ jobs' = jobs \ {j}
  /\ UNCHANGED calls

\* The statement that settles a job fails: logged, the row is left as it is.
SettleFails(j) ==
  /\ j.phase \in {"ok", "failed"}
  /\ jobs' = jobs \ {j}
  /\ UNCHANGED <<queue, calls>>

\* BG_WORK_TIMEOUT drops the flush future, or the process dies.
WorkerLost(w) ==
  /\ \E j \in jobs : j.worker = w
  /\ jobs' = {j \in jobs : j.worker # w}
  /\ UNCHANGED <<queue, calls>>

\* LOCK_TIMEOUT (5 min) passes.  A flush lives for BG_WORK_TIMEOUT (30 s) at
\* most, so by then its worker holds the row no more.
LeaseExpires(k) ==
  /\ Leased(k)
  /\ \A j \in jobs : j.key = k => j.worker # queue[k].lockedBy
  /\ queue' = [queue EXCEPT ![k] = [@ EXCEPT !.live = FALSE]]
  /\ UNCHANGED <<jobs, calls>>

-----------------------------------------------------------------------------
(* heal and the admin endpoints.                                           *)

\* (mutant) NOT EXISTS without q.dead = false.
NoRowAtAll(k) ==
  \A s \in Rows : s # k /\ ~(HasInverse(k) /\ s = InverseKey(k))

\* NOT EXISTS a row of the action or of its opposite that is not dead.
NoLiveRow(k) ==
  \A s \in Rows : (s = k \/ (HasInverse(k) /\ s = InverseKey(k))) => queue[s].dead

Heal(k) ==
  /\ k[1] \in Healable
  /\ NoLiveRow(k)
  /\ FreshIds # {}
  /\ queue' = [queue EXCEPT ![k] =
                 IF @ = NoRow THEN NewRow(FreshId, NoPayload)
                 ELSE [Unlocked(@) EXCEPT !.dead = FALSE, !.retries = 0]]
  /\ UNCHANGED <<jobs, calls>>

\* failed_at older than 30 days.
DeleteOldDead(k) ==
  /\ queue[k] # NoRow
  /\ queue[k].dead
  /\ queue' = [queue EXCEPT ![k] = NoRow]
  /\ UNCHANGED <<jobs, calls>>

AdminFlush ==
  /\ queue' = [k \in Key |-> IF queue[k] # NoRow /\ ~Leased(k)
                             THEN Unlocked(queue[k]) ELSE queue[k]]
  /\ UNCHANGED <<jobs, calls>>

\* The endpoint refuses min_retries < 1.
AdminPurge(n) ==
  /\ n >= 1
  /\ queue' = [k \in Key |-> IF queue[k] # NoRow /\ queue[k].retries >= n
                             THEN NoRow ELSE queue[k]]
  /\ UNCHANGED <<jobs, calls>>

-----------------------------------------------------------------------------
Enqueue(c) ==
  \/ \E k \in Key : \E p \in PayloadFor(k[1]) : BeginEnqueue(c, k, p)
  \/ CancelInverse(c)
  \/ InsertRow(c)
  \/ DropCall(c)

Settle(j) ==
  \/ DeleteIfUnchanged(j)
  \/ ExternalBackoff(j)
  \/ RetryBackoff(j)
  \/ ParkDead(j)
  \/ SettleFails(j)

Flush(w) ==
  \/ \E S \in SUBSET Key : Claim(w, S)
  \/ \E K \in SUBSET jobs : Dedup(w, K)
  \/ WorkerLost(w)

Maintain ==
  \/ \E k \in Key : LeaseExpires(k) \/ Heal(k) \/ DeleteOldDead(k)
  \/ AdminFlush
  \/ \E n \in 1..MaxRetries : AdminPurge(n)

Next ==
  \/ \E c \in Callers : Enqueue(c)
  \/ \E w \in Workers : Flush(w)
  \/ \E j \in jobs : AttemptOk(j) \/ AttemptFails(j) \/ Settle(j)
  \/ Maintain

Spec == Init /\ [][Next]_vars

-----------------------------------------------------------------------------
(* Properties.                                                             *)

\* While a flush still owns a row (same id, locked_at as the claim wrote it),
\* the row is what the flush was given: an enqueue that changed the payload or
\* reset the attempts has always cleared locked_at too, so delete_if_unchanged
\* (flush) cannot remove an edit that was not sent.
LeasedRowUntouched ==
  \A j \in jobs : StillOwned(j) =>
    /\ queue[j.key].payload = j.payload
    /\ queue[j.key].retries = j.retries
    /\ ~queue[j.key].dead

\* Past the dedup of claim_batch, one flush never runs two rows of the same
\* user and target, although one UPDATE may have claimed both.
BatchSerial ==
  \A i, j \in jobs :
    /\ i.worker = j.worker
    /\ i.phase # "picked" /\ j.phase # "picked"
    /\ i.key[2] = j.key[2]
    => i = j

\* A parked row holds no lease, so it cannot block its target in the claim's
\* NOT EXISTS, whatever order park_dead, enqueue and other claims came in.
DeadRowsHoldNoLease ==
  \A k \in Rows : queue[k].dead => queue[k].lockedBy = Nobody

\* A row leaves the outbox with an attempt that has succeeded and was given the
\* very payload the row holds; or no flush is involved: nobody had claimed it
\* (cancelled by its opposite, or dead for 30 days), or an admin purged it after
\* a failed attempt.
RowsLeaveStep ==
  \A k \in Key : queue[k] # NoRow /\ queue'[k] = NoRow =>
    \/ jobs' = jobs /\ (queue[k].lockedBy = Nobody \/ queue[k].retries >= 1)
    \/ \E j \in jobs \ jobs' :
         j.key = k /\ j.phase = "ok" /\ j.payload = queue[k].payload

RowsLeaveSafely == [][RowsLeaveStep]_vars

=============================================================================
