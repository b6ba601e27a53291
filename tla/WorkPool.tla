------------------------------- MODULE WorkPool -------------------------------
(* The worker pool of the backend (work/scheduler.rs) with its first source,   *)
(* enrichment: tracks that wait are claimed in batches under a lease, wait in  *)
(* a buffer for a permit, run, and are written off as done, failed or dead.    *)
(* A fresh track is also announced through the kick channel.                   *)
(*                                                                             *)
(* enrich_next_run_at is abstracted: a backoff may or may not have elapsed, so *)
(* a batch takes any set of the rows the other conditions let it take.  That   *)
(* covers the ORDER BY and the LIMIT.  RETURNING has no order and the buffer   *)
(* is refilled only when empty, so the buffer is a set.                        *)
EXTENDS Naturals, FiniteSets

CONSTANTS
  Tracks,
  Slots,        \* the permits of the semaphore (concurrency)
  MaxAttempts,  \* ENRICH_MAX_ATTEMPTS
  KickBuffer,   \* KICK_BUFFER
  NoItem,       \* a free permit
  Faults        \* what may go wrong, see FaultNames

FaultNames ==
  {"fail",    \* a resolver fails
   "timeout", \* a run reaches the lease's length and is dropped
   "write",   \* the terminal write fails
   "crash",   \* the process dies and starts again
   "late",    \* an item is in hand for longer than its lease: it waited in the buffer
   "clobber"} \* an admin resets a track that is in hand

ASSUME AttemptAssumption == MaxAttempts \in Nat \ {0}
ASSUME FaultAssumption   == Faults \subseteq FaultNames

Row == [state    : {"absent", "pending", "failed", "done", "dead"},
        attempts : 0..MaxAttempts,
        lock     : {"none", "live", "expired"}]   \* enrich_locked_at and the lease

\* EnrichItem.  holds: enrich_locked_at is what the claim wrote (the code does not
\* look, no action but LeaseExpires asks).
Item == [track : Tracks, attempts : 1..MaxAttempts, holds : BOOLEAN,
         ended : BOOLEAN]                         \* run() has failed

ASSUME ItemAssumption == NoItem \notin Item

VARIABLES
  rows,    \* the table tracks
  buffer,  \* claimed items without a permit
  slots,   \* the items that run
  kicks,   \* the kick channel; a track is new once, so it is there once
  idle     \* the loop waits for a tick or a kick

vars == <<rows, buffer, slots, kicks, idle>>

Running == {s \in Slots : slots[s] # NoItem}
InHand  == buffer \cup {slots[s] : s \in Running}

WorkTypeOK ==
  /\ rows \in [Tracks -> Row]
  /\ buffer \subseteq Item
  /\ slots \in [Slots -> Item \cup {NoItem}]
  /\ kicks \subseteq Tracks /\ idle \in BOOLEAN

NewRow == [state |-> "absent", attempts |-> 0, lock |-> "none"]

Init ==
  /\ rows = [t \in Tracks |-> NewRow]
  /\ buffer = {} /\ slots = [s \in Slots |-> NoItem]
  /\ kicks = {} /\ idle = FALSE

Waiting(t) == rows[t].state \in {"pending", "failed"} /\ rows[t].attempts < MaxAttempts

\* enrich_locked_at changes for the tracks in T: the items that hold them do no more.
Disowned(i, T)  == [i EXCEPT !.holds = @ /\ i.track \notin T]
DisownedBuffer(T) == {Disowned(i, T) : i \in buffer}
DisownedSlots(T)  ==
  [s \in Slots |-> IF slots[s] = NoItem THEN NoItem ELSE Disowned(slots[s], T)]

-----------------------------------------------------------------------------
(* ingest_track_from_sc: upsert, then a kick that a full channel drops, or     *)
(* that is never sent: too long a track, or the process stops between the two. *)

Ingest(t) ==
  /\ rows[t].state = "absent"
  /\ rows' = [rows EXCEPT ![t].state = "pending"]
  /\ \/ Cardinality(kicks) < KickBuffer /\ kicks' = kicks \cup {t}
     \/ UNCHANGED kicks
  /\ UNCHANGED <<buffer, slots, idle>>

-----------------------------------------------------------------------------
(* The scheduler's loop.                                                       *)

Free(t) == rows[t].lock # "live"

\* (mutant) A lease that a crash left behind is taken for a running item.
ClaimableUnlocked(t) == Waiting(t) /\ rows[t].lock = "none"

Claimable(t) == Waiting(t) /\ Free(t)

\* (mutant) The kick's claim does not look at the lease.
KickableAlways(t) == Waiting(t) \/ rows[t].state = "done"

\* claim_one: a track that was enriched a day ago is taken as well.
Kickable(t) ==
  /\ Free(t)
  /\ rows[t].attempts < MaxAttempts
  /\ rows[t].state \in {"pending", "failed", "done"}

\* attempts + 1 and the lease, in one statement.
Taken(T) ==
  [t \in Tracks |-> IF t \in T THEN [rows[t] EXCEPT !.attempts = @ + 1, !.lock = "live"]
                               ELSE rows[t]]
ItemFor(t) ==
  [track |-> t, attempts |-> rows[t].attempts + 1, holds |-> TRUE, ended |-> FALSE]

HasPermit == \E s \in Slots : slots[s] = NoItem

\* An empty batch: nothing is due, or the claim failed.
Refill(T) ==
  /\ ~idle /\ HasPermit /\ buffer = {}
  /\ \A t \in T : Claimable(t)
  /\ rows' = Taken(T)
  /\ buffer' = {ItemFor(t) : t \in T}
  /\ slots' = DisownedSlots(T)
  /\ idle' = (T = {})
  /\ UNCHANGED kicks

Dispatch(i, s) ==
  /\ ~idle
  /\ i \in buffer
  /\ slots[s] = NoItem
  /\ buffer' = buffer \ {i}
  /\ slots' = [slots EXCEPT ![s] = i]
  /\ UNCHANGED <<rows, kicks, idle>>

Tick ==
  /\ idle
  /\ idle' = FALSE
  /\ UNCHANGED <<rows, buffer, slots, kicks>>

\* The claim takes the track, or has nothing to take, or fails.
ReceiveKick(t) ==
  /\ idle
  /\ t \in kicks
  /\ kicks' = kicks \ {t}
  /\ idle' = FALSE
  /\ \/ /\ Kickable(t)
        /\ rows' = Taken({t})
        /\ buffer' = {ItemFor(t)}
        /\ slots' = DisownedSlots({t})
     \/ UNCHANGED <<rows, buffer, slots>>

-----------------------------------------------------------------------------
(* dispatch: run() under a timeout, then the terminal write.                   *)

Runs(s) == slots[s] # NoItem /\ ~slots[s].ended

DoneRow(r) == [state |-> "done", attempts |-> 0, lock |-> "none"]

\* persist::apply, one transaction: the row by its id, and the tracks in R of the
\* same uploader that go to another artist (repoint_uploader_tracks).
Enriched(s, R) ==
  /\ Runs(s)
  /\ LET t == slots[s].track
     IN /\ \A u \in R : u # t /\ rows[u].lock = "none" /\ rows[u].state \in {"done", "failed"}
        /\ rows' = [u \in Tracks |-> IF u = t THEN DoneRow(rows[t])
                                     ELSE IF u \in R THEN [rows[u] EXCEPT !.state = "pending"]
                                     ELSE rows[u]]
        /\ buffer' = DisownedBuffer({t})
        /\ slots' = [DisownedSlots({t}) EXCEPT ![s] = NoItem]
  /\ UNCHANGED <<kicks, idle>>

RunFails(s) ==
  /\ "fail" \in Faults
  /\ Runs(s)
  /\ slots' = [slots EXCEPT ![s].ended = TRUE]
  /\ UNCHANGED <<rows, buffer, kicks, idle>>

\* (mutant) mark_dead one attempt too early.
SpentEarly(i) == i.attempts + 1 >= MaxAttempts

Spent(i) == i.attempts >= MaxAttempts

\* on_failure: mark_dead or mark_failed, by the row's id.
WriteFailure(s) ==
  /\ slots[s] # NoItem /\ slots[s].ended
  /\ LET t == slots[s].track
     IN /\ rows' = [rows EXCEPT ![t].state = IF Spent(slots[s]) THEN "dead" ELSE "failed",
                                ![t].lock = "none"]
        /\ buffer' = DisownedBuffer({t})
        /\ slots' = [DisownedSlots({t}) EXCEPT ![s] = NoItem]
  /\ UNCHANGED <<kicks, idle>>

\* The permit is released, the row stays as the claim left it.
GivenUp(s) ==
  /\ \/ "timeout" \in Faults /\ Runs(s)
     \/ "write" \in Faults /\ slots[s] # NoItem /\ slots[s].ended
  /\ slots' = [slots EXCEPT ![s] = NoItem]
  /\ UNCHANGED <<rows, buffer, kicks, idle>>

\* The lease is as long as a run may be.
LeaseExpires(t) ==
  /\ rows[t].lock = "live"
  /\ "late" \in Faults \/ \A i \in InHand : i.track = t => ~i.holds
  /\ rows' = [rows EXCEPT ![t].lock = "expired"]
  /\ UNCHANGED <<buffer, slots, kicks, idle>>

Crash ==
  /\ "crash" \in Faults
  /\ buffer' = {} /\ slots' = [s \in Slots |-> NoItem]
  /\ kicks' = {} /\ idle' = FALSE
  /\ UNCHANGED rows

-----------------------------------------------------------------------------
\* POST retry: retry_by_sc_track_id any track, retry_all_failed all of T.
ResetRow == [state |-> "pending", attempts |-> 0, lock |-> "none"]

Retry(T) ==
  /\ T # {}
  /\ \/ \E t \in Tracks : T = {t} /\ rows[t].state # "absent"
     \/ T = {t \in Tracks : rows[t].state \in {"failed", "dead"}}
  /\ "clobber" \in Faults \/ \A i \in InHand : i.track \notin T
  /\ rows' = [t \in Tracks |-> IF t \in T THEN ResetRow ELSE rows[t]]
  /\ buffer' = DisownedBuffer(T)
  /\ slots' = DisownedSlots(T)
  /\ UNCHANGED <<kicks, idle>>

Loop ==
  \/ \E T \in SUBSET Tracks : Refill(T)
  \/ \E i \in buffer, s \in Slots : Dispatch(i, s)
  \/ Tick
  \/ \E t \in Tracks : ReceiveKick(t)

Leaves(s) == (\E R \in SUBSET Tracks : Enriched(s, R)) \/ WriteFailure(s) \/ GivenUp(s)

Next ==
  \/ \E t \in Tracks : Ingest(t) \/ LeaseExpires(t)
  \/ Loop
  \/ \E s \in Slots : RunFails(s) \/ Leaves(s)
  \/ Crash
  \/ \E T \in SUBSET Tracks : Retry(T)

Spec == Init /\ [][Next]_vars

\* The loop and the tick go on, a run ends or is timed out, a lease runs out; a
\* track that is due again and again is in some batch.
FairSpec ==
  /\ Spec
  /\ WF_vars(Tick)
  /\ WF_vars(\E T \in SUBSET Tracks : Refill(T))
  /\ WF_vars(\E i \in buffer, s \in Slots : Dispatch(i, s))
  /\ \A s \in Slots : WF_vars(Leaves(s) \/ RunFails(s))
  /\ \A t \in Tracks :
       /\ WF_vars(LeaseExpires(t))
       /\ SF_vars(\E T \in SUBSET Tracks : t \in T /\ Refill(T))

-----------------------------------------------------------------------------
(* Properties.                                                                 *)

\* One item of a track is in hand at a time (claim-with-lease, work/mod.rs), whatever
\* batches, kicks, timeouts, crashes and admins do, as long as no item is in hand for
\* longer than its lease and no admin takes one out of hand.
OneRunPerTrack ==
  /\ \A s, z \in Running : slots[s].track = slots[z].track => s = z
  /\ \A i \in buffer : \A s \in Running : i.track # slots[s].track
  /\ \A i, j \in buffer : i.track = j.track => i = j

\* "A claimed row instantly has a positive backoff window; the attempts = 0
\* republish loop cannot be expressed" (work/mod.rs): whatever resets the attempts
\* clears the lease with them.
LockedIsCounted == \A t \in Tracks : rows[t].lock # "none" => rows[t].attempts >= 1

\* A track is dead only when its attempts are spent: on_failure decides by the count
\* its claim returned, while claims, resets and other runs change the row's.
DeadIsSpent == \A t \in Tracks : rows[t].state = "dead" => rows[t].attempts = MaxAttempts

\* No track waits for ever, its kick dropped or its item lost with the process: it is
\* claimed again until it is done or its attempts are spent, unless an admin resets
\* it for ever.
Reset(t) == \E T \in SUBSET Tracks : t \in T /\ Retry(T)

TracksEnd ==
  \A t \in Tracks : (Waiting(t) ~> ~Waiting(t)) \/ []<><<Reset(t)>>_vars

\* "mark_failed would clobber another's lock" (dispatch): the failure of a run ends a
\* lease only when the run was claimed under that lease.
LeaseStep ==
  \A t \in Tracks :
    rows[t].lock = "live" /\ rows'[t].lock = "none" /\ rows'[t].state \in {"failed", "dead"}
    => \E s \in Running : slots[s].track = t /\ slots[s].holds /\ slots'[s] = NoItem

FailureKeepsLease == [][LeaseStep]_vars

=============================================================================
