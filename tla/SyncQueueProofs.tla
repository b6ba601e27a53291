--------------------------- MODULE SyncQueueProofs ---------------------------
(* What holds of the outbox for every set of workers, callers, targets and    *)
(* payloads: the inductive invariant behind the lease, and its consequences.  *)
EXTENDS SyncQueue, TLAPS

\* A worker holds a row at most once.
JobsDistinct ==
  \A i, j \in jobs : i.worker = j.worker /\ i.key = j.key => i = j

\* The rows of one flush pass the dedup together.
PhasesAgree ==
  \A i, j \in jobs : i.worker = j.worker => (i.phase = "picked" <=> j.phase = "picked")

IInv ==
  /\ TypeOK
  /\ JobsDistinct
  /\ PhasesAgree
  /\ BatchSerial
  /\ DeadRowsHoldNoLease
  /\ LeasedRowUntouched

-----------------------------------------------------------------------------
(* The statements keep a row a row.                                           *)

LEMMA RowTypes ==
  /\ \A id \in Ids, p \in Payloads \cup {NoPayload} : NewRow(id, p) \in Row
  /\ \A r \in Row : Unlocked(r) \in Row
  /\ \A r \in Row, p \in Payloads \cup {NoPayload} : Refreshed(r, p) \in Row
BY DEF NewRow, Unlocked, Refreshed, Row

LEMMA IdTypes == FreshIds # {} => FreshId \in Ids
BY DEF FreshIds, FreshId

LEMMA KeyTypes ==
  ASSUME NEW k \in Key, HasInverse(k)
  PROVE  InverseKey(k) \in Key
BY InverseAssumption DEF Key, HasInverse, InverseKey

-----------------------------------------------------------------------------
(* Type correctness.                                                          *)

LEMMA TypeNext == ASSUME TypeOK, Next PROVE TypeOK'
<1> USE DEF TypeOK
<1>1. ASSUME NEW c \in Callers, Enqueue(c) PROVE TypeOK'
  <2>1. ASSUME NEW k \in Key, NEW p \in PayloadFor(k[1]), BeginEnqueue(c, k, p)
        PROVE  TypeOK'
    BY <2>1 DEF BeginEnqueue, Call, PayloadFor
  <2>2. CASE CancelInverse(c)
    BY <2>2 DEF CancelInverse, Call
  <2>3. CASE InsertRow(c)
    <3> DEFINE k == calls[c].key
               p == calls[c].payload
    <3>1. k \in Key /\ p \in Payloads \cup {NoPayload}
      BY <2>3 DEF InsertRow, Call
    <3>2. PICK id \in Ids :
            queue' = [queue EXCEPT ![k] = IF @ = NoRow THEN NewRow(id, p)
                                                       ELSE Refreshed(@, p)]
      BY <2>3, IdTypes DEF InsertRow
    <3>3. queue' \in [Key -> Row \cup {NoRow}]
      BY <3>1, <3>2, RowTypes
    <3> QED
      BY <2>3, <3>3 DEF InsertRow
  <2>4. CASE DropCall(c)
    BY <2>4 DEF DropCall
  <2> QED
    BY <1>1, <2>1, <2>2, <2>3, <2>4 DEF Enqueue
<1>2. ASSUME NEW w \in Workers, Flush(w) PROVE TypeOK'
  <2>1. ASSUME NEW S \in SUBSET Key, Claim(w, S) PROVE TypeOK'
    <3>1. \A k \in S : queue[k] \in Row
      BY <2>1 DEF Claim, Claimable, Rows
    <3>2. \A k \in S : JobFor(w, k) \in Job
      BY <3>1 DEF JobFor, Job, Row
    <3>3. \A k \in S : [queue[k] EXCEPT !.lockedBy = w, !.live = TRUE] \in Row
      BY <3>1 DEF Row
    <3> QED
      BY <2>1, <3>2, <3>3 DEF Claim
  <2>2. ASSUME NEW K \in SUBSET jobs, Dedup(w, K) PROVE TypeOK'
    <3>1. \A j \in K : [j EXCEPT !.phase = "running"] \in Job
      BY DEF Job
    <3>2. \A ids : Release(ids) \in [Key -> Row \cup {NoRow}]
      BY RowTypes DEF Release
    <3> QED
      BY <2>2, <3>1, <3>2 DEF Dedup
  <2>3. CASE WorkerLost(w)
    BY <2>3 DEF WorkerLost
  <2> QED
    BY <1>2, <2>1, <2>2, <2>3 DEF Flush
<1>3. ASSUME NEW j \in jobs, AttemptOk(j) \/ AttemptFails(j) \/ Settle(j)
      PROVE  TypeOK'
  <2>1. CASE AttemptOk(j) \/ AttemptFails(j)
    BY <2>1 DEF AttemptOk, AttemptFails, SetPhase, Job
  <2>2. j.key \in Key /\ j.retries \in Nat
    BY DEF Job
  <2>3. \A r \in Row : UpdateById(j, r) \in [Key -> Row \cup {NoRow}]
    BY <2>2 DEF UpdateById
  <2>4. SameRow(j) => queue[j.key] \in Row
    BY <2>2 DEF SameRow
  <2>5. CASE DeleteIfUnchanged(j)
    BY <2>5 DEF DeleteIfUnchanged
  <2>6. CASE ExternalBackoff(j)
    BY <2>6, <2>3, <2>4, RowTypes DEF ExternalBackoff, UpdateById
  <2>7. CASE RetryBackoff(j)
    <3>1. SameRow(j) => [Unlocked(queue[j.key]) EXCEPT !.retries = @ + 1] \in Row
      BY <2>4, RowTypes DEF Row
    <3> QED
      BY <2>7, <3>1, <2>2 DEF RetryBackoff, UpdateById
  <2>8. CASE ParkDead(j)
    <3>1. \A r \in Row, n \in Nat : [r EXCEPT !.dead = TRUE, !.retries = n] \in Row
      BY DEF Row
    <3>2. j.retries + 1 \in Nat
      BY <2>2
    <3>3. SameRow(j) => [Unlocked(queue[j.key]) EXCEPT !.dead = TRUE,
                                                      !.retries = j.retries + 1] \in Row
      BY <2>4, <3>1, <3>2, RowTypes
    <3> QED
      BY <2>8, <3>3, <2>2 DEF ParkDead, UpdateById
  <2>9. CASE SettleFails(j)
    BY <2>9 DEF SettleFails
  <2> QED
    BY <1>3, <2>1, <2>5, <2>6, <2>7, <2>8, <2>9 DEF Settle
<1>4. CASE Maintain
  <2>1. ASSUME NEW k \in Key, LeaseExpires(k) PROVE TypeOK'
    BY <2>1 DEF LeaseExpires, Leased, Row
  <2>2. ASSUME NEW k \in Key, Heal(k) PROVE TypeOK'
    <3>1. PICK id \in Ids :
            queue' = [queue EXCEPT ![k] =
                        IF @ = NoRow THEN NewRow(id, NoPayload)
                        ELSE [Unlocked(@) EXCEPT !.dead = FALSE, !.retries = 0]]
      BY <2>2, IdTypes DEF Heal
    <3>2. \A r \in Row : [Unlocked(r) EXCEPT !.dead = FALSE, !.retries = 0] \in Row
      BY RowTypes DEF Row
    <3>3. queue' \in [Key -> Row \cup {NoRow}]
      BY <3>1, <3>2, RowTypes
    <3> QED
      BY <2>2, <3>3 DEF Heal
  <2>3. ASSUME NEW k \in Key, DeleteOldDead(k) PROVE TypeOK'
    BY <2>3 DEF DeleteOldDead
  <2>4. CASE AdminFlush
    BY <2>4, RowTypes DEF AdminFlush
  <2>5. ASSUME NEW n \in 1..MaxRetries, AdminPurge(n) PROVE TypeOK'
    BY <2>5 DEF AdminPurge
  <2> QED
    BY <1>4, <2>1, <2>2, <2>3, <2>4, <2>5 DEF Maintain
<1> QED
  BY <1>1, <1>2, <1>3, <1>4 DEF Next

\* The variables always hold rows, jobs and calls of their declared shapes.
THEOREM TypeCorrect == Spec => []TypeOK
<1>1. Init => TypeOK
  BY DEF Init, TypeOK
<1>2. TypeOK /\ [Next]_vars => TypeOK'
  BY TypeNext DEF vars, TypeOK
<1> QED
  BY <1>1, <1>2, PTL DEF Spec

-----------------------------------------------------------------------------
(* The lease.  Apart from the claim, every statement leaves a row as it is,   *)
(* removes it, leaves it unlocked, or lets its lease lapse.                   *)

Settles(k) ==
  \/ queue'[k] = queue[k]
  \/ queue'[k] = NoRow
  \/ queue'[k] \in Row /\ queue'[k].lockedBy = Nobody
  \/ queue[k] \in Row /\ queue'[k] = [queue[k] EXCEPT !.live = FALSE]

\* Every job of the next state is a job of this one, its phase aside.
JobsStem ==
  \A j \in jobs' : \E i \in jobs :
    /\ i.worker = j.worker /\ i.key = j.key /\ i.id = j.id
    /\ i.payload = j.payload /\ i.retries = j.retries

LEMMA RowShapes ==
  /\ \A id, p : NewRow(id, p).lockedBy = Nobody /\ ~NewRow(id, p).dead
  /\ \A r \in Row : Unlocked(r).lockedBy = Nobody
  /\ \A r \in Row : \A p : Refreshed(r, p).lockedBy = Nobody
BY DEF NewRow, Unlocked, Refreshed, Row

LEMMA LeaseKept ==
  ASSUME IInv, TypeOK', JobsStem, \A k \in Key : Settles(k)
  PROVE  DeadRowsHoldNoLease' /\ LeasedRowUntouched'
<1> USE NullAssumption, NobodyAssumption DEF IInv, TypeOK
<1>1. ASSUME NEW k \in Key, queue'[k] # NoRow, queue'[k].dead
      PROVE  queue'[k].lockedBy = Nobody
  <2>1. CASE queue'[k] = queue[k]
    BY <1>1, <2>1 DEF DeadRowsHoldNoLease, Rows
  <2>2. CASE queue[k] \in Row /\ queue'[k] = [queue[k] EXCEPT !.live = FALSE]
    <3>1. queue[k].dead /\ queue'[k].lockedBy = queue[k].lockedBy
      BY <1>1, <2>2 DEF Row
    <3> QED
      BY <2>2, <3>1 DEF DeadRowsHoldNoLease, Rows
  <2> QED
    BY <1>1, <2>1, <2>2 DEF Settles
<1>2. ASSUME NEW j \in jobs', StillOwned(j)'
      PROVE  /\ queue'[j.key].payload = j.payload
             /\ queue'[j.key].retries = j.retries
             /\ ~queue'[j.key].dead
  <2>1. j \in Job /\ j.key \in Key /\ j.worker # Nobody
    BY DEF Job
  <2>2. PICK i \in jobs : /\ i.worker = j.worker /\ i.key = j.key /\ i.id = j.id
                          /\ i.payload = j.payload /\ i.retries = j.retries
    BY DEF JobsStem
  <2>3. /\ queue'[j.key] # NoRow
        /\ queue'[j.key].id = j.id
        /\ queue'[j.key].lockedBy = j.worker
    BY <1>2 DEF StillOwned, SameRow
  <2>4. CASE queue'[j.key] = queue[j.key]
    BY <2>2, <2>3, <2>4 DEF LeasedRowUntouched, StillOwned, SameRow
  <2>5. CASE /\ queue[j.key] \in Row
             /\ queue'[j.key] = [queue[j.key] EXCEPT !.live = FALSE]
    <3>1. /\ queue'[j.key].id = queue[j.key].id
          /\ queue'[j.key].lockedBy = queue[j.key].lockedBy
          /\ queue'[j.key].payload = queue[j.key].payload
          /\ queue'[j.key].retries = queue[j.key].retries
          /\ queue'[j.key].dead = queue[j.key].dead
      BY <2>5 DEF Row
    <3>2. StillOwned(i)
      BY <2>2, <2>3, <2>5, <3>1 DEF StillOwned, SameRow
    <3> QED
      BY <2>2, <3>1, <3>2 DEF LeasedRowUntouched
  <2> QED
    BY <2>1, <2>3, <2>4, <2>5 DEF Settles
<1> QED
  BY <1>1, <1>2 DEF DeadRowsHoldNoLease, LeasedRowUntouched, Rows

LEMMA JobsSame ==
  ASSUME IInv, TypeOK', UNCHANGED jobs, \A k \in Key : Settles(k)
  PROVE  IInv'
<1>1. JobsStem
  BY DEF JobsStem
<1>2. JobsDistinct' /\ PhasesAgree' /\ BatchSerial'
  BY DEF IInv, JobsDistinct, PhasesAgree, BatchSerial
<1> QED
  BY <1>1, <1>2, LeaseKept DEF IInv

\* A flush settles a job, or advances it past "running".
LEMMA JobMoves ==
  ASSUME IInv, TypeOK', NEW j \in jobs, j.phase # "picked",
         \/ jobs' = jobs \ {j}
         \/ \E ph \in {"ok", "failed"} : SetPhase(j, ph),
         \A k \in Key : Settles(k)
  PROVE  IInv'
<1>1. j \in Job
  BY DEF IInv, TypeOK
<1>2. PICK m : /\ jobs' \subseteq (jobs \ {j}) \cup {m}
               /\ m.worker = j.worker /\ m.key = j.key /\ m.id = j.id
               /\ m.payload = j.payload /\ m.retries = j.retries
               /\ m.phase # "picked"
  <2>1. CASE jobs' = jobs \ {j}
    BY <2>1
  <2>2. ASSUME NEW ph \in {"ok", "failed"}, SetPhase(j, ph)
        PROVE  \E m : /\ jobs' \subseteq (jobs \ {j}) \cup {m}
                      /\ m.worker = j.worker /\ m.key = j.key /\ m.id = j.id
                      /\ m.payload = j.payload /\ m.retries = j.retries
                      /\ m.phase # "picked"
    <3> DEFINE n == [j EXCEPT !.phase = ph]
    <3>1. /\ n.worker = j.worker /\ n.key = j.key /\ n.id = j.id
          /\ n.payload = j.payload /\ n.retries = j.retries
          /\ n.phase # "picked"
      BY <1>1 DEF Job
    <3>2. jobs' \subseteq (jobs \ {j}) \cup {n}
      BY <2>2 DEF SetPhase
    <3> HIDE DEF n
    <3> QED
      BY <3>1, <3>2
  <2> QED
    BY <2>1, <2>2
<1>3. JobsStem
  BY <1>2 DEF JobsStem
<1>4. JobsDistinct /\ PhasesAgree /\ BatchSerial
  BY DEF IInv
<1>5. JobsDistinct'
  BY <1>2, <1>4 DEF JobsDistinct
<1>6. PhasesAgree'
  BY <1>2, <1>4 DEF PhasesAgree
<1>7. BatchSerial'
  BY <1>2, <1>4 DEF BatchSerial
<1> QED
  BY <1>3, <1>5, <1>6, <1>7, LeaseKept DEF IInv

LEMMA ClaimKeeps ==
  ASSUME IInv, TypeOK', NEW w \in Workers, NEW S \in SUBSET Key, Claim(w, S)
  PROVE  IInv'
<1> USE DEF IInv, TypeOK
<1>1. \A k \in S : /\ queue[k] \in Row /\ ~queue[k].dead
                   /\ queue'[k] = [queue[k] EXCEPT !.lockedBy = w, !.live = TRUE]
  BY DEF Claim, Claimable, Rows
<1>2. \A k \in S : /\ queue'[k].lockedBy = w
                   /\ queue'[k].payload = queue[k].payload
                   /\ queue'[k].retries = queue[k].retries
                   /\ queue'[k].dead = queue[k].dead
  BY <1>1 DEF Row
<1>3. \A k \in Key \ S : queue'[k] = queue[k]
  BY DEF Claim
<1>4. \A j \in jobs : j.worker # w
  BY DEF Claim
<1>5. \A k \in S : /\ JobFor(w, k).worker = w /\ JobFor(w, k).key = k
                   /\ JobFor(w, k).payload = queue[k].payload
                   /\ JobFor(w, k).retries = queue[k].retries
                   /\ JobFor(w, k).phase = "picked"
  BY DEF JobFor
<1>6. \A j \in jobs' : j \in jobs \/ \E k \in S : j = JobFor(w, k)
  BY DEF Claim
<1>7. JobsDistinct'
  BY <1>4, <1>5, <1>6 DEF JobsDistinct
<1>8. PhasesAgree'
  BY <1>4, <1>5, <1>6 DEF PhasesAgree
<1>9. BatchSerial'
  BY <1>5, <1>6 DEF BatchSerial
<1>10. DeadRowsHoldNoLease'
  BY <1>1, <1>2, <1>3 DEF DeadRowsHoldNoLease, Rows
<1>11. ASSUME NEW j \in jobs', StillOwned(j)'
       PROVE  /\ queue'[j.key].payload = j.payload
              /\ queue'[j.key].retries = j.retries
              /\ ~queue'[j.key].dead
  <2>1. CASE j \in jobs
    <3>1. j.key \in Key \ S
      BY <1>2, <1>4, <1>11, <2>1 DEF StillOwned, Job
    <3> QED
      BY <1>3, <1>11, <2>1, <3>1 DEF LeasedRowUntouched, StillOwned, SameRow
  <2>2. ASSUME NEW k \in S, j = JobFor(w, k)
        PROVE  /\ queue'[j.key].payload = j.payload
               /\ queue'[j.key].retries = j.retries
               /\ ~queue'[j.key].dead
    BY <1>1, <1>2, <1>5, <2>2
  <2> QED
    BY <1>6, <2>1, <2>2
<1> QED
  BY <1>7, <1>8, <1>9, <1>10, <1>11 DEF LeasedRowUntouched

LEMMA DedupKeeps ==
  ASSUME IInv, TypeOK', NEW w \in Workers, NEW K \in SUBSET jobs, Dedup(w, K)
  PROVE  IInv'
<1> DEFINE Run(j) == [j EXCEPT !.phase = "running"]
<1>1. /\ jobs \subseteq Job /\ queue \in [Key -> Row \cup {NoRow}]
      /\ JobsDistinct /\ PhasesAgree /\ BatchSerial
  BY DEF IInv, TypeOK
<1>2. \A j \in jobs : j.worker = w => j \in Picked(w)
  BY <1>1 DEF Dedup, Picked, PhasesAgree
<1>3. /\ K \subseteq Picked(w)
      /\ \A i, j \in K : i.key[2] = j.key[2] => i = j
  BY DEF Dedup, OnePerTarget
<1>4. \A j \in K : /\ Run(j).worker = w /\ Run(j).key = j.key
                   /\ Run(j).id = j.id /\ Run(j).payload = j.payload
                   /\ Run(j).retries = j.retries /\ Run(j).phase = "running"
                   /\ j.worker = w
  BY <1>1, <1>3 DEF Job, Picked
<1>5. \A j \in jobs' : \/ j \in jobs /\ j.worker # w
                       \/ \E i \in K : j = Run(i)
  BY <1>2 DEF Dedup
<1> HIDE DEF Run
<1>6. JobsStem
  BY <1>4, <1>5 DEF JobsStem
<1>7. JobsDistinct' /\ BatchSerial'
  <2>1. ASSUME NEW i \in jobs', NEW j \in jobs', i.worker = j.worker,
               \/ i.key = j.key
               \/ i.phase # "picked" /\ j.phase # "picked" /\ i.key[2] = j.key[2]
        PROVE  i = j
    <3>1. CASE i.worker = w
      <4>1. PICK i0 \in K, j0 \in K : i = Run(i0) /\ j = Run(j0)
        BY <1>5, <2>1, <3>1
      <4>2. i0.key = i.key /\ j0.key = j.key
        BY <1>4, <4>1
      <4>3. i.key[2] = j.key[2]
        BY <2>1
      <4>4. i0 = j0
        BY <1>3, <4>2, <4>3
      <4> QED
        BY <4>1, <4>4
    <3>2. CASE i.worker # w
      <4>1. i \in jobs /\ j \in jobs
        BY <1>4, <1>5, <2>1, <3>2
      <4> QED
        BY <1>1, <2>1, <4>1 DEF JobsDistinct, BatchSerial
    <3> QED
      BY <3>1, <3>2
  <2> QED
    BY <2>1 DEF JobsDistinct, BatchSerial
<1>8. PhasesAgree'
  BY <1>1, <1>4, <1>5 DEF PhasesAgree
<1>9. ASSUME NEW k \in Key PROVE Settles(k)
  <2>1. \A ids : \/ Release(ids)[k] = queue[k]
                 \/ queue[k] \in Row /\ Release(ids)[k] = Unlocked(queue[k])
    BY <1>1 DEF Release
  <2> QED
    BY <2>1, RowTypes, RowShapes DEF Dedup, Settles
<1> QED
  BY <1>6, <1>7, <1>8, <1>9, LeaseKept DEF IInv

-----------------------------------------------------------------------------
(* Every action keeps the invariant.                                          *)

LEMMA EnqueueKeeps ==
  ASSUME IInv, TypeOK', NEW c \in Callers, Enqueue(c)
  PROVE  IInv'
<1> USE DEF IInv, TypeOK
<1>1. ASSUME NEW k \in Key PROVE Settles(k)
  <2>1. CASE InsertRow(c)
    <3> DEFINE kc == calls[c].key
               p  == calls[c].payload
    <3>1. kc \in Key /\ p \in Payloads \cup {NoPayload}
      BY <2>1 DEF InsertRow, Call
    <3>2. PICK id \in Ids :
            queue' = [queue EXCEPT ![kc] = IF @ = NoRow THEN NewRow(id, p)
                                                        ELSE Refreshed(@, p)]
      BY <2>1, IdTypes DEF InsertRow
    <3> QED
      BY <3>1, <3>2, RowTypes, RowShapes DEF Settles
  <2>2. CASE CancelInverse(c)
    BY <2>2 DEF CancelInverse, Settles
  <2>3. CASE UNCHANGED queue
    BY <2>3 DEF Settles
  <2> QED
    BY <2>1, <2>2, <2>3 DEF Enqueue, BeginEnqueue, DropCall
<1>2. UNCHANGED jobs
  BY DEF Enqueue, BeginEnqueue, CancelInverse, InsertRow, DropCall
<1> QED
  BY <1>1, <1>2, JobsSame

LEMMA SettleKeeps ==
  ASSUME IInv, TypeOK', NEW j \in jobs, AttemptOk(j) \/ AttemptFails(j) \/ Settle(j)
  PROVE  IInv'
<1> USE DEF IInv, TypeOK
<1>1. j \in Job /\ j.key \in Key
  BY DEF Job
<1>2. SameRow(j) => queue[j.key] \in Row
  BY <1>1 DEF SameRow
<1>3. ASSUME NEW k \in Key PROVE Settles(k)
  <2>1. CASE UNCHANGED queue
    BY <2>1 DEF Settles
  <2>2. CASE DeleteIfUnchanged(j)
    BY <2>2 DEF DeleteIfUnchanged, Settles
  <2>3. ASSUME NEW r, queue' = UpdateById(j, r), SameRow(j) => r.lockedBy = Nobody
        PROVE  Settles(k)
    BY <1>1, <2>3 DEF UpdateById, Settles
  <2>4. CASE ExternalBackoff(j)
    BY <1>2, <2>3, <2>4, RowShapes DEF ExternalBackoff
  <2>5. CASE RetryBackoff(j)
    <3>1. \A r \in Row : [Unlocked(r) EXCEPT !.retries = @ + 1].lockedBy = Nobody
      BY RowTypes, RowShapes DEF Row
    <3> QED
      BY <1>2, <2>3, <2>5, <3>1 DEF RetryBackoff
  <2>6. CASE ParkDead(j)
    <3>1. \A r \in Row : \A n :
            [Unlocked(r) EXCEPT !.dead = TRUE, !.retries = n].lockedBy = Nobody
      BY RowTypes, RowShapes DEF Row
    <3> QED
      BY <1>2, <2>3, <2>6, <3>1 DEF ParkDead
  <2> QED
    BY <2>1, <2>2, <2>4, <2>5, <2>6
       DEF AttemptOk, AttemptFails, Settle, SettleFails
<1>4. /\ j.phase # "picked"
      /\ \/ jobs' = jobs \ {j}
         \/ \E ph \in {"ok", "failed"} : SetPhase(j, ph)
  BY DEF AttemptOk, AttemptFails, Settle, DeleteIfUnchanged, ExternalBackoff,
         RetryBackoff, ParkDead, SettleFails
<1> QED
  BY <1>3, <1>4, JobMoves

LEMMA WorkerLostKeeps ==
  ASSUME IInv, TypeOK', NEW w \in Workers, WorkerLost(w)
  PROVE  IInv'
<1>1. jobs' \subseteq jobs /\ \A k \in Key : Settles(k)
  BY DEF WorkerLost, Settles
<1>2. JobsStem
  BY <1>1 DEF JobsStem
<1>3. JobsDistinct' /\ PhasesAgree' /\ BatchSerial'
  BY <1>1 DEF IInv, JobsDistinct, PhasesAgree, BatchSerial
<1> QED
  BY <1>1, <1>2, <1>3, LeaseKept DEF IInv

LEMMA MaintainKeeps ==
  ASSUME IInv, TypeOK', Maintain
  PROVE  IInv'
<1> USE DEF IInv, TypeOK
<1>1. UNCHANGED jobs
  BY DEF Maintain, LeaseExpires, Heal, DeleteOldDead, AdminFlush, AdminPurge
<1>2. ASSUME NEW k \in Key PROVE Settles(k)
  <2>1. ASSUME NEW l \in Key, LeaseExpires(l) PROVE Settles(k)
    BY <2>1 DEF LeaseExpires, Leased, Settles
  <2>2. ASSUME NEW l \in Key, Heal(l) PROVE Settles(k)
    <3>1. PICK id \in Ids :
            queue' = [queue EXCEPT ![l] =
                        IF @ = NoRow THEN NewRow(id, NoPayload)
                        ELSE [Unlocked(@) EXCEPT !.dead = FALSE, !.retries = 0]]
      BY <2>2, IdTypes DEF Heal
    <3>2. \A r \in Row :
            [Unlocked(r) EXCEPT !.dead = FALSE, !.retries = 0].lockedBy = Nobody
      BY RowTypes, RowShapes DEF Row
    <3>3. \A r \in Row : [Unlocked(r) EXCEPT !.dead = FALSE, !.retries = 0] \in Row
      BY RowTypes DEF Row
    <3> QED
      BY <3>1, <3>2, <3>3, RowTypes, RowShapes DEF Settles
  <2>3. ASSUME NEW l \in Key, DeleteOldDead(l) PROVE Settles(k)
    BY <2>3 DEF DeleteOldDead, Settles
  <2>4. CASE AdminFlush
    BY <2>4, RowTypes, RowShapes DEF AdminFlush, Settles
  <2>5. ASSUME NEW n \in 1..MaxRetries, AdminPurge(n) PROVE Settles(k)
    BY <2>5 DEF AdminPurge, Settles
  <2> QED
    BY <2>1, <2>2, <2>3, <2>4, <2>5 DEF Maintain
<1> QED
  BY <1>1, <1>2, JobsSame

LEMMA IInvNext == ASSUME IInv, Next PROVE IInv'
<1>1. TypeOK'
  BY TypeNext DEF IInv
<1>2. ASSUME NEW w \in Workers, Flush(w) PROVE IInv'
  BY <1>1, <1>2, ClaimKeeps, DedupKeeps, WorkerLostKeeps DEF Flush
<1> QED
  BY <1>1, <1>2, EnqueueKeeps, SettleKeeps, MaintainKeeps DEF Next

\* The inductive invariant, from which the theorems below follow.
THEOREM Inductive == Spec => []IInv
<1>1. Init => IInv
  <2> SUFFICES ASSUME Init PROVE IInv
    OBVIOUS
  <2>1. TypeOK
    BY DEF Init, TypeOK
  <2>2. jobs = {} /\ Rows = {}
    BY DEF Init, Rows
  <2> QED
    BY <2>1, <2>2 DEF IInv, JobsDistinct, PhasesAgree, BatchSerial,
                      DeadRowsHoldNoLease, LeasedRowUntouched
<1>2. IInv /\ [Next]_vars => IInv'
  <2> SUFFICES ASSUME IInv, UNCHANGED vars PROVE IInv'
    BY IInvNext
  <2> QED
    BY DEF IInv, vars, TypeOK, JobsDistinct, PhasesAgree, BatchSerial,
           DeadRowsHoldNoLease, LeasedRowUntouched, Rows, StillOwned, SameRow
<1> QED
  BY <1>1, <1>2, PTL DEF Spec

-----------------------------------------------------------------------------
(* What the lease gives.                                                      *)

\* A row that a flush still owns has not changed since the flush claimed it:
\* the optimistic delete cannot lose an edit, with any number of processes.
THEOREM LeaseSafety == Spec => []LeasedRowUntouched
<1>1. IInv => LeasedRowUntouched
  BY DEF IInv
<1> QED
  BY <1>1, Inductive, PTL

\* One flush runs at most one row of a user and target.
THEOREM BatchSerialised == Spec => []BatchSerial
<1>1. IInv => BatchSerial
  BY DEF IInv
<1> QED
  BY <1>1, Inductive, PTL

\* A parked row never blocks the claims of its target.
THEOREM DeadNoLease == Spec => []DeadRowsHoldNoLease
<1>1. IInv => DeadRowsHoldNoLease
  BY DEF IInv
<1> QED
  BY <1>1, Inductive, PTL

LEMMA RowsLeaveNext == ASSUME IInv, Next PROVE RowsLeaveStep
<1> USE NullAssumption DEF IInv, TypeOK
<1> SUFFICES ASSUME NEW k \in Key, queue[k] # NoRow, queue'[k] = NoRow
             PROVE  \/ jobs' = jobs /\ (queue[k].lockedBy = Nobody \/ queue[k].retries >= 1)
                    \/ \E j \in jobs \ jobs' :
                         j.key = k /\ j.phase = "ok" /\ j.payload = queue[k].payload
  BY DEF RowsLeaveStep
<1>1. queue[k] \in Row
  OBVIOUS
<1>2. ASSUME NEW c \in Callers, Enqueue(c)
      PROVE  jobs' = jobs /\ queue[k].lockedBy = Nobody
  <2>1. CASE CancelInverse(c)
    BY <2>1 DEF CancelInverse, Cancellable
  <2>2. CASE InsertRow(c)
    <3>1. calls[c].key \in Key /\ calls[c].payload \in Payloads \cup {NoPayload}
      BY <2>2 DEF InsertRow, Call
    <3> QED
      BY <1>1, <2>2, <3>1, IdTypes, RowTypes DEF InsertRow
  <2> QED
    BY <1>2, <2>1, <2>2 DEF Enqueue, BeginEnqueue, DropCall
<1>3. ASSUME NEW w \in Workers, Flush(w) PROVE FALSE
  <2>1. ASSUME NEW S \in SUBSET Key, Claim(w, S) PROVE FALSE
    <3>1. [queue[k] EXCEPT !.lockedBy = w, !.live = TRUE] \in Row
      BY <1>1 DEF Row
    <3> QED
      BY <2>1, <3>1 DEF Claim
  <2>2. ASSUME NEW K \in SUBSET jobs, Dedup(w, K) PROVE FALSE
    BY <1>1, <2>2, RowTypes DEF Dedup, Release
  <2> QED
    BY <1>3, <2>1, <2>2 DEF Flush, WorkerLost
<1>4. ASSUME NEW j \in jobs, AttemptOk(j) \/ AttemptFails(j) \/ Settle(j)
      PROVE  \E i \in jobs \ jobs' :
               i.key = k /\ i.phase = "ok" /\ i.payload = queue[k].payload
  <2>1. j \in Job /\ j.key \in Key
    BY DEF Job
  <2>2. CASE DeleteIfUnchanged(j)
    <3>1. StillOwned(j) /\ j.key = k
      BY <2>1, <2>2 DEF DeleteIfUnchanged
    <3> QED
      BY <2>2, <3>1 DEF DeleteIfUnchanged, LeasedRowUntouched
  <2>3. ASSUME NEW r \in Row, queue' = UpdateById(j, r) PROVE FALSE
    BY <2>1, <2>3 DEF UpdateById
  <2>4. ~SameRow(j) => \A r : UpdateById(j, r) = queue
    BY DEF UpdateById
  <2>5. SameRow(j) => queue[j.key] \in Row
    BY <2>1 DEF SameRow
  <2>6. CASE ExternalBackoff(j)
    BY <2>3, <2>4, <2>5, <2>6, RowTypes DEF ExternalBackoff
  <2>7. CASE RetryBackoff(j)
    <3>1. \A r \in Row : [Unlocked(r) EXCEPT !.retries = @ + 1] \in Row
      BY RowTypes DEF Row
    <3> QED
      BY <2>3, <2>4, <2>5, <2>7, <3>1 DEF RetryBackoff
  <2>8. CASE ParkDead(j)
    <3>1. \A r \in Row, n \in Nat :
            [Unlocked(r) EXCEPT !.dead = TRUE, !.retries = n] \in Row
      BY RowTypes DEF Row
    <3>2. j.retries + 1 \in Nat
      BY <2>1 DEF Job
    <3> QED
      BY <2>3, <2>4, <2>5, <2>8, <3>1, <3>2 DEF ParkDead
  <2> QED
    BY <1>4, <2>2, <2>6, <2>7, <2>8 DEF AttemptOk, AttemptFails, Settle, SettleFails
<1>5. CASE Maintain
  <2>1. ASSUME NEW l \in Key, LeaseExpires(l) PROVE FALSE
    <3>1. [queue[k] EXCEPT !.live = FALSE] \in Row
      BY <1>1 DEF Row
    <3> QED
      BY <2>1, <3>1 DEF LeaseExpires
  <2>2. ASSUME NEW l \in Key, Heal(l) PROVE FALSE
    <3>1. [Unlocked(queue[k]) EXCEPT !.dead = FALSE, !.retries = 0] \in Row
      BY <1>1, RowTypes DEF Row
    <3> QED
      BY <2>2, <3>1, IdTypes, RowTypes DEF Heal
  <2>3. ASSUME NEW l \in Key, DeleteOldDead(l)
        PROVE  queue[k].lockedBy = Nobody /\ jobs' = jobs
    BY <2>3 DEF DeleteOldDead, DeadRowsHoldNoLease, Rows
  <2>4. ASSUME AdminFlush PROVE FALSE
    BY <1>1, <2>4, RowTypes DEF AdminFlush
  <2>5. ASSUME NEW n \in 1..MaxRetries, AdminPurge(n)
        PROVE  queue[k].retries >= 1 /\ jobs' = jobs
    <3>1. queue[k].retries >= n
      BY <2>5 DEF AdminPurge
    <3>2. queue[k].retries \in Nat /\ MaxRetries \in Nat
      BY <1>1, RetryAssumption DEF Row
    <3> QED
      BY <2>5, <3>1, <3>2 DEF AdminPurge
  <2> QED
    BY <1>5, <2>1, <2>2, <2>3, <2>4, <2>5 DEF Maintain
<1> QED
  BY <1>2, <1>3, <1>4, <1>5 DEF Next

\* Rows leave the outbox only unclaimed, purged after a failure, or delivered
\* with the payload they hold.
THEOREM RowsLeave == Spec => RowsLeaveSafely
<1>1. IInv /\ [Next]_vars => [RowsLeaveStep]_vars
  BY RowsLeaveNext
<1> QED
  BY <1>1, Inductive, PTL DEF Spec, RowsLeaveSafely

=============================================================================
