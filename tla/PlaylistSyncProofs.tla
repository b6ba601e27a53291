-------------------------- MODULE PlaylistSyncProofs --------------------------
(* Playlists use the outbox as SyncQueue allows; a pending edit is kept, and   *)
(* an edit is marked as synced only when its list was sent, whatever number of *)
(* flushing processes, requests and refreshes there are.                       *)
EXTENDS PlaylistSync, SyncQueueProofs

LEMMA SyncActions ==
  /\ Sync \in Actions
  /\ \A p \in Targets : <<Sync, p>> \in Key
  /\ \A a \in Actions : PayloadFor(a) = {NoPayload}
BY SyncAssumption DEF PayloadFor, Key

LEMMA TargetTypes ==
  /\ \A j \in Job : j.key[2] \in Targets
  /\ \A x \in Push : x.job.key[2] \in Targets
BY DEF Job, Push, Key

\* Every step of the playlists is a step of the outbox, or leaves it as it is.
LEMMA PlaylistStepImplements ==
  ASSUME PlaylistTypeOK, PlaylistNext
  PROVE  Next \/ UNCHANGED vars
<1> USE SyncActions, TargetTypes DEF PlaylistTypeOK
<1>1. ASSUME NEW c \in Callers, RequestSteps(c) PROVE Next \/ UNCHANGED vars
  <2>1. CASE \E p \in Targets : BeginRead(c, p) \/ BeginEdit(c, p)
    BY <2>1 DEF BeginRead, BeginEdit, Begin
  <2>2. CASE TryLock(c) \/ Fetch(c) \/ Guard(c) \/ ReplaceTracks(c)
    BY <2>2 DEF TryLock, Fetch, Guard, ReplaceTracks
  <2>3. CASE MutateDesired(c)
    <3> DEFINE k == <<Sync, requests[c].target>>
    <3>1. requests[c].target \in Targets
      BY <2>3 DEF MutateDesired, At, Request
    <3>2. k \in Key /\ NoPayload \in PayloadFor(k[1])
      BY <3>1
    <3>3. BeginEnqueue(c, k, NoPayload)
      BY <2>3 DEF MutateDesired
    <3>4. Enqueue(c)
      BY <3>2, <3>3 DEF Enqueue
    <3> QED
      BY <3>4 DEF Next
  <2>4. CASE InEnqueue(c)
    BY <2>4 DEF InEnqueue, Enqueue, Next
  <2>5. CASE DropRequest(c)
    BY <2>5 DEF DropRequest, Enqueue, Next
  <2> QED
    BY <1>1, <2>1, <2>2, <2>3, <2>4, <2>5 DEF RequestSteps
<1>2. ASSUME NEW w \in Workers, FlushSteps(w) PROVE Next
  BY <1>2 DEF FlushSteps, Flush, Next
<1>3. ASSUME NEW j \in jobs, ReadRev(j) \/ PushFails(j) \/ Finish(j)
      PROVE  Next \/ UNCHANGED vars
  <2>1. CASE ReadRev(j)
    BY <2>1 DEF ReadRev
  <2>2. CASE PushFails(j)
    BY <2>2 DEF PushFails, Next
  <2>3. CASE Finish(j)
    BY <2>3 DEF Finish, Settle, Next
  <2> QED
    BY <1>3, <2>1, <2>2, <2>3
<1>4. ASSUME NEW x \in pushes, ReadIds(x) \/ ScTakes(x) \/ MarkSynced(x)
      PROVE  Next \/ UNCHANGED vars
  <2>1. CASE ReadIds(x) \/ ScTakes(x)
    BY <2>1 DEF ReadIds, ScTakes
  <2>2. CASE MarkSynced(x)
    <3>1. x.job \in jobs
      OBVIOUS
    <3> QED
      BY <2>2, <3>1 DEF MarkSynced, Next
  <2> QED
    BY <1>4, <2>1, <2>2
<1>5. ASSUME NEW p \in Targets, HealPlaylist(p) \/ LockExpires(p) \/ ScEdit(p)
      PROVE  Next \/ UNCHANGED vars
  BY <1>5 DEF HealPlaylist, LockExpires, ScEdit, Maintain, Next
<1>6. CASE Upkeep
  BY <1>6 DEF Upkeep, Maintain, Next
<1> QED
  BY <1>1, <1>2, <1>3, <1>4, <1>5, <1>6 DEF PlaylistNext

-----------------------------------------------------------------------------
(* Types.                                                                     *)

\* An attempt takes one snapshot.
OnePush == \A x, y \in pushes : x.job = y.job => x = y

LEMMA Advances ==
  ASSUME NEW x \in Push, NEW l \in Lists
  PROVE  LET y == [x EXCEPT !.sent = l, !.step = "ids"]
             z == [x EXCEPT !.step = "acked"]
         IN /\ y \in Push /\ y.job = x.job /\ y.rev = x.rev /\ y.sent = l
            /\ z \in Push /\ z.job = x.job /\ z.rev = x.rev /\ z.sent = x.sent
            /\ z.step = "acked"
BY DEF Push

\* Jobs that run are not touched by what the flush does to the others.
LEMMA PushesRun ==
  ASSUME PlaylistTypeOK, OnePush, PlaylistNext
  PROVE  /\ \A x \in pushes' : x.job \in jobs' /\ x.job.phase = "running"
         /\ OnePush'
<1> DEFINE Run == /\ \A x \in pushes' : x.job \in jobs' /\ x.job.phase = "running"
                  /\ OnePush'
<1> USE DEF PlaylistTypeOK, OnePush
<1>1. CASE UNCHANGED <<jobs, pushes>>
  BY <1>1
<1>2. ASSUME NEW w \in Workers, FlushSteps(w) PROVE Run
  <2>1. ASSUME NEW S \in SUBSET Key, Claim(w, S), UNCHANGED pushes PROVE Run
    BY <2>1 DEF Claim
  <2>2. ASSUME NEW K \in SUBSET jobs, Dedup(w, K), UNCHANGED pushes PROVE Run
    BY <2>2 DEF Dedup, Picked
  <2>3. CASE WorkerLost(w) /\ pushes' = {x \in pushes : x.job.worker # w}
    BY <2>3 DEF WorkerLost
  <2> QED
    BY <1>2, <2>1, <2>2, <2>3 DEF FlushSteps, playlistVars
<1>3. ASSUME NEW j \in jobs, ReadRev(j) \/ PushFails(j) \/ Finish(j) PROVE Run
  <2>1. CASE ReadRev(j)
    BY <2>1 DEF ReadRev, vars
  <2>2. CASE PushFails(j)
    BY <2>2 DEF PushFails, AttemptFails, SetPhase
  <2>3. CASE Finish(j)
    BY <2>3 DEF Finish, DeleteIfUnchanged, ExternalBackoff, RetryBackoff, ParkDead,
                SettleFails, playlistVars
  <2> QED
    BY <1>3, <2>1, <2>2, <2>3
<1>4. ASSUME NEW x \in pushes, ReadIds(x) \/ ScTakes(x) PROVE Run
  <2>1. tracks[x.job.key[2]] \in Lists
    BY TargetTypes
  <2>2. ASSUME NEW y, Advance(x, y), y.job = x.job, jobs' = jobs PROVE Run
    <3>1. \A z \in pushes' : z = y \/ (z \in pushes /\ z # x)
      BY <2>2 DEF Advance
    <3>2. \A z \in pushes' : z.job \in jobs' /\ z.job.phase = "running"
      BY <2>2, <3>1
    <3>3. \A z \in pushes' : z.job = x.job => z = y
      BY <3>1
    <3>4. \A z1, z2 \in pushes' : z1.job = z2.job => z1 = z2
      BY <2>2, <3>1, <3>3
    <3> QED
      BY <3>2, <3>4
  <2>3. CASE ReadIds(x)
    <3> DEFINE y == [x EXCEPT !.sent = tracks[x.job.key[2]], !.step = "ids"]
    <3>1. y.job = x.job
      BY <2>1, Advances
    <3>2. Advance(x, y) /\ jobs' = jobs
      BY <2>3 DEF ReadIds, vars
    <3> HIDE DEF y
    <3> QED
      BY <2>2, <3>1, <3>2
  <2>4. CASE ScTakes(x)
    <3> DEFINE y == [x EXCEPT !.step = "acked"]
    <3>1. y.job = x.job
      BY <2>1, Advances
    <3>2. Advance(x, y) /\ jobs' = jobs
      BY <2>4 DEF ScTakes, vars
    <3> HIDE DEF y
    <3> QED
      BY <2>2, <3>1, <3>2
  <2> QED
    BY <1>4, <2>3, <2>4
<1>5. ASSUME NEW x \in pushes, MarkSynced(x) PROVE Run
  BY <1>5 DEF MarkSynced, AttemptOk, SetPhase
<1> QED
  BY <1>1, <1>2, <1>3, <1>4, <1>5 DEF PlaylistNext, RequestSteps, BeginRead, BeginEdit,
     Begin, TryLock, Fetch, Guard, ReplaceTracks, MutateDesired, InEnqueue, DropRequest,
     HealPlaylist, LockExpires, ScEdit, Upkeep, BeginEnqueue, CancelInverse, InsertRow,
     DropCall, Heal, LeaseExpires, DeleteOldDead, AdminFlush, AdminPurge, vars, playlistVars

LEMMA EditTypes ==
  /\ <<>> \in Lists
  /\ \A l \in Lists : Edits(l) \subseteq Lists /\ Truncated(l) \subseteq Lists
BY ListAssumption

\* A request on its way keeps the shape of a request.
LEMMA RequestTypes ==
  ASSUME PlaylistTypeOK, NEW c \in Callers, requests[c] # NoCall
  PROVE  /\ requests[c].target \in Targets /\ requests[c].got \in Lists
         /\ \A st \in {"lock", "fetch", "guard", "replace", "mutate"} :
              [requests[c] EXCEPT !.step = st] \in Request
         /\ \A st \in {"guard", "replace"}, l \in Lists :
              [requests[c] EXCEPT !.step = st, !.got = l] \in Request
         /\ Return(c) => requests' \in [Callers -> Request \cup {NoCall}]
<1>1. requests[c] \in Request
  BY DEF PlaylistTypeOK
<1>2. \A st \in {"lock", "fetch", "guard", "replace", "mutate"} :
        [requests[c] EXCEPT !.step = st] \in Request
  BY <1>1 DEF Request
<1>3. \A st \in {"guard", "replace"}, l \in Lists :
        [requests[c] EXCEPT !.step = st, !.got = l] \in Request
  BY <1>1 DEF Request
<1>4. requests[c].target \in Targets /\ requests[c].got \in Lists
  BY <1>1 DEF Request
<1>5. Return(c) => requests' \in [Callers -> Request \cup {NoCall}]
  BY <1>2 DEF Return, PlaylistTypeOK
<1> QED
  BY <1>2, <1>3, <1>4, <1>5

TablesTyped ==
  /\ tracks \in [Targets -> Lists] /\ edited \in [Targets -> Lists]
  /\ seeded \in [Targets -> BOOLEAN]
  /\ desired_rev \in [Targets -> Nat] /\ synced_rev \in [Targets -> Nat]

LEMMA RequestStepTypes ==
  ASSUME PlaylistTypeOK, NEW c \in Callers, RequestSteps(c)
  PROVE  /\ TablesTyped'
         /\ sc' = sc /\ pushes' = pushes
         /\ locked' \in [Targets -> BOOLEAN]
         /\ requests' \in [Callers -> Request \cup {NoCall}]
<1> DEFINE Good == /\ TablesTyped'
                   /\ sc' = sc /\ pushes' = pushes
                   /\ locked' \in [Targets -> BOOLEAN]
                   /\ requests' \in [Callers -> Request \cup {NoCall}]
<1> USE DEF PlaylistTypeOK, TablesTyped
<1>1. ASSUME NEW p \in Targets, BeginRead(c, p) \/ BeginEdit(c, p) PROVE Good
  <2>1. \A e \in BOOLEAN, st \in {"lock", "mutate"} :
          [target |-> p, edit |-> e, step |-> st, got |-> <<>>] \in Request
    BY EditTypes DEF Request
  <2>2. \A e \in BOOLEAN, st \in {"lock", "mutate"} : Begin(c, p, e, st) => Good
    <3> SUFFICES ASSUME NEW e \in BOOLEAN, NEW st \in {"lock", "mutate"}, Begin(c, p, e, st)
                 PROVE  Good
      OBVIOUS
    <3>1. requests' \in [Callers -> Request \cup {NoCall}]
      BY <2>1 DEF Begin
    <3> QED
      BY <3>1 DEF Begin, tableVars
  <2>3. CASE BeginRead(c, p)
    BY <2>2, <2>3 DEF BeginRead
  <2>4. CASE BeginEdit(c, p)
    <3>1. PICK st \in {"lock", "mutate"} : Begin(c, p, TRUE, st)
      BY <2>4 DEF BeginEdit
    <3> QED
      BY <2>2, <3>1
  <2> QED
    BY <1>1, <2>3, <2>4
<1>2. CASE TryLock(c)
  <2>1. requests[c] # NoCall
    BY <1>2 DEF TryLock, At
  <2>2. requests' \in [Callers -> Request \cup {NoCall}]
    BY <1>2, <2>1, RequestTypes DEF TryLock, GoTo
  <2>3. locked' \in [Targets -> BOOLEAN]
    BY <1>2 DEF TryLock
  <2> QED
    BY <1>2, <2>2, <2>3 DEF TryLock, tableVars
<1>3. CASE Fetch(c)
  <2>1. requests[c] # NoCall /\ sc[requests[c].target] \in Lists
    BY <1>3, RequestTypes DEF Fetch, At
  <2> DEFINE q == requests[c].target
             Sets(st, l) ==
               requests' = [requests EXCEPT ![c] = [@ EXCEPT !.step = st, !.got = l]]
  <2>2. \/ Sets("replace", sc[q])
        \/ \E l \in Truncated(sc[q]) : Sets("guard", l)
    BY <1>3 DEF Fetch
  <2>3. PICK st \in {"guard", "replace"}, l \in Lists : Sets(st, l)
    <3>1. CASE Sets("replace", sc[q])
      BY <2>1, <3>1
    <3>2. ASSUME NEW l \in Truncated(sc[q]), Sets("guard", l)
          PROVE  \E st \in {"guard", "replace"}, m \in Lists : Sets(st, m)
      <4>1. l \in Lists
        BY <2>1, <3>2, EditTypes
      <4> QED
        BY <3>2, <4>1
    <3> QED
      BY <2>2, <3>1, <3>2
  <2>4. [requests[c] EXCEPT !.step = st, !.got = l] \in Request
    BY <2>1, RequestTypes
  <2>5. requests' \in [Callers -> Request \cup {NoCall}]
    BY <2>3, <2>4
  <2> QED
    BY <1>3, <2>5 DEF Fetch, tableVars
<1>4. CASE Guard(c)
  BY <1>4, RequestTypes DEF Guard, At, GoTo, tableVars
<1>5. CASE ReplaceTracks(c)
  <2>1. requests[c] # NoCall
    BY <1>5 DEF ReplaceTracks, At
  <2> QED
    BY <1>5, <2>1, RequestTypes DEF ReplaceTracks
<1>6. CASE MutateDesired(c)
  <2>1. requests[c] # NoCall
    BY <1>6 DEF MutateDesired, At
  <2>2. requests[c].target \in Targets /\ tracks[requests[c].target] \in Lists
    BY <2>1, RequestTypes
  <2>3. tracks' \in [Targets -> Lists] /\ edited' \in [Targets -> Lists]
    BY <1>6, <2>2, EditTypes DEF MutateDesired
  <2> QED
    BY <1>6, <2>2, <2>3 DEF MutateDesired
<1>7. CASE InEnqueue(c) \/ DropRequest(c)
  BY <1>7 DEF InEnqueue, DropRequest, playlistVars, tableVars
<1> QED
  BY <1>1, <1>2, <1>3, <1>4, <1>5, <1>6, <1>7 DEF RequestSteps

LEMMA PushStepTypes ==
  ASSUME PlaylistTypeOK,
         NEW x \in pushes, ReadIds(x) \/ ScTakes(x) \/ MarkSynced(x)
  PROVE  /\ TablesTyped'
         /\ sc' \in [Targets -> Lists]
         /\ pushes' \subseteq Push
         /\ UNCHANGED <<locked, requests>>
<1> DEFINE p == x.job.key[2]
<1> USE DEF PlaylistTypeOK, TablesTyped
<1>1. x \in Push /\ p \in Targets
  BY TargetTypes
<1>2. x.sent \in Lists /\ x.rev \in Nat
  BY <1>1 DEF Push
<1>3. CASE ReadIds(x)
  <2>1. [x EXCEPT !.sent = tracks[p], !.step = "ids"] \in Push
    BY <1>1, Advances
  <2> QED
    BY <1>3, <2>1 DEF ReadIds, Advance, tableVars
<1>4. CASE ScTakes(x)
  BY <1>1, <1>2, <1>4, Advances DEF ScTakes, Advance, tableVars
<1>5. CASE MarkSynced(x)
  BY <1>1, <1>2, <1>5 DEF MarkSynced, Marked
<1> QED
  BY <1>3, <1>4, <1>5

LEMMA PlaylistTypeNext ==
  ASSUME PlaylistTypeOK, OnePush, PlaylistNext
  PROVE  PlaylistTypeOK'
<1>1. TypeOK'
  BY PlaylistStepImplements, TypeNext DEF PlaylistTypeOK, TypeOK, vars
<1>2. /\ TablesTyped' /\ sc' \in [Targets -> Lists]
      /\ locked' \in [Targets -> BOOLEAN]
      /\ requests' \in [Callers -> Request \cup {NoCall}]
      /\ pushes' \subseteq Push
  <2> DEFINE Good == /\ TablesTyped' /\ sc' \in [Targets -> Lists]
                     /\ locked' \in [Targets -> BOOLEAN]
                     /\ requests' \in [Callers -> Request \cup {NoCall}]
                     /\ pushes' \subseteq Push
  <2>1. CASE \E c \in Callers : RequestSteps(c)
    BY <2>1, RequestStepTypes DEF PlaylistTypeOK
  <2>2. CASE \E x \in pushes : ReadIds(x) \/ ScTakes(x) \/ MarkSynced(x)
    BY <2>2, PushStepTypes DEF PlaylistTypeOK
  <2>3. ASSUME UNCHANGED <<tableVars, sc, locked, requests>>, pushes' \subseteq Push PROVE Good
    BY <2>3 DEF PlaylistTypeOK, TablesTyped, tableVars
  <2>4. ASSUME NEW w \in Workers, FlushSteps(w) PROVE Good
    BY <2>3, <2>4 DEF FlushSteps, playlistVars, tableVars, PlaylistTypeOK
  <2>5. ASSUME NEW j \in jobs, ReadRev(j) \/ PushFails(j) \/ Finish(j) PROVE Good
    <3>1. CASE ReadRev(j)
      <4>1. j \in Job /\ desired_rev[j.key[2]] \in Nat
        BY TargetTypes DEF PlaylistTypeOK, TypeOK
      <4>2. [job |-> j, rev |-> desired_rev[j.key[2]], sent |-> <<>>, step |-> "rev"] \in Push
        BY <4>1, EditTypes DEF Push
      <4> QED
        BY <2>3, <3>1, <4>2 DEF ReadRev, PlaylistTypeOK
    <3>2. CASE PushFails(j)
      BY <2>3, <3>2 DEF PushFails, PlaylistTypeOK
    <3>3. CASE Finish(j)
      BY <2>3, <3>3 DEF Finish, playlistVars, tableVars, PlaylistTypeOK
    <3> QED
      BY <2>5, <3>1, <3>2, <3>3
  <2>6. ASSUME NEW p \in Targets, HealPlaylist(p) \/ LockExpires(p) \/ ScEdit(p) PROVE Good
    BY <2>6 DEF HealPlaylist, LockExpires, ScEdit, playlistVars, tableVars, PlaylistTypeOK,
                TablesTyped
  <2>7. CASE Upkeep
    BY <2>3, <2>7 DEF Upkeep, playlistVars, tableVars, PlaylistTypeOK
  <2> QED
    BY <2>1, <2>2, <2>4, <2>5, <2>6, <2>7 DEF PlaylistNext
<1> QED
  BY <1>1, <1>2, PushesRun DEF PlaylistTypeOK, TablesTyped

\* The tables, the requests and the attempts keep their shapes, and an attempt is
\* under way only for a row that a flush still runs.
THEOREM PlaylistTypeCorrect == PlaylistSpec => [](PlaylistTypeOK /\ OnePush)
<1>1. PlaylistInit => PlaylistTypeOK /\ OnePush
  <2> SUFFICES ASSUME PlaylistInit PROVE PlaylistTypeOK /\ OnePush
    OBVIOUS
  <2>1. TypeOK
    BY DEF PlaylistInit, Init, TypeOK
  <2>2. seeded \in [Targets -> BOOLEAN]
    BY DEF PlaylistInit
  <2>3. tracks \in [Targets -> Lists]
    BY EditTypes DEF PlaylistInit
  <2> QED
    BY <2>1, <2>2, <2>3 DEF PlaylistInit, PlaylistTypeOK, OnePush
<1>2. PlaylistTypeOK /\ OnePush /\ [PlaylistNext]_allVars => (PlaylistTypeOK /\ OnePush)'
  <2> SUFFICES ASSUME PlaylistTypeOK, OnePush, [PlaylistNext]_allVars
               PROVE  (PlaylistTypeOK /\ OnePush)'
    OBVIOUS
  <2>1. CASE PlaylistNext
    BY <2>1, PlaylistTypeNext, PushesRun
  <2>2. CASE UNCHANGED allVars
    BY <2>2 DEF allVars, vars, playlistVars, PlaylistTypeOK, TypeOK, OnePush
  <2> QED
    BY <2>1, <2>2
<1> QED
  BY <1>1, <1>2, PTL DEF PlaylistSpec

\* Playlists are written as steps of the outbox, so what is proved of it holds of them.
LEMMA PlaylistsAreSyncQueue == PlaylistSpec => Spec
<1>1. PlaylistInit => Init
  BY DEF PlaylistInit
<1>2. PlaylistTypeOK /\ [PlaylistNext]_allVars => [Next]_vars
  BY PlaylistStepImplements DEF allVars
<1> QED
  BY <1>1, <1>2, PlaylistTypeCorrect, PTL DEF PlaylistSpec, Spec

\* Hence no playlist_sync leaves the outbox unsent unless it was unclaimed or purged.
THEOREM PlaylistsLeaveSafely == PlaylistSpec => RowsLeaveSafely
BY PlaylistsAreSyncQueue, RowsLeave, PTL

-----------------------------------------------------------------------------
(* Pending edits and the mark of synced_rev.                                  *)

\* Revisions only grow, and nobody is ahead of the table.
RevisionsOrdered ==
  /\ \A p \in Targets : synced_rev[p] <= desired_rev[p]
  /\ \A x \in pushes : x.rev <= desired_rev[x.job.key[2]]

\* What an attempt has read with the current revision of a pending edit is that
\* edit.  Without "pending" it would not hold: a refresh may replace a synced list
\* between the two statements of desired_snapshot.
SnapshotIsCurrent ==
  \A x \in pushes :
    LET p == x.job.key[2]
    IN x.step # "rev" /\ x.rev = desired_rev[p] /\ Pending(p) => x.sent = edited[p]

PInv == RevisionsOrdered /\ PendingIsKept /\ SnapshotIsCurrent

\* A step that leaves the tables alone and starts no attempt.
LEMMA InvFrame ==
  ASSUME PInv, pushes' \subseteq pushes,
         UNCHANGED <<tracks, desired_rev, synced_rev, edited>>
  PROVE  PInv' /\ MarkStep
<1>1. PInv'
  BY DEF PInv, RevisionsOrdered, PendingIsKept, SnapshotIsCurrent, Pending
<1>2. MarkStep
  BY DEF MarkStep
<1> QED
  BY <1>1, <1>2

\* The local list changes only when no edit is pending.
LEMMA ReplaceInv ==
  ASSUME PlaylistTypeOK, PInv, NEW c \in Callers, ReplaceTracks(c)
  PROVE  PInv' /\ MarkStep
<1> DEFINE p == requests[c].target
<1> USE DEF ReplaceTracks
<1>1. RevisionsOrdered' /\ SnapshotIsCurrent'
  BY DEF PInv, RevisionsOrdered, SnapshotIsCurrent, Pending
<1>2. \A q \in Targets : Pending(q) => tracks'[q] = tracks[q]
  BY DEF Unchallenged, PlaylistTypeOK
<1>3. PendingIsKept'
  BY <1>2 DEF PInv, PendingIsKept, Pending
<1>4. MarkStep
  BY DEF MarkStep
<1> QED
  BY <1>1, <1>3, <1>4 DEF PInv

\* An edit takes a revision that no attempt has read.
LEMMA MutateInv ==
  ASSUME PlaylistTypeOK, PInv, NEW c \in Callers, MutateDesired(c)
  PROVE  PInv' /\ MarkStep
<1> DEFINE p == requests[c].target
<1>1. p \in Targets
  BY RequestTypes DEF MutateDesired, At
<1>2. /\ desired_rev' = [desired_rev EXCEPT ![p] = @ + 1]
      /\ synced_rev' = synced_rev /\ pushes' = pushes
  BY DEF MutateDesired
<1>3. PICK l \in Edits(tracks[p]) : /\ tracks' = [tracks EXCEPT ![p] = l]
                                    /\ edited' = [edited EXCEPT ![p] = l]
  BY DEF MutateDesired
<1>4. \A q \in Targets \ {p} : /\ desired_rev'[q] = desired_rev[q]
                               /\ tracks'[q] = tracks[q] /\ edited'[q] = edited[q]
  BY <1>2, <1>3 DEF PlaylistTypeOK
<1>5. desired_rev'[p] = desired_rev[p] + 1 /\ tracks'[p] = edited'[p]
  BY <1>1, <1>2, <1>3 DEF PlaylistTypeOK
<1>6. RevisionsOrdered'
  <2>1. \A q \in Targets : synced_rev'[q] <= desired_rev'[q]
    BY <1>2, <1>4, <1>5 DEF PInv, RevisionsOrdered, PlaylistTypeOK
  <2>2. ASSUME NEW x \in pushes PROVE x.rev <= desired_rev'[x.job.key[2]]
    <3>1. x.job.key[2] \in Targets /\ x.rev \in Nat
      BY TargetTypes DEF PlaylistTypeOK, Push
    <3>2. x.rev <= desired_rev[x.job.key[2]]
      BY DEF PInv, RevisionsOrdered
    <3> QED
      BY <3>1, <3>2, <1>4, <1>5 DEF PlaylistTypeOK
  <2> QED
    BY <1>2, <2>1, <2>2 DEF RevisionsOrdered
<1>7. PendingIsKept'
  BY <1>2, <1>4, <1>5 DEF PInv, PendingIsKept, Pending
<1>8. SnapshotIsCurrent'
  <2> SUFFICES ASSUME NEW x \in pushes, x.step # "rev",
                      x.rev = desired_rev'[x.job.key[2]], Pending(x.job.key[2])'
               PROVE  x.sent = edited'[x.job.key[2]]
    BY <1>2 DEF SnapshotIsCurrent
  <2>1. x.job.key[2] \in Targets /\ x.rev \in Nat /\ x.rev <= desired_rev[x.job.key[2]]
    BY TargetTypes DEF PlaylistTypeOK, Push, PInv, RevisionsOrdered
  <2>2. x.job.key[2] # p
    BY <1>1, <1>5, <2>1 DEF PlaylistTypeOK
  <2> QED
    BY <1>2, <1>4, <2>1, <2>2 DEF PInv, SnapshotIsCurrent, Pending
<1>9. MarkStep
  BY <1>2 DEF MarkStep
<1> QED
  BY <1>6, <1>7, <1>8, <1>9 DEF PInv

\* An attempt that reads or sends leaves the tables alone.
LEMMA AttemptInv ==
  ASSUME PlaylistTypeOK, PInv,
         NEW y \in Push, \A z \in pushes' : z \in pushes \/ z = y,
         UNCHANGED tableVars,
         y.rev <= desired_rev[y.job.key[2]],
         y.step # "rev" /\ y.rev = desired_rev[y.job.key[2]] /\ Pending(y.job.key[2])
           => y.sent = edited[y.job.key[2]]
  PROVE  PInv' /\ MarkStep
<1> USE DEF tableVars
<1>1. RevisionsOrdered'
  BY DEF PInv, RevisionsOrdered
<1>2. PendingIsKept'
  BY DEF PInv, PendingIsKept, Pending
<1>3. SnapshotIsCurrent'
  BY DEF PInv, SnapshotIsCurrent, Pending
<1>4. MarkStep
  BY DEF MarkStep
<1> QED
  BY <1>1, <1>2, <1>3, <1>4 DEF PInv

LEMMA ReadsInv ==
  ASSUME PlaylistTypeOK, PInv,
         \/ \E j \in jobs : ReadRev(j)
         \/ \E x \in pushes : ReadIds(x) \/ ScTakes(x)
  PROVE  PInv' /\ MarkStep
<1>1. ASSUME NEW j \in jobs, ReadRev(j) PROVE PInv' /\ MarkStep
  <2> DEFINE y == [job |-> j, rev |-> desired_rev[j.key[2]], sent |-> <<>>, step |-> "rev"]
  <2>1. j \in Job /\ desired_rev[j.key[2]] \in Nat
    BY TargetTypes DEF PlaylistTypeOK, TypeOK
  <2>2. y \in Push
    BY <2>1, EditTypes DEF Push
  <2>3. pushes' = pushes \cup {y} /\ UNCHANGED tableVars
    BY <1>1 DEF ReadRev
  <2>4. y.rev = desired_rev[y.job.key[2]] /\ y.step = "rev"
    OBVIOUS
  <2> HIDE DEF y
  <2>5. y.rev <= desired_rev[y.job.key[2]]
    BY <2>2, <2>4 DEF Push
  <2> QED
    BY <2>2, <2>3, <2>4, <2>5, AttemptInv
<1>2. ASSUME NEW x \in pushes, ReadIds(x) PROVE PInv' /\ MarkStep
  <2> DEFINE p == x.job.key[2]
             y == [x EXCEPT !.sent = tracks[p], !.step = "ids"]
  <2>1. p \in Targets /\ tracks[p] \in Lists /\ x \in Push
    BY TargetTypes DEF PlaylistTypeOK
  <2>2. y \in Push /\ y.job = x.job /\ y.rev = x.rev /\ y.sent = tracks[p]
    BY <2>1, Advances
  <2>3. pushes' = (pushes \ {x}) \cup {y} /\ UNCHANGED tableVars
    BY <1>2 DEF ReadIds, Advance
  <2> HIDE DEF y
  <2>4. y.rev <= desired_rev[p]
    BY <2>2 DEF PInv, RevisionsOrdered
  <2>5. Pending(p) => y.sent = edited[p]
    BY <2>1, <2>2 DEF PInv, PendingIsKept
  <2> QED
    BY <2>2, <2>3, <2>4, <2>5, AttemptInv
<1>3. ASSUME NEW x \in pushes, ScTakes(x) PROVE PInv' /\ MarkStep
  <2> DEFINE y == [x EXCEPT !.step = "acked"]
  <2>1. x \in Push /\ x.sent \in Lists
    BY DEF PlaylistTypeOK, Push
  <2>2. y \in Push /\ y.job = x.job /\ y.rev = x.rev /\ y.sent = x.sent
    BY <2>1, Advances
  <2>3. pushes' = (pushes \ {x}) \cup {y} /\ UNCHANGED tableVars /\ x.step = "ids"
    BY <1>3 DEF ScTakes, Advance
  <2> HIDE DEF y
  <2>4. y.rev <= desired_rev[y.job.key[2]]
    BY <2>2 DEF PInv, RevisionsOrdered
  <2>5. y.rev = desired_rev[y.job.key[2]] /\ Pending(y.job.key[2])
          => y.sent = edited[y.job.key[2]]
    BY <2>2, <2>3 DEF PInv, SnapshotIsCurrent
  <2> QED
    BY <2>2, <2>3, <2>4, <2>5, AttemptInv
<1> QED
  BY <1>1, <1>2, <1>3

\* The mark: nothing at all, or the current revision of a pending edit, whose list
\* is the one that was sent.
LEMMA MarkInv ==
  ASSUME PlaylistTypeOK, PInv, NEW x \in pushes, MarkSynced(x)
  PROVE  PInv' /\ MarkStep
<1> DEFINE p == x.job.key[2]
<1>1. p \in Targets /\ x \in Push /\ x.rev \in Nat
  BY TargetTypes DEF PlaylistTypeOK, Push
<1>2. /\ synced_rev' = [synced_rev EXCEPT ![p] = Marked(p, x.rev)]
      /\ pushes' = pushes \ {x} /\ x.step = "acked"
      /\ UNCHANGED <<tracks, desired_rev, edited>>
  BY DEF MarkSynced
<1>3. \A q \in Targets : q # p => synced_rev'[q] = synced_rev[q]
  BY <1>2 DEF PlaylistTypeOK
<1>4. \/ synced_rev'[p] = synced_rev[p]
      \/ synced_rev'[p] = desired_rev[p] /\ x.rev = desired_rev[p]
  BY <1>1, <1>2 DEF PlaylistTypeOK, Marked
<1>5. \A q \in Targets : Pending(q)' => Pending(q)
  BY <1>1, <1>2, <1>3, <1>4 DEF PlaylistTypeOK, Pending
<1>6. RevisionsOrdered'
  BY <1>1, <1>2, <1>3, <1>4 DEF PInv, RevisionsOrdered, PlaylistTypeOK
<1>7. PendingIsKept'
  BY <1>2, <1>5 DEF PInv, PendingIsKept
<1>8. SnapshotIsCurrent'
  <2>1. \A z \in pushes : z.job.key[2] \in Targets
    BY TargetTypes DEF PlaylistTypeOK
  <2> QED
    BY <1>2, <1>5, <2>1 DEF PInv, SnapshotIsCurrent
<1>9. MarkStep
  <2> SUFFICES ASSUME NEW q \in Targets, synced_rev'[q] # synced_rev[q]
               PROVE  /\ x.job.key[2] = q /\ x \in pushes \ pushes'
                      /\ x.rev = desired_rev[q] /\ x.sent = edited[q]
    BY <1>2 DEF MarkStep
  <2>1. q = p /\ x.rev = desired_rev[p] /\ synced_rev[p] # desired_rev[p]
    BY <1>3, <1>4
  <2>2. Pending(p)
    BY <1>1, <2>1 DEF PInv, RevisionsOrdered, Pending, PlaylistTypeOK
  <2>3. x.sent = edited[p]
    BY <1>2, <2>1, <2>2 DEF PInv, SnapshotIsCurrent
  <2> QED
    BY <1>2, <2>1, <2>3
<1> QED
  BY <1>6, <1>7, <1>8, <1>9 DEF PInv

LEMMA InvNext ==
  ASSUME PlaylistTypeOK, PInv, PlaylistNext
  PROVE  PInv' /\ MarkStep
<1>1. ASSUME NEW c \in Callers, RequestSteps(c) PROVE PInv' /\ MarkStep
  <2>1. CASE ReplaceTracks(c)
    BY <2>1, ReplaceInv
  <2>2. CASE MutateDesired(c)
    BY <2>2, MutateInv
  <2>3. CASE ~ReplaceTracks(c) /\ ~MutateDesired(c)
    <3>1. pushes' \subseteq pushes /\ UNCHANGED <<tracks, desired_rev, synced_rev, edited>>
      BY <1>1, <2>3 DEF RequestSteps, BeginRead, BeginEdit, Begin, TryLock, Fetch, Guard,
         InEnqueue, DropRequest, playlistVars, tableVars
    <3> QED
      BY <3>1, InvFrame
  <2> QED
    BY <2>1, <2>2, <2>3
<1>2. ASSUME \/ \E w \in Workers : FlushSteps(w)
             \/ \E j \in jobs : PushFails(j) \/ Finish(j)
             \/ \E p \in Targets : HealPlaylist(p) \/ LockExpires(p) \/ ScEdit(p)
             \/ Upkeep
      PROVE  PInv' /\ MarkStep
  <2>1. pushes' \subseteq pushes /\ UNCHANGED <<tracks, desired_rev, synced_rev, edited>>
    BY <1>2 DEF FlushSteps, PushFails, Finish, HealPlaylist, LockExpires, ScEdit, Upkeep,
       playlistVars, tableVars
  <2> QED
    BY <2>1, InvFrame
<1> QED
  BY <1>1, <1>2, ReadsInv, MarkInv DEF PlaylistNext

\* PInv is inductive, relative to the types.
THEOREM PlaylistInductive == PlaylistSpec => []PInv
<1>1. PlaylistInit => PInv
  BY DEF PlaylistInit, PInv, RevisionsOrdered, PendingIsKept, SnapshotIsCurrent, Pending
<1>2. PlaylistTypeOK /\ PInv /\ [PlaylistNext]_allVars => PInv'
  <2> SUFFICES ASSUME PlaylistTypeOK, PInv, [PlaylistNext]_allVars PROVE PInv'
    OBVIOUS
  <2>1. CASE PlaylistNext
    BY <2>1, InvNext
  <2>2. CASE UNCHANGED allVars
    BY <2>2, InvFrame DEF allVars, playlistVars
  <2> QED
    BY <2>1, <2>2
<1> QED
  BY <1>1, <1>2, PlaylistTypeCorrect, PTL DEF PlaylistSpec

\* However refreshes, edits and flushes interleave, and whatever of them is lost, a
\* refresh does not overwrite a list whose edit is still pending (replace_tracks).
THEOREM PendingKept == PlaylistSpec => []PendingIsKept
<1>1. PInv => PendingIsKept
  BY DEF PInv
<1> QED
  BY <1>1, PlaylistInductive, PTL

\* synced_rev moves only to the revision of an edit whose list SoundCloud has taken
\* (desired_snapshot, mark_synced_if_unchanged), for every number of attempts.
THEOREM MarksSent == PlaylistSpec => MarksWhatWasSent
<1>1. PlaylistTypeOK /\ PInv /\ [PlaylistNext]_allVars => [MarkStep]_allVars
  BY InvNext
<1> QED
  BY <1>1, PlaylistInductive, PlaylistTypeCorrect, PTL DEF PlaylistSpec, MarksWhatWasSent

-----------------------------------------------------------------------------
(* A synced edit is delivered.                                                *)

\* Refreshes do not overlap edits, the list is edited here alone, and one process
\* flushes the outbox.
OneSide == {"stale", "web"} \cap Faults = {} /\ \A v, w \in Workers : v = w

\* A refresh that has read SoundCloud and is still to write.
Reads(c) == At(c, "guard") \/ At(c, "replace")

\* An attempt with an old revision leaves its edit pending; one with the current
\* revision sends the edit; what SoundCloud has taken it still has.
PushesDeliver ==
  \A x \in pushes :
    LET p == x.job.key[2]
    IN /\ x.rev < desired_rev[p] => Pending(p)
       /\ x.step # "rev" /\ x.rev = desired_rev[p] /\ desired_rev[p] > 0 => x.sent = edited[p]
       /\ x.step = "acked" => sc[p] = x.sent

\* What a refresh has read is the list of the last edit, or the first pages of it.
ReadsAgree ==
  \A c \in Callers : Reads(c) =>
    LET p == requests[c].target
    IN /\ ~Pending(p)
       /\ desired_rev[p] > 0 /\ At(c, "replace") => requests[c].got = edited[p]
       /\ desired_rev[p] > 0 /\ At(c, "guard") => requests[c].got \in Truncated(edited[p])

DInv == SyncedIsDelivered /\ PushesDeliver /\ ReadsAgree

\* A pagination that broke off and is not shorter than the list is the list.
LEMMA TruncatedIsShorter ==
  ASSUME NEW l \in Lists, NEW got \in Truncated(l), ~(Len(got) < Len(l))
  PROVE  got = l
<1>1. l \in Seq(Tracks)
  BY ListAssumption
<1>2. PICK n \in 1..Len(l) : got = SubSeq(l, 1, n)
  BY DEF Truncated
<1>3. Len(got) = n
  BY <1>1, <1>2
<1>4. n = Len(l)
  BY <1>1, <1>2, <1>3
<1> QED
  BY <1>1, <1>2, <1>4

\* With one flushing process, a playlist is sent by one attempt at a time.
LEMMA OnePushOfPlaylist ==
  ASSUME PlaylistTypeOK, OnePush, BatchSerial, OneSide,
         NEW x \in pushes, NEW y \in pushes, x.job.key[2] = y.job.key[2]
  PROVE  x = y
<1>1. x.job \in jobs /\ y.job \in jobs /\ x.job.phase = "running" /\ y.job.phase = "running"
  BY DEF PlaylistTypeOK
<1>2. x.job.worker = y.job.worker
  BY <1>1 DEF OneSide, PlaylistTypeOK, TypeOK, Job
<1> QED
  BY <1>1, <1>2 DEF BatchSerial, OnePush

\* Requests that stay or do not come to read, and tables that stay.
Settled ==
  \A c \in Callers : requests'[c] = requests[c] \/ ~Reads(c)'

LEMMA DeliveredFrame ==
  ASSUME DInv, pushes' \subseteq pushes, Settled,
         UNCHANGED <<tracks, desired_rev, synced_rev, edited, sc>>
  PROVE  DInv'
<1>1. SyncedIsDelivered'
  BY DEF DInv, SyncedIsDelivered, Pending
<1>2. PushesDeliver'
  BY DEF DInv, PushesDeliver, Pending
<1>3. ReadsAgree'
  BY DEF DInv, ReadsAgree, Reads, At, Settled, Pending
<1> QED
  BY <1>1, <1>2, <1>3 DEF DInv

\* A refresh that returns reads no more.
LEMMA Returns ==
  ASSUME PlaylistTypeOK, NEW c \in Callers, requests[c] # NoCall, Return(c)
  PROVE  Settled
<1>1. requests[c] \in Request
  BY DEF PlaylistTypeOK
<1>2. [requests[c] EXCEPT !.step = "mutate"].step = "mutate"
  BY <1>1 DEF Request
<1>3. requests'[c] = NoCall \/ requests'[c] = [requests[c] EXCEPT !.step = "mutate"]
  BY DEF Return, PlaylistTypeOK
<1>4. ~Reads(c)'
  BY <1>2, <1>3 DEF Reads, At
<1>5. \A d \in Callers : d # c => requests'[d] = requests[d]
  BY DEF Return, PlaylistTypeOK
<1> QED
  BY <1>4, <1>5 DEF Settled

\* A refresh that moves on with what it has read.
LEMMA ReadsOn ==
  ASSUME PlaylistTypeOK, DInv, NEW c \in Callers, requests[c] # NoCall,
         NEW r \in Request, r.target = requests[c].target,
         requests' = [requests EXCEPT ![c] = r],
         ~Pending(r.target),
         desired_rev[r.target] > 0 =>
           \/ r.step = "replace" /\ r.got = edited[r.target]
           \/ r.step = "guard" /\ r.got \in Truncated(edited[r.target]),
         UNCHANGED <<tracks, desired_rev, synced_rev, edited, sc, pushes>>
  PROVE  DInv'
<1>1. SyncedIsDelivered' /\ PushesDeliver'
  BY DEF DInv, SyncedIsDelivered, PushesDeliver, Pending
<1>2. requests'[c] = r /\ \A d \in Callers : d # c => requests'[d] = requests[d]
  BY DEF PlaylistTypeOK
<1>3. ASSUME NEW d \in Callers, d # c, Reads(d)'
      PROVE  LET p == requests[d].target
             IN /\ ~Pending(p)
                /\ desired_rev[p] > 0 /\ At(d, "replace") => requests[d].got = edited[p]
                /\ desired_rev[p] > 0 /\ At(d, "guard") => requests[d].got \in Truncated(edited[p])
  <2>1. Reads(d)
    BY <1>2, <1>3 DEF Reads, At
  <2> QED
    BY <2>1 DEF DInv, ReadsAgree
<1>4. ReadsAgree'
  BY <1>2, <1>3 DEF ReadsAgree, Reads, At, Pending
<1> QED
  BY <1>1, <1>4 DEF DInv

LEMMA FetchDelivers ==
  ASSUME PlaylistTypeOK, DInv, OneSide, NEW c \in Callers, Fetch(c) \/ Guard(c)
  PROVE  DInv'
<1> DEFINE p == requests[c].target
<1>1. requests[c] # NoCall /\ requests[c] \in Request /\ p \in Targets
  BY RequestTypes DEF Fetch, Guard, At, PlaylistTypeOK
<1>2. UNCHANGED <<tracks, desired_rev, synced_rev, edited, sc, pushes>>
  BY DEF Fetch, Guard, tableVars
<1>3. CASE Fetch(c)
  <2>1. ~Pending(p)
    BY <1>3 DEF Fetch, Calm, OneSide
  <2>2. desired_rev[p] > 0 => sc[p] = edited[p]
    BY <1>1, <2>1 DEF DInv, SyncedIsDelivered
  <2>3. ASSUME NEW st \in {"guard", "replace"}, NEW l \in Lists,
               requests' = [requests EXCEPT ![c] = [@ EXCEPT !.step = st, !.got = l]],
               \/ st = "replace" /\ l = sc[p]
               \/ st = "guard" /\ l \in Truncated(sc[p])
        PROVE  DInv'
    <3> DEFINE r == [requests[c] EXCEPT !.step = st, !.got = l]
    <3>1. r \in Request
      BY <1>1, RequestTypes
    <3>2. r.step = st /\ r.got = l /\ r.target = p
      BY <1>1 DEF Request
    <3>3. requests' = [requests EXCEPT ![c] = r]
      BY <2>3
    <3> HIDE DEF r
    <3>4. ~Pending(r.target) /\ r.target = requests[c].target
      BY <2>1, <3>2
    <3>5. desired_rev[r.target] > 0 =>
            \/ r.step = "replace" /\ r.got = edited[r.target]
            \/ r.step = "guard" /\ r.got \in Truncated(edited[r.target])
      BY <2>2, <2>3, <3>2
    <3> QED
      BY <1>1, <1>2, <3>1, <3>3, <3>4, <3>5, ReadsOn
  <2>4. sc[p] \in Lists /\ Truncated(sc[p]) \subseteq Lists
    BY <1>1, EditTypes DEF PlaylistTypeOK
  <2>5. CASE requests' = [requests EXCEPT ![c] = [@ EXCEPT !.step = "replace", !.got = sc[p]]]
    BY <2>3, <2>4, <2>5
  <2>6. CASE \E l \in Truncated(sc[p]) :
               requests' = [requests EXCEPT ![c] = [@ EXCEPT !.step = "guard", !.got = l]]
    BY <2>3, <2>4, <2>6
  <2> QED
    BY <1>3, <2>5, <2>6 DEF Fetch
<1>4. CASE Guard(c)
  <2>1. Reads(c) /\ At(c, "guard")
    BY <1>4 DEF Guard, Reads
  <2>2. ~Pending(p) /\ (desired_rev[p] > 0 => requests[c].got \in Truncated(edited[p]))
    BY <2>1 DEF DInv, ReadsAgree
  <2>3. CASE Return(c)
    BY <1>1, <1>2, <2>3, Returns, DeliveredFrame
  <2>4. CASE GoTo(c, "replace") /\ ~(Len(requests[c].got) < Len(tracks[p]))
    <3> DEFINE r == [requests[c] EXCEPT !.step = "replace"]
    <3>1. r \in Request
      BY <1>1, RequestTypes
    <3>2. r.step = "replace" /\ r.got = requests[c].got /\ r.target = p
      BY <1>1 DEF Request
    <3>3. requests' = [requests EXCEPT ![c] = r]
      BY <2>4 DEF GoTo
    <3>4. desired_rev[p] > 0 => tracks[p] = edited[p] /\ edited[p] \in Lists
      BY <1>1, <2>2 DEF DInv, SyncedIsDelivered, PlaylistTypeOK
    <3>5. desired_rev[p] > 0 => r.got = edited[p]
      BY <2>2, <2>4, <3>2, <3>4, TruncatedIsShorter
    <3> HIDE DEF r
    <3> QED
      BY <1>1, <1>2, <2>2, <3>1, <3>2, <3>3, <3>5, ReadsOn
  <2> QED
    BY <1>4, <2>3, <2>4 DEF Guard
<1> QED
  BY <1>3, <1>4

\* A list that a refresh writes is the one that both sides have.
LEMMA ReplaceDelivers ==
  ASSUME PlaylistTypeOK, DInv, NEW c \in Callers, ReplaceTracks(c)
  PROVE  DInv'
<1> DEFINE p == requests[c].target
<1>1. requests[c] # NoCall /\ p \in Targets /\ At(c, "replace") /\ Reads(c)
  BY RequestTypes DEF ReplaceTracks, At, Reads
<1>2. Settled
  BY <1>1, Returns DEF ReplaceTracks
<1>3. UNCHANGED <<desired_rev, synced_rev, edited, sc, pushes>>
  BY DEF ReplaceTracks
<1>4. desired_rev[p] > 0 => requests[c].got = edited[p]
  BY <1>1 DEF DInv, ReadsAgree
<1>5. \A q \in Targets : tracks'[q] = tracks[q] \/ (q = p /\ tracks'[q] = requests[c].got)
  BY DEF ReplaceTracks, PlaylistTypeOK
<1>6. SyncedIsDelivered'
  BY <1>3, <1>4, <1>5 DEF DInv, SyncedIsDelivered, Pending
<1>7. PushesDeliver'
  BY <1>3 DEF DInv, PushesDeliver, Pending
<1>8. ReadsAgree'
  BY <1>2, <1>3 DEF DInv, ReadsAgree, Reads, At, Settled, Pending
<1> QED
  BY <1>6, <1>7, <1>8 DEF DInv

\* No refresh is between its reading and its writing when an edit comes.
LEMMA MutateDelivers ==
  ASSUME PlaylistTypeOK, PInv, DInv, OneSide, NEW c \in Callers, MutateDesired(c)
  PROVE  DInv'
<1> DEFINE p == requests[c].target
<1>1. requests[c] # NoCall /\ p \in Targets
  BY RequestTypes DEF MutateDesired, At
<1>2. /\ desired_rev' = [desired_rev EXCEPT ![p] = @ + 1]
      /\ requests' = [requests EXCEPT ![c] = NoCall]
      /\ UNCHANGED <<synced_rev, sc, pushes>>
  BY DEF MutateDesired
<1>3. \A q \in Targets \ {p} : /\ desired_rev'[q] = desired_rev[q]
                               /\ tracks'[q] = tracks[q] /\ edited'[q] = edited[q]
  BY <1>2 DEF MutateDesired, PlaylistTypeOK
<1>4. desired_rev'[p] = desired_rev[p] + 1 /\ desired_rev[p] \in Nat /\ synced_rev[p] \in Nat
  BY <1>1, <1>2 DEF PlaylistTypeOK
<1>5. \A q \in Targets : q = p => Pending(q)'
  BY <1>1, <1>2, <1>4 DEF Pending, PInv, RevisionsOrdered
<1>6. \A q \in Targets \ {p} : Pending(q)' <=> Pending(q)
  BY <1>2, <1>3 DEF Pending
<1>7. SyncedIsDelivered'
  BY <1>2, <1>3, <1>5, <1>6 DEF DInv, SyncedIsDelivered
<1>8. PushesDeliver'
  <2> SUFFICES ASSUME NEW x \in pushes
               PROVE  LET q == x.job.key[2]
                      IN /\ x.rev < desired_rev'[q] => Pending(q)'
                         /\ x.step # "rev" /\ x.rev = desired_rev'[q] /\ desired_rev'[q] > 0
                              => x.sent = edited'[q]
                         /\ x.step = "acked" => sc[q] = x.sent
    BY <1>2 DEF PushesDeliver
  <2>1. x.job.key[2] \in Targets /\ x.rev \in Nat /\ x.rev <= desired_rev[x.job.key[2]]
    BY TargetTypes DEF PlaylistTypeOK, Push, PInv, RevisionsOrdered
  <2>2. CASE x.job.key[2] = p
    <3>1. Pending(x.job.key[2])'
      BY <1>5, <2>1, <2>2
    <3>2. x.rev # desired_rev'[x.job.key[2]]
      BY <1>4, <2>1, <2>2
    <3>3. x.step = "acked" => sc[x.job.key[2]] = x.sent
      BY DEF DInv, PushesDeliver
    <3> QED
      BY <3>1, <3>2, <3>3
  <2>3. CASE x.job.key[2] # p
    BY <1>3, <1>6, <2>1, <2>3 DEF DInv, PushesDeliver
  <2> QED
    BY <2>2, <2>3
<1>9. ReadsAgree'
  <2> SUFFICES ASSUME NEW d \in Callers, Reads(d)'
               PROVE  LET q == requests[d].target
                      IN /\ requests'[d] = requests[d] /\ Reads(d)
                         /\ q \in Targets \ {p}
    BY <1>3, <1>6 DEF DInv, ReadsAgree, Reads, At
  <2>1. d # c /\ requests'[d] = requests[d]
    BY <1>2 DEF Reads, At, PlaylistTypeOK
  <2>2. Reads(d)
    BY <2>1 DEF Reads, At
  <2>3. requests[d].target # p
    BY <2>2 DEF MutateDesired, OneSide, Calm, Reads
  <2>4. requests[d].target \in Targets
    BY <2>2, RequestTypes DEF Reads, At
  <2> QED
    BY <2>1, <2>2, <2>3, <2>4
<1> QED
  BY <1>7, <1>8, <1>9 DEF DInv

\* What the attempts do to a playlist, when each of them is the only one of its
\* playlist.
LEMMA AttemptDelivers ==
  ASSUME PlaylistTypeOK, DInv, NEW y \in Push,
         \A z \in pushes' : z = y \/ (z \in pushes /\ z.job.key[2] # y.job.key[2]),
         UNCHANGED <<tracks, desired_rev, synced_rev, edited, requests>>,
         \A q \in Targets : q # y.job.key[2] => sc'[q] = sc[q],
         LET p == y.job.key[2]
         IN /\ y.rev < desired_rev[p] => Pending(p)
            /\ y.step # "rev" /\ y.rev = desired_rev[p] /\ desired_rev[p] > 0
                 => y.sent = edited[p]
            /\ y.step = "acked" => sc'[p] = y.sent
            /\ ~Pending(p) /\ desired_rev[p] > 0 => sc'[p] = edited[p]
  PROVE  DInv'
<1>1. SyncedIsDelivered'
  BY DEF DInv, SyncedIsDelivered, Pending
<1>2. PushesDeliver'
  <2>1. \A z \in pushes : z.job.key[2] \in Targets
    BY TargetTypes DEF PlaylistTypeOK
  <2> QED
    BY <2>1 DEF DInv, PushesDeliver, Pending
<1>3. ReadsAgree'
  BY DEF DInv, ReadsAgree, Reads, At, Pending
<1> QED
  BY <1>1, <1>2, <1>3 DEF DInv

LEMMA SendsDeliver ==
  ASSUME PlaylistTypeOK, OnePush, BatchSerial, PInv, DInv, OneSide,
         \/ \E j \in jobs : ReadRev(j)
         \/ \E x \in pushes : ReadIds(x) \/ ScTakes(x)
  PROVE  DInv'
<1>1. ASSUME NEW j \in jobs, ReadRev(j) PROVE DInv'
  <2> DEFINE y == [job |-> j, rev |-> desired_rev[j.key[2]], sent |-> <<>>, step |-> "rev"]
  <2>1. j \in Job /\ j.key[2] \in Targets /\ desired_rev[j.key[2]] \in Nat
    BY TargetTypes DEF PlaylistTypeOK, TypeOK
  <2>2. y \in Push /\ y.job = j /\ y.rev = desired_rev[j.key[2]] /\ y.step = "rev"
    BY <2>1, EditTypes DEF Push
  <2>3. pushes' = pushes \cup {y} /\ UNCHANGED <<tableVars, sc, requests>>
    BY <1>1 DEF ReadRev
  <2> HIDE DEF y
  <2>4. ASSUME NEW z \in pushes PROVE z.job.key[2] # j.key[2]
    <3>1. z.job # j /\ z.job \in jobs /\ z.job.phase = "running" /\ j.phase = "running"
      BY <1>1 DEF ReadRev, PlaylistTypeOK
    <3>2. z.job.worker = j.worker
      BY <3>1 DEF OneSide, PlaylistTypeOK, TypeOK, Job
    <3> QED
      BY <3>1, <3>2 DEF BatchSerial
  <2>5. ~Pending(j.key[2]) /\ desired_rev[j.key[2]] > 0 => sc[j.key[2]] = edited[j.key[2]]
    BY <2>1 DEF DInv, SyncedIsDelivered
  <2> QED
    BY <2>1, <2>2, <2>3, <2>4, <2>5, AttemptDelivers DEF tableVars
<1>2. ASSUME NEW x \in pushes, NEW y \in Push, y.job = x.job, pushes' = (pushes \ {x}) \cup {y}
      PROVE  \A z \in pushes' : z = y \/ (z \in pushes /\ z.job.key[2] # y.job.key[2])
  BY <1>2, OnePushOfPlaylist
<1>3. ASSUME NEW x \in pushes, ReadIds(x) PROVE DInv'
  <2> DEFINE p == x.job.key[2]
             y == [x EXCEPT !.sent = tracks[p], !.step = "ids"]
  <2>1. p \in Targets /\ tracks[p] \in Lists /\ x \in Push
    BY TargetTypes DEF PlaylistTypeOK
  <2>2. y \in Push /\ y.job = x.job /\ y.rev = x.rev /\ y.sent = tracks[p] /\ y.step = "ids"
    BY <2>1, Advances DEF Push
  <2>3. pushes' = (pushes \ {x}) \cup {y} /\ UNCHANGED <<tableVars, sc, requests>>
    BY <1>3 DEF ReadIds, Advance
  <2> HIDE DEF y
  <2>4. y.rev < desired_rev[p] => Pending(p)
    BY <2>2 DEF DInv, PushesDeliver
  <2>5. desired_rev[p] > 0 => y.sent = edited[p]
    BY <2>1, <2>2 DEF PInv, PendingIsKept, DInv, SyncedIsDelivered
  <2>6. ~Pending(p) /\ desired_rev[p] > 0 => sc[p] = edited[p]
    BY <2>1 DEF DInv, SyncedIsDelivered
  <2>7. \A z \in pushes' : z = y \/ (z \in pushes /\ z.job.key[2] # y.job.key[2])
    BY <1>2, <2>2, <2>3
  <2> QED
    BY <2>2, <2>3, <2>4, <2>5, <2>6, <2>7, AttemptDelivers DEF tableVars
<1>4. ASSUME NEW x \in pushes, ScTakes(x) PROVE DInv'
  <2> DEFINE p == x.job.key[2]
             y == [x EXCEPT !.step = "acked"]
  <2>1. p \in Targets /\ x \in Push /\ x.sent \in Lists /\ x.rev \in Nat
    BY TargetTypes DEF PlaylistTypeOK, Push
  <2>2. y \in Push /\ y.job = x.job /\ y.rev = x.rev /\ y.sent = x.sent /\ y.step = "acked"
    BY <2>1, Advances
  <2>3. /\ pushes' = (pushes \ {x}) \cup {y} /\ UNCHANGED <<tableVars, requests>>
        /\ x.step = "ids" /\ sc' = [sc EXCEPT ![p] = x.sent]
    BY <1>4 DEF ScTakes, Advance
  <2> HIDE DEF y
  <2>4. y.rev < desired_rev[p] => Pending(p)
    BY <2>2 DEF DInv, PushesDeliver
  <2>5. y.rev = desired_rev[p] /\ desired_rev[p] > 0 => y.sent = edited[p]
    BY <2>2, <2>3 DEF DInv, PushesDeliver
  <2>6. sc'[p] = y.sent /\ \A q \in Targets : q # p => sc'[q] = sc[q]
    BY <2>1, <2>2, <2>3 DEF PlaylistTypeOK
  <2>7. x.rev = desired_rev[p] \/ x.rev < desired_rev[p]
    BY <2>1 DEF PInv, RevisionsOrdered, PlaylistTypeOK
  <2>8. ~Pending(p) /\ desired_rev[p] > 0 => sc'[p] = edited[p]
    BY <2>2, <2>4, <2>5, <2>6, <2>7
  <2>9. \A z \in pushes' : z = y \/ (z \in pushes /\ z.job.key[2] # y.job.key[2])
    BY <1>2, <2>2, <2>3
  <2> QED
    BY <2>2, <2>3, <2>4, <2>5, <2>6, <2>8, <2>9, AttemptDelivers DEF tableVars
<1> QED
  BY <1>1, <1>3, <1>4

\* The mark that ends the waiting of an edit is given to the list SoundCloud has.
LEMMA MarkDelivers ==
  ASSUME PlaylistTypeOK, OnePush, BatchSerial, PInv, DInv, OneSide,
         NEW x \in pushes, MarkSynced(x)
  PROVE  DInv'
<1> DEFINE p == x.job.key[2]
<1>1. p \in Targets /\ x \in Push /\ x.rev \in Nat
  BY TargetTypes DEF PlaylistTypeOK, Push
<1>2. /\ synced_rev' = [synced_rev EXCEPT ![p] = Marked(p, x.rev)]
      /\ pushes' = pushes \ {x} /\ x.step = "acked"
      /\ UNCHANGED <<tracks, desired_rev, edited, sc, requests>>
  BY DEF MarkSynced
<1>3. \A q \in Targets : q # p => synced_rev'[q] = synced_rev[q]
  BY <1>2 DEF PlaylistTypeOK
<1>4. \/ synced_rev'[p] = synced_rev[p]
      \/ synced_rev'[p] = desired_rev[p] /\ x.rev = desired_rev[p]
  BY <1>1, <1>2 DEF PlaylistTypeOK, Marked
<1>5. \A q \in Targets : Pending(q)' => Pending(q)
  BY <1>1, <1>2, <1>3, <1>4 DEF PlaylistTypeOK, Pending
<1>6. SyncedIsDelivered'
  <2> SUFFICES ASSUME NEW q \in Targets, desired_rev[q] > 0, ~Pending(q)'
               PROVE  sc[q] = edited[q] /\ tracks[q] = edited[q]
    BY <1>2 DEF SyncedIsDelivered
  <2>1. CASE ~Pending(q)
    BY <2>1 DEF DInv, SyncedIsDelivered
  <2>2. CASE Pending(q)
    <3>1. q = p /\ x.rev = desired_rev[p]
      BY <1>2, <1>3, <1>4, <2>2 DEF Pending
    <3>2. x.sent = edited[p] /\ sc[p] = x.sent
      BY <1>2, <3>1 DEF DInv, PushesDeliver
    <3> QED
      BY <2>2, <3>1, <3>2 DEF PInv, PendingIsKept
  <2> QED
    BY <2>1, <2>2
<1>7. PushesDeliver'
  <2> SUFFICES ASSUME NEW z \in pushes, z # x
               PROVE  LET q == z.job.key[2]
                      IN q \in Targets /\ (Pending(q)' <=> Pending(q))
    BY <1>2 DEF DInv, PushesDeliver
  <2>1. z.job.key[2] \in Targets
    BY TargetTypes DEF PlaylistTypeOK
  <2>2. z.job.key[2] # p
    BY OnePushOfPlaylist
  <2> QED
    BY <1>2, <1>3, <2>1, <2>2 DEF Pending
<1>8. ReadsAgree'
  <2>1. \A c \in Callers : Reads(c) => requests[c].target \in Targets
    BY RequestTypes DEF Reads, At
  <2> QED
    BY <1>2, <1>5, <2>1 DEF DInv, ReadsAgree, Reads, At
<1> QED
  BY <1>6, <1>7, <1>8 DEF DInv

LEMMA DeliveredNext ==
  ASSUME PlaylistTypeOK, OnePush, BatchSerial, PInv, DInv, OneSide, PlaylistNext
  PROVE  DInv'
<1>1. ASSUME NEW c \in Callers, RequestSteps(c) PROVE DInv'
  <2>1. CASE \/ \E p \in Targets : BeginRead(c, p) \/ BeginEdit(c, p)
             \/ TryLock(c) \/ InEnqueue(c) \/ DropRequest(c)
    <3>1. UNCHANGED <<tracks, desired_rev, synced_rev, edited, sc, pushes>>
      BY <2>1 DEF BeginRead, BeginEdit, Begin, TryLock, InEnqueue, DropRequest, playlistVars,
         tableVars
    <3>2. ASSUME NEW r \in {"lock", "fetch", "mutate"}, NEW q \in Request,
                 q.step = r, requests' = [requests EXCEPT ![c] = q]
          PROVE  Settled
      BY <3>2 DEF Settled, Reads, At, PlaylistTypeOK
    <3>3. Settled
      <4>1. ASSUME NEW p \in Targets, NEW e \in BOOLEAN, NEW st \in {"lock", "mutate"},
                   Begin(c, p, e, st)
            PROVE  Settled
        <5>1. [target |-> p, edit |-> e, step |-> st, got |-> <<>>] \in Request
          BY EditTypes DEF Request
        <5> QED
          BY <3>2, <4>1, <5>1 DEF Begin
      <4>2. ASSUME NEW p \in Targets, BeginRead(c, p) \/ BeginEdit(c, p) PROVE Settled
        BY <4>1, <4>2 DEF BeginRead, BeginEdit
      <4>3. CASE TryLock(c)
        <5>1. requests[c] # NoCall /\ requests[c] \in Request
          BY <4>3 DEF TryLock, At, PlaylistTypeOK
        <5>2. CASE Return(c)
          BY <5>1, <5>2, Returns
        <5>3. CASE GoTo(c, "fetch")
          <6>1. [requests[c] EXCEPT !.step = "fetch"] \in Request
            BY <5>1, RequestTypes
          <6>2. [requests[c] EXCEPT !.step = "fetch"].step = "fetch"
            BY <5>1 DEF Request
          <6> QED
            BY <3>2, <5>3, <6>1, <6>2 DEF GoTo
        <5> QED
          BY <4>3, <5>2, <5>3 DEF TryLock
      <4>4. CASE InEnqueue(c)
        BY <4>4 DEF InEnqueue, playlistVars, Settled
      <4>5. CASE DropRequest(c)
        BY <4>5 DEF DropRequest, playlistVars, Settled, Reads, At, PlaylistTypeOK
      <4> QED
        BY <2>1, <4>2, <4>3, <4>4, <4>5
    <3> QED
      BY <3>1, <3>3, DeliveredFrame
  <2> QED
    BY <1>1, <2>1, FetchDelivers, ReplaceDelivers, MutateDelivers DEF RequestSteps
<1>2. ASSUME \/ \E w \in Workers : FlushSteps(w)
             \/ \E j \in jobs : PushFails(j) \/ Finish(j)
             \/ \E p \in Targets : HealPlaylist(p) \/ LockExpires(p) \/ ScEdit(p)
             \/ Upkeep
      PROVE  DInv'
  <2>1. /\ pushes' \subseteq pushes
        /\ UNCHANGED <<tracks, desired_rev, synced_rev, edited, sc, requests>>
    BY <1>2 DEF FlushSteps, PushFails, Finish, HealPlaylist, LockExpires, ScEdit, OneSide,
       Upkeep, playlistVars, tableVars
  <2> QED
    BY <2>1, DeliveredFrame DEF Settled
<1> QED
  BY <1>1, <1>2, SendsDeliver, MarkDelivers DEF PlaylistNext

\* Once nothing is pending, SoundCloud and the table have the list of the last edit:
\* however edits, refreshes, attempts, their losses and their retries interleave, if
\* no refresh overlaps an edit, the list is edited here alone, and one process
\* flushes the outbox (replace_tracks, desired_snapshot, mark_synced_if_unchanged).
THEOREM SyncedDelivered ==
  ASSUME OneSide
  PROVE  PlaylistSpec => []SyncedIsDelivered
<1>1. PlaylistInit => DInv
  <2> SUFFICES ASSUME PlaylistInit PROVE DInv
    OBVIOUS
  <2>1. \A c \in Callers : ~Reads(c)
    BY DEF PlaylistInit, Reads, At
  <2> QED
    BY <2>1 DEF PlaylistInit, DInv, SyncedIsDelivered, PushesDeliver, ReadsAgree
<1>2. PlaylistTypeOK /\ OnePush /\ BatchSerial /\ PInv /\ DInv /\ [PlaylistNext]_allVars
      => DInv'
  <2> SUFFICES ASSUME PlaylistTypeOK, OnePush, BatchSerial, PInv, DInv, [PlaylistNext]_allVars
               PROVE  DInv'
    OBVIOUS
  <2>1. CASE PlaylistNext
    BY <2>1, DeliveredNext
  <2>2. CASE UNCHANGED allVars
    BY <2>2, DeliveredFrame DEF allVars, playlistVars, Settled
  <2> QED
    BY <2>1, <2>2
<1>3. PlaylistSpec => []BatchSerial
  BY PlaylistsAreSyncQueue, BatchSerialised, PTL
<1>4. DInv => SyncedIsDelivered
  BY DEF DInv
<1> QED
  BY <1>1, <1>2, <1>3, <1>4, PlaylistTypeCorrect, PlaylistInductive, PTL DEF PlaylistSpec

=============================================================================
