---------------------------- MODULE LikeSyncProofs ----------------------------
(* Likes use the outbox as SyncQueue allows, so what is proved of the outbox   *)
(* holds of them; what the answers of SoundCloud may do to the mirror; and the *)
(* refreshes of Reconcile, whatever they read.                                 *)
EXTENDS Reconcile, SyncQueueProofs, FiniteSetTheorems

LEMMA LikeActions ==
  /\ Like \in Actions /\ Unlike \in Actions
  /\ \A a \in Actions : PayloadFor(a) = {NoPayload}
BY LikeAssumption DEF PayloadFor

\* Every step of the likes is a step of the outbox, or leaves it as it is.
LEMMA LikeStepImplements ==
  ASSUME LikeTypeOK, LikeNext
  PROVE  Next \/ UNCHANGED vars
<1> USE LikeActions DEF LikeTypeOK
<1>1. ASSUME NEW c \in Callers, NEW a \in Actions, NEW t \in Targets,
             BeginEnqueue(c, <<a, t>>, NoPayload)
      PROVE  Next
  <2>1. <<a, t>> \in Key /\ NoPayload \in PayloadFor(<<a, t>>[1])
    BY DEF Key
  <2>2. Enqueue(c)
    BY <1>1, <2>1 DEF Enqueue
  <2> QED
    BY <2>2 DEF Next
<1>2. ASSUME NEW c \in Callers, NEW t \in Targets, RequestLike(c, t) \/ RequestUnlike(c, t)
      PROVE  Next \/ UNCHANGED vars
  BY <1>1, <1>2 DEF RequestLike, RequestUnlike
<1>3. ASSUME NEW c \in Callers, WriteUnlike(c) \/ InEnqueue(c) \/ DropRequest(c)
      PROVE  Next \/ UNCHANGED vars
  <2>1. CASE WriteUnlike(c)
    <3>1. requests[c].target \in Targets
      BY <2>1 DEF WriteUnlike, Request
    <3> QED
      BY <1>1, <2>1, <3>1 DEF WriteUnlike
  <2>2. CASE InEnqueue(c)
    BY <2>2 DEF InEnqueue, Enqueue, Next
  <2>3. CASE DropRequest(c)
    BY <2>3 DEF DropRequest, Enqueue, Next
  <2> QED
    BY <1>3, <2>1, <2>2, <2>3
<1>4. ASSUME NEW w \in Workers, FlushSteps(w) PROVE Next
  BY <1>4 DEF FlushSteps, Flush, Next
<1>5. ASSUME NEW j \in jobs,
             ScAnswers(j) \/ Confirm(j) \/ ScRefuses(j) \/ AnswerLost(j) \/ Finish(j)
      PROVE  Next \/ UNCHANGED vars
  <2>1. CASE ScAnswers(j)
    BY <2>1 DEF ScAnswers
  <2>2. CASE Confirm(j)
    BY <2>2 DEF Confirm, Next
  <2>3. CASE ScRefuses(j) \/ AnswerLost(j)
    BY <2>3 DEF ScRefuses, AnswerLost, Next
  <2>4. CASE Finish(j)
    BY <2>4 DEF Finish, Settle, Next
  <2> QED
    BY <1>5, <2>1, <2>2, <2>3, <2>4
<1>6. ASSUME NEW t \in Targets, HealMirror(t) PROVE Next
  <2>1. PICK k \in Key : Heal(k)
    BY <1>6 DEF HealMirror, Key
  <2> QED
    BY <2>1 DEF Maintain, Next
<1>7. CASE Upkeep
  BY <1>7 DEF Upkeep, Maintain, Next
<1> QED
  BY <1>2, <1>3, <1>4, <1>5, <1>6, <1>7 DEF LikeNext

-----------------------------------------------------------------------------
(* Types, and: an answered attempt is still running.                          *)

AckedRunning == \A j \in acked : j \in jobs /\ j.phase = "running"

LEMMA MirrorTypes ==
  /\ Synced \in MirrorRow
  /\ \A m \in MirrorRow \cup {Absent} : SetWanted(m) \in MirrorRow
  /\ \A m, r \in MirrorRow \cup {Absent} : ClearWanted(r, m) \in MirrorRow \cup {Absent}
  /\ \A j : \A m \in MirrorRow \cup {Absent} : Confirmed(j, m) \in MirrorRow \cup {Absent}
BY DEF Synced, SetWanted, ClearWanted, Confirmed, MirrorRow

LEMMA AckedNext ==
  ASSUME TypeOK, AckedRunning, LikeNext
  PROVE  AckedRunning'
<1>1. CASE UNCHANGED <<jobs, acked>>
  BY <1>1 DEF AckedRunning
<1>2. ASSUME NEW w \in Workers, FlushSteps(w) PROVE AckedRunning'
  <2>1. ASSUME NEW S \in SUBSET Key, Claim(w, S), UNCHANGED acked PROVE AckedRunning'
    BY <2>1 DEF Claim, AckedRunning
  <2>2. ASSUME NEW K \in SUBSET jobs, Dedup(w, K), UNCHANGED acked PROVE AckedRunning'
    BY <2>2 DEF Dedup, Picked, AckedRunning
  <2>3. CASE WorkerLost(w) /\ acked' = {j \in acked : j.worker # w}
    BY <2>3 DEF WorkerLost, AckedRunning
  <2> QED
    BY <1>2, <2>1, <2>2, <2>3 DEF FlushSteps, likeVars
<1>3. ASSUME NEW j \in jobs,
             ScAnswers(j) \/ Confirm(j) \/ ScRefuses(j) \/ AnswerLost(j) \/ Finish(j)
      PROVE  AckedRunning'
  <2>1. CASE ScAnswers(j)
    BY <2>1 DEF ScAnswers, Unasked, AckedRunning, vars
  <2>2. CASE Confirm(j) \/ AnswerLost(j)
    BY <2>2 DEF Confirm, AnswerLost, AttemptOk, AttemptFails, SetPhase, AckedRunning
  <2>3. CASE ScRefuses(j)
    BY <2>3 DEF ScRefuses, Unasked, AttemptFails, SetPhase, AckedRunning, likeVars
  <2>4. CASE Finish(j)
    BY <2>4 DEF Finish, DeleteIfUnchanged, ExternalBackoff, RetryBackoff, ParkDead,
                SettleFails, AckedRunning, likeVars
  <2> QED
    BY <1>3, <2>1, <2>2, <2>3, <2>4
<1> QED
  BY <1>1, <1>2, <1>3 DEF LikeNext, RequestLike, RequestUnlike, WriteUnlike, InEnqueue,
     DropRequest, HealMirror, Upkeep, BeginEnqueue, CancelInverse, InsertRow, DropCall,
     Heal, LeaseExpires, DeleteOldDead, AdminFlush, AdminPurge, vars, likeVars

LEMMA LikeTypeNext ==
  ASSUME LikeTypeOK, AckedRunning, LikeNext
  PROVE  LikeTypeOK'
<1> USE DEF LikeTypeOK
<1>1. TypeOK'
  BY LikeStepImplements, TypeNext DEF TypeOK, vars
<1>2. acked' \subseteq jobs'
  BY AckedNext DEF AckedRunning
<1>3. ASSUME NEW j \in jobs,
             ScAnswers(j) \/ Confirm(j) \/ ScRefuses(j) \/ AnswerLost(j) \/ Finish(j)
      PROVE  /\ mirror' \in [Targets -> MirrorRow \cup {Absent}]
             /\ sc' \in [Targets -> BOOLEAN]
             /\ requests' = requests
  <2>1. j.key[2] \in Targets
    BY DEF TypeOK, Job, Key
  <2>2. IsLike(j) \in BOOLEAN
    BY DEF IsLike
  <2>3. CASE ScAnswers(j)
    BY <2>1, <2>2, <2>3 DEF ScAnswers
  <2>4. CASE Confirm(j)
    BY <2>1, <2>4, MirrorTypes DEF Confirm
  <2>5. CASE ScRefuses(j) \/ AnswerLost(j) \/ Finish(j)
    BY <2>5 DEF ScRefuses, AnswerLost, Finish, likeVars
  <2> QED
    BY <1>3, <2>3, <2>4, <2>5
<1>4. ASSUME NEW c \in Callers, NEW t \in Targets, RequestLike(c, t) \/ RequestUnlike(c, t)
      PROVE  /\ mirror' \in [Targets -> MirrorRow \cup {Absent}]
             /\ sc' = sc
             /\ requests' \in [Callers -> Request \cup {NoCall}]
  BY <1>4, MirrorTypes DEF RequestLike, RequestUnlike, Request
<1>5. ASSUME NEW c \in Callers, WriteUnlike(c) \/ InEnqueue(c) \/ DropRequest(c)
      PROVE  /\ mirror' \in [Targets -> MirrorRow \cup {Absent}]
             /\ sc' = sc
             /\ requests' \in [Callers -> Request \cup {NoCall}]
  <2>1. CASE WriteUnlike(c)
    <3>1. requests[c].target \in Targets /\ requests[c].read \in MirrorRow \cup {Absent}
      BY <2>1 DEF WriteUnlike, Request
    <3> QED
      BY <2>1, <3>1, MirrorTypes DEF WriteUnlike
  <2>2. CASE InEnqueue(c) \/ DropRequest(c)
    BY <2>2 DEF InEnqueue, DropRequest, likeVars
  <2> QED
    BY <1>5, <2>1, <2>2
<1> QED
  BY <1>1, <1>2, <1>3, <1>4, <1>5 DEF LikeNext, FlushSteps, HealMirror, Upkeep, likeVars

\* The mirror, SoundCloud's state and the requests keep their shapes.
THEOREM LikeTypeCorrect == LikeSpec => [](LikeTypeOK /\ AckedRunning)
<1>1. LikeInit => LikeTypeOK /\ AckedRunning
  BY MirrorTypes DEF LikeInit, Init, LikeTypeOK, TypeOK, AckedRunning
<1>2. LikeTypeOK /\ AckedRunning /\ [LikeNext]_allVars => (LikeTypeOK /\ AckedRunning)'
  <2> SUFFICES ASSUME LikeTypeOK, AckedRunning, [LikeNext]_allVars
               PROVE  (LikeTypeOK /\ AckedRunning)'
    OBVIOUS
  <2>1. CASE LikeNext
    BY <2>1, LikeTypeNext, AckedNext DEF LikeTypeOK
  <2>2. CASE UNCHANGED allVars
    BY <2>2 DEF allVars, vars, likeVars, LikeTypeOK, TypeOK, AckedRunning
  <2> QED
    BY <2>1, <2>2
<1> QED
  BY <1>1, <1>2, PTL DEF LikeSpec

-----------------------------------------------------------------------------
\* The likes are written as steps of the outbox, so what is proved of it holds of them.
LEMMA LikesAreSyncQueue == LikeSpec => Spec
<1>1. LikeInit => Init
  BY DEF LikeInit
<1>2. LikeTypeOK /\ [LikeNext]_allVars => [Next]_vars
  BY LikeStepImplements DEF allVars
<1> QED
  BY <1>1, <1>2, LikeTypeCorrect, PTL DEF LikeSpec, Spec

\* Hence no like or unlike leaves the outbox unsent unless it was unclaimed or purged.
THEOREM LikesLeaveSafely == LikeSpec => RowsLeaveSafely
BY LikesAreSyncQueue, RowsLeave, PTL

LEMMA IntentNext ==
  ASSUME LikeTypeOK, LikeNext
  PROVE  IntentStep
<1> USE NullAssumption, AbsentAssumption DEF LikeTypeOK, TypeOK
<1> SUFFICES ASSUME NEW t \in Targets, Wanted(t)' # Wanted(t)
             PROVE  calls' # calls
  BY DEF IntentStep
<1>1. mirror' # mirror
  BY DEF Wanted
<1>2. ASSUME NEW c \in Callers, NEW k \in Key, BeginEnqueue(c, k, NoPayload)
      PROVE  calls' # calls
  <2>1. calls[c] = NoCall
    BY <1>2 DEF BeginEnqueue
  <2>2. calls'[c] = [key |-> k, payload |-> NoPayload, step |-> "cancel"]
    BY <1>2 DEF BeginEnqueue
  <2>3. calls'[c] \in Call
    BY <2>2 DEF Call
  <2> QED
    BY <2>1, <2>3
<1>3. ASSUME NEW c \in Callers, NEW u \in Targets, RequestLike(c, u) PROVE calls' # calls
  BY <1>2, <1>3, LikeActions DEF RequestLike, Key
<1>4. ASSUME NEW c \in Callers, WriteUnlike(c) PROVE calls' # calls
  <2>1. requests[c].target \in Targets
    BY <1>4 DEF WriteUnlike, Request
  <2> QED
    BY <1>2, <1>4, <2>1, LikeActions DEF WriteUnlike, Key
<1>5. ASSUME NEW j \in jobs, Confirm(j) PROVE FALSE
  <2>1. IsLike(j) \in BOOLEAN
    BY DEF IsLike
  <2>2. ASSUME NEW m \in MirrorRow
        PROVE  IF Confirmed(j, m) = Absent THEN ~m.wanted ELSE Confirmed(j, m).wanted = m.wanted
    <3>1. /\ m # Absent /\ m.wanted \in BOOLEAN
          /\ Synced # Absent /\ Synced.wanted = TRUE
      <4>1. m # Absent /\ Synced # Absent
        BY MirrorTypes
      <4>2. m.wanted \in BOOLEAN /\ Synced.wanted = TRUE
        BY DEF MirrorRow, Synced
      <4> QED
        BY <4>1, <4>2
    <3>2. CASE m.wanted # IsLike(j)
      BY <3>1, <3>2 DEF Confirmed
    <3>3. CASE m.wanted = IsLike(j) /\ IsLike(j)
      BY <3>1, <3>3 DEF Confirmed
    <3>4. CASE m.wanted = IsLike(j) /\ ~IsLike(j)
      BY <3>1, <3>4 DEF Confirmed
    <3> QED
      BY <2>1, <3>1, <3>2, <3>3, <3>4
  <2>3. Confirmed(j, Absent) = Absent
    BY DEF Confirmed
  <2>4. /\ mirror[t] \in MirrorRow \cup {Absent}
        /\ mirror'[t] = mirror[t] \/ mirror'[t] = Confirmed(j, mirror[t])
    <3>1. mirror' = [mirror EXCEPT ![j.key[2]] = Confirmed(j, mirror[j.key[2]])]
      BY <1>5 DEF Confirm
    <3> QED
      BY <3>1
  <2>5. CASE mirror[t] = Absent
    BY <1>1, <2>3, <2>4, <2>5 DEF Wanted
  <2>6. CASE mirror[t] \in MirrorRow /\ mirror'[t] = Confirmed(j, mirror[t])
    <3>1. CASE mirror'[t] = Absent
      BY <2>2, <2>6, <3>1 DEF Wanted
    <3>2. CASE mirror'[t] # Absent
      BY <2>2, <2>6, <3>2 DEF Wanted
    <3> QED
      BY <3>1, <3>2
  <2> QED
    BY <2>4, <2>5, <2>6 DEF Wanted
<1> QED
  BY <1>1, <1>3, <1>4, <1>5 DEF LikeNext, RequestUnlike, InEnqueue, DropRequest, FlushSteps,
     ScAnswers, ScRefuses, AnswerLost, Finish, HealMirror, Upkeep, likeVars

\* An answer of SoundCloud never changes what the user wants.
THEOREM IntentKept == LikeSpec => IntentIsTheUsers
<1>1. LikeTypeOK /\ [LikeNext]_allVars => [IntentStep]_allVars
  BY IntentNext
<1> QED
  BY <1>1, LikeTypeCorrect, PTL DEF LikeSpec, IntentIsTheUsers

-----------------------------------------------------------------------------
(* One process flushes: between SoundCloud's answer and the mirror's update    *)
(* no other attempt on the target runs.                                        *)

LEMMA AnswerNext ==
  ASSUME \A v, w \in Workers : v = w,
         LikeTypeOK, AckedRunning, BatchSerial, AnswerIsCurrent, LikeNext
  PROVE  AnswerIsCurrent'
<1> USE DEF LikeTypeOK, TypeOK
<1>1. CASE UNCHANGED sc /\ acked' \subseteq acked
  BY <1>1 DEF AnswerIsCurrent, IsLike
<1>2. ASSUME NEW j \in jobs, ScAnswers(j) PROVE AnswerIsCurrent'
  <2>1. \A i \in jobs : i.worker = j.worker
    BY DEF Job
  <2>2. ASSUME NEW i \in acked PROVE i.key[2] # j.key[2]
    <3>1. i \in jobs /\ i.phase = "running" /\ j.phase = "running" /\ i # j
      BY <1>2, <2>2 DEF AckedRunning, ScAnswers, Unasked
    <3> QED
      BY <2>1, <3>1 DEF BatchSerial
  <2>3. j.key[2] \in Targets
    BY DEF Job, Key
  <2>4. \A i \in acked : sc'[i.key[2]] = IsLike(i)
    BY <1>2, <2>2 DEF ScAnswers, AnswerIsCurrent, Job, Key
  <2>5. sc'[j.key[2]] = IsLike(j)
    BY <1>2, <2>3 DEF ScAnswers
  <2> QED
    BY <1>2, <2>4, <2>5 DEF ScAnswers, AnswerIsCurrent, IsLike
<1> QED
  BY <1>1, <1>2 DEF LikeNext, RequestLike, RequestUnlike, WriteUnlike, InEnqueue,
     DropRequest, FlushSteps, Confirm, ScRefuses, AnswerLost, Finish, HealMirror, Upkeep,
     likeVars

\* With one flushing process, an answer is still true when the mirror hears of it.
THEOREM AnswersCurrent ==
  ASSUME \A v, w \in Workers : v = w
  PROVE  LikeSpec => []AnswerIsCurrent
<1>1. LikeInit => AnswerIsCurrent
  BY DEF LikeInit, AnswerIsCurrent
<1>2. LikeTypeOK /\ AckedRunning /\ BatchSerial /\ AnswerIsCurrent /\ [LikeNext]_allVars
      => AnswerIsCurrent'
  BY AnswerNext DEF allVars, likeVars, AnswerIsCurrent, IsLike
<1>3. LikeSpec => []BatchSerial
  BY LikesAreSyncQueue, BatchSerialised, PTL
<1> QED
  BY <1>1, <1>2, <1>3, LikeTypeCorrect, PTL DEF LikeSpec

-----------------------------------------------------------------------------
(* No wish is lost for good.                                                  *)

\* Every flush, request and attempt is carried out, and no request overlaps
\* another, or an attempt, of its target.
Spared == {"answer", "lost", "drop", "overlap"} \cap faults = {}

Asks(c, t) ==
  \/ requests[c] # NoCall /\ requests[c].target = t
  \/ calls[c] # NoCall /\ calls[c].key[2] = t

\* A call that may still have to remove the opposite row.
Cancels(t) ==
  \E c \in Callers : calls[c] # NoCall /\ calls[c].key[2] = t /\ calls[c].step = "cancel"

\* Whether the key's action is what the mirror wants.
Fits(k) == k[1] = Like <=> Wanted(k[2])

RequestsAlone ==
  \A t \in Targets :
    /\ \A c, d \in Callers : Asks(c, t) /\ Asks(d, t) => c = d
    /\ Requested(t) => ~InFlight(t)

\* clear_wanted has read what the mirror still has; an action is enqueued for the
\* wish that the mirror still has, ...
AskedFits ==
  \A c \in Callers :
    /\ requests[c] # NoCall => requests[c].read = mirror[requests[c].target]
    /\ calls[c] # NoCall => Fits(calls[c].key)

\* ... and so are the rows, unless the opposite one is about to be removed.
RowsFit == \A k \in Rows : Cancels(k[2]) \/ Fits(k)
JobsFit == \A j \in jobs : Fits(j.key)

\* A wish that is not in progress is what SoundCloud has; one that is in progress
\* is the opposite, until an answer of SoundCloud is on its way to the mirror.
MirrorAgrees ==
  \A t \in Targets :
    /\ mirror[t] # Absent => Wanted(t) \/ Pending(t)
    /\ ~Pending(t) => sc[t] = Wanted(t)
    /\ Pending(t) => sc[t] # Wanted(t) \/ \E j \in acked : j.key[2] = t

Core == RequestsAlone /\ AskedFits /\ RowsFit /\ JobsFit /\ MirrorAgrees /\ AnswerIsCurrent

LossInv == Spared => Core

\* What a step of the outbox that is no request does to its rows and jobs.
OutboxMoves ==
  /\ UNCHANGED <<calls, likeVars>>
  /\ \A k \in Key : queue'[k] # NoRow =>
       /\ queue[k] # NoRow \/ Fits(k)
       /\ queue'[k].lockedBy # Nobody =>
            (queue[k] # NoRow /\ queue[k].lockedBy # Nobody) \/ ~Requested(k[2])
  /\ \A j \in jobs' : \/ \E i \in jobs : i.key = j.key
                      \/ j.key \in Rows /\ ~Requested(j.key[2])

LEMMA KeyParts ==
  /\ \A k \in Key : k = <<k[1], k[2]>> /\ k[1] \in {Like, Unlike} /\ k[2] \in Targets
  /\ \A t \in Targets : <<Like, t>> \in Key /\ <<Unlike, t>> \in Key
BY LikeAssumption DEF Key

LEMMA OutboxCore ==
  ASSUME LikeTypeOK, LikeTypeOK', Core, OutboxMoves
  PROVE  Core'
<1> USE DEF OutboxMoves, likeVars
<1>1. \A j \in jobs : j.key \in Key
  BY DEF LikeTypeOK, TypeOK, Job
<1>2. \A j \in jobs' : j.key \in Key
  BY DEF LikeTypeOK, TypeOK, Job
<1>3. RequestsAlone'
  <2>1. \A t \in Targets : Requested(t)' <=> Requested(t)
    BY DEF Requested
  <2>2. \A c \in Callers, t \in Targets : Asks(c, t)' <=> Asks(c, t)
    BY DEF Asks
  <2>3. ASSUME NEW t \in Targets, Requested(t), InFlight(t)' PROVE FALSE
    <3>1. ~InFlight(t)
      BY <2>3 DEF Core, RequestsAlone
    <3>2. CASE \E j \in jobs' : j.key[2] = t
      BY <2>3, <3>1, <3>2 DEF InFlight
    <3>3. CASE \E k \in Rows' : k[2] = t /\ queue'[k].lockedBy # Nobody
      BY <2>3, <3>1, <3>3 DEF InFlight, Rows
    <3> QED
      BY <2>3, <3>2, <3>3 DEF InFlight
  <2> QED
    BY <2>1, <2>2, <2>3 DEF Core, RequestsAlone
<1>4. AskedFits'
  BY DEF Core, AskedFits, Fits, Wanted
<1>5. RowsFit'
  BY DEF Core, RowsFit, Rows, Fits, Wanted, Cancels
<1>6. JobsFit'
  <2>1. ASSUME NEW k \in Rows, ~Requested(k[2]) PROVE Fits(k)
    BY <2>1 DEF Core, RowsFit, Cancels, Requested
  <2>2. \A j \in jobs' : Fits(j.key)
    BY <2>1 DEF Core, JobsFit
  <2> QED
    BY <2>2 DEF JobsFit, Fits, Wanted
<1>7. MirrorAgrees'
  BY DEF Core, MirrorAgrees, Pending, Wanted
<1>8. AnswerIsCurrent'
  BY DEF Core, AnswerIsCurrent, IsLike
<1> QED
  BY <1>3, <1>4, <1>5, <1>6, <1>7, <1>8 DEF Core

LEMMA OutboxStepsMove ==
  ASSUME LikeTypeOK, Spared,
         \/ \E w \in Workers : FlushSteps(w)
         \/ \E j \in jobs : ScRefuses(j) \/ Finish(j)
         \/ \E t \in Targets : HealMirror(t)
         \/ Upkeep
  PROVE  OutboxMoves
<1> USE NullAssumption DEF LikeTypeOK, TypeOK, OutboxMoves, likeVars
<1>1. ASSUME NEW w \in Workers, FlushSteps(w) PROVE OutboxMoves
  <2>1. ASSUME NEW S \in SUBSET Key, Claim(w, S), Undisturbed(S), UNCHANGED likeVars
        PROVE  OutboxMoves
    <3>1. \A k \in S : k \in Rows /\ ~Requested(k[2])
      BY <2>1 DEF Claim, Claimable, Undisturbed, Spared
    <3>2. \A k \in Key \ S : queue'[k] = queue[k]
      BY <2>1 DEF Claim
    <3>3. \A k \in S : queue[k] # NoRow
      BY <3>1 DEF Rows
    <3>4. \A j \in jobs' : j \in jobs \/ \E k \in S : j.key = k
      <4>1. \A k \in S : JobFor(w, k).key = k
        BY DEF JobFor
      <4>2. jobs' = jobs \cup {JobFor(w, k) : k \in S}
        BY <2>1 DEF Claim
      <4> QED
        BY <4>1, <4>2
    <3>5. UNCHANGED calls
      BY <2>1 DEF Claim
    <3> QED
      BY <2>1, <3>1, <3>2, <3>3, <3>4, <3>5
  <2>2. ASSUME NEW K \in SUBSET jobs, Dedup(w, K), UNCHANGED likeVars PROVE OutboxMoves
    <3>1. \A j \in K : [j EXCEPT !.phase = "running"].key = j.key
      BY DEF Job
    <3>2. \A j \in jobs' : \E i \in jobs : i.key = j.key
      <4>1. /\ jobs' = (jobs \ Picked(w)) \cup {[j EXCEPT !.phase = "running"] : j \in K}
            /\ K \subseteq jobs
        BY <2>2 DEF Dedup
      <4> QED
        BY ONLY <3>1, <4>1
    <3>3. ASSUME NEW ids, NEW k \in Key
          PROVE  \/ Release(ids)[k] = queue[k]
                 \/ queue[k] \in Row /\ Release(ids)[k] = Unlocked(queue[k])
      BY DEF Release
    <3>4. \A k \in Key : \/ queue'[k] = queue[k]
                         \/ queue[k] \in Row /\ queue'[k] = Unlocked(queue[k])
      <4>1. CASE UNCHANGED queue
        BY <4>1
      <4>2. CASE queue' = Release({j.id : j \in Picked(w) \ K})
        BY <3>3, <4>2
      <4> QED
        BY <2>2, <4>1, <4>2 DEF Dedup
    <3>5. UNCHANGED calls
      BY <2>2 DEF Dedup
    <3> QED
      BY <2>2, <3>2, <3>4, <3>5, RowShapes
  <2>3. CASE "lost" \in faults
    BY <2>3 DEF Spared
  <2> QED
    BY <1>1, <2>1, <2>2, <2>3 DEF FlushSteps
<1>2. ASSUME NEW j \in jobs, ScRefuses(j) PROVE OutboxMoves
  <2>1. [j EXCEPT !.phase = "failed"].key = j.key
    BY DEF Job
  <2> QED
    BY <1>2, <2>1 DEF ScRefuses, AttemptFails, SetPhase
<1>3. ASSUME NEW j \in jobs, Finish(j) PROVE OutboxMoves
  <2>1. jobs' \subseteq jobs /\ UNCHANGED <<calls, likeVars>>
    BY <1>3 DEF Finish, DeleteIfUnchanged, ExternalBackoff, RetryBackoff, ParkDead, SettleFails
  <2>2. j.key \in Key
    BY DEF Job
  <2>3. ASSUME NEW r, queue' = UpdateById(j, r), SameRow(j) => r.lockedBy = Nobody
        PROVE  OutboxMoves
    BY <2>1, <2>2, <2>3 DEF UpdateById, SameRow
  <2>4. SameRow(j) => queue[j.key] \in Row
    BY <2>2 DEF SameRow
  <2>5. CASE DeleteIfUnchanged(j)
    BY <2>1, <2>2, <2>5 DEF DeleteIfUnchanged
  <2>6. CASE ExternalBackoff(j)
    BY <2>3, <2>4, <2>6, RowShapes DEF ExternalBackoff
  <2>7. CASE RetryBackoff(j)
    <3>1. \A r \in Row : [Unlocked(r) EXCEPT !.retries = @ + 1].lockedBy = Nobody
      BY RowTypes, RowShapes DEF Row
    <3> QED
      BY <2>3, <2>4, <2>7, <3>1 DEF RetryBackoff
  <2>8. CASE ParkDead(j)
    <3>1. \A r \in Row : \A n :
            [Unlocked(r) EXCEPT !.dead = TRUE, !.retries = n].lockedBy = Nobody
      BY RowTypes, RowShapes DEF Row
    <3> QED
      BY <2>3, <2>4, <2>8, <3>1 DEF ParkDead
  <2>9. CASE SettleFails(j)
    BY <2>1, <2>9 DEF SettleFails
  <2> QED
    BY <1>3, <2>5, <2>6, <2>7, <2>8, <2>9 DEF Finish
<1>4. ASSUME NEW t \in Targets, HealMirror(t) PROVE OutboxMoves
  <2> DEFINE k == <<IF Wanted(t) THEN Like ELSE Unlike, t>>
  <2>1. k \in Key /\ Fits(k)
    BY KeyParts, LikeAssumption DEF Fits
  <2>2. PICK id \in Ids :
          queue' = [queue EXCEPT ![k] =
                      IF @ = NoRow THEN NewRow(id, NoPayload)
                      ELSE [Unlocked(@) EXCEPT !.dead = FALSE, !.retries = 0]]
    BY <1>4, IdTypes DEF HealMirror, Heal
  <2>3. \A r \in Row : [Unlocked(r) EXCEPT !.dead = FALSE, !.retries = 0].lockedBy = Nobody
    BY RowTypes, RowShapes DEF Row
  <2>4. UNCHANGED <<jobs, calls, likeVars>>
    BY <1>4 DEF HealMirror, Heal
  <2> HIDE DEF k
  <2>5. queue'[k].lockedBy = Nobody /\ \A l \in Key : l # k => queue'[l] = queue[l]
    BY <2>1, <2>2, <2>3, RowShapes
  <2> QED
    BY <2>1, <2>4, <2>5
<1>5. CASE Upkeep
  <2>1. UNCHANGED <<jobs, calls, likeVars>>
    BY <1>5 DEF Upkeep, LeaseExpires, DeleteOldDead, AdminFlush, AdminPurge
  <2>2. \A k \in Key : \/ queue'[k] = queue[k] \/ queue'[k] = NoRow
                       \/ queue[k] \in Row /\ queue'[k] = Unlocked(queue[k])
                       \/ queue[k] \in Row /\ queue'[k] = [queue[k] EXCEPT !.live = FALSE]
    BY <1>5 DEF Upkeep, LeaseExpires, Leased, DeleteOldDead, AdminFlush, AdminPurge
  <2>3. \A r \in Row : [r EXCEPT !.live = FALSE].lockedBy = r.lockedBy
    BY DEF Row
  <2>4. ASSUME NEW k \in Key, queue'[k] # NoRow
        PROVE  queue[k] # NoRow /\ queue'[k].lockedBy \in {Nobody, queue[k].lockedBy}
    <3>1. CASE queue'[k] = queue[k]
      BY <2>4, <3>1
    <3>2. CASE queue[k] \in Row /\ queue'[k] = Unlocked(queue[k])
      BY <3>2, RowShapes
    <3>3. CASE queue[k] \in Row /\ queue'[k] = [queue[k] EXCEPT !.live = FALSE]
      BY <2>3, <3>3
    <3> QED
      BY <2>2, <2>4, <3>1, <3>2, <3>3
  <2> QED
    BY <2>1, <2>4
<1> QED
  BY <1>1, <1>2, <1>3, <1>4, <1>5

\* Nothing is done, or answered, for a target that a request may change.
LEMMA NothingInFlight ==
  ASSUME LikeTypeOK, NEW t \in Targets, ~InFlight(t)
  PROVE  /\ \A j \in jobs : j.key[2] # t
         /\ \A j \in acked : j.key[2] # t
         /\ \A k \in Rows : k[2] = t => queue[k].lockedBy = Nobody
BY DEF InFlight, LikeTypeOK

\* A request whose write to the mirror agrees with it and leaves the other
\* targets alone.
LEMMA RequestCore ==
  ASSUME LikeTypeOK, Core, NEW c \in Callers, NEW t \in Targets, NEW op \in {Like, Unlike},
         BeginEnqueue(c, <<op, t>>, NoPayload),
         UNCHANGED <<sc, acked>>,
         \A d \in Callers : requests'[d] = IF d = c THEN NoCall ELSE requests[d],
         \A d \in Callers \ {c} : ~Asks(d, t),
         ~InFlight(t),
         \A u \in Targets \ {t} : mirror'[u] = mirror[u],
         Wanted(t)' <=> op = Like,
         mirror'[t] # Absent => Wanted(t)' \/ Pending(t)',
         sc[t] = (IF Pending(t)' THEN ~Wanted(t)' ELSE Wanted(t)')
  PROVE  Core'
<1> USE NullAssumption DEF LikeTypeOK, TypeOK
<1> DEFINE call == [key |-> <<op, t>>, payload |-> NoPayload, step |-> "cancel"]
<1>1. /\ calls'[c] = call /\ \A d \in Callers \ {c} : calls'[d] = calls[d]
      /\ UNCHANGED <<queue, jobs>>
  BY DEF BeginEnqueue
<1>2. /\ call # NoCall /\ call.key = <<op, t>> /\ call.key[1] = op /\ call.key[2] = t
      /\ call.step = "cancel"
  <2>1. call \in Call
    BY KeyParts DEF Call
  <2> QED
    BY <2>1
<1> HIDE DEF call
<1>3. /\ \A d \in Callers \ {c}, u \in Targets : Asks(d, u)' <=> Asks(d, u)
      /\ \A u \in Targets : Asks(c, u)' <=> u = t
  BY <1>1, <1>2 DEF Asks
<1>4. \A u \in Targets : InFlight(u)' <=> InFlight(u)
  BY <1>1 DEF InFlight, Rows
<1>5. RequestsAlone'
  <2>1. \A u \in Targets : Requested(u)' => u = t \/ Requested(u)
    BY <1>3 DEF Requested, Asks
  <2> QED
    BY <1>3, <1>4, <2>1 DEF Core, RequestsAlone
<1>6. \A k \in Key : k[2] # t => (Fits(k)' <=> Fits(k))
  BY KeyParts DEF Fits, Wanted
<1>7. AskedFits'
  <2>1. ASSUME NEW d \in Callers, requests'[d] # NoCall
        PROVE  requests'[d].read = mirror'[requests'[d].target]
    <3>1. /\ d # c /\ requests'[d] = requests[d]
          /\ requests[d] # NoCall /\ requests[d] \in Request
      BY <2>1
    <3>2. requests[d].target \in Targets \ {t}
      BY <3>1 DEF Request, Asks
    <3> QED
      BY <3>1, <3>2 DEF Core, AskedFits
  <2>2. ASSUME NEW d \in Callers, calls'[d] # NoCall PROVE Fits(calls[d].key)'
    <3>1. CASE d = c
      BY <1>1, <1>2, <3>1, LikeAssumption DEF Fits
    <3>2. CASE d # c
      <4>1. /\ calls'[d] = calls[d] /\ calls[d] # NoCall
            /\ calls[d] \in Call /\ calls[d].key \in Key
        BY <1>1, <2>2, <3>2 DEF Call
      <4>2. calls[d].key[2] # t
        BY <3>2, <4>1 DEF Asks
      <4> QED
        BY <1>6, <4>1, <4>2 DEF Core, AskedFits, Fits
    <3> QED
      BY <3>1, <3>2
  <2> QED
    BY <2>1, <2>2 DEF AskedFits, Fits
<1>8. RowsFit'
  <2>1. Cancels(t)'
    BY <1>1, <1>2 DEF Cancels
  <2>2. ASSUME NEW k \in Rows, k[2] # t PROVE Cancels(k[2])' \/ Fits(k)'
    <3>1. Cancels(k[2]) \/ Fits(k)
      BY DEF Core, RowsFit
    <3>2. Cancels(k[2]) => Cancels(k[2])'
      <4>1. ASSUME NEW d \in Callers, calls[d] # NoCall, calls[d].key[2] = k[2],
                   calls[d].step = "cancel"
            PROVE  Cancels(k[2])'
        <5>1. d # c
          BY <4>1 DEF BeginEnqueue
        <5> QED
          BY <1>1, <4>1, <5>1 DEF Cancels
      <4> QED
        BY <4>1 DEF Cancels
    <3> QED
      BY <1>6, <2>2, <3>1, <3>2 DEF Rows
  <2> QED
    BY <1>1, <2>1, <2>2 DEF RowsFit, Rows, Fits
<1>9. JobsFit'
  <2>1. \A j \in jobs : j.key[2] # t /\ j.key \in Key
    BY NothingInFlight DEF Job
  <2> QED
    BY <1>1, <1>6, <2>1 DEF Core, JobsFit, Fits
<1>10. MirrorAgrees'
  <2>1. ASSUME NEW u \in Targets, u # t
        PROVE  /\ mirror'[u] # Absent => Wanted(u)' \/ Pending(u)'
               /\ ~Pending(u)' => sc'[u] = Wanted(u)'
               /\ Pending(u)' => sc'[u] # Wanted(u)' \/ \E j \in acked' : j.key[2] = u
    BY <2>1 DEF Core, MirrorAgrees, Wanted, Pending
  <2>2. /\ mirror'[t] # Absent => Wanted(t)' \/ Pending(t)'
        /\ ~Pending(t)' => sc'[t] = Wanted(t)'
        /\ Pending(t)' => sc'[t] # Wanted(t)'
    <3>1. Wanted(t)' \in BOOLEAN /\ sc' = sc
      BY DEF Wanted
    <3> QED
      BY <3>1
  <2> QED
    BY <2>1, <2>2 DEF MirrorAgrees, Wanted, Pending
<1>11. AnswerIsCurrent'
  BY DEF Core, AnswerIsCurrent, IsLike
<1> QED
  BY <1>5, <1>7, <1>8, <1>9, <1>10, <1>11 DEF Core

\* What the two requests write to the mirror.
LEMMA MirrorWrites ==
  ASSUME NEW m \in MirrorRow \cup {Absent}, NEW s \in BOOLEAN,
         m = Absent => ~s,
         m # Absent => (m.wanted \/ m.progress) /\ (s <=> (m.wanted <=> ~m.progress))
  PROVE  /\ SetWanted(m) # Absent /\ SetWanted(m).wanted = TRUE
         /\ s <=> ~SetWanted(m).progress
         /\ ClearWanted(m, m) = Absent => ~s
         /\ ClearWanted(m, m) # Absent =>
              /\ ClearWanted(m, m).wanted = FALSE
              /\ ClearWanted(m, m).progress = TRUE
              /\ s <=> ClearWanted(m, m).progress
<1> USE AbsentAssumption
<1>1. CASE m = Absent
  BY <1>1, MirrorTypes DEF SetWanted, ClearWanted
<1>2. CASE m # Absent
  <2>1. m.wanted \in BOOLEAN /\ m.progress \in BOOLEAN
    BY <1>2 DEF MirrorRow
  <2>2. SetWanted(m) # Absent
    BY MirrorTypes
  <2>3. SetWanted(m).wanted = TRUE /\ SetWanted(m).progress = (m.wanted /\ m.progress)
    BY <1>2 DEF SetWanted
  <2>4. CASE m.wanted = FALSE
    BY <1>2, <2>1, <2>2, <2>3, <2>4 DEF ClearWanted
  <2>5. CASE m.wanted = TRUE /\ m.progress = TRUE
    BY <1>2, <2>1, <2>2, <2>3, <2>5 DEF ClearWanted
  <2>6. CASE m.wanted = TRUE /\ m.progress = FALSE
    <3>1. ClearWanted(m, m) = [wanted |-> FALSE, progress |-> TRUE]
      BY <1>2, <2>6 DEF ClearWanted
    <3>2. ClearWanted(m, m) # Absent
      <4>1. [wanted |-> FALSE, progress |-> TRUE] \in MirrorRow
        BY DEF MirrorRow
      <4> QED
        BY <3>1, <4>1
    <3> QED
      BY <1>2, <2>1, <2>2, <2>3, <2>6, <3>1, <3>2
  <2> QED
    BY <2>1, <2>4, <2>5, <2>6
<1> QED
  BY <1>1, <1>2

\* The mirror of a target that nobody works on says what SoundCloud has.
LEMMA MirrorTold ==
  ASSUME LikeTypeOK, Core, NEW t \in Targets, ~InFlight(t)
  PROVE  /\ mirror[t] = Absent => ~sc[t]
         /\ mirror[t] # Absent =>
              /\ mirror[t].wanted \/ mirror[t].progress
              /\ sc[t] <=> (mirror[t].wanted <=> ~mirror[t].progress)
<1>1. sc[t] \in BOOLEAN /\ (mirror[t] # Absent => /\ mirror[t].wanted \in BOOLEAN
                                                  /\ mirror[t].progress \in BOOLEAN)
  BY DEF LikeTypeOK, MirrorRow
<1>2. /\ mirror[t] # Absent => Wanted(t) \/ Pending(t)
      /\ ~Pending(t) => sc[t] = Wanted(t)
      /\ Pending(t) => sc[t] # Wanted(t)
  BY NothingInFlight DEF Core, MirrorAgrees
<1> QED
  BY <1>1, <1>2 DEF Wanted, Pending

LEMMA RequestLikeKeeps ==
  ASSUME LikeTypeOK, Core, Spared, NEW c \in Callers, NEW t \in Targets, RequestLike(c, t)
  PROVE  Core'
<1>1. /\ ~InFlight(t) /\ ~Requested(t)
      /\ BeginEnqueue(c, <<Like, t>>, NoPayload)
      /\ mirror' = [mirror EXCEPT ![t] = SetWanted(mirror[t])]
      /\ UNCHANGED <<sc, requests, acked>> /\ requests[c] = NoCall
  BY DEF RequestLike, Offered, Spared, Idle
<1>2. mirror'[t] = SetWanted(mirror[t]) /\ \A u \in Targets \ {t} : mirror'[u] = mirror[u]
  BY <1>1 DEF LikeTypeOK
<1>3. mirror[t] \in MirrorRow \cup {Absent} /\ sc[t] \in BOOLEAN
  BY DEF LikeTypeOK
<1>4. /\ mirror'[t] # Absent /\ mirror'[t].wanted = TRUE
      /\ sc[t] <=> ~mirror'[t].progress
  BY <1>1, <1>2, <1>3, MirrorWrites, MirrorTold
<1>5. Wanted(t)' /\ (sc[t] <=> ~Pending(t)')
  BY <1>4 DEF Wanted, Pending
<1>6. sc[t] = (IF Pending(t)' THEN ~Wanted(t)' ELSE Wanted(t)')
  BY <1>3, <1>5 DEF Wanted
<1>7. \A d \in Callers \ {c} : ~Asks(d, t)
  BY <1>1 DEF Requested, Asks
<1> QED
  BY <1>1, <1>2, <1>4, <1>5, <1>6, <1>7, RequestCore

LEMMA WriteUnlikeKeeps ==
  ASSUME LikeTypeOK, Core, NEW c \in Callers, WriteUnlike(c)
  PROVE  Core'
<1> USE NullAssumption, AbsentAssumption, LikeAssumption
<1>1. PICK t : t = requests[c].target
  OBVIOUS
<1>2. /\ requests[c] # NoCall /\ requests[c] \in Request /\ t \in Targets
      /\ requests[c].read = mirror[t]
  BY <1>1 DEF WriteUnlike, LikeTypeOK, Request, Core, AskedFits
<1>3. ~InFlight(t) /\ \A d \in Callers \ {c} : ~Asks(d, t)
  BY <1>1, <1>2 DEF Core, RequestsAlone, Requested, Asks
<1>4. /\ BeginEnqueue(c, <<Unlike, t>>, NoPayload)
      /\ mirror' = [mirror EXCEPT ![t] = ClearWanted(mirror[t], mirror[t])]
      /\ requests' = [requests EXCEPT ![c] = NoCall]
      /\ UNCHANGED <<sc, acked>>
  BY <1>1, <1>2 DEF WriteUnlike
<1>5. /\ mirror'[t] = ClearWanted(mirror[t], mirror[t])
      /\ \A u \in Targets \ {t} : mirror'[u] = mirror[u]
      /\ \A d \in Callers : requests'[d] = IF d = c THEN NoCall ELSE requests[d]
  BY <1>2, <1>4 DEF LikeTypeOK
<1>6. mirror[t] \in MirrorRow \cup {Absent} /\ sc[t] \in BOOLEAN
  BY <1>2 DEF LikeTypeOK
<1>7. /\ mirror'[t] = Absent => ~sc[t]
      /\ mirror'[t] # Absent =>
           /\ mirror'[t].wanted = FALSE /\ mirror'[t].progress = TRUE
           /\ sc[t] <=> mirror'[t].progress
  BY <1>2, <1>3, <1>5, <1>6, MirrorWrites, MirrorTold
<1>8. ~Wanted(t)' /\ (sc[t] <=> Pending(t)') /\ (mirror'[t] # Absent => Pending(t)')
  BY <1>7 DEF Wanted, Pending
<1>9. sc[t] = (IF Pending(t)' THEN ~Wanted(t)' ELSE Wanted(t)')
  BY <1>6, <1>8 DEF Wanted
<1> QED
  BY <1>2, <1>3, <1>4, <1>5, <1>7, <1>8, <1>9, RequestCore

LEMMA RequestUnlikeKeeps ==
  ASSUME LikeTypeOK, Core, Spared, NEW c \in Callers, NEW t \in Targets, RequestUnlike(c, t)
  PROVE  Core'
<1> USE NullAssumption, AbsentAssumption DEF LikeTypeOK, TypeOK
<1>1. /\ ~InFlight(t) /\ ~Requested(t)
      /\ requests' = [requests EXCEPT ![c] = [target |-> t, read |-> mirror[t]]]
      /\ UNCHANGED <<queue, jobs, calls, mirror, sc, acked>>
      /\ requests[c] = NoCall /\ calls[c] = NoCall
  BY DEF RequestUnlike, Offered, Spared, Idle, vars
<1>2. /\ requests'[c].target = t /\ requests'[c].read = mirror[t] /\ requests'[c] # NoCall
      /\ \A d \in Callers \ {c} : requests'[d] = requests[d]
  <2>1. [target |-> t, read |-> mirror[t]] \in Request
    BY DEF Request
  <2> QED
    BY <1>1, <2>1
<1>3. /\ \A d \in Callers \ {c}, u \in Targets : Asks(d, u)' <=> Asks(d, u)
      /\ \A u \in Targets : Asks(c, u)' <=> u = t
  BY <1>1, <1>2 DEF Asks
<1>4. RequestsAlone'
  <2>1. \A u \in Targets : InFlight(u)' <=> InFlight(u)
    BY <1>1 DEF InFlight, Rows
  <2>2. \A u \in Targets : Requested(u)' => u = t \/ Requested(u)
    BY <1>3 DEF Requested, Asks
  <2>3. \A d \in Callers : ~Asks(d, t)
    BY <1>1 DEF Requested, Asks
  <2> QED
    BY <1>1, <1>3, <2>1, <2>2, <2>3 DEF Core, RequestsAlone
<1>5. AskedFits'
  BY <1>1, <1>2 DEF Core, AskedFits, Fits, Wanted
<1>6. RowsFit' /\ JobsFit'
  BY <1>1 DEF Core, RowsFit, JobsFit, Rows, Fits, Wanted, Cancels
<1>7. MirrorAgrees' /\ AnswerIsCurrent'
  BY <1>1 DEF Core, MirrorAgrees, AnswerIsCurrent, IsLike, Pending, Wanted
<1> QED
  BY <1>4, <1>5, <1>6, <1>7 DEF Core

LEMMA Opposites ==
  \A k \in Key :
    /\ HasInverse(k) /\ InverseKey(k) \in Key /\ InverseKey(k)[2] = k[2]
    /\ \A l \in Key : l[2] = k[2] => l = k \/ l = InverseKey(k)
    /\ Fits(k) => ~Fits(InverseKey(k))
<1> USE LikeAssumption, InverseAssumption
<1>1. \A t \in Targets : /\ InverseKey(<<Like, t>>) = <<Unlike, t>>
                         /\ InverseKey(<<Unlike, t>>) = <<Like, t>>
  BY DEF InverseKey
<1>2. \A k \in Key : HasInverse(k)
  BY KeyParts DEF HasInverse
<1>3. \A t \in Targets : Fits(<<Like, t>>) <=> ~Fits(<<Unlike, t>>)
  BY DEF Fits
<1> SUFFICES ASSUME NEW k \in Key
             PROVE  /\ HasInverse(k) /\ InverseKey(k) \in Key /\ InverseKey(k)[2] = k[2]
                    /\ \A l \in Key : l[2] = k[2] => l = k \/ l = InverseKey(k)
                    /\ Fits(k) => ~Fits(InverseKey(k))
  OBVIOUS
<1>4. PICK t \in Targets : k = <<Like, t>> \/ k = <<Unlike, t>>
  BY KeyParts
<1>5. \A l \in Key : l[2] = t => l = <<Like, t>> \/ l = <<Unlike, t>>
  BY KeyParts
<1>6. <<Like, t>>[2] = t /\ <<Unlike, t>>[2] = t
  OBVIOUS
<1>7. InverseKey(k) \in Key /\ InverseKey(k)[2] = k[2]
  BY <1>1, <1>4, <1>6, KeyParts
<1>8. \A l \in Key : l[2] = k[2] => l = k \/ l = InverseKey(k)
  BY <1>1, <1>4, <1>5, <1>6
<1>9. Fits(k) => ~Fits(InverseKey(k))
  BY <1>1, <1>3, <1>4
<1> QED
  BY <1>2, <1>7, <1>8, <1>9

LEMMA CancelKeeps ==
  ASSUME LikeTypeOK, Core, NEW c \in Callers, CancelInverse(c), UNCHANGED likeVars
  PROVE  Core'
<1> USE NullAssumption DEF LikeTypeOK, TypeOK, likeVars
<1>1. PICK k : k = calls[c].key
  OBVIOUS
<1>2. /\ calls[c] # NoCall /\ calls[c] \in Call /\ k \in Key /\ Fits(k)
      /\ k[2] \in Targets
  BY <1>1, KeyParts DEF CancelInverse, Call, Core, AskedFits
<1>3. ~InFlight(k[2]) /\ \A d \in Callers \ {c} : ~Asks(d, k[2])
  BY <1>1, <1>2 DEF Core, RequestsAlone, Requested, Asks
<1>4. /\ \A l \in Key : queue'[l] = queue[l] \/ queue'[l] = NoRow
      /\ queue'[InverseKey(k)] = NoRow
      /\ UNCHANGED jobs
      /\ \A d \in Callers \ {c} : calls'[d] = calls[d]
      /\ \/ calls'[c] = NoCall
         \/ calls'[c] = [calls[c] EXCEPT !.step = "insert"]
  <2>1. queue[InverseKey(k)] # NoRow => Cancellable(InverseKey(k))
    BY <1>2, <1>3, Opposites, NothingInFlight DEF Cancellable, Rows
  <2> QED
    BY <1>1, <1>2, <2>1, Opposites DEF CancelInverse, Cancellable
<1>5. calls'[c] # NoCall => calls'[c].key = k
  BY <1>1, <1>2, <1>4 DEF Call
<1>6. \A d \in Callers, t \in Targets : Asks(d, t)' => Asks(d, t)
  BY <1>1, <1>2, <1>4, <1>5 DEF Asks
<1>7. RequestsAlone'
  <2>1. \A t \in Targets : Requested(t)' => Requested(t)
    BY <1>6 DEF Requested, Asks
  <2>2. \A t \in Targets : InFlight(t)' => InFlight(t)
    BY <1>4 DEF InFlight, Rows
  <2> QED
    BY <1>6, <2>1, <2>2 DEF Core, RequestsAlone
<1>8. AskedFits'
  BY <1>2, <1>4, <1>5 DEF Core, AskedFits, Fits, Wanted
<1>9. RowsFit'
  <2>1. ASSUME NEW l \in Key, queue'[l] # NoRow PROVE Cancels(l[2])' \/ Fits(l)
    <3>1. queue[l] # NoRow /\ l # InverseKey(k) /\ (Cancels(l[2]) \/ Fits(l))
      BY <1>4, <2>1 DEF Core, RowsFit, Rows
    <3>2. CASE l[2] = k[2]
      BY <1>2, <3>1, <3>2, Opposites
    <3>3. CASE l[2] # k[2]
      <4>1. ASSUME NEW d \in Callers, calls[d] # NoCall, calls[d].key[2] = l[2],
                   calls[d].step = "cancel"
            PROVE  Cancels(l[2])'
        BY <1>1, <1>4, <3>3, <4>1 DEF Cancels
      <4> QED
        BY <3>1, <4>1 DEF Cancels
    <3> QED
      BY <3>2, <3>3
  <2> QED
    BY <2>1 DEF RowsFit, Rows, Fits, Wanted
<1>10. JobsFit' /\ MirrorAgrees' /\ AnswerIsCurrent'
  BY <1>4 DEF Core, JobsFit, MirrorAgrees, AnswerIsCurrent, IsLike, Pending, Wanted, Fits
<1> QED
  BY <1>7, <1>8, <1>9, <1>10 DEF Core

LEMMA InsertKeeps ==
  ASSUME LikeTypeOK, Core, NEW c \in Callers, InsertRow(c), UNCHANGED likeVars
  PROVE  Core'
<1> USE NullAssumption DEF LikeTypeOK, TypeOK, likeVars
<1>1. PICK k : k = calls[c].key
  OBVIOUS
<1>2. /\ calls[c] # NoCall /\ calls[c] \in Call /\ k \in Key /\ Fits(k)
      /\ k[2] \in Targets /\ calls[c].step = "insert"
  BY <1>1, KeyParts DEF InsertRow, Call, Core, AskedFits
<1>3. ~InFlight(k[2])
  BY <1>1, <1>2 DEF Core, RequestsAlone, Requested
<1>4. /\ \A l \in Key \ {k} : queue'[l] = queue[l]
      /\ queue'[k].lockedBy = Nobody
      /\ UNCHANGED jobs
      /\ calls'[c] = NoCall
      /\ \A d \in Callers \ {c} : calls'[d] = calls[d]
  <2>1. \A p : \A r \in Row : Refreshed(r, p).lockedBy = Nobody
    BY RowShapes
  <2>2. /\ queue' = [queue EXCEPT ![k] = IF queue[k] = NoRow THEN NewRow(FreshId, calls[c].payload)
                                         ELSE Refreshed(queue[k], calls[c].payload)]
        /\ UNCHANGED jobs /\ calls' = [calls EXCEPT ![c] = NoCall]
    BY <1>1 DEF InsertRow
  <2>3. queue[k] = NoRow \/ queue[k] \in Row
    BY <1>2
  <2> QED
    BY <1>2, <2>1, <2>2, <2>3, RowShapes
<1>5. \A d \in Callers, t \in Targets : Asks(d, t)' => Asks(d, t)
  BY <1>4 DEF Asks
<1>6. RequestsAlone'
  <2>1. \A t \in Targets : Requested(t)' => Requested(t)
    BY <1>5 DEF Requested, Asks
  <2>2. \A t \in Targets : InFlight(t)' => InFlight(t)
    BY <1>4 DEF InFlight, Rows
  <2> QED
    BY <1>5, <2>1, <2>2 DEF Core, RequestsAlone
<1>7. AskedFits'
  BY <1>4 DEF Core, AskedFits, Fits, Wanted
<1>8. RowsFit'
  <2>1. \A t \in Targets : Cancels(t) => Cancels(t)'
    BY <1>2, <1>4 DEF Cancels
  <2>2. ASSUME NEW l \in Key, queue'[l] # NoRow PROVE Cancels(l[2])' \/ Fits(l)
    BY <1>2, <1>4, <2>1, <2>2, KeyParts DEF Core, RowsFit, Rows
  <2> QED
    BY <2>2 DEF RowsFit, Rows, Fits, Wanted
<1>9. JobsFit' /\ MirrorAgrees' /\ AnswerIsCurrent'
  BY <1>4 DEF Core, JobsFit, MirrorAgrees, AnswerIsCurrent, IsLike, Pending, Wanted, Fits
<1> QED
  BY <1>6, <1>7, <1>8, <1>9 DEF Core

LEMMA AnswerKeeps ==
  ASSUME LikeTypeOK, Core, NEW j \in jobs, ScAnswers(j)
  PROVE  Core'
<1> USE DEF LikeTypeOK, TypeOK
<1>1. /\ sc' = [sc EXCEPT ![j.key[2]] = IsLike(j)] /\ acked' = acked \cup {j}
      /\ UNCHANGED <<queue, jobs, calls, mirror, requests>>
  BY DEF ScAnswers, vars
<1>2. j.key[2] \in Targets /\ IsLike(j) = Wanted(j.key[2])
  <2>1. j.key \in Key
    BY DEF Job
  <2>2. IsLike(j) \in BOOLEAN /\ Wanted(j.key[2]) \in BOOLEAN
    BY KeyParts, <2>1 DEF IsLike, Wanted, MirrorRow
  <2> QED
    BY KeyParts, <2>1, <2>2 DEF Core, JobsFit, Fits, IsLike
<1>3. \A i \in jobs : i.key[2] \in Targets
  BY KeyParts DEF Job
<1>4. RequestsAlone' /\ AskedFits' /\ RowsFit' /\ JobsFit'
  BY <1>1 DEF Core, RequestsAlone, AskedFits, RowsFit, JobsFit, Asks, Requested, InFlight,
              Rows, Fits, Wanted, Cancels
<1>5. ASSUME NEW t \in Targets
      PROVE  /\ mirror[t] # Absent => Wanted(t) \/ Pending(t)
             /\ ~Pending(t) => sc'[t] = Wanted(t)
             /\ Pending(t) => sc'[t] # Wanted(t) \/ \E i \in acked' : i.key[2] = t
  BY <1>1, <1>2 DEF Core, MirrorAgrees
<1>6. MirrorAgrees'
  BY <1>1, <1>5 DEF MirrorAgrees, Pending, Wanted
<1>7. ASSUME NEW i \in acked' PROVE sc'[i.key[2]] = IsLike(i)
  <2>1. i.key[2] = j.key[2] => IsLike(i) = IsLike(j)
    <3>1. i \in jobs /\ IsLike(i) \in BOOLEAN /\ IsLike(j) \in BOOLEAN
      BY <1>1 DEF IsLike
    <3> QED
      BY <3>1 DEF Core, JobsFit, Fits, IsLike
  <2> QED
    BY <1>1, <1>2, <1>3, <2>1 DEF Core, AnswerIsCurrent
<1> QED
  BY <1>4, <1>6, <1>7 DEF Core, AnswerIsCurrent, IsLike

LEMMA ConfirmKeeps ==
  ASSUME LikeTypeOK, Core, NEW j \in jobs, Confirm(j)
  PROVE  Core'
<1> USE DEF LikeTypeOK, TypeOK
<1>1. PICK t : t = j.key[2]
  OBVIOUS
<1>2. j.key \in Key /\ t \in Targets /\ j \in acked
  BY <1>1, KeyParts DEF Job, Confirm
<1>3. /\ mirror' = [mirror EXCEPT ![t] = Confirmed(j, mirror[t])] /\ acked' = acked \ {j}
      /\ UNCHANGED <<queue, calls, sc, requests>>
  BY <1>1 DEF Confirm, AttemptOk
<1>4. \A i \in jobs' : \E h \in jobs : i.key = h.key
  <2>1. [j EXCEPT !.phase = "ok"].key = j.key
    BY DEF Job
  <2> QED
    BY <2>1 DEF Confirm, AttemptOk, SetPhase
<1>5. \A h \in jobs : \E i \in jobs' : i.key = h.key
  <2>1. [j EXCEPT !.phase = "ok"].key = j.key
    BY DEF Job
  <2> QED
    BY <2>1 DEF Confirm, AttemptOk, SetPhase
<1>6. (IsLike(j) <=> Wanted(t)) /\ (sc[t] <=> IsLike(j)) /\ ~Requested(t)
  BY <1>1, <1>2 DEF Core, JobsFit, Fits, IsLike, AnswerIsCurrent, RequestsAlone, InFlight
<1>7. mirror'[t] = IF IsLike(j) THEN Synced ELSE Absent
  <2>1. mirror[t] # Absent => mirror[t].wanted \in BOOLEAN
    BY <1>2 DEF MirrorRow
  <2>2. mirror'[t] = Confirmed(j, mirror[t])
    BY <1>2, <1>3
  <2>3. IsLike(j) \in BOOLEAN
    BY DEF IsLike
  <2> QED
    BY <1>6, <2>1, <2>2, <2>3 DEF Confirmed, Wanted
<1>8. /\ \A u \in Targets : Wanted(u)' = Wanted(u)
      /\ ~Pending(t)' /\ (mirror'[t] # Absent => Wanted(t)')
      /\ \A u \in Targets \ {t} : mirror'[u] = mirror[u]
  <2>1. Synced # Absent
    BY MirrorTypes, AbsentAssumption
  <2>2. Synced.wanted = TRUE /\ Synced.progress = FALSE
    BY DEF Synced
  <2>3. /\ Wanted(t)' = IsLike(j) /\ ~Pending(t)'
        /\ mirror'[t] # Absent => Wanted(t)'
    BY <1>7, <2>1, <2>2 DEF Wanted, Pending, IsLike
  <2>4. \A u \in Targets \ {t} : mirror'[u] = mirror[u]
    BY <1>2, <1>3
  <2>5. Wanted(t)' = Wanted(t)
    BY <1>6, <2>3 DEF Wanted, IsLike
  <2> QED
    BY <2>3, <2>4, <2>5 DEF Wanted
<1>9. \A k \in Key : Fits(k)' <=> Fits(k)
  BY <1>8, KeyParts DEF Fits
<1>10. RequestsAlone'
  BY <1>3, <1>4 DEF Core, RequestsAlone, Requested, Asks, InFlight, Rows
<1>11. AskedFits'
  <2>1. ASSUME NEW c \in Callers, requests[c] # NoCall
        PROVE  requests[c].read = mirror'[requests[c].target]
    <3>1. requests[c].target \in Targets \ {t}
      BY <1>6, <2>1 DEF Requested, Request
    <3> QED
      BY <1>8, <2>1, <3>1 DEF Core, AskedFits
  <2>2. ASSUME NEW c \in Callers, calls[c] # NoCall PROVE calls[c].key \in Key
    BY <2>2 DEF Call
  <2> QED
    BY <1>3, <1>9, <2>1, <2>2 DEF Core, AskedFits, Fits
<1>12. RowsFit'
  BY <1>3, <1>9 DEF Core, RowsFit, Rows, Fits, Cancels
<1>13. JobsFit'
  <2>1. \A h \in jobs : h.key \in Key
    BY DEF Job
  <2> QED
    BY <1>4, <1>9, <2>1 DEF Core, JobsFit, Fits
<1>14. ASSUME NEW u \in Targets
       PROVE  /\ mirror'[u] # Absent => Wanted(u)' \/ Pending(u)'
              /\ ~Pending(u)' => sc'[u] = Wanted(u)'
              /\ Pending(u)' => sc'[u] # Wanted(u)' \/ \E i \in acked' : i.key[2] = u
  <2>1. CASE u = t
    <3>1. sc[t] \in BOOLEAN /\ Wanted(t) \in BOOLEAN
      BY <1>2 DEF Wanted, MirrorRow
    <3> QED
      BY <1>3, <1>6, <1>8, <2>1, <3>1
  <2>2. CASE u # t
    <3>1. mirror'[u] = mirror[u] /\ (Pending(u)' <=> Pending(u)) /\ Wanted(u)' = Wanted(u)
      BY <1>8, <2>2 DEF Pending
    <3>2. (\E i \in acked : i.key[2] = u) => \E i \in acked' : i.key[2] = u
      BY <1>1, <1>3, <2>2
    <3> QED
      BY <1>3, <3>1, <3>2 DEF Core, MirrorAgrees
  <2> QED
    BY <2>1, <2>2
<1>15. MirrorAgrees'
  BY <1>14 DEF MirrorAgrees, Pending, Wanted
<1>16. AnswerIsCurrent'
  BY <1>3 DEF Core, AnswerIsCurrent, IsLike
<1> QED
  BY <1>10, <1>11, <1>12, <1>13, <1>15, <1>16 DEF Core

LEMMA CoreNext ==
  ASSUME LikeTypeOK, LikeTypeOK', Core, Spared, LikeNext
  PROVE  Core'
<1>1. ASSUME NEW c \in Callers, InEnqueue(c) PROVE Core'
  BY <1>1, CancelKeeps, InsertKeeps DEF InEnqueue
<1>2. \A c \in Callers : ~DropRequest(c)
  BY DEF DropRequest, Spared
<1>3. \A j \in jobs : ~AnswerLost(j)
  BY DEF AnswerLost, Spared
<1> QED
  BY <1>1, <1>2, <1>3, RequestLikeKeeps, RequestUnlikeKeeps, WriteUnlikeKeeps, AnswerKeeps,
     ConfirmKeeps, OutboxStepsMove, OutboxCore DEF LikeNext

LEMMA LossStep ==
  ASSUME LikeTypeOK, AckedRunning, LossInv, LikeNext
  PROVE  LossInv'
<1>1. UNCHANGED faults
  BY DEF LikeNext, RequestLike, RequestUnlike, WriteUnlike, InEnqueue, DropRequest, FlushSteps,
         ScAnswers, Confirm, ScRefuses, AnswerLost, Finish, HealMirror, Upkeep, likeVars
<1> QED
  BY <1>1, CoreNext, LikeTypeNext DEF LossInv, Spared

LEMMA LossStart ==
  ASSUME LikeInit
  PROVE  LossInv
<1> USE DEF LikeInit, Init
<1>1. RequestsAlone /\ AskedFits
  BY DEF RequestsAlone, AskedFits, Asks, Requested
<1>2. RowsFit /\ JobsFit /\ AnswerIsCurrent
  BY DEF RowsFit, JobsFit, Rows, AnswerIsCurrent
<1>3. MirrorAgrees
  <2>1. Synced # Absent /\ Synced.wanted = TRUE /\ Synced.progress = FALSE
    <3>1. Synced # Absent
      BY MirrorTypes, AbsentAssumption
    <3> QED
      BY <3>1 DEF Synced
  <2>2. ASSUME NEW t \in Targets
        PROVE  ~Pending(t) /\ sc[t] = Wanted(t) /\ (mirror[t] # Absent => Wanted(t))
    BY <2>1 DEF Pending, Wanted
  <2> QED
    BY <2>2 DEF MirrorAgrees
<1> QED
  BY <1>1, <1>2, <1>3 DEF LossInv, Core

\* With nothing in progress, what the mirror wants is what SoundCloud has.
LEMMA NothingLost ==
  ASSUME Core
  PROVE  NoPermanentLoss
BY DEF Core, MirrorAgrees, NoPermanentLoss, AtRest

\* If no request, flush or answer is dropped and no two requests of a target, nor
\* a request and an attempt, overlap, no wish is lost: however SoundCloud refuses
\* and an admin purges, and whenever heal runs.
THEOREM NoWishLost == LikeSpec => [](Spared => NoPermanentLoss)
<1>1. LikeInit => LossInv
  BY LossStart
<1>2. LikeTypeOK /\ AckedRunning /\ LossInv /\ [LikeNext]_allVars => LossInv'
  <2> SUFFICES ASSUME LikeTypeOK, AckedRunning, LossInv, [LikeNext]_allVars
               PROVE  LossInv'
    OBVIOUS
  <2>1. CASE LikeNext
    BY <2>1, LossStep
  <2>2. CASE UNCHANGED allVars
    BY <2>2 DEF allVars, vars, likeVars, LossInv, Spared, Core, RequestsAlone, AskedFits,
       RowsFit, JobsFit, MirrorAgrees, AnswerIsCurrent, Asks, Requested, InFlight, Rows,
       Fits, Wanted, Pending, Cancels, IsLike
  <2> QED
    BY <2>1, <2>2
<1>3. LossInv => (Spared => NoPermanentLoss)
  BY NothingLost DEF LossInv
<1> QED
  BY <1>1, <1>2, <1>3, LikeTypeCorrect, PTL DEF LikeSpec

----------------------------------------------------------------------------
(* Refreshes of the likes: the outbox and the wishes that are still on their   *)
(* way stay out of their reach.                                                *)

RefreshStep ==
  \/ \E t \in Targets : WebChanges(t) \/ ListingCatchesUp(t)
  \/ \E r \in Refreshers :
       \/ \E old \in SUBSET Targets : StartRefresh(r, old)
       \/ RefreshSteps(r) \/ RefreshFails(r)

\* A step is one of the likes, or one of a refresh, the listing or the website.
LEMMA LikesOrRefresh ==
  ASSUME ReconcileNext
  PROVE  LikeNext \/ RefreshStep
<1>1. ASSUME NEW c \in Callers, NEW t \in Targets, UserActs(c, t) PROVE LikeNext
  BY <1>1 DEF UserActs, LikeNext
<1>2. CASE Likes
  BY <1>2 DEF Likes, LikeNext
<1> QED
  BY <1>1, <1>2 DEF ReconcileNext, RefreshStep

\* What a refresh, the listing and the website may change of the likes.
LEMMA RefreshTouches ==
  ASSUME LikeTypeOK, RefreshStep
  PROVE  /\ UNCHANGED <<vars, requests, acked>>
         /\ sc' \in [Targets -> BOOLEAN]
         /\ mirror' \in [Targets -> MirrorRow \cup {Absent}]
         /\ \A t \in Targets : Pending(t) => Wanted(t)' = Wanted(t)
<1> USE AbsentAssumption DEF LikeTypeOK
<1>1. ASSUME UNCHANGED mirror
      PROVE  /\ mirror' \in [Targets -> MirrorRow \cup {Absent}]
             /\ \A t \in Targets : Pending(t) => Wanted(t)' = Wanted(t)
  BY <1>1 DEF Wanted
<1>2. ASSUME NEW t \in Targets, WebChanges(t)
      PROVE  UNCHANGED <<vars, requests, acked, mirror>> /\ sc' \in [Targets -> BOOLEAN]
  BY <1>2 DEF WebChanges
<1>3. ASSUME NEW t \in Targets, ListingCatchesUp(t)
      PROVE  UNCHANGED allVars
  BY <1>3 DEF ListingCatchesUp
<1>4. ASSUME NEW r \in Refreshers,
             \/ \E old \in SUBSET Targets : StartRefresh(r, old)
             \/ FetchPage(r) \/ GuardOrphans(r) \/ RefreshFails(r)
      PROVE  UNCHANGED allVars
  BY <1>4 DEF StartRefresh, FetchPage, GuardOrphans, RefreshFails
<1>5. ASSUME NEW r \in Refreshers, UpsertMirror(r)
      PROVE  /\ UNCHANGED <<vars, requests, acked, sc>>
             /\ mirror' \in [Targets -> MirrorRow \cup {Absent}]
             /\ \A t \in Targets : Pending(t) => Wanted(t)' = Wanted(t)
  <2>1. \A m \in MirrorRow \cup {Absent} : Upserted(m) \in MirrorRow \cup {Absent}
    BY MirrorTypes DEF Upserted
  <2>2. /\ UNCHANGED <<vars, requests, acked, sc>>
        /\ mirror' = [t \in Targets |-> IF t \in refresh[r].seen THEN Upserted(mirror[t])
                                                                ELSE mirror[t]]
    BY <1>5 DEF UpsertMirror
  <2>3. ASSUME NEW t \in Targets, Pending(t) PROVE Wanted(t)' = Wanted(t)
    <3>1. mirror[t] # Absent /\ mirror[t] \in MirrorRow
      BY <2>3 DEF Pending
    <3>2. Upserted(mirror[t]) # Absent /\ Upserted(mirror[t]).wanted = mirror[t].wanted
      <4>1. Synced # Absent /\ Synced.wanted = TRUE
        BY MirrorTypes DEF Synced
      <4>2. mirror[t].wanted \in BOOLEAN
        BY <3>1 DEF MirrorRow
      <4> QED
        BY <3>1, <4>1, <4>2 DEF Upserted
    <3> QED
      BY <2>2, <3>1, <3>2 DEF Wanted
  <2> QED
    BY <2>1, <2>2, <2>3
<1>6. ASSUME NEW r \in Refreshers, DeleteOrphans(r)
      PROVE  /\ UNCHANGED <<vars, requests, acked, sc>>
             /\ mirror' \in [Targets -> MirrorRow \cup {Absent}]
             /\ \A t \in Targets : Pending(t) => Wanted(t)' = Wanted(t)
  BY <1>6 DEF DeleteOrphans, Orphan, Wanted
<1> QED
  BY <1>1, <1>2, <1>3, <1>4, <1>5, <1>6
  DEF RefreshStep, RefreshSteps, allVars, likeVars

LEMMA ReconcileTypes == ReconcileSpec => [](LikeTypeOK /\ AckedRunning)
<1>1. ReconcileInit => LikeTypeOK /\ AckedRunning
  BY MirrorTypes DEF ReconcileInit, LikeInit, Init, LikeTypeOK, TypeOK, AckedRunning
<1>2. LikeTypeOK /\ AckedRunning /\ [ReconcileNext]_reconcileVars => (LikeTypeOK /\ AckedRunning)'
  <2> SUFFICES ASSUME LikeTypeOK, AckedRunning, [ReconcileNext]_reconcileVars
               PROVE  (LikeTypeOK /\ AckedRunning)'
    OBVIOUS
  <2>1. CASE LikeNext
    BY <2>1, LikeTypeNext, AckedNext DEF LikeTypeOK
  <2>2. CASE RefreshStep
    BY <2>2, RefreshTouches DEF vars, LikeTypeOK, TypeOK, AckedRunning
  <2>3. CASE UNCHANGED reconcileVars
    BY <2>3 DEF reconcileVars, allVars, vars, likeVars, LikeTypeOK, TypeOK, AckedRunning
  <2> QED
    BY <2>1, <2>2, <2>3, LikesOrRefresh
<1> QED
  BY <1>1, <1>2, PTL DEF ReconcileSpec

-----------------------------------------------------------------------------
\* So are the likes with their refreshes and the website.
LEMMA ReconcileIsSyncQueue == ReconcileSpec => Spec
<1>1. ReconcileInit => Init
  BY DEF ReconcileInit, LikeInit
<1>2. LikeTypeOK /\ [ReconcileNext]_reconcileVars => [Next]_vars
  BY LikesOrRefresh, LikeStepImplements, RefreshTouches DEF reconcileVars, allVars
<1> QED
  BY <1>1, <1>2, ReconcileTypes, PTL DEF ReconcileSpec, Spec

\* Hence a refresh makes no like or unlike leave the outbox unsent.
THEOREM ReconcileLeavesSafely == ReconcileSpec => RowsLeaveSafely
BY ReconcileIsSyncQueue, RowsLeave, PTL

\* A wish that SoundCloud has still to learn is changed by the user's requests
\* alone: no page, complete or cut, raises a pending unlike or deletes a pending
\* like (batch_upsert_mirror, delete_orphans).
PendingStep == \A t \in Targets : Pending(t) /\ Wanted(t)' # Wanted(t) => calls' # calls

PendingIsTheUsers == [][PendingStep]_reconcileVars

THEOREM PendingWishes == ReconcileSpec => PendingIsTheUsers
<1>1. LikeTypeOK /\ [ReconcileNext]_reconcileVars => [PendingStep]_reconcileVars
  <2> SUFFICES ASSUME LikeTypeOK, ReconcileNext PROVE PendingStep
    OBVIOUS
  <2>1. CASE LikeNext
    BY <2>1, IntentNext DEF IntentStep, PendingStep
  <2>2. CASE RefreshStep
    BY <2>2, RefreshTouches DEF PendingStep
  <2> QED
    BY <2>1, <2>2, LikesOrRefresh
<1> QED
  BY <1>1, ReconcileTypes, PTL DEF ReconcileSpec, PendingIsTheUsers

-----------------------------------------------------------------------------
(* No pull loses a wish.                                                      *)

Calm == faults \cap Disturbing = {}

Liked == {t \in Targets : sc[t]}

\* What a refresh has read, and has still to read, is what SoundCloud has: the
\* likes are on the pages to come until they are read; a listing that passes for
\* complete shows them all, or less than half of the likes; what may delete rows
\* has seen them all.
ReadsTruly(r) ==
  refresh[r] # NoRefresh =>
    /\ refresh[r] \in Refresh
    /\ refresh[r].seen \subseteq Liked
    /\ refresh[r].step = "fetch" => Liked \subseteq refresh[r].ahead \cup refresh[r].seen
    /\ refresh[r].step \in {"upsert", "guard"} /\ refresh[r].sure =>
         \/ Liked \subseteq refresh[r].seen
         \/ (refresh[r].got + Cardinality(refresh[r].seen)) * 2 < Steady
    /\ refresh[r].step = "guard" => refresh[r].sure
    /\ refresh[r].step = "delete" => Liked \subseteq refresh[r].seen

ListingInv ==
  /\ listed = sc
  /\ DOMAIN refresh = Refreshers
  /\ \A r \in Refreshers : ReadsTruly(r)

PullInv == Calm => Core /\ ListingInv

\* The refresh stops, or has read what it had read.
ReadsOnly(r) ==
  \/ refresh'[r] = NoRefresh
  \/ refresh'[r] = refresh[r]
  \/ \E S : refresh[r] # NoRefresh /\ refresh'[r] = [refresh[r] EXCEPT !.old = @ \ S]

LEMMA StillReads ==
  ASSUME NEW r \in Refreshers, ReadsTruly(r), ReadsOnly(r), UNCHANGED sc
  PROVE  ReadsTruly(r)'
<1>1. CASE refresh'[r] = NoRefresh \/ refresh'[r] = refresh[r]
  BY <1>1 DEF ReadsTruly, Liked
<1>2. ASSUME NEW S, refresh[r] # NoRefresh, refresh'[r] = [refresh[r] EXCEPT !.old = @ \ S]
      PROVE  ReadsTruly(r)'
  <2>1. refresh[r] \in Refresh
    BY <1>2 DEF ReadsTruly
  <2>2. /\ refresh'[r].step = refresh[r].step /\ refresh'[r].ahead = refresh[r].ahead
        /\ refresh'[r].seen = refresh[r].seen /\ refresh'[r].got = refresh[r].got
        /\ refresh'[r].sure = refresh[r].sure
    BY <1>2, <2>1 DEF Refresh
  <2>3. refresh'[r] \in Refresh
    <3>1. refresh[r].old \ S \in SUBSET Targets
      BY <2>1 DEF Refresh
    <3> QED
      BY <1>2, <2>1, <3>1 DEF Refresh
  <2> QED
    BY <1>2, <2>2, <2>3 DEF ReadsTruly, Liked
<1> QED
  BY <1>1, <1>2 DEF ReadsOnly

LEMMA TouchReads ==
  ASSUME NEW S, Touch(S), ListingInv, UNCHANGED sc
  PROVE  ListingInv'
<1>1. listed' = listed /\ DOMAIN refresh' = Refreshers
  BY DEF Touch
<1>2. ASSUME NEW r \in Refreshers PROVE ReadsOnly(r)
  BY DEF Touch, ReadsOnly, Refreshing
<1> QED
  BY <1>1, <1>2, StillReads DEF ListingInv

LEMMA ListingReads ==
  ASSUME LikeTypeOK, LikeTypeOK', Calm, ListingInv, Listing
  PROVE  ListingInv'
<1> USE DEF LikeTypeOK
<1>1. /\ Refreshing = {} \/ sc' = sc
      /\ listed' = [t \in Targets |-> IF t \in Targets THEN sc'[t] ELSE listed[t]]
      /\ refresh' = [r \in Refreshers |-> Shows(r, {t \in Targets : sc'[t] /\ ~listed[t]})]
  BY DEF Listing, ListingFollows, Calm, Disturbing
<1>2. listed' = sc'
  BY <1>1
<1>3. CASE Refreshing = {}
  <2>1. \A r \in Refreshers : refresh'[r] = NoRefresh
    BY <1>1, <1>3 DEF Shows, At, Refreshing
  <2> QED
    BY <1>1, <1>2, <2>1 DEF ListingInv, ReadsTruly
<1>4. CASE sc' = sc
  <2>1. ASSUME NEW r \in Refreshers PROVE ReadsOnly(r)
    <3>1. {t \in Targets : sc'[t] /\ ~listed[t]} = {}
      BY <1>4 DEF ListingInv
    <3>2. refresh'[r] = Shows(r, {})
      BY <1>1, <3>1
    <3>3. CASE refresh[r] # NoRefresh
      <4>1. refresh[r] \in Refresh
        BY <3>3 DEF ListingInv, ReadsTruly
      <4>2. [refresh[r] EXCEPT !.ahead = @ \ {}] = refresh[r]
        BY <4>1 DEF Refresh
      <4> QED
        BY <3>2, <4>2 DEF Shows, ReadsOnly
    <3>4. CASE refresh[r] = NoRefresh
      BY <3>2, <3>4 DEF Shows, At, Refreshing, ReadsOnly
    <3> QED
      BY <3>3, <3>4
  <2> QED
    BY <1>1, <1>2, <1>4, <2>1, StillReads DEF ListingInv
<1> QED
  BY <1>1, <1>3, <1>4

\* While the likes go on, a refresh has read what SoundCloud has.
LEMMA LikesRead ==
  ASSUME LikeTypeOK, LikeTypeOK', Calm, ListingInv,
         Likes \/ \E c \in Callers, t \in Targets : UserActs(c, t)
  PROVE  ListingInv'
<1>1. CASE UNCHANGED <<sc, listed, refresh>>
  BY <1>1 DEF ListingInv, ReadsTruly, Liked
<1>2. ASSUME NEW c \in Callers, NEW t \in Targets, UserActs(c, t) PROVE ListingInv'
  <2>1. CASE RequestLike(c, t) /\ TouchesLiked(t)
    BY <2>1, TouchReads DEF RequestLike, TouchesLiked
  <2>2. CASE RequestUnlike(c, t) /\ UNCHANGED refreshVars
    BY <1>1, <2>2 DEF RequestUnlike, refreshVars
  <2> QED
    BY <1>2, <2>1, <2>2 DEF UserActs
<1>3. ASSUME NEW j \in jobs, Confirm(j), TouchesConfirmed(j) PROVE ListingInv'
  BY <1>3, TouchReads DEF Confirm, TouchesConfirmed
<1>4. ASSUME NEW j \in jobs, ScRefuses(j) \/ AnswerLost(j) \/ Finish(j), UNCHANGED refreshVars
      PROVE  ListingInv'
  BY <1>1, <1>4 DEF ScRefuses, AnswerLost, Finish, likeVars, refreshVars
<1>5. ASSUME \/ \E c \in Callers : WriteUnlike(c) \/ InEnqueue(c) \/ DropRequest(c)
             \/ \E w \in Workers : FlushSteps(w)
             \/ \E t \in Targets : HealMirror(t)
             \/ Upkeep,
             UNCHANGED refreshVars
      PROVE  ListingInv'
  BY <1>1, <1>5 DEF WriteUnlike, InEnqueue, DropRequest, FlushSteps, HealMirror, Upkeep,
                    likeVars, refreshVars
<1> QED
  BY <1>2, <1>3, <1>4, <1>5, ListingReads DEF Likes

LEMMA Counts ==
  ASSUME NEW S \in SUBSET Targets
  PROVE  Cardinality(S) \in Nat
BY RefreshAssumption, FS_Subset, FS_CardinalityType

\* The refresh fetches; what it has not read yet of L, which the listing shows, may
\* still come.
Awaits(r, L) ==
  /\ At(r, "fetch") /\ refresh[r] \in Refresh
  /\ L \in SUBSET Targets
  /\ \A t \in L : listed[t] /\ t \in refresh[r].ahead \cup refresh[r].seen

\* A page is served, and h is the refresh after it.
Page(r, n, P, next, h) ==
  /\ n \in 0..(Steady - refresh[r].got) /\ P \in SUBSET refresh[r].ahead
  /\ next \in {"new", "same", "none"}
  /\ Served(r, n, P, next)
  /\ h = AfterPage(r, n, P, next)

\* No target of L is missed, unless less than half of the likes were shown.
ShowsAll(r, L, P, h) ==
  /\ h \in Refresh
  /\ h.old = refresh[r].old /\ h.seen = refresh[r].seen \cup Found(P)
  /\ h.step = "fetch" => L \subseteq h.ahead \cup h.seen
  /\ h.step \in {"fetch", "upsert"}
  /\ h.step = "upsert" /\ h.sure =>
       \/ L \subseteq h.seen
       \/ (h.got + Cardinality(h.seen)) * 2 < Steady

\* What a page adds to what has been read.
LEMMA PageReads ==
  ASSUME NEW r \in Refreshers, NEW L, Awaits(r, L),
         NEW n, NEW P, NEW next, NEW h, Page(r, n, P, next, h)
  PROVE  ShowsAll(r, L, P, h)
<1> USE RefreshAssumption
<1> DEFINE size == n + Cardinality(Found(P))
           done == /\ Ends(size, next)
                   /\ refresh[r].got + Cardinality(refresh[r].seen) + size > 0
                   /\ Complete(size, First(r), next)
<1>1. /\ refresh[r] # NoRefresh /\ refresh[r] \in Refresh /\ refresh[r].step = "fetch"
      /\ L \in SUBSET Targets /\ (\A t \in L : listed[t])
      /\ L \subseteq refresh[r].ahead \cup refresh[r].seen
      /\ n \in 0..(Steady - refresh[r].got) /\ P \in SUBSET refresh[r].ahead
      /\ next \in {"new", "same", "none"}
      /\ Served(r, n, P, next) /\ h = AfterPage(r, n, P, next)
  BY DEF Awaits, Page, At, Refreshing
<1>2. /\ refresh[r].got \in 0..Steady /\ refresh[r].seen \in SUBSET Targets
      /\ refresh[r].ahead \in SUBSET Targets /\ refresh[r].old \in SUBSET Targets
  BY <1>1 DEF Refresh
<1>3. /\ Found(P) \in SUBSET Targets /\ P \cap L \subseteq Found(P)
      /\ (refresh[r].ahead \ P) \cap L \subseteq Found(refresh[r].ahead \ P)
  BY <1>1, <1>2 DEF Found
<1>4. /\ Cardinality(Found(P)) \in Nat /\ Cardinality(refresh[r].seen) \in Nat
      /\ size \in Nat /\ n \in Nat /\ refresh[r].got + n \in 0..Steady
  BY <1>1, <1>2, <1>3, Counts
<1>5. /\ h \in Refresh
      /\ h.old = refresh[r].old
      /\ h.got = refresh[r].got + n /\ h.seen = refresh[r].seen \cup Found(P)
      /\ h.ahead = IF Ends(size, next) THEN {} ELSE refresh[r].ahead \ P
      /\ h.step = IF Ends(size, next) THEN "upsert" ELSE "fetch"
      /\ h.sure = done
  <2>1. h = [refresh[r] EXCEPT !.got   = refresh[r].got + n,
                               !.seen  = refresh[r].seen \cup Found(P),
                               !.ahead = IF Ends(size, next) THEN {} ELSE refresh[r].ahead \ P,
                               !.step  = IF Ends(size, next) THEN "upsert" ELSE "fetch",
                               !.sure  = done]
    BY <1>1 DEF AfterPage
  <2>2. done \in BOOLEAN
    OBVIOUS
  <2>3. (IF Ends(size, next) THEN {} ELSE refresh[r].ahead \ P) \in SUBSET Targets
    BY <1>2
  <2>4. (IF Ends(size, next) THEN "upsert" ELSE "fetch") \in {"fetch", "upsert", "guard", "delete"}
    OBVIOUS
  <2>5. refresh[r].seen \cup Found(P) \in SUBSET Targets
    BY <1>2, <1>3
  <2> HIDE DEF done, size
  <2> QED
    BY <1>1, <1>4, <2>1, <2>2, <2>3, <2>4, <2>5 DEF Refresh
<1>6. h.step = "fetch" => L \subseteq h.ahead \cup h.seen
  BY <1>1, <1>3, <1>5
<1>7. ASSUME h.step = "upsert", h.sure
      PROVE  L \subseteq h.seen \/ (h.got + Cardinality(h.seen)) * 2 < Steady
  <2>1. /\ Ends(size, next) /\ Complete(size, First(r), next)
        /\ refresh[r].got + Cardinality(refresh[r].seen) + size > 0
    BY <1>5, <1>7
  <2>2. size # 0
    <3> SUFFICES ASSUME size = 0 PROVE FALSE
      OBVIOUS
    <3>1. First(r)
      BY <2>1 DEF Complete
    <3>2. refresh[r].got = 0 /\ Cardinality(refresh[r].seen) = 0
      BY <3>1, FS_EmptySet DEF First
    <3> QED
      BY <2>1, <3>2
  <2>3. next = "none" /\ size # PageLimit
    BY <2>1, <2>2 DEF Complete
  <2>4. \/ Found(refresh[r].ahead \ P) = {}
        \/ First(r) /\ 2 * size < Steady
    BY <1>1, <2>2, <2>3 DEF Served, More
  <2>5. CASE Found(refresh[r].ahead \ P) = {}
    BY <1>1, <1>3, <1>5, <2>5
  <2>6. CASE First(r) /\ 2 * size < Steady
    <3>1. refresh[r].got = 0 /\ refresh[r].seen = {}
      BY <2>6 DEF First
    <3>2. h.got + Cardinality(h.seen) = size
      BY <1>4, <1>5, <3>1
    <3> QED
      BY <1>4, <2>6, <3>2
  <2> QED
    BY <2>4, <2>5, <2>6
<1>8. h.step \in {"fetch", "upsert"}
  BY <1>5
<1> QED
  BY <1>5, <1>6, <1>7, <1>8 DEF ShowsAll

LEMMA FetchReads ==
  ASSUME Calm, ListingInv, NEW r \in Refreshers, FetchPage(r)
  PROVE  ListingInv'
<1>1. UNCHANGED <<sc, listed>> /\ At(r, "fetch")
  BY DEF FetchPage, allVars, likeVars
<1>2. PICK n \in 0..(Steady - refresh[r].got), P \in SUBSET refresh[r].ahead,
           next \in {"new", "same", "none"} :
        /\ Served(r, n, P, next)
        /\ refresh' = [refresh EXCEPT ![r] = AfterPage(r, n, P, next)]
  BY DEF FetchPage
<1>3. PICK h : h = AfterPage(r, n, P, next) /\ refresh'[r] = h
  BY <1>2 DEF ListingInv
<1>4. /\ h \in Refresh
      /\ h.seen \subseteq Liked
      /\ h.step = "fetch" => Liked \subseteq h.ahead \cup h.seen
      /\ h.step \in {"fetch", "upsert"}
      /\ h.step = "upsert" /\ h.sure =>
           Liked \subseteq h.seen \/ (h.got + Cardinality(h.seen)) * 2 < Steady
  <2>1. /\ refresh[r] \in Refresh /\ refresh[r].seen \subseteq Liked /\ listed = sc
        /\ Liked \subseteq refresh[r].ahead \cup refresh[r].seen
    BY <1>1 DEF ListingInv, ReadsTruly, At, Refreshing
  <2>2. Liked \in SUBSET Targets /\ (\A t \in Liked : listed[t]) /\ Found(P) \subseteq Liked
    BY <2>1 DEF Liked, Found, Refresh
  <2>3. Awaits(r, Liked) /\ Page(r, n, P, next, h)
    BY <1>1, <1>2, <1>3, <2>1, <2>2 DEF Awaits, Page
  <2>4. ShowsAll(r, Liked, P, h)
    BY <2>3, PageReads
  <2> QED
    BY <2>1, <2>2, <2>4 DEF ShowsAll
<1>5. ReadsTruly(r)'
  BY <1>1, <1>3, <1>4 DEF ReadsTruly, Liked
<1>6. ASSUME NEW q \in Refreshers, q # r PROVE ReadsTruly(q)'
  BY <1>1, <1>2, <1>6, StillReads DEF ListingInv, ReadsOnly
<1> QED
  BY <1>1, <1>2, <1>5, <1>6 DEF ListingInv

\* A step that leaves the likes alone and only goes on with what was read.
LEMMA OthersRead ==
  ASSUME ListingInv, NEW r \in Refreshers, UNCHANGED <<sc, listed>>,
         DOMAIN refresh' = Refreshers, ReadsTruly(r)',
         \A q \in Refreshers \ {r} : ReadsOnly(q)
  PROVE  ListingInv'
BY StillReads DEF ListingInv

\* The pages show no like that the mirror lacks or does not want: the upsert changes
\* only a row whose like SoundCloud has answered, and as that answer would.
LEMMA UpsertConfirms ==
  ASSUME LikeTypeOK, Core, ListingInv, NEW r \in Refreshers, UpsertMirror(r)
  PROVE  \A t \in Targets :
           \/ mirror'[t] = mirror[t]
           \/ /\ \E j \in acked : j.key[2] = t
              /\ mirror[t] # Absent /\ mirror[t].wanted = TRUE
              /\ mirror'[t] = Synced /\ sc[t]
<1>1. mirror' = [t \in Targets |-> IF t \in refresh[r].seen THEN Upserted(mirror[t])
                                                            ELSE mirror[t]]
  BY DEF UpsertMirror
<1>2. refresh[r].seen \subseteq Liked
  BY DEF UpsertMirror, At, Refreshing, ListingInv, ReadsTruly
<1> SUFFICES ASSUME NEW t \in Targets, t \in refresh[r].seen, mirror'[t] # mirror[t]
             PROVE  /\ \E j \in acked : j.key[2] = t
                    /\ mirror[t] # Absent /\ mirror[t].wanted = TRUE
                    /\ mirror'[t] = Synced /\ sc[t]
  BY <1>1
<1>3. sc[t] = TRUE /\ mirror[t] \in MirrorRow \cup {Absent}
  BY <1>2 DEF Liked, LikeTypeOK
<1>4. mirror[t] # Absent
  BY <1>3 DEF Core, MirrorAgrees, Pending, Wanted
<1>5. mirror[t].wanted \in BOOLEAN /\ mirror[t].progress \in BOOLEAN
  BY <1>3, <1>4 DEF MirrorRow
<1>6. mirror'[t] = Synced /\ mirror[t].wanted = TRUE
  BY <1>1, <1>4, <1>5 DEF Upserted
<1>7. mirror[t].progress = TRUE
  <2> SUFFICES ASSUME mirror[t].progress = FALSE PROVE FALSE
    BY <1>5
  <2>1. mirror[t] = [wanted |-> mirror[t].wanted, progress |-> mirror[t].progress]
    BY <1>3, <1>4 DEF MirrorRow
  <2> QED
    BY <1>6, <2>1 DEF Synced
<1>8. Pending(t) /\ Wanted(t) = TRUE
  BY <1>4, <1>6, <1>7 DEF Pending, Wanted
<1>9. \E j \in acked : j.key[2] = t
  BY <1>3, <1>8 DEF Core, MirrorAgrees
<1> QED
  BY <1>3, <1>4, <1>6, <1>9

LEMMA UpsertKeeps ==
  ASSUME LikeTypeOK, Core, ListingInv, NEW r \in Refreshers, UpsertMirror(r)
  PROVE  Core'
<1>1. UNCHANGED <<queue, jobs, calls, requests, acked, sc>>
  BY DEF UpsertMirror, vars
<1>2. ASSUME NEW t \in Targets, mirror'[t] # mirror[t]
      PROVE  /\ \E j \in acked : j.key[2] = t
             /\ mirror[t] # Absent /\ mirror[t].wanted = TRUE
             /\ mirror'[t] = Synced /\ sc[t]
  BY <1>2, UpsertConfirms
<1>3. Synced # Absent /\ Synced.wanted = TRUE /\ Synced.progress = FALSE
  <2>1. Synced # Absent
    BY MirrorTypes, AbsentAssumption
  <2> QED
    BY <2>1 DEF Synced
<1>4. \A t \in Targets : Wanted(t)' = Wanted(t)
  BY <1>2, <1>3 DEF Wanted
<1>5. \A k \in Key : Fits(k)' <=> Fits(k)
  BY <1>4, KeyParts DEF Fits
<1>6. RequestsAlone'
  BY <1>1 DEF Core, RequestsAlone, Requested, Asks, InFlight, Rows
<1>7. AskedFits'
  <2>1. ASSUME NEW c \in Callers, requests[c] # NoCall
        PROVE  requests[c].read = mirror'[requests[c].target]
    <3>1. requests[c].target \in Targets /\ Requested(requests[c].target)
      BY <2>1 DEF LikeTypeOK, Request, Requested
    <3>2. ~InFlight(requests[c].target)
      BY <3>1 DEF Core, RequestsAlone
    <3>3. mirror'[requests[c].target] = mirror[requests[c].target]
      BY <1>2, <3>1, <3>2, NothingInFlight
    <3> QED
      BY <2>1, <3>3 DEF Core, AskedFits
  <2>2. ASSUME NEW c \in Callers, calls[c] # NoCall PROVE calls[c].key \in Key
    BY <2>2 DEF LikeTypeOK, TypeOK, Call
  <2> QED
    BY <1>1, <1>5, <2>1, <2>2 DEF Core, AskedFits, Fits
<1>8. RowsFit'
  BY <1>1, <1>5 DEF Core, RowsFit, Rows, Fits, Cancels
<1>9. JobsFit'
  <2>1. \A j \in jobs : j.key \in Key
    BY DEF LikeTypeOK, TypeOK, Job
  <2> QED
    BY <1>1, <1>5, <2>1 DEF Core, JobsFit, Fits
<1>10. ASSUME NEW t \in Targets
       PROVE  /\ mirror'[t] # Absent => Wanted(t)' \/ Pending(t)'
              /\ ~Pending(t)' => sc[t] = Wanted(t)'
              /\ Pending(t)' => sc[t] # Wanted(t)' \/ \E j \in acked : j.key[2] = t
  <2>1. CASE mirror'[t] = mirror[t]
    BY <2>1 DEF Core, MirrorAgrees, Wanted, Pending
  <2>2. CASE mirror'[t] # mirror[t]
    <3>1. sc[t] \in BOOLEAN
      BY DEF LikeTypeOK
    <3> QED
      BY <1>2, <1>3, <2>2, <3>1 DEF Wanted, Pending
  <2> QED
    BY <2>1, <2>2
<1>11. MirrorAgrees' /\ AnswerIsCurrent'
  BY <1>1, <1>10 DEF Core, MirrorAgrees, AnswerIsCurrent, IsLike, Wanted, Pending
<1> QED
  BY <1>6, <1>7, <1>8, <1>9, <1>11 DEF Core

LEMMA UpsertReads ==
  ASSUME ListingInv, NEW r \in Refreshers, UpsertMirror(r)
  PROVE  ListingInv'
<1>1. /\ refresh[r] # NoRefresh /\ refresh[r].step = "upsert" /\ refresh[r] \in Refresh
      /\ refresh[r].seen \subseteq Liked
      /\ refresh[r].sure => \/ Liked \subseteq refresh[r].seen
                            \/ (refresh[r].got + Cardinality(refresh[r].seen)) * 2 < Steady
  BY DEF UpsertMirror, At, Refreshing, ListingInv, ReadsTruly
<1>2. UNCHANGED <<sc, listed>> /\ DOMAIN refresh' = Refreshers
  BY DEF UpsertMirror
<1>3. \A q \in Refreshers \ {r} : ReadsOnly(q)
  BY DEF UpsertMirror, Refreshing, ReadsOnly
<1>4. ReadsTruly(r)'
  <2>1. CASE refresh'[r] = NoRefresh
    BY <2>1 DEF ReadsTruly
  <2>2. CASE /\ refresh[r].sure
             /\ refresh'[r] = [refresh[r] EXCEPT !.old = @ \ refresh[r].seen, !.step = "guard"]
    <3>1. /\ refresh'[r].step = "guard" /\ refresh'[r].seen = refresh[r].seen
          /\ refresh'[r].got = refresh[r].got /\ refresh'[r].sure = refresh[r].sure
      BY <1>1, <2>2 DEF Refresh
    <3>2. refresh'[r] \in Refresh
      <4>1. refresh[r].old \ refresh[r].seen \in SUBSET Targets
        BY <1>1 DEF Refresh
      <4> QED
        BY <1>1, <2>2, <4>1 DEF Refresh
    <3> QED
      BY <1>1, <1>2, <2>2, <3>1, <3>2 DEF ReadsTruly, Liked
  <2> QED
    BY <1>1, <2>1, <2>2 DEF UpsertMirror, Refreshing
<1> QED
  BY <1>2, <1>3, <1>4, OthersRead

LEMMA GuardReads ==
  ASSUME ListingInv, NEW r \in Refreshers, GuardOrphans(r)
  PROVE  ListingInv'
<1>1. /\ refresh[r] # NoRefresh /\ refresh[r].step = "guard" /\ refresh[r] \in Refresh
      /\ refresh[r].seen \subseteq Liked
      /\ \/ Liked \subseteq refresh[r].seen
         \/ (refresh[r].got + Cardinality(refresh[r].seen)) * 2 < Steady
  BY DEF GuardOrphans, At, Refreshing, ListingInv, ReadsTruly
<1>2. UNCHANGED <<sc, listed>> /\ DOMAIN refresh' = Refreshers
  BY DEF GuardOrphans, allVars, likeVars, ListingInv
<1>3. \A q \in Refreshers \ {r} : ReadsOnly(q)
  BY DEF GuardOrphans, ReadsOnly
<1>4. ReadsTruly(r)'
  <2>1. CASE TooSmall(r)
    BY <2>1 DEF GuardOrphans, ReadsTruly, ListingInv
  <2>2. CASE ~TooSmall(r)
    <3>1. Liked \subseteq refresh[r].seen
      <4>1. Cardinality({t \in Targets : Wanted(t) /\ ~Pending(t)}) \in Nat
        BY Counts
      <4>2. refresh[r].got \in Nat /\ Cardinality(refresh[r].seen) \in Nat
        BY <1>1, Counts, RefreshAssumption DEF Refresh
      <4> QED
        BY <1>1, <2>2, <4>1, <4>2, RefreshAssumption DEF TooSmall, Confirmedly
    <3>2. refresh'[r] = [refresh[r] EXCEPT !.step = "delete"]
      BY <2>2 DEF GuardOrphans, ListingInv
    <3>3. /\ refresh'[r].step = "delete" /\ refresh'[r].seen = refresh[r].seen
          /\ refresh'[r] \in Refresh
      BY <1>1, <3>2 DEF Refresh
    <3> QED
      BY <1>1, <1>2, <3>1, <3>3 DEF ReadsTruly, Liked
  <2> QED
    BY <2>1, <2>2
<1> QED
  BY <1>2, <1>3, <1>4, OthersRead

\* There is no orphan to delete: what is wanted and not in progress is liked, and
\* the listing that a deletion trusts has shown it.
LEMMA NoOrphan ==
  ASSUME LikeTypeOK, Core, ListingInv, NEW r \in Refreshers, DeleteOrphans(r)
  PROVE  UNCHANGED mirror
<1>1. Liked \subseteq refresh[r].seen
  BY DEF DeleteOrphans, At, Refreshing, ListingInv, ReadsTruly
<1>2. ASSUME NEW t \in Targets PROVE ~Orphan(r, t)
  <2>1. Wanted(t) /\ ~Pending(t) => sc[t]
    BY DEF Core, MirrorAgrees
  <2> QED
    BY <1>1, <2>1 DEF Orphan, Liked
<1> QED
  BY <1>2 DEF DeleteOrphans, LikeTypeOK

LEMMA CoreStays ==
  ASSUME Core, UNCHANGED <<queue, jobs, calls, mirror, sc, requests, acked>>
  PROVE  Core'
BY DEF Core, RequestsAlone, AskedFits, RowsFit, JobsFit, MirrorAgrees, AnswerIsCurrent, Asks,
       Requested, InFlight, Rows, Fits, Wanted, Pending, Cancels, IsLike

LEMMA RefreshKeeps ==
  ASSUME LikeTypeOK, Calm, Core, ListingInv, RefreshStep
  PROVE  Core' /\ ListingInv'
<1>1. ASSUME NEW t \in Targets, WebChanges(t) \/ ListingCatchesUp(t) PROVE FALSE
  BY <1>1 DEF WebChanges, ListingCatchesUp, Calm, Disturbing, ListingInv
<1>2. ASSUME NEW r \in Refreshers, NEW old \in SUBSET Targets, StartRefresh(r, old)
      PROVE  Core' /\ ListingInv'
  <2>1. UNCHANGED <<queue, jobs, calls, mirror, sc, requests, acked, listed>>
    BY <1>2 DEF StartRefresh, allVars, vars, likeVars
  <2>2. PICK h : h = [step |-> "fetch", old |-> old, ahead |-> Targets, seen |-> {},
                      got |-> 0, sure |-> FALSE]
    OBVIOUS
  <2>3. h \in Refresh
    BY <2>2, RefreshAssumption DEF Refresh
  <2>4. refresh' = [refresh EXCEPT ![r] = h]
    BY <1>2, <2>2 DEF StartRefresh
  <2>5. h.step = "fetch" /\ h.seen = {} /\ h.ahead = Targets
    BY <2>2
  <2>6. ReadsTruly(r)'
    BY <2>1, <2>3, <2>4, <2>5 DEF ReadsTruly, Liked, ListingInv
  <2>7. \A q \in Refreshers \ {r} : ReadsOnly(q)
    BY <2>4 DEF ReadsOnly
  <2> QED
    BY <2>1, <2>4, <2>6, <2>7, CoreStays, OthersRead DEF ListingInv
<1>3. ASSUME NEW r \in Refreshers, FetchPage(r) PROVE Core' /\ ListingInv'
  BY <1>3, FetchReads, CoreStays DEF FetchPage, allVars, vars, likeVars
<1>4. ASSUME NEW r \in Refreshers, UpsertMirror(r) PROVE Core' /\ ListingInv'
  BY <1>4, UpsertKeeps, UpsertReads
<1>5. ASSUME NEW r \in Refreshers, GuardOrphans(r) PROVE Core' /\ ListingInv'
  BY <1>5, GuardReads, CoreStays DEF GuardOrphans, allVars, vars, likeVars
<1>6. ASSUME NEW r \in Refreshers, DeleteOrphans(r) \/ RefreshFails(r)
      PROVE  Core' /\ ListingInv'
  <2>1. /\ UNCHANGED <<queue, jobs, calls, mirror, sc, requests, acked, listed>>
        /\ refresh' = [refresh EXCEPT ![r] = NoRefresh]
    BY <1>6, NoOrphan DEF DeleteOrphans, RefreshFails, allVars, vars, likeVars
  <2>2. \A q \in Refreshers : ReadsOnly(q)
    BY <2>1 DEF ReadsOnly, ListingInv
  <2>3. ReadsTruly(r)'
    BY <2>1 DEF ReadsTruly, ListingInv
  <2> QED
    BY <2>1, <2>2, <2>3, CoreStays, OthersRead DEF ListingInv
<1> QED
  BY <1>1, <1>2, <1>3, <1>4, <1>5, <1>6 DEF RefreshStep, RefreshSteps

LEMMA FaultsStay ==
  ASSUME ReconcileNext
  PROVE  UNCHANGED faults
<1>1. CASE LikeNext
  BY <1>1 DEF LikeNext, RequestLike, RequestUnlike, WriteUnlike, InEnqueue, DropRequest,
     FlushSteps, ScAnswers, Confirm, ScRefuses, AnswerLost, Finish, HealMirror, Upkeep, likeVars
<1>2. CASE RefreshStep
  BY <1>2 DEF RefreshStep, RefreshSteps, WebChanges, ListingCatchesUp, StartRefresh,
     FetchPage, UpsertMirror, GuardOrphans, DeleteOrphans, RefreshFails, allVars, likeVars
<1> QED
  BY <1>1, <1>2, LikesOrRefresh

LEMMA PullNext ==
  ASSUME LikeTypeOK, AckedRunning, PullInv, ReconcileNext
  PROVE  PullInv'
<1>1. UNCHANGED faults
  BY FaultsStay
<1> SUFFICES ASSUME Calm PROVE Core' /\ ListingInv'
  BY <1>1 DEF PullInv, Calm
<1>2. Core /\ ListingInv
  BY DEF PullInv
<1>3. CASE RefreshStep
  BY <1>2, <1>3, RefreshKeeps
<1>4. CASE Likes \/ \E c \in Callers, t \in Targets : UserActs(c, t)
  <2>1. LikeNext
    BY <1>4 DEF Likes, UserActs, LikeNext
  <2>2. LikeTypeOK'
    BY <2>1, LikeTypeNext
  <2>3. Spared
    BY DEF Calm, Disturbing, Spared
  <2> QED
    BY <1>2, <1>4, <2>1, <2>2, <2>3, CoreNext, LikesRead
<1> QED
  BY <1>3, <1>4 DEF ReconcileNext, RefreshStep

\* Pulling the likes loses no wish: without the website, lag and overlaps, and with
\* refreshes that are cut, refused and repeated at any moment, what the mirror wants
\* and has not in progress is what SoundCloud has (batch_upsert_mirror, delete_orphans).
THEOREM PullsLoseNothing == ReconcileSpec => []PullLosesNothing
<1>1. ReconcileInit => PullInv
  <2> SUFFICES ASSUME ReconcileInit, Calm PROVE Core /\ ListingInv
    BY DEF PullInv
  <2>1. Core
    BY LossStart DEF ReconcileInit, LossInv, Spared, Calm, Disturbing
  <2> QED
    BY <2>1 DEF ReconcileInit, ListingInv, ReadsTruly
<1>2. LikeTypeOK /\ AckedRunning /\ PullInv /\ [ReconcileNext]_reconcileVars => PullInv'
  <2> SUFFICES ASSUME LikeTypeOK, AckedRunning, PullInv, [ReconcileNext]_reconcileVars
               PROVE  PullInv'
    OBVIOUS
  <2>1. CASE ReconcileNext
    BY <2>1, PullNext
  <2>2. CASE UNCHANGED reconcileVars
    <3>1. /\ UNCHANGED <<queue, jobs, calls, mirror, sc, requests, acked, faults>>
          /\ UNCHANGED <<listed, refresh>>
      BY <2>2 DEF reconcileVars, refreshVars, allVars, vars, likeVars
    <3>2. Core => Core'
      BY <3>1, CoreStays
    <3> QED
      BY <3>1, <3>2 DEF PullInv, Calm, ListingInv, ReadsTruly, Liked
  <2> QED
    BY <2>1, <2>2
<1>3. PullInv => PullLosesNothing
  BY NothingLost DEF PullInv, PullLosesNothing, Calm
<1> QED
  BY <1>1, <1>2, <1>3, ReconcileTypes, PTL DEF ReconcileSpec

-----------------------------------------------------------------------------
(* What a refresh deletes is gone from SoundCloud.                            *)

\* An action has been asked for, or is in the outbox, or is being sent.
OnItsWay(k) ==
  \/ \E c \in Callers : calls[c] # NoCall /\ calls[c].key = k
  \/ queue[k] # NoRow /\ ~queue[k].dead
  \/ \E j \in jobs : j.key = k

CarriedOver == \A k \in Key : OnItsWay(k)' => OnItsWay(k)

\* The outbox brings nothing on its way that was not: what is cancelled, inserted,
\* claimed, released and settled was on its way before.
LEMMA OnlyRows ==
  ASSUME UNCHANGED <<jobs, calls>>,
         \A k \in Key : queue'[k] # NoRow /\ ~queue'[k].dead => OnItsWay(k)
  PROVE  CarriedOver
BY DEF CarriedOver, OnItsWay

LEMMA RowsStayDead ==
  /\ \A r \in Row : Unlocked(r).dead = r.dead
  /\ \A r \in Row : \A p : Refreshed(r, p).dead = r.dead
BY DEF Unlocked, Refreshed, Row

LEMMA CallsCarry ==
  ASSUME TypeOK, NEW c \in Callers, CancelInverse(c) \/ InsertRow(c) \/ DropCall(c)
  PROVE  CarriedOver
<1> USE NullAssumption DEF TypeOK
<1>1. calls[c] # NoCall /\ calls[c] \in Call
  BY DEF CancelInverse, InsertRow, DropCall
<1>2. CASE CancelInverse(c)
  <2>1. UNCHANGED jobs
    BY <1>2 DEF CancelInverse
  <2>2. \A d \in Callers : calls'[d] # NoCall => calls[d] # NoCall /\ calls'[d].key = calls[d].key
    <3>1. [calls[c] EXCEPT !.step = "insert"].key = calls[c].key
      BY <1>1 DEF Call
    <3> QED
      BY <1>1, <1>2, <3>1 DEF CancelInverse
  <2>3. \A k \in Key : queue'[k] = queue[k] \/ queue'[k] = NoRow
    BY <1>2 DEF CancelInverse
  <2> QED
    BY <2>1, <2>2, <2>3 DEF CarriedOver, OnItsWay
<1>3. CASE InsertRow(c)
  <2>1. /\ UNCHANGED jobs
        /\ \A d \in Callers : calls'[d] = calls[d] \/ calls'[d] = NoCall
    BY <1>3 DEF InsertRow
  <2>2. \A k \in Key : k = calls[c].key \/ queue'[k] = queue[k]
    BY <1>3 DEF InsertRow
  <2>3. OnItsWay(calls[c].key)
    BY <1>1 DEF OnItsWay
  <2> QED
    BY <2>1, <2>2, <2>3 DEF CarriedOver, OnItsWay
<1>4. CASE DropCall(c)
  BY <1>4 DEF DropCall, CarriedOver, OnItsWay
<1> QED
  BY <1>2, <1>3, <1>4

LEMMA FlushCarries ==
  ASSUME TypeOK, NEW w \in Workers,
         \/ \E S \in SUBSET Key : Claim(w, S)
         \/ \E K \in SUBSET jobs : Dedup(w, K)
         \/ WorkerLost(w)
  PROVE  CarriedOver
<1> USE NullAssumption DEF TypeOK
<1>1. ASSUME NEW S \in SUBSET Key, Claim(w, S) PROVE CarriedOver
  <2>1. \A k \in S : queue[k] # NoRow /\ ~queue[k].dead
    BY <1>1 DEF Claim, Claimable, Rows
  <2>2. \A k \in Key \ S : queue'[k] = queue[k]
    BY <1>1 DEF Claim
  <2>3. \A j \in jobs' : j \in jobs \/ j.key \in S
    <3>1. \A k \in S : JobFor(w, k).key = k
      BY DEF JobFor
    <3>2. jobs' = jobs \cup {JobFor(w, k) : k \in S}
      BY <1>1 DEF Claim
    <3> QED
      BY <3>1, <3>2
  <2>4. UNCHANGED calls
    BY <1>1 DEF Claim
  <2> QED
    BY <2>1, <2>2, <2>3, <2>4 DEF CarriedOver, OnItsWay
<1>2. ASSUME NEW K \in SUBSET jobs, Dedup(w, K) PROVE CarriedOver
  <2>1. \A j \in jobs' : \E i \in jobs : i.key = j.key
    <3>1. \A j \in K : [j EXCEPT !.phase = "running"].key = j.key
      BY DEF Job
    <3>2. /\ jobs' = (jobs \ Picked(w)) \cup {[j EXCEPT !.phase = "running"] : j \in K}
          /\ K \subseteq jobs
      BY <1>2 DEF Dedup
    <3> QED
      BY ONLY <3>1, <3>2
  <2>2. ASSUME NEW ids, NEW k \in Key
        PROVE  \/ Release(ids)[k] = queue[k]
               \/ queue[k] \in Row /\ Release(ids)[k] = Unlocked(queue[k])
    BY DEF Release
  <2>3. \A k \in Key : \/ queue'[k] = queue[k]
                       \/ queue[k] \in Row /\ queue'[k] = Unlocked(queue[k])
    <3>1. CASE UNCHANGED queue
      BY <3>1
    <3>2. CASE queue' = Release({j.id : j \in Picked(w) \ K})
      BY <2>2, <3>2
    <3> QED
      BY <1>2, <3>1, <3>2 DEF Dedup
  <2>4. \A k \in Key : queue'[k] # NoRow /\ ~queue'[k].dead => queue[k] # NoRow /\ ~queue[k].dead
    BY <2>3, RowsStayDead
  <2>5. UNCHANGED calls
    BY <1>2 DEF Dedup
  <2> QED
    BY <2>1, <2>4, <2>5 DEF CarriedOver, OnItsWay
<1>3. CASE WorkerLost(w)
  BY <1>3 DEF WorkerLost, CarriedOver, OnItsWay
<1> QED
  BY <1>1, <1>2, <1>3

LEMMA AttemptCarries ==
  ASSUME TypeOK, NEW j \in jobs, AttemptOk(j) \/ AttemptFails(j) \/ Settle(j)
  PROVE  CarriedOver
<1> USE NullAssumption DEF TypeOK
<1>1. j \in Job /\ j.key \in Key
  BY DEF Job
<1>2. ASSUME NEW ph, SetPhase(j, ph), UNCHANGED <<queue, calls>> PROVE CarriedOver
  <2>1. [j EXCEPT !.phase = ph].key = j.key
    BY <1>1 DEF Job
  <2> QED
    BY <1>2, <2>1 DEF SetPhase, CarriedOver, OnItsWay
<1>3. ASSUME Settle(j) PROVE CarriedOver
  <2>1. UNCHANGED calls /\ jobs' \subseteq jobs
    BY <1>3 DEF Settle, DeleteIfUnchanged, ExternalBackoff, RetryBackoff, ParkDead, SettleFails
  <2>2. OnItsWay(j.key)
    BY DEF OnItsWay
  <2>3. \A k \in Key : k = j.key \/ queue'[k] = queue[k]
    BY <1>3 DEF Settle, DeleteIfUnchanged, ExternalBackoff, RetryBackoff, ParkDead, SettleFails,
                UpdateById
  <2> QED
    BY <2>1, <2>2, <2>3 DEF CarriedOver, OnItsWay
<1> QED
  BY <1>2, <1>3 DEF AttemptOk, AttemptFails

LEMMA UpkeepCarries ==
  ASSUME TypeOK,
         \/ \E k \in Key : LeaseExpires(k) \/ DeleteOldDead(k)
         \/ AdminFlush
         \/ \E n \in 1..MaxRetries : AdminPurge(n)
  PROVE  CarriedOver
<1> USE NullAssumption DEF TypeOK
<1>1. UNCHANGED <<jobs, calls>>
  BY DEF LeaseExpires, DeleteOldDead, AdminFlush, AdminPurge
<1>2. ASSUME NEW k \in Key, queue'[k] # NoRow, ~queue'[k].dead
      PROVE  queue[k] # NoRow /\ ~queue[k].dead
  <2>1. ASSUME NEW s \in Key, LeaseExpires(s) PROVE queue[k] # NoRow /\ ~queue[k].dead
    <3>1. queue[s] \in Row
      BY <2>1 DEF LeaseExpires, Leased
    <3>2. queue' = [queue EXCEPT ![s] = [queue[s] EXCEPT !.live = FALSE]]
      BY <2>1 DEF LeaseExpires
    <3>3. [queue[s] EXCEPT !.live = FALSE].dead = queue[s].dead
      BY <3>1 DEF Row
    <3> QED
      BY <1>2, <3>1, <3>2, <3>3
  <2>2. ASSUME NEW s \in Key, DeleteOldDead(s) PROVE queue[k] # NoRow /\ ~queue[k].dead
    BY <1>2, <2>2 DEF DeleteOldDead
  <2>3. CASE AdminFlush
    <3>1. queue'[k] = queue[k] \/ (queue[k] \in Row /\ queue'[k] = Unlocked(queue[k]))
      BY <2>3 DEF AdminFlush
    <3> QED
      BY <1>2, <3>1, RowsStayDead
  <2>4. ASSUME NEW n \in 1..MaxRetries, AdminPurge(n) PROVE queue[k] # NoRow /\ ~queue[k].dead
    BY <1>2, <2>4 DEF AdminPurge
  <2> QED
    BY <2>1, <2>2, <2>3, <2>4
<1> QED
  BY <1>1, <1>2, OnlyRows DEF OnItsWay

\* What the mirror wants, with nothing to tell SoundCloud.
Rested(t) == Wanted(t) /\ ~Pending(t)

\* A step that does not touch the row: a row at rest was at rest, nothing is sent
\* for it that was not on its way, and SoundCloud likes it by such an action alone.
LikeStays(t) ==
  Rested(t)' => /\ Rested(t)
                /\ Carried(t)' => Carried(t)
                /\ sc'[t] => sc[t] \/ Carried(t)

LEMMA CarriedKeys == \A t \in Targets : Carried(t) <=> OnItsWay(<<Like, t>>)
BY DEF Carried, OnItsWay

LEMMA SameLikesStay ==
  ASSUME CarriedOver, UNCHANGED <<mirror, sc>>
  PROVE  \A t \in Targets : LikeStays(t)
<1> SUFFICES ASSUME NEW t \in Targets PROVE LikeStays(t)
  OBVIOUS
<1>1. Rested(t)' <=> Rested(t)
  BY DEF Rested, Wanted, Pending
<1>2. Carried(t)' => Carried(t)
  BY KeyParts DEF CarriedOver, Carried, OnItsWay
<1> QED
  BY <1>1, <1>2 DEF LikeStays

\* The user's like touches its row.
LEMMA LikeLeavesOthers ==
  ASSUME LikeTypeOK, NEW c \in Callers, NEW u \in Targets, RequestLike(c, u)
  PROVE  \A t \in Targets \ {u} : LikeStays(t)
<1> USE NullAssumption DEF LikeTypeOK, TypeOK
<1> SUFFICES ASSUME NEW t \in Targets, t # u PROVE LikeStays(t)
  OBVIOUS
<1>1. mirror'[t] = mirror[t] /\ sc' = sc
  BY DEF RequestLike
<1>2. /\ UNCHANGED <<queue, jobs>>
      /\ calls' = [calls EXCEPT ![c] = [key |-> <<Like, u>>, payload |-> NoPayload,
                                        step |-> "cancel"]]
  BY DEF RequestLike, BeginEnqueue
<1>3. Carried(t)' => Carried(t)
  <2>1. calls'[c].key # <<Like, t>>
    BY <1>2
  <2>2. \A d \in Callers : d = c \/ calls'[d] = calls[d]
    BY <1>2
  <2> QED
    BY <1>2, <2>1, <2>2 DEF Carried
<1> QED
  BY <1>1, <1>3 DEF LikeStays, Rested, Wanted, Pending

\* clear_wanted leaves no row at rest that was not, and enqueues no like.
LEMMA UnlikeLeaves ==
  ASSUME LikeTypeOK, NEW c \in Callers, WriteUnlike(c)
  PROVE  \A t \in Targets : LikeStays(t)
<1> USE NullAssumption DEF LikeTypeOK, TypeOK
<1> SUFFICES ASSUME NEW t \in Targets PROVE LikeStays(t)
  OBVIOUS
<1> DEFINE u == requests[c].target
<1>1. /\ u \in Targets /\ UNCHANGED <<queue, jobs, sc>>
      /\ mirror' = [mirror EXCEPT ![u] = ClearWanted(requests[c].read, mirror[u])]
      /\ calls' = [calls EXCEPT ![c] = [key |-> <<Unlike, u>>, payload |-> NoPayload,
                                        step |-> "cancel"]]
  BY DEF WriteUnlike, BeginEnqueue, Request
<1> HIDE DEF u
<1>2. Rested(t)' => mirror'[t] = mirror[t]
  <2>1. \/ mirror'[t] = mirror[t] \/ mirror'[t] = Absent
        \/ mirror'[t] = [wanted |-> FALSE, progress |-> TRUE]
    BY <1>1 DEF ClearWanted
  <2> QED
    BY <2>1 DEF Rested, Wanted
<1>3. Carried(t)' => Carried(t)
  <2>1. calls'[c].key # <<Like, t>>
    BY <1>1, LikeAssumption
  <2>2. \A d \in Callers : d = c \/ calls'[d] = calls[d]
    BY <1>1
  <2> QED
    BY <1>1, <2>1, <2>2 DEF Carried
<1> QED
  BY <1>1, <1>2, <1>3 DEF LikeStays, Rested, Wanted, Pending

\* Only a like that was asked for makes SoundCloud like the target.
LEMMA AnswerLeaves ==
  ASSUME LikeTypeOK, NEW j \in jobs, ScAnswers(j)
  PROVE  \A t \in Targets : LikeStays(t)
<1> USE DEF LikeTypeOK, TypeOK
<1> SUFFICES ASSUME NEW t \in Targets PROVE LikeStays(t)
  OBVIOUS
<1>1. UNCHANGED <<queue, jobs, calls, mirror>> /\ sc' = [sc EXCEPT ![j.key[2]] = IsLike(j)]
  BY DEF ScAnswers, vars
<1>2. Carried(t)' => Carried(t)
  BY <1>1 DEF Carried
<1>3. sc'[t] => sc[t] \/ Carried(t)
  <2> SUFFICES ASSUME t = j.key[2], IsLike(j) PROVE Carried(t)
    BY <1>1
  <2>1. j.key = <<Like, t>>
    BY KeyParts DEF Job, IsLike
  <2> QED
    BY <2>1 DEF Carried
<1> QED
  BY <1>1, <1>2, <1>3 DEF LikeStays, Rested, Wanted, Pending

\* clear_progress touches the row of a like that is still wanted, and deletes that of
\* an unlike.
LEMMA ConfirmLeaves ==
  ASSUME LikeTypeOK, NEW j \in jobs, Confirm(j)
  PROVE  \A t \in Targets : (IsLike(j) /\ Wanted(t) /\ t = j.key[2]) \/ LikeStays(t)
<1> USE DEF LikeTypeOK, TypeOK
<1> SUFFICES ASSUME NEW t \in Targets, ~(IsLike(j) /\ Wanted(t) /\ t = j.key[2])
             PROVE  LikeStays(t)
  OBVIOUS
<1>1. /\ sc' = sc /\ mirror' = [mirror EXCEPT ![j.key[2]] = Confirmed(j, mirror[j.key[2]])]
  BY DEF Confirm
<1>2. Rested(t)' => mirror'[t] = mirror[t]
  <2>1. CASE t # j.key[2]
    BY <1>1, <2>1
  <2>2. CASE t = j.key[2]
    <3>1. mirror'[t] = mirror[t] \/ mirror'[t] = Absent
      <4>1. mirror'[t] = Confirmed(j, mirror[t])
        BY <1>1, <2>2
      <4>2. CASE mirror[t] = Absent
        BY <4>1, <4>2 DEF Confirmed
      <4>3. CASE mirror[t] \in MirrorRow
        <5>1. mirror[t].wanted \in BOOLEAN /\ IsLike(j) \in BOOLEAN /\ mirror[t] # Absent
          BY <4>3, AbsentAssumption DEF MirrorRow, IsLike
        <5> QED
          BY <2>2, <4>1, <5>1 DEF Confirmed, Wanted
      <4> QED
        BY <4>2, <4>3
    <3> QED
      BY <3>1 DEF Rested, Wanted
  <2> QED
    BY <2>1, <2>2
<1>3. CarriedOver
  BY AttemptCarries DEF Confirm
<1>4. Carried(t)' => Carried(t)
  BY <1>3, KeyParts DEF CarriedOver, Carried, OnItsWay
<1> QED
  BY <1>1, <1>2, <1>4 DEF LikeStays, Rested, Wanted, Pending

\* heal brings on its way only what is in progress.
LEMMA HealLeaves ==
  ASSUME LikeTypeOK, NEW u \in Targets, HealMirror(u)
  PROVE  \A t \in Targets : LikeStays(t)
<1> SUFFICES ASSUME NEW t \in Targets PROVE LikeStays(t)
  OBVIOUS
<1>1. UNCHANGED <<jobs, calls, mirror, sc>> /\ Pending(u)
  BY DEF HealMirror, Heal, likeVars
<1>2. Rested(t)' <=> Rested(t)
  BY <1>1 DEF Rested, Wanted, Pending
<1>3. CASE t = u
  BY <1>1, <1>2, <1>3 DEF LikeStays, Rested
<1>4. CASE t # u
  <2>1. queue'[<<Like, t>>] = queue[<<Like, t>>]
    BY <1>4, KeyParts DEF HealMirror, Heal, LikeTypeOK, TypeOK
  <2> QED
    BY <1>1, <1>2, <2>1 DEF LikeStays, Carried
<1> QED
  BY <1>3, <1>4

LEMMA OthersLeave ==
  ASSUME LikeTypeOK,
         \/ \E c \in Callers, t \in Targets : RequestUnlike(c, t)
         \/ \E c \in Callers : InEnqueue(c) \/ DropRequest(c)
         \/ \E w \in Workers : FlushSteps(w)
         \/ \E j \in jobs : ScRefuses(j) \/ AnswerLost(j) \/ Finish(j)
         \/ Upkeep
  PROVE  \A t \in Targets : LikeStays(t)
<1>1. UNCHANGED <<mirror, sc>>
  BY DEF RequestUnlike, InEnqueue, DropRequest, FlushSteps, ScRefuses, AnswerLost, Finish,
         Upkeep, likeVars
<1>2. CarriedOver
  <2>1. ASSUME UNCHANGED vars PROVE CarriedOver
    BY <2>1 DEF vars, CarriedOver, OnItsWay
  <2>2. ASSUME NEW c \in Callers, InEnqueue(c) \/ DropRequest(c) PROVE CarriedOver
    BY <2>1, <2>2, CallsCarry DEF InEnqueue, DropRequest, LikeTypeOK
  <2>3. ASSUME NEW w \in Workers, FlushSteps(w) PROVE CarriedOver
    BY <2>3, FlushCarries DEF FlushSteps, LikeTypeOK
  <2>4. ASSUME NEW j \in jobs, ScRefuses(j) \/ AnswerLost(j) \/ Finish(j) PROVE CarriedOver
    BY <2>4, AttemptCarries DEF ScRefuses, AnswerLost, Finish, Settle, LikeTypeOK
  <2>5. CASE Upkeep
    BY <2>5, UpkeepCarries DEF Upkeep, LikeTypeOK
  <2> QED
    BY <2>1, <2>2, <2>3, <2>4, <2>5 DEF RequestUnlike
<1> QED
  BY <1>1, <1>2, SameLikesStay

\* The refresh has seen less than half of the likes that nobody touches.
Small(r) == (refresh[r].got + Cardinality(refresh[r].seen)) * 2 < Steady

\* The refresh has seen the target, or is still to see it, or deletes nothing.
InSight(r, t) ==
  /\ refresh[r].step = "fetch" => t \in refresh[r].ahead \cup refresh[r].seen
  /\ refresh[r].step \in {"upsert", "guard"} /\ refresh[r].sure =>
       t \in refresh[r].seen \/ Small(r)
  /\ refresh[r].step = "delete" => t \in refresh[r].seen

\* A row that the refresh may delete has nothing on its way to SoundCloud; if
\* SoundCloud has the like, the listing shows it and the refresh does not miss it.
Spares(r) ==
  refresh[r] # NoRefresh =>
    /\ refresh[r] \in Refresh
    /\ refresh[r].step = "guard" => refresh[r].sure
    /\ \A t \in refresh[r].old : Rested(t) =>
         ~Carried(t) /\ (sc[t] => listed[t] /\ InSight(r, t))

Excused == "fail" \in faults \/ {"web", "race"} \subseteq faults

OrphanInv ==
  ~Excused => DOMAIN refresh = Refreshers /\ \A r \in Refreshers : Spares(r)

\* The refresh stops, or goes on with what it has read; of what is to come it gives
\* up only what is not listed yet.
GoesOn(r) ==
  refresh'[r] # NoRefresh =>
    /\ refresh[r] # NoRefresh /\ refresh'[r] \in Refresh
    /\ refresh'[r].step = refresh[r].step /\ refresh'[r].sure = refresh[r].sure
    /\ refresh'[r].seen = refresh[r].seen /\ refresh'[r].got = refresh[r].got
    /\ refresh'[r].old \subseteq refresh[r].old
    /\ \A t \in refresh[r].ahead \ refresh'[r].ahead : ~listed[t]

\* The rows it may still delete are not touched.
Untouched(r) ==
  refresh'[r] # NoRefresh =>
    \A t \in refresh'[r].old : LikeStays(t) /\ (sc[t] /\ sc'[t] /\ listed[t] => listed'[t])

LEMMA StillSpares ==
  ASSUME NEW r \in Refreshers, Spares(r), GoesOn(r), Untouched(r)
  PROVE  Spares(r)'
<1> SUFFICES ASSUME refresh'[r] # NoRefresh
             PROVE  /\ refresh'[r] \in Refresh
                    /\ refresh'[r].step = "guard" => refresh'[r].sure
                    /\ \A t \in refresh'[r].old : Rested(t)' =>
                         ~Carried(t)' /\ (sc'[t] => listed'[t] /\ InSight(r, t)')
  BY DEF Spares
<1>1. /\ refresh[r] # NoRefresh
      /\ refresh[r].step = "guard" => refresh[r].sure
      /\ \A t \in refresh[r].old : Rested(t) =>
           ~Carried(t) /\ (sc[t] => listed[t] /\ InSight(r, t))
  BY DEF Spares, GoesOn
<1>2. /\ refresh'[r].step = refresh[r].step /\ refresh'[r].sure = refresh[r].sure
      /\ refresh'[r].seen = refresh[r].seen /\ refresh'[r].got = refresh[r].got
      /\ refresh'[r].old \subseteq refresh[r].old
      /\ \A t \in refresh[r].ahead \ refresh'[r].ahead : ~listed[t]
      /\ refresh'[r] \in Refresh
  BY DEF GoesOn
<1>3. ASSUME NEW t \in refresh'[r].old, Rested(t)'
      PROVE  ~Carried(t)' /\ (sc'[t] => listed'[t] /\ InSight(r, t)')
  <2>1. /\ Rested(t) /\ (Carried(t)' => Carried(t)) /\ (sc'[t] => sc[t] \/ Carried(t))
        /\ sc[t] /\ sc'[t] /\ listed[t] => listed'[t]
    BY <1>3 DEF Untouched, LikeStays
  <2>2. ~Carried(t) /\ (sc[t] => listed[t] /\ InSight(r, t))
    BY <1>1, <1>2, <2>1
  <2>3. listed[t] /\ InSight(r, t) => InSight(r, t)'
    BY <1>2 DEF InSight, Small
  <2> QED
    BY <2>1, <2>2, <2>3
<1> QED
  BY <1>1, <1>2, <1>3

LEMMA RefreshStays ==
  ASSUME NEW r \in Refreshers, Spares(r), refresh'[r] = refresh[r]
  PROVE  GoesOn(r)
BY DEF Spares, GoesOn

LEMMA TouchGoesOn ==
  ASSUME NEW S, Touch(S), NEW r \in Refreshers, Spares(r)
  PROVE  GoesOn(r) /\ (refresh'[r] # NoRefresh => refresh'[r].old \cap S = {})
<1>1. CASE r \in Refreshing
  <2>1. refresh[r] # NoRefresh /\ refresh[r] \in Refresh
    BY <1>1 DEF Refreshing, Spares
  <2>2. refresh'[r] = [refresh[r] EXCEPT !.old = refresh[r].old \ S]
    BY <1>1 DEF Touch
  <2>3. refresh[r].old \ S \in SUBSET Targets
    BY <2>1 DEF Refresh
  <2>4. /\ refresh'[r].step = refresh[r].step /\ refresh'[r].sure = refresh[r].sure
        /\ refresh'[r].seen = refresh[r].seen /\ refresh'[r].got = refresh[r].got
        /\ refresh'[r].old = refresh[r].old \ S /\ refresh'[r].ahead = refresh[r].ahead
    BY <2>1, <2>2 DEF Refresh
  <2>5. refresh'[r] \in Refresh
    BY <2>1, <2>2, <2>3 DEF Refresh
  <2> QED
    BY <2>1, <2>4, <2>5 DEF GoesOn
<1>2. CASE r \notin Refreshing
  BY <1>2 DEF Touch, GoesOn
<1> QED
  BY <1>1, <1>2

\* A page to come gives up only what the listing shows first.
LEMMA ListingGoesOn ==
  ASSUME NEW S \in SUBSET Targets, ListingFollows(S), NEW r \in Refreshers, Spares(r)
  PROVE  /\ GoesOn(r)
         /\ \A t \in Targets : sc[t] /\ sc'[t] /\ listed[t] => listed'[t]
<1>1. /\ listed' = [t \in Targets |-> IF t \in S THEN sc'[t] ELSE listed[t]]
      /\ refresh'[r] = Shows(r, {t \in S : sc'[t] /\ ~listed[t]})
  BY DEF ListingFollows
<1>2. PICK A : A = {t \in S : sc'[t] /\ ~listed[t]}
  OBVIOUS
<1>3. CASE refresh[r] # NoRefresh /\ refresh'[r] = [refresh[r] EXCEPT !.ahead = @ \ A]
  <2>1. refresh[r] \in Refresh
    BY <1>3 DEF Spares
  <2>2. refresh[r].ahead \ A \in SUBSET Targets
    BY <2>1 DEF Refresh
  <2>3. /\ refresh'[r].step = refresh[r].step /\ refresh'[r].sure = refresh[r].sure
        /\ refresh'[r].seen = refresh[r].seen /\ refresh'[r].got = refresh[r].got
        /\ refresh'[r].old = refresh[r].old /\ refresh'[r].ahead = refresh[r].ahead \ A
    BY <1>3, <2>1 DEF Refresh
  <2>4. refresh'[r] \in Refresh
    BY <1>3, <2>1, <2>2 DEF Refresh
  <2> QED
    BY <1>1, <1>2, <1>3, <2>3, <2>4 DEF GoesOn
<1>4. CASE refresh'[r] = refresh[r]
  BY <1>1, <1>4, RefreshStays
<1> QED
  BY <1>1, <1>2, <1>3, <1>4 DEF Shows, At, Refreshing

Sparing == DOMAIN refresh = Refreshers /\ \A r \in Refreshers : Spares(r)

LEMMA OldAreTargets ==
  ASSUME NEW r, GoesOn(r), refresh'[r] # NoRefresh
  PROVE  refresh'[r].old \in SUBSET Targets
BY DEF GoesOn, Refresh

\* A step of the likes, with a listing that may follow it.
LEMMA FollowSpares ==
  ASSUME Sparing, \A t \in Targets : LikeStays(t),
         UNCHANGED refreshVars \/ \E S \in SUBSET Targets : ListingFollows(S)
  PROVE  Sparing'
<1>1. CASE UNCHANGED refreshVars
  <2>1. ASSUME NEW r \in Refreshers PROVE Spares(r)'
    <3>1. GoesOn(r)
      BY <1>1, RefreshStays DEF refreshVars, Sparing
    <3>2. Untouched(r)
      BY <1>1, <3>1, OldAreTargets DEF Untouched, refreshVars
    <3> QED
      BY <3>1, <3>2, StillSpares DEF Sparing
  <2> QED
    BY <1>1, <2>1 DEF refreshVars, Sparing
<1>2. ASSUME NEW S \in SUBSET Targets, ListingFollows(S) PROVE Sparing'
  <2>1. ASSUME NEW r \in Refreshers PROVE Spares(r)'
    <3>1. /\ GoesOn(r)
          /\ \A t \in Targets : sc[t] /\ sc'[t] /\ listed[t] => listed'[t]
      BY <1>2, ListingGoesOn DEF Sparing
    <3>2. Untouched(r)
      BY <3>1, OldAreTargets DEF Untouched
    <3> QED
      BY <3>1, <3>2, StillSpares DEF Sparing
  <2> QED
    BY <1>2, <2>1 DEF ListingFollows, Sparing
<1> QED
  BY <1>1, <1>2

\* A step of the likes that touches rows.
LEMMA TouchSpares ==
  ASSUME Sparing, NEW S, Touch(S), \A t \in Targets \ S : LikeStays(t)
  PROVE  Sparing'
<1>1. listed' = listed /\ DOMAIN refresh' = Refreshers
  BY DEF Touch
<1>2. ASSUME NEW r \in Refreshers PROVE Spares(r)'
  <2>1. GoesOn(r) /\ (refresh'[r] # NoRefresh => refresh'[r].old \cap S = {})
    BY TouchGoesOn DEF Sparing
  <2>2. Untouched(r)
    BY <1>1, <2>1, OldAreTargets DEF Untouched
  <2> QED
    BY <2>1, <2>2, StillSpares DEF Sparing
<1> QED
  BY <1>1, <1>2 DEF Sparing

LEMMA LikesSpare ==
  ASSUME LikeTypeOK, Sparing,
         Likes \/ \E c \in Callers, t \in Targets : UserActs(c, t)
  PROVE  Sparing'
<1>1. ASSUME NEW c \in Callers, NEW t \in Targets, UserActs(c, t) PROVE Sparing'
  <2>1. CASE RequestLike(c, t) /\ TouchesLiked(t)
    BY <2>1, LikeLeavesOthers, TouchSpares DEF TouchesLiked
  <2>2. CASE RequestUnlike(c, t) /\ UNCHANGED refreshVars
    BY <2>2, OthersLeave, FollowSpares
  <2> QED
    BY <1>1, <2>1, <2>2 DEF UserActs
<1>2. ASSUME NEW j \in jobs, ScAnswers(j), Listing PROVE Sparing'
  BY <1>2, AnswerLeaves, FollowSpares DEF Listing
<1>3. ASSUME NEW j \in jobs, Confirm(j), TouchesConfirmed(j) PROVE Sparing'
  <2>1. Touch(IF IsLike(j) /\ Wanted(j.key[2]) THEN {j.key[2]} ELSE {})
    BY <1>3 DEF TouchesConfirmed
  <2>2. \A t \in Targets \ (IF IsLike(j) /\ Wanted(j.key[2]) THEN {j.key[2]} ELSE {}) :
          LikeStays(t)
    BY <1>3, ConfirmLeaves
  <2> QED
    BY <2>1, <2>2, TouchSpares
<1>4. ASSUME NEW j \in jobs, ScRefuses(j) \/ AnswerLost(j) \/ Finish(j), UNCHANGED refreshVars
      PROVE  Sparing'
  BY <1>4, OthersLeave, FollowSpares
<1>5. ASSUME \/ \E c \in Callers : WriteUnlike(c) \/ InEnqueue(c) \/ DropRequest(c)
             \/ \E w \in Workers : FlushSteps(w)
             \/ \E t \in Targets : HealMirror(t)
             \/ Upkeep,
             UNCHANGED refreshVars
      PROVE  Sparing'
  <2>1. \A t \in Targets : LikeStays(t)
    BY <1>5, UnlikeLeaves, HealLeaves, OthersLeave
  <2> QED
    BY <1>5, <2>1, FollowSpares
<1> QED
  BY <1>1, <1>2, <1>3, <1>4, <1>5 DEF Likes

\* The likes as they are.
LEMMA SameLikes ==
  ASSUME UNCHANGED allVars
  PROVE  \A t \in Targets : LikeStays(t)
BY DEF allVars, vars, likeVars, LikeStays, Rested, Wanted, Pending, Carried

\* The website changes the likes when no refresh runs, or refreshes are excused.
LEMMA WebSpares ==
  ASSUME LikeTypeOK, ~Excused, Sparing, NEW u \in Targets, WebChanges(u)
  PROVE  Sparing'
<1>1. /\ "race" \notin faults
      /\ Refreshing = {} \/ sc' = sc
      /\ UNCHANGED <<queue, jobs, calls, mirror>>
      /\ (\E S \in SUBSET Targets : ListingFollows(S)) \/ UNCHANGED refreshVars
  BY DEF WebChanges, Listing, Excused, vars
<1>2. CASE sc' = sc
  <2>1. \A t \in Targets : LikeStays(t)
    BY <1>1, <1>2 DEF LikeStays, Rested, Wanted, Pending, Carried
  <2> QED
    BY <1>1, <2>1, FollowSpares
<1>3. CASE Refreshing = {}
  <2>1. \A r \in Refreshers : refresh'[r] = NoRefresh
    BY <1>1, <1>3 DEF ListingFollows, Shows, At, Refreshing, refreshVars
  <2>2. DOMAIN refresh' = Refreshers
    BY <1>1 DEF ListingFollows, refreshVars, Sparing
  <2> QED
    BY <2>1, <2>2 DEF Sparing, Spares
<1> QED
  BY <1>1, <1>2, <1>3

\* A step of one refresh that changes no like.
LEMMA OneSpares ==
  ASSUME Sparing, NEW r \in Refreshers, UNCHANGED <<allVars, listed>>,
         NEW h, refresh' = [refresh EXCEPT ![r] = h], Spares(r)'
  PROVE  Sparing'
<1>1. ASSUME NEW q \in Refreshers, q # r PROVE Spares(q)'
  <2>1. GoesOn(q)
    BY <1>1, RefreshStays DEF Sparing
  <2>2. Untouched(q)
    BY <2>1, SameLikes, OldAreTargets DEF Untouched
  <2> QED
    BY <2>1, <2>2, StillSpares DEF Sparing
<1>2. DOMAIN refresh' = Refreshers
  BY DEF Sparing
<1> QED
  BY <1>1, <1>2 DEF Sparing

\* An old row has nothing on its way, and the listing is right about it.
LEMMA StartSpares ==
  ASSUME ~Excused, Sparing, NEW r \in Refreshers, NEW old \in SUBSET Targets,
         StartRefresh(r, old)
  PROVE  Sparing'
<1>1. PICK h : h = [step |-> "fetch", old |-> old, ahead |-> Targets, seen |-> {},
                    got |-> 0, sure |-> FALSE]
  OBVIOUS
<1>2. /\ refresh' = [refresh EXCEPT ![r] = h] /\ refresh'[r] = h
      /\ UNCHANGED <<allVars, listed>> /\ old \subseteq OldRows
  BY <1>1 DEF StartRefresh, Sparing
<1>3. /\ h \in Refresh /\ h.step = "fetch" /\ h.old = old
      /\ h.ahead = Targets
  BY <1>1, RefreshAssumption DEF Refresh
<1>4. \A t \in old : ~Carried(t)' /\ (sc'[t] => listed'[t])
  <2>1. \A t \in old : ~Carried(t) /\ listed[t] = sc[t]
    BY <1>2 DEF OldRows, MayBeOld, Excused
  <2>2. \A t \in Targets : Carried(t)' => Carried(t)
    BY <1>2 DEF allVars, vars, Carried
  <2> QED
    BY <1>2, <2>1, <2>2 DEF allVars, likeVars
<1>5. Spares(r)'
  BY <1>2, <1>3, <1>4 DEF Spares, InSight
<1> QED
  BY <1>2, <1>5, OneSpares

LEMMA FetchSpares ==
  ASSUME Sparing, NEW r \in Refreshers, FetchPage(r)
  PROVE  Sparing'
<1>1. /\ UNCHANGED <<allVars, listed>> /\ At(r, "fetch")
      /\ refresh[r] \in Refresh /\ refresh[r].step = "fetch"
  BY DEF FetchPage, At, Refreshing, Sparing, Spares
<1>2. PICK n \in 0..(Steady - refresh[r].got), P \in SUBSET refresh[r].ahead,
           next \in {"new", "same", "none"} :
        /\ Served(r, n, P, next)
        /\ refresh' = [refresh EXCEPT ![r] = AfterPage(r, n, P, next)]
  BY DEF FetchPage
<1>3. PICK h : h = AfterPage(r, n, P, next)
  OBVIOUS
<1>4. refresh' = [refresh EXCEPT ![r] = h] /\ refresh'[r] = h
  BY <1>2, <1>3 DEF Sparing
<1>5. PICK L : L = {t \in refresh[r].old : Rested(t) /\ sc[t]}
  OBVIOUS
<1>6. \A t \in refresh[r].old : Rested(t) =>
        ~Carried(t) /\ (sc[t] => listed[t] /\ t \in refresh[r].ahead \cup refresh[r].seen)
  BY <1>1 DEF Sparing, Spares, InSight, At, Refreshing
<1>7. Awaits(r, L) /\ Page(r, n, P, next, h)
  <2>1. L \in SUBSET Targets
    BY <1>1, <1>5 DEF Refresh
  <2> QED
    BY <1>1, <1>2, <1>3, <1>5, <1>6, <2>1 DEF Awaits, Page
<1>8. ShowsAll(r, L, P, h)
  BY <1>7, PageReads
<1>9. ASSUME NEW t \in h.old, Rested(t)'
      PROVE  ~Carried(t)' /\ (sc'[t] => listed'[t] /\ InSight(r, t)')
  <2>1. t \in refresh[r].old /\ Rested(t) /\ sc' = sc /\ listed' = listed
    BY <1>1, <1>8, <1>9 DEF ShowsAll, allVars, likeVars, Rested, Wanted, Pending
  <2>2. Carried(t)' => Carried(t)
    BY <1>1 DEF allVars, vars, Carried
  <2>3. sc[t] => InSight(r, t)'
    <3> SUFFICES ASSUME t \in L PROVE InSight(r, t)'
      BY <1>5, <2>1
    <3> QED
      BY <1>4, <1>8 DEF ShowsAll, InSight, Small
  <2> QED
    BY <1>6, <2>1, <2>2, <2>3
<1>10. Spares(r)'
  BY <1>4, <1>8, <1>9 DEF Spares, ShowsAll
<1> QED
  BY <1>1, <1>4, <1>10, OneSpares

\* What the pages have shown is written, and is old no more.
LEMMA UpsertSpares ==
  ASSUME Sparing, NEW r \in Refreshers, UpsertMirror(r)
  PROVE  Sparing'
<1>1. /\ refresh[r] # NoRefresh /\ refresh[r].step = "upsert" /\ refresh[r] \in Refresh
      /\ \A t \in refresh[r].old : Rested(t) =>
           ~Carried(t) /\ (sc[t] => listed[t] /\ InSight(r, t))
  BY DEF UpsertMirror, At, Refreshing, Sparing, Spares
<1>2. PICK seen : seen = refresh[r].seen
  OBVIOUS
<1>3. /\ UNCHANGED <<queue, jobs, calls, sc, listed>> /\ DOMAIN refresh' = Refreshers
      /\ \A t \in Targets \ seen : mirror'[t] = mirror[t]
  BY <1>2 DEF UpsertMirror, vars
<1>4. \A t \in Targets \ seen : LikeStays(t)
  BY <1>3 DEF LikeStays, Rested, Wanted, Pending, Carried
<1>5. ASSUME NEW q \in Refreshers, q # r PROVE Spares(q)'
  <2>1. CASE q \notin Refreshing
    BY <1>5, <2>1 DEF UpsertMirror, Spares
  <2>2. CASE q \in Refreshing
    <3>1. refresh[q] # NoRefresh /\ refresh[q] \in Refresh
      BY <2>2 DEF Refreshing, Sparing, Spares
    <3>2. refresh'[q] = [refresh[q] EXCEPT !.old = refresh[q].old \ seen]
      BY <1>2, <1>5, <2>2 DEF UpsertMirror
    <3>3. refresh[q].old \ seen \in SUBSET Targets
      BY <3>1 DEF Refresh
    <3>4. /\ refresh'[q].step = refresh[q].step /\ refresh'[q].sure = refresh[q].sure
          /\ refresh'[q].seen = refresh[q].seen /\ refresh'[q].got = refresh[q].got
          /\ refresh'[q].old = refresh[q].old \ seen /\ refresh'[q].ahead = refresh[q].ahead
      BY <3>1, <3>2 DEF Refresh
    <3>5. refresh'[q] \in Refresh
      BY <3>1, <3>2, <3>3 DEF Refresh
    <3>6. GoesOn(q)
      BY <3>1, <3>4, <3>5 DEF GoesOn
    <3>7. Untouched(q)
      BY <1>3, <1>4, <3>3, <3>4 DEF Untouched
    <3> QED
      BY <3>6, <3>7, StillSpares DEF Sparing
  <2> QED
    BY <2>1, <2>2
<1>6. Spares(r)'
  <2>1. CASE refresh'[r] = NoRefresh
    BY <2>1 DEF Spares
  <2>2. CASE /\ refresh[r].sure
             /\ refresh'[r] = [refresh[r] EXCEPT !.old = refresh[r].old \ seen, !.step = "guard"]
    <3>1. /\ refresh'[r].step = "guard" /\ refresh'[r].seen = refresh[r].seen
          /\ refresh'[r].got = refresh[r].got /\ refresh'[r].sure = refresh[r].sure
          /\ refresh'[r].old = refresh[r].old \ seen
      BY <1>1, <2>2 DEF Refresh
    <3>2. refresh'[r] \in Refresh
      <4>1. refresh[r].old \ seen \in SUBSET Targets
        BY <1>1 DEF Refresh
      <4> QED
        BY <1>1, <2>2, <4>1 DEF Refresh
    <3>3. ASSUME NEW t \in refresh'[r].old, Rested(t)'
          PROVE  ~Carried(t)' /\ (sc'[t] => listed'[t] /\ InSight(r, t)')
      <4>1. t \in Targets \ seen /\ t \in refresh[r].old
        BY <1>1, <3>1, <3>3 DEF Refresh
      <4>2. Rested(t) /\ (Carried(t)' => Carried(t))
        BY <1>4, <3>3, <4>1 DEF LikeStays
      <4>3. ~Carried(t) /\ (sc[t] => listed[t] /\ InSight(r, t))
        BY <1>1, <4>1, <4>2
      <4>4. InSight(r, t) => InSight(r, t)'
        BY <1>1, <2>2, <3>1 DEF InSight, Small
      <4> QED
        BY <1>3, <4>2, <4>3, <4>4
    <3> QED
      BY <2>2, <3>1, <3>2, <3>3 DEF Spares
  <2> QED
    BY <1>1, <1>2, <2>1, <2>2 DEF UpsertMirror, Refreshing
<1> QED
  BY <1>3, <1>5, <1>6 DEF Sparing

\* A snapshot of less than half of the steady likes is too small.
LEMMA GuardSpares ==
  ASSUME Sparing, NEW r \in Refreshers, GuardOrphans(r)
  PROVE  Sparing'
<1>1. /\ refresh[r] # NoRefresh /\ refresh[r].step = "guard" /\ refresh[r] \in Refresh
      /\ refresh[r].sure
      /\ \A t \in refresh[r].old : Rested(t) =>
           ~Carried(t) /\ (sc[t] => listed[t] /\ InSight(r, t))
      /\ UNCHANGED <<allVars, listed>>
  BY DEF GuardOrphans, At, Refreshing, Sparing, Spares
<1>2. CASE TooSmall(r)
  <2>1. refresh' = [refresh EXCEPT ![r] = NoRefresh] /\ refresh'[r] = NoRefresh
    BY <1>2 DEF GuardOrphans, Sparing
  <2>2. Spares(r)'
    BY <2>1 DEF Spares
  <2> QED
    BY <1>1, <2>1, <2>2, OneSpares
<1>3. CASE ~TooSmall(r)
  <2>1. PICK h : h = [refresh[r] EXCEPT !.step = "delete"]
    OBVIOUS
  <2>2. refresh' = [refresh EXCEPT ![r] = h] /\ refresh'[r] = h
    BY <1>3, <2>1 DEF GuardOrphans, Sparing
  <2>3. h.step = "delete" /\ h.seen = refresh[r].seen /\ h.old = refresh[r].old /\ h \in Refresh
    BY <1>1, <2>1 DEF Refresh
  <2>4. ~Small(r)
    <3>1. Cardinality({t \in Targets : Wanted(t) /\ ~Pending(t)}) \in Nat
      BY Counts
    <3>2. refresh[r].got \in Nat /\ Cardinality(refresh[r].seen) \in Nat
      BY <1>1, Counts, RefreshAssumption DEF Refresh
    <3> QED
      BY <1>3, <3>1, <3>2, RefreshAssumption DEF Small, TooSmall, Confirmedly
  <2>5. ASSUME NEW t \in h.old, Rested(t)'
        PROVE  ~Carried(t)' /\ (sc'[t] => listed'[t] /\ InSight(r, t)')
    <3>1. t \in Targets /\ LikeStays(t) /\ sc' = sc /\ listed' = listed
      BY <1>1, <2>3, <2>5, SameLikes DEF Refresh, allVars, likeVars
    <3>2. Rested(t) /\ (Carried(t)' => Carried(t))
      BY <2>5, <3>1 DEF LikeStays
    <3>3. ~Carried(t) /\ (sc[t] => listed[t] /\ InSight(r, t))
      BY <1>1, <2>3, <3>2
    <3>4. InSight(r, t) => InSight(r, t)'
      BY <1>1, <2>2, <2>3, <2>4 DEF InSight
    <3> QED
      BY <3>1, <3>2, <3>3, <3>4
  <2>6. Spares(r)'
    BY <2>2, <2>3, <2>5 DEF Spares
  <2> QED
    BY <1>1, <2>2, <2>6, OneSpares
<1> QED
  BY <1>2, <1>3

\* A row that is deleted is not wanted any more, for no other refresh either.
LEMMA DeleteSpares ==
  ASSUME Sparing, NEW r \in Refreshers, DeleteOrphans(r)
  PROVE  Sparing'
<1>1. /\ refresh' = [refresh EXCEPT ![r] = NoRefresh] /\ DOMAIN refresh' = Refreshers
      /\ UNCHANGED <<queue, jobs, calls, sc, listed>>
      /\ \A t \in Targets : mirror'[t] = mirror[t] \/ mirror'[t] = Absent
  BY DEF DeleteOrphans, Sparing, vars
<1>2. \A t \in Targets : LikeStays(t)
  BY <1>1 DEF LikeStays, Rested, Wanted, Pending, Carried
<1>3. ASSUME NEW q \in Refreshers, q # r PROVE Spares(q)'
  <2>1. GoesOn(q)
    BY <1>1, <1>3, RefreshStays DEF Sparing
  <2>2. Untouched(q)
    BY <1>1, <1>2, <2>1, OldAreTargets DEF Untouched
  <2> QED
    BY <2>1, <2>2, StillSpares DEF Sparing
<1>4. Spares(r)'
  BY <1>1 DEF Spares, Sparing
<1> QED
  BY <1>1, <1>3, <1>4 DEF Sparing

LEMMA OrphanNext ==
  ASSUME LikeTypeOK, OrphanInv, ReconcileNext
  PROVE  OrphanInv'
<1> SUFFICES ASSUME ~Excused, Sparing PROVE Sparing'
  BY FaultsStay DEF OrphanInv, Excused, Sparing
<1>1. CASE Likes \/ \E c \in Callers, t \in Targets : UserActs(c, t)
  BY <1>1, LikesSpare
<1>2. ASSUME NEW t \in Targets, WebChanges(t) PROVE Sparing'
  BY <1>2, WebSpares
<1>3. ASSUME NEW t \in Targets, ListingCatchesUp(t) PROVE Sparing'
  BY <1>3, SameLikes, FollowSpares DEF ListingCatchesUp
<1>4. ASSUME NEW r \in Refreshers, NEW old \in SUBSET Targets, StartRefresh(r, old)
      PROVE  Sparing'
  BY <1>4, StartSpares
<1>5. ASSUME NEW r \in Refreshers, RefreshSteps(r) PROVE Sparing'
  BY <1>5, FetchSpares, UpsertSpares, GuardSpares, DeleteSpares DEF RefreshSteps
<1>6. ASSUME NEW r \in Refreshers, RefreshFails(r) PROVE Sparing'
  <2>1. /\ UNCHANGED <<allVars, listed>> /\ refresh' = [refresh EXCEPT ![r] = NoRefresh]
        /\ refresh'[r] = NoRefresh
    BY <1>6 DEF RefreshFails, Sparing
  <2> QED
    BY <2>1, OneSpares DEF Spares
<1> QED
  BY <1>1, <1>2, <1>3, <1>4, <1>5, <1>6 DEF ReconcileNext

\* delete_orphans takes only likes that SoundCloud does not have and that nothing is
\* bringing there, with any number of refreshes at a time, whatever the listing lags,
\* forgets or cuts short: what its rows were found to be when the refresh began, no
\* step since has changed without making the row too young to delete.
THEOREM OnlyOrphansGo == ReconcileSpec => OrphansOnly
<1>1. ReconcileInit => OrphanInv
  BY DEF ReconcileInit, OrphanInv, Spares
<1>2. LikeTypeOK /\ OrphanInv /\ [ReconcileNext]_reconcileVars => OrphanInv'
  <2> SUFFICES ASSUME LikeTypeOK, OrphanInv, [ReconcileNext]_reconcileVars
               PROVE  OrphanInv'
    OBVIOUS
  <2>1. CASE ReconcileNext
    BY <2>1, OrphanNext
  <2>2. CASE UNCHANGED reconcileVars
    <3>1. UNCHANGED allVars /\ UNCHANGED refreshVars /\ UNCHANGED faults
      BY <2>2 DEF reconcileVars, allVars, likeVars
    <3>2. Sparing => Sparing'
      BY <3>1, SameLikes, FollowSpares
    <3> QED
      BY <3>1, <3>2 DEF OrphanInv, Excused, Sparing
  <2> QED
    BY <2>1, <2>2
<1>3. OrphanInv => [OrphanStep]_reconcileVars
  <2> SUFFICES ASSUME OrphanInv, NEW r \in Refreshers, NEW t \in Targets,
                      DeleteOrphans(r), Orphan(r, t), ~Excused
               PROVE  ~sc[t] /\ ~Carried(t)
    BY DEF OrphanStep, Excused
  <2>1. refresh[r] # NoRefresh /\ refresh[r].step = "delete"
    BY DEF DeleteOrphans, At, Refreshing
  <2>2. t \in refresh[r].old /\ t \notin refresh[r].seen /\ Rested(t)
    BY DEF Orphan, Rested
  <2> QED
    BY <2>1, <2>2 DEF OrphanInv, Spares, InSight
<1> QED
  BY <1>1, <1>2, <1>3, ReconcileTypes, PTL DEF ReconcileSpec, OrphansOnly
=============================================================================
