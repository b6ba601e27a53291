------------------------------ MODULE LikeSync -------------------------------
(* Likes and follows over the outbox: the mirror table says what the user     *)
(* wants (wanted_state) and whether SoundCloud still has to learn it          *)
(* (progress); a request writes the mirror and then enqueues an action; the   *)
(* flush calls SoundCloud and clears the mirror's progress; the heal sweep    *)
(* enqueues again what is still in progress and has no live row.              *)
(*                                                                            *)
(* Like and Unlike stand for like_track / unlike_track, like_playlist /       *)
(* unlike_playlist and follow_user / unfollow_user, which share this code.    *)
(* The outbox is that of SyncQueue: every step here is a step of it, or       *)
(* leaves it alone.                                                           *)
EXTENDS SyncQueue

CONSTANTS
  Like, Unlike,
  Absent,      \* no row in the mirror
  Scenes       \* sets of what may go wrong together, see FaultNames

FaultNames ==
  {"fail",       \* SoundCloud refuses an attempt
   "exhaust",    \* ... and so often that the row is parked
   "answer",     \* the call took effect, but its answer or the mirror's update is lost
   "lost",       \* a flush is dropped halfway, or a settling statement fails
   "drop",       \* a request stops between two of its statements
   "heal_race",  \* heal runs before a request has reached the outbox
   "repeat",     \* a client asks for what the mirror already wants
   "overlap",    \* requests, or a request and an attempt, of one target overlap
   "purge"}      \* an admin purges rows

ASSUME LikeAssumption ==
  /\ Like # Unlike
  /\ Actions = {Like, Unlike} /\ Healable = Actions /\ WithPayload = {}
  /\ inverse[Like] = Unlike /\ inverse[Unlike] = Like

MirrorRow == [wanted : BOOLEAN, progress : BOOLEAN]

\* clear_wanted between its SELECT and its write; read is what it selected.
Request == [target : Targets, read : MirrorRow \cup {Absent}]

ASSUME AbsentAssumption == Absent \notin MirrorRow /\ NoCall \notin Request

VARIABLES
  mirror,    \* user_likes_tracks, user_likes_playlists or user_followings
  sc,        \* whether SoundCloud has the like
  requests,  \* clear_wanted calls in progress
  acked,     \* attempts SoundCloud has answered, mirror not updated yet
  faults     \* what may go wrong in this behaviour, one of Scenes

likeVars == <<mirror, sc, requests, acked, faults>>
allVars  == <<vars, likeVars>>

LikeTypeOK ==
  /\ TypeOK
  /\ mirror \in [Targets -> MirrorRow \cup {Absent}]
  /\ sc \in [Targets -> BOOLEAN]
  /\ requests \in [Callers -> Request \cup {NoCall}]
  /\ acked \subseteq jobs

Wanted(t)  == mirror[t] # Absent /\ mirror[t].wanted
Pending(t) == mirror[t] # Absent /\ mirror[t].progress

\* A request for the target has not done its last statement.
Requested(t) ==
  \E c \in Callers : \/ requests[c] # NoCall /\ requests[c].target = t
                     \/ calls[c] # NoCall /\ calls[c].key[2] = t

Synced == [wanted |-> TRUE, progress |-> FALSE]

LikeInit ==
  /\ Init
  /\ sc \in [Targets -> BOOLEAN]
  /\ mirror = [t \in Targets |-> IF sc[t] THEN Synced ELSE Absent]
  /\ requests = [c \in Callers |-> NoCall]
  /\ acked = {}
  /\ faults \in Scenes

-----------------------------------------------------------------------------
(* The requests: the mirror first, then enqueue.                              *)

InFlight(t) == \/ \E j \in jobs : j.key[2] = t
               \/ \E k \in Rows : k[2] = t /\ queue[k].lockedBy # Nobody

\* A user interface offers the opposite of what the mirror wants.
Offered(op, t) ==
  /\ "repeat" \in faults \/ Wanted(t) # (op = Like)
  /\ "overlap" \in faults \/ ~(InFlight(t) \/ Requested(t))

Idle(c) == requests[c] = NoCall /\ calls[c] = NoCall

SetWanted(m) ==
  [wanted |-> TRUE, progress |-> IF m = Absent THEN TRUE ELSE m.wanted /\ m.progress]

RequestLike(c, t) ==
  /\ Idle(c)
  /\ Offered(Like, t)
  /\ mirror' = [mirror EXCEPT ![t] = SetWanted(@)]
  /\ BeginEnqueue(c, <<Like, t>>, NoPayload)
  /\ UNCHANGED <<sc, requests, acked, faults>>

\* clear_wanted reads the row, and decides what to write by what it read.
RequestUnlike(c, t) ==
  /\ Idle(c)
  /\ Offered(Unlike, t)
  /\ requests' = [requests EXCEPT ![c] = [target |-> t, read |-> mirror[t]]]
  /\ UNCHANGED <<vars, mirror, sc, acked, faults>>

ClearWanted(read, m) ==
  IF read = Absent \/ ~read.wanted \/ m = Absent THEN m
  ELSE IF read.progress THEN Absent
  ELSE [wanted |-> FALSE, progress |-> TRUE]

WriteUnlike(c) ==
  /\ requests[c] # NoCall
  /\ LET t == requests[c].target
     IN /\ mirror' = [mirror EXCEPT ![t] = ClearWanted(requests[c].read, @)]
        /\ BeginEnqueue(c, <<Unlike, t>>, NoPayload)
  /\ requests' = [requests EXCEPT ![c] = NoCall]
  /\ UNCHANGED <<sc, acked, faults>>

InEnqueue(c) ==
  /\ CancelInverse(c) \/ InsertRow(c)
  /\ UNCHANGED likeVars

DropRequest(c) ==
  /\ "drop" \in faults
  /\ \/ DropCall(c) /\ UNCHANGED likeVars
     \/ /\ requests[c] # NoCall
        /\ requests' = [requests EXCEPT ![c] = NoCall]
        /\ UNCHANGED <<vars, mirror, sc, acked, faults>>

-----------------------------------------------------------------------------
(* The attempts: SoundCloud first, then the mirror.                           *)

IsLike(j)  == j.key[1] = Like
Unasked(j) == j.phase = "running" /\ j \notin acked

ScAnswers(j) ==
  /\ Unasked(j)
  /\ sc' = [sc EXCEPT ![j.key[2]] = IsLike(j)]
  /\ acked' = acked \cup {j}
  /\ UNCHANGED <<vars, mirror, requests, faults>>

\* (mutant) The UPDATE and the DELETE without their wanted_state condition.
ConfirmedBlindly(j, m) ==
  IF m = Absent \/ ~IsLike(j) THEN Absent ELSE [m EXCEPT !.progress = FALSE]

\* UPDATE ... WHERE wanted_state = true; DELETE ... WHERE wanted_state = false.
Confirmed(j, m) ==
  IF m = Absent \/ m.wanted # IsLike(j) THEN m
  ELSE IF IsLike(j) THEN Synced ELSE Absent

Confirm(j) ==
  /\ j \in acked
  /\ AttemptOk(j)
  /\ mirror' = [mirror EXCEPT ![j.key[2]] = Confirmed(j, @)]
  /\ acked' = acked \ {j}
  /\ UNCHANGED <<sc, requests, faults>>

ScRefuses(j) ==
  /\ Unasked(j)
  /\ "fail" \in faults
  /\ AttemptFails(j)
  /\ UNCHANGED likeVars

AnswerLost(j) ==
  /\ "answer" \in faults
  /\ j \in acked
  /\ AttemptFails(j)
  /\ acked' = acked \ {j}
  /\ UNCHANGED <<mirror, sc, requests, faults>>

Finish(j) ==
  /\ \/ DeleteIfUnchanged(j)
     \/ ExternalBackoff(j)
     \/ RetryBackoff(j)
     \/ "exhaust" \in faults /\ ParkDead(j)
     \/ "lost" \in faults /\ SettleFails(j)
  /\ UNCHANGED likeVars

Undisturbed(S) == "overlap" \in faults \/ \A k \in S : ~Requested(k[2])

FlushSteps(w) ==
  \/ /\ \/ \E S \in SUBSET Key : Claim(w, S) /\ Undisturbed(S)
        \/ \E K \in SUBSET jobs : Dedup(w, K)
     /\ UNCHANGED likeVars
  \/ /\ "lost" \in faults
     /\ WorkerLost(w)
     /\ acked' = {j \in acked : j.worker # w}
     /\ UNCHANGED <<mirror, sc, requests, faults>>

-----------------------------------------------------------------------------
\* heal_likes_tracks, heal_likes_playlists, heal_followings.  The row's synced_at
\* or created_at is 15 minutes old: that leaves a like the time to reach the
\* outbox, but not the unlike of an old like, which clear_wanted does not touch.
HealMirror(t) ==
  /\ Pending(t)
  /\ "heal_race" \in faults \/ ~Requested(t)
  /\ Heal(<<IF Wanted(t) THEN Like ELSE Unlike, t>>)
  /\ UNCHANGED likeVars

Upkeep ==
  /\ \/ \E k \in Key : LeaseExpires(k) \/ DeleteOldDead(k)
     \/ AdminFlush
     \/ "purge" \in faults /\ \E n \in 1..MaxRetries : AdminPurge(n)
  /\ UNCHANGED likeVars

LikeNext ==
  \/ \E c \in Callers, t \in Targets : RequestLike(c, t) \/ RequestUnlike(c, t)
  \/ \E c \in Callers :
       WriteUnlike(c) \/ InEnqueue(c) \/ DropRequest(c)
  \/ \E w \in Workers : FlushSteps(w)
  \/ \E j \in jobs :
       ScAnswers(j) \/ Confirm(j) \/ ScRefuses(j) \/ AnswerLost(j) \/ Finish(j)
  \/ \E t \in Targets : HealMirror(t)
  \/ Upkeep

\* The flush and heal ticks never stop (run_periodic).  A flush is not dropped at
\* the same step for ever, and SoundCloud does not refuse a target for ever.
On(t) == {j \in jobs : j.key[2] = t}

FairOn(t) ==
  /\ SF_allVars(\E w \in Workers, S \in SUBSET Key :
                  (\E k \in S : k[2] = t) /\ Claim(w, S) /\ UNCHANGED likeVars)
  /\ SF_allVars(\E j \in On(t) : ScAnswers(j))
  /\ SF_allVars(\E j \in On(t) : Confirm(j))
  /\ SF_allVars(\E j \in On(t) : DeleteIfUnchanged(j) /\ UNCHANGED likeVars)
  /\ WF_allVars(\E j \in On(t) : Finish(j))
  /\ WF_allVars(\E a \in Actions : LeaseExpires(<<a, t>>) /\ UNCHANGED likeVars)
  /\ WF_allVars(HealMirror(t))

LikeSpec == LikeInit /\ [][LikeNext]_allVars
FairLikeSpec ==
  /\ LikeSpec
  /\ \A t \in Targets : FairOn(t)
  /\ \A w \in Workers :
       SF_allVars(\E K \in SUBSET jobs : Dedup(w, K) /\ UNCHANGED likeVars)

-----------------------------------------------------------------------------
(* Properties.                                                                *)

Busy(t) == Requested(t) \/ \E j \in jobs : j.key[2] = t

\* Nothing is left that would still bring the target to SoundCloud.
AtRest(t) ==
  /\ ~Busy(t)
  /\ ~Pending(t)
  /\ \A k \in Rows : k[2] = t => queue[k].dead

\* "Permanent loss is impossible" (heal): when the outbox has nothing more to do
\* for a target, SoundCloud has exactly what the user last asked for.
NoPermanentLoss == \A t \in Targets : AtRest(t) => sc[t] = Wanted(t)

\* Between SoundCloud's answer and the mirror's update nobody has changed the
\* target on SoundCloud, so clearing progress tells the truth.
AnswerIsCurrent == \A j \in acked : sc[j.key[2]] = IsLike(j)

\* What the user wants is changed by the user's requests alone: an answer that
\* comes after the user has changed their mind leaves the new wish as it is
\* (unlike_track: "if the user flipped it back, we do not touch it").
IntentStep == \A t \in Targets : Wanted(t)' # Wanted(t) => calls' # calls

IntentIsTheUsers == [][IntentStep]_allVars

\* What the mirror shows as in progress does not stay so: refused, parked, purged
\* and forgotten actions are enqueued and tried again until SoundCloud has them.
MirrorSettles == \A t \in Targets : Pending(t) ~> ~Pending(t)

=============================================================================
