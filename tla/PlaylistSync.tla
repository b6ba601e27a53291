----------------------------- MODULE PlaylistSync -----------------------------
(* Playlists a user owns, over the outbox.  The table playlist_tracks holds   *)
(* the list the user wants; desired_rev counts the edits, synced_rev is the   *)
(* last one SoundCloud is known to have.  An edit works on the local list and *)
(* enqueues playlist_sync, which sends whatever the list then is; a refresh   *)
(* replaces the local list by SoundCloud's, unless an edit is pending.        *)
(*                                                                            *)
(* Create, delete and sharing are left out: the rows of these playlists exist *)
(* throughout.                                                                *)
EXTENDS SyncQueue, TrackLists

CONSTANTS
  Sync,        \* action_type playlist_sync
  Lists,       \* lists of tracks without duplicates
  MaxRev,      \* bound on desired_rev
  Faults       \* what may go wrong, see FaultNames

FaultNames ==
  {"fail",      \* SoundCloud refuses an attempt
   "exhaust",   \* ... and so often that the row is parked
   "answer",    \* the list arrived, but the answer or the mark of synced_rev is lost
   "lost",      \* a flush is dropped halfway, or a settling statement fails
   "drop",      \* a request stops between two of its statements
   "truncated", \* a pagination breaks off
   "unseeded",  \* a list may not have been fetched yet
   "stale",     \* a refresh overlaps an edit or the edit's way to SoundCloud
   "web",       \* the list is edited on SoundCloud's own site
   "purge"}     \* an admin purges rows

ASSUME SyncAssumption ==
  /\ Actions = {Sync} /\ Healable = {Sync} /\ WithPayload = {}
  /\ inverse[Sync] = NoAction
ASSUME ListAssumption ==
  /\ Lists \subseteq Seq(Tracks) /\ <<>> \in Lists
  /\ \A l \in Lists : Edits(l) \subseteq Lists /\ Truncated(l) \subseteq Lists
ASSUME RevAssumption == MaxRev \in Nat
ASSUME FaultAssumption == Faults \subseteq FaultNames

\* A handler, or a refresh it spawned.  got is what the pagination brought.
Request == [target : Targets,
            edit   : BOOLEAN,
            step   : {"lock", "fetch", "guard", "replace", "mutate"},
            got    : Lists]

\* playlist_sync: what desired_snapshot has read so far, and what was sent.
Push == [job  : Job,
         rev  : Nat,
         sent : Lists,
         step : {"rev", "ids", "acked"}]

ASSUME IdleAssumption == NoCall \notin Request

VARIABLES
  tracks,       \* playlist_tracks
  seeded,       \* tracks_synced_at is not NULL
  desired_rev, synced_rev,
  sc,           \* the lists on SoundCloud
  locked,       \* Redis: the refresh lock of a playlist
  requests,     \* requests that have not reached enqueue
  pushes,       \* playlist_sync attempts
  edited        \* history: the list the last edit asked for

playlistVars == <<tracks, seeded, desired_rev, synced_rev, sc, locked, requests,
                  pushes, edited>>
tableVars    == <<tracks, seeded, desired_rev, synced_rev, edited>>
allVars      == <<vars, playlistVars>>

PlaylistTypeOK ==
  /\ TypeOK
  /\ tracks \in [Targets -> Lists] /\ sc \in [Targets -> Lists]
  /\ edited \in [Targets -> Lists]
  /\ seeded \in [Targets -> BOOLEAN] /\ locked \in [Targets -> BOOLEAN]
  /\ desired_rev \in [Targets -> Nat] /\ synced_rev \in [Targets -> Nat]
  /\ requests \in [Callers -> Request \cup {NoCall}]
  /\ pushes \subseteq Push
  /\ \A x \in pushes : x.job \in jobs /\ x.job.phase = "running"

\* has_pending_intent
Pending(p) == desired_rev[p] > synced_rev[p]

PlaylistInit ==
  /\ Init
  /\ sc \in [Targets -> Lists]
  /\ seeded \in [Targets -> IF "unseeded" \in Faults THEN BOOLEAN ELSE {TRUE}]
  /\ tracks = [p \in Targets |-> IF seeded[p] THEN sc[p] ELSE <<>>]
  /\ edited = tracks
  /\ desired_rev = [p \in Targets |-> 0] /\ synced_rev = desired_rev
  /\ locked = [p \in Targets |-> FALSE]
  /\ requests = [c \in Callers |-> NoCall]
  /\ pushes = {}

-----------------------------------------------------------------------------
(* Refreshes and edits.                                                       *)

Idle(c) == requests[c] = NoCall /\ calls[c] = NoCall

At(c, step) == requests[c] # NoCall /\ requests[c].step = step

Begin(c, p, edit, step) ==
  /\ Idle(c)
  /\ requests' = [requests EXCEPT ![c] =
                    [target |-> p, edit |-> edit, step |-> step, got |-> <<>>]]
  /\ UNCHANGED <<vars, tableVars, sc, locked, pushes>>

\* get_tracks: a playlist without a list yet, or another user's that is stale.
BeginRead(c, p) == Begin(c, p, FALSE, "lock")

\* edit_tracks and update, as far as ensure_desired_seeded.
BeginEdit(c, p) ==
  Begin(c, p, TRUE, IF seeded[p] \/ Pending(p) THEN "mutate" ELSE "lock")

GoTo(c, step) == requests' = [requests EXCEPT ![c].step = step]

\* refresh_playlist_tracks returns Ok.
Return(c) ==
  requests' = [requests EXCEPT ![c] = IF @.edit THEN [@ EXCEPT !.step = "mutate"]
                                               ELSE NoCall]

\* Somebody holds the lock: return Ok and refresh nothing.
TryLock(c) ==
  /\ At(c, "lock")
  /\ LET p == requests[c].target
     IN \/ locked[p] /\ Return(c) /\ UNCHANGED locked
        \/ ~locked[p] /\ GoTo(c, "fetch") /\ locked' = [locked EXCEPT ![p] = TRUE]
  /\ UNCHANGED <<vars, tableVars, sc, pushes>>

\* Nobody releases the lock; it has a TTL.
LockExpires(p) ==
  /\ locked[p]
  /\ locked' = [locked EXCEPT ![p] = FALSE]
  /\ UNCHANGED <<vars, tableVars, sc, requests, pushes>>

Calm == "stale" \notin Faults

\* fetch_all_pages.  An error ends the request, see DropRequest.
Fetch(c) ==
  /\ At(c, "fetch")
  /\ LET p == requests[c].target
     IN /\ Calm => ~Pending(p)
        /\ \/ requests' = [requests EXCEPT ![c] = [@ EXCEPT !.step = "replace",
                                                            !.got = sc[p]]]
           \/ /\ "truncated" \in Faults
              /\ \E l \in Truncated(sc[p]) :
                   requests' = [requests EXCEPT ![c] = [@ EXCEPT !.step = "guard",
                                                                 !.got = l]]
  /\ UNCHANGED <<vars, tableVars, sc, locked, pushes>>

\* A pagination that broke off must not make the list shorter.
Guard(c) ==
  /\ At(c, "guard")
  /\ IF Len(requests[c].got) < Len(tracks[requests[c].target])
     THEN Return(c) ELSE GoTo(c, "replace")
  /\ UNCHANGED <<vars, tableVars, sc, locked, pushes>>

\* (mutant) The refresh compares the revisions the wrong way round.
Overtaken(p) == desired_rev[p] >= synced_rev[p]

\* Local first: the transaction is rolled back when an edit is pending.
Unchallenged(p) == ~Pending(p)

ReplaceTracks(c) ==
  /\ At(c, "replace")
  /\ LET p == requests[c].target
     IN IF Unchallenged(p)
        THEN /\ tracks' = [tracks EXCEPT ![p] = requests[c].got]
             /\ seeded' = [seeded EXCEPT ![p] = TRUE]
        ELSE UNCHANGED <<tracks, seeded>>
  /\ Return(c)
  /\ UNCHANGED <<vars, desired_rev, synced_rev, edited, sc, locked, pushes>>

\* mutate_desired: one transaction; then the call of enqueue.
MutateDesired(c) ==
  /\ At(c, "mutate")
  /\ LET p == requests[c].target
     IN /\ desired_rev[p] < MaxRev
        /\ Calm => \A d \in Callers :
             At(d, "guard") \/ At(d, "replace") => requests[d].target # p
        /\ \E l \in Edits(tracks[p]) : /\ tracks' = [tracks EXCEPT ![p] = l]
                                       /\ edited' = [edited EXCEPT ![p] = l]
        /\ desired_rev' = [desired_rev EXCEPT ![p] = @ + 1]
        /\ seeded' = [seeded EXCEPT ![p] = TRUE]
        /\ BeginEnqueue(c, <<Sync, p>>, NoPayload)
  /\ requests' = [requests EXCEPT ![c] = NoCall]
  /\ UNCHANGED <<synced_rev, sc, locked, pushes>>

InEnqueue(c) ==
  /\ CancelInverse(c) \/ InsertRow(c)
  /\ UNCHANGED playlistVars

DropRequest(c) ==
  /\ "drop" \in Faults
  /\ \/ DropCall(c) /\ UNCHANGED playlistVars
     \/ /\ requests[c] # NoCall
        /\ requests' = [requests EXCEPT ![c] = NoCall]
        /\ UNCHANGED <<vars, tableVars, sc, locked, pushes>>

-----------------------------------------------------------------------------
(* playlist_sync: desired_rev, then the list, then SoundCloud, then the mark. *)

ReadRev(j) ==
  /\ j.phase = "running"
  /\ \A x \in pushes : x.job # j
  /\ pushes' = pushes \cup {[job |-> j, rev |-> desired_rev[j.key[2]],
                             sent |-> <<>>, step |-> "rev"]}
  /\ UNCHANGED <<vars, tableVars, sc, locked, requests>>

Advance(x, y) == pushes' = (pushes \ {x}) \cup {y}

ReadIds(x) ==
  /\ x.step = "rev"
  /\ Advance(x, [x EXCEPT !.sent = tracks[x.job.key[2]], !.step = "ids"])
  /\ UNCHANGED <<vars, tableVars, sc, locked, requests>>

ScTakes(x) ==
  /\ x.step = "ids"
  /\ sc' = [sc EXCEPT ![x.job.key[2]] = x.sent]
  /\ Advance(x, [x EXCEPT !.step = "acked"])
  /\ UNCHANGED <<vars, tableVars, locked, requests>>

\* (mutant) UPDATE ... SET synced_rev = desired_rev.
MarkedBlindly(p, rev) == desired_rev[p]

\* UPDATE ... SET synced_rev = rev WHERE desired_rev = rev.
Marked(p, rev) == IF desired_rev[p] = rev THEN rev ELSE synced_rev[p]

MarkSynced(x) ==
  /\ x.step = "acked"
  /\ AttemptOk(x.job)
  /\ LET p == x.job.key[2]
     IN synced_rev' = [synced_rev EXCEPT ![p] = Marked(p, x.rev)]
  /\ pushes' = pushes \ {x}
  /\ UNCHANGED <<tracks, seeded, desired_rev, edited, sc, locked, requests>>

\* An error of the token, of a query or of SoundCloud.
PushFails(j) ==
  /\ \A x \in pushes : x.job = j => "answer" \in Faults \/ x.step # "acked"
  /\ "fail" \in Faults
  /\ AttemptFails(j)
  /\ pushes' = {x \in pushes : x.job # j}
  /\ UNCHANGED <<tableVars, sc, locked, requests>>

Finish(j) ==
  /\ \/ DeleteIfUnchanged(j)
     \/ ExternalBackoff(j)
     \/ RetryBackoff(j)
     \/ "exhaust" \in Faults /\ ParkDead(j)
     \/ "lost" \in Faults /\ SettleFails(j)
  /\ UNCHANGED playlistVars

FlushSteps(w) ==
  \/ /\ \/ \E S \in SUBSET Key : Claim(w, S)
        \/ \E K \in SUBSET jobs : Dedup(w, K)
     /\ UNCHANGED playlistVars
  \/ /\ "lost" \in Faults
     /\ WorkerLost(w)
     /\ pushes' = {x \in pushes : x.job.worker # w}
     /\ UNCHANGED <<tableVars, sc, locked, requests>>

-----------------------------------------------------------------------------
\* heal_playlists.
HealPlaylist(p) ==
  /\ Pending(p)
  /\ Heal(<<Sync, p>>)
  /\ UNCHANGED playlistVars

ScEdit(p) ==
  /\ "web" \in Faults
  /\ \E l \in Lists : sc' = [sc EXCEPT ![p] = l]
  /\ UNCHANGED <<vars, tableVars, locked, requests, pushes>>

Upkeep ==
  /\ \/ \E k \in Key : LeaseExpires(k) \/ DeleteOldDead(k)
     \/ AdminFlush
     \/ "purge" \in Faults /\ \E n \in 1..MaxRetries : AdminPurge(n)
  /\ UNCHANGED playlistVars

RequestSteps(c) ==
  \/ \E p \in Targets : BeginRead(c, p) \/ BeginEdit(c, p)
  \/ TryLock(c) \/ Fetch(c) \/ Guard(c) \/ ReplaceTracks(c) \/ MutateDesired(c)
  \/ InEnqueue(c) \/ DropRequest(c)

PlaylistNext ==
  \/ \E c \in Callers : RequestSteps(c)
  \/ \E w \in Workers : FlushSteps(w)
  \/ \E j \in jobs : ReadRev(j) \/ PushFails(j) \/ Finish(j)
  \/ \E x \in pushes : ReadIds(x) \/ ScTakes(x) \/ MarkSynced(x)
  \/ \E p \in Targets : HealPlaylist(p) \/ LockExpires(p) \/ ScEdit(p)
  \/ Upkeep

\* The flush and heal ticks never stop (run_periodic); a flush is not dropped at
\* the same step for ever, and SoundCloud does not refuse a playlist for ever.
On(p)     == {j \in jobs : j.key[2] = p}
PushOn(p) == {x \in pushes : x.job.key[2] = p}

FairOn(p) ==
  /\ SF_allVars(\E w \in Workers, S \in SUBSET Key :
                  (\E k \in S : k[2] = p) /\ Claim(w, S) /\ UNCHANGED playlistVars)
  /\ SF_allVars(\E j \in On(p) : ReadRev(j))
  /\ SF_allVars(\E x \in PushOn(p) : ReadIds(x))
  /\ SF_allVars(\E x \in PushOn(p) : ScTakes(x))
  /\ SF_allVars(\E x \in PushOn(p) : MarkSynced(x))
  /\ WF_allVars(\E j \in On(p) : Finish(j))
  /\ WF_allVars(LeaseExpires(<<Sync, p>>) /\ UNCHANGED playlistVars)
  /\ WF_allVars(HealPlaylist(p))

PlaylistSpec == PlaylistInit /\ [][PlaylistNext]_allVars
FairPlaylistSpec ==
  /\ PlaylistSpec
  /\ \A p \in Targets : FairOn(p)
  /\ \A w \in Workers :
       SF_allVars(\E K \in SUBSET jobs : Dedup(w, K) /\ UNCHANGED playlistVars)

-----------------------------------------------------------------------------
(* Properties.                                                                *)

\* "Local first: a SoundCloud pull does not overwrite the desired state, ours
\* wins" (replace_tracks): while an edit is pending the local list is the one it
\* asked for, whatever refreshes were under way when it came.
PendingIsKept == \A p \in Targets : Pending(p) => tracks[p] = edited[p]

\* An edit counts as synced only when the list that was sent is the list of that
\* edit: desired_snapshot reads the revision and the list in two statements, and
\* an edit, a refresh or another attempt may come between them.
MarkStep ==
  \A p \in Targets : synced_rev'[p] # synced_rev[p] =>
    \E x \in pushes \ pushes' :
      x.job.key[2] = p /\ x.step = "acked" /\ x.rev = desired_rev[p] /\ x.sent = edited[p]

MarksWhatWasSent == [][MarkStep]_allVars

\* With no pending edit, both sides have the list of the last one.
SyncedIsDelivered ==
  \A p \in Targets :
    desired_rev[p] > 0 /\ ~Pending(p) => sc[p] = edited[p] /\ tracks[p] = edited[p]

\* An edit reaches SoundCloud: what fails, is parked, purged or forgotten is
\* enqueued and sent again.
EditsSettle == \A p \in Targets : Pending(p) ~> ~Pending(p)

=============================================================================
