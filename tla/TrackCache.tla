----------------------------- MODULE TrackCache -----------------------------
(***************************************************************************)
(* The desktop client's cache of one track (track_cache/state.rs).  A      *)
(* download lands as raw bytes in incoming_dir; a background transcode     *)
(* makes the clean file in audio_dir, or in liked_dir for a liked track,   *)
(* and the raw file goes after a grace period.  Requests for the same      *)
(* track share one download: the first is the winner, the others wait for  *)
(* its notification.  Around them the bulk caching of likes, exports, the  *)
(* quota, the user's deletions, and a restart that keeps only the disk.    *)
(* Tracks share nothing but the semaphores, so one is enough.  A download  *)
(* is one step with an outcome: its sources, retries and races write temp  *)
(* files of their own and meet in one rename.                              *)
(***************************************************************************)
EXTENDS Naturals

CONSTANTS Requests,     \* callers that ask for the track
          Nobody,       \* no request
          MaxCuts,      \* MAX_TRUNCATED_RETRIES
          MaxTimers,    \* bound on pending removals of the raw file
          MaxRestarts,  \* bound on restarts of the client
          Scenes        \* the sets of Events a behaviour may show

ASSUME NobodyAssumption == Nobody \notin Requests
ASSUME BoundsAssumption == MaxCuts \in Nat /\ MaxTimers \in Nat \ {0} /\ MaxRestarts \in Nat

VARIABLES disk,      \* the track's file and metadata in each directory: these survive a restart
          winner,    \* active: the request whose download is shared
          slot,      \* result_slot of each winner
          req,       \* what each request is doing
          coder,     \* the transcode that owns the track's place in `transcoding`
          timers,    \* raw files to drop: the requests a removal has to wait for
          cuts,      \* truncated_retries
          ffmpeg,    \* whether ffmpeg has been acquired
          cancel,    \* likes_cancel
          restarts, scene

vars == <<disk, winner, slot, req, coder, timers, cuts, ffmpeg, cancel, restarts, scene>>

Clean   == {"liked", "audio"}
Dirs    == Clean \cup {"incoming"}
Lengths == {"full", "short"}        \* against the length the API reports
Kinds   == {"play", "export", "like"}
Events  == Kinds \cup {"short", "remove", "clear", "limit", "cancel", "crash", "early"}

ASSUME ScenesAssumption == Scenes \subseteq SUBSET Events

\* A directory's file and what TrackCacheMetadata says of it; a file without
\* metadata reads like one whose metadata says nothing.
File(len, liked, expected, probed) ==
  [len |-> len, liked |-> liked, expected |-> expected, probed |-> probed]
Files == [len : Lengths \cup {"no"}, liked : BOOLEAN,
          expected : Lengths \cup {"none"}, probed : Lengths \cup {"none"}]
Bare(len) == File(len, FALSE, "none", "none")
Gone      == Bare("no")

Valid(d) == disk[d].len # "no"

\* resolve_clean_path and resolve_path: three stats, taken as one.
CleanPath == IF Valid("liked") THEN "liked" ELSE IF Valid("audio") THEN "audio" ELSE "none"
Path      == IF CleanPath # "none" THEN CleanPath
             ELSE IF Valid("incoming") THEN "incoming" ELSE "none"

\* meta_duration_ok fails: the recorded length falls short of the API's.
CutOff(d) == d \in Clean /\ disk[d].probed = "short" /\ disk[d].expected = "full"

Idle    == [pc |-> "idle", kind |-> "none", of |-> Nobody, woken |-> FALSE, path |-> "none"]
NoCoder == [pc |-> "none", by |-> Nobody, liked |-> FALSE, expected |-> "none", len |-> "no"]
NoTimer == {Nobody}

Places == {"idle", "look", "task", "enter", "download", "stamp", "store", "notify", "leave",
           "join", "check", "doze", "asleep", "answer", "handed", "export", "coding", "poll"}

Init ==
  /\ disk = [d \in Dirs |-> Gone]
  /\ winner = Nobody
  /\ slot = [p \in Requests |-> "none"]
  /\ req = [p \in Requests |-> Idle]
  /\ coder = NoCoder
  /\ timers = [i \in 1 .. MaxTimers |-> NoTimer]
  /\ cuts = 0
  /\ ffmpeg = "preparing"
  /\ cancel = FALSE
  /\ restarts = 0
  /\ scene \in Scenes

----------------------------------------------------------------------------
(* What every request does: ensure_cached.                                 *)

Goto(p, place) == req' = [req EXCEPT ![p].pc = place]

\* The caller gets path d: a play hands it to the player, an export goes on
\* with it, the bulk run of likes only counts it.
Reply(p, kind, d) ==
  /\ req' = [req EXCEPT ![p] =
       CASE kind = "play"   -> [Idle EXCEPT !.pc = "handed", !.kind = kind, !.path = d]
         [] kind = "export" -> [Idle EXCEPT !.pc = "export", !.kind = kind]
         [] kind = "like"   -> Idle]
  /\ cancel' = (cancel /\ kind # "like")

Fail(p) ==
  /\ req' = [req EXCEPT ![p] = Idle]
  /\ cancel' = (cancel /\ req[p].kind # "like")

\* get_cache_entry at the top: a hit is answered at once, a clean file that was
\* cut off is dropped with everything else of the track.
Lookup(p, kind) ==
  IF Path # "none" /\ ~CutOff(Path)
  THEN Reply(p, kind, Path) /\ UNCHANGED disk
  ELSE /\ disk' = IF Path = "none" THEN disk ELSE [d \in Dirs |-> Gone]
       /\ req' = [req EXCEPT ![p] = [Idle EXCEPT !.pc = "enter", !.kind = kind]]
       /\ UNCHANGED cancel

\* A request may start over once nobody waits for its last download.
Fresh(p) == req[p].pc = "idle" /\ \A q \in Requests : req[q].of # p

Ask(p) ==
  /\ Fresh(p)
  /\ \E kind \in scene \cap {"play", "export"} : Lookup(p, kind)
  /\ UNCHANGED <<winner, slot, coder, timers, cuts, ffmpeg, restarts, scene>>

\* The timers need not wait for p any more.
Past(p) == timers' = [i \in DOMAIN timers |-> timers[i] \ {p}]

Win(p) ==
  /\ req[p].pc = "enter" /\ winner = Nobody
  /\ winner' = p
  /\ slot' = [slot EXCEPT ![p] = "none"]
  /\ Goto(p, "download")
  /\ Past(p)
  /\ UNCHANGED <<disk, coder, cuts, ffmpeg, cancel, restarts, scene>>

Join(p) ==
  /\ req[p].pc = "enter" /\ winner # Nobody
  /\ req' = [req EXCEPT ![p].pc = "join", ![p].of = winner]
  /\ Past(p)
  /\ UNCHANGED <<disk, winner, slot, coder, cuts, ffmpeg, cancel, restarts, scene>>

\* notified().enable(), the look at the slot, and the first poll of notified.
Register(p) ==
  /\ req[p].pc = "join"
  /\ Goto(p, "check")
  /\ UNCHANGED <<disk, winner, slot, coder, timers, cuts, ffmpeg, cancel, restarts, scene>>

Check(p) ==
  /\ req[p].pc = "check"
  /\ Goto(p, IF slot[req[p].of] = "none" THEN "doze" ELSE "answer")
  /\ UNCHANGED <<disk, winner, slot, coder, timers, cuts, ffmpeg, cancel, restarts, scene>>

Sleep(p) ==
  /\ req[p].pc = "doze"
  /\ Goto(p, "asleep")
  /\ UNCHANGED <<disk, winner, slot, coder, timers, cuts, ffmpeg, cancel, restarts, scene>>

Wake(p) ==
  /\ req[p].pc = "asleep" /\ req[p].woken
  /\ Goto(p, "answer")
  /\ UNCHANGED <<disk, winner, slot, coder, timers, cuts, ffmpeg, cancel, restarts, scene>>

\* The path in the slot is resolved again; without a file it is handed out as it is.
Current(d) == IF Path = "none" THEN d ELSE Path

Answer(p) ==
  /\ req[p].pc = "answer"
  /\ IF slot[req[p].of] = "ok" THEN Reply(p, req[p].kind, Current("incoming")) ELSE Fail(p)
  /\ UNCHANGED <<disk, winner, slot, coder, timers, cuts, ffmpeg, restarts, scene>>

----------------------------------------------------------------------------
(* The winner's download, and the transcode it starts.                     *)

DownloadFails(p) ==
  /\ req[p].pc = "download"
  /\ Goto(p, "store")
  /\ UNCHANGED <<disk, winner, slot, coder, timers, cuts, ffmpeg, cancel, restarts, scene>>

\* The rename into incoming_dir, unless a valid file is there already.
Land(p) ==
  /\ req[p].pc = "download"
  /\ \E len \in {"full"} \cup (scene \cap {"short"}) :
       disk' = IF Valid("incoming") THEN disk ELSE [disk EXCEPT !["incoming"] = Bare(len)]
  /\ req' = [req EXCEPT ![p].pc = "stamp", ![p].path = "incoming"]
  /\ UNCHANGED <<winner, slot, coder, timers, cuts, ffmpeg, cancel, restarts, scene>>

\* spawn_transcode: nothing without ffmpeg, or when the track is being transcoded.
Ffmpeg     == ffmpeg \in {"found", "ready"}
Queued(by) == [NoCoder EXCEPT !.pc = "queued", !.by = by]
Spawned    == IF Ffmpeg /\ coder = NoCoder THEN Queued(Nobody) ELSE coder

\* The metadata finalize_incoming leaves on the raw file.
Stamped(file, liked) == [file EXCEPT !.liked = liked, !.expected = "full"]
Stamp(p) ==
  /\ req[p].pc = "stamp"
  /\ disk' = IF Valid("incoming")
             THEN [disk EXCEPT !["incoming"] = Stamped(@, req[p].kind = "like")] ELSE disk
  /\ coder' = Spawned
  /\ Goto(p, "store")
  /\ UNCHANGED <<winner, slot, timers, cuts, ffmpeg, cancel, restarts, scene>>

StoreResult(p) ==
  /\ req[p].pc = "store"
  /\ slot' = [slot EXCEPT ![p] = IF req[p].path = "none" THEN "err" ELSE "ok"]
  /\ Goto(p, "notify")
  /\ UNCHANGED <<disk, winner, coder, timers, cuts, ffmpeg, cancel, restarts, scene>>

\* The waiters notify_waiters reaches: those that have registered, asleep or not.
\* (mutant) a waiter registers only when it goes to sleep
ListeningLate == {"asleep"}
Listening == {"check", "doze", "asleep"}

Notify(p) ==
  /\ req[p].pc = "notify"
  /\ req' = [q \in Requests |->
       IF q = p THEN [req[q] EXCEPT !.pc = "leave"]
       ELSE [req[q] EXCEPT !.woken = @ \/ (req[q].of = p /\ req[q].pc \in Listening)]]
  /\ UNCHANGED <<disk, winner, slot, coder, timers, cuts, ffmpeg, cancel, restarts, scene>>

Leave(p) ==
  /\ req[p].pc = "leave"
  /\ winner' = Nobody
  /\ IF slot[p] = "ok" THEN Reply(p, req[p].kind, Current("incoming")) ELSE Fail(p)
  /\ UNCHANGED <<disk, slot, coder, timers, cuts, ffmpeg, restarts, scene>>

\* The player opens the path it was given, in a command of its own.
PlayerReads(p) ==
  /\ req[p].pc = "handed"
  /\ req' = [req EXCEPT ![p] = Idle]
  /\ Past(p)
  /\ UNCHANGED <<disk, winner, slot, coder, cuts, ffmpeg, cancel, restarts, scene>>

----------------------------------------------------------------------------
(* run_transcode, and the removal of the raw file after the grace period.  *)

Dest == IF coder.liked THEN "liked" ELSE "audio"
Coding(r) == coder' = r
Ended == [coder EXCEPT !.pc = "end"]

\* schedule_remove_incoming.  The grace period is longer than the gap between
\* a path's being handed out and its being read, and than that between a
\* lookup and the lock of `active`: the removal scheduled now fires after both
\* are over for every request in them, and after the task that scheduled it.
FreeTimer == CHOOSE i \in 1 .. MaxTimers : timers[i] = NoTimer
Expecting == {p \in Requests : req[p].pc \in {"handed", "enter"}}

\* (mutant) the raw file is dropped without a grace period
ScheduleNow ==
  /\ \E i \in 1 .. MaxTimers : timers[i] = NoTimer
  /\ timers' = [timers EXCEPT ![FreeTimer] = {}]

Schedule ==
  /\ \E i \in 1 .. MaxTimers : timers[i] = NoTimer
  /\ timers' = [timers EXCEPT ![FreeTimer] = Expecting]

\* What the raw file and its metadata say when the transcode begins.
Opened == [coder EXCEPT !.pc = "rendering", !.liked = disk["incoming"].liked,
                        !.expected = disk["incoming"].expected, !.len = disk["incoming"].len]

Routed == IF disk["incoming"].liked THEN "liked" ELSE "audio"

\* The clean file is there already, from before a restart perhaps.
\* (mutant) the raw file is left to somebody else
AlreadyCleanKeepsRaw == Coding(Ended) /\ UNCHANGED timers
AlreadyClean == Coding(Ended) /\ Schedule

Open ==
  /\ coder.pc = "queued"
  /\ IF ~Valid("incoming") THEN Coding(Ended) /\ UNCHANGED timers
     ELSE IF Valid(Routed)  THEN AlreadyClean
     ELSE Coding(Opened) /\ UNCHANGED timers
  /\ UNCHANGED <<disk, winner, slot, req, cuts, ffmpeg, cancel, restarts, scene>>

RenderFails ==
  /\ coder.pc = "rendering"
  /\ Coding(Ended)
  /\ UNCHANGED <<disk, winner, slot, req, timers, cuts, ffmpeg, cancel, restarts, scene>>

\* transcode_to_m4a renames the rendered file into place; its metadata follows in Judge.
Commit ==
  /\ coder.pc = "rendering" /\ Valid("incoming")
  /\ disk' = [disk EXCEPT ![Dest] = Bare(coder.len)]
  /\ Coding([coder EXCEPT !.pc = "probing"])
  /\ UNCHANGED <<winner, slot, req, timers, cuts, ffmpeg, cancel, restarts, scene>>

\* A result that falls short of the expected length is discarded, raw file and
\* all, MaxCuts times, and then taken for a preview, its expected length the
\* probed one.
TooShort(probed) == probed = "short" /\ coder.expected = "full"

Discard(probed) ==
  /\ TooShort(probed) /\ cuts < MaxCuts
  /\ cuts' = cuts + 1
  /\ disk' = [disk EXCEPT ![Dest] = Gone, !["incoming"] = Gone]
  /\ UNCHANGED timers

Accept(probed) ==
  /\ TooShort(probed) => cuts >= MaxCuts
  /\ cuts' = 0
  /\ disk' = IF Valid(Dest)
             THEN [disk EXCEPT ![Dest] = File(@.len, coder.liked,
                     IF TooShort(probed) THEN probed ELSE coder.expected, probed)]
             ELSE disk
  /\ Schedule

Judge ==
  /\ coder.pc = "probing"
  /\ \E probed \in {"none", disk[Dest].len} \ {"no"} : Discard(probed) \/ Accept(probed)
  /\ Coding(Ended)
  /\ UNCHANGED <<winner, slot, req, ffmpeg, cancel, restarts, scene>>

\* The task gives its place in `transcoding` back; an export that ran the
\* transcode itself goes on.
CoderEnds ==
  /\ coder.pc = "end"
  /\ Coding(NoCoder)
  /\ req' = [p \in Requests |-> IF p = coder.by THEN Idle ELSE req[p]]
  /\ UNCHANGED <<disk, winner, slot, timers, cuts, ffmpeg, cancel, restarts, scene>>

\* Checked again when it fires: no transcode of the track, and a clean file.
RawGoes == coder = NoCoder /\ CleanPath # "none"

TimerFires(i) ==
  /\ timers[i] = {} /\ coder.pc # "end"
  /\ timers' = [timers EXCEPT ![i] = NoTimer]
  /\ disk' = IF RawGoes THEN [disk EXCEPT !["incoming"] = Gone] ELSE disk
  /\ UNCHANGED <<winner, slot, req, coder, cuts, ffmpeg, cancel, restarts, scene>>

----------------------------------------------------------------------------
(* export_track, after ensure_cached.                                      *)

\* A clean file, or no ffmpeg: the copy is written and the export is over.
ExportCopies(p) ==
  /\ req[p].pc = "export"
  /\ ~Ffmpeg \/ CleanPath # "none"
  /\ req' = [req EXCEPT ![p] = Idle]
  /\ UNCHANGED <<disk, winner, slot, coder, timers, cuts, ffmpeg, cancel, restarts, scene>>

\* Otherwise it transcodes, or waits for the transcode that is running.
ExportCodes(p) ==
  /\ req[p].pc = "export"
  /\ Ffmpeg /\ CleanPath = "none"
  /\ IF coder = NoCoder THEN Goto(p, "coding") /\ Coding(Queued(p))
                        ELSE Goto(p, "poll") /\ UNCHANGED coder
  /\ UNCHANGED <<disk, winner, slot, timers, cuts, ffmpeg, cancel, restarts, scene>>

\* The clean file came, or 150 polls went by.
PollEnds(p) ==
  /\ req[p].pc = "poll"
  /\ req' = [req EXCEPT ![p] = Idle]
  /\ UNCHANGED <<disk, winner, slot, coder, timers, cuts, ffmpeg, cancel, restarts, scene>>

----------------------------------------------------------------------------
(* cache_likes, for this track.                                            *)

Running == \E p \in Requests : req[p].kind = "like"

StartLikes(p) ==
  /\ "like" \in scene /\ Fresh(p) /\ ~Running
  /\ req' = [req EXCEPT ![p] = [Idle EXCEPT !.pc = "look", !.kind = "like"]]
  /\ cancel' = FALSE
  /\ UNCHANGED <<disk, winner, slot, coder, timers, cuts, ffmpeg, restarts, scene>>

CancelLikes ==
  /\ "cancel" \in scene /\ Running
  /\ cancel' = TRUE
  /\ UNCHANGED <<disk, winner, slot, req, coder, timers, cuts, ffmpeg, restarts, scene>>

LikesCancelled(p) ==
  /\ req[p].pc \in {"look", "task"} /\ cancel
  /\ Fail(p)
  /\ UNCHANGED <<disk, winner, slot, coder, timers, cuts, ffmpeg, restarts, scene>>

\* promote_to_liked: the file in audio_dir becomes the liked one.
Promoted == IF Valid("audio") /\ ~Valid("liked")
            THEN [disk EXCEPT !["liked"] = disk["audio"], !["audio"] = Gone] ELSE disk

LikeLooks(p) ==
  /\ req[p].pc = "look" /\ ~cancel
  /\ disk' = Promoted
  /\ IF CleanPath # "none" THEN Reply(p, "like", CleanPath)
     ELSE Goto(p, "task") /\ UNCHANGED cancel
  /\ UNCHANGED <<winner, slot, coder, timers, cuts, ffmpeg, restarts, scene>>

LikeAsks(p) ==
  /\ req[p].pc = "task" /\ ~cancel
  /\ Lookup(p, "like")
  /\ UNCHANGED <<winner, slot, coder, timers, cuts, ffmpeg, restarts, scene>>

----------------------------------------------------------------------------
(* The user's deletions, the quota, ffmpeg, and a restart.                 *)

Delete(dirs) ==
  /\ disk' = [d \in Dirs |-> IF d \in dirs THEN Gone ELSE disk[d]]
  /\ UNCHANGED <<winner, slot, req, coder, timers, cuts, ffmpeg, cancel, restarts, scene>>

RemoveCached == "remove" \in scene /\ Delete(Dirs)
ClearLiked   == "clear" \in scene /\ Delete({"liked"})
ClearCache   == "clear" \in scene /\ Delete({"audio", "incoming"})

\* A raw file that landed a moment ago and is not stamped yet; the quota and
\* the recovery meet one in the scenes with "early".
Landed == "early" \notin scene /\ \E p \in Requests : req[p].pc = "stamp"

\* enforce_limit spares a raw file that is being transcoded or bound for liked_dir.
\* (mutant) it spares only what is being transcoded
EvictableLiked == {"audio"} \cup (IF coder = NoCoder /\ ~Landed THEN {"incoming"} ELSE {})

Evictable ==
  {"audio"} \cup
    (IF coder = NoCoder /\ ~disk["incoming"].liked /\ ~Landed THEN {"incoming"} ELSE {})

EnforceLimit ==
  /\ "limit" \in scene
  /\ \E dirs \in SUBSET Evictable : Delete(dirs)

FfmpegProbed ==
  /\ ffmpeg = "preparing"
  /\ ffmpeg' \in {"found", "unavailable"}
  /\ UNCHANGED <<disk, winner, slot, req, coder, timers, cuts, cancel, restarts, scene>>

\* recover_incoming: once ffmpeg is there, every raw file is transcoded.
Recover ==
  /\ ffmpeg = "found" /\ ~Landed
  /\ ffmpeg' = "ready"
  /\ coder' = IF Valid("incoming") THEN Spawned ELSE coder
  /\ UNCHANGED <<disk, winner, slot, req, timers, cuts, cancel, restarts, scene>>

Restart ==
  /\ "crash" \in scene /\ restarts < MaxRestarts
  /\ restarts' = restarts + 1
  /\ winner' = Nobody
  /\ slot' = [p \in Requests |-> "none"]
  /\ req' = [p \in Requests |-> Idle]
  /\ coder' = NoCoder
  /\ timers' = [i \in DOMAIN timers |-> NoTimer]
  /\ cuts' = 0
  /\ ffmpeg' = "preparing"
  /\ cancel' = FALSE
  /\ UNCHANGED <<disk, scene>>

----------------------------------------------------------------------------

Waits(p)    == Register(p) \/ Check(p) \/ Sleep(p) \/ Wake(p) \/ Answer(p)
Downloads(p) == DownloadFails(p) \/ Land(p) \/ Stamp(p) \/ StoreResult(p) \/ Notify(p) \/ Leave(p)
Exports(p)  == ExportCopies(p) \/ ExportCodes(p) \/ PollEnds(p)
Likes(p)    == LikesCancelled(p) \/ LikeLooks(p) \/ LikeAsks(p)
Goes(p)     == Win(p) \/ Join(p) \/ Waits(p) \/ Downloads(p) \/ Exports(p) \/ Likes(p)

Transcode == Open \/ RenderFails \/ Commit \/ Judge \/ CoderEnds
Users     == (\E p \in Requests : Ask(p) \/ StartLikes(p)) \/ CancelLikes
             \/ RemoveCached \/ ClearLiked \/ ClearCache \/ EnforceLimit

Next ==
  \/ \E p \in Requests : Goes(p) \/ PlayerReads(p)
  \/ Transcode
  \/ \E i \in 1 .. MaxTimers : TimerFires(i)
  \/ Users
  \/ FfmpegProbed \/ Recover \/ Restart

Spec == Init /\ [][Next]_vars

\* A request and a transcode go on by themselves: downloads have timeouts,
\* ffmpeg runs to its end, a timer fires, a player opens what it was given.
\* Users need not do anything, and ffmpeg need not ever be there.
Fairness ==
  /\ \A p \in Requests : WF_vars(Goes(p)) /\ WF_vars(PlayerReads(p))
  /\ WF_vars(Transcode) /\ WF_vars(Recover)
  /\ \A i \in 1 .. MaxTimers : WF_vars(TimerFires(i))

FairSpec == Spec /\ Fairness

----------------------------------------------------------------------------
(* Properties.                                                             *)

\* The type invariant.
CacheTypeOK ==
  /\ disk \in [Dirs -> Files]
  /\ winner \in Requests \cup {Nobody}
  /\ slot \in [Requests -> {"none", "ok", "err"}]
  /\ req \in [Requests -> [pc : Places, kind : Kinds \cup {"none"}, of : Requests \cup {Nobody},
                           woken : BOOLEAN, path : Dirs \cup {"none"}]]
  /\ coder \in [pc : {"none", "queued", "rendering", "probing", "end"},
                by : Requests \cup {Nobody}, liked : BOOLEAN,
                expected : Lengths \cup {"none"}, len : Lengths \cup {"no"}]
  /\ timers \in [1 .. MaxTimers -> (SUBSET Requests) \cup {NoTimer}]
  /\ cuts \in 0 .. MaxCuts
  /\ ffmpeg \in {"preparing", "found", "ready", "unavailable"}
  /\ cancel \in BOOLEAN
  /\ restarts \in 0 .. MaxRestarts /\ scene \in Scenes

\* A path that was handed to a player is there until the player has opened it,
\* whatever transcodes, recoveries and removals run meanwhile ("a path handed
\* to the player is read in a separate command a few ms later").  Scenes in
\* which a file may be taken away at once are set aside: a short download, a
\* promotion to liked_dir, the quota and the user's deletions.
TakesAway == {"short", "like", "remove", "clear", "limit"}
HandedPathLives ==
  scene \cap TakesAway = {} =>
    \A p \in Requests : req[p].pc = "handed" => Valid(req[p].path)

\* A raw file that is bound for liked_dir is taken away only once the liked
\* file is there: the quota spares it ("a raw file evicted here would silently
\* cancel the user's cache"), and the removal after the grace period, a restart
\* and its recovery never drop it early.  Set aside are other requests for the
\* same track, whose stamp takes the destination back, and the deletions.
LikedBoundKept ==
  [][scene \subseteq {"like", "limit", "crash", "cancel"} =>
       (Valid("incoming") /\ disk["incoming"].liked
          /\ ~(disk'["incoming"].len # "no" /\ disk'["incoming"].liked) => Valid("liked"))]_disk

\* Every request ends: no waiter misses the winner's notification.
RequestsAnswered ==
  \A p \in Requests : req[p].pc # "idle" ~> req[p].pc = "idle"

\* A raw file does not outlive its clean one: once both are there and ffmpeg
\* is, the raw file goes, though the removal that was scheduled is lost in a
\* restart and other requests download and export the track meanwhile.
RawIsDropped ==
  scene \subseteq {"play", "export", "short", "crash"}
    /\ Ffmpeg /\ Valid("incoming") /\ CleanPath # "none"
    ~> ~Valid("incoming") \/ ~Ffmpeg
=============================================================================
