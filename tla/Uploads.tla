------------------------------- MODULE Uploads -------------------------------
(***************************************************************************)
(* How a track's file comes into storage: the streaming service fetches it *)
(* (for the backend, for a listener or as an upgrade), sends it to the     *)
(* storage service, which gates, transcodes and commits it, and keeps a    *)
(* record in cdn_tracks by which a listener is served.                     *)
(*                                                                         *)
(* Storage holds a lock per file name while it works on an upload          *)
(* (routes/upload.rs), so the commit of a file is one step here.  What     *)
(* storage publishes about an upload is part of IndexPipeline, which       *)
(* composes these steps with the backend's.                                *)
(***************************************************************************)
EXTENDS Naturals, FiniteSets

CONSTANTS Tracks,      \* the tracks
          UploadIds,   \* bound: the uploads and deletions under way at a time
          Nobody,      \* the writer of a record whose upload has ended
          LocalStore,  \* TRUE: the local backend, which keeps an equal file
          FaultMixes   \* the sets of faults a behaviour may have

FaultNames ==
  { "listen",    \* no fault: listeners' uploads and upgrades, with their records
    "resync",    \* no fault: durations change
    "silent",    \* an upload or a probe fails and nobody says so
    "redeliver", \* a handler fails, or its ack is lost: the message comes again
    "lost",      \* an event is lost, or its publisher dies before it
    "restart",   \* the backend restarts
    "overlap",   \* two uploads of a track at a time
    "again",     \* an upload finds a record of an earlier one
    "hasty",     \* a track is kicked while its last rejection is remembered
    "cleanup",   \* old files are deleted
    "long" }     \* a track turns out to be longer than the backend indexes

ASSUME UploadAssumption ==
  /\ Nobody \notin UploadIds
  /\ LocalStore \in BOOLEAN
  /\ FaultMixes \subseteq SUBSET FaultNames

VARIABLES file,     \* storage: which copy of each track it holds
          cdn,      \* streaming: the record of each track in cdn_tracks
          uploads,  \* the uploads and deletions under way
          faults    \* the faults of this behaviour

uploadVars == <<file, cdn, uploads>>

Qualities == {"sq", "hq"}
Copy      == Qualities \cup {"none"}
Sources   == {"kick", "play", "upgrade", "cleanup"}
Steps     == {"fetch", "insert", "sending", "stored", "accepted", "refused", "deleted"}
Upload    == [id : UploadIds, track : Tracks, source : Sources, step : Steps,
              quality : Qualities]
Record    == [status : {"none", "pending", "ok", "error"}, id : UploadIds \cup {Nobody}]
NoRecord  == [status |-> "none", id |-> Nobody]

UploadsTypeOK ==
  /\ file \in [Tracks -> Copy]
  /\ cdn \in [Tracks -> Record]
  /\ uploads \subseteq Upload
  /\ faults \in FaultMixes

UploadsInit ==
  /\ file = [t \in Tracks |-> "none"]
  /\ cdn = [t \in Tracks |-> NoRecord]
  /\ uploads = {}
  /\ faults \in FaultMixes

----------------------------------------------------------------------------
(* Helpers                                                                 *)

UploadsOf(t) == {u \in uploads : u.track = t}
FreeUploads  == UploadIds \ {u.id : u \in uploads}

\* One more upload: t is fetched for `source`.  Outside "overlap", uploads of a
\* track come one after the other.
Start(t, source, step, q) ==
  /\ FreeUploads # {}
  /\ "overlap" \in faults \/ UploadsOf(t) = {}
  /\ uploads' = uploads \cup
       {[id |-> CHOOSE i \in FreeUploads : TRUE, track |-> t, source |-> source,
         step |-> step, quality |-> q]}

Move(u, step) == uploads' = (uploads \ {u}) \cup {[u EXCEPT !.step = step]}

\* The upload is over: nobody knows its id any more.
Ended(u) ==
  /\ uploads' = uploads \ {u}
  /\ cdn' = [cdn EXCEPT ![u.track].id = IF @ = u.id THEN Nobody ELSE @]

\* update_cdn_track_status: an UPDATE by the id the upload was given, which is
\* the record's only if the upload inserted it.
SetStatus(u, status) ==
  /\ uploads' = uploads \ {u}
  /\ cdn' = [cdn EXCEPT ![u.track] =
               IF @.id = u.id THEN [status |-> status, id |-> Nobody] ELSE @]

\* The POST of the upload returns.  Only uploads with a record look at it.
Answered(u, step) ==
  IF u.source = "kick" THEN uploads' = uploads \ {u} ELSE Move(u, step)

----------------------------------------------------------------------------
(* Streaming                                                               *)

\* transcode_upload, when HEAD finds no file or fails: 202, and a task that
\* fetches.
AcceptKick(t) ==
  /\ \E q \in IF "listen" \in faults THEN Qualities ELSE {"sq"} : Start(t, "kick", "fetch", q)
  /\ UNCHANGED <<file, cdn>>

\* The task asks HEAD again and has nothing to do when the file has come; when
\* HEAD fails it goes on.
KickFinds(u) ==
  /\ u.step = "fetch" /\ file[u.track] # "none"
  /\ Ended(u) /\ UNCHANGED file

Fetched(u) ==
  /\ u.step = "fetch"
  /\ Move(u, "sending") /\ UNCHANGED <<file, cdn>>

\* try_serve: HEAD says that the file of an "ok" record is gone.
ServeMissing(t) ==
  /\ cdn[t].status = "ok" /\ file[t] = "none"
  /\ cdn' = [cdn EXCEPT ![t].status = "error"]
  /\ UNCHANGED <<file, uploads>>

\* A listener is not served from storage; what they are sent is uploaded too.
Play(t) ==
  /\ "listen" \in faults
  /\ "again" \in faults \/ cdn[t].status = "none"
  /\ \E q \in Qualities : Start(t, "play", "insert", q)
  /\ UNCHANGED <<file, cdn>>

\* upgrade_one found the track in hq.
StartUpgrade(t) ==
  /\ "listen" \in faults
  /\ "again" \in faults \/ cdn[t].status = "none"
  /\ Start(t, "upgrade", "insert", "hq")
  /\ UNCHANGED <<file, cdn>>

\* insert_cdn_track: ON CONFLICT the record keeps its id, and the upload is
\* given one that no record has.
InsertRecord(u) ==
  /\ u.step = "insert"
  /\ cdn' = [cdn EXCEPT ![u.track] =
               [status |-> "pending", id |-> IF @.status = "none" THEN u.id ELSE @.id]]
  /\ Move(u, "sending") /\ UNCHANGED file

\* Storage took the file, or refused it: then HEAD decides what the record says.
RecordAccepted(u) ==
  /\ u.step = "accepted"
  /\ SetStatus(u, "ok") /\ UNCHANGED file

\* (mutant: a refusal does not settle the record)
RefusalIgnored(u) == u.step = "refused" /\ Ended(u) /\ UNCHANGED file

RecordRefused(u) ==
  /\ u.step = "refused"
  /\ SetStatus(u, IF file[u.track] # "none" THEN "ok" ELSE "error")
  /\ UNCHANGED file

\* The task dies with its process, or gives up before it sends anything.
UploadDies(u) ==
  /\ "silent" \in faults /\ u.source # "cleanup" /\ u.step # "stored"
  /\ Ended(u) /\ UNCHANGED file

----------------------------------------------------------------------------
(* Storage                                                                 *)

\* The writer pool commits the transcoded file.
Commit(u) ==
  /\ u.step = "sending"
  /\ \E kept \in BOOLEAN :
       /\ kept => LocalStore /\ file[u.track] # "none"
       /\ file' = [file EXCEPT ![u.track] = IF kept THEN @ ELSE u.quality]
  /\ Move(u, "stored") /\ UNCHANGED cdn

\* ffmpeg, the quota or the backend fails after its retries: a 5xx, no event.
StoreFails(u) ==
  /\ "silent" \in faults
  /\ u.step = "sending" /\ Answered(u, "refused") /\ UNCHANGED <<file, cdn>>

\* The process dies between the commit and the publication.
DiesUnpublished(u) ==
  /\ "lost" \in faults
  /\ u.step = "stored" /\ Answered(u, "refused") /\ UNCHANGED <<file, cdn>>

----------------------------------------------------------------------------
(* Cleanup: the file first, then the record                                *)

DeleteFile(t) ==
  /\ "cleanup" \in faults
  /\ cdn[t].status = "ok"
  /\ Start(t, "cleanup", "deleted", "sq")
  /\ file' = [file EXCEPT ![t] = "none"]
  /\ UNCHANGED cdn

DeleteRecord(u) ==
  /\ u.step = "deleted"
  /\ uploads' = uploads \ {u}
  /\ \/ cdn' = [cdn EXCEPT ![u.track] = NoRecord]
     \/ UNCHANGED cdn
  /\ UNCHANGED file

----------------------------------------------------------------------------
\* The steps that go on with what is under way, unseen by the backend.
UploadStep ==
  \/ \E t \in Tracks : ServeMissing(t) \/ DeleteFile(t)
  \/ \E u \in uploads :
       \/ KickFinds(u) \/ Fetched(u) \/ InsertRecord(u) \/ Commit(u)
       \/ RecordAccepted(u) \/ RecordRefused(u) \/ UploadDies(u)
       \/ StoreFails(u) \/ DiesUnpublished(u) \/ DeleteRecord(u)

----------------------------------------------------------------------------
\* When no upload of a track is under way its record does not wait for one:
\* "pending" is neither served (find_cached_track asks for "ok") nor cleaned
\* up.  Needs that no upload died and that none found an earlier record, be it one
\* of an upload that went on beside it.
NoStuckRecord ==
  \A t \in Tracks :
    faults \cap {"silent", "again", "overlap"} = {} /\ UploadsOf(t) = {}
    => cdn[t].status # "pending"
=============================================================================
