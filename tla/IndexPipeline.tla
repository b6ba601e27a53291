---------------------------- MODULE IndexPipeline ----------------------------
(***************************************************************************)
(* The backend's indexing pipeline over the uploads of Uploads: the rows   *)
(* of `tracks` with their storage_state and index_state, the in-flight     *)
(* cache and the rejection cache, the trigger with its probe of storage,   *)
(* the events of storage and of the worker with their handlers, and the    *)
(* reap.                                                                   *)
(*                                                                         *)
(* Time is counted in reaps (REAP_INTERVAL): the in-flight cache forgets a *)
(* track after IdleReaps of them in which nobody asked for it.             *)
(***************************************************************************)
EXTENDS Uploads

CONSTANTS MaxStrikes,  \* STORAGE_REJECT_MAX_ATTEMPTS
          IdleReaps,   \* time_to_idle of the in-flight cache, in reaps
          EventIds     \* bound: the messages under way at a time

ASSUME IndexAssumption ==
  /\ MaxStrikes \in Nat \ {0}
  /\ IdleReaps \in Nat \ {0}

VARIABLES rows,      \* the table tracks
          trig,      \* TranscodeTriggerService: the task of a trigger
          inflight,  \* ... and its cache: reaps until a track is forgotten
          dedup,     \* IndexingService: tracks with a rejection just counted
          events,    \* messages, with how far their handler has come
          vectors    \* Qdrant: tracks with vectors

vars == <<uploadVars, faults, rows, trig, inflight, dedup, events, vectors>>

Row == [storage : {"absent", "pending", "ok", "missing", "failed", "too_long"},
        index : {"pending", "indexed", "too_long"}, attempts : 0..MaxStrikes,
        quality : Copy, hq_pending : BOOLEAN, long : BOOLEAN,
        s3 : {"unknown", "verified", "missing", "stale"}]
Absent == [storage |-> "absent", index |-> "pending", attempts |-> 0, quality |-> "none",
           hq_pending |-> FALSE, long |-> FALSE, s3 |-> "unknown"]
Event == [id : EventIds, track : Tracks,
          kind : {"uploaded", "rejected", "index", "done", "long"},
          step : {"queued", "mark_index", "mark_only", "ban", "publish", "strike", "struck",
                  "upserted"},
          quality : Copy]

IndexTypeOK ==
  /\ UploadsTypeOK
  /\ rows \in [Tracks -> Row]
  /\ trig \in [Tracks -> {"no", "probe", "mark_ok", "mark_missing", "hit", "post"}]
  /\ inflight \in [Tracks -> 0..IdleReaps]
  /\ dedup \in [Tracks -> BOOLEAN]
  /\ events \subseteq Event
  /\ vectors \subseteq Tracks

Init ==
  /\ UploadsInit
  /\ rows = [t \in Tracks |-> Absent]
  /\ trig = [t \in Tracks |-> "no"]
  /\ inflight = [t \in Tracks |-> 0]
  /\ dedup = [t \in Tracks |-> FALSE]
  /\ events = {}
  /\ vectors = {}

----------------------------------------------------------------------------
(* Helpers                                                                 *)

Present(t)  == rows[t].storage # "absent"
FreeEvents  == EventIds \ {e.id : e \in events}
Message(i, t, kind, q) ==
  [id |-> i, track |-> t, kind |-> kind, step |-> "queued", quality |-> q]

\* One more message on the bus.
Send(t, kind, q) ==
  /\ FreeEvents # {}
  /\ events' = events \cup {Message(CHOOSE i \in FreeEvents : TRUE, t, kind, q)}

\* A handler goes on, or returns Ok: then the message is gone, or comes again
\* because the ack was lost.
Goes(e, step) == events' = (events \ {e}) \cup {[e EXCEPT !.step = step]}
Acked(e)      == \/ events' = events \ {e}
                 \/ "redeliver" \in faults /\ Goes(e, "queued")

\* trigger of the tracks in S: those the cache does not know get a task, and
\* asking for the others renews them.  Bound: one task per track at a time.
MayTrigger(S) == \A t \in S : inflight[t] = 0 => trig[t] = "no"
Triggered(S)  == [t \in Tracks |-> IF t \in S /\ inflight[t] = 0 THEN "probe" ELSE trig[t]]
Kept(S)       == [t \in Tracks |-> IF t \in S THEN IdleReaps ELSE inflight[t]]

\* Outside "overlap" an upload begins when the events of the last are handled.
InOrder(t) == "overlap" \in faults \/ \A e \in events : e.track = t => e.kind # "uploaded"

\* The statements on a row, each with its WHERE.
TooLong(r) == [r EXCEPT !.storage = "too_long", !.index = "too_long"]

StorageDoneUnguarded(r, q) ==                      \* (mutant: no WHERE on too_long)
  IF r.storage = "absent" THEN r
  ELSE [r EXCEPT !.storage = "ok", !.quality = IF q = "none" THEN @ ELSE q,
                 !.s3 = "verified", !.attempts = 0]

StorageDoneAsSq(r, q) ==                           \* (mutant: no quality means sq)
  IF r.storage \in {"absent", "too_long"} THEN r
  ELSE [r EXCEPT !.storage = "ok", !.quality = IF q = "hq" THEN "hq" ELSE "sq",
                 !.s3 = "verified", !.attempts = 0, !.hq_pending = q # "hq"]

StorageDone(r, q) ==
  IF r.storage \in {"absent", "too_long"} THEN r
  ELSE [r EXCEPT !.storage = "ok", !.quality = IF q = "none" THEN @ ELSE q,
                 !.s3 = "verified", !.attempts = 0,
                 !.hq_pending = IF q = "hq" THEN FALSE
                                ELSE (q = "sq" /\ r.quality # "hq") \/ @]

StorageRejected(r) ==
  IF r.storage \in {"pending", "missing"}
  THEN [r EXCEPT !.attempts = IF @ = MaxStrikes THEN @ ELSE @ + 1,
                 !.storage = IF r.attempts + 1 >= MaxStrikes THEN "failed" ELSE @,
                 !.hq_pending = FALSE]
  ELSE [r EXCEPT !.hq_pending = FALSE]

VerifiedOk(r) ==
  IF r.storage \in {"absent", "too_long"} THEN r
  ELSE [r EXCEPT !.storage = "ok", !.s3 = "verified"]

VerifiedMissing(r) ==
  IF r.storage \in {"absent", "too_long"} THEN r
  ELSE [r EXCEPT !.storage = IF @ = "pending" THEN @ ELSE "missing", !.s3 = "missing"]

Indexed(r) == IF r.storage = "absent" THEN r ELSE [r EXCEPT !.index = "indexed"]

\* A new duration: rejections were counted against the old one.
Measured(r, changed, l) ==
  IF r.storage = "failed" /\ changed
  THEN [r EXCEPT !.storage = "pending", !.attempts = 0, !.long = l]
  ELSE [r EXCEPT !.long = l]

----------------------------------------------------------------------------
(* Ingest, durations, kicks                                                *)

\* ingest_track_from_sc of a new track: the row, then the kick, or the mark
\* when it is too long.
Ingest(t) ==
  /\ ~Present(t)
  /\ \E l \in BOOLEAN :
       /\ l => "long" \in faults
       /\ rows' = [rows EXCEPT ![t] = [Absent EXCEPT !.storage = "pending", !.long = l]]
       /\ IF l THEN Send(t, "long", "none") /\ UNCHANGED <<trig, inflight>>
               ELSE /\ MayTrigger({t}) /\ UNCHANGED events
                    /\ trig' = Triggered({t}) /\ inflight' = Kept({t})
  /\ UNCHANGED <<uploadVars, faults, dedup, vectors>>

\* A known track is read from SoundCloud again (upsert_from_sc), or its preview
\* length is replaced by the full one (duration_resolver).  Bound: one at a time.
NewDuration(t) ==
  /\ Present(t) /\ "resync" \in faults
  /\ \A e \in events : e.track = t => e.kind # "long"
  /\ \E changed, l \in BOOLEAN :
       /\ (l # rows[t].long) => changed
       /\ l => "long" \in faults
       /\ rows' = [rows EXCEPT ![t] = Measured(@, changed, l)]
       /\ IF l THEN Send(t, "long", "none") ELSE UNCHANGED events
  /\ UNCHANGED <<uploadVars, faults, trig, inflight, dedup, vectors>>

\* The second statement, unless the caller is gone.
MarkTooLong(e) ==
  /\ e.kind = "long"
  /\ events' = events \ {e}
  /\ \/ rows' = [rows EXCEPT ![e.track] = TooLong(@)]
     \/ UNCHANGED rows
  /\ UNCHANGED <<uploadVars, faults, trig, inflight, dedup, vectors>>

\* Somebody plays the track (trigger_indexing).
Kick(t) ==
  /\ Present(t) /\ MayTrigger({t})
  /\ "hasty" \in faults \/ ~dedup[t]
  /\ trig' = Triggered({t}) /\ inflight' = Kept({t})
  /\ UNCHANGED <<uploadVars, faults, rows, dedup, events, vectors>>

----------------------------------------------------------------------------
(* The trigger's task                                                      *)

\* find_missing: what the row remembers, or else HEAD.  A failed HEAD counts as
\* a miss; a failed SELECT too, but leaves no mark.
Probe(t) ==
  /\ trig[t] = "probe"
  /\ \E next \in {"hit", "mark_ok", "mark_missing", "post"} :
       /\ CASE next = "hit"          -> rows[t].s3 = "verified"
            [] next = "mark_ok"      -> rows[t].s3 \in {"unknown", "stale"} /\ file[t] # "none"
            [] next = "mark_missing" -> /\ rows[t].s3 \in {"unknown", "stale"}
                                        /\ file[t] = "none" \/ "silent" \in faults
            [] next = "post"         -> rows[t].s3 = "missing" \/ "silent" \in faults
       /\ trig' = [trig EXCEPT ![t] = next]
  /\ UNCHANGED <<uploadVars, faults, rows, inflight, dedup, events, vectors>>

MarkProbed(t) ==
  /\ trig[t] \in {"mark_ok", "mark_missing"}
  /\ \/ /\ rows' = [rows EXCEPT ![t] =
                      IF trig[t] = "mark_ok" THEN VerifiedOk(@) ELSE VerifiedMissing(@)]
        /\ trig' = [trig EXCEPT ![t] = IF @ = "mark_ok" THEN "hit" ELSE "post"]
     \/ /\ "silent" \in faults                      \* the UPDATE failed
        /\ trig' = [trig EXCEPT ![t] = "post"] /\ UNCHANGED rows
  /\ UNCHANGED <<uploadVars, faults, inflight, dedup, events, vectors>>

\* The file is there: storage.track_uploaded once more, without a quality.
\* After a timeout it may have been published all the same.
PublishHit(t) ==
  /\ trig[t] = "hit"
  /\ trig' = [trig EXCEPT ![t] = "no"]
  /\ Send(t, "uploaded", "none")
  /\ inflight' \in {inflight, [inflight EXCEPT ![t] = 0]}
  /\ UNCHANGED <<uploadVars, faults, rows, dedup, vectors>>

\* POST to streaming: "cached" when HEAD finds the file, "accepted", or an
\* answer that does not come in time.
PostFindsFile(t) ==
  /\ trig[t] = "post" /\ file[t] # "none"
  /\ trig' = [trig EXCEPT ![t] = "no"]
  /\ UNCHANGED <<uploadVars, faults, rows, inflight, dedup, events, vectors>>

PostAccepted(t) ==
  /\ trig[t] = "post"
  /\ InOrder(t) /\ AcceptKick(t)
  /\ trig' = [trig EXCEPT ![t] = "no"]
  /\ inflight' \in {inflight, [inflight EXCEPT ![t] = 0]}
  /\ UNCHANGED <<faults, rows, dedup, events, vectors>>

\* The publication or the POST fails: the cache forgets the track.
TriggerFails(t) ==
  /\ trig[t] \in {"hit", "post"}
  /\ trig' = [trig EXCEPT ![t] = "no"]
  /\ inflight' = [inflight EXCEPT ![t] = 0]
  /\ UNCHANGED <<uploadVars, faults, rows, dedup, events, vectors>>

----------------------------------------------------------------------------
(* What storage publishes                                                  *)

\* publish_uploaded after the commit.
PublishUploaded(u) ==
  /\ u.step = "stored"
  /\ Answered(u, "accepted") /\ Send(u.track, "uploaded", u.quality)
  /\ UNCHANGED <<file, cdn, faults, rows, trig, inflight, dedup, vectors>>

\* gate_duration refuses the source or the result: publish_rejected, and 409.
RejectUpload(u) ==
  /\ u.step = "sending"
  /\ Answered(u, "refused") /\ Send(u.track, "rejected", "none")
  /\ UNCHANGED <<file, cdn, faults, rows, trig, inflight, dedup, vectors>>

\* Somebody listens to a track that is not served from storage.
Listen(t) ==
  /\ InOrder(t) /\ Play(t)
  /\ UNCHANGED <<faults, rows, trig, inflight, dedup, events, vectors>>

\* pick_hq_upgrade_candidates, and an hq source is found.
Upgrade(t) ==
  /\ Present(t) /\ rows[t].hq_pending
  /\ InOrder(t) /\ StartUpgrade(t)
  /\ UNCHANGED <<faults, rows, trig, inflight, dedup, events, vectors>>

----------------------------------------------------------------------------
(* Handlers                                                                *)

Handler == UNCHANGED <<uploadVars, faults, trig>>

\* storage.track_uploaded: the row is read first ...
ReadRow(e) ==
  /\ e.kind = "uploaded" /\ e.step = "queued"
  /\ LET r == rows[e.track] IN
       IF r.storage = "absent" THEN events' = events \ {e}
       ELSE Goes(e, IF "too_long" \in {r.storage, r.index} \/ r.long THEN "ban"
                    ELSE IF r.index # "indexed" THEN "mark_index" ELSE "mark_only")
  /\ Handler /\ UNCHANGED <<rows, inflight, dedup, vectors>>

\* ... then written by what was read ...
BanLong(e) ==
  /\ e.step = "ban"
  /\ rows' = [rows EXCEPT ![e.track] = TooLong(@)]
  /\ Acked(e)
  /\ Handler /\ UNCHANGED <<inflight, dedup, vectors>>

MarkStored(e) ==
  /\ e.step \in {"mark_index", "mark_only"}
  /\ rows' = [rows EXCEPT ![e.track] = StorageDone(@, e.quality)]
  /\ IF e.step = "mark_index" THEN Goes(e, "publish") ELSE Acked(e)
  /\ Handler /\ UNCHANGED <<inflight, dedup, vectors>>

\* ... and INDEX_AUDIO published, if the row read was not indexed.
PublishIndex(e) ==
  /\ e.step = "publish"
  /\ \/ events' = (events \ {e}) \cup {Message(e.id, e.track, "index", "none")}
     \/ /\ "redeliver" \in faults /\ FreeEvents # {}
        /\ events' = (events \ {e}) \cup
             { [e EXCEPT !.step = "queued"],
               Message(CHOOSE i \in FreeEvents : TRUE, e.track, "index", "none") }
  /\ Handler /\ UNCHANGED <<rows, inflight, dedup, vectors>>

\* storage.track_rejected: swallowed when the track's last one was just counted ...
SwallowRejection(e) ==
  /\ e.kind = "rejected" /\ e.step = "queued" /\ dedup[e.track]
  /\ Acked(e)
  /\ Handler /\ UNCHANGED <<rows, inflight, dedup, vectors>>

TakeRejection(e) ==
  /\ e.kind = "rejected" /\ e.step = "queued" /\ ~dedup[e.track]
  /\ Goes(e, "strike")
  /\ Handler /\ UNCHANGED <<rows, inflight, dedup, vectors>>

\* ... or else a strike, ...
Strike(e) ==
  /\ e.step = "strike"
  /\ rows' = [rows EXCEPT ![e.track] = StorageRejected(@)]
  /\ Goes(e, "struck")
  /\ Handler /\ UNCHANGED <<inflight, dedup, vectors>>

\* ... which is noted once its reply has come.
NoteStrikeKept(e) ==                               \* (mutant: the cache is not invalidated)
  /\ e.step = "struck"
  /\ dedup' = [dedup EXCEPT ![e.track] = TRUE]
  /\ Acked(e)
  /\ Handler /\ UNCHANGED <<rows, inflight, vectors>>

NoteStrike(e) ==
  /\ e.step = "struck"
  /\ dedup' = [dedup EXCEPT ![e.track] = TRUE]
  /\ inflight' = [inflight EXCEPT ![e.track] = 0]
  /\ Acked(e)
  /\ Handler /\ UNCHANGED <<rows, vectors>>

\* The worker has made the vectors.
Embed(e) ==
  /\ e.kind = "index"
  /\ events' = (events \ {e}) \cup {Message(e.id, e.track, "done", "none")}
  /\ Handler /\ UNCHANGED <<rows, inflight, dedup, vectors>>

\* DONE_INDEX_AUDIO: the vectors first, then the mark.
UpsertVectors(e) ==
  /\ e.kind = "done" /\ e.step = "queued"
  /\ vectors' = vectors \cup {e.track}
  /\ Goes(e, "upserted")
  /\ Handler /\ UNCHANGED <<rows, inflight, dedup>>

MarkIndexed(e) ==
  /\ e.kind = "done" /\ e.step = "upserted"
  /\ rows' = [rows EXCEPT ![e.track] = Indexed(@)]
  /\ Acked(e)
  /\ Handler /\ UNCHANGED <<inflight, dedup, vectors>>

\* A handler returns an error: NAK, and the message comes again.  The statement that
\* failed may have been committed all the same: a strike is then counted twice.
Nak(e) ==
  /\ "redeliver" \in faults /\ e.step # "queued"
  /\ Goes(e, "queued")
  /\ Handler /\ UNCHANGED <<rows, inflight, dedup, vectors>>

\* Five deliveries or an hour are over, or the message was never stored.
LoseEvent(e) ==
  /\ "lost" \in faults /\ e.kind # "long"
  /\ events' = events \ {e}
  /\ Handler /\ UNCHANGED <<rows, inflight, dedup, vectors>>

----------------------------------------------------------------------------
(* Time                                                                    *)

\* An entry of rejected_dedup lives four minutes.  A rejection whose ack was
\* lost comes again every two minutes, five times: it may outlive the entry.
DedupExpires(t) ==
  /\ dedup[t]
  /\ dedup' = [dedup EXCEPT ![t] = FALSE]
  /\ UNCHANGED <<uploadVars, faults, rows, trig, inflight, events, vectors>>

\* A miss is remembered for a day (MISS_TTL).
MissExpires(t) ==
  /\ rows[t].s3 = "missing"
  /\ rows' = [rows EXCEPT ![t].s3 = "stale"]
  /\ UNCHANGED <<uploadVars, faults, trig, inflight, dedup, events, vectors>>

\* reap_stuck and reap_failed_retry; which of them have the age, and the LIMITs,
\* are left open.
Stuck(t) == \/ rows[t].storage = "pending"
            \/ rows[t].storage = "ok" /\ rows[t].index = "pending"
Reapable(t) == Stuck(t) \/ rows[t].storage = "failed"

ReapOf(S) ==
  /\ MayTrigger(S)
  /\ "hasty" \in faults \/ \A t \in S : ~dedup[t]
  /\ trig' = Triggered(S)
  /\ inflight' = [t \in Tracks |-> IF t \in S THEN IdleReaps
                                   ELSE IF inflight[t] = 0 THEN 0 ELSE inflight[t] - 1]
  /\ UNCHANGED <<uploadVars, faults, rows, dedup, events, vectors>>
Reap == \E S \in SUBSET {t \in Tracks : Reapable(t)} : ReapOf(S)

\* The process restarts: tasks and caches are gone, messages are delivered again.
Restart ==
  /\ "restart" \in faults
  /\ trig' = [t \in Tracks |-> "no"]
  /\ inflight' = [t \in Tracks |-> 0]
  /\ dedup' = [t \in Tracks |-> FALSE]
  /\ events' = {[e EXCEPT !.step = "queued"] : e \in {f \in events : f.kind # "long"}}
  /\ UNCHANGED <<uploadVars, faults, rows, vectors>>

----------------------------------------------------------------------------
Uploading ==
  /\ UploadStep
  /\ UNCHANGED <<faults, rows, trig, inflight, dedup, events, vectors>>

Trigger(t) ==
  \/ Probe(t) \/ MarkProbed(t) \/ PublishHit(t)
  \/ PostFindsFile(t) \/ PostAccepted(t) \/ TriggerFails(t)

Handle(e) ==
  \/ MarkTooLong(e) \/ ReadRow(e) \/ BanLong(e) \/ MarkStored(e) \/ PublishIndex(e)
  \/ SwallowRejection(e) \/ TakeRejection(e) \/ Strike(e) \/ NoteStrike(e)
  \/ Embed(e) \/ UpsertVectors(e) \/ MarkIndexed(e)

Next ==
  \/ Uploading
  \/ \E t \in Tracks :
       \/ Ingest(t) \/ NewDuration(t) \/ Kick(t) \/ Trigger(t) \/ Listen(t) \/ Upgrade(t)
       \/ DedupExpires(t) \/ MissExpires(t)
  \/ \E u \in uploads : PublishUploaded(u) \/ RejectUpload(u)
  \/ \E e \in events : Handle(e) \/ Nak(e) \/ LoseEvent(e)
  \/ Reap \/ Restart

Spec == Init /\ [][Next]_vars

\* Every timer fires and every message is handled; nothing fails for ever: not
\* what a trigger sends, no handler, and the process does not restart for ever.
\* A rejection does not come again for ever: there are five deliveries of it.
Gone(e) == events' = events \ {e}

FairOn(t) ==
  /\ SF_vars(\E S \in SUBSET Tracks : t \in S /\ Reapable(t) /\ ReapOf(S))
  /\ WF_vars(Trigger(t)) /\ SF_vars(PublishHit(t) \/ PostAccepted(t))
  /\ WF_vars(DedupExpires(t))
  /\ WF_vars(\E u \in UploadsOf(t) :
                \/ (KickFinds(u) \/ Fetched(u) \/ InsertRecord(u) \/ Commit(u)
                    \/ RecordAccepted(u) \/ RecordRefused(u) \/ DeleteRecord(u)) /\ Uploading
                \/ PublishUploaded(u) \/ RejectUpload(u))
  /\ WF_vars(\E e \in events : e.track = t /\ ReadRow(e))
  /\ WF_vars(\E e \in events : e.track = t /\ (SwallowRejection(e) \/ TakeRejection(e)))
  /\ WF_vars(\E e \in events : e.track = t /\ (Embed(e) \/ UpsertVectors(e)))
  /\ SF_vars(\E e \in events : e.track = t /\ (MarkStored(e) \/ BanLong(e) \/ Strike(e)))
  /\ SF_vars(\E e \in events : e.track = t /\ (SwallowRejection(e) \/ NoteStrike(e)) /\ Gone(e))
  /\ SF_vars(\E e \in events : e.track = t /\ PublishIndex(e))
  /\ SF_vars(\E e \in events : e.track = t /\ MarkIndexed(e))
FairSpec == Spec /\ (\A t \in Tracks : FairOn(t)) /\ <>[][~Restart]_vars

----------------------------------------------------------------------------
(* Properties                                                              *)

\* storage_quality tells which copy storage holds, once its event is handled and
\* if uploads of a track do not overlap; it is unknown when the file came before
\* the row.  A synthetic event does not change it, and neither does a rejection.
\* The local backend may keep the file it has and publish the other's quality.
QualityIsTrue ==
  \A t \in Tracks :
    /\ ~LocalStore /\ faults \cap {"overlap", "lost"} = {}
    /\ UploadsOf(t) = {} /\ \A e \in events : e.track = t => e.kind # "uploaded"
    /\ rows[t].storage = "ok" /\ file[t] # "none"
    => rows[t].quality \in {file[t], "none"}

\* A track the reap looks after ends indexed, refused or too long, whatever is
\* rejected, delivered again or forgotten in a restart, unless one of the faults
\* happens against which the reap does not help: while it asks the in-flight
\* cache about the track, the cache does not forget it.  Listeners' uploads are
\* among them, since a second rejection within four minutes is swallowed.
Settled(t)   == rows[t].index # "pending" \/ rows[t].storage \in {"failed", "too_long"}
TracksSettle ==
  \A t \in Tracks :
    faults \cap {"silent", "hasty", "cleanup", "listen"} = {} /\ Stuck(t) ~> Settled(t)

\* The pipeline keeps the promises of TrackLife.
Stage(r) == CASE r.storage = "absent"   -> "absent"
              [] r.storage = "ok"       -> "stored"
              [] r.storage = "failed"   -> "refused"
              [] r.storage = "too_long" -> "banned"
              [] OTHER                  -> "wanted"
Life == INSTANCE TrackLife WITH
          stage <- [t \in Tracks |-> Stage(rows[t])],
          strikes <- [t \in Tracks |-> rows[t].attempts],
          indexed <- {t \in Tracks : rows[t].index = "indexed"}
ImplementsTrackLife == Life!LifeSpec
=============================================================================
