------------------------- MODULE IndexPipelineProofs -------------------------
(***************************************************************************)
(* Proofs about IndexPipeline and the uploads it is built on: the types,   *)
(* the records and the quality that tell the truth, that each step of the  *)
(* pipeline is a step of TrackLife, and what follows of it for the rows.   *)
(***************************************************************************)
EXTENDS IndexPipeline, TLAPS

Kinds      == {"uploaded", "rejected", "index", "done", "long"}
EventSteps == {"queued", "mark_index", "mark_only", "ban", "publish", "strike", "struck",
               "upserted"}

----------------------------------------------------------------------------
(* Records: what the updates of the model leave alone                      *)

\* An upload, or an event, gone on to another step.
At(x, step) == [x EXCEPT !.step = step]

\* Moving an upload on changes its step alone.
LEMMA UploadAt ==
  ASSUME NEW u \in Upload, NEW step \in Steps
  PROVE  /\ At(u, step) \in Upload
         /\ At(u, step).id = u.id /\ At(u, step).track = u.track
         /\ At(u, step).source = u.source /\ At(u, step).quality = u.quality
         /\ At(u, step).step = step
BY SMT DEF At, Upload

\* Moving an event on changes its step alone.
LEMMA EventAt ==
  ASSUME NEW e \in Event, NEW step \in EventSteps
  PROVE  /\ At(e, step) \in Event
         /\ At(e, step).id = e.id /\ At(e, step).track = e.track
         /\ At(e, step).kind = e.kind /\ At(e, step).quality = e.quality
         /\ At(e, step).step = step
BY SMT DEF At, Event, EventSteps

\* A message as it is sent.
LEMMA MessageIs ==
  ASSUME NEW i \in EventIds, NEW t \in Tracks, NEW kind \in Kinds, NEW q \in Copy
  PROVE  /\ Message(i, t, kind, q) \in Event
         /\ Message(i, t, kind, q).track = t /\ Message(i, t, kind, q).kind = kind
         /\ Message(i, t, kind, q).quality = q
         /\ Message(i, t, kind, q).step = "queued"
BY SMT DEF Message, Event, Kinds

----------------------------------------------------------------------------
(* The statements on a row                                                 *)

\* A row of a table that is written at one track.
LEMMA RowPut ==
  ASSUME rows \in [Tracks -> Row], NEW t \in Tracks, NEW r \in Row,
         rows' = [rows EXCEPT ![t] = r]
  PROVE  /\ rows' \in [Tracks -> Row] /\ rows'[t] = r
         /\ \A s \in Tracks : s # t => rows'[s] = rows[s]
OBVIOUS

\* TooLong keeps all but the marks.
LEMMA TooLongRow ==
  ASSUME NEW r \in Row
  PROVE  /\ TooLong(r) \in Row
         /\ TooLong(r).storage = "too_long" /\ TooLong(r).index = "too_long"
         /\ TooLong(r).attempts = r.attempts /\ TooLong(r).quality = r.quality
<1>1. TooLong(r) \in Row
  BY Zenon DEF TooLong, Row
<1>2. QED BY <1>1, SMT DEF TooLong, Row

\* mark_storage_done takes the quality of the event, if it has one.
LEMMA DoneRow ==
  ASSUME NEW r \in Row, NEW q \in Copy
  PROVE  /\ StorageDone(r, q) \in Row
         /\ r.storage \in {"absent", "too_long"} => StorageDone(r, q) = r
         /\ r.storage \notin {"absent", "too_long"} =>
              /\ StorageDone(r, q).storage = "ok" /\ StorageDone(r, q).attempts = 0
              /\ StorageDone(r, q).index = r.index
              /\ StorageDone(r, q).quality = IF q = "none" THEN r.quality ELSE q
<1>1. CASE r.storage \in {"absent", "too_long"}
  BY <1>1 DEF StorageDone
<1>2. CASE r.storage \notin {"absent", "too_long"}
  <2> DEFINE h == IF q = "hq" THEN FALSE
                  ELSE (q = "sq" /\ r.quality # "hq") \/ r.hq_pending
  <2>1. h \in BOOLEAN
    BY DEF Row
  <2>2. StorageDone(r, q) =
          [r EXCEPT !.storage = "ok", !.quality = IF q = "none" THEN @ ELSE q,
                    !.s3 = "verified", !.attempts = 0, !.hq_pending = h]
    BY <1>2 DEF StorageDone
  <2> HIDE DEF h
  <2>3. 0 \in 0..MaxStrikes
    BY IndexAssumption, SMT
  <2>4. StorageDone(r, q) \in Row
    BY <1>2, <2>1, <2>2, <2>3, Zenon DEF Row
  <2>5. /\ StorageDone(r, q).storage = "ok" /\ StorageDone(r, q).attempts = 0
        /\ StorageDone(r, q).index = r.index
        /\ StorageDone(r, q).quality = IF q = "none" THEN r.quality ELSE q
    BY <2>2, SMT DEF Row
  <2>6. QED BY <1>2, <2>4, <2>5
<1>3. QED BY <1>1, <1>2

\* mark_storage_rejected counts against a row that waits for its file.
LEMMA RejectedRow ==
  ASSUME NEW r \in Row
  PROVE  /\ StorageRejected(r) \in Row
         /\ StorageRejected(r).index = r.index /\ StorageRejected(r).quality = r.quality
         /\ r.storage \notin {"pending", "missing"} =>
              /\ StorageRejected(r).storage = r.storage
              /\ StorageRejected(r).attempts = r.attempts
         /\ r.storage \in {"pending", "missing"} =>
              IF r.attempts + 1 >= MaxStrikes
              THEN /\ StorageRejected(r).storage = "failed"
                   /\ StorageRejected(r).attempts = MaxStrikes
              ELSE /\ StorageRejected(r).storage = r.storage
                   /\ StorageRejected(r).attempts = r.attempts + 1
<1>1. CASE r.storage \notin {"pending", "missing"}
  <2>1. StorageRejected(r) = [r EXCEPT !.hq_pending = FALSE]
    BY <1>1 DEF StorageRejected
  <2>2. StorageRejected(r) \in Row
    BY <2>1, Zenon DEF Row
  <2>3. QED BY <1>1, <2>1, <2>2, SMT DEF Row
<1>2. CASE r.storage \in {"pending", "missing"}
  <2> DEFINE n == IF r.attempts = MaxStrikes THEN r.attempts ELSE r.attempts + 1
             s == IF r.attempts + 1 >= MaxStrikes THEN "failed" ELSE r.storage
  <2>1. n \in 0..MaxStrikes /\ (r.attempts + 1 >= MaxStrikes => n = MaxStrikes)
    BY IndexAssumption, SMT DEF Row
  <2>2. s \in {"absent", "pending", "ok", "missing", "failed", "too_long"}
    BY <1>2
  <2>3. StorageRejected(r) = [r EXCEPT !.attempts = n, !.storage = s, !.hq_pending = FALSE]
    BY <1>2 DEF StorageRejected
  <2>4. r.attempts + 1 < MaxStrikes => n = r.attempts + 1
    BY IndexAssumption, SMT DEF Row
  <2>5. IF r.attempts + 1 >= MaxStrikes THEN s = "failed" ELSE s = r.storage
    OBVIOUS
  <2>6. r.attempts \in Nat /\ MaxStrikes \in Nat
    BY IndexAssumption, SMT DEF Row
  <2> HIDE DEF n, s
  <2>7. StorageRejected(r) \in Row
    BY <2>1, <2>2, <2>3, Zenon DEF Row
  <2>8. /\ StorageRejected(r) \in Row
        /\ StorageRejected(r).index = r.index /\ StorageRejected(r).quality = r.quality
        /\ StorageRejected(r).attempts = n /\ StorageRejected(r).storage = s
    BY <2>3, <2>7, SMT DEF Row
  <2>9. QED BY <1>2, <2>1, <2>4, <2>5, <2>6, <2>8, SMT
<1>3. QED BY <1>1, <1>2

\* The probe's marks, and the mark of the index.
LEMMA MarkedRow ==
  ASSUME NEW r \in Row
  PROVE  /\ VerifiedOk(r) \in Row /\ VerifiedMissing(r) \in Row /\ Indexed(r) \in Row
         /\ VerifiedOk(r).index = r.index /\ VerifiedOk(r).quality = r.quality
         /\ VerifiedOk(r).attempts = r.attempts
         /\ VerifiedOk(r).storage = IF r.storage \in {"absent", "too_long"} THEN r.storage
                                    ELSE "ok"
         /\ VerifiedMissing(r).index = r.index /\ VerifiedMissing(r).quality = r.quality
         /\ VerifiedMissing(r).attempts = r.attempts
         /\ VerifiedMissing(r).storage =
              IF r.storage \in {"absent", "too_long", "pending"} THEN r.storage
              ELSE "missing"
         /\ Indexed(r).storage = r.storage /\ Indexed(r).quality = r.quality
         /\ Indexed(r).attempts = r.attempts
         /\ Indexed(r).index = IF r.storage = "absent" THEN r.index ELSE "indexed"
<1>1. CASE r.storage \in {"absent", "too_long"}
  BY <1>1, SMT DEF VerifiedOk, VerifiedMissing, Indexed, Row
<1>2. CASE r.storage \notin {"absent", "too_long"}
  <2> DEFINE s == IF r.storage = "pending" THEN r.storage ELSE "missing"
  <2>1. s \in {"absent", "pending", "ok", "missing", "failed", "too_long"}
    OBVIOUS
  <2>2. /\ VerifiedOk(r) = [r EXCEPT !.storage = "ok", !.s3 = "verified"]
        /\ VerifiedMissing(r) = [r EXCEPT !.storage = s, !.s3 = "missing"]
        /\ Indexed(r) = [r EXCEPT !.index = "indexed"]
    BY <1>2 DEF VerifiedOk, VerifiedMissing, Indexed
  <2> HIDE DEF s
  <2>3. VerifiedOk(r) \in Row /\ Indexed(r) \in Row
    BY <2>2, Zenon DEF Row
  <2>4. VerifiedMissing(r) \in Row
    BY <2>1, <2>2, Zenon DEF Row
  <2>5. /\ VerifiedOk(r).storage = "ok" /\ VerifiedOk(r).index = r.index
        /\ VerifiedOk(r).attempts = r.attempts /\ VerifiedOk(r).quality = r.quality
    BY <2>2, SMT DEF Row
  <2>6. /\ VerifiedMissing(r).storage = s /\ VerifiedMissing(r).index = r.index
        /\ VerifiedMissing(r).attempts = r.attempts
        /\ VerifiedMissing(r).quality = r.quality
    BY <2>2, SMT DEF Row
  <2>7. /\ Indexed(r).index = "indexed" /\ Indexed(r).storage = r.storage
        /\ Indexed(r).attempts = r.attempts /\ Indexed(r).quality = r.quality
    BY <2>2, SMT DEF Row
  <2>8. QED BY <1>2, <2>3, <2>4, <2>5, <2>6, <2>7 DEF s
<1>3. QED BY <1>1, <1>2

\* A new duration gives a refused track another try, and changes no other mark.
LEMMA MeasuredRow ==
  ASSUME NEW r \in Row, NEW changed \in BOOLEAN, NEW l \in BOOLEAN
  PROVE  /\ Measured(r, changed, l) \in Row
         /\ Measured(r, changed, l).index = r.index
         /\ Measured(r, changed, l).quality = r.quality
         /\ \/ /\ Measured(r, changed, l).storage = r.storage
               /\ Measured(r, changed, l).attempts = r.attempts
            \/ /\ r.storage = "failed"
               /\ Measured(r, changed, l).storage = "pending"
               /\ Measured(r, changed, l).attempts = 0
<1>1. CASE r.storage = "failed" /\ changed
  <2>1. Measured(r, changed, l) = [r EXCEPT !.storage = "pending", !.attempts = 0,
                                            !.long = l]
    BY <1>1 DEF Measured
  <2>2. 0 \in 0..MaxStrikes
    BY IndexAssumption, SMT
  <2>3. Measured(r, changed, l) \in Row
    BY <2>1, <2>2, Zenon DEF Row
  <2>4. /\ Measured(r, changed, l).storage = "pending"
        /\ Measured(r, changed, l).attempts = 0
        /\ Measured(r, changed, l).index = r.index
        /\ Measured(r, changed, l).quality = r.quality
    BY <2>1, SMT DEF Row
  <2>5. QED BY <1>1, <2>3, <2>4
<1>2. CASE ~(r.storage = "failed" /\ changed)
  <2>1. Measured(r, changed, l) = [r EXCEPT !.long = l]
    BY <1>2 DEF Measured
  <2>2. Measured(r, changed, l) \in Row
    BY <2>1, Zenon DEF Row
  <2>3. QED BY <2>1, <2>2, SMT DEF Row
<1>3. QED BY <1>1, <1>2

\* The row of a new track.
LEMMA NewRow ==
  ASSUME NEW l \in BOOLEAN
  PROVE  /\ Absent \in Row
         /\ [Absent EXCEPT !.storage = "pending", !.long = l] \in Row
         /\ [Absent EXCEPT !.storage = "pending", !.long = l].storage = "pending"
         /\ [Absent EXCEPT !.storage = "pending", !.long = l].index = "pending"
         /\ [Absent EXCEPT !.storage = "pending", !.long = l].attempts = 0
         /\ [Absent EXCEPT !.storage = "pending", !.long = l].quality = "none"
<1>1. 0 \in 0..MaxStrikes
  BY IndexAssumption, SMT
<1>2. Absent \in Row
  BY <1>1, Zenon DEF Absent, Row, Copy, Qualities
<1>3. /\ Absent.index = "pending" /\ Absent.attempts = 0 /\ Absent.quality = "none"
  BY DEF Absent
<1>4. [Absent EXCEPT !.storage = "pending", !.long = l] \in Row
  BY <1>2, Zenon DEF Row
<1>5. QED BY <1>2, <1>3, <1>4, SMT DEF Row

\* A miss that is forgotten.
LEMMA StaleRow ==
  ASSUME NEW r \in Row
  PROVE  /\ [r EXCEPT !.s3 = "stale"] \in Row
         /\ [r EXCEPT !.s3 = "stale"].storage = r.storage
         /\ [r EXCEPT !.s3 = "stale"].index = r.index
         /\ [r EXCEPT !.s3 = "stale"].attempts = r.attempts
         /\ [r EXCEPT !.s3 = "stale"].quality = r.quality
BY SMT DEF Row

----------------------------------------------------------------------------
(* What the steps of Uploads do to the uploads and the records             *)

\* A new upload, and where it may begin.
LEMMA StartIs ==
  ASSUME uploads \subseteq Upload, NEW t \in Tracks, NEW source \in Sources,
         NEW step \in Steps, NEW q \in Qualities, Start(t, source, step, q)
  PROVE  /\ "overlap" \in faults \/ UploadsOf(t) = {}
         /\ \E u \in Upload :
              /\ uploads' = uploads \cup {u}
              /\ u.track = t /\ u.source = source /\ u.step = step /\ u.quality = q
<1> DEFINE i == CHOOSE j \in FreeUploads : TRUE
<1>1. i \in UploadIds
  BY DEF Start, FreeUploads
<1> DEFINE u == [id |-> i, track |-> t, source |-> source, step |-> step, quality |-> q]
<1>2. uploads' = uploads \cup {u}
  BY DEF Start
<1> HIDE DEF i
<1>3. u \in Upload
  BY <1>1 DEF Upload
<1>4. u.track = t /\ u.source = source /\ u.step = step /\ u.quality = q
  OBVIOUS
<1> HIDE DEF u
<1>5. QED BY <1>2, <1>3, <1>4 DEF Start

\* An upload that ends leaves every record its status.
LEMMA EndedIs ==
  ASSUME UploadsTypeOK, NEW u \in uploads, Ended(u)
  PROVE  /\ uploads' = uploads \ {u}
         /\ cdn' \in [Tracks -> Record]
         /\ \A t \in Tracks : cdn'[t].status = cdn[t].status
<1>1. u.track \in Tracks /\ u.id \in UploadIds /\ cdn \in [Tracks -> Record]
  BY DEF UploadsTypeOK, Upload
<1> DEFINE t == u.track
           c == cdn[t]
           i == IF c.id = u.id THEN Nobody ELSE c.id
           r == [c EXCEPT !.id = i]
<1>2. c \in Record /\ i \in UploadIds \cup {Nobody}
  BY <1>1 DEF Record
<1>3. cdn' = [cdn EXCEPT ![t] = r]
  BY DEF Ended
<1> HIDE DEF i
<1>4. r \in Record /\ r.status = c.status
  BY <1>2 DEF Record
<1> HIDE DEF r
<1>5. QED BY <1>1, <1>3, <1>4 DEF Ended

\* An upload sets the status of a record that bears its id, and of no other.
LEMMA SetStatusIs ==
  ASSUME UploadsTypeOK, NEW u \in uploads, NEW status \in {"ok", "error"},
         SetStatus(u, status)
  PROVE  /\ uploads' = uploads \ {u}
         /\ cdn' \in [Tracks -> Record]
         /\ \A t \in Tracks : t # u.track => cdn'[t] = cdn[t]
         /\ cdn[u.track].id = u.id => cdn'[u.track].status = status
         /\ cdn[u.track].id # u.id => cdn'[u.track] = cdn[u.track]
<1>1. u.track \in Tracks /\ u.id \in UploadIds /\ cdn \in [Tracks -> Record]
  BY DEF UploadsTypeOK, Upload
<1> DEFINE n == [status |-> status, id |-> Nobody]
           r == IF cdn[u.track].id = u.id THEN n ELSE cdn[u.track]
<1>2. n \in Record /\ n.status = status
  BY DEF Record
<1>3. cdn' = [cdn EXCEPT ![u.track] = r]
  BY DEF SetStatus
<1> HIDE DEF n
<1>4. r \in Record
  BY <1>1, <1>2
<1>5. QED BY <1>1, <1>2, <1>3, <1>4 DEF SetStatus

\* The record that an upload inserts or finds.
LEMMA InsertIs ==
  ASSUME UploadsTypeOK, NEW u \in uploads, InsertRecord(u)
  PROVE  /\ uploads' = (uploads \ {u}) \cup {At(u, "sending")}
         /\ cdn' \in [Tracks -> Record]
         /\ \A t \in Tracks : t # u.track => cdn'[t] = cdn[t]
         /\ cdn[u.track].status = "none" => cdn'[u.track].id = u.id
<1>1. u.track \in Tracks /\ u.id \in UploadIds /\ cdn \in [Tracks -> Record]
  BY DEF UploadsTypeOK, Upload
<1> DEFINE i == IF cdn[u.track].status = "none" THEN u.id ELSE cdn[u.track].id
           r == [status |-> "pending", id |-> i]
<1>2. i \in UploadIds \cup {Nobody}
  BY <1>1 DEF Record
<1>3. cdn' = [cdn EXCEPT ![u.track] = r]
  BY DEF InsertRecord
<1>4. cdn[u.track].status = "none" => i = u.id
  OBVIOUS
<1> HIDE DEF i
<1>5. r \in Record /\ r.id = i
  BY <1>2 DEF Record
<1> HIDE DEF r
<1>6. QED BY <1>1, <1>3, <1>4, <1>5 DEF InsertRecord, Move, At

----------------------------------------------------------------------------
(* Types                                                                   *)

LEMMA MoveTypes ==
  ASSUME UploadsTypeOK, NEW u \in uploads, NEW step \in Steps,
         Move(u, step) \/ Answered(u, step)
  PROVE  uploads' \subseteq Upload
BY UploadAt DEF UploadsTypeOK, Move, Answered, At

LEMMA UploadStepTypes ==
  ASSUME UploadsTypeOK, UploadStep, UNCHANGED faults
  PROVE  UploadsTypeOK'
<1> USE DEF UploadsTypeOK
<1>1. \A t \in Tracks : cdn[t] \in Record /\ NoRecord \in Record
  BY DEF Record, NoRecord
<1>2. ASSUME NEW t \in Tracks, ServeMissing(t) PROVE UploadsTypeOK'
  <2> DEFINE r == [cdn[t] EXCEPT !.status = "error"]
  <2>1. r \in Record /\ cdn' = [cdn EXCEPT ![t] = r]
    BY <1>1, <1>2 DEF Record, ServeMissing
  <2> HIDE DEF r
  <2>2. QED BY <1>2, <2>1 DEF ServeMissing
<1>3. ASSUME NEW t \in Tracks, DeleteFile(t) PROVE UploadsTypeOK'
  <2>1. PICK u \in Upload : uploads' = uploads \cup {u}
    BY <1>3, StartIs DEF DeleteFile, Sources, Steps, Qualities
  <2>2. QED BY <1>3, <2>1 DEF DeleteFile, Copy
<1>4. ASSUME NEW u \in uploads,
             KickFinds(u) \/ UploadDies(u)
      PROVE  UploadsTypeOK'
  BY <1>4, EndedIs DEF KickFinds, UploadDies
<1>5. ASSUME NEW u \in uploads, Fetched(u) PROVE UploadsTypeOK'
  BY <1>5, MoveTypes DEF Fetched, Steps
<1>6. ASSUME NEW u \in uploads, InsertRecord(u) PROVE UploadsTypeOK'
  <2>1. At(u, "sending") \in Upload /\ UNCHANGED file
    BY <1>6, UploadAt DEF InsertRecord, Steps
  <2>2. uploads' = (uploads \ {u}) \cup {At(u, "sending")} /\ cdn' \in [Tracks -> Record]
    BY <1>6, InsertIs
  <2>3. QED BY <2>1, <2>2
<1>7. ASSUME NEW u \in uploads, Commit(u) PROVE UploadsTypeOK'
  <2>1. uploads' \subseteq Upload /\ UNCHANGED cdn
    BY <1>7, MoveTypes DEF Commit, Steps
  <2>2. u.track \in Tracks /\ u.quality \in Copy
    BY DEF Upload, Copy
  <2>3. file' \in [Tracks -> Copy]
    BY <1>7, <2>2 DEF Commit
  <2>4. QED BY <2>1, <2>3
<1>8. ASSUME NEW u \in uploads, RecordAccepted(u) \/ RecordRefused(u)
      PROVE  UploadsTypeOK'
  <2>1. PICK status \in {"ok", "error"} : SetStatus(u, status) /\ UNCHANGED file
    BY <1>8 DEF RecordAccepted, RecordRefused
  <2>2. QED BY <2>1, SetStatusIs
<1>9. ASSUME NEW u \in uploads, StoreFails(u) \/ DiesUnpublished(u)
      PROVE  UploadsTypeOK'
  BY <1>9, MoveTypes DEF StoreFails, DiesUnpublished, Steps
<1>10. ASSUME NEW u \in uploads, DeleteRecord(u) PROVE UploadsTypeOK'
  <2>1. u.track \in Tracks
    BY DEF Upload
  <2>2. QED BY <1>1, <1>10, <2>1 DEF DeleteRecord
<1>11. QED
  BY <1>2, <1>3, <1>4, <1>5, <1>6, <1>7, <1>8, <1>9, <1>10 DEF UploadStep

\* An accepted kick, a listener and an upgrade begin one upload.
LEMMA BeginIs ==
  ASSUME UploadsTypeOK, NEW t \in Tracks, AcceptKick(t) \/ Play(t) \/ StartUpgrade(t)
  PROVE  /\ "overlap" \in faults \/ UploadsOf(t) = {}
         /\ UNCHANGED <<file, cdn>>
         /\ \E u \in Upload :
              /\ uploads' = uploads \cup {u} /\ u.track = t
              /\ \/ u.source = "kick" /\ u.step = "fetch"
                 \/ /\ u.source \in {"play", "upgrade"} /\ u.step = "insert"
                    /\ "again" \in faults \/ cdn[t].status = "none"
<1> USE DEF UploadsTypeOK, Sources, Steps
<1>1. CASE AcceptKick(t)
  <2>1. PICK q \in Qualities : Start(t, "kick", "fetch", q)
    BY <1>1 DEF AcceptKick, Qualities
  <2>2. QED BY <1>1, <2>1, StartIs DEF AcceptKick
<1>2. CASE Play(t)
  <2>1. PICK q \in Qualities : Start(t, "play", "insert", q)
    BY <1>2 DEF Play
  <2>2. QED BY <1>2, <2>1, StartIs DEF Play
<1>3. CASE StartUpgrade(t)
  BY <1>3, StartIs DEF StartUpgrade, Qualities
<1>4. QED BY <1>1, <1>2, <1>3

\* One more message.
LEMMA SendIs ==
  ASSUME NEW t \in Tracks, NEW kind \in Kinds, NEW q \in Copy, Send(t, kind, q)
  PROVE  \E f \in Event :
           /\ events' = events \cup {f}
           /\ f.track = t /\ f.kind = kind /\ f.quality = q
           /\ f.step = "queued"
<1> DEFINE i == CHOOSE j \in FreeEvents : TRUE
<1>1. i \in EventIds /\ events' = events \cup {Message(i, t, kind, q)}
  BY DEF Send, FreeEvents
<1> HIDE DEF i
<1>2. QED BY <1>1, MessageIs

\* A handler that goes on.
LEMMA GoesIs ==
  ASSUME NEW e \in Event, NEW step \in EventSteps, Goes(e, step)
  PROVE  events' = (events \ {e}) \cup {At(e, step)}
BY DEF Goes, At

\* A message that is done with, or comes again.
LEMMA AckedIs ==
  ASSUME NEW e \in Event, Acked(e)
  PROVE  events' = events \ {e} \/ events' = (events \ {e}) \cup {At(e, "queued")}
BY DEF Acked, Goes, At

\* INDEX_AUDIO takes the place of the upload's message, which may come again.
LEMMA PublishIs ==
  ASSUME NEW e \in Event, PublishIndex(e)
  PROVE  \E f \in Event :
           /\ f.track = e.track /\ f.kind = "index" /\ f.step = "queued"
           /\ \/ events' = (events \ {e}) \cup {f}
              \/ events' = (events \ {e}) \cup {At(e, "queued"), f}
<1>0. e.id \in EventIds /\ e.track \in Tracks /\ "none" \in Copy /\ "index" \in Kinds
  BY DEF Event, Copy, Kinds
<1>1. CASE events' = (events \ {e}) \cup {Message(e.id, e.track, "index", "none")}
  BY <1>0, <1>1, MessageIs
<1>2. CASE ~(events' = (events \ {e}) \cup {Message(e.id, e.track, "index", "none")})
  <2> DEFINE i == CHOOSE j \in FreeEvents : TRUE
  <2>1. /\ i \in EventIds
        /\ events' = (events \ {e}) \cup {At(e, "queued"), Message(i, e.track, "index", "none")}
    BY <1>2 DEF PublishIndex, FreeEvents, At
  <2> HIDE DEF i
  <2>2. QED BY <1>0, <2>1, MessageIs
<1>3. QED BY <1>1, <1>2

\* The vectors are made.
LEMMA EmbedIs ==
  ASSUME NEW e \in Event, Embed(e)
  PROVE  \E f \in Event :
           /\ f.track = e.track /\ f.kind = "done" /\ f.step = "queued"
           /\ events' = (events \ {e}) \cup {f}
<1>1. e.id \in EventIds /\ e.track \in Tracks /\ "none" \in Copy /\ "done" \in Kinds
  BY DEF Event, Copy, Kinds
<1>2. QED BY <1>1, MessageIs DEF Embed

\* A restart: every message is delivered again, except for the marks that only
\* the process knew of.
LEMMA RestartIs ==
  ASSUME events \subseteq Event, Restart, NEW f \in events'
  PROVE  \E e \in events : e.kind # "long" /\ f = At(e, "queued")
<1>1. events' = {[e EXCEPT !.step = "queued"] : e \in {g \in events : g.kind # "long"}}
  BY DEF Restart
<1>2. PICK e \in {g \in events : g.kind # "long"} : f = [e EXCEPT !.step = "queued"]
  BY <1>1
<1>3. QED BY <1>2 DEF At

\* Which track a trigger names, and the reaps it is remembered.
LEMMA TriggerTypes ==
  ASSUME IndexTypeOK, NEW S \in SUBSET Tracks
  PROVE  /\ Triggered(S) \in [Tracks -> {"no", "probe", "mark_ok", "mark_missing", "hit", "post"}]
         /\ Kept(S) \in [Tracks -> 0..IdleReaps]
<1>1. \A t \in Tracks : trig[t] \in {"no", "probe", "mark_ok", "mark_missing", "hit", "post"}
  BY DEF IndexTypeOK
<1>2. \A t \in Tracks : inflight[t] \in 0..IdleReaps
  BY DEF IndexTypeOK
<1>3. IdleReaps \in 0..IdleReaps
  BY IndexAssumption
<1>4. Kept(S) \in [Tracks -> 0..IdleReaps]
  BY <1>2, <1>3 DEF Kept
<1>5. QED BY <1>1, <1>4 DEF Triggered

\* The pieces of the state that the steps of the backend change.
TrigOK     == trig \in [Tracks -> {"no", "probe", "mark_ok", "mark_missing", "hit", "post"}]
InflightOK == inflight \in [Tracks -> 0..IdleReaps]
RowsOK     == rows \in [Tracks -> Row]
EventsOK   == events \subseteq Event

DedupOK    == dedup \in [Tracks -> BOOLEAN]
VectorsOK  == vectors \subseteq Tracks

LEMMA TypeParts ==
  /\ IndexTypeOK => /\ UploadsTypeOK /\ RowsOK /\ TrigOK /\ InflightOK
                    /\ DedupOK /\ EventsOK /\ VectorsOK
  /\ UploadsTypeOK' /\ RowsOK' /\ TrigOK' /\ InflightOK' /\ DedupOK' /\ EventsOK' /\ VectorsOK'
     => IndexTypeOK'
BY DEF IndexTypeOK, RowsOK, TrigOK, InflightOK, EventsOK, DedupOK, VectorsOK

\* What a step leaves alone keeps its type.
LEMMA TypesKept ==
  /\ UploadsTypeOK /\ UNCHANGED <<uploadVars, faults>> => UploadsTypeOK'
  /\ RowsOK /\ UNCHANGED rows => RowsOK'
  /\ TrigOK /\ UNCHANGED trig => TrigOK'
  /\ InflightOK /\ UNCHANGED inflight => InflightOK'
  /\ DedupOK /\ UNCHANGED dedup => DedupOK'
  /\ EventsOK /\ UNCHANGED events => EventsOK'
  /\ VectorsOK /\ UNCHANGED vectors => VectorsOK'
BY DEF uploadVars, UploadsTypeOK, RowsOK, TrigOK, InflightOK, EventsOK, DedupOK, VectorsOK

LEMMA TriggerTasksTypes ==
  ASSUME IndexTypeOK, NEW t \in Tracks, Trigger(t)
  PROVE  IndexTypeOK'
<1> USE TypeParts, TypesKept
<1>0. /\ \A f \in [Tracks -> 0..IdleReaps] : [f EXCEPT ![t] = 0] \in [Tracks -> 0..IdleReaps]
      /\ "none" \in Copy /\ "uploaded" \in Kinds /\ rows[t] \in Row
  BY IndexAssumption DEF Copy, Kinds, RowsOK
<1>1. CASE Probe(t)
  <2>1. TrigOK'
    BY <1>1 DEF Probe, TrigOK
  <2>2. QED BY <1>1, <2>1 DEF Probe
<1>2. CASE MarkProbed(t)
  <2>1. PICK r \in Row : rows' = [rows EXCEPT ![t] = r] \/ UNCHANGED rows
    BY <1>0, <1>2, MarkedRow DEF MarkProbed
  <2>2. RowsOK'
    BY <2>1 DEF RowsOK
  <2>3. TrigOK'
    BY <1>2 DEF MarkProbed, TrigOK
  <2>4. QED BY <1>2, <2>2, <2>3 DEF MarkProbed
<1>3. CASE PublishHit(t)
  <2>1. EventsOK'
    BY <1>0, <1>3, SendIs DEF PublishHit, EventsOK
  <2>2. InflightOK' /\ TrigOK'
    BY <1>0, <1>3 DEF PublishHit, InflightOK, TrigOK
  <2>3. QED BY <1>3, <2>1, <2>2 DEF PublishHit
<1>4. CASE PostFindsFile(t)
  <2>1. TrigOK'
    BY <1>4 DEF PostFindsFile, TrigOK
  <2>2. QED BY <1>4, <2>1 DEF PostFindsFile
<1>5. CASE PostAccepted(t)
  <2>1. UploadsTypeOK'
    BY <1>5, BeginIs DEF PostAccepted, UploadsTypeOK
  <2>2. InflightOK' /\ TrigOK'
    BY <1>0, <1>5 DEF PostAccepted, InflightOK, TrigOK
  <2>3. QED BY <1>5, <2>1, <2>2 DEF PostAccepted
<1>6. CASE TriggerFails(t)
  <2>1. InflightOK' /\ TrigOK'
    BY <1>0, <1>6 DEF TriggerFails, InflightOK, TrigOK
  <2>2. QED BY <1>6, <2>1 DEF TriggerFails
<1>7. QED BY <1>1, <1>2, <1>3, <1>4, <1>5, <1>6 DEF Trigger

LEMMA HandleTypes ==
  ASSUME IndexTypeOK, NEW e \in events, Handle(e) \/ Nak(e) \/ LoseEvent(e)
  PROVE  IndexTypeOK'
<1> USE TypeParts, TypesKept
<1>0. /\ e \in Event /\ e.track \in Tracks /\ rows[e.track] \in Row /\ e.quality \in Copy
      /\ \A step \in EventSteps : At(e, step) \in Event
  BY EventAt DEF Event, EventsOK, RowsOK
<1>1. EventsOK /\ RowsOK
  OBVIOUS
<1>2. ASSUME Goes(e, "queued") \/ Goes(e, "ban") \/ Goes(e, "mark_index") \/ Goes(e, "mark_only")
             \/ Goes(e, "publish") \/ Goes(e, "strike") \/ Goes(e, "struck")
             \/ Goes(e, "upserted") \/ Acked(e)
             \/ events' = events \ {e}
      PROVE  EventsOK'
  BY <1>0, <1>1, <1>2, GoesIs, AckedIs DEF EventsOK, EventSteps
<1>3. ASSUME NEW r \in Row, rows' = [rows EXCEPT ![e.track] = r]
      PROVE  RowsOK'
  BY <1>0, <1>1, <1>3 DEF RowsOK
<1>4. CASE MarkTooLong(e)
  <2>1. EventsOK'
    BY <1>2, <1>4 DEF MarkTooLong
  <2>2. RowsOK'
    BY <1>0, <1>3, <1>4, TooLongRow DEF MarkTooLong
  <2>3. QED BY <1>4, <2>1, <2>2 DEF MarkTooLong
<1>5. CASE ReadRow(e)
  <2>1. EventsOK'
    BY <1>2, <1>5 DEF ReadRow
  <2>2. QED BY <1>5, <2>1 DEF ReadRow, Handler
<1>6. CASE BanLong(e)
  <2>1. EventsOK'
    BY <1>2, <1>6 DEF BanLong
  <2>2. RowsOK'
    BY <1>0, <1>3, <1>6, TooLongRow DEF BanLong
  <2>3. QED BY <1>6, <2>1, <2>2 DEF BanLong, Handler
<1>7. CASE MarkStored(e)
  <2>1. EventsOK'
    BY <1>2, <1>7 DEF MarkStored
  <2>2. RowsOK'
    BY <1>0, <1>3, <1>7, DoneRow DEF MarkStored
  <2>3. QED BY <1>7, <2>1, <2>2 DEF MarkStored, Handler
<1>8. CASE PublishIndex(e)
  <2>1. PICK f \in Event : \/ events' = (events \ {e}) \cup {f}
                           \/ events' = (events \ {e}) \cup {At(e, "queued"), f}
    BY <1>0, <1>8, PublishIs
  <2>2. EventsOK'
    BY <1>0, <1>1, <2>1 DEF EventsOK, EventSteps
  <2>3. QED BY <1>8, <2>2 DEF PublishIndex, Handler
<1>9. CASE SwallowRejection(e)
  <2>1. EventsOK'
    BY <1>2, <1>9 DEF SwallowRejection
  <2>2. QED BY <1>9, <2>1 DEF SwallowRejection, Handler
<1>10. CASE TakeRejection(e) \/ Strike(e) \/ NoteStrike(e)
  <2>1. EventsOK'
    BY <1>2, <1>10 DEF TakeRejection, Strike, NoteStrike
  <2>2. RowsOK'
    BY <1>0, <1>3, <1>10, RejectedRow DEF TakeRejection, Strike, NoteStrike, Handler
  <2>3. UNCHANGED <<dedup, inflight>> \/
          (/\ dedup' = [dedup EXCEPT ![e.track] = TRUE]
           /\ inflight' = [inflight EXCEPT ![e.track] = 0])
    BY <1>10, Zenon DEF TakeRejection, Strike, NoteStrike
  <2>4. CASE UNCHANGED <<dedup, inflight>>
    BY <1>10, <2>1, <2>2, <2>4 DEF TakeRejection, Strike, NoteStrike, Handler
  <2>5. CASE /\ dedup' = [dedup EXCEPT ![e.track] = TRUE]
             /\ inflight' = [inflight EXCEPT ![e.track] = 0]
    <3>1. DedupOK'
      BY <1>0, <2>5 DEF DedupOK
    <3>2. InflightOK'
      BY <1>0, <2>5, IndexAssumption DEF InflightOK
    <3>3. QED BY <1>10, <2>1, <2>2, <3>1, <3>2 DEF TakeRejection, Strike, NoteStrike, Handler
  <2>6. QED BY <2>3, <2>4, <2>5 DEF TakeRejection, Strike, NoteStrike, Handler
<1>11. CASE Embed(e)
  <2>1. EventsOK'
    BY <1>0, <1>1, <1>11, EmbedIs DEF EventsOK
  <2>2. QED BY <1>11, <2>1 DEF Embed, Handler
<1>12. CASE UpsertVectors(e)
  <2>1. EventsOK'
    BY <1>2, <1>12 DEF UpsertVectors
  <2>2. VectorsOK'
    BY <1>0, <1>12 DEF UpsertVectors, VectorsOK
  <2>3. QED BY <1>12, <2>1, <2>2 DEF UpsertVectors, Handler
<1>13. CASE MarkIndexed(e)
  <2>1. EventsOK'
    BY <1>2, <1>13 DEF MarkIndexed
  <2>2. RowsOK'
    BY <1>0, <1>3, <1>13, MarkedRow DEF MarkIndexed
  <2>3. QED BY <1>13, <2>1, <2>2 DEF MarkIndexed, Handler
<1>14. CASE Nak(e)
  <2>1. EventsOK'
    BY <1>2, <1>14 DEF Nak
  <2>2. QED BY <1>14, <2>1 DEF Nak, Handler
<1>15. CASE LoseEvent(e)
  <2>1. EventsOK'
    BY <1>2, <1>15 DEF LoseEvent
  <2>2. QED BY <1>15, <2>1 DEF LoseEvent, Handler
<1>16. QED
  BY <1>4, <1>5, <1>6, <1>7, <1>8, <1>9, <1>10, <1>11, <1>12, <1>13, <1>14, <1>15 DEF Handle

LEMMA TypesNext ==
  ASSUME IndexTypeOK, [Next]_vars
  PROVE  IndexTypeOK'
<1> USE TypeParts, TypesKept
<1>0. /\ "none" \in Copy /\ "long" \in Kinds /\ "uploaded" \in Kinds /\ "rejected" \in Kinds
      /\ Qualities \subseteq Copy
      /\ \A t \in Tracks : rows[t] \in Row
  BY DEF Copy, Kinds, RowsOK
<1>1. CASE UNCHANGED vars
  BY <1>1 DEF vars
<1>2. CASE Uploading
  BY <1>2, UploadStepTypes DEF Uploading
<1>3. ASSUME NEW t \in Tracks, Ingest(t) PROVE IndexTypeOK'
  <2>1. PICK l \in BOOLEAN :
          /\ rows' = [rows EXCEPT ![t] = [Absent EXCEPT !.storage = "pending", !.long = l]]
          /\ IF l THEN Send(t, "long", "none") /\ UNCHANGED <<trig, inflight>>
                  ELSE /\ MayTrigger({t}) /\ UNCHANGED events
                       /\ trig' = Triggered({t}) /\ inflight' = Kept({t})
    BY <1>3 DEF Ingest
  <2>2. RowsOK'
    BY <2>1, NewRow DEF RowsOK
  <2>3. EventsOK' /\ TrigOK' /\ InflightOK'
    <3>1. CASE l
      BY <1>0, <2>1, <3>1, SendIs DEF EventsOK
    <3>2. CASE ~l
      BY <2>1, <3>2, TriggerTypes DEF TrigOK, InflightOK
    <3>3. QED BY <3>1, <3>2
  <2>4. QED BY <1>3, <2>2, <2>3 DEF Ingest
<1>4. ASSUME NEW t \in Tracks, NewDuration(t) PROVE IndexTypeOK'
  <2>1. PICK changed \in BOOLEAN, l \in BOOLEAN :
          /\ rows' = [rows EXCEPT ![t] = Measured(rows[t], changed, l)]
          /\ Send(t, "long", "none") \/ UNCHANGED events
    BY <1>4 DEF NewDuration
  <2>2. RowsOK'
    BY <1>0, <2>1, MeasuredRow DEF RowsOK
  <2>3. EventsOK'
    BY <1>0, <2>1, SendIs DEF EventsOK
  <2>4. QED BY <1>4, <2>2, <2>3 DEF NewDuration
<1>5. ASSUME NEW t \in Tracks, Kick(t) PROVE IndexTypeOK'
  <2>1. TrigOK' /\ InflightOK'
    BY <1>5, TriggerTypes DEF Kick, TrigOK, InflightOK
  <2>2. QED BY <1>5, <2>1 DEF Kick
<1>6. ASSUME NEW t \in Tracks, Listen(t) \/ Upgrade(t) PROVE IndexTypeOK'
  <2>1. UploadsTypeOK'
    BY <1>6, BeginIs DEF Listen, Upgrade, UploadsTypeOK
  <2>2. QED BY <1>6, <2>1 DEF Listen, Upgrade
<1>7. ASSUME NEW t \in Tracks, DedupExpires(t) PROVE IndexTypeOK'
  <2>1. DedupOK'
    BY <1>7 DEF DedupExpires, DedupOK
  <2>2. QED BY <1>7, <2>1 DEF DedupExpires
<1>8. ASSUME NEW t \in Tracks, MissExpires(t) PROVE IndexTypeOK'
  <2>1. rows' = [rows EXCEPT ![t] = [rows[t] EXCEPT !.s3 = "stale"]]
    BY <1>8 DEF MissExpires
  <2>2. [rows[t] EXCEPT !.s3 = "stale"] \in Row
    BY <1>0, StaleRow
  <2>3. RowsOK'
    BY <2>1, <2>2 DEF RowsOK
  <2>4. QED BY <1>8, <2>3 DEF MissExpires
<1>9. ASSUME NEW u \in uploads, PublishUploaded(u) \/ RejectUpload(u) PROVE IndexTypeOK'
  <2>1. u \in Upload /\ u.track \in Tracks /\ u.quality \in Copy
    BY <1>0 DEF UploadsTypeOK, Upload
  <2>2. UploadsTypeOK'
    BY <1>9, MoveTypes DEF PublishUploaded, RejectUpload, UploadsTypeOK, Steps
  <2>3. EventsOK'
    BY <1>0, <1>9, <2>1, SendIs DEF PublishUploaded, RejectUpload, EventsOK
  <2>4. QED BY <1>9, <2>2, <2>3 DEF PublishUploaded, RejectUpload
<1>10. CASE Reap
  <2>1. PICK S \in SUBSET {t \in Tracks : Reapable(t)} : ReapOf(S)
    BY <1>10 DEF Reap
  <2>2. TrigOK'
    BY <2>1, TriggerTypes DEF ReapOf, TrigOK
  <2>3. \A t \in Tracks : /\ inflight[t] \in 0..IdleReaps
                          /\ inflight[t] # 0 => inflight[t] - 1 \in 0..IdleReaps
                          /\ IdleReaps \in 0..IdleReaps /\ 0 \in 0..IdleReaps
    BY IndexAssumption DEF InflightOK
  <2>4. InflightOK'
    BY <2>1, <2>3 DEF ReapOf, InflightOK
  <2>5. QED BY <2>1, <2>2, <2>4 DEF ReapOf
<1>11. CASE Restart
  <2>1. TrigOK' /\ InflightOK' /\ DedupOK'
    BY <1>11, IndexAssumption DEF Restart, TrigOK, InflightOK, DedupOK
  <2>2. EventsOK'
    <3>1. ASSUME NEW f \in events' PROVE f \in Event
      <4>1. PICK e \in events : f = At(e, "queued")
        BY <1>11, RestartIs DEF EventsOK
      <4>2. QED BY <4>1, EventAt DEF EventsOK, EventSteps
    <3>2. QED BY <3>1 DEF EventsOK
  <2>3. QED BY <1>11, <2>1, <2>2 DEF Restart
<1>12. QED
  BY <1>1, <1>2, <1>3, <1>4, <1>5, <1>6, <1>7, <1>8, <1>9, <1>10, <1>11,
     TriggerTasksTypes, HandleTypes DEF Next

\* The table, the trigger, the caches, the messages and the uploads keep their
\* shapes, for any number of tracks, uploads and messages under any faults.
THEOREM IndexTypeCorrect == Spec => []IndexTypeOK
<1>1. Init => IndexTypeOK
  <2>1. Absent \in Row
    BY NewRow
  <2>2. NoRecord \in Record
    BY DEF NoRecord, Record
  <2>3. 0 \in 0..IdleReaps
    BY IndexAssumption
  <2>4. QED BY <2>1, <2>2, <2>3 DEF Init, UploadsInit, IndexTypeOK, UploadsTypeOK, Copy
<1>2. IndexTypeOK /\ [Next]_vars => IndexTypeOK'
  BY TypesNext
<1>3. QED BY <1>1, <1>2, PTL DEF Spec

----------------------------------------------------------------------------
(* What one step does: the faults, the uploads, the files, the messages    *)

\* The faults of a behaviour are chosen once.
LEMMA FaultsStay ==
  ASSUME [Next]_vars
  PROVE  faults' = faults
BY DEF Next, vars, Uploading, Ingest, NewDuration, Kick, Trigger, Listen, Upgrade,
   DedupExpires, MissExpires, Probe, MarkProbed, PublishHit, PostFindsFile, PostAccepted,
   TriggerFails, PublishUploaded, RejectUpload, Handle, Handler, MarkTooLong, ReadRow,
   BanLong, MarkStored, PublishIndex, SwallowRejection, TakeRejection, Strike, NoteStrike, Embed,
   UpsertVectors, MarkIndexed, Nak, LoseEvent, Reap, ReapOf, Restart

\* A message just sent: a mark of a row that is there, or news of a file, with
\* the quality of an upload that is stored or without one.
Fresh(f) ==
  /\ f \in Event /\ f.step = "queued"
  /\ f.kind = "long" => rows[f.track].storage' # "absent"
  /\ f.kind = "uploaded" =>
       \/ f.quality = "none"
       \/ \E u \in uploads : PublishUploaded(u) /\ u.track = f.track /\ u.quality = f.quality

\* A message that has gone on, from e to f.
GoneOn(e, f) ==
  \/ f = At(e, "queued")
  \/ /\ f \in {At(e, "ban"), At(e, "mark_index"), At(e, "mark_only")}
     /\ e.kind = "uploaded" /\ Present(e.track)
  \/ f = At(e, "publish") /\ e.step = "mark_index"
  \/ f = At(e, "upserted") /\ e.kind = "done" /\ e.track \in vectors'
  \/ f = At(e, "strike") /\ e.kind = "rejected"
  \/ f = At(e, "struck") /\ e.step = "strike"

LEMMA HandleMoves ==
  ASSUME IndexTypeOK, NEW e \in events, Handle(e) \/ Nak(e) \/ LoseEvent(e),
         NEW f \in events'
  PROVE  f \in events \/ Fresh(f) \/ GoneOn(e, f)
<1>0. e \in Event /\ e.track \in Tracks
  BY DEF IndexTypeOK, Event
<1>1. CASE events' = events \ {e}
  BY <1>1
<1>2. ASSUME NEW step \in EventSteps, Goes(e, step) PROVE f \in events \/ f = At(e, step)
  BY <1>0, <1>2, GoesIs
<1>3. CASE Acked(e)
  BY <1>0, <1>3, AckedIs DEF GoneOn
<1>4. CASE MarkTooLong(e) \/ LoseEvent(e)
  BY <1>1, <1>4 DEF MarkTooLong, LoseEvent
<1>5. CASE ReadRow(e)
  <2>1. CASE rows[e.track].storage = "absent"
    BY <1>1, <1>5, <2>1 DEF ReadRow
  <2>2. CASE rows[e.track].storage # "absent"
    <3>1. PICK step \in {"ban", "mark_index", "mark_only"} : Goes(e, step)
      BY <1>5, <2>2 DEF ReadRow
    <3>2. f \in events \/ f = At(e, step)
      BY <1>2, <3>1 DEF EventSteps
    <3>3. QED BY <1>5, <2>2, <3>2 DEF ReadRow, GoneOn, Present
  <2>3. QED BY <2>1, <2>2
<1>6. CASE BanLong(e) \/ SwallowRejection(e) \/ NoteStrike(e) \/ MarkIndexed(e)
  BY <1>3, <1>6 DEF BanLong, SwallowRejection, NoteStrike, MarkIndexed
<1>7. CASE MarkStored(e)
  <2>1. CASE e.step = "mark_index"
    BY <1>2, <1>7, <2>1 DEF MarkStored, GoneOn, EventSteps
  <2>2. CASE e.step # "mark_index"
    BY <1>3, <1>7, <2>2 DEF MarkStored
  <2>3. QED BY <2>1, <2>2
<1>8. CASE PublishIndex(e)
  BY <1>0, <1>8, PublishIs DEF Fresh, GoneOn
<1>9. CASE TakeRejection(e) \/ Strike(e)
  BY <1>2, <1>9 DEF TakeRejection, Strike, GoneOn, EventSteps
<1>10. CASE Embed(e)
  BY <1>0, <1>10, EmbedIs DEF Fresh
<1>11. CASE UpsertVectors(e)
  BY <1>2, <1>11 DEF UpsertVectors, GoneOn, EventSteps
<1>12. CASE Nak(e)
  BY <1>2, <1>12 DEF Nak, GoneOn, EventSteps
<1>13. QED
  BY <1>4, <1>5, <1>6, <1>7, <1>8, <1>9, <1>10, <1>11, <1>12 DEF Handle

\* Whatever the step: a message is an old one, a fresh one, or an old one that
\* has gone on.
LEMMA EventMoves ==
  ASSUME IndexTypeOK, [Next]_vars, NEW f \in events'
  PROVE  f \in events \/ Fresh(f) \/ \E e \in events : GoneOn(e, f)
<1>0. /\ "none" \in Copy /\ "long" \in Kinds /\ "uploaded" \in Kinds /\ "rejected" \in Kinds
      /\ \A t \in Tracks : rows[t] \in Row
      /\ rows \in [Tracks -> Row]
  BY DEF Copy, Kinds, IndexTypeOK
<1>1. CASE UNCHANGED vars
  BY <1>1 DEF vars
<1>2. CASE Uploading
  BY <1>2 DEF Uploading
<1>3. ASSUME NEW t \in Tracks, Ingest(t) PROVE f \in events \/ Fresh(f)
  <2>1. PICK l \in BOOLEAN :
          /\ rows' = [rows EXCEPT ![t] = [Absent EXCEPT !.storage = "pending", !.long = l]]
          /\ Send(t, "long", "none") \/ UNCHANGED events
    BY <1>3 DEF Ingest
  <2>2. rows'[t].storage = "pending"
    BY <1>0, <2>1, NewRow
  <2>3. QED BY <1>0, <2>1, <2>2, SendIs DEF Fresh
<1>4. ASSUME NEW t \in Tracks, NewDuration(t) PROVE f \in events \/ Fresh(f)
  <2>1. PICK changed \in BOOLEAN, l \in BOOLEAN :
          /\ rows' = [rows EXCEPT ![t] = Measured(rows[t], changed, l)]
          /\ Send(t, "long", "none") \/ UNCHANGED events
    BY <1>4 DEF NewDuration
  <2>2. rows[t].storage # "absent"
    BY <1>4 DEF NewDuration, Present
  <2>3. rows'[t].storage # "absent"
    BY <1>0, <2>1, <2>2, MeasuredRow
  <2>4. QED BY <1>0, <2>1, <2>3, SendIs DEF Fresh
<1>5. ASSUME NEW t \in Tracks,
             Kick(t) \/ Listen(t) \/ Upgrade(t) \/ DedupExpires(t) \/ MissExpires(t)
      PROVE  f \in events
  BY <1>5 DEF Kick, Listen, Upgrade, DedupExpires, MissExpires
<1>6. ASSUME NEW t \in Tracks, Trigger(t) PROVE f \in events \/ Fresh(f)
  <2>1. CASE PublishHit(t)
    BY <1>0, <2>1, SendIs DEF PublishHit, Fresh
  <2>2. CASE ~PublishHit(t)
    BY <1>6, <2>2 DEF Trigger, Probe, MarkProbed, PostFindsFile, PostAccepted, TriggerFails
  <2>3. QED BY <2>1, <2>2
<1>7. ASSUME NEW u \in uploads, PublishUploaded(u) PROVE f \in events \/ Fresh(f)
  <2>1. u.track \in Tracks /\ u.quality \in Copy
    BY DEF IndexTypeOK, UploadsTypeOK, Upload, Copy
  <2>2. QED BY <1>0, <1>7, <2>1, SendIs DEF PublishUploaded, Fresh
<1>8. ASSUME NEW u \in uploads, RejectUpload(u) PROVE f \in events \/ Fresh(f)
  <2>1. u.track \in Tracks
    BY DEF IndexTypeOK, UploadsTypeOK, Upload
  <2>2. QED BY <1>0, <1>8, <2>1, SendIs DEF RejectUpload, Fresh
<1>9. CASE Reap
  BY <1>9 DEF Reap, ReapOf
<1>10. CASE Restart
  BY <1>10, RestartIs DEF GoneOn, IndexTypeOK
<1>11. QED
  BY <1>1, <1>2, <1>3, <1>4, <1>5, <1>6, <1>7, <1>8, <1>9, <1>10, HandleMoves DEF Next

----------------------------------------------------------------------------
(* What one step does to a row                                             *)

\* A row that is not in the table has no marks; the marks of an event follow
\* its kind; a mark goes to a row that is there, and DONE_INDEX_AUDIO's after
\* the vectors.
MarksFollow ==
  /\ \A t \in Tracks :
       rows[t].storage = "absent" => rows[t].index = "pending" /\ rows[t].quality = "none"
  /\ \A e \in events :
       /\ e.step \in {"mark_index", "mark_only", "ban", "publish"} => e.kind = "uploaded"
       /\ e.step \in {"strike", "struck"} => e.kind = "rejected"
       /\ e.step = "upserted" => e.track \in vectors
       /\ e.kind = "long" \/ e.step = "ban" => Present(e.track)

\* The ways in which a row a becomes b.
Same(a, b) ==
  /\ b.storage = a.storage /\ b.attempts = a.attempts
  /\ b.index = a.index /\ b.quality = a.quality
Added(a, b) ==
  /\ a.storage = "absent" /\ b.storage = "pending" /\ b.attempts = 0
  /\ b.index = a.index
Stored(a, b) ==
  /\ a.storage \notin {"absent", "too_long"} /\ b.storage = "ok"
  /\ b.attempts \in {0, a.attempts} /\ b.index = a.index
Lost(a, b) ==
  /\ a.storage \in {"ok", "failed"} /\ b.storage = "missing"
  /\ b.attempts = a.attempts /\ b.index = a.index
Retried(a, b) ==
  /\ a.storage = "failed" /\ b.storage = "pending" /\ b.attempts = 0 /\ b.index = a.index
Struck(a, b) ==
  /\ a.storage \in {"pending", "missing"} /\ b.index = a.index
  /\ IF a.attempts + 1 >= MaxStrikes
     THEN b.storage = "failed" /\ b.attempts = MaxStrikes
     ELSE b.storage = a.storage /\ b.attempts = a.attempts + 1
Banned(a, b) ==
  /\ a.storage # "absent" /\ b.storage = "too_long" /\ b.index = "too_long"
  /\ b.attempts = a.attempts
Marked(a, b, t) ==
  /\ a.storage # "absent" /\ t \in vectors
  /\ b.storage = a.storage /\ b.attempts = a.attempts /\ b.index = "indexed"
RowMove(a, b, t) ==
  \/ Same(a, b) \/ Added(a, b) \/ Stored(a, b) \/ Lost(a, b) \/ Retried(a, b)
  \/ Struck(a, b) \/ Banned(a, b) \/ Marked(a, b, t)

\* The table, written at t.
Writes(t) ==
  \E r \in Row : rows' = [rows EXCEPT ![t] = r] /\ RowMove(rows[t], r, t)

\* Every step leaves the table alone or writes one row in one of these ways, and
\* a step that writes a row leaves the vectors alone.
LEMMA RowMoves ==
  ASSUME IndexTypeOK, MarksFollow, [Next]_vars
  PROVE  UNCHANGED rows \/ (UNCHANGED vectors /\ \E t \in Tracks : Writes(t))
<1>0. \A t \in Tracks : rows[t] \in Row
  BY DEF IndexTypeOK
<1>1. ASSUME NEW t \in Tracks, Ingest(t) PROVE UNCHANGED vectors /\ Writes(t)
  <2>1. PICK l \in BOOLEAN :
          rows' = [rows EXCEPT ![t] = [Absent EXCEPT !.storage = "pending", !.long = l]]
    BY <1>1 DEF Ingest
  <2>2. rows[t].storage = "absent" /\ rows[t].index = "pending" /\ UNCHANGED vectors
    BY <1>1 DEF Ingest, Present, MarksFollow
  <2> DEFINE r == [Absent EXCEPT !.storage = "pending", !.long = l]
  <2>3. /\ r \in Row /\ r.storage = "pending" /\ r.index = "pending" /\ r.attempts = 0
        /\ rows' = [rows EXCEPT ![t] = r]
    BY <2>1, NewRow
  <2> HIDE DEF r
  <2>4. QED BY <2>2, <2>3 DEF Writes, RowMove, Added
<1>2. ASSUME NEW t \in Tracks, NewDuration(t) PROVE UNCHANGED vectors /\ Writes(t)
  <2>1. PICK changed \in BOOLEAN, l \in BOOLEAN :
          rows' = [rows EXCEPT ![t] = Measured(rows[t], changed, l)]
    BY <1>2 DEF NewDuration
  <2> DEFINE r == Measured(rows[t], changed, l)
  <2>2. r \in Row /\ (Same(rows[t], r) \/ Retried(rows[t], r))
    BY <1>0, MeasuredRow DEF Same, Retried
  <2>3. QED BY <1>2, <2>1, <2>2 DEF Writes, RowMove, NewDuration
<1>3. ASSUME NEW t \in Tracks, MarkProbed(t)
      PROVE  UNCHANGED rows \/ (UNCHANGED vectors /\ Writes(t))
  <2>1. /\ VerifiedOk(rows[t]) \in Row /\ VerifiedMissing(rows[t]) \in Row
        /\ Same(rows[t], VerifiedOk(rows[t])) \/ Stored(rows[t], VerifiedOk(rows[t]))
    BY <1>0, MarkedRow DEF Same, Stored
  <2>2. Same(rows[t], VerifiedMissing(rows[t])) \/ Lost(rows[t], VerifiedMissing(rows[t]))
    BY <1>0, MarkedRow DEF Same, Lost, Row
  <2>3. QED BY <1>3, <2>1, <2>2 DEF Writes, RowMove, MarkProbed
<1>4. ASSUME NEW t \in Tracks, MissExpires(t) PROVE UNCHANGED vectors /\ Writes(t)
  <2>1. [rows[t] EXCEPT !.s3 = "stale"] \in Row /\ Same(rows[t], [rows[t] EXCEPT !.s3 = "stale"])
    BY <1>0, StaleRow DEF Same
  <2>2. rows' = [rows EXCEPT ![t] = [rows[t] EXCEPT !.s3 = "stale"]]
    BY <1>4 DEF MissExpires
  <2>3. QED BY <1>4, <2>1, <2>2 DEF Writes, RowMove, MissExpires
<1>5. ASSUME NEW e \in events, MarkTooLong(e) \/ BanLong(e)
      PROVE  UNCHANGED rows \/ (UNCHANGED vectors /\ Writes(e.track))
  <2>1. rows[e.track].storage # "absent" /\ e.track \in Tracks
    BY <1>5 DEF MarkTooLong, BanLong, MarksFollow, Present, IndexTypeOK, Event
  <2>2. TooLong(rows[e.track]) \in Row /\ Banned(rows[e.track], TooLong(rows[e.track]))
    BY <1>0, <2>1, TooLongRow DEF Banned
  <2>3. QED BY <1>5, <2>2 DEF Writes, RowMove, MarkTooLong, BanLong
<1>6. ASSUME NEW e \in events, MarkStored(e) PROVE UNCHANGED vectors /\ Writes(e.track)
  <2>1. e.track \in Tracks /\ e.quality \in Copy /\ rows[e.track] \in Row
    BY <1>0 DEF IndexTypeOK, Event
  <2> DEFINE r == StorageDone(rows[e.track], e.quality)
  <2>2. r \in Row /\ (Same(rows[e.track], r) \/ Stored(rows[e.track], r))
    BY <2>1, DoneRow DEF Same, Stored
  <2>3. QED BY <1>6, <2>2 DEF Writes, RowMove, MarkStored
<1>7. ASSUME NEW e \in events, Strike(e) PROVE UNCHANGED vectors /\ Writes(e.track)
  <2>1. e.track \in Tracks /\ rows[e.track] \in Row
    BY <1>0 DEF IndexTypeOK, Event
  <2> DEFINE r == StorageRejected(rows[e.track])
  <2>2. r \in Row /\ (Same(rows[e.track], r) \/ Struck(rows[e.track], r))
    BY <2>1, RejectedRow DEF Same, Struck
  <2>3. QED BY <1>7, <2>2 DEF Writes, RowMove, Strike
<1>8. ASSUME NEW e \in events, MarkIndexed(e) PROVE UNCHANGED vectors /\ Writes(e.track)
  <2>1. e.track \in Tracks /\ rows[e.track] \in Row /\ e.track \in vectors
    BY <1>0, <1>8 DEF IndexTypeOK, Event, MarkIndexed, MarksFollow
  <2> DEFINE r == Indexed(rows[e.track])
  <2>2. r \in Row /\ (Same(rows[e.track], r) \/ Marked(rows[e.track], r, e.track))
    BY <2>1, MarkedRow DEF Same, Marked
  <2>3. QED BY <1>8, <2>2 DEF Writes, RowMove, MarkIndexed
<1>9. CASE /\ \A t \in Tracks : ~Ingest(t) /\ ~NewDuration(t) /\ ~MarkProbed(t) /\ ~MissExpires(t)
           /\ \A e \in events : /\ ~MarkTooLong(e) /\ ~BanLong(e) /\ ~MarkStored(e)
                               /\ ~Strike(e) /\ ~MarkIndexed(e)
  BY <1>9 DEF Next, vars, Uploading, Kick, Trigger, Listen, Upgrade, DedupExpires, Probe,
     PublishHit, PostFindsFile, PostAccepted, TriggerFails, PublishUploaded, RejectUpload,
     Handle, ReadRow, PublishIndex, SwallowRejection, TakeRejection,
     NoteStrike, Embed, UpsertVectors, Nak, LoseEvent,
     Reap, ReapOf, Restart
<1>10. \A e \in events : e.track \in Tracks
  BY DEF IndexTypeOK, Event
<1>11. QED
  BY <1>1, <1>2, <1>3, <1>4, <1>5, <1>6, <1>7, <1>8, <1>9, <1>10

\* A row that is in the table stays, and vectors are never taken out.
LEMMA RowsStay ==
  ASSUME IndexTypeOK, MarksFollow, [Next]_vars
  PROVE  /\ \A t \in Tracks : rows[t].storage # "absent" => rows'[t].storage # "absent"
         /\ vectors \subseteq vectors'
<1>1. \A t \in Tracks : rows[t].storage # "absent" => rows'[t].storage # "absent"
  BY RowMoves DEF IndexTypeOK, Writes, RowMove, Same, Added, Stored, Lost, Retried, Struck,
     Banned, Marked
<1>2. ASSUME NEW e \in events, Handle(e) \/ Nak(e) \/ LoseEvent(e)
      PROVE  vectors \subseteq vectors'
  BY <1>2 DEF Handle, MarkTooLong, ReadRow, BanLong, MarkStored, PublishIndex,
     SwallowRejection, TakeRejection, Strike, NoteStrike, Embed, UpsertVectors, MarkIndexed, Nak, LoseEvent
<1>3. CASE ~\E e \in events : Handle(e) \/ Nak(e) \/ LoseEvent(e)
  <2>1. UNCHANGED vectors
    BY <1>3 DEF Next, vars, Uploading, Ingest, NewDuration, Kick, Trigger, Listen, Upgrade,
       DedupExpires, MissExpires, Probe, MarkProbed, PublishHit, PostFindsFile, PostAccepted,
       TriggerFails, PublishUploaded, RejectUpload, Reap, ReapOf, Restart
  <2>2. QED BY <1>1, <2>1
<1>4. QED BY <1>1, <1>2, <1>3

LEMMA MarksFollowNext ==
  ASSUME IndexTypeOK, MarksFollow, [Next]_vars
  PROVE  MarksFollow'
<1>1. ASSUME NEW t \in Tracks, rows'[t].storage = "absent"
      PROVE  rows'[t].index = "pending" /\ rows'[t].quality = "none"
  <2>1. CASE UNCHANGED rows
    BY <1>1, <2>1 DEF MarksFollow
  <2>2. ASSUME NEW s \in Tracks, Writes(s)
        PROVE  rows'[t].index = "pending" /\ rows'[t].quality = "none"
    <3>1. PICK r \in Row : rows' = [rows EXCEPT ![s] = r] /\ RowMove(rows[s], r, s)
      BY <2>2 DEF Writes
    <3>2. rows \in [Tracks -> Row]
      BY DEF IndexTypeOK
    <3>3. CASE s # t
      BY <1>1, <3>1, <3>2, <3>3 DEF MarksFollow
    <3>4. CASE s = t
      <4>1. r.storage = "absent" /\ rows'[t] = r
        BY <1>1, <3>1, <3>2, <3>4
      <4>2. Same(rows[t], r)
        BY <3>1, <3>4, <4>1 DEF RowMove, Added, Stored, Lost, Retried, Struck, Banned, Marked
      <4>3. QED BY <4>1, <4>2 DEF Same, MarksFollow
    <3>5. QED BY <3>3, <3>4
  <2>3. QED BY <2>1, <2>2, RowMoves
<1>2. /\ \A t \in Tracks : rows[t].storage # "absent" => rows'[t].storage # "absent"
      /\ vectors \subseteq vectors'
  BY RowsStay
<1>3. ASSUME NEW f \in events'
      PROVE  /\ f.step \in {"mark_index", "mark_only", "ban", "publish"} => f.kind = "uploaded"
             /\ f.step \in {"strike", "struck"} => f.kind = "rejected"
             /\ f.step = "upserted" => f.track \in vectors'
             /\ f.kind = "long" \/ f.step = "ban" => rows'[f.track].storage # "absent"
  <2>1. CASE f \in events
    <3>1. f.track \in Tracks
      BY <2>1 DEF IndexTypeOK, Event
    <3>2. QED BY <1>2, <2>1, <3>1 DEF MarksFollow, Present
  <2>2. CASE Fresh(f)
    BY <2>2 DEF Fresh
  <2>3. ASSUME NEW e \in events, GoneOn(e, f)
        PROVE  /\ f.step \in {"mark_index", "mark_only", "ban", "publish"} => f.kind = "uploaded"
               /\ f.step \in {"strike", "struck"} => f.kind = "rejected"
               /\ f.step = "upserted" => f.track \in vectors'
               /\ f.kind = "long" \/ f.step = "ban" => rows'[f.track].storage # "absent"
    <3>1. e \in Event /\ e.track \in Tracks
      BY DEF IndexTypeOK, Event
    <3>2. e.kind = "long" => rows'[e.track].storage # "absent"
      BY <1>2, <3>1 DEF MarksFollow, Present
    <3>3. CASE f = At(e, "queued")
      BY <3>1, <3>2, <3>3, EventAt DEF EventSteps
    <3>4. ASSUME NEW step \in {"ban", "mark_index", "mark_only"}, f = At(e, step),
                 e.kind = "uploaded", Present(e.track)
          PROVE  /\ f.kind = "uploaded" /\ f.step \notin {"strike", "struck", "upserted"}
                 /\ rows'[f.track].storage # "absent"
      BY <1>2, <3>1, <3>4, EventAt DEF EventSteps, Present
    <3>5. CASE f = At(e, "publish") /\ e.step = "mark_index"
      BY <3>1, <3>2, <3>5, EventAt DEF EventSteps, MarksFollow
    <3>6. CASE f = At(e, "upserted") /\ e.kind = "done" /\ e.track \in vectors'
      BY <3>1, <3>6, EventAt DEF EventSteps
    <3>7. CASE f = At(e, "strike") /\ e.kind = "rejected"
      BY <3>1, <3>7, EventAt DEF EventSteps
    <3>8. CASE f = At(e, "struck") /\ e.step = "strike"
      BY <3>1, <3>2, <3>8, EventAt DEF EventSteps, MarksFollow
    <3>9. QED BY <2>3, <3>3, <3>4, <3>5, <3>6, <3>7, <3>8 DEF GoneOn
  <2>4. QED BY <2>1, <2>2, <2>3, EventMoves
<1>4. QED BY <1>1, <1>3 DEF MarksFollow, Present

\* The types and the marks together: what the other proofs start from.
TypesAndMarks == IndexTypeOK /\ MarksFollow

LEMMA MarksHold == Spec => []TypesAndMarks
<1>1. Init => MarksFollow
  BY DEF Init, MarksFollow, Absent
<1>2. IndexTypeOK /\ MarksFollow /\ [Next]_vars => MarksFollow'
  BY MarksFollowNext
<1>3. QED BY <1>1, <1>2, IndexTypeCorrect, PTL DEF Spec, TypesAndMarks

----------------------------------------------------------------------------
(* The pipeline is an implementation of TrackLife                          *)

\* Each way of writing a row is a step of the track's life.
LEMMA WriteIsLife ==
  ASSUME rows \in [Tracks -> Row], NEW t \in Tracks, Writes(t), UNCHANGED vectors
  PROVE  [Life!LifeNext]_(Life!lifeVars)
<1>1. PICK r \in Row : rows' = [rows EXCEPT ![t] = r] /\ RowMove(rows[t], r, t)
  BY DEF Writes
<1>2. rows[t] \in Row /\ rows'[t] = r /\ \A s \in Tracks : s # t => rows'[s] = rows[s]
  BY <1>1
<1> DEFINE a == rows[t]
           st == [s \in Tracks |-> Stage(rows[s])]
           stn == [s \in Tracks |-> Stage(rows'[s])]
           kn == [s \in Tracks |-> rows[s].attempts]
           knn == [s \in Tracks |-> rows'[s].attempts]
           ix == {s \in Tracks : rows[s].index = "indexed"}
           ixn == {s \in Tracks : rows'[s].index = "indexed"}
<1>3. stn = [st EXCEPT ![t] = Stage(r)] /\ knn = [kn EXCEPT ![t] = r.attempts]
  BY <1>2
<1>4. st[t] = Stage(a) /\ kn[t] = a.attempts
  OBVIOUS
<1>5. /\ r.index = a.index => ixn = ix
      /\ r.index = "indexed" => ixn = ix \cup {t}
      /\ r.index # "indexed" => ixn = ix \ {t}
  BY <1>2
<1>6. /\ st' = stn /\ kn' = knn /\ ix' = ixn
  OBVIOUS
<1>7. CASE Same(a, r)
  <2>1. Stage(r) = Stage(a)
    BY <1>7 DEF Same, Stage
  <2>2. stn = st /\ knn = kn /\ ixn = ix
    BY <1>2, <1>3, <1>5, <1>7, <2>1 DEF Same
  <2>3. QED BY <2>2 DEF Life!lifeVars
<1>8. CASE Added(a, r)
  <2>1. Stage(a) = "absent" /\ Stage(r) = "wanted"
    BY <1>8 DEF Added, Stage
  <2>2. Life!Add(t)
    BY <1>3, <1>4, <1>8, <2>1 DEF Added, Life!Add, Life!To
  <2>3. ixn = ix
    BY <1>5, <1>8 DEF Added
  <2>4. QED BY <2>2, <2>3 DEF Life!LifeNext
<1>9. CASE Stored(a, r)
  <2>1. Stage(a) \in {"wanted", "stored", "refused"} /\ Stage(r) = "stored"
    BY <1>2, <1>9 DEF Stored, Stage, Row
  <2>2. Life!Store(t)
    BY <1>3, <1>4, <1>9, <2>1 DEF Stored, Life!Store, Life!To
  <2>3. ixn = ix
    BY <1>5, <1>9 DEF Stored
  <2>4. QED BY <2>2, <2>3 DEF Life!LifeNext
<1>10. CASE Lost(a, r)
  <2>1. Stage(a) \in {"stored", "refused"} /\ Stage(r) = "wanted"
    BY <1>10 DEF Lost, Stage
  <2>2. Life!Lose(t)
    BY <1>3, <1>4, <1>10, <2>1 DEF Lost, Life!Lose, Life!To
  <2>3. ixn = ix
    BY <1>5, <1>10 DEF Lost
  <2>4. QED BY <2>2, <2>3 DEF Life!LifeNext
<1>11. CASE Retried(a, r)
  <2>1. Stage(a) = "refused" /\ Stage(r) = "wanted"
    BY <1>11 DEF Retried, Stage
  <2>2. Life!Retry(t)
    BY <1>3, <1>4, <1>11, <2>1 DEF Retried, Life!Retry, Life!To
  <2>3. ixn = ix
    BY <1>5, <1>11 DEF Retried
  <2>4. QED BY <2>2, <2>3 DEF Life!LifeNext
<1>12. CASE Struck(a, r)
  <2>1. Stage(a) = "wanted"
    BY <1>12 DEF Struck, Stage
  <2>2. Stage(r) = IF a.attempts + 1 >= MaxStrikes THEN "refused" ELSE "wanted"
    BY <1>12 DEF Struck, Stage
  <2>3. Life!Strike(t)
    BY <1>3, <1>4, <1>12, <2>1, <2>2 DEF Struck, Life!Strike, Life!To
  <2>4. ixn = ix
    BY <1>5, <1>12 DEF Struck
  <2>5. QED BY <2>3, <2>4 DEF Life!LifeNext
<1>13. CASE Banned(a, r)
  <2>1. Stage(a) # "absent" /\ Stage(r) = "banned"
    BY <1>2, <1>13 DEF Banned, Stage, Row
  <2>2. Life!Ban(t)
    BY <1>3, <1>4, <1>13, <2>1 DEF Banned, Life!Ban, Life!To
  <2>3. ixn = ix \ {t}
    BY <1>5, <1>13 DEF Banned
  <2>4. QED BY <2>2, <2>3 DEF Life!LifeNext, Life!Unindex
<1>14. CASE Marked(a, r, t)
  <2>1. Stage(r) = Stage(a) /\ Stage(a) # "absent"
    BY <1>2, <1>14 DEF Marked, Stage, Row
  <2>2. stn = st /\ knn = kn /\ ixn = ix \cup {t}
    BY <1>2, <1>5, <1>14, <2>1 DEF Marked
  <2>3. QED BY <1>4, <1>14, <2>1, <2>2 DEF Marked, Life!LifeNext, Life!Index
<1>15. QED
  BY <1>1, <1>7, <1>8, <1>9, <1>10, <1>11, <1>12, <1>13, <1>14 DEF RowMove

\* A step that leaves the table alone makes vectors, or is none of its life.
LEMMA RestIsLife ==
  ASSUME IndexTypeOK, [Next]_vars, UNCHANGED rows
  PROVE  [Life!LifeNext]_(Life!lifeVars)
<1>1. ASSUME NEW e \in events, UpsertVectors(e) PROVE Life!LifeNext
  <2>1. e.track \in Tracks /\ vectors' = vectors \cup {e.track}
    BY <1>1 DEF UpsertVectors, IndexTypeOK, Event
  <2>2. Life!Embed(e.track)
    BY <2>1 DEF Life!Embed
  <2>3. QED BY <2>1, <2>2 DEF Life!LifeNext
<1>2. CASE ~\E e \in events : UpsertVectors(e)
  <2>1. ASSUME NEW e \in events, Handle(e) \/ Nak(e) \/ LoseEvent(e)
        PROVE  UNCHANGED vectors
    BY <1>2, <2>1 DEF Handle, MarkTooLong, ReadRow, BanLong, MarkStored, PublishIndex,
       SwallowRejection, TakeRejection, Strike, NoteStrike, Embed, MarkIndexed, Nak, LoseEvent
  <2>2. ASSUME ~\E e \in events : Handle(e) \/ Nak(e) \/ LoseEvent(e)
        PROVE  UNCHANGED vectors
    BY <2>2 DEF Next, vars, Uploading, Ingest, NewDuration, Kick, Trigger, Listen, Upgrade,
       DedupExpires, MissExpires, Probe, MarkProbed, PublishHit, PostFindsFile, PostAccepted,
       TriggerFails, PublishUploaded, RejectUpload, Reap, ReapOf, Restart
  <2>3. QED BY <2>1, <2>2 DEF Life!lifeVars
<1>3. QED BY <1>1, <1>2

\* The pipeline keeps TrackLife's promises: its steps are steps of a track's life
\* or leave it alone, for any number of tracks, strikes and messages, under any
\* faults.
THEOREM IndexingImplementsTrackLife == Spec => ImplementsTrackLife
<1>1. Init => Life!LifeInit
  BY DEF Init, Absent, Stage, Life!LifeInit
<1>2. TypesAndMarks /\ [Next]_vars => [Life!LifeNext]_(Life!lifeVars)
  BY RowMoves, WriteIsLife, RestIsLife DEF TypesAndMarks, IndexTypeOK
<1>3. QED BY <1>1, <1>2, MarksHold, PTL DEF Spec, ImplementsTrackLife, Life!LifeSpec

----------------------------------------------------------------------------
(* What TrackLife promises, and so the pipeline keeps                      *)

\* Each row tells the truth of its vectors and of its strikes.
RowsKept ==
  \A t \in Tracks :
    /\ rows[t].index = "indexed" => t \in vectors
    /\ rows[t].storage = "failed" => rows[t].attempts = MaxStrikes

LEMMA RowsKeptNext ==
  ASSUME TypesAndMarks, RowsKept, [Next]_vars
  PROVE  RowsKept'
<1>1. IndexTypeOK /\ MarksFollow /\ vectors \subseteq vectors' /\ rows \in [Tracks -> Row]
  BY RowsStay DEF TypesAndMarks, IndexTypeOK
<1>2. CASE UNCHANGED rows
  BY <1>1, <1>2 DEF RowsKept
<1>3. ASSUME NEW t \in Tracks, Writes(t) PROVE RowsKept'
  <2>1. PICK r \in Row : rows' = [rows EXCEPT ![t] = r] /\ RowMove(rows[t], r, t)
    BY <1>3 DEF Writes
  <2>2. r.index = "indexed" => t \in vectors
    BY <2>1 DEF RowMove, Same, Added, Stored, Lost, Retried, Struck, Banned, Marked, RowsKept
  <2>3. r.storage = "failed" => r.attempts = MaxStrikes
    BY <2>1 DEF RowMove, Same, Added, Stored, Lost, Retried, Struck, Banned, Marked, RowsKept
  <2>4. QED BY <1>1, <2>1, <2>2, <2>3 DEF RowsKept
<1>4. QED BY <1>1, <1>2, <1>3, RowMoves

\* A track marked as indexed has its vectors (DONE_INDEX_AUDIO writes them before
\* the mark), and a track refused by the worker has had all its strikes: what
\* TrackLife says of a track, of the rows of the pipeline.
THEOREM IndexedAndRefused == Spec => [](Life!IndexedHasVectors /\ Life!RefusedIsStruck)
<1>1. Init => RowsKept
  BY DEF Init, RowsKept, Absent
<1>2. TypesAndMarks /\ RowsKept /\ [Next]_vars => RowsKept'
  BY RowsKeptNext
<1>3. RowsKept => Life!IndexedHasVectors
  BY DEF RowsKept, Life!IndexedHasVectors
<1>4. TypesAndMarks /\ RowsKept => Life!RefusedIsStruck
  <2> SUFFICES ASSUME TypesAndMarks, RowsKept, NEW t \in Tracks, Stage(rows[t]) = "refused"
               PROVE  rows[t].attempts = MaxStrikes
    BY DEF Life!RefusedIsStruck
  <2>1. rows[t].storage = "failed"
    BY DEF Stage
  <2>2. QED BY <2>1 DEF RowsKept
<1>5. QED BY <1>1, <1>2, <1>3, <1>4, MarksHold, PTL DEF Spec

\* Once a track is too long (mark_too_long), no upload, reap or retry brings it back.
THEOREM BansLast == Spec => Life!BannedForGood
<1>1. TypesAndMarks /\ [Next]_vars => [Life!StaysBanned]_(Life!lifeVars)
  <2> SUFFICES ASSUME TypesAndMarks, [Next]_vars, NEW t \in Tracks, Stage(rows[t]) = "banned"
               PROVE  Stage(rows'[t]) = "banned"
    BY DEF Life!StaysBanned
  <2>1. rows \in [Tracks -> Row] /\ IndexTypeOK /\ MarksFollow
    BY DEF TypesAndMarks, IndexTypeOK
  <2>2. rows[t].storage = "too_long"
    BY DEF Stage
  <2>3. ASSUME NEW u \in Tracks, Writes(u) PROVE rows'[t].storage = "too_long"
    <3>1. PICK r \in Row : rows' = [rows EXCEPT ![u] = r] /\ RowMove(rows[u], r, u)
      BY <2>3 DEF Writes
    <3>2. u = t => r.storage = "too_long"
      BY <2>2, <3>1 DEF RowMove, Same, Added, Stored, Lost, Retried, Struck, Banned, Marked
    <3>3. QED BY <2>1, <2>2, <3>1, <3>2
  <2>4. rows'[t].storage = "too_long"
    BY <2>1, <2>2, <2>3, RowMoves
  <2>5. QED BY <2>4 DEF Stage
<1>2. QED BY <1>1, MarksHold, PTL DEF Spec, Life!BannedForGood

----------------------------------------------------------------------------
(* One upload of a track at a time, and its record                         *)

\* Outside of "overlap", uploads of a track come one after the other.
OneUpload == "overlap" \notin faults => \A u, v \in uploads : u.track = v.track => u = v

\* An upload that has begun: it is fetched for a kick or a listener, or deleted.
Begun(v) ==
  /\ v \in Upload
  /\ "overlap" \in faults \/ UploadsOf(v.track) = {}
  /\ \/ /\ v.step \in {"fetch", "insert"} /\ InOrder(v.track) /\ UNCHANGED <<file, cdn, events>>
        /\ v.step = "insert" =>
             /\ v.source \in {"play", "upgrade"}
             /\ "again" \in faults \/ cdn[v.track].status = "none"
     \/ v.step = "deleted" /\ DeleteFile(v.track)

\* An upload that has gone on, from u to v.
MovedOn(u, v) ==
  \/ Fetched(u) /\ v = At(u, "sending")
  \/ InsertRecord(u) /\ v = At(u, "sending")
  \/ Commit(u) /\ v = At(u, "stored")
  \/ PublishUploaded(u) /\ v = At(u, "accepted") /\ u.source # "kick"
  \/ /\ u.step = "sending" \/ (u.step = "stored" /\ "lost" \in faults)
     /\ v = At(u, "refused") /\ u.source # "kick"

\* Whatever the step: either one upload begins and the others stay, or they all
\* stay but one, u, which ends or goes on.
Begins == \E v \in Upload : Begun(v) /\ uploads' = uploads \cup {v}
Over(u) == KickFinds(u) \/ UploadDies(u) \/ RecordAccepted(u) \/ RecordRefused(u)
           \/ DeleteRecord(u)
KickAnswered(u) ==
  /\ u.source = "kick"
  /\ PublishUploaded(u) \/ u.step = "sending" \/ (u.step = "stored" /\ "lost" \in faults)
Leaves(u) ==
  \/ (Over(u) \/ KickAnswered(u)) /\ uploads' = uploads \ {u}
  \/ \E v \in Upload : MovedOn(u, v) /\ uploads' = (uploads \ {u}) \cup {v}

LEMMA AnsweredIs ==
  ASSUME UploadsTypeOK, NEW u \in uploads, NEW step \in Steps, Answered(u, step)
  PROVE  \/ u.source = "kick" /\ uploads' = uploads \ {u}
         \/ /\ u.source # "kick" /\ At(u, step) \in Upload
            /\ uploads' = (uploads \ {u}) \cup {At(u, step)}
BY UploadAt DEF Answered, Move, At, UploadsTypeOK

LEMMA UploadMoves ==
  ASSUME IndexTypeOK, [Next]_vars
  PROVE  UNCHANGED uploads \/ Begins \/ \E u \in uploads : Leaves(u)
<1>0. UploadsTypeOK /\ \A u \in uploads : u \in Upload /\ u.track \in Tracks
  BY DEF IndexTypeOK, UploadsTypeOK, Upload
<1>1. ASSUME NEW t \in Tracks, InOrder(t), AcceptKick(t) \/ Play(t) \/ StartUpgrade(t),
             UNCHANGED events
      PROVE  Begins
  <2>1. /\ "overlap" \in faults \/ UploadsOf(t) = {}
        /\ UNCHANGED <<file, cdn>>
    BY <1>0, <1>1, BeginIs
  <2>2. PICK u \in Upload :
          /\ uploads' = uploads \cup {u} /\ u.track = t
          /\ \/ u.source = "kick" /\ u.step = "fetch"
             \/ /\ u.source \in {"play", "upgrade"} /\ u.step = "insert"
                /\ "again" \in faults \/ cdn[t].status = "none"
    BY <1>0, <1>1, BeginIs
  <2>3. QED BY <1>1, <2>1, <2>2 DEF Begins, Begun
<1>2. ASSUME NEW t \in Tracks, DeleteFile(t) PROVE Begins
  <2>1. /\ "overlap" \in faults \/ UploadsOf(t) = {}
        /\ \E u \in Upload : /\ uploads' = uploads \cup {u}
                             /\ u.track = t /\ u.step = "deleted"
    BY <1>0, <1>2, StartIs DEF DeleteFile, Sources, Steps, Qualities, UploadsTypeOK
  <2>2. QED BY <1>2, <2>1 DEF Begins, Begun
<1>3. ASSUME NEW u \in uploads, Over(u) PROVE Leaves(u)
  BY <1>3 DEF Over, KickFinds, UploadDies, RecordAccepted, RecordRefused, DeleteRecord,
     Ended, SetStatus, Leaves
<1>4. ASSUME NEW u \in uploads, Fetched(u) \/ InsertRecord(u) PROVE Leaves(u)
  <2>1. At(u, "sending") \in Upload /\ MovedOn(u, At(u, "sending"))
    BY <1>0, <1>4, UploadAt DEF Steps, MovedOn
  <2>2. uploads' = (uploads \ {u}) \cup {At(u, "sending")}
    BY <1>4 DEF Fetched, InsertRecord, Move, At
  <2>3. QED BY <2>1, <2>2 DEF Leaves
<1>5. ASSUME NEW u \in uploads, Commit(u) PROVE Leaves(u)
  <2>1. At(u, "stored") \in Upload /\ MovedOn(u, At(u, "stored"))
    BY <1>0, <1>5, UploadAt DEF Steps, MovedOn
  <2>2. uploads' = (uploads \ {u}) \cup {At(u, "stored")}
    BY <1>5 DEF Commit, Move, At
  <2>3. QED BY <2>1, <2>2 DEF Leaves
<1>6. ASSUME NEW u \in uploads, PublishUploaded(u) PROVE Leaves(u)
  BY <1>0, <1>6, AnsweredIs DEF PublishUploaded, Steps, Leaves, MovedOn, KickAnswered
<1>7. ASSUME NEW u \in uploads, RejectUpload(u) \/ StoreFails(u) \/ DiesUnpublished(u)
      PROVE  Leaves(u)
  <2>1. /\ Answered(u, "refused")
        /\ u.step = "sending" \/ (u.step = "stored" /\ "lost" \in faults)
    BY <1>7 DEF RejectUpload, StoreFails, DiesUnpublished
  <2>2. QED BY <1>0, <2>1, AnsweredIs DEF Steps, Leaves, MovedOn, KickAnswered
<1>8. CASE Uploading
  <2>1. ASSUME NEW t \in Tracks, ServeMissing(t) PROVE UNCHANGED uploads
    BY <2>1 DEF ServeMissing
  <2>2. QED BY <1>2, <1>3, <1>4, <1>5, <1>7, <1>8, <2>1 DEF Uploading, UploadStep, Over
<1>9. ASSUME NEW t \in Tracks, Listen(t) \/ Upgrade(t) \/ PostAccepted(t) PROVE Begins
  BY <1>1, <1>9 DEF Listen, Upgrade, PostAccepted
<1>10. ASSUME ~Uploading, ~\E t \in Tracks : Listen(t) \/ Upgrade(t) \/ PostAccepted(t),
              ~\E u \in uploads : PublishUploaded(u) \/ RejectUpload(u)
       PROVE  UNCHANGED uploads
  BY <1>10 DEF Next, vars, uploadVars, Ingest, NewDuration, Kick, Trigger, DedupExpires,
     MissExpires, Probe, MarkProbed, PublishHit, PostFindsFile, TriggerFails, Handle, Handler,
     MarkTooLong, ReadRow, BanLong, MarkStored, PublishIndex, SwallowRejection,
     TakeRejection, Strike, NoteStrike, Embed, UpsertVectors, MarkIndexed, Nak, LoseEvent, Reap, ReapOf, Restart
<1>11. QED BY <1>6, <1>7, <1>8, <1>9, <1>10

\* Going on changes the step alone.
LEMMA MovedOnIs ==
  ASSUME NEW u \in Upload, NEW v, MovedOn(u, v)
  PROVE  v.id = u.id /\ v.track = u.track /\ v.source = u.source /\ v.quality = u.quality
BY UploadAt DEF MovedOn, Steps

LEMMA OneUploadNext ==
  ASSUME IndexTypeOK, OneUpload, [Next]_vars
  PROVE  OneUpload'
<1>0. faults' = faults /\ uploads \subseteq Upload
  BY FaultsStay DEF IndexTypeOK, UploadsTypeOK
<1> SUFFICES ASSUME "overlap" \notin faults, NEW v \in uploads', NEW w \in uploads',
                    v.track = w.track
             PROVE  v = w
  BY <1>0 DEF OneUpload
<1>1. CASE UNCHANGED uploads
  BY <1>1 DEF OneUpload
<1>2. CASE Begins
  BY <1>2 DEF Begins, Begun, UploadsOf, OneUpload
<1>3. ASSUME NEW u \in uploads, Leaves(u) PROVE v = w
  BY <1>0, <1>3, MovedOnIs DEF Leaves, OneUpload
<1>4. QED BY <1>1, <1>2, <1>3, UploadMoves

\* The steps that write a record.
LEMMA RecordMoves ==
  ASSUME [Next]_vars
  PROVE  \/ UNCHANGED cdn
         \/ \E t \in Tracks : ServeMissing(t)
         \/ \E u \in uploads : Over(u) \/ InsertRecord(u)
<1>1. CASE Uploading
  BY <1>1 DEF Uploading, UploadStep, DeleteFile, Fetched, Commit, StoreFails, DiesUnpublished,
     Over
<1>2. ASSUME NEW t \in Tracks, Listen(t) \/ Upgrade(t) \/ PostAccepted(t) PROVE UNCHANGED cdn
  BY <1>2 DEF Listen, Upgrade, PostAccepted, Play, StartUpgrade, AcceptKick
<1>3. ASSUME ~Uploading, ~\E t \in Tracks : Listen(t) \/ Upgrade(t) \/ PostAccepted(t)
      PROVE  UNCHANGED cdn
  BY <1>3 DEF Next, vars, uploadVars, Ingest, NewDuration, Kick, Trigger, DedupExpires,
     MissExpires, Probe, MarkProbed, PublishHit, PostFindsFile, TriggerFails, Handle, Handler,
     MarkTooLong, ReadRow, BanLong, MarkStored, PublishIndex, SwallowRejection,
     TakeRejection, Strike, NoteStrike, Embed, UpsertVectors, MarkIndexed, Nak, LoseEvent, Reap, ReapOf, Restart,
     PublishUploaded, RejectUpload
<1>4. QED BY <1>1, <1>2, <1>3

\* A record that waits, waits for an upload under way that bears its id; and an
\* upload that is about to insert its record finds none.
Awaits(t, u) ==
  /\ u.track = t /\ u.id = cdn[t].id /\ u.source \in {"play", "upgrade"}
  /\ u.step \in {"sending", "stored", "accepted", "refused"}
RecordsAwaited ==
  faults \cap {"silent", "again", "overlap"} = {} =>
    /\ \A u \in uploads :
         u.step = "insert" => u.source \in {"play", "upgrade"} /\ cdn[u.track].status = "none"
    /\ \A t \in Tracks : cdn[t].status = "pending" => \E u \in uploads : Awaits(t, u)

LEMMA AwaitedNext ==
  ASSUME IndexTypeOK, OneUpload, RecordsAwaited, [Next]_vars
  PROVE  RecordsAwaited'
<1>0. /\ faults' = faults /\ UploadsTypeOK /\ cdn \in [Tracks -> Record]
      /\ \A u \in uploads : u \in Upload /\ u.track \in Tracks /\ u.id \in UploadIds
  BY FaultsStay DEF IndexTypeOK, UploadsTypeOK, Upload
<1> SUFFICES ASSUME faults \cap {"silent", "again", "overlap"} = {}
             PROVE  /\ \A v \in uploads' : v.step = "insert" =>
                         v.source \in {"play", "upgrade"} /\ cdn'[v.track].status = "none"
                    /\ \A t \in Tracks : cdn'[t].status = "pending" =>
                         \E v \in uploads' : Awaits(t, v)'
  BY <1>0 DEF RecordsAwaited
<1>1. /\ "silent" \notin faults /\ "again" \notin faults /\ "overlap" \notin faults
      /\ \A u, v \in uploads : u.track = v.track => u = v
      /\ \A u \in uploads :
           u.step = "insert" => u.source \in {"play", "upgrade"} /\ cdn[u.track].status = "none"
      /\ \A t \in Tracks : cdn[t].status = "pending" => \E u \in uploads : Awaits(t, u)
  BY DEF OneUpload, RecordsAwaited
<1>2. ASSUME NEW u \in uploads, Over(u)
      PROVE  /\ uploads' = uploads \ {u} /\ u.step # "insert"
             /\ \A t \in Tracks : t # u.track => cdn'[t].status = cdn[t].status
             /\ cdn'[u.track].status # "pending"
  <2>1. CASE KickFinds(u)
    <3>1. /\ uploads' = uploads \ {u} /\ u.step = "fetch"
          /\ \A t \in Tracks : cdn'[t].status = cdn[t].status
      BY <1>0, <2>1, EndedIs DEF KickFinds
    <3>2. cdn[u.track].status # "pending"
      BY <1>0, <1>1, <3>1 DEF Awaits
    <3>3. QED BY <1>0, <3>1, <3>2
  <2>2. CASE RecordAccepted(u) \/ RecordRefused(u)
    <3>1. PICK status \in {"ok", "error"} : SetStatus(u, status)
      BY <2>2 DEF RecordAccepted, RecordRefused
    <3>2. /\ uploads' = uploads \ {u}
          /\ \A t \in Tracks : t # u.track => cdn'[t] = cdn[t]
          /\ cdn[u.track].id = u.id => cdn'[u.track].status = status
          /\ cdn[u.track].id # u.id => cdn'[u.track] = cdn[u.track]
      BY <1>0, <3>1, SetStatusIs
    <3>3. cdn[u.track].status = "pending" => cdn[u.track].id = u.id
      BY <1>0, <1>1 DEF Awaits
    <3>4. QED BY <2>2, <3>2, <3>3 DEF RecordAccepted, RecordRefused
  <2>3. CASE DeleteRecord(u)
    <3>1. cdn[u.track].status # "pending"
      BY <1>0, <1>1, <2>3 DEF Awaits, DeleteRecord
    <3>2. QED BY <1>0, <2>3, <3>1 DEF DeleteRecord, NoRecord
  <2>4. QED BY <1>1, <1>2, <2>1, <2>2, <2>3 DEF Over, UploadDies
<1>3. ASSUME NEW u \in uploads, InsertRecord(u)
      PROVE  /\ uploads' = (uploads \ {u}) \cup {At(u, "sending")}
             /\ \A t \in Tracks : t # u.track => cdn'[t] = cdn[t]
             /\ Awaits(u.track, At(u, "sending"))'
  <2>1. u.step = "insert" /\ cdn[u.track].status = "none" /\ u.source \in {"play", "upgrade"}
    BY <1>1, <1>3 DEF InsertRecord
  <2>2. /\ uploads' = (uploads \ {u}) \cup {At(u, "sending")}
        /\ \A t \in Tracks : t # u.track => cdn'[t] = cdn[t]
        /\ cdn'[u.track].id = u.id
    BY <1>0, <1>3, <2>1, InsertIs
  <2>3. /\ At(u, "sending").id = u.id /\ At(u, "sending").track = u.track
        /\ At(u, "sending").source = u.source /\ At(u, "sending").step = "sending"
    BY <1>0, UploadAt DEF Steps
  <2>4. QED BY <2>1, <2>2, <2>3 DEF Awaits
<1>4. ASSUME NEW v \in uploads', v.step = "insert"
      PROVE  v.source \in {"play", "upgrade"} /\ cdn'[v.track].status = "none"
  <2>1. CASE v \in uploads
    <3>1. v.track \in Tracks /\ v.source \in {"play", "upgrade"} /\ cdn[v.track].status = "none"
      BY <1>0, <1>1, <1>4, <2>1
    <3>2. ASSUME NEW t \in Tracks, ServeMissing(t) PROVE cdn'[v.track].status = "none"
      BY <1>0, <3>1, <3>2 DEF ServeMissing
    <3>3. ASSUME NEW u \in uploads, Over(u) PROVE cdn'[v.track].status = "none"
      BY <1>1, <1>2, <1>4, <2>1, <3>1, <3>3
    <3>4. ASSUME NEW u \in uploads, InsertRecord(u) PROVE cdn'[v.track].status = "none"
      <4>1. At(u, "sending").step = "sending"
        BY <1>0, UploadAt DEF Steps
      <4>2. v # u
        BY <1>3, <1>4, <3>4, <4>1
      <4>3. QED BY <1>1, <1>3, <2>1, <3>1, <3>4, <4>2
    <3>5. QED BY <3>1, <3>2, <3>3, <3>4, RecordMoves
  <2>2. CASE v \notin uploads
    <3>1. CASE Begins
      <4>1. Begun(v)
        BY <2>2, <3>1 DEF Begins
      <4>2. cdn' = cdn
        BY <1>4, <4>1 DEF Begun
      <4>3. QED BY <1>1, <1>4, <4>1, <4>2 DEF Begun
    <3>2. ASSUME NEW u \in uploads, Leaves(u) PROVE FALSE
      <4>1. MovedOn(u, v)
        BY <2>2, <3>2 DEF Leaves
      <4>2. v.step # "insert"
        BY <1>0, <4>1, UploadAt DEF MovedOn, Steps
      <4>3. QED BY <1>4, <4>2
    <3>3. QED BY <2>2, <3>1, <3>2, UploadMoves
  <2>3. QED BY <2>1, <2>2
<1>5. ASSUME NEW t \in Tracks, cdn'[t].status = "pending"
      PROVE  \E v \in uploads' : Awaits(t, v)'
  <2>1. CASE cdn'[t] = cdn[t]
    <3>1. PICK u \in uploads : Awaits(t, u)
      BY <1>1, <1>5, <2>1
    <3>2. CASE u \in uploads'
      BY <2>1, <3>1, <3>2 DEF Awaits
    <3>3. CASE u \notin uploads'
      <4>1. Leaves(u)
        BY <3>3, UploadMoves DEF Begins, Leaves
      <4>2. ~Over(u) /\ u.source # "kick"
        BY <1>2, <1>5, <3>1 DEF Awaits
      <4>3. PICK v \in Upload : MovedOn(u, v) /\ uploads' = (uploads \ {u}) \cup {v}
        BY <4>1, <4>2 DEF Leaves, KickAnswered
      <4>4. v.step \in {"sending", "stored", "accepted", "refused"}
        BY <1>0, <4>3, UploadAt DEF MovedOn, Steps
      <4>5. v.id = u.id /\ v.track = u.track /\ v.source = u.source
        BY <1>0, <4>3, MovedOnIs
      <4>6. QED BY <2>1, <3>1, <4>3, <4>4, <4>5 DEF Awaits
    <3>4. QED BY <3>2, <3>3
  <2>2. CASE cdn'[t] # cdn[t]
    <3>1. ASSUME NEW s \in Tracks, ServeMissing(s) PROVE FALSE
      BY <1>0, <1>5, <2>2, <3>1 DEF ServeMissing, Record
    <3>2. ASSUME NEW u \in uploads, Over(u), u.track = t PROVE FALSE
      BY <1>2, <1>5, <3>2
    <3>3. ASSUME NEW u \in uploads, Over(u), u.track # t PROVE \E v \in uploads' : Awaits(t, v)'
      BY <1>0, <2>2, <3>3, EndedIs, SetStatusIs, <1>1
         DEF Over, KickFinds, UploadDies, RecordAccepted, RecordRefused, DeleteRecord, Ended
    <3>4. ASSUME NEW u \in uploads, InsertRecord(u) PROVE \E v \in uploads' : Awaits(t, v)'
      BY <1>3, <2>2, <3>4
    <3>5. QED BY <2>2, <3>1, <3>2, <3>3, <3>4, RecordMoves
  <2>3. QED BY <2>1, <2>2
<1>6. QED BY <1>4, <1>5

\* One upload of a track at a time, outside of "overlap".
LEMMA OneUploadHolds == Spec => []OneUpload
<1>1. Init => OneUpload
  BY DEF Init, UploadsInit, OneUpload
<1>2. IndexTypeOK /\ OneUpload /\ [Next]_vars => OneUpload'
  BY OneUploadNext
<1>3. QED BY <1>1, <1>2, IndexTypeCorrect, PTL DEF Spec

\* No record is left waiting when its uploads are over, for any number of tracks
\* and uploads, if none of them died, found an earlier record or overlapped.
THEOREM RecordsSettle == Spec => []NoStuckRecord
<1>1. Init => RecordsAwaited
  BY DEF Init, UploadsInit, RecordsAwaited, NoRecord
<1>2. IndexTypeOK /\ OneUpload /\ RecordsAwaited /\ [Next]_vars => RecordsAwaited'
  BY AwaitedNext
<1>3. RecordsAwaited => NoStuckRecord
  BY DEF RecordsAwaited, NoStuckRecord, Awaits, UploadsOf
<1>4. QED BY <1>1, <1>2, <1>3, IndexTypeCorrect, OneUploadHolds, PTL DEF Spec

----------------------------------------------------------------------------
(* The quality of a row                                                    *)

\* The steps that change a file.
LEMMA FileMoves ==
  ASSUME IndexTypeOK, [Next]_vars, NEW t \in Tracks
  PROVE  \/ file'[t] = file[t]
         \/ DeleteFile(t)
         \/ \E u \in uploads : u.track = t /\ Commit(u)
<1>0. file \in [Tracks -> Copy]
  BY DEF IndexTypeOK, UploadsTypeOK
<1>1. CASE Uploading
  <2>1. ASSUME NEW s \in Tracks, ServeMissing(s) PROVE file' = file
    BY <2>1 DEF ServeMissing
  <2>2. ASSUME NEW s \in Tracks, DeleteFile(s) PROVE file'[t] = file[t] \/ DeleteFile(t)
    BY <1>0, <2>2 DEF DeleteFile
  <2>3. ASSUME NEW u \in uploads, Commit(u)
        PROVE  file'[t] = file[t] \/ (u.track = t /\ Commit(u))
    BY <1>0, <2>3 DEF Commit
  <2>4. ASSUME NEW u \in uploads,
               Over(u) \/ Fetched(u) \/ InsertRecord(u) \/ StoreFails(u) \/ DiesUnpublished(u)
        PROVE  file' = file
    BY <2>4 DEF Over, KickFinds, UploadDies, RecordAccepted, RecordRefused, DeleteRecord,
       Fetched, InsertRecord, StoreFails, DiesUnpublished
  <2>5. QED BY <1>1, <2>1, <2>2, <2>3, <2>4 DEF Uploading, UploadStep, Over
<1>2. ASSUME NEW s \in Tracks, Listen(s) \/ Upgrade(s) \/ PostAccepted(s) PROVE file' = file
  BY <1>2 DEF Listen, Upgrade, PostAccepted, Play, StartUpgrade, AcceptKick
<1>3. ASSUME ~Uploading, ~\E s \in Tracks : Listen(s) \/ Upgrade(s) \/ PostAccepted(s)
      PROVE  file' = file
  BY <1>3 DEF Next, vars, uploadVars, Ingest, NewDuration, Kick, Trigger, DedupExpires,
     MissExpires, Probe, MarkProbed, PublishHit, PostFindsFile, TriggerFails, Handle, Handler,
     MarkTooLong, ReadRow, BanLong, MarkStored, PublishIndex, SwallowRejection,
     TakeRejection, Strike, NoteStrike, Embed, UpsertVectors, MarkIndexed, Nak, LoseEvent, Reap, ReapOf, Restart,
     PublishUploaded, RejectUpload
<1>4. QED BY <1>1, <1>2, <1>3

\* Only storage's event gives a row another quality, and its own.
LEMMA QualityMoves ==
  ASSUME IndexTypeOK, MarksFollow, [Next]_vars, NEW t \in Tracks
  PROVE  \/ rows'[t].quality = rows[t].quality
         \/ \E e \in events : MarkStored(e) /\ e.track = t /\ rows'[t].quality = e.quality
<1>0. rows \in [Tracks -> Row] /\ rows[t] \in Row
  BY DEF IndexTypeOK
<1>1. ASSUME NEW s \in Tracks, NEW r \in Row, rows' = [rows EXCEPT ![s] = r],
             r.quality = rows[s].quality
      PROVE  rows'[t].quality = rows[t].quality
  BY <1>0, <1>1
<1>2. ASSUME NEW s \in Tracks, Ingest(s) PROVE rows'[t].quality = rows[t].quality
  <2>1. PICK l \in BOOLEAN :
          rows' = [rows EXCEPT ![s] = [Absent EXCEPT !.storage = "pending", !.long = l]]
    BY <1>2 DEF Ingest
  <2> DEFINE r == [Absent EXCEPT !.storage = "pending", !.long = l]
  <2>2. r \in Row /\ r.quality = "none" /\ rows' = [rows EXCEPT ![s] = r]
    BY <2>1, NewRow
  <2>3. rows[s].quality = "none"
    BY <1>2 DEF Ingest, Present, MarksFollow
  <2> HIDE DEF r
  <2>4. QED BY <1>1, <2>2, <2>3
<1>3. ASSUME NEW s \in Tracks, NewDuration(s) PROVE rows'[t].quality = rows[t].quality
  <2>1. PICK changed \in BOOLEAN, l \in BOOLEAN :
          rows' = [rows EXCEPT ![s] = Measured(rows[s], changed, l)]
    BY <1>3 DEF NewDuration
  <2>2. QED BY <1>0, <1>1, <2>1, MeasuredRow
<1>4. ASSUME NEW s \in Tracks, MarkProbed(s) PROVE rows'[t].quality = rows[t].quality
  BY <1>0, <1>1, <1>4, MarkedRow DEF MarkProbed
<1>5. ASSUME NEW s \in Tracks, MissExpires(s) PROVE rows'[t].quality = rows[t].quality
  <2>1. rows' = [rows EXCEPT ![s] = [rows[s] EXCEPT !.s3 = "stale"]]
    BY <1>5 DEF MissExpires
  <2>2. QED BY <1>0, <1>1, <2>1, StaleRow
<1>6. ASSUME NEW e \in events,
             MarkTooLong(e) \/ BanLong(e) \/ Strike(e) \/ MarkIndexed(e)
      PROVE  rows'[t].quality = rows[t].quality
  <2>1. e.track \in Tracks /\ rows[e.track] \in Row
    BY <1>0 DEF IndexTypeOK, Event
  <2>2. QED
    BY <1>1, <1>6, <2>1, TooLongRow, RejectedRow, MarkedRow
       DEF MarkTooLong, BanLong, Strike, MarkIndexed
<1>7. ASSUME NEW e \in events, MarkStored(e)
      PROVE  \/ rows'[t].quality = rows[t].quality
             \/ e.track = t /\ rows'[t].quality = e.quality
  <2>1. e.track \in Tracks /\ rows[e.track] \in Row /\ e.quality \in Copy
    BY <1>0 DEF IndexTypeOK, Event
  <2>2. rows' = [rows EXCEPT ![e.track] = StorageDone(rows[e.track], e.quality)]
    BY <1>7 DEF MarkStored
  <2>3. QED BY <1>0, <2>1, <2>2, DoneRow
<1>8. CASE /\ \A s \in Tracks : ~Ingest(s) /\ ~NewDuration(s) /\ ~MarkProbed(s) /\ ~MissExpires(s)
           /\ \A e \in events : /\ ~MarkTooLong(e) /\ ~BanLong(e) /\ ~MarkStored(e)
                               /\ ~Strike(e) /\ ~MarkIndexed(e)
  <2>1. rows' = rows
    BY <1>8 DEF Next, vars, Uploading, Kick, Trigger, Listen, Upgrade, DedupExpires, Probe,
       PublishHit, PostFindsFile, PostAccepted, TriggerFails, PublishUploaded, RejectUpload,
       Handle, ReadRow, PublishIndex, SwallowRejection, TakeRejection, NoteStrike,
       Embed, UpsertVectors, Nak, LoseEvent,
       Reap, ReapOf, Restart
  <2>2. QED BY <2>1
<1>9. QED BY <1>2, <1>3, <1>4, <1>5, <1>6, <1>7, <1>8

\* A message that is gone has been handled, or lost, or delivered again.
LEMMA EventLeaves ==
  ASSUME IndexTypeOK, [Next]_vars, NEW e \in events, e \notin events'
  PROVE  Handle(e) \/ Nak(e) \/ LoseEvent(e) \/ Restart
<1>1. ASSUME NEW f \in events, Handle(f) \/ Nak(f) \/ LoseEvent(f) PROVE e = f
  BY <1>1 DEF Handle, Nak, LoseEvent, MarkTooLong, ReadRow, BanLong, MarkStored, PublishIndex,
     SwallowRejection, TakeRejection, Strike, NoteStrike, Embed, UpsertVectors, MarkIndexed, Acked, Goes
<1>2. ASSUME ~Restart, ~\E f \in events : Handle(f) \/ Nak(f) \/ LoseEvent(f) PROVE FALSE
  <2>1. events \subseteq events'
    BY <1>2 DEF Next, vars, Uploading, Ingest, NewDuration, Kick, Trigger, Listen, Upgrade,
       DedupExpires, MissExpires, Probe, MarkProbed, PublishHit, PostFindsFile, PostAccepted,
       TriggerFails, PublishUploaded, RejectUpload, Reap, ReapOf, Send
  <2>2. QED BY <2>1
<1>3. QED BY <1>1, <1>2

\* News of the file of t.
Tells(e, t) == e.track = t /\ e.kind = "uploaded"

\* Why the quality of t's row may differ from that of its file: the track is
\* banned, or the file's upload has still to be published, or to be marked.
QualityDue(t) ==
  \/ rows[t].quality \in {file[t], "none"}
  \/ rows[t].storage = "too_long"
  \/ \E u \in uploads : u.track = t /\ u.step = "stored"
  \/ \E e \in events : Tells(e, t) /\ e.quality = file[t] /\ e.step # "publish"

\* A stored upload has made the file; while an upload goes on, no event tells a
\* quality of before; what an event tells is the file's quality or none.
QualityKnown ==
  ~LocalStore /\ faults \cap {"overlap", "lost"} = {} =>
    /\ \A u \in uploads : u.step = "stored" => file[u.track] = u.quality
    /\ \A u \in uploads : u.step \in {"fetch", "insert", "sending", "stored"} =>
         \A e \in events : Tells(e, u.track) => e.quality = "none"
    /\ \A t \in Tracks : file[t] # "none" =>
         /\ \A e \in events : Tells(e, t) => e.quality \in {file[t], "none"}
         /\ QualityDue(t)

LEMMA QualityNext ==
  ASSUME IndexTypeOK, MarksFollow, OneUpload, QualityKnown, [Next]_vars
  PROVE  QualityKnown'
<1>0. /\ faults' = faults
      /\ \A u \in uploads : u \in Upload /\ u.track \in Tracks
      /\ \A e \in events : e \in Event /\ e.track \in Tracks
  BY FaultsStay DEF IndexTypeOK, UploadsTypeOK, Upload, Event
<1> SUFFICES ASSUME ~LocalStore, faults \cap {"overlap", "lost"} = {}
             PROVE  QualityKnown'
  BY <1>0 DEF QualityKnown
<1>1. /\ "overlap" \notin faults /\ "lost" \notin faults
      /\ \A u, v \in uploads : u.track = v.track => u = v
  BY DEF OneUpload
<1>2. /\ \A u \in uploads : u.step = "stored" => file[u.track] = u.quality
      /\ \A u \in uploads : u.step \in {"fetch", "insert", "sending", "stored"} =>
           \A e \in events : Tells(e, u.track) => e.quality = "none"
      /\ \A t \in Tracks : file[t] # "none" =>
           /\ \A e \in events : Tells(e, t) => e.quality \in {file[t], "none"}
           /\ QualityDue(t)
  BY DEF QualityKnown
\* The file of a track is deleted only when no upload of it is under way.
<1>3. ASSUME NEW t \in Tracks, DeleteFile(t)
      PROVE  file'[t] = "none" /\ \A u \in uploads : u.track # t
  BY <1>1, <1>3 DEF DeleteFile, Start, UploadsOf, IndexTypeOK, UploadsTypeOK
<1>4. ASSUME NEW u \in uploads, Commit(u)
      PROVE  /\ u.step = "sending" /\ file'[u.track] = u.quality
             /\ uploads' = (uploads \ {u}) \cup {At(u, "stored")}
  BY <1>0, <1>4 DEF Commit, Move, At, IndexTypeOK, UploadsTypeOK
\* A message told has a teller: itself, an upload that is published, or none.
<1>5. ASSUME NEW f \in events', NEW t, Tells(f, t)
      PROVE  \/ \E e \in events : Tells(e, t) /\ e.quality = f.quality
             \/ f.quality = "none"
             \/ \E u \in uploads : PublishUploaded(u) /\ u.track = t /\ u.quality = f.quality
  <2>1. CASE Fresh(f)
    BY <1>5, <2>1 DEF Fresh, Tells
  <2>2. ASSUME NEW e \in events, GoneOn(e, f) PROVE Tells(e, t) /\ e.quality = f.quality
    BY <1>0, <1>5, <2>2, EventAt DEF GoneOn, Tells, EventSteps
  <2>3. QED BY <1>5, <2>1, <2>2, EventMoves
<1>6. ASSUME NEW v \in uploads', v.step = "stored" PROVE file'[v.track] = v.quality
  <2>1. CASE v \in uploads
    <3>1. file[v.track] = v.quality /\ v.track \in Tracks
      BY <1>0, <1>2, <1>6, <2>1
    <3>2. ASSUME NEW u \in uploads, Commit(u), u.track = v.track PROVE FALSE
      BY <1>1, <1>4, <1>6, <2>1, <3>2
    <3>3. QED BY <1>3, <2>1, <3>1, <3>2, FileMoves
  <2>2. CASE v \notin uploads
    <3>1. ~Begins
      BY <1>6, <2>2 DEF Begins, Begun
    <3>2. PICK u \in uploads : MovedOn(u, v)
      BY <2>2, <3>1, UploadMoves DEF Leaves
    <3>3. Commit(u)
      BY <1>0, <1>6, <3>2, UploadAt DEF MovedOn, Steps
    <3>4. QED BY <1>0, <1>4, <3>2, <3>3, MovedOnIs
  <2>3. QED BY <2>1, <2>2
<1>7. ASSUME NEW v \in uploads', v.step \in {"fetch", "insert", "sending", "stored"},
             NEW f \in events', Tells(f, v.track)
      PROVE  f.quality = "none"
  <2>1. CASE v \notin uploads /\ Begins
    <3>1. Begun(v)
      BY <2>1 DEF Begins
    <3>2. InOrder(v.track) /\ events' = events
      BY <1>7, <3>1 DEF Begun
    <3>3. QED BY <1>1, <1>7, <3>2 DEF InOrder, Tells
  <2>2. CASE v \in uploads \/ ~Begins
    <3>1. PICK u \in uploads :
            /\ u = v \/ (Leaves(u) /\ MovedOn(u, v))
            /\ u.track = v.track
            /\ u.step \in {"fetch", "insert", "sending", "stored"}
      <4>1. CASE v \in uploads
        BY <1>7, <4>1
      <4>2. CASE v \notin uploads
        <5>1. PICK u \in uploads : Leaves(u) /\ MovedOn(u, v)
          BY <2>2, <4>2, UploadMoves DEF Leaves
        <5>2. u.track = v.track
          BY <1>0, <5>1, MovedOnIs
        <5>3. u.step \in {"fetch", "insert", "sending", "stored"}
          BY <1>0, <5>1 DEF MovedOn, Fetched, InsertRecord, Commit, PublishUploaded
        <5>4. QED BY <5>1, <5>2, <5>3
      <4>3. QED BY <4>1, <4>2
    <3>2. ASSUME NEW w \in uploads, PublishUploaded(w), w.track = v.track PROVE FALSE
      <4>1. w = u /\ u.step = "stored"
        BY <1>1, <3>1, <3>2 DEF PublishUploaded
      <4>2. u \notin uploads'
        <5>1. At(u, "accepted").step = "accepted"
          BY <1>0, UploadAt DEF Steps
        <5>2. QED BY <3>2, <4>1, <5>1 DEF PublishUploaded, Answered, Move, At
      <4>3. MovedOn(u, v)
        BY <3>1, <4>2
      <4>4. v.step \in {"accepted", "refused"}
        BY <1>0, <4>1, <4>3, UploadAt DEF MovedOn, Fetched, InsertRecord, Commit, Steps
      <4>5. QED BY <1>7, <4>4
    <3>3. QED BY <1>2, <1>5, <1>7, <3>1, <3>2
  <2>3. QED BY <2>1, <2>2
<1>8. ASSUME NEW t \in Tracks, file'[t] # "none", NEW f \in events', Tells(f, t)
      PROVE  f.quality \in {file'[t], "none"}
  <2>1. CASE file'[t] = file[t]
    BY <1>2, <1>5, <1>8, <2>1 DEF PublishUploaded
  <2>2. ASSUME NEW u \in uploads, u.track = t, Commit(u) PROVE f.quality = "none"
    <3>1. u.step = "sending" /\ ~PublishUploaded(u)
      BY <1>4, <2>2 DEF PublishUploaded
    <3>2. QED BY <1>1, <1>2, <1>5, <1>8, <2>2, <3>1
  <2>3. QED BY <1>3, <1>8, <2>1, <2>2, FileMoves
<1>9. ASSUME NEW t \in Tracks, file'[t] # "none"
      PROVE  QualityDue(t)'
  <2>1. ASSUME NEW u \in uploads, u.track = t, Commit(u) PROVE QualityDue(t)'
    BY <1>0, <1>4, <2>1, UploadAt DEF QualityDue, Steps
  <2>2. CASE file'[t] = file[t]
    <3>1. QualityDue(t) /\ \A e \in events : Tells(e, t) => e.quality \in {file[t], "none"}
      BY <1>2, <1>9, <2>2
    <3>2. CASE rows[t].quality \in {file[t], "none"}
      <4>1. ASSUME NEW e \in events, MarkStored(e), e.track = t
            PROVE  e.quality \in {file[t], "none"}
        BY <3>1, <4>1 DEF MarkStored, MarksFollow, Tells
      <4>2. rows'[t].quality \in {file[t], "none"}
        BY <3>2, <4>1, QualityMoves
      <4>3. QED BY <2>2, <4>2 DEF QualityDue
    <3>3. CASE rows[t].storage = "too_long"
      <4>1. rows'[t].storage = "too_long"
        BY <3>3, RowMoves DEF IndexTypeOK, Writes, RowMove, Same, Added, Stored, Lost,
           Retried, Struck, Banned, Marked
      <4>2. QED BY <4>1 DEF QualityDue
    <3>4. ASSUME NEW u \in uploads, u.track = t, u.step = "stored" PROVE QualityDue(t)'
      <4>1. CASE PublishUploaded(u)
        <5>1. u.track \in Tracks /\ u.quality \in Copy /\ "uploaded" \in Kinds
          BY <1>0 DEF Upload, Copy, Kinds
        <5>2. PICK f \in Event : /\ events' = events \cup {f} /\ f.track = t
                                 /\ f.kind = "uploaded" /\ f.quality = u.quality
                                 /\ f.step = "queued"
          BY <3>4, <4>1, <5>1, SendIs DEF PublishUploaded
        <5>3. file[t] = u.quality
          BY <1>2, <3>4
        <5>4. QED BY <2>2, <5>2, <5>3 DEF QualityDue, Tells
      <4>2. CASE ~PublishUploaded(u)
        <5>1. ~Leaves(u)
          BY <1>1, <3>4, <4>2 DEF Leaves, Over, KickAnswered, MovedOn, Fetched, InsertRecord,
             Commit, KickFinds, UploadDies, RecordAccepted, RecordRefused, DeleteRecord
        <5>2. u \in uploads'
          BY <5>1, UploadMoves DEF Begins, Leaves
        <5>3. QED BY <3>4, <5>2 DEF QualityDue
      <4>3. QED BY <4>1, <4>2
    <3>5. ASSUME NEW e \in events, Tells(e, t), e.quality = file[t], e.step # "publish"
          PROVE  QualityDue(t)'
      <4>0. e \in Event /\ e.kind = "uploaded" /\ e.track = t /\ rows[t] \in Row
        BY <1>0, <3>5 DEF Tells, IndexTypeOK
      <4>1. CASE e \in events'
        BY <2>2, <3>5, <4>1 DEF QualityDue, Tells
      <4>2. ASSUME NEW step \in EventSteps, step # "publish", At(e, step) \in events'
            PROVE  QualityDue(t)'
        <5>1. Tells(At(e, step), t) /\ At(e, step).quality = file[t] /\ At(e, step).step # "publish"
          BY <3>5, <4>0, <4>2, EventAt DEF Tells
        <5>2. QED BY <2>2, <4>2, <5>1 DEF QualityDue, Tells
      <4>3. CASE ReadRow(e)
        <5>1. CASE rows[t].storage = "absent"
          <6>1. rows'[t].quality = "none"
            BY <4>0, <4>3, <5>1 DEF ReadRow, MarksFollow
          <6>2. QED BY <6>1 DEF QualityDue
        <5>2. CASE rows[t].storage # "absent"
          <6>1. PICK step \in {"ban", "mark_index", "mark_only"} : Goes(e, step)
            BY <4>0, <4>3, <5>2 DEF ReadRow
          <6>2. QED BY <4>0, <4>2, <6>1, GoesIs DEF EventSteps
        <5>3. QED BY <5>1, <5>2
      <4>4. CASE BanLong(e)
        <5>1. rows'[t].storage = "too_long"
          BY <4>0, <4>4, TooLongRow DEF BanLong, IndexTypeOK
        <5>2. QED BY <5>1 DEF QualityDue
      <4>5. CASE MarkStored(e)
        <5>1. rows'[t] = StorageDone(rows[t], e.quality) /\ e.quality \in Copy
          BY <4>0, <4>5 DEF MarkStored, IndexTypeOK, Event
        <5>2. rows[t].storage = "absent" => rows[t].quality = "none"
          BY DEF MarksFollow
        <5>3. \/ rows'[t].quality = "none" \/ rows'[t].storage = "too_long"
              \/ rows'[t].quality = file[t]
          BY <1>9, <2>2, <3>5, <4>0, <5>1, <5>2, DoneRow
        <5>4. QED BY <2>2, <5>3 DEF QualityDue
      <4>6. CASE Nak(e)
        BY <4>0, <4>2, <4>6, GoesIs DEF Nak, EventSteps
      <4>7. CASE Restart
        <5>1. At(e, "queued") \in events'
          BY <4>0, <4>7 DEF Restart, At
        <5>2. QED BY <4>2, <5>1 DEF EventSteps
      <4>8. /\ ~MarkTooLong(e) /\ ~PublishIndex(e) /\ ~SwallowRejection(e) /\ ~TakeRejection(e)
            /\ ~Strike(e) /\ ~NoteStrike(e) /\ ~Embed(e) /\ ~UpsertVectors(e) /\ ~MarkIndexed(e) /\ ~LoseEvent(e)
        BY <1>1, <3>5, <4>0 DEF MarkTooLong, PublishIndex, SwallowRejection, TakeRejection,
           Strike, NoteStrike, MarksFollow, Embed, UpsertVectors, MarkIndexed, LoseEvent
      <4>9. QED
        BY <4>1, <4>3, <4>4, <4>5, <4>6, <4>7, <4>8, EventLeaves DEF Handle
    <3>6. QED BY <3>1, <3>2, <3>3, <3>4, <3>5 DEF QualityDue
  <2>3. QED BY <1>3, <1>9, <2>1, <2>2, FileMoves
<1>10. QED BY <1>6, <1>7, <1>8, <1>9 DEF QualityKnown, Tells

\* Once its news is handled a row tells the quality of the file, for any number of
\* tracks, uploads and messages, if uploads do not overlap and no event is lost.
THEOREM QualityTold == Spec => []QualityIsTrue
<1>1. Init => QualityKnown
  BY DEF Init, UploadsInit, QualityKnown
<1>2. TypesAndMarks /\ OneUpload /\ QualityKnown /\ [Next]_vars => QualityKnown'
  BY QualityNext DEF TypesAndMarks
<1>3. QualityKnown => QualityIsTrue
  BY DEF QualityKnown, QualityIsTrue, QualityDue, Tells, UploadsOf
<1>4. QED BY <1>1, <1>2, <1>3, MarksHold, OneUploadHolds, PTL DEF Spec
=============================================================================
