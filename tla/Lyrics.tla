------------------------------- MODULE Lyrics -------------------------------
(***************************************************************************)
(* The lyrics of one track (lyrics/service.rs): listeners' requests search *)
(* aggregators and save what they find, a work queue of transcriptions     *)
(* makes lyrics from the audio or synchronises plain ones, and every long  *)
(* enough text is embedded as a vector.  They meet in two columns: the row *)
(* of lyrics_cache and tracks.transcribe_state.  Jobs and answers travel   *)
(* through JetStream at least once, in any order: a set, because a second  *)
(* equal message does what the first would do again.  Tracks share nothing *)
(* but the semaphores and the reaps' LIMITs, so one is enough.  The search *)
(* itself, its ranking and the detection of the language are one step.     *)
(***************************************************************************)
EXTENDS Naturals

CONSTANTS Requests,     \* calls of ensure_lyrics, listeners' and the indexing's
          Enqueuers,    \* calls of enqueue_transcribe under way at a time
          Nobody,       \* no request
          Texts,        \* what the aggregators may have
          SelfGen,      \* the words whisper hears
          SyncedTexts,  \* those with time stamps
          ShortTexts,   \* not longer than 30 bytes: never embedded
          MiddleTexts,  \* longer, but less than 30 characters: the worker skips them
          EdgeTexts,    \* longer, but just 30 characters: no reap takes them
          MaxFaults,    \* bound on failures, redeliveries, late answers and restarts
          Scenes        \* the sets of Events a behaviour may show

ASSUME NobodyAssumption == Nobody \notin Requests
ASSUME TextAssumption ==
  /\ SelfGen \notin Texts
  /\ SyncedTexts \subseteq Texts
  /\ ShortTexts \subseteq Texts /\ MiddleTexts \subseteq Texts \ ShortTexts
  /\ EdgeTexts \subseteq Texts \ (ShortTexts \cup MiddleTexts)
ASSUME FaultAssumption == MaxFaults \in Nat

\* Two requests at a time, two enqueue_transcribe at a time, the embedding worker
\* runs, something fails, the track turns out to be too long.
Events == {"overlap", "race", "embed", "fault", "long"}
ASSUME ScenesAssumption == Scenes \subseteq SUBSET Events

VARIABLES row,       \* the row of lyrics_cache
          state,     \* transcribe_state; "stale" is pending for TRANSCRIBE_STALE
          stored,    \* storage_state: "no", "ok" or "too_long"
          req,       \* what each request is doing
          inflight,  \* the track's entry: whose mutex a new request finds
          result,    \* the Option in the mutex each request made
          enq,       \* what each call of it is doing
          jobs,      \* TRANSCRIBE: the modes asked for
          answers,   \* done.transcribe, and how far persist_transcribe is
          embeds,    \* texts in after_found or EMBED_LYRICS
          vectors,   \* done.embed_lyrics, and whether its vector is stored
          vector,    \* the text whose vector Qdrant has
          faults, scene

requests  == <<req, inflight, result>>
selfgen   == <<enq, jobs, answers>>
embedding == <<embeds, vectors, vector>>
vars == <<row, state, stored, requests, selfgen, embedding, faults, scene>>

NoText  == "none"

\* A response: the words, and the words that have time stamps (synced_lrc).
Nothing == [text |-> NoText, lrc |-> NoText]
Unset   == [text |-> "unset", lrc |-> "unset"]
Found(t) == [text |-> t, lrc |-> IF t \in SyncedTexts THEN t ELSE NoText]
Heard   == [text |-> SelfGen, lrc |-> SelfGen]

Row(lyrics)   == [text |-> lyrics.text, lrc |-> lyrics.lrc, embedded |-> FALSE]
ToResponse(w) == [text |-> w.text, lrc |-> w.lrc]
NoRow   == Row(Nothing)
Hung    == [at |-> "answered", lock |-> Nobody, text |-> NoText, shown |-> Nothing]
Idle    == [at |-> "idle", mode |-> "none"]
Settled == {"done", "disabled"}

\* The sign that there is no text is not a text.
ASSUME NoTextAssumption == NoText \notin Texts \cup {SelfGen}

\* (mutant) A pending track is never taken again.
NeverClaimed == state = "null"

\* transcribe_eligible, and the WHERE of claim_transcribe.sql.
Eligible == state \in {"null", "stale"}

\* after_found is spawned for a text of more than 30 bytes.
Spawned(text) == IF text \in ShortTexts THEN embeds ELSE embeds \cup {text}

Fault == "fault" \in scene /\ faults < MaxFaults /\ faults' = faults + 1

Init ==
  /\ row = NoRow /\ state = "null" /\ stored = "no"
  /\ req = [r \in Requests |-> [Hung EXCEPT !.at = "ask"]]
  /\ inflight = Nobody
  /\ result = [r \in Requests |-> Unset]
  /\ enq = [e \in Enqueuers |-> Idle]
  /\ jobs = {} /\ answers = {}
  /\ embeds = {} /\ vectors = {} /\ vector = NoText
  /\ faults = 0
  /\ scene \in Scenes

----------------------------------------------------------------------------
(* ensure_lyrics                                                            *)

Answer(r, lyrics) ==
  req' = [req EXCEPT ![r] = [Hung EXCEPT !.shown = lyrics]]

\* A cached row is the answer; one without a vector is sent to after_found again.
ReadCache(r) ==
  /\ req[r].at = "ask"
  /\ "overlap" \in scene \/ \A o \in Requests : req[o].at \in {"ask", "answered"}
  /\ IF row # NoRow
     THEN /\ Answer(r, ToResponse(row))
          /\ embeds' = IF row.embedded THEN embeds ELSE Spawned(row.text)
     ELSE /\ req' = [req EXCEPT ![r].at = "look"]
          /\ UNCHANGED embeds
  /\ UNCHANGED <<row, state, stored, inflight, result, selfgen, vectors, vector, faults, scene>>

\* The get and the insert of the mutex are two calls of the cache.
LookUp(r) ==
  /\ req[r].at = "look"
  /\ req' = IF inflight # Nobody THEN [req EXCEPT ![r].at = "wait", ![r].lock = inflight]
                                 ELSE [req EXCEPT ![r].at = "make"]
  /\ UNCHANGED <<row, state, stored, inflight, result, selfgen, embedding, faults, scene>>

MakeMutex(r) ==
  /\ req[r].at = "make"
  /\ req' = [req EXCEPT ![r].at = "wait", ![r].lock = r]
  /\ inflight' = r
  /\ UNCHANGED <<row, state, stored, result, selfgen, embedding, faults, scene>>

EnterMutex(r) ==
  LET l == req[r].lock IN
  /\ req[r].at = "wait"
  /\ ~\E o \in Requests : req[o].lock = l /\ req[o].at \in {"search", "save"}
  /\ IF result[l] # Unset THEN Answer(r, result[l])
                          ELSE req' = [req EXCEPT ![r].at = "search"]
  /\ UNCHANGED <<row, state, stored, inflight, result, selfgen, embedding, faults, scene>>

SearchFinds(r, t) ==
  /\ req[r].at = "search"
  /\ req' = [req EXCEPT ![r].at = "save", ![r].text = t]
  /\ UNCHANGED <<row, state, stored, inflight, result, selfgen, embedding, faults, scene>>

\* The result goes into the mutex, for those who wait for it.
Conclude(r, lyrics) ==
  /\ Answer(r, lyrics)
  /\ result' = [result EXCEPT ![req[r].lock] = lyrics]

\* Nothing found is not cached, and enqueue_transcribe is spawned (BeginEnqueue).
SearchFindsNothing(r) ==
  /\ req[r].at = "search"
  /\ Conclude(r, Nothing)
  /\ UNCHANGED <<row, state, stored, inflight, selfgen, embedding, faults, scene>>

\* (mutant) The insert that meets another row returns what was found all the same.
SaveOrShow(r) ==
  /\ req[r].at = "save"
  /\ LET t == req[r].text IN
     /\ row' = IF row = NoRow THEN Row(Found(t)) ELSE row
     /\ embeds' = Spawned(t)
     /\ Conclude(r, Found(t))
  /\ UNCHANGED <<state, stored, inflight, selfgen, vectors, vector, faults, scene>>

\* insert_lyrics_cache.sql has no ON CONFLICT: a row that came meanwhile is an
\* error, which leaves the mutex empty.
SaveFound(r) ==
  /\ req[r].at = "save"
  /\ LET t == req[r].text IN
     IF row = NoRow
     THEN /\ row' = Row(Found(t))
          /\ embeds' = Spawned(t)
          /\ Conclude(r, Found(t))
     ELSE Answer(r, Nothing) /\ UNCHANGED <<row, embeds, result>>
  /\ UNCHANGED <<state, stored, inflight, selfgen, vectors, vector, faults, scene>>

RequestFails(r) ==
  /\ req[r].at \in {"search", "save"}
  /\ Fault
  /\ Answer(r, Nothing)
  /\ UNCHANGED <<row, state, stored, inflight, result, selfgen, embedding, scene>>

\* Five seconds after a result: the key is invalidated, whosever mutex it has.
Forget ==
  /\ inflight # Nobody
  /\ \E r \in Requests : result[r] # Unset
  /\ inflight' = Nobody
  /\ UNCHANGED <<row, state, stored, req, result, selfgen, embedding, faults, scene>>

----------------------------------------------------------------------------
(* enqueue_transcribe, spawned by an upload, a request or a reap            *)

\* storage.track_uploaded, which may come again: for a better quality, or from
\* a probe of the store.
Uploaded ==
  /\ stored = "no"
  /\ stored' = "ok"
  /\ UNCHANGED <<row, state, requests, selfgen, embedding, faults, scene>>

MarkTooLong ==
  /\ stored # "too_long" /\ "long" \in scene
  /\ stored' = "too_long"
  /\ state' = "disabled"
  /\ UNCHANGED <<row, requests, selfgen, embedding, faults, scene>>

Begin(e, at) ==
  /\ enq[e] = Idle /\ Eligible
  /\ "race" \in scene \/ enq = [o \in Enqueuers |-> Idle]
  /\ enq' = [enq EXCEPT ![e].at = at]
  /\ UNCHANGED <<row, state, stored, requests, jobs, answers, embedding, faults, scene>>

\* handle_uploaded brings the URL.
HandleUploaded(e) == stored = "ok" /\ Begin(e, "mode")

\* reap_need_align.sql and reap_need_full.sql
ReapWhisper(e) ==
  /\ \/ row # NoRow /\ row.lrc = NoText
     \/ row = NoRow /\ stored = "ok"
  /\ Begin(e, "url")

\* A request that has found nothing stands for those that find nothing later.
EnqueueForRequest(e) ==
  /\ \E r \in Requests : result[r] = Nothing
  /\ Begin(e, "url")

\* Without audio it is asked for, and its upload comes back here.  The audio of
\* a track that is too long may be there.
FindAudio(e) ==
  /\ enq[e].at = "url"
  /\ \/ stored # "no" /\ enq' = [enq EXCEPT ![e].at = "mode"]
     \/ stored # "ok" /\ enq' = [enq EXCEPT ![e] = Idle]
  /\ UNCHANGED <<row, state, stored, requests, jobs, answers, embedding, faults, scene>>

ReadMode(e) ==
  /\ enq[e].at = "mode"
  /\ enq' = [enq EXCEPT ![e] =
       IF row.lrc # NoText THEN Idle
       ELSE [at |-> "claim", mode |-> IF row # NoRow THEN "align" ELSE "full"]]
  /\ UNCHANGED <<row, state, stored, requests, jobs, answers, embedding, faults, scene>>

\* (mutant) The claim trusts the check made before the store was asked.
ClaimChecked(e) ==
  /\ enq[e].at = "claim"
  /\ state' = "pending"
  /\ enq' = [enq EXCEPT ![e].at = "publish"]
  /\ UNCHANGED <<row, stored, requests, jobs, answers, embedding, faults, scene>>

\* claim_transcribe
Claim(e) ==
  /\ enq[e].at = "claim"
  /\ IF Eligible
     THEN state' = "pending" /\ enq' = [enq EXCEPT ![e].at = "publish"]
     ELSE UNCHANGED state    /\ enq' = [enq EXCEPT ![e] = Idle]
  /\ UNCHANGED <<row, stored, requests, jobs, answers, embedding, faults, scene>>

\* A job that is not published stays claimed until it is stale.
Publish(e) ==
  /\ enq[e].at = "publish"
  /\ \/ jobs' = jobs \cup {enq[e].mode} /\ UNCHANGED faults
     \/ UNCHANGED jobs /\ Fault
  /\ enq' = [enq EXCEPT ![e] = Idle]
  /\ UNCHANGED <<row, state, stored, requests, answers, embedding, scene>>

\* A statement of it fails before the claim.
EnqueueFails(e) ==
  /\ enq[e].at \in {"mode", "claim"}
  /\ Fault
  /\ enq' = [enq EXCEPT ![e] = Idle]
  /\ UNCHANGED <<row, state, stored, requests, jobs, answers, embedding, scene>>

Enqueue(e) == FindAudio(e) \/ ReadMode(e) \/ Claim(e) \/ Publish(e)

\* A claim is stale after TRANSCRIBE_STALE.  A job that is still queued or
\* being answered then is a fault: the queue was longer than the code expects.
Unanswered == jobs # {} \/ answers # {} \/ \E e \in Enqueuers : enq[e].at = "publish"

GrowsStale ==
  /\ state = "pending"
  /\ state' = "stale"
  /\ IF Unanswered THEN Fault ELSE UNCHANGED faults
  /\ UNCHANGED <<row, stored, requests, selfgen, embedding, scene>>

----------------------------------------------------------------------------
(* The worker's transcription and persist_transcribe                        *)

NewAnswer(mode, heard) == [mode |-> mode, heard |-> heard, saved |-> FALSE, fresh |-> FALSE]

\* The worker acknowledges after it has answered.
Transcribe(m) ==
  /\ m \in jobs
  /\ \E heard \in BOOLEAN : answers' = answers \cup {NewAnswer(m, heard)}
  /\ \/ jobs' = jobs \ {m} /\ UNCHANGED faults
     \/ UNCHANGED jobs /\ Fault
  /\ UNCHANGED <<row, state, stored, requests, enq, embedding, scene>>

\* max_deliver is used up, or the job is older than the stream keeps it.
JobLost(m) ==
  /\ m \in jobs
  /\ Fault
  /\ jobs' = jobs \ {m}
  /\ UNCHANGED <<row, state, stored, requests, enq, answers, embedding, scene>>

Disable(a) ==
  /\ a \in answers /\ ~a.heard
  /\ state' = "disabled"
  /\ answers' = answers \ {a}
  /\ UNCHANGED <<row, stored, requests, enq, jobs, embedding, faults, scene>>

\* align_synced_lrc.sql: the words with time stamps are those whisper heard, beside the
\* row's own; a row is never deleted.
Align(a) ==
  /\ a \in answers /\ a.heard /\ a.mode = "align" /\ ~a.saved
  /\ row' = IF row # NoRow /\ row.lrc = NoText THEN [row EXCEPT !.lrc = SelfGen] ELSE row
  /\ answers' = (answers \ {a}) \cup {[a EXCEPT !.saved = TRUE]}
  /\ UNCHANGED <<state, stored, requests, enq, jobs, embedding, faults, scene>>

\* (mutant) The transcription takes the place of what an aggregator had.
SelfGenWins(a) ==
  /\ a \in answers /\ a.heard /\ a.mode = "full" /\ ~a.saved
  /\ row' = [Row(Heard) EXCEPT !.embedded = row.embedded]
  /\ answers' = (answers \ {a}) \cup {[a EXCEPT !.saved = TRUE, !.fresh = TRUE]}
  /\ UNCHANGED <<state, stored, requests, enq, jobs, embedding, faults, scene>>

\* insert_self_gen_lyrics.sql: ON CONFLICT DO NOTHING.
InsertSelfGen(a) ==
  /\ a \in answers /\ a.heard /\ a.mode = "full" /\ ~a.saved
  /\ row' = IF row = NoRow THEN Row(Heard) ELSE row
  /\ answers' = (answers \ {a}) \cup {[a EXCEPT !.saved = TRUE, !.fresh = (row = NoRow)]}
  /\ UNCHANGED <<state, stored, requests, enq, jobs, embedding, faults, scene>>

\* mark_transcribe_done; what was inserted now goes to after_found.
MarkDone(a) ==
  /\ a \in answers /\ a.saved
  /\ state' = "done"
  /\ answers' = answers \ {a}
  /\ embeds' = IF a.fresh THEN Spawned(SelfGen) ELSE embeds
  /\ UNCHANGED <<row, stored, requests, enq, jobs, vectors, vector, faults, scene>>

\* A statement fails: the answer is delivered again, or has been too often.
PersistFails(a) ==
  /\ a \in answers
  /\ Fault
  /\ \/ answers' = (answers \ {a}) \cup {NewAnswer(a.mode, a.heard)}
     \/ answers' = answers \ {a}
  /\ UNCHANGED <<row, state, stored, requests, enq, jobs, embedding, scene>>

Persist(a) == Disable(a) \/ Align(a) \/ InsertSelfGen(a) \/ MarkDone(a)

----------------------------------------------------------------------------
(* after_found, the embedding worker and the consumer of its answers        *)

\* after_found writes the language and publishes; when one of them fails, the
\* text waits for a reap.
AfterFoundFails(t) ==
  /\ t \in embeds
  /\ Fault
  /\ embeds' = embeds \ {t}
  /\ UNCHANGED <<row, state, stored, requests, selfgen, vectors, vector, scene>>

\* reap_embeds: the statement counts characters, and wants more than 30 of them.
Reaped(text) == text \notin ShortTexts \cup MiddleTexts \cup EdgeTexts

ReapEmbeds ==
  /\ row # NoRow /\ ~row.embedded /\ Reaped(row.text) /\ row.text \notin embeds
  /\ embeds' = Spawned(row.text)
  /\ UNCHANGED <<row, state, stored, requests, selfgen, vectors, vector, faults, scene>>

\* The worker skips a text of less than 30 characters; the consumer drops a skip.
Embed(t) ==
  /\ t \in embeds /\ "embed" \in scene
  /\ vectors' = IF t \in MiddleTexts THEN vectors
                ELSE vectors \cup {[text |-> t, stored |-> FALSE]}
  /\ \/ embeds' = embeds \ {t} /\ UNCHANGED faults
     \/ UNCHANGED embeds /\ Fault
  /\ UNCHANGED <<row, state, stored, requests, selfgen, vector, scene>>

UpsertVector(v) ==
  /\ v \in vectors /\ ~v.stored
  /\ vector' = v.text
  /\ vectors' = (vectors \ {v}) \cup {[v EXCEPT !.stored = TRUE]}
  /\ UNCHANGED <<row, state, stored, requests, selfgen, embeds, faults, scene>>

MarkEmbedded(v) ==
  /\ v \in vectors /\ v.stored
  /\ row' = [row EXCEPT !.embedded = TRUE]
  /\ vectors' = vectors \ {v}
  /\ UNCHANGED <<state, stored, requests, selfgen, embeds, vector, faults, scene>>

VectorFails(v) ==
  /\ v \in vectors
  /\ Fault
  /\ \/ vectors' = (vectors \ {v}) \cup {[v EXCEPT !.stored = FALSE]}
     \/ vectors' = vectors \ {v}
  /\ UNCHANGED <<row, state, stored, requests, selfgen, embeds, vector, scene>>

----------------------------------------------------------------------------
\* The backend restarts: tables and streams stay, what was being handled is
\* delivered again, and the spawned calls of after_found are gone.
Restart ==
  /\ Fault
  /\ req' = [r \in Requests |-> IF req[r].at \in {"ask", "answered"} THEN req[r] ELSE Hung]
  /\ inflight' = Nobody
  /\ result' = [r \in Requests |-> Unset]
  /\ enq' = [e \in Enqueuers |-> Idle]
  /\ answers' = {NewAnswer(a.mode, a.heard) : a \in answers}
  /\ vectors' = {[v EXCEPT !.stored = FALSE] : v \in vectors}
  /\ embeds' \in SUBSET embeds
  /\ UNCHANGED <<row, state, stored, jobs, vector, scene>>

Request(r) ==
  \/ ReadCache(r) \/ LookUp(r) \/ MakeMutex(r) \/ EnterMutex(r)
  \/ \E t \in Texts : SearchFinds(r, t)
  \/ SearchFindsNothing(r) \/ SaveFound(r) \/ RequestFails(r)

BeginEnqueue(e) == HandleUploaded(e) \/ ReapWhisper(e) \/ EnqueueForRequest(e)

\* Nothing is left to do but what time or listeners bring.
Rest ==
  /\ \A r \in Requests : req[r].at = "answered"
  /\ enq = [e \in Enqueuers |-> Idle]
  /\ jobs = {} /\ answers = {} /\ vectors = {} /\ (embeds = {} \/ "embed" \notin scene)
  /\ UNCHANGED vars

Next ==
  \/ \E r \in Requests : Request(r)
  \/ Forget \/ Uploaded \/ MarkTooLong \/ GrowsStale
  \/ \E e \in Enqueuers : BeginEnqueue(e) \/ Enqueue(e) \/ EnqueueFails(e)
  \/ \E m \in jobs : Transcribe(m) \/ JobLost(m)
  \/ \E a \in answers : Persist(a) \/ PersistFails(a)
  \/ \E t \in embeds : Embed(t) \/ AfterFoundFails(t)
  \/ \E v \in vectors : UpsertVector(v) \/ MarkEmbedded(v) \/ VectorFails(v)
  \/ ReapEmbeds
  \/ Restart \/ Rest

Spec == Init /\ [][Next]_vars

(* Queues are read, timers and reaps run, and what was spawned goes on. Nobody *)
(* has to upload audio or ask for lyrics.                                      *)
Fairness ==
  /\ WF_vars(ReapEmbeds) /\ WF_vars(\E e \in Enqueuers : ReapWhisper(e))
  /\ WF_vars(GrowsStale /\ ~Unanswered)
  /\ \A e \in Enqueuers : WF_vars(Enqueue(e))
  /\ WF_vars(\E m \in jobs : Transcribe(m))
  /\ WF_vars(\E a \in answers : Disable(a) \/ Align(a) \/ InsertSelfGen(a))
  /\ WF_vars(\E a \in answers : MarkDone(a))
  /\ WF_vars(\E t \in embeds : Embed(t))
  /\ WF_vars(\E v \in vectors : UpsertVector(v)) /\ WF_vars(\E v \in vectors : MarkEmbedded(v))

FairSpec == Spec /\ Fairness

----------------------------------------------------------------------------
(* Type correctness: the shape of the variables.                           *)
AllTexts  == Texts \cup {SelfGen}
Responses == [text : AllTexts \cup {NoText}, lrc : AllTexts \cup {NoText}]
LyricsTypeOK ==
  /\ row \in [text : AllTexts \cup {NoText}, lrc : AllTexts \cup {NoText}, embedded : BOOLEAN]
  /\ state \in {"null", "pending", "stale"} \cup Settled
  /\ stored \in {"no", "ok", "too_long"}
  /\ req \in [Requests -> [at : {"ask", "look", "make", "wait", "search", "save", "answered"},
                           lock : Requests \cup {Nobody},
                           text : AllTexts \cup {NoText}, shown : Responses]]
  /\ inflight \in Requests \cup {Nobody}
  /\ result \in [Requests -> Responses \cup {Unset}]
  /\ enq \in [Enqueuers -> [at : {"idle", "url", "mode", "claim", "publish"},
                            mode : {"none", "align", "full"}]]
  /\ jobs \subseteq {"align", "full"}
  /\ answers \subseteq [mode : {"align", "full"}, heard : BOOLEAN, saved : BOOLEAN, fresh : BOOLEAN]
  /\ embeds \subseteq AllTexts
  /\ vectors \subseteq [text : AllTexts, stored : BOOLEAN]
  /\ vector \in AllTexts \cup {NoText}
  /\ faults \in 0 .. MaxFaults

\* A response is nothing, or the row's, but for whisper's words that came later.
Fits(shown, w) ==
  /\ shown.text \in {NoText, w.text}
  /\ shown.lrc \in {NoText, w.lrc}
  /\ shown.lrc # w.lrc => shown = Nothing \/ w.lrc = SelfGen

(* What a listener is shown is what is stored, and so what every other     *)
(* listener is shown: two searches of the same track, each behind a mutex  *)
(* of its own, and a transcription that ends between them, never leave two *)
(* texts, or two sets of time stamps, in the world.  Whisper's own words   *)
(* may join a text that has no time stamps: only then does a later         *)
(* listener get more than an earlier one.                                  *)
ShownIsStored == \A r \in Requests : Fits(req[r].shown, row)

(* The vector in Qdrant is that of the stored text, and a row marked as    *)
(* embedded has one: whichever of an aggregator and whisper comes first,   *)
(* whatever is delivered again or fails between the upsert and the mark.   *)
VectorMatches ==
  /\ vector \in {NoText, row.text}
  /\ row.embedded => vector = row.text

(* A track whose transcription has ended, with a text or disabled, is      *)
(* never claimed again: not by an upload, a request or a reap that found   *)
(* it eligible before it asked the store for the audio.                    *)
SettledForGood == [][(state \in Settled) => (state' \in Settled)]_vars

(* Every stored track is transcribed, disabled or has synchronised lyrics  *)
(* in the end, and every text of more than 30 characters gets its vector:  *)
(* jobs, answers and publications may be lost and the backend may restart. *)
LyricsSettle ==
  /\ stored = "ok" ~> (state \in Settled \/ row.lrc # NoText)
  /\ ("embed" \in scene /\ row # NoRow /\ Reaped(row.text)) ~> row.embedded
=============================================================================
