---------------------------- MODULE LyricsProofs ----------------------------
(* The lyrics of a track: the row's first text is the only one that is ever  *)
(* shown or embedded, and what has been settled is not claimed again.        *)
EXTENDS Lyrics, TLAPS

ReqState ==
  [at : {"ask", "look", "make", "wait", "search", "save", "answered"},
   lock : Requests \cup {Nobody},
   text : AllTexts \cup {NoText}, shown : Responses]

RowSet == [text : AllTexts \cup {NoText}, lrc : AllTexts \cup {NoText}, embedded : BOOLEAN]

\* A request that waits has a mutex, and one that saves has found a text.
SearchShape ==
  \A r \in Requests :
    /\ req[r].at = "wait" => req[r].lock \in Requests
    /\ req[r].at = "save" => req[r].text \in Texts

\* What is claimed and published has a mode.
ModeShape ==
  \A e \in Enqueuers : enq[e].at \in {"claim", "publish"} => enq[e].mode \in {"align", "full"}

ShapeInv == LyricsTypeOK /\ SearchShape /\ ModeShape

\* Whatever holds or carries a text has that of this row.
Follow(w) ==
  /\ \A r \in Requests : Fits(req[r].shown, w) /\ (result[r] = Unset \/ Fits(result[r], w))
  /\ embeds \subseteq {w.text}
  /\ \A v \in vectors : v.text = w.text /\ (v.stored => vector = w.text)
  /\ \A a \in answers : a.fresh => w.text = SelfGen

\* A row has a text, and everything else has the row's.
RowHasText == row.text = NoText => row = NoRow
OneText    == RowHasText /\ Follow(row) /\ VectorMatches

LyricsInv == ShapeInv /\ OneText

----------------------------------------------------------------------------
(* What fits a row                                                          *)

LEMMA ResponseShapes ==
  /\ Nothing \in Responses
  /\ \A t \in Texts : Found(t) \in Responses
  /\ \A w \in RowSet : ToResponse(w) \in Responses
  /\ \A l \in Responses : Row(l) \in RowSet
BY DEF Nothing, Responses, Found, AllTexts, RowSet, ToResponse, Row

\* Nothing always fits, and what was read from the row fits it.
LEMMA FitsAtFirst ==
  ASSUME NEW w \in RowSet
  PROVE  Fits(Nothing, w) /\ Fits(ToResponse(w), w)
BY DEF Fits, Nothing, ToResponse, RowSet

\* Before there is a row only nothing fits.
LEMMA FitsNoRow ==
  ASSUME NEW l \in Responses, Fits(l, NoRow)
  PROVE  l = Nothing
BY DEF Fits, NoRow, Row, Nothing, Responses

\* Whisper's words may come to a row without time stamps.
LEMMA FitsAligned ==
  ASSUME NEW w \in RowSet, w.lrc = NoText, NEW l \in Responses, Fits(l, w)
  PROVE  Fits(l, [w EXCEPT !.lrc = SelfGen])
<1>1. /\ [w EXCEPT !.lrc = SelfGen].text = w.text
      /\ [w EXCEPT !.lrc = SelfGen].lrc = SelfGen
  BY DEF RowSet
<1> QED
  BY <1>1 DEF Fits

\* Only the words matter.
LEMMA FitsSame ==
  ASSUME NEW w, NEW z, z.text = w.text, z.lrc = w.lrc, NEW l, Fits(l, w)
  PROVE  Fits(l, z)
BY DEF Fits

----------------------------------------------------------------------------
(* The shapes: what a request does                                          *)

LEMMA FaultsCounted ==
  ASSUME faults \in 0 .. MaxFaults, Fault
  PROVE  faults' \in 0 .. MaxFaults
BY FaultAssumption DEF Fault

\* What may become of a request.
LEMMA RequestTurns ==
  ASSUME ShapeInv, NEW r \in Requests, NEW q \in ReqState,
         q.at = "wait" => q.lock \in Requests, q.at = "save" => q.text \in Texts,
         req' = [req EXCEPT ![r] = q]
  PROVE  req' \in [Requests -> ReqState] /\ SearchShape'
<1>1. req \in [Requests -> ReqState]
  BY DEF ShapeInv, LyricsTypeOK, ReqState
<1>2. req' \in [Requests -> ReqState]
  BY <1>1
<1>3. ASSUME NEW o \in Requests
      PROVE  /\ req'[o].at = "wait" => req'[o].lock \in Requests
             /\ req'[o].at = "save" => req'[o].text \in Texts
  BY <1>1, <1>3 DEF ShapeInv, SearchShape
<1> QED
  BY <1>2, <1>3 DEF SearchShape

LEMMA AnswerTurns ==
  ASSUME ShapeInv, NEW r \in Requests, NEW t \in Responses, Answer(r, t)
  PROVE  req' \in [Requests -> ReqState] /\ SearchShape'
<1>1. [Hung EXCEPT !.shown = t] \in ReqState /\ [Hung EXCEPT !.shown = t].at = "answered"
  BY DEF Hung, ReqState
<1> QED
  BY <1>1, RequestTurns DEF Answer

\* The shapes of what a request may change.
RequestTyped ==
  /\ row' \in RowSet
  /\ req' \in [Requests -> ReqState] /\ SearchShape'
  /\ inflight' \in Requests \cup {Nobody}
  /\ result' \in [Requests -> Responses \cup {Unset}]
  /\ embeds' \subseteq AllTexts
  /\ faults' \in 0 .. MaxFaults

LEMMA RequestShape ==
  ASSUME ShapeInv, RowHasText, NEW r \in Requests, Request(r)
  PROVE  RequestTyped
<1> USE DEF RequestTyped, embedding
<1>1. /\ req \in [Requests -> ReqState] /\ req[r] \in ReqState
      /\ row \in RowSet
      /\ inflight \in Requests \cup {Nobody}
      /\ result \in [Requests -> Responses \cup {Unset}]
      /\ embeds \subseteq AllTexts
      /\ faults \in 0 .. MaxFaults
  BY DEF ShapeInv, LyricsTypeOK, ReqState, RowSet
<1>2. /\ req[r].at = "wait" => req[r].lock \in Requests
      /\ req[r].at = "save" => req[r].text \in Texts
  BY DEF ShapeInv, SearchShape
<1>3. Texts \subseteq AllTexts /\ NoText \in AllTexts \cup {NoText}
  BY DEF AllTexts
<1>4. CASE ReadCache(r)
  <2>1. CASE row # NoRow
    BY <1>1, <1>4, <2>1, ResponseShapes, AnswerTurns DEF ReadCache, Spawned, RowHasText, RowSet
  <2>2. CASE row = NoRow
    <3> DEFINE q == [req[r] EXCEPT !.at = "look"]
    <3>1. req' = [req EXCEPT ![r] = q]
      BY <1>4, <2>2 DEF ReadCache
    <3>2. q \in ReqState /\ q.at = "look"
      BY <1>1 DEF ReqState
    <3>3. req' \in [Requests -> ReqState] /\ SearchShape'
      BY <3>1, <3>2, RequestTurns
    <3> QED
      BY <1>1, <1>4, <2>2, <3>3 DEF ReadCache
  <2> QED
    BY <2>1, <2>2
<1>5. CASE LookUp(r)
  <2> DEFINE q == IF inflight # Nobody THEN [req[r] EXCEPT !.at = "wait", !.lock = inflight]
                                       ELSE [req[r] EXCEPT !.at = "make"]
  <2>1. req' = [req EXCEPT ![r] = q]
    BY <1>5 DEF LookUp
  <2>2. q \in ReqState /\ q.at # "save" /\ (q.at = "wait" => q.lock \in Requests)
    BY <1>1 DEF ReqState
  <2> HIDE DEF q
  <2> QED
    BY <1>1, <1>5, <2>1, <2>2, RequestTurns DEF LookUp
<1>6. CASE MakeMutex(r)
  <2> DEFINE q == [req[r] EXCEPT !.at = "wait", !.lock = r]
  <2>1. req' = [req EXCEPT ![r] = q]
    BY <1>6 DEF MakeMutex
  <2>2. q \in ReqState /\ q.at = "wait" /\ q.lock \in Requests
    BY <1>1 DEF ReqState
  <2> QED
    BY <1>1, <1>6, <2>1, <2>2, RequestTurns DEF MakeMutex
<1>7. CASE EnterMutex(r)
  <2>1. result[req[r].lock] \in Responses \cup {Unset}
    BY <1>1, <1>2, <1>7 DEF EnterMutex
  <2>2. CASE result[req[r].lock] # Unset
    BY <1>1, <1>7, <2>1, <2>2, AnswerTurns DEF EnterMutex
  <2>3. CASE result[req[r].lock] = Unset
    <3> DEFINE q == [req[r] EXCEPT !.at = "search"]
    <3>1. req' = [req EXCEPT ![r] = q]
      BY <1>7, <2>3 DEF EnterMutex
    <3>2. q \in ReqState /\ q.at = "search"
      BY <1>1 DEF ReqState
    <3> QED
      BY <1>1, <1>7, <3>1, <3>2, RequestTurns DEF EnterMutex
  <2> QED
    BY <2>2, <2>3
<1>8. ASSUME NEW t \in Texts, SearchFinds(r, t) PROVE RequestTyped
  <2> DEFINE q == [req[r] EXCEPT !.at = "save", !.text = t]
  <2>1. req' = [req EXCEPT ![r] = q]
    BY <1>8 DEF SearchFinds
  <2>2. q \in ReqState /\ q.at = "save" /\ q.text \in Texts
    BY <1>1, <1>3 DEF ReqState
  <2> QED
    BY <1>1, <1>8, <2>1, <2>2, RequestTurns DEF SearchFinds
<1>9. CASE SearchFindsNothing(r)
  BY <1>1, <1>9, ResponseShapes, AnswerTurns DEF SearchFindsNothing, Conclude
<1>10. CASE SaveFound(r)
  <2>1. req[r].text \in Texts /\ req[r].text \in AllTexts
    BY <1>2, <1>3, <1>10 DEF SaveFound
  <2>2. CASE row = NoRow
    <3> DEFINE l == Found(req[r].text)
    <3>1. l \in Responses /\ Row(l) \in RowSet
      BY <2>1, ResponseShapes
    <3>2. /\ row' = Row(l) /\ Answer(r, l)
          /\ result' = [result EXCEPT ![req[r].lock] = l]
          /\ embeds' \subseteq embeds \cup {req[r].text}
          /\ UNCHANGED <<inflight, faults>>
      BY <1>10, <2>2 DEF SaveFound, Conclude, Spawned
    <3> HIDE DEF l
    <3> QED
      BY <1>1, <2>1, <3>1, <3>2, AnswerTurns
  <2>3. CASE row # NoRow
    BY <1>1, <1>10, <2>3, ResponseShapes, AnswerTurns DEF SaveFound
  <2> QED
    BY <2>2, <2>3
<1>11. CASE RequestFails(r)
  BY <1>1, <1>11, ResponseShapes, AnswerTurns, FaultsCounted DEF RequestFails
<1> QED
  BY <1>4, <1>5, <1>6, <1>7, <1>8, <1>9, <1>10, <1>11 DEF Request

----------------------------------------------------------------------------
(* The shapes: every other step                                             *)

EnqState == [at : {"idle", "url", "mode", "claim", "publish"}, mode : {"none", "align", "full"}]

LEMMA EnqueueShape ==
  ASSUME ShapeInv, NEW e \in Enqueuers, BeginEnqueue(e) \/ Enqueue(e) \/ EnqueueFails(e)
  PROVE  ShapeInv'
<1>1. /\ enq \in [Enqueuers -> EnqState] /\ enq[e] \in EnqState
      /\ state \in {"null", "pending", "stale"} \cup Settled
      /\ jobs \subseteq {"align", "full"} /\ faults \in 0 .. MaxFaults
  BY DEF ShapeInv, LyricsTypeOK, EnqState
<1>2. ASSUME NEW q \in EnqState, enq' = [enq EXCEPT ![e] = q],
             q.at \in {"claim", "publish"} => q.mode \in {"align", "full"}
      PROVE  enq' \in [Enqueuers -> EnqState] /\ ModeShape'
  BY <1>1, <1>2 DEF ShapeInv, ModeShape
<1>3. Idle \in EnqState /\ Idle.at = "idle"
  BY DEF Idle, EnqState
<1>4. ASSUME NEW at \in {"mode", "url", "publish"}, enq' = [enq EXCEPT ![e].at = at],
             at = "publish" => enq[e].at = "claim"
      PROVE  enq' \in [Enqueuers -> EnqState] /\ ModeShape'
  <2> DEFINE q == [enq[e] EXCEPT !.at = at]
  <2>1. enq' = [enq EXCEPT ![e] = q]
    BY <1>4
  <2>2. q \in EnqState /\ q.at = at /\ q.mode = enq[e].mode
    BY <1>1 DEF EnqState
  <2>3. q.at \in {"claim", "publish"} => q.mode \in {"align", "full"}
    BY <1>4, <2>2 DEF ShapeInv, ModeShape
  <2> HIDE DEF q
  <2> QED
    BY <1>2, <2>1, <2>2, <2>3
<1>5. /\ enq' \in [Enqueuers -> EnqState] /\ ModeShape'
      /\ state' \in {"null", "pending", "stale"} \cup Settled
      /\ jobs' \subseteq {"align", "full"} /\ faults' \in 0 .. MaxFaults
      /\ UNCHANGED <<row, stored, requests, answers, embedding>>
  <2>1. CASE BeginEnqueue(e)
    BY <1>1, <1>4, <2>1 DEF BeginEnqueue, HandleUploaded, ReapWhisper, EnqueueForRequest, Begin
  <2>2. CASE FindAudio(e)
    BY <1>1, <1>2, <1>3, <1>4, <2>2 DEF FindAudio
  <2>3. CASE ReadMode(e)
    <3> DEFINE q == IF row.lrc # NoText THEN Idle
                    ELSE [at |-> "claim", mode |-> IF row # NoRow THEN "align" ELSE "full"]
    <3>1. enq' = [enq EXCEPT ![e] = q]
      BY <2>3 DEF ReadMode
    <3>2. q \in EnqState /\ (q.at \in {"claim", "publish"} => q.mode \in {"align", "full"})
      BY <1>3 DEF EnqState
    <3> HIDE DEF q
    <3> QED
      BY <1>1, <1>2, <2>3, <3>1, <3>2 DEF ReadMode
  <2>4. CASE Claim(e)
    BY <1>1, <1>2, <1>3, <1>4, <2>4 DEF Claim
  <2>5. CASE Publish(e)
    <3>1. enq[e].mode \in {"align", "full"}
      BY <2>5 DEF Publish, ShapeInv, ModeShape
    <3> QED
      BY <1>1, <1>2, <1>3, <2>5, <3>1, FaultsCounted DEF Publish
  <2>6. CASE EnqueueFails(e)
    BY <1>1, <1>2, <1>3, <2>6, FaultsCounted DEF EnqueueFails
  <2> QED
    BY <2>1, <2>2, <2>3, <2>4, <2>5, <2>6 DEF Enqueue
<1> QED
  BY <1>5 DEF ShapeInv, LyricsTypeOK, SearchShape, EnqState, requests, embedding

AnswerSet == [mode : {"align", "full"}, heard : BOOLEAN, saved : BOOLEAN, fresh : BOOLEAN]
VectorSet == [text : AllTexts, stored : BOOLEAN]

\* The shapes of what the worker and the consumers of its answers may change.
WorkTyped ==
  /\ row' \in RowSet
  /\ state' \in {"null", "pending", "stale"} \cup Settled
  /\ stored' \in {"no", "ok", "too_long"}
  /\ inflight' \in Requests \cup {Nobody}
  /\ jobs' \subseteq {"align", "full"}
  /\ answers' \subseteq AnswerSet
  /\ embeds' \subseteq AllTexts
  /\ vectors' \subseteq VectorSet
  /\ vector' \in AllTexts \cup {NoText}
  /\ faults' \in 0 .. MaxFaults
  /\ UNCHANGED <<req, result, enq>>

Works ==
  \/ Forget \/ Uploaded \/ MarkTooLong \/ GrowsStale \/ ReapEmbeds
  \/ \E m \in jobs : Transcribe(m) \/ JobLost(m)
  \/ \E a \in answers : Persist(a) \/ PersistFails(a)
  \/ \E t \in embeds : Embed(t) \/ AfterFoundFails(t)
  \/ \E v \in vectors : UpsertVector(v) \/ MarkEmbedded(v) \/ VectorFails(v)

LEMMA WorkShape ==
  ASSUME ShapeInv, RowHasText, Works
  PROVE  WorkTyped
<1>1. /\ row \in RowSet
      /\ state \in {"null", "pending", "stale"} \cup Settled
      /\ stored \in {"no", "ok", "too_long"}
      /\ inflight \in Requests \cup {Nobody}
      /\ jobs \subseteq {"align", "full"}
      /\ answers \subseteq AnswerSet
      /\ embeds \subseteq AllTexts
      /\ vectors \subseteq VectorSet
      /\ vector \in AllTexts \cup {NoText}
      /\ faults \in 0 .. MaxFaults
  BY DEF ShapeInv, LyricsTypeOK, RowSet, AnswerSet, VectorSet
<1> USE DEF WorkTyped, requests, selfgen, embedding
<1>2. CASE Forget \/ Uploaded \/ MarkTooLong
  BY <1>1, <1>2 DEF Forget, Uploaded, MarkTooLong, Settled
<1>3. CASE GrowsStale
  BY <1>1, <1>3, FaultsCounted DEF GrowsStale
<1>4. CASE ReapEmbeds
  BY <1>1, <1>4 DEF ReapEmbeds, Spawned, RowHasText, RowSet
<1>5. ASSUME NEW m \in jobs, Transcribe(m) PROVE WorkTyped
  <2>1. \A heard \in BOOLEAN : NewAnswer(m, heard) \in AnswerSet
    BY <1>1 DEF NewAnswer, AnswerSet
  <2> QED
    BY <1>1, <1>5, <2>1, FaultsCounted DEF Transcribe
<1>6. ASSUME NEW m \in jobs, JobLost(m) PROVE WorkTyped
  BY <1>1, <1>6, FaultsCounted DEF JobLost
<1>7. ASSUME NEW a \in answers, Disable(a) PROVE WorkTyped
  BY <1>1, <1>7 DEF Disable, Settled
<1>8. ASSUME NEW a \in answers, Align(a) PROVE WorkTyped
  <2>1. [row EXCEPT !.lrc = SelfGen] \in RowSet
    BY <1>1 DEF RowSet, AllTexts
  <2>2. [a EXCEPT !.saved = TRUE] \in AnswerSet
    BY <1>1 DEF AnswerSet
  <2> QED
    BY <1>1, <1>8, <2>1, <2>2 DEF Align
<1>9. ASSUME NEW a \in answers, InsertSelfGen(a) PROVE WorkTyped
  <2>1. Row(Heard) \in RowSet
    BY DEF RowSet, Row, Heard, AllTexts
  <2>2. [a EXCEPT !.saved = TRUE, !.fresh = (row = NoRow)] \in AnswerSet
    <3>1. ASSUME NEW b \in BOOLEAN PROVE [a EXCEPT !.saved = TRUE, !.fresh = b] \in AnswerSet
      BY <1>1 DEF AnswerSet
    <3>2. (row = NoRow) \in BOOLEAN
      OBVIOUS
    <3> QED
      BY <3>1, <3>2, Zenon
  <2> QED
    BY <1>1, <1>9, <2>1, <2>2 DEF InsertSelfGen
<1>10. ASSUME NEW a \in answers, MarkDone(a) PROVE WorkTyped
  BY <1>1, <1>10 DEF MarkDone, Settled, Spawned, AllTexts
<1>11. ASSUME NEW a \in answers, PersistFails(a) PROVE WorkTyped
  <2>1. NewAnswer(a.mode, a.heard) \in AnswerSet
    BY <1>1 DEF NewAnswer, AnswerSet
  <2> QED
    BY <1>1, <1>11, <2>1, FaultsCounted DEF PersistFails
<1>12. ASSUME NEW t \in embeds, Embed(t) PROVE WorkTyped
  <2>1. [text |-> t, stored |-> FALSE] \in VectorSet
    BY <1>1 DEF VectorSet
  <2> QED
    BY <1>1, <1>12, <2>1, FaultsCounted DEF Embed
<1>13. ASSUME NEW t \in embeds, AfterFoundFails(t) PROVE WorkTyped
  BY <1>1, <1>13, FaultsCounted DEF AfterFoundFails
<1>14. ASSUME NEW v \in vectors, UpsertVector(v) \/ MarkEmbedded(v) \/ VectorFails(v)
       PROVE  WorkTyped
  <2>1. \A b \in BOOLEAN : [v EXCEPT !.stored = b] \in VectorSet
    BY <1>1 DEF VectorSet
  <2>2. [row EXCEPT !.embedded = TRUE] \in RowSet
    BY <1>1 DEF RowSet
  <2>3. v.text \in AllTexts
    BY <1>1 DEF VectorSet
  <2> QED
    BY <1>1, <1>14, <2>1, <2>2, <2>3, FaultsCounted DEF UpsertVector, MarkEmbedded, VectorFails
<1> QED
  BY <1>2, <1>3, <1>4, <1>5, <1>6, <1>7, <1>8, <1>9, <1>10, <1>11, <1>12, <1>13, <1>14
     DEF Works, Persist

LEMMA RestartShape ==
  ASSUME ShapeInv, Restart
  PROVE  ShapeInv'
<1>1. /\ req \in [Requests -> ReqState] /\ enq \in [Enqueuers -> EnqState]
      /\ answers \subseteq AnswerSet /\ vectors \subseteq VectorSet
  BY DEF ShapeInv, LyricsTypeOK, ReqState, EnqState, AnswerSet, VectorSet
<1>2. Hung \in ReqState /\ Hung.at = "answered" /\ Idle \in EnqState /\ Idle.at = "idle"
  BY ResponseShapes DEF Hung, ReqState, Idle, EnqState
<1>3. req' \in [Requests -> ReqState] /\ SearchShape'
  <2>1. ASSUME NEW r \in Requests
        PROVE  req'[r] \in ReqState /\ (req'[r] = req[r] \/ req'[r].at = "answered")
    BY <1>1, <1>2 DEF Restart
  <2>2. req' \in [Requests -> ReqState]
    BY <1>1, <1>2 DEF Restart
  <2> QED
    BY <2>1, <2>2 DEF SearchShape, ShapeInv
<1>4. enq' \in [Enqueuers -> EnqState] /\ ModeShape'
  BY <1>2 DEF Restart, ModeShape
<1>5. answers' \subseteq AnswerSet /\ vectors' \subseteq VectorSet
  <2>1. ASSUME NEW a \in answers PROVE NewAnswer(a.mode, a.heard) \in AnswerSet
    BY <1>1 DEF NewAnswer, AnswerSet
  <2>2. ASSUME NEW v \in vectors PROVE [v EXCEPT !.stored = FALSE] \in VectorSet
    BY <1>1 DEF VectorSet
  <2> QED
    BY <2>1, <2>2 DEF Restart
<1>6. inflight' = Nobody /\ result' \in [Requests -> Responses \cup {Unset}]
  BY DEF Restart
<1>7. /\ faults' \in 0 .. MaxFaults /\ embeds' \subseteq AllTexts
      /\ UNCHANGED <<row, state, stored, jobs, vector>>
  BY FaultsCounted DEF Restart, ShapeInv, LyricsTypeOK
<1> QED
  BY <1>3, <1>4, <1>5, <1>6, <1>7
     DEF ShapeInv, LyricsTypeOK, ReqState, EnqState, AnswerSet, VectorSet

LEMMA ShapeNext ==
  ASSUME ShapeInv, RowHasText, [Next]_vars
  PROVE  ShapeInv'
<1>1. CASE UNCHANGED vars \/ Rest
  BY <1>1 DEF Rest, vars, requests, selfgen, embedding, ShapeInv, LyricsTypeOK, SearchShape,
     ModeShape
<1>2. ASSUME NEW r \in Requests, Request(r) PROVE ShapeInv'
  <2>1. RequestTyped
    BY <1>2, RequestShape
  <2>2. UNCHANGED <<state, stored, enq, jobs, answers, vectors, vector>>
    BY <1>2 DEF Request, ReadCache, LookUp, MakeMutex, EnterMutex, SearchFinds,
       SearchFindsNothing, SaveFound, RequestFails, selfgen, embedding
  <2> QED
    BY <2>1, <2>2 DEF RequestTyped, ShapeInv, LyricsTypeOK, ModeShape, ReqState, RowSet
<1>3. ASSUME NEW e \in Enqueuers, BeginEnqueue(e) \/ Enqueue(e) \/ EnqueueFails(e)
      PROVE  ShapeInv'
  BY <1>3, EnqueueShape
<1>4. CASE Works
  <2>1. WorkTyped
    BY <1>4, WorkShape
  <2> QED
    BY <2>1 DEF WorkTyped, ShapeInv, LyricsTypeOK, SearchShape, ModeShape,
       RowSet, AnswerSet, VectorSet
<1>5. CASE Restart
  BY <1>5, RestartShape
<1> QED
  BY <1>1, <1>2, <1>3, <1>4, <1>5 DEF Next, Works

----------------------------------------------------------------------------
(* One text                                                                 *)

\* Before there is a row, nothing has a text.
LEMMA NothingYet ==
  ASSUME LyricsInv, row = NoRow
  PROVE  /\ embeds = {} /\ vectors = {} /\ vector = NoText
         /\ \A a \in answers : ~a.fresh
         /\ \A r \in Requests : req[r].shown = Nothing /\ result[r] \in {Unset, Nothing}
<1>1. row.text = NoText /\ NoText \notin AllTexts /\ NoText # SelfGen
  BY NoTextAssumption DEF NoRow, Row, Nothing, AllTexts
<1>2. /\ req \in [Requests -> ReqState] /\ result \in [Requests -> Responses \cup {Unset}]
      /\ Follow(NoRow)
  BY DEF LyricsInv, ShapeInv, LyricsTypeOK, OneText, ReqState
<1>3. \A r \in Requests : req[r].shown = Nothing
  BY <1>2, FitsNoRow DEF Follow, ReqState
<1>4. \A r \in Requests : result[r] \in {Unset, Nothing}
  BY <1>2, FitsNoRow DEF Follow
<1> QED
  BY <1>1, <1>3, <1>4 DEF LyricsInv, ShapeInv, LyricsTypeOK, OneText, Follow, VectorMatches

LEMMA RequestText ==
  ASSUME LyricsInv, NEW r \in Requests, Request(r)
  PROVE  OneText'
<1>1. /\ req \in [Requests -> ReqState] /\ result \in [Requests -> Responses \cup {Unset}]
      /\ req[r].at = "wait" => req[r].lock \in Requests
      /\ req[r].at = "save" => req[r].text \in Texts
  BY DEF LyricsInv, ShapeInv, LyricsTypeOK, ReqState, SearchShape
<1>2. RowHasText /\ Follow(row) /\ VectorMatches
  BY DEF LyricsInv, OneText
<1>3. ASSUME NEW l, Fits(l, row), Answer(r, l)
      PROVE  \A o \in Requests : Fits(req'[o].shown, row)
  <2>1. ASSUME NEW o \in Requests PROVE req'[o].shown = IF o = r THEN l ELSE req[o].shown
    BY <1>1, <1>3 DEF Answer, Hung
  <2> QED
    BY <1>2, <1>3, <2>1 DEF Follow
<1>4. row \in RowSet /\ Fits(Nothing, row) /\ Fits(ToResponse(row), row)
  BY FitsAtFirst DEF LyricsInv, ShapeInv, LyricsTypeOK, RowSet
<1>5. ASSUME UNCHANGED <<row, vectors, vector, answers>>, embeds' \subseteq {row.text},
             \A o \in Requests : Fits(req'[o].shown, row),
             \A o \in Requests : result'[o] = Unset \/ Fits(result'[o], row)
      PROVE  OneText'
  BY <1>2, <1>5 DEF OneText, Follow, VectorMatches, RowHasText
<1>6. CASE ReadCache(r)
  <2>1. UNCHANGED <<row, result, answers, vectors, vector>> /\ embeds' \subseteq {row.text}
    BY <1>2, <1>6 DEF ReadCache, Spawned, Follow, selfgen
  <2>2. \A o \in Requests : Fits(req'[o].shown, row)
    <3>1. CASE row # NoRow
      BY <1>3, <1>4, <1>6, <3>1 DEF ReadCache
    <3>2. CASE row = NoRow
      <4>1. \A o \in Requests : req'[o].shown = req[o].shown
        BY <1>1, <1>6, <3>2 DEF ReadCache, ReqState
      <4> QED
        BY <1>2, <4>1 DEF Follow
    <3> QED
      BY <3>1, <3>2
  <2> QED
    BY <1>2, <1>5, <2>1, <2>2 DEF Follow
<1>7. CASE \/ LookUp(r) \/ MakeMutex(r) \/ \E t \in Texts : SearchFinds(r, t)
           \/ EnterMutex(r) \/ RequestFails(r)
  <2>1. UNCHANGED <<row, result, embedding, answers>>
    BY <1>7 DEF LookUp, MakeMutex, SearchFinds, EnterMutex, RequestFails, selfgen
  <2>2. \A o \in Requests : Fits(req'[o].shown, row)
    <3>1. CASE LookUp(r) \/ MakeMutex(r) \/ \E t \in Texts : SearchFinds(r, t)
      <4>1. \A o \in Requests : req'[o].shown = req[o].shown
        BY <1>1, <3>1 DEF LookUp, MakeMutex, SearchFinds, ReqState
      <4> QED
        BY <1>2, <4>1 DEF Follow
    <3>2. CASE RequestFails(r)
      BY <1>3, <1>4, <3>2 DEF RequestFails
    <3>3. CASE EnterMutex(r) /\ result[req[r].lock] # Unset
      BY <1>1, <1>2, <1>3, <3>3 DEF EnterMutex, Follow
    <3>4. CASE EnterMutex(r) /\ result[req[r].lock] = Unset
      <4>1. \A o \in Requests : req'[o].shown = req[o].shown
        BY <1>1, <3>4 DEF EnterMutex, ReqState
      <4> QED
        BY <1>2, <4>1 DEF Follow
    <3> QED
      BY <1>7, <3>1, <3>2, <3>3, <3>4
  <2> QED
    BY <1>2, <1>5, <2>1, <2>2 DEF Follow, embedding
<1>8. CASE SearchFindsNothing(r)
  <2>1. UNCHANGED <<row, embedding, answers>> /\ Answer(r, Nothing)
    BY <1>8 DEF SearchFindsNothing, Conclude, selfgen
  <2>2. \A o \in Requests : result'[o] = Unset \/ Fits(result'[o], row)
    BY <1>1, <1>2, <1>4, <1>8 DEF SearchFindsNothing, Conclude, Follow
  <2> QED
    BY <1>2, <1>3, <1>4, <1>5, <2>1, <2>2 DEF Follow, embedding
<1>9. CASE SaveFound(r)
  <2>1. CASE row # NoRow
    <3>1. UNCHANGED <<row, result, embedding, answers>> /\ Answer(r, Nothing)
      BY <1>9, <2>1 DEF SaveFound, selfgen, embedding
    <3> QED
      BY <1>2, <1>3, <1>4, <1>5, <3>1 DEF Follow, embedding
  <2>2. CASE row = NoRow
    <3> DEFINE t == req[r].text
               l == Found(t)
               z == Row(l)
    <3>1. t \in AllTexts /\ t # NoText
      BY <1>1, <1>9, NoTextAssumption DEF SaveFound, AllTexts
    <3>2. z \in RowSet /\ z.text = t /\ z.embedded = FALSE /\ l = ToResponse(z)
      BY <1>1, <1>9, ResponseShapes DEF SaveFound, Row, Found, ToResponse
    <3>3. row' = z /\ Answer(r, l) /\ result' = [result EXCEPT ![req[r].lock] = l]
      BY <1>9, <2>2 DEF SaveFound, Conclude
    <3>4. embeds' \subseteq {t} /\ vectors' = {} /\ vector' = NoText /\ \A a \in answers' : ~a.fresh
      BY <1>9, <2>2, NothingYet DEF SaveFound, Spawned, selfgen
    <3> HIDE DEF t, l, z
    <3>5. Fits(Nothing, z) /\ Fits(l, z)
      BY <3>2, FitsAtFirst
    <3>6. \A o \in Requests : Fits(req'[o].shown, z)
      <4>1. ASSUME NEW o \in Requests PROVE req'[o].shown = IF o = r THEN l ELSE req[o].shown
        BY <1>1, <3>3 DEF Answer, Hung
      <4> QED
        BY <2>2, <3>5, <4>1, NothingYet
    <3>7. \A o \in Requests : result'[o] = Unset \/ Fits(result'[o], z)
      <4>1. ASSUME NEW o \in Requests PROVE result'[o] \in {result[o], l}
        BY <1>1, <3>3
      <4> QED
        BY <2>2, <3>5, <4>1, NothingYet
    <3> QED
      BY <3>1, <3>2, <3>3, <3>4, <3>6, <3>7 DEF OneText, Follow, VectorMatches, RowHasText
  <2> QED
    BY <2>1, <2>2
<1> QED
  BY <1>6, <1>7, <1>8, <1>9 DEF Request

LEMMA WorkText ==
  ASSUME LyricsInv, Works
  PROVE  OneText'
<1>1. RowHasText /\ Follow(row) /\ VectorMatches /\ WorkTyped
  BY WorkShape DEF LyricsInv, OneText
<1>2. row \in RowSet /\ answers \subseteq AnswerSet /\ vectors \subseteq VectorSet
  BY DEF LyricsInv, ShapeInv, LyricsTypeOK, RowSet, AnswerSet, VectorSet
<1>3. UNCHANGED <<req, result>>
  BY <1>1 DEF WorkTyped
<1> USE DEF requests, selfgen, embedding
<1>4. CASE Forget \/ Uploaded \/ MarkTooLong \/ GrowsStale
  BY <1>1, <1>3, <1>4 DEF Forget, Uploaded, MarkTooLong, GrowsStale, OneText, Follow,
     VectorMatches, RowHasText
<1>5. CASE ReapEmbeds
  BY <1>1, <1>3, <1>5 DEF ReapEmbeds, Spawned, OneText, Follow, VectorMatches, RowHasText
<1>6. ASSUME NEW m \in jobs, Transcribe(m) \/ JobLost(m) PROVE OneText'
  BY <1>1, <1>3, <1>6 DEF Transcribe, JobLost, NewAnswer, OneText, Follow, VectorMatches, RowHasText
<1>7. ASSUME NEW a \in answers, Disable(a) \/ PersistFails(a) PROVE OneText'
  BY <1>1, <1>3, <1>7
     DEF Disable, PersistFails, NewAnswer, OneText, Follow, VectorMatches, RowHasText
<1>8. ASSUME NEW a \in answers, Align(a) PROVE OneText'
  <2>1. row'.text = row.text /\ row'.embedded = row.embedded /\ RowHasText'
    BY <1>1, <1>2, <1>8 DEF Align, RowSet, RowHasText
  <2>2. [a EXCEPT !.saved = TRUE].fresh = a.fresh
    BY <1>2 DEF AnswerSet
  <2>3. ASSUME NEW l \in Responses, Fits(l, row) PROVE Fits(l, row')
    <3>1. CASE row # NoRow /\ row.lrc = NoText
      BY <1>2, <1>8, <2>3, <3>1, FitsAligned DEF Align
    <3>2. CASE ~(row # NoRow /\ row.lrc = NoText)
      BY <1>8, <2>3, <3>2 DEF Align
    <3> QED
      BY <3>1, <3>2
  <2>4. \A r \in Requests : Fits(req'[r].shown, row') /\ (result'[r] = Unset \/ Fits(result'[r], row'))
    BY <1>1, <1>3, <2>3 DEF Follow, LyricsInv, ShapeInv, LyricsTypeOK
  <2> QED
    BY <1>1, <1>3, <1>8, <2>1, <2>2, <2>4 DEF Align, OneText, Follow, VectorMatches
<1>9. ASSUME NEW a \in answers, InsertSelfGen(a) PROVE OneText'
  <2>1. [a EXCEPT !.saved = TRUE, !.fresh = (row = NoRow)].fresh <=> row = NoRow
    BY <1>2 DEF AnswerSet
  <2>2. CASE row # NoRow
    BY <1>1, <1>3, <1>9, <2>1, <2>2 DEF InsertSelfGen, OneText, Follow, VectorMatches, RowHasText
  <2>3. CASE row = NoRow
    <3>1. row'.text = SelfGen /\ row'.embedded = FALSE /\ SelfGen # NoText
      BY <1>9, <2>3, NoTextAssumption DEF InsertSelfGen, Row, Heard
    <3>2. \A r \in Requests : Fits(req'[r].shown, row') /\ (result'[r] = Unset \/ Fits(result'[r], row'))
      BY <1>1, <1>3, <2>3, NothingYet, FitsAtFirst DEF WorkTyped
    <3> QED
      BY <1>3, <1>9, <2>3, <3>1, <3>2, NothingYet
         DEF InsertSelfGen, OneText, Follow, VectorMatches, RowHasText
  <2> QED
    BY <2>2, <2>3
<1>10. ASSUME NEW a \in answers, MarkDone(a) PROVE OneText'
  BY <1>1, <1>3, <1>10 DEF MarkDone, Spawned, OneText, Follow, VectorMatches, RowHasText
<1>11. ASSUME NEW t \in embeds, Embed(t) \/ AfterFoundFails(t) PROVE OneText'
  BY <1>1, <1>3, <1>11 DEF Embed, AfterFoundFails, OneText, Follow, VectorMatches, RowHasText
<1>12. ASSUME NEW v \in vectors, UpsertVector(v) \/ VectorFails(v) PROVE OneText'
  <2>1. ASSUME NEW b \in BOOLEAN
        PROVE  [v EXCEPT !.stored = b].text = v.text /\ [v EXCEPT !.stored = b].stored = b
    BY <1>2 DEF VectorSet
  <2> QED
    BY <1>1, <1>3, <1>12, <2>1
       DEF UpsertVector, VectorFails, OneText, Follow, VectorMatches, RowHasText
<1>13. ASSUME NEW v \in vectors, MarkEmbedded(v) PROVE OneText'
  <2>1. row'.text = row.text /\ row'.lrc = row.lrc
    BY <1>2, <1>13 DEF MarkEmbedded, RowSet
  <2>2. row.text # NoText
    BY <1>1, <1>2, NoTextAssumption DEF Follow, VectorSet, AllTexts
  <2>3. \A r \in Requests : Fits(req'[r].shown, row') /\ (result'[r] = Unset \/ Fits(result'[r], row'))
    BY <1>1, <1>3, <2>1, FitsSame DEF Follow
  <2> QED
    BY <1>1, <1>3, <1>13, <2>1, <2>2, <2>3
       DEF MarkEmbedded, OneText, Follow, VectorMatches, RowHasText
<1> QED
  BY <1>4, <1>5, <1>6, <1>7, <1>8, <1>9, <1>10, <1>11, <1>12, <1>13 DEF Works, Persist

LEMMA RestartText ==
  ASSUME LyricsInv, Restart
  PROVE  OneText'
<1>1. RowHasText /\ Follow(row) /\ VectorMatches
  BY DEF LyricsInv, OneText
<1>2. vectors \subseteq VectorSet
  BY DEF LyricsInv, ShapeInv, LyricsTypeOK, VectorSet
<1>3. \A r \in Requests : Fits(req'[r].shown, row) /\ result'[r] = Unset
  BY <1>1, FitsAtFirst DEF Restart, Hung, Follow, LyricsInv, ShapeInv, LyricsTypeOK, RowSet
<1>4. \A a \in answers' : ~a.fresh
  BY DEF Restart, NewAnswer
<1>5. \A v \in vectors' : v.text = row.text /\ ~v.stored
  BY <1>1, <1>2 DEF Restart, Follow, VectorSet
<1> QED
  BY <1>1, <1>3, <1>4, <1>5 DEF Restart, OneText, Follow, VectorMatches, RowHasText

LEMMA LyricsNext ==
  ASSUME LyricsInv, [Next]_vars
  PROVE  LyricsInv'
<1>1. ShapeInv'
  BY ShapeNext DEF LyricsInv, OneText
<1>2. CASE UNCHANGED vars \/ Rest
  <2>1. UNCHANGED <<row, req, result, embeds, vectors, answers, vector>>
    BY <1>2 DEF Rest, vars, requests, selfgen, embedding
  <2> QED
    BY <1>1, <2>1 DEF LyricsInv, OneText, Follow, VectorMatches, RowHasText
<1>3. ASSUME NEW e \in Enqueuers, BeginEnqueue(e) \/ Enqueue(e) \/ EnqueueFails(e)
      PROVE  LyricsInv'
  <2>1. UNCHANGED <<row, req, result, embeds, vectors, answers, vector>>
    BY <1>3 DEF BeginEnqueue, HandleUploaded, ReapWhisper, EnqueueForRequest, Begin, Enqueue,
       FindAudio, ReadMode, Claim, Publish, EnqueueFails, requests, embedding
  <2> QED
    BY <1>1, <2>1 DEF LyricsInv, OneText, Follow, VectorMatches, RowHasText
<1> QED
  BY <1>1, <1>2, <1>3, RequestText, WorkText, RestartText DEF LyricsInv, Next, Works

THEOREM LyricsInductive == Spec => []LyricsInv
<1>1. Init => LyricsInv
  <2> SUFFICES ASSUME Init PROVE LyricsInv
    OBVIOUS
  <2>1. NoRow \in RowSet /\ NoRow.text = NoText /\ NoRow.embedded = FALSE /\ Fits(Nothing, NoRow)
    BY ResponseShapes, FitsAtFirst DEF NoRow, Row, Nothing
  <2>2. [Hung EXCEPT !.at = "ask"] \in ReqState /\ [Hung EXCEPT !.at = "ask"].at = "ask"
        /\ [Hung EXCEPT !.at = "ask"].shown = Nothing
    BY ResponseShapes DEF Hung, ReqState
  <2>3. req \in [Requests -> ReqState] /\ \A r \in Requests : req[r].at = "ask" /\ req[r].shown = Nothing
    BY <2>2 DEF Init
  <2>4. LyricsTypeOK
    BY <2>1, <2>3, FaultAssumption DEF Init, LyricsTypeOK, Idle, ReqState, RowSet
  <2>5. OneText
    BY <2>1, <2>3 DEF Init, OneText, Follow, VectorMatches, RowHasText
  <2> QED
    BY <2>3, <2>4, <2>5 DEF Init, LyricsInv, ShapeInv, SearchShape, ModeShape, Idle
<1>2. LyricsInv /\ [Next]_vars => LyricsInv'
  BY LyricsNext
<1> QED
  BY <1>1, <1>2, PTL DEF Spec

THEOREM LyricsTypeCorrect == Spec => []LyricsTypeOK
<1>1. LyricsInv => LyricsTypeOK
  BY DEF LyricsInv, ShapeInv
<1> QED
  BY <1>1, LyricsInductive, PTL

\* However many listeners search at a time, behind whatever mutexes, and whenever a
\* transcription ends: what is shown is the row's, and only whisper's words may have
\* come to the row afterwards.
THEOREM OneTextShown == Spec => []ShownIsStored
<1>1. LyricsInv => ShownIsStored
  BY DEF LyricsInv, OneText, Follow, ShownIsStored
<1> QED
  BY <1>1, LyricsInductive, PTL

\* Whatever answers are lost, late or delivered again: the vector is the row's, and a
\* row that is marked has one.
THEOREM OneTextEmbedded == Spec => []VectorMatches
<1>1. LyricsInv => VectorMatches
  BY DEF LyricsInv, OneText
<1> QED
  BY <1>1, LyricsInductive, PTL

----------------------------------------------------------------------------
(* What is settled                                                          *)

\* The claim checks again what was true before the store was asked: nothing takes a
\* track whose transcription is done or disabled.
THEOREM SettledLasts == Spec => SettledForGood
<1>1. ASSUME state \in Settled, [Next]_vars PROVE state' \in Settled
  <2>1. CASE UNCHANGED vars \/ Rest
    BY <1>1, <2>1 DEF Rest, vars
  <2>2. ASSUME NEW r \in Requests, Request(r) PROVE state' \in Settled
    BY <1>1, <2>2 DEF Request, ReadCache, LookUp, MakeMutex, EnterMutex, SearchFinds,
       SearchFindsNothing, SaveFound, RequestFails
  <2>3. ASSUME NEW e \in Enqueuers, BeginEnqueue(e) \/ Enqueue(e) \/ EnqueueFails(e)
        PROVE  state' \in Settled
    BY <1>1, <2>3 DEF BeginEnqueue, HandleUploaded, ReapWhisper, EnqueueForRequest, Begin,
       Enqueue, FindAudio, ReadMode, Claim, Eligible, Publish, EnqueueFails, Settled
  <2>4. CASE Forget \/ Uploaded \/ MarkTooLong \/ GrowsStale \/ ReapEmbeds \/ Restart
    BY <1>1, <2>4 DEF Forget, Uploaded, MarkTooLong, GrowsStale, ReapEmbeds, Restart, Settled
  <2>5. CASE \/ \E m \in jobs : Transcribe(m) \/ JobLost(m)
             \/ \E t \in embeds : Embed(t) \/ AfterFoundFails(t)
             \/ \E v \in vectors : UpsertVector(v) \/ MarkEmbedded(v) \/ VectorFails(v)
    BY <1>1, <2>5 DEF Transcribe, JobLost, Embed, AfterFoundFails, UpsertVector, MarkEmbedded,
       VectorFails
  <2>6. CASE \E a \in answers : Persist(a) \/ PersistFails(a)
    BY <1>1, <2>6 DEF Persist, Disable, Align, InsertSelfGen, MarkDone, PersistFails, Settled
  <2> QED
    BY <1>1, <2>1, <2>2, <2>3, <2>4, <2>5, <2>6 DEF Next
<1> QED
  BY <1>1, PTL DEF Spec, SettledForGood
=============================================================================
