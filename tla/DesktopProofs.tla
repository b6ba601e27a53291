---------------------------- MODULE DesktopProofs ----------------------------
(* The desktop client: the hover preview beside the player, the player and    *)
(* what is shown, and the cache of a track.                                   *)
EXTENDS AudioEngine, TrackCache, TLAPS

----------------------------------------------------------------------------
(* The hover preview                                                        *)

ShownState   == [track : Track0, playing : BOOLEAN]
HoverState   == [active : Track0, pending : Track0, timer : Track0, gen : 0..MaxGen + 1]
PreviewState == [track : Track0, gen : 0..MaxGen, fading : BOOLEAN]

\* Generations tell the starts apart, and none is newer than the controller's.
GensInOrder ==
  /\ preview.gen <= hover.gen
  /\ \A s \in starts : s.gen <= hover.gen
  /\ \A s, u \in starts : s.gen = u.gen => s = u

\* The store has not changed under the newest start.
NewestMay == \A s \in starts : NewestStart(s) => CanPreview(s.track)

\* A start that waits for its answer has been played, or came too late.
AnswerIsKnown ==
  \A s \in starts : s.step = "answer" =>
    s.gen <= preview.gen /\ (s.gen = preview.gen => preview.track \in {NoTrack, s.track})

\* What is heard is shown as active, or the answer of its start will see to it.
HeardIsKept ==
  preview.track # NoTrack /\ ~preview.fading =>
    \/ preview.track = hover.active /\ CanPreview(preview.track)
    \/ \E s \in starts : s.step = "answer" /\ s.gen = preview.gen

PreviewInv == PreviewTypeOK /\ GensInOrder /\ NewestMay /\ AnswerIsKnown /\ HeardIsKept

\* The end of a preview, by the controller or by the store's guard.
LEMMA EndKeeps ==
  ASSUME PreviewInv, NEW cut \in BOOLEAN, EndPreview(cut), shown' \in ShownState
  PROVE  PreviewInv'
<1>1. /\ hover \in HoverState /\ preview \in PreviewState /\ starts \subseteq Start
      /\ hover.gen \in 0..MaxGen + 1 /\ MaxGen \in Nat
  BY MaxGenAssumption DEF PreviewInv, PreviewTypeOK, HoverState, PreviewState
<1>2. \A s \in starts : s.gen \in 1..MaxGen /\ s.gen <= hover.gen
  BY <1>1 DEF PreviewInv, GensInOrder, Start
<1>3. /\ hover'.active = NoTrack /\ hover'.pending = NoTrack /\ hover'.timer = NoTrack
      /\ hover'.gen = hover.gen + (IF \E s \in starts : NewestStart(s) THEN 1 ELSE 0)
      /\ starts' = starts
  BY DEF EndPreview
<1>4. /\ hover'.gen \in 0..MaxGen + 1 /\ hover'.gen >= hover.gen
      /\ \A s \in starts : s.gen # hover'.gen
  BY <1>1, <1>2, <1>3 DEF NewestStart
<1>5. hover' \in HoverState
  BY <1>3, <1>4 DEF EndPreview, HoverState, Track0
<1>6. /\ preview' \in PreviewState /\ preview'.gen = preview.gen
      /\ preview'.track \in {NoTrack, preview.track}
      /\ preview'.track # NoTrack /\ ~preview'.fading =>
           preview' = preview /\ hover.active = NoTrack
  BY <1>1 DEF EndPreview, Stopped, PreviewState, Track0
<1>7. PreviewTypeOK'
  BY <1>1, <1>3, <1>5, <1>6 DEF PreviewTypeOK, ShownState, HoverState, PreviewState
<1>8. GensInOrder'
  BY <1>1, <1>2, <1>3, <1>4, <1>6 DEF PreviewInv, GensInOrder, PreviewState
<1>9. NewestMay'
  BY <1>3, <1>4 DEF NewestMay, NewestStart
<1>10. AnswerIsKnown'
  BY <1>3, <1>6 DEF PreviewInv, AnswerIsKnown
<1>11. HeardIsKept'
  BY <1>3, <1>6 DEF PreviewInv, HeardIsKept
<1> QED
  BY <1>7, <1>8, <1>9, <1>10, <1>11 DEF PreviewInv

\* The player store becomes t and p.
LEMMA GuardKeeps ==
  ASSUME PreviewInv, NEW t \in Track0, NEW p \in BOOLEAN,
         shown' = [track |-> t, playing |-> p], GuardPreview(t, p)
  PROVE  PreviewInv'
<1>1. shown' \in ShownState
  BY DEF ShownState
<1>2. CASE (p /\ ~shown.playing) \/ t # shown.track
  BY <1>1, <1>2, EndKeeps DEF GuardPreview
<1>3. CASE ~((p /\ ~shown.playing) \/ t # shown.track)
  <2>1. UNCHANGED <<hover, starts, preview>>
    BY <1>3 DEF GuardPreview, previewVars
  <2>2. \A u \in Track0 : CanPreview(u) => CanPreview(u)'
    BY <1>3 DEF CanPreview
  <2>3. PreviewTypeOK' /\ GensInOrder' /\ AnswerIsKnown'
    BY <1>1, <2>1 DEF PreviewInv, PreviewTypeOK, GensInOrder, AnswerIsKnown, ShownState
  <2>4. NewestMay'
    <3>1. \A s \in starts : s.track \in Track0
      BY DEF PreviewInv, PreviewTypeOK, Start, Track0
    <3> QED
      BY <2>1, <2>2, <3>1 DEF PreviewInv, NewestMay, NewestStart
  <2>5. HeardIsKept'
    <3>1. preview.track \in Track0
      BY DEF PreviewInv, PreviewTypeOK
    <3> QED
      BY <2>1, <2>2, <3>1 DEF PreviewInv, HeardIsKept
  <2> QED
    BY <2>3, <2>4, <2>5 DEF PreviewInv
<1> QED
  BY <1>2, <1>3

LEMMA PreviewKeeps ==
  ASSUME PreviewInv, PreviewNext
  PROVE  PreviewInv'
<1>1. /\ hover \in HoverState /\ preview \in PreviewState /\ starts \subseteq Start
      /\ shown \in ShownState /\ shown' = shown /\ MaxGen \in Nat
  BY MaxGenAssumption
     DEF PreviewInv, PreviewTypeOK, HoverState, PreviewState, ShownState, PreviewNext
<1>2. \A s \in starts : s.gen \in 1..MaxGen /\ s.gen <= hover.gen /\ s.track \in Tracks
  BY <1>1 DEF PreviewInv, GensInOrder, Start
<1>3. /\ hover.gen \in 0..MaxGen + 1 /\ preview.gen \in 0..MaxGen /\ preview.gen <= hover.gen
      /\ preview.track \in Track0 /\ Tracks \subseteq Track0 /\ NoTrack \in Track0
  BY <1>1 DEF HoverState, PreviewState, PreviewInv, GensInOrder, Track0
<1>4. \A u : CanPreview(u) <=> CanPreview(u)'
  BY <1>1 DEF CanPreview
<1>5. ASSUME hover' \in HoverState, hover'.gen = hover.gen, hover'.active = hover.active,
             UNCHANGED <<starts, preview>>
      PROVE  PreviewInv'
  BY <1>1, <1>4, <1>5 DEF PreviewInv, PreviewTypeOK, GensInOrder, NewestMay, NewestStart,
     AnswerIsKnown, HeardIsKept, HoverState, ShownState
<1>6. ASSUME NEW t \in Tracks, StartHover(t) PROVE PreviewInv'
  BY <1>1, <1>3, <1>5, <1>6 DEF StartHover, HoverState
<1>7. CASE StopHover
  BY <1>1, <1>7, EndKeeps DEF StopHover
<1>8. CASE FadeEnds
  <2>1. /\ preview' \in PreviewState /\ preview'.track = NoTrack /\ preview'.gen = preview.gen
        /\ UNCHANGED <<hover, starts>>
    BY <1>1, <1>8 DEF FadeEnds, PreviewState, Track0
  <2> QED
    BY <1>1, <1>4, <2>1 DEF PreviewInv, PreviewTypeOK, GensInOrder, NewestMay, NewestStart,
       AnswerIsKnown, HeardIsKept, PreviewState, ShownState
<1>9. CASE HoverTimerFires
  <2>1. CASE hover.pending # hover.timer \/ ~CanPreview(hover.timer)
    BY <1>1, <1>3, <1>5, <1>9, <2>1 DEF HoverTimerFires, HoverState
  <2>2. CASE hover.pending = hover.timer /\ CanPreview(hover.timer)
    <3> DEFINE n == [track |-> hover.timer, gen |-> hover.gen + 1, step |-> "cache"]
    <3>1. /\ hover' = [hover EXCEPT !.timer = NoTrack, !.gen = hover.gen + 1]
          /\ starts' = starts \cup {n} /\ preview' = preview
          /\ hover.timer \in Tracks /\ hover.gen + 1 \in 1..MaxGen
      BY <1>1, <1>3, <1>9, <2>2 DEF HoverTimerFires, HoverState, Track0
    <3>2. hover' \in HoverState /\ hover'.gen = hover.gen + 1 /\ hover'.active = hover.active
      <4>1. hover.gen + 1 \in 0..MaxGen + 1
        BY <1>1, <3>1
      <4>2. ASSUME NEW g \in 0..MaxGen + 1
            PROVE  /\ [hover EXCEPT !.timer = NoTrack, !.gen = g] \in HoverState
                   /\ [hover EXCEPT !.timer = NoTrack, !.gen = g].gen = g
                   /\ [hover EXCEPT !.timer = NoTrack, !.gen = g].active = hover.active
        BY <1>1, <1>3 DEF HoverState
      <4> QED
        BY <3>1, <4>1, <4>2
    <3>3. n \in Start /\ n.gen = hover.gen + 1 /\ n.track = hover.timer /\ n.step = "cache"
      BY <3>1 DEF Start
    <3> HIDE DEF n
    <3>4. PreviewTypeOK'
      BY <1>1, <3>1, <3>2, <3>3 DEF PreviewTypeOK, HoverState, PreviewState, ShownState
    <3>5. GensInOrder'
      BY <1>2, <1>3, <3>1, <3>2, <3>3 DEF PreviewInv, GensInOrder
    <3>6. NewestMay'
      BY <1>2, <1>3, <1>4, <2>2, <3>1, <3>2, <3>3 DEF NewestMay, NewestStart
    <3>7. AnswerIsKnown' /\ HeardIsKept'
      BY <1>4, <3>1, <3>2, <3>3 DEF PreviewInv, AnswerIsKnown, HeardIsKept
    <3> QED
      BY <3>4, <3>5, <3>6, <3>7 DEF PreviewInv
  <2> QED
    BY <2>1, <2>2
<1>10. ASSUME NEW s \in starts, s.step # "answer", Ends(s), preview' = preview,
              hover' \in HoverState, hover'.gen = hover.gen, hover'.active = hover.active
       PROVE  PreviewInv'
  BY <1>1, <1>4, <1>10 DEF Ends, PreviewInv, PreviewTypeOK, GensInOrder, NewestMay, NewestStart,
     AnswerIsKnown, HeardIsKept, HoverState, ShownState
<1>11. ASSUME NEW s \in starts, StartFails(s) PROVE PreviewInv'
  BY <1>1, <1>3, <1>10, <1>11 DEF StartFails, HoverState
\* A start goes on to its next step.
<1>12. ASSUME NEW s \in starts, NEW step \in {"decode", "answer"}, Moves(s, step), hover' = hover,
              s.step # "answer", preview' \in PreviewState, preview'.gen <= hover.gen,
              \/ preview' = preview
              \/ preview'.gen = s.gen /\ preview'.track = s.track /\ preview.gen <= s.gen,
              step = "answer" =>
                /\ s.gen <= preview'.gen
                /\ s.gen = preview'.gen => preview'.track \in {NoTrack, s.track},
              preview' # preview => step = "answer"
       PROVE  PreviewInv'
  <2> DEFINE n == [s EXCEPT !.step = step]
  <2>1. n \in Start /\ n.gen = s.gen /\ n.track = s.track /\ n.step = step
    BY <1>1 DEF Start
  <2>2. starts' = (starts \ {s}) \cup {n}
    BY <1>12 DEF Moves
  <2> HIDE DEF n
  <2>3. PreviewTypeOK'
    BY <1>1, <1>12, <2>1, <2>2 DEF PreviewTypeOK, HoverState, PreviewState, ShownState
  <2>4. GensInOrder'
    BY <1>2, <1>12, <2>1, <2>2 DEF PreviewInv, GensInOrder
  <2>5. NewestMay'
    BY <1>4, <1>12, <2>1, <2>2 DEF PreviewInv, NewestMay, NewestStart
  <2>6. AnswerIsKnown'
    <3>1. ASSUME NEW u \in starts, u # s, u.step = "answer"
          PROVE  /\ u.gen <= preview'.gen
                 /\ u.gen = preview'.gen => preview'.track \in {NoTrack, u.track}
      <4>1. u.gen # s.gen /\ u.gen \in Nat /\ s.gen \in Nat /\ preview.gen \in Nat
        BY <1>2, <1>3, <3>1 DEF PreviewInv, GensInOrder
      <4>2. u.gen <= preview.gen /\ (u.gen = preview.gen => preview.track \in {NoTrack, u.track})
        BY <3>1 DEF PreviewInv, AnswerIsKnown
      <4> QED
        BY <1>12, <4>1, <4>2
    <3> QED
      BY <1>12, <2>1, <2>2, <3>1 DEF AnswerIsKnown
  <2>7. HeardIsKept'
    <3>1. CASE preview' = preview
      BY <1>4, <1>12, <2>1, <2>2, <3>1 DEF PreviewInv, HeardIsKept
    <3>2. CASE preview' # preview
      BY <1>12, <2>1, <2>2, <3>2 DEF HeardIsKept
    <3> QED
      BY <3>1, <3>2
  <2> QED
    BY <2>3, <2>4, <2>5, <2>6, <2>7 DEF PreviewInv
<1>13. ASSUME NEW s \in starts, Cached(s) PROVE PreviewInv'
  <2>1. CASE Ends(s)
    BY <1>1, <1>10, <1>13, <2>1 DEF Cached
  <2>2. CASE Moves(s, IF s.gen < preview.gen THEN "answer" ELSE "decode")
    BY <1>1, <1>2, <1>3, <1>12, <1>13, <2>2 DEF Cached
  <2> QED
    BY <1>13, <2>1, <2>2 DEF Cached
<1>14. ASSUME NEW s \in starts, Decoded(s) PROVE PreviewInv'
  <2>1. CASE s.gen < preview.gen
    BY <1>1, <1>2, <1>3, <1>12, <1>14, <2>1 DEF Decoded
  <2>2. CASE ~(s.gen < preview.gen)
    <3>1. preview' = [track |-> s.track, gen |-> s.gen, fading |-> FALSE]
      BY <1>14, <2>2 DEF Decoded
    <3>2. /\ preview' \in PreviewState /\ preview'.gen = s.gen /\ preview'.track = s.track
          /\ preview.gen <= s.gen /\ preview'.gen <= hover.gen
      BY <1>2, <1>3, <2>2, <3>1 DEF PreviewState
    <3> QED
      BY <1>2, <1>12, <1>14, <3>2 DEF Decoded
  <2> QED
    BY <2>1, <2>2
<1>15. ASSUME NEW s \in starts, StartAnswers(s) PROVE PreviewInv'
  <2>1. s.step = "answer" /\ starts' = starts \ {s}
    BY <1>15 DEF StartAnswers, Ends
  <2>2. s.gen <= preview.gen /\ (s.gen = preview.gen => preview.track \in {NoTrack, s.track})
    BY <2>1 DEF PreviewInv, AnswerIsKnown
  <2>3. CASE NewestStart(s)
    <3>1. hover' = [hover EXCEPT !.active = s.track, !.pending = NoTrack] /\ preview' = preview
      BY <1>15, <2>3 DEF StartAnswers
    <3>2. hover' \in HoverState /\ hover'.gen = hover.gen /\ hover'.active = s.track
      BY <1>1, <1>2, <1>3, <3>1 DEF HoverState
    <3>3. preview.track \in {NoTrack, s.track} /\ CanPreview(s.track)
      BY <1>2, <1>3, <2>2, <2>3 DEF NewestStart, PreviewInv, NewestMay
    <3>4. HeardIsKept'
      BY <1>4, <3>1, <3>2, <3>3 DEF HeardIsKept
    <3> QED
      BY <1>1, <1>4, <2>1, <3>1, <3>2, <3>4 DEF PreviewInv, PreviewTypeOK, GensInOrder, NewestMay,
         NewestStart, AnswerIsKnown, HoverState, ShownState
  <2>4. CASE ~NewestStart(s)
    <3>1. hover' = hover /\ preview' = Stopped(s.gen, TRUE)
      BY <1>15, <2>4 DEF StartAnswers
    <3>2. /\ preview' \in PreviewState /\ preview'.gen = preview.gen
          /\ preview'.track \in {NoTrack, preview.track}
          /\ preview'.track # NoTrack => preview' = preview /\ s.gen # preview.gen
      BY <1>1, <1>2, <3>1 DEF Stopped, PreviewState, Track0
    <3>3. HeardIsKept'
      BY <1>4, <2>1, <3>1, <3>2 DEF PreviewInv, HeardIsKept
    <3> QED
      BY <1>1, <1>4, <2>1, <3>1, <3>2, <3>3 DEF PreviewInv, PreviewTypeOK, GensInOrder, NewestMay,
         NewestStart, AnswerIsKnown, PreviewState, ShownState
  <2> QED
    BY <2>3, <2>4
<1> QED
  BY <1>6, <1>7, <1>8, <1>9, <1>11, <1>13, <1>14, <1>15 DEF PreviewNext

\* The player's steps leave the preview to the guard of its store, which ends it for
\* good when a disliked track is skipped.
LEMMA PlayerAndPreview ==
  ASSUME PreviewTypeOK, [AudioNext]_playerVars
  PROVE  \/ PreviewNext
         \/ \E t \in Track0, p \in BOOLEAN :
              /\ shown' = [track |-> t, playing |-> p]
              /\ GuardPreview(t, p) \/ EndPreview(FALSE)
<1> DEFINE Guarded == \E t \in Track0, p \in BOOLEAN :
                        /\ shown' = [track |-> t, playing |-> p]
                        /\ GuardPreview(t, p) \/ EndPreview(FALSE)
<1>1. /\ shown \in ShownState /\ shown.track \in Track0 /\ shown.playing \in BOOLEAN
      /\ shown = [track |-> shown.track, playing |-> shown.playing]
      /\ NoTrack \in Track0 /\ Tracks \subseteq Track0
  BY DEF PreviewTypeOK, ShownState, Track0
<1>2. ASSUME UNCHANGED <<shown, previewVars>> PROVE Guarded
  <2>1. GuardPreview(shown.track, shown.playing)
    BY <1>2 DEF GuardPreview
  <2> QED
    BY <1>1, <1>2, <2>1
<1>3. ASSUME NEW t \in Track0, NEW p \in BOOLEAN, NEW u, StoreSet(t, p, u) PROVE Guarded
  <2>1. CASE Follows(t, p, u)
    BY <2>1 DEF Follows
  <2>2. CASE Skips(t, p, u)
    BY <1>1, <2>2 DEF Skips
  <2> QED
    BY <1>3, <2>1, <2>2 DEF StoreSet
<1>4. ASSUME NEW i \in Loads, LoadFails(i) PROVE Guarded
  <2>1. UNCHANGED previewVars
    BY <1>4 DEF LoadFails
  <2>2. CASE UNCHANGED shown
    BY <1>2, <2>1, <2>2
  <2>3. CASE shown' = [shown EXCEPT !.playing = FALSE]
    <3>1. shown' = [track |-> shown.track, playing |-> FALSE] /\ GuardPreview(shown.track, FALSE)
      BY <1>1, <2>1, <2>3 DEF GuardPreview
    <3> QED
      BY <1>1, <3>1
  <2> QED
    BY <1>4, <2>2, <2>3 DEF LoadFails
<1> HIDE DEF Guarded
<1>5. CASE \/ \E t \in Tracks : Choose(t)
           \/ Previous \/ Toggle \/ TrackEnds
  <2>1. (~shown.playing) \in BOOLEAN
    OBVIOUS
  <2> QED
    BY <1>1, <1>2, <1>3, <1>5, <2>1 DEF Choose, Previous, Toggle, TrackEnds, Guarded
<1>6. ASSUME NEW i \in Loads, LoadSteps(i) PROVE Guarded
  BY <1>2, <1>4, <1>6 DEF LoadSteps, CacheAnswers, FileRead, CommitPlayer, CommitState,
     CommitStep, LoadAnswers
<1>7. CASE \/ \E r \in {1, 2} : SetRate(r)
           \/ \E on \in BOOLEAN : SetLoop(on)
           \/ \E pos \in Positions : Seek(pos)
           \/ \E p \in Threads : Jump(p) \/ Install(p) \/ Switch(p) \/ Switched(p)
           \/ Plays \/ Reopens \/ StreamStops
           \/ TickReloads \/ TickEnds \/ TickLoops \/ TickStalls \/ UNCHANGED playerVars
  <2>1. UNCHANGED <<shown, previewVars>>
    BY <1>7 DEF SetRate, SetLoop, Seek, Jump, Install, Switch, Switched, Plays, Reopens,
       StreamStops, TickReloads, TickEnds, TickLoops, TickStalls, Rest, playerVars
  <2> QED
    BY <1>2, <2>1 DEF Guarded
<1> QED
  BY <1>5, <1>6, <1>7 DEF AudioNext, Guarded

\* However hovers, decodes, answers and the player's own commands follow one another:
\* the preview that is heard is the one shown as active, and not over the music.
THEOREM PreviewIsActive == AudioSpec => []PreviewMatches
<1>1. AudioInit => PreviewInv
  BY MaxGenAssumption DEF AudioInit, PreviewInit, PreviewInv, PreviewTypeOK, GensInOrder,
     NewestMay, AnswerIsKnown, HeardIsKept, Track0
<1>2. PreviewInv /\ [AudioNext]_playerVars => PreviewInv'
  <2>1. ASSUME PreviewInv, NEW t \in Track0, NEW p \in BOOLEAN,
               shown' = [track |-> t, playing |-> p], EndPreview(FALSE)
        PROVE  PreviewInv'
    BY <2>1, EndKeeps DEF ShownState
  <2> QED
    BY <2>1, PlayerAndPreview, PreviewKeeps, GuardKeeps DEF PreviewInv
<1>3. PreviewInv => PreviewMatches
  BY DEF PreviewInv, HeardIsKept, PreviewMatches
<1> QED
  BY <1>1, <1>2, <1>3, PTL DEF AudioSpec

----------------------------------------------------------------------------
(* The player and what is shown                                             *)

UiState     == [cur : Track0, has : BOOLEAN, ended : Nat]
LoadState   == [track : Track0, newest : BOOLEAN, paused : BOOLEAN, on : BOOLEAN,
                step : {"idle", "cache", "read", "build", "bytes", "anchor", "has", "flags",
                        "answer"}]
PlayerState == [track : Track0, on : BOOLEAN, paused : BOOLEAN, src : Positions \cup {End},
                out : Nat, speed : {1, 2}]
EngineState == [bytes : Track0, base : Nat, from : Nat, rate : {1, 2}, loop : BOOLEAN,
                has : BOOLEAN, notified : BOOLEAN, error : BOOLEAN]
JobState    == [step : {"idle", "sent", "opened", "jump", "build"}, kind : {"reload", "seek"},
                track : Track0, pos : Nat, rate : {1, 2}, paused : BOOLEAN, on : BOOLEAN]

PlayShape ==
  /\ shown \in ShownState /\ ui \in UiState /\ engine \in EngineState
  /\ loads \in [Loads -> LoadState] /\ jobs \in [Threads -> JobState]
  /\ player \in PlayerState /\ (player.track = NoTrack => player = NoPlayer)

Active(i)     == loads[i].step # "idle"
Opening(i)    == loads[i].step \in {"cache", "read", "build"}
Stocked(i)    == loads[i].step \in {"anchor", "has", "flags", "answer"}
Installed(i)  == At(i, "bytes") \/ Stocked(i)
Loading       == \E i \in Loads : Active(i)
Rebuilds(p)   == jobs[p].step \in {"jump", "build"}
Building(p)   == jobs[p].step = "build"
AllFree       == \A p \in Threads : Free(p)
NoneRebuilds  == \A p \in Threads : ~Rebuilds(p)
Heard         == player.track # NoTrack

\* Loads come one after the other, each of the track that is shown.
OneLoad ==
  /\ \A i, j \in Loads : Active(i) /\ Active(j) => i = j
  /\ \A i \in Loads : Active(i) =>
       /\ loads[i].newest /\ loads[i].track = ui.cur /\ ui.cur = shown.track
       /\ ui.cur # NoTrack /\ ~ui.has /\ ui.ended = 0

\* There is no player until a load has built one, and nothing to rebuild it
\* from until it has committed its bytes.
LoadIsAlone ==
  \A i \in Loads :
    /\ Opening(i) => ~Heard
    /\ Installed(i) => player.track = shown.track /\ player.src # End
    /\ Opening(i) \/ At(i, "bytes") => engine.bytes = NoTrack /\ ~engine.has /\ NoneRebuilds
    /\ Stocked(i) => engine.bytes = shown.track
    /\ Active(i) /\ "early" \in audioScene => AllFree

\* The player is of the bytes, and audio.ts has a track when it is the one shown;
\* else it is being loaded, has been stopped, has come to its end, or has been
\* let go for a disliked track.
TracksAgree ==
  /\ engine.bytes # NoTrack => player.track = engine.bytes
  /\ engine.has => engine.bytes # NoTrack
  /\ ui.has => player.track = shown.track /\ engine.bytes = shown.track /\ ui.cur = shown.track
               /\ shown.track # NoTrack
  /\ ~ui.has /\ ~Loading /\ Heard =>
       /\ ui.cur = NoTrack /\ engine.bytes # NoTrack
       /\ \/ player.src = End /\ engine.notified /\ AllFree
          \/ "dislike" \in audioScene
  /\ ~ui.has /\ ~Loading /\ ~Heard => NoneRebuilds

\* What is heard, loaded or rebuilt is paused when the store says so.
PausedAsShown ==
  /\ ui.has => player.paused = ~shown.playing
  /\ "early" \notin audioScene => \A i \in Loads :
       /\ Active(i) /\ ~At(i, "cache") => loads[i].paused = ~shown.playing
       /\ Installed(i) => player.paused = ~shown.playing
  /\ ui.has \/ Loading => \A p \in Threads : Building(p) => jobs[p].paused = ~shown.playing

\* A rebuild is of the bytes that are there, from a position within the track.
JobsAgree ==
  \A p \in Threads :
    /\ Rebuilds(p) => jobs[p].pos \in Positions
    /\ Building(p) => jobs[p].track = engine.bytes /\ engine.bytes # NoTrack
                      /\ jobs[p].rate = engine.rate

\* An end is told once, and only tracks that play to their end have one.
EndOnce ==
  /\ ui.ended > 0 =>
       /\ ui.ended = 1 /\ player.src = End /\ engine.notified /\ AllFree
       /\ ui.has \/ "dislike" \in audioScene
  /\ "time" \notin audioScene => player.src # End

\* Without events of the devices the stream stays, and everything is on it.
Sound == [live |-> TRUE, queue |-> <<>>, reconnected |-> FALSE]
Quiet ==
  /\ audioScene \cap Devices = {} =>
       /\ output = Sound /\ ~engine.error
       /\ Heard => player.on
       /\ \A i \in Loads : At(i, "build") => loads[i].on
       /\ \A p \in Threads : Free(p) \/ Rebuilds(p)
       /\ \A p \in Threads : Building(p) => jobs[p].on
  /\ engine.loop => "loop" \in audioScene

\* The position that is told is the one that is played.
Exact ==
  Heard =>
    /\ player.speed = engine.rate
    /\ ~Committing => Anchored = player.src
    /\ Committing => player.src = player.out * engine.rate

PlayInv == PlayShape /\ OneLoad /\ LoadIsAlone /\ TracksAgree /\ PausedAsShown /\ JobsAgree
           /\ EndOnce /\ Quiet /\ Exact

----------------------------------------------------------------------------
LEMMA PositionFacts ==
  /\ End \in Nat /\ End > 0 /\ End \notin Positions /\ 0 \in Positions /\ Positions \subseteq Nat
  /\ \A n \in Positions : n < End /\ n + 2 \in Positions \cup {End}
  /\ \A n \in Positions : n + 2 < End => n + 2 \in Positions
BY AudioAssumption DEF Positions

LEMMA Halved ==
  ASSUME NEW n \in Positions, NEW r \in {1, 2}
  PROVE  n \div r \in Nat /\ (n \div r) * r = n
<1>1. n \in Nat /\ n % 2 = 0
  BY PositionFacts DEF Positions
<1>2. CASE r = 1
  BY <1>1, <1>2
<1>3. CASE r = 2
  BY <1>1, <1>3
<1> QED
  BY <1>2, <1>3

LEMMA ToldAsPlayed ==
  ASSUME PlayInv, Heard, ~Committing
  PROVE  SourcePos = player.src /\ player.src \in Nat
<1>1. Anchored = player.src
  BY DEF PlayInv, Exact
<1>2. player.src \in Nat
  BY PositionFacts DEF PlayInv, PlayShape, PlayerState
<1> QED
  BY <1>1, <1>2 DEF SourcePos

LEMMA HeardIsLoaded ==
  ASSUME PlayShape
  PROVE  Heard <=> Loaded
BY DEF PlayShape, Heard, Loaded, NoPlayer

\* Where the listener may not hurry and no lock is missed, a pause and a play are
\* what they say.
LEMMA Pauses ==
  ASSUME PlayShape, Undisturbed, EnginePause
  PROVE  /\ output' = output
         /\ Heard => player' = [player EXCEPT !.paused = TRUE]
         /\ ~Heard => player' = player
<1>1. /\ ~Locked /\ output' = output /\ player' = [player EXCEPT !.paused = Loaded]
      /\ NoPlayer.paused = FALSE /\ Loaded \in BOOLEAN
  BY DEF EnginePause, Locked, Undisturbed, NoPlayer, Loaded
<1>2. Heard <=> Loaded
  BY HeardIsLoaded
<1>3. ~Heard => player' = player
  BY <1>1, <1>2 DEF Loaded, NoPlayer
<1> QED
  BY <1>1, <1>2, <1>3

LEMMA Resumes ==
  ASSUME PlayShape, Undisturbed, Quiet, EnginePlay
  PROVE  /\ audioScene \cap Devices = {} => output' = output
         /\ Heard => player' = [player EXCEPT !.paused = FALSE]
         /\ ~Heard => player' = player
<1>1. ~Locked /\ player' = [player EXCEPT !.paused = FALSE]
  BY DEF EnginePlay, Locked, Undisturbed
<1>2. audioScene \cap Devices = {} => output' = output
  BY DEF EnginePlay, Quiet
<1>3. ~Heard => player' = player
  BY <1>1, HeardIsLoaded DEF Loaded, NoPlayer
<1> QED
  BY <1>1, <1>2, <1>3

LEMMA NothingPlayed ==
  /\ NoPlayer \in PlayerState /\ NoPlayer.track = NoTrack /\ NoLoad \in LoadState
  /\ NoLoad.step = "idle" /\ NoJob \in JobState /\ NoJob.step = "idle"
BY PositionFacts DEF NoPlayer, PlayerState, NoLoad, LoadState, NoJob, JobState, Track0

\* A load begins: nothing else is under way, and the player is stopped.
LEMMA LoadStarts ==
  ASSUME PlayInv, Undisturbed, AllFree, ~Loading, NEW t \in Tracks, NEW u \in UiState, u.ended = 0,
         LoadTrack(t, u), shown' \in ShownState, shown'.track = t, UNCHANGED <<jobs, audioScene>>
  PROVE  PlayInv'
<1>1. PICK i \in Loads :
        loads' = [j \in Loads |-> IF j = i THEN [NoLoad EXCEPT !.track = t, !.step = "cache",
                                                              !.newest = TRUE]
                                  ELSE [loads[j] EXCEPT !.newest = FALSE]]
  BY DEF LoadTrack
<1>2. /\ PlayShape /\ t # NoTrack /\ t \in Track0 /\ loads \in [Loads -> LoadState]
      /\ \A j \in Loads : loads[j].step = "idle"
  BY NoTrackAssumption DEF PlayInv, PlayShape, Loading, Active, Track0
<1>3. /\ loads' \in [Loads -> LoadState]
      /\ loads'[i] = [NoLoad EXCEPT !.track = t, !.step = "cache", !.newest = TRUE]
      /\ \A j \in Loads : j # i => loads'[j].step = "idle"
  BY <1>1, <1>2 DEF LoadState, NoLoad
<1>4. /\ loads'[i].step = "cache" /\ loads'[i].newest /\ loads'[i].track = t
      /\ \A j \in Loads : loads'[j].step = (IF j = i THEN "cache" ELSE "idle")
  BY <1>3 DEF NoLoad
<1>5. ui' \in UiState /\ ui'.cur = t /\ ~ui'.has /\ ui'.ended = 0
  BY <1>2 DEF LoadTrack, UiState
<1>6. player' = NoPlayer /\ player'.track = NoTrack /\ player' \in PlayerState
  BY NothingPlayed DEF LoadTrack, StopPlayer, Locked, Undisturbed
<1>7. /\ engine' \in EngineState /\ engine'.bytes = NoTrack /\ ~engine'.has
      /\ engine'.error = engine.error /\ (engine'.loop => engine.loop)
  <2>1. PICK loop \in BOOLEAN :
          engine' = [engine EXCEPT !.has = FALSE, !.bytes = NoTrack, !.loop = loop]
          /\ (loop => engine.loop)
    <3>1. (engine.loop /\ u.cur = t) \in BOOLEAN
      OBVIOUS
    <3> QED
      BY <3>1 DEF LoadTrack
  <2> QED
    BY <1>2, <2>1 DEF PlayShape, EngineState, Track0
<1>8. output' = output /\ UNCHANGED <<jobs, audioScene>>
  BY DEF LoadTrack
<1>9. PlayShape'
  BY <1>2, <1>3, <1>5, <1>6, <1>7, <1>8 DEF PlayShape
<1>10. OneLoad'
  BY <1>2, <1>4, <1>5 DEF OneLoad, Active
<1>11. LoadIsAlone'
  BY <1>4, <1>6, <1>7, <1>8 DEF LoadIsAlone, Opening, Stocked, Installed, Active, At, Heard,
     NoneRebuilds, Rebuilds, AllFree, Free
<1>12. TracksAgree' /\ PausedAsShown' /\ JobsAgree'
  BY <1>4, <1>5, <1>6, <1>7, <1>8 DEF TracksAgree, PausedAsShown, JobsAgree, Stocked, Installed,
     Active, At, Heard, Loading, Rebuilds, Building, AllFree, Free
<1>13. EndOnce'
  BY <1>5, <1>6, PositionFacts DEF EndOnce, NoPlayer
<1>14. Quiet'
  BY <1>4, <1>6, <1>7, <1>8 DEF PlayInv, Quiet, At, Heard, Building, Rebuilds, AllFree, Free
<1>15. Exact'
  BY <1>6 DEF Exact, Heard
<1> QED
  BY <1>9, <1>10, <1>11, <1>12, <1>13, <1>14, <1>15 DEF PlayInv

\* While nothing rebuilds it, the player is paused or resumed as the store says.
LEMMA OnlyPaused ==
  ASSUME PlayInv, AllFree, NEW b \in BOOLEAN,
         Heard => player' = [player EXCEPT !.paused = b],
         ~Heard => player' = player,
         audioScene \cap Devices = {} => output' = output,
         UNCHANGED <<ui, loads, engine, jobs, audioScene>>, shown' \in ShownState,
         ui.has => shown'.track = shown.track /\ b = ~shown'.playing,
         Loading => "early" \in audioScene /\ shown'.track = shown.track
  PROVE  PlayInv'
<1>1. PlayShape /\ player \in PlayerState
  BY DEF PlayInv, PlayShape
<1>2. /\ player' \in PlayerState /\ player'.track = player.track /\ player'.src = player.src
      /\ player'.out = player.out /\ player'.speed = player.speed /\ player'.on = player.on
      /\ Heard => player'.paused = b
  BY <1>1 DEF PlayerState
<1>3. PlayShape'
  BY <1>1, <1>2 DEF PlayShape, Heard
<1>4. OneLoad' /\ LoadIsAlone'
  BY <1>2 DEF PlayInv, OneLoad, LoadIsAlone, Active, Opening, Stocked, Installed, At, Heard,
     NoneRebuilds, Rebuilds, AllFree, Free, Loading
<1>5. TracksAgree' /\ JobsAgree' /\ EndOnce'
  BY <1>2 DEF PlayInv, TracksAgree, JobsAgree, EndOnce, Loading, Active, Heard, NoneRebuilds,
     Rebuilds, Building, AllFree, Free
<1>6. PausedAsShown'
  BY <1>2 DEF PlayInv, TracksAgree, PausedAsShown, Loading, Active, Stocked, Installed, At, Heard,
     Building, AllFree, Free
<1>7. Quiet'
  BY <1>2 DEF PlayInv, Quiet, At, Heard, Building, Rebuilds, Free
<1>8. Exact'
  BY <1>2 DEF PlayInv, Exact, Anchored, Committing, At, Heard
<1> QED
  BY <1>3, <1>4, <1>5, <1>6, <1>7, <1>8 DEF PlayInv

\* audio.ts lets go of a track that has ended, or for one that is disliked; the player
\* stays as it is, paused or not.
LEMMA LetGo ==
  ASSUME PlayInv, AllFree, ~Loading, NEW b \in BOOLEAN,
         ui.ended = 1 \/ (ui.ended = 0 /\ "dislike" \in audioScene),
         ui' \in UiState, ui'.cur = NoTrack, ~ui'.has, ui'.ended = 0, shown' \in ShownState,
         Heard => player' = [player EXCEPT !.paused = b],
         ~Heard => player' = player,
         UNCHANGED <<loads, engine, output, jobs, audioScene>>
  PROVE  PlayInv'
<1>1. PlayShape /\ player \in PlayerState
  BY DEF PlayInv, PlayShape
<1>2. /\ player' \in PlayerState /\ player'.track = player.track /\ player'.src = player.src
      /\ player'.out = player.out /\ player'.speed = player.speed /\ player'.on = player.on
  BY <1>1 DEF PlayerState
<1>3. /\ Heard => engine.bytes # NoTrack
      /\ \/ player.src = End /\ engine.notified
         \/ "dislike" \in audioScene
  BY DEF PlayInv, TracksAgree, EndOnce
<1>4. PlayShape'
  BY <1>1, <1>2 DEF PlayShape, Heard
<1>5. OneLoad' /\ LoadIsAlone' /\ PausedAsShown' /\ JobsAgree'
  BY <1>2 DEF PlayInv, OneLoad, LoadIsAlone, PausedAsShown, JobsAgree, Active, Opening, Stocked,
     Stocked, Installed, At, Loading, Heard, NoneRebuilds, Rebuilds, Building, AllFree, Free
<1>6. TracksAgree'
  BY <1>2, <1>3 DEF PlayInv, TracksAgree, Loading, Active, Heard, NoneRebuilds, Rebuilds, AllFree,
     Free
<1>7. EndOnce' /\ Quiet' /\ Exact'
  BY <1>2 DEF PlayInv, EndOnce, Quiet, Exact, Anchored, Committing, At, Heard, Building, Rebuilds,
     Free
<1> QED
  BY <1>4, <1>5, <1>6, <1>7 DEF PlayInv

\* The queue has been cleared.
LEMMA StoreStops ==
  ASSUME PlayInv, Undisturbed, AllFree, ~Loading, ui.ended = 0,
         ui' = [ui EXCEPT !.cur = NoTrack, !.has = FALSE],
         engine' = [engine EXCEPT !.has = FALSE, !.bytes = NoTrack], StopPlayer,
         UNCHANGED <<loads, output, jobs, audioScene>>, shown' \in ShownState
  PROVE  PlayInv'
<1>1. PlayShape
  BY DEF PlayInv
<1>2. player' = NoPlayer /\ player'.track = NoTrack /\ player' \in PlayerState
  BY NothingPlayed DEF StopPlayer, Locked, Undisturbed
<1>3. ui' \in UiState /\ ~ui'.has /\ ui'.ended = 0
  BY <1>1 DEF PlayShape, UiState, Track0
<1>4. /\ engine' \in EngineState /\ engine'.bytes = NoTrack /\ ~engine'.has
      /\ engine'.error = engine.error /\ engine'.loop = engine.loop
  BY <1>1 DEF PlayShape, EngineState, Track0
<1>5. PlayShape'
  BY <1>1, <1>2, <1>3, <1>4 DEF PlayShape
<1>6. OneLoad' /\ LoadIsAlone' /\ PausedAsShown' /\ JobsAgree' /\ TracksAgree'
  BY <1>2, <1>3, <1>4 DEF OneLoad, LoadIsAlone, PausedAsShown, JobsAgree, TracksAgree, Active,
     Opening, Stocked, Installed, At, Loading, Heard, NoneRebuilds, Rebuilds, Building, AllFree,
     Free
<1>7. EndOnce'
  BY <1>2, <1>3, PositionFacts DEF EndOnce, NoPlayer
<1>8. Quiet'
  BY <1>2, <1>4 DEF PlayInv, Quiet, At, Heard, Building, Rebuilds, Free
<1>9. Exact'
  BY <1>2 DEF Exact, Heard
<1> QED
  BY <1>5, <1>6, <1>7, <1>8, <1>9 DEF PlayInv

\* A disliked track is skipped: another one is loaded, or none.
LEMMA SkipsKeep ==
  ASSUME PlayInv, Undisturbed, AllFree, ~Loading, NEW u \in UiState, u.ended = 0,
         ui.ended \in {0, 1}, NEW t \in Track0, NEW p \in BOOLEAN, Skips(t, p, u),
         UNCHANGED <<jobs, audioScene>>
  PROVE  PlayInv'
<1> DEFINE v == [u EXCEPT !.cur = NoTrack]
           w == [u EXCEPT !.cur = NoTrack, !.has = FALSE]
<1>1. /\ v \in UiState /\ v.ended = 0
      /\ w \in UiState /\ w.ended = 0 /\ w.cur = NoTrack /\ ~w.has
  BY DEF UiState, Track0
<1>2. PlayShape /\ player \in PlayerState /\ player.paused \in BOOLEAN
  BY DEF PlayInv, PlayShape, PlayerState
<1> HIDE DEF v, w
<1>3. ASSUME NEW next \in Tracks, shown' = [track |-> next, playing |-> TRUE], LoadTrack(next, v)
      PROVE  PlayInv'
  <2>1. shown' \in ShownState /\ shown'.track = next
    BY <1>3 DEF ShownState, Track0
  <2> QED
    BY <1>1, <1>3, <2>1, LoadStarts
<1>4. ASSUME shown' = [track |-> t, playing |-> p], ui' = w,
             UNCHANGED <<loads, player, engine, output>>, "dislike" \in audioScene
      PROVE  PlayInv'
  <2>1. player' = [player EXCEPT !.paused = player.paused] /\ shown' \in ShownState
    BY <1>2, <1>4 DEF PlayerState, ShownState
  <2> QED
    BY <1>1, <1>2, <1>4, <2>1, LetGo
<1> QED
  BY <1>3, <1>4 DEF Skips, v, w

\* The player store becomes t and p, when nothing is under way.
LEMMA StoreKeeps ==
  ASSUME PlayInv, Undisturbed, AllFree, ~Loading, ui.ended = 0, NEW t \in Track0,
         NEW p \in BOOLEAN, StoreSet(t, p, ui), UNCHANGED <<jobs, audioScene>>
  PROVE  PlayInv'
<1>1. PlayShape /\ Quiet /\ ui \in UiState
  BY DEF PlayInv, PlayShape
<1>2. shown.playing \in BOOLEAN /\ player.paused \in BOOLEAN
  BY <1>1 DEF PlayShape, ShownState, PlayerState
<1>3. ui.has => ui.cur = shown.track /\ player.paused = ~shown.playing
  BY DEF PlayInv, TracksAgree, PausedAsShown
<1>4. CASE Follows(t, p, ui)
  <2>1. shown' \in ShownState /\ shown'.track = t /\ shown'.playing = p
    BY <1>4 DEF Follows, ShownState
  <2>2. ASSUME t # NoTrack, LoadTrack(t, ui) PROVE PlayInv'
    BY <1>1, <2>1, <2>2, LoadStarts DEF Track0
  <2>3. CASE /\ t = NoTrack /\ t # ui.cur
             /\ ui' = [ui EXCEPT !.cur = NoTrack, !.has = FALSE]
             /\ engine' = [engine EXCEPT !.has = FALSE, !.bytes = NoTrack]
             /\ StopPlayer /\ UNCHANGED <<loads, output>>
    BY <1>1, <2>1, <2>3, StoreStops
  <2>4. CASE t = ui.cur /\ p /\ EnginePlay /\ ui' = ui /\ UNCHANGED <<loads, engine>>
    BY <1>1, <1>3, <2>1, <2>4, Resumes, OnlyPaused
  <2>5. CASE t = ui.cur /\ ~p /\ EnginePause /\ ui' = ui /\ UNCHANGED <<loads, engine>>
    BY <1>1, <1>3, <2>1, <2>5, Pauses, OnlyPaused
  <2>6. CASE /\ t = ui.cur /\ p = shown.playing /\ ui' = ui
             /\ UNCHANGED <<loads, player, engine, output>>
    <3>1. player' = [player EXCEPT !.paused = player.paused]
      BY <1>1, <2>6 DEF PlayShape, PlayerState
    <3> QED
      BY <1>1, <1>2, <1>3, <2>1, <2>6, <3>1, OnlyPaused
  <2> QED
    BY <1>4, <2>2, <2>3, <2>4, <2>5, <2>6 DEF Follows
<1>5. CASE Skips(t, p, ui)
  BY <1>1, <1>5, SkipsKeep
<1> QED
  BY <1>4, <1>5 DEF StoreSet

LEMMA CalmFacts ==
  ASSUME Undisturbed, MayAct
  PROVE  AllFree /\ ~Loading /\ ui.ended = 0 /\ ~Committing
BY DEF Undisturbed, MayAct, Calm, Steady, AllFree, Free, Loading, Active, Committing, At

\* A track is paused while it is loaded.
LEMMA EarlyKeeps ==
  ASSUME PlayInv, Undisturbed, Loading, "early" \in audioScene, Steady, shown.playing,
         StoreSet(shown.track, FALSE, ui), UNCHANGED <<jobs, audioScene>>
  PROVE  PlayInv'
<1>1. PlayShape /\ AllFree
  BY DEF PlayInv, Steady, AllFree, Free
<1>2. ui.cur = shown.track /\ ~ui.has
  BY DEF PlayInv, OneLoad, Loading
<1>3. Follows(shown.track, FALSE, ui)
  BY <1>2 DEF StoreSet, Skips
<1>4. /\ shown' \in ShownState /\ shown'.track = shown.track /\ ~shown'.playing
      /\ EnginePause /\ UNCHANGED <<ui, loads, engine>>
  BY <1>1, <1>2, <1>3 DEF PlayShape, Follows, ShownState
<1> QED
  BY <1>1, <1>2, <1>3, <1>4, Pauses, OnlyPaused

\* The end of a track is handled.
LEMMA EndKeepsPlay ==
  ASSUME PlayInv, Undisturbed, TrackEnds
  PROVE  PlayInv'
<1> DEFINE u == [ui EXCEPT !.ended = @ - 1, !.has = FALSE]
           v == [u EXCEPT !.cur = NoTrack]
<1>1. PlayShape /\ ui \in UiState /\ shown \in ShownState /\ shown.track \in Track0
  BY DEF PlayInv, PlayShape, ShownState
<1>2. ui.ended = 1 /\ AllFree /\ ~Loading /\ Quiet
  <2>1. ui.ended = 1 /\ AllFree
    BY <1>1 DEF PlayInv, EndOnce, TrackEnds
  <2> QED
    BY <2>1 DEF PlayInv, OneLoad, Loading
<1>3. /\ u \in UiState /\ u.ended = 0 /\ v \in UiState /\ v.ended = 0 /\ v.cur = NoTrack /\ ~v.has
  <2>1. ui.ended - 1 = 0
    BY <1>2
  <2>2. u = [ui EXCEPT !.ended = 0, !.has = FALSE]
    BY <2>1
  <2> HIDE DEF u
  <2>3. u \in UiState /\ u.ended = 0 /\ ~u.has
    BY <1>1, <2>2 DEF UiState
  <2> QED
    BY <2>3 DEF UiState, Track0
<1>4. UNCHANGED <<jobs, audioScene>>
  BY DEF TrackEnds
<1> HIDE DEF u, v
<1>5. CASE shown.track # NoTrack /\ LoadTrack(shown.track, u) /\ UNCHANGED shown
  BY <1>1, <1>2, <1>3, <1>4, <1>5, LoadStarts DEF Track0
<1>6. player.paused \in BOOLEAN /\ player = [player EXCEPT !.paused = player.paused]
  BY <1>1 DEF PlayShape, PlayerState
<1>7. ASSUME NEW t \in Track0, NEW p \in BOOLEAN, StoreSet(t, p, v), t # NoTrack \/ ~p
      PROVE  PlayInv'
  <2>1. CASE Follows(t, p, v)
    <3>1. shown' \in ShownState /\ shown'.track = t
      BY <2>1 DEF Follows, ShownState
    <3>2. CASE t # NoTrack
      <4>1. LoadTrack(t, v) /\ t \in Tracks
        BY <1>3, <2>1, <3>2 DEF Follows, Track0
      <4> QED
        BY <1>2, <1>3, <1>4, <3>1, <4>1, LoadStarts
    <3>3. CASE t = NoTrack
      <4>1. /\ ui' = v /\ UNCHANGED <<loads, engine>>
            /\ EnginePause \/ UNCHANGED <<player, output>>
        BY <1>3, <1>7, <2>1, <3>3 DEF Follows
      <4>2. CASE EnginePause
        BY <1>1, <1>2, <1>3, <1>4, <3>1, <4>1, <4>2, Pauses, LetGo
      <4>3. CASE UNCHANGED <<player, output>>
        BY <1>2, <1>3, <1>4, <1>6, <3>1, <4>1, <4>3, LetGo
      <4> QED
        BY <4>1, <4>2, <4>3
    <3> QED
      BY <3>2, <3>3
  <2>2. CASE Skips(t, p, v)
    BY <1>2, <1>3, <1>4, <2>2, SkipsKeep
  <2> QED
    BY <1>7, <2>1, <2>2 DEF StoreSet
<1>8. CASE ui' = v /\ UNCHANGED <<shown, loads, player, engine, output>>
  BY <1>1, <1>2, <1>3, <1>4, <1>6, <1>8, LetGo
<1>9. Tracks \subseteq Track0 /\ NoTrack \notin Tracks
  BY NoTrackAssumption DEF Track0
<1> QED
  BY <1>1, <1>5, <1>7, <1>8, <1>9 DEF TrackEnds, u, v

\* The other loads are idle, and stay so.
LEMMA OneMoves ==
  ASSUME PlayInv, NEW i \in Loads, Active(i), NEW l \in LoadState, loads' = [loads EXCEPT ![i] = l]
  PROVE  /\ loads' \in [Loads -> LoadState] /\ loads'[i] = l
         /\ \A j \in Loads : j # i => loads[j].step = "idle" /\ loads'[j].step = "idle"
         /\ loads[i].newest /\ loads[i].track = shown.track /\ ui.cur = shown.track
         /\ shown.track # NoTrack /\ ~ui.has /\ ui.ended = 0
BY DEF PlayInv, PlayShape, OneLoad, Active

LEMMA FailedKeeps ==
  ASSUME PlayInv, Undisturbed, NEW i \in Loads, LoadFails(i)
  PROVE  PlayInv'
<1>1. PlayShape /\ Opening(i) /\ Active(i)
  BY DEF PlayInv, LoadFails, Opening, Active
<1>2. /\ loads' \in [Loads -> LoadState] /\ \A j \in Loads : loads'[j].step = "idle"
      /\ ~ui.has /\ ui.ended = 0
  BY <1>1, OneMoves, NothingPlayed DEF LoadFails, Finished
<1>3. /\ ~Heard /\ engine.bytes = NoTrack /\ ~engine.has /\ NoneRebuilds
  BY <1>1 DEF PlayInv, LoadIsAlone
<1>4. UNCHANGED <<ui, engine, jobs, audioScene>>
  BY DEF LoadFails
<1>5. shown' \in ShownState /\ UNCHANGED <<player, output>>
  <2>1. CASE shown' = [shown EXCEPT !.playing = FALSE] /\ EnginePause
    BY <1>1, <1>3, <2>1, Pauses DEF PlayShape, ShownState
  <2> QED
    BY <1>1, <2>1 DEF LoadFails, PlayShape
<1>6. PlayShape'
  BY <1>1, <1>2, <1>4, <1>5 DEF PlayShape
<1>7. OneLoad' /\ LoadIsAlone' /\ PausedAsShown' /\ JobsAgree' /\ TracksAgree'
  BY <1>2, <1>3, <1>4, <1>5 DEF OneLoad, LoadIsAlone, PausedAsShown, JobsAgree,
     TracksAgree, Active, Opening, Stocked, Installed, At, Loading, Heard, NoneRebuilds,
     Rebuilds, Building
<1>8. EndOnce' /\ Quiet' /\ Exact'
  BY <1>2, <1>3, <1>4, <1>5 DEF PlayInv, EndOnce, Quiet, Exact, At, Heard, Building, Rebuilds,
     Free, AllFree
<1> QED
  BY <1>6, <1>7, <1>8 DEF PlayInv

\* A load goes on and changes nothing but itself.
LEMMA CachedKeeps ==
  ASSUME PlayInv, NEW i \in Loads, CacheAnswers(i)
  PROVE  PlayInv'
<1> DEFINE l == [loads[i] EXCEPT !.step = "read", !.paused = ~shown.playing]
<1>1. PlayShape /\ Active(i) /\ At(i, "cache") /\ loads[i] \in LoadState
  BY DEF PlayInv, PlayShape, CacheAnswers, Active, At
<1>2. l \in LoadState /\ l.step = "read" /\ l.paused = ~shown.playing /\ l.track = loads[i].track
      /\ l.newest = loads[i].newest
  <2>1. (~shown.playing) \in BOOLEAN
    OBVIOUS
  <2> QED
    BY <1>1, <2>1 DEF LoadState
<1>3. loads[i].newest
  BY <1>1 DEF PlayInv, OneLoad
<1>4. loads' = [loads EXCEPT ![i] = l]
  BY <1>1, <1>3 DEF CacheAnswers, PlayShape
<1> HIDE DEF l
<1>5. /\ loads' \in [Loads -> LoadState] /\ loads'[i] = l
      /\ \A j \in Loads : j # i => loads[j].step = "idle" /\ loads'[j].step = "idle"
      /\ \A j \in Loads : Active(j) <=> loads'[j].step # "idle"
      /\ ~ui.has
  BY <1>1, <1>2, <1>4, OneMoves DEF Active
<1>6. UNCHANGED <<shown, ui, player, engine, output, jobs, audioScene>>
  BY DEF CacheAnswers
<1>7. PlayShape'
  BY <1>1, <1>5, <1>6 DEF PlayShape
<1>8. OneLoad' /\ LoadIsAlone' /\ JobsAgree' /\ TracksAgree'
  BY <1>1, <1>2, <1>5, <1>6 DEF PlayInv, OneLoad, LoadIsAlone, JobsAgree,
     TracksAgree, Active, Opening, Stocked, Installed, At, Loading, Heard, NoneRebuilds,
     Rebuilds, Building, AllFree, Free
<1>9. PausedAsShown'
  BY <1>1, <1>2, <1>5, <1>6 DEF PlayInv, PausedAsShown, Loading, Active, Stocked, Installed, At,
     Building
<1>10. EndOnce' /\ Quiet' /\ Exact'
  BY <1>1, <1>2, <1>5, <1>6 DEF PlayInv, EndOnce, Quiet, Exact, Anchored, Committing, At, Heard,
     Building, Rebuilds, Free, AllFree
<1> QED
  BY <1>7, <1>8, <1>9, <1>10 DEF PlayInv

LEMMA ReadKeeps ==
  ASSUME PlayInv, NEW i \in Loads, FileRead(i)
  PROVE  PlayInv'
<1> DEFINE l == [loads[i] EXCEPT !.step = "build", !.on = TRUE]
<1>1. PlayShape /\ Active(i) /\ At(i, "read") /\ Opening(i) /\ loads[i] \in LoadState
  BY DEF PlayInv, PlayShape, FileRead, Active, At, Opening
<1>2. l \in LoadState /\ l.step = "build" /\ l.paused = loads[i].paused /\ l.track = loads[i].track
      /\ l.newest = loads[i].newest /\ l.on
  BY <1>1 DEF LoadState
<1>3. loads' = [loads EXCEPT ![i] = l]
  BY <1>1 DEF FileRead, PlayShape
<1> HIDE DEF l
<1>4. /\ loads' \in [Loads -> LoadState] /\ loads'[i] = l
      /\ \A j \in Loads : j # i => loads[j].step = "idle" /\ loads'[j].step = "idle"
      /\ \A j \in Loads : Active(j) <=> loads'[j].step # "idle"
      /\ ~ui.has
  BY <1>1, <1>2, <1>3, OneMoves DEF Active
<1>5. UNCHANGED <<shown, ui, player, engine, output, jobs, audioScene>>
  BY <1>1 DEF FileRead, PlayInv, PlayShape, LoadIsAlone, Heard
<1>6. PlayShape'
  BY <1>1, <1>4, <1>5 DEF PlayShape
<1>7. OneLoad' /\ LoadIsAlone' /\ JobsAgree' /\ TracksAgree'
  BY <1>1, <1>2, <1>4, <1>5 DEF PlayInv, OneLoad, LoadIsAlone, JobsAgree,
     TracksAgree, Active, Opening, Stocked, Installed, At, Loading, Heard, NoneRebuilds,
     Rebuilds, Building, AllFree, Free
<1>8. PausedAsShown'
  BY <1>1, <1>2, <1>4, <1>5 DEF PlayInv, PausedAsShown, Loading, Active, Stocked, Installed, At,
     Building
<1>9. EndOnce' /\ Quiet' /\ Exact'
  BY <1>1, <1>2, <1>4, <1>5 DEF PlayInv, EndOnce, Quiet, Exact, Anchored, Committing, At, Heard,
     Building, Rebuilds, Free, AllFree
<1> QED
  BY <1>6, <1>7, <1>8, <1>9 DEF PlayInv

\* A player that is built at a position plays from there.
LEMMA BuiltThere ==
  ASSUME engine \in EngineState, NEW t \in Track0, NEW on \in BOOLEAN, NEW paused \in BOOLEAN,
         NEW n \in Positions, NEW out \in Nat, out * engine.rate = n
  PROVE  /\ Built(t, on, paused, out) \in PlayerState
         /\ Built(t, on, paused, out).track = t /\ Built(t, on, paused, out).on = on
         /\ Built(t, on, paused, out).paused = paused /\ Built(t, on, paused, out).src = n
         /\ Built(t, on, paused, out).out = out /\ Built(t, on, paused, out).speed = engine.rate
<1>1. engine.rate \in {1, 2}
  BY DEF EngineState
<1>2. n < End /\ n \in Nat /\ End \in Nat
  BY PositionFacts
<1>3. Built(t, on, paused, out) = [track |-> t, on |-> on, paused |-> paused, out |-> out,
                                   speed |-> engine.rate, src |-> n]
  BY <1>2 DEF Built
<1> QED
  BY <1>1, <1>3 DEF PlayerState

LEMMA CommittedKeeps ==
  ASSUME PlayInv, NEW i \in Loads, CommitPlayer(i)
  PROVE  PlayInv'
<1> DEFINE l == [loads[i] EXCEPT !.step = "bytes"]
<1>1. /\ PlayShape /\ Active(i) /\ At(i, "build") /\ Opening(i) /\ loads[i] \in LoadState
      /\ engine \in EngineState
  BY DEF PlayInv, PlayShape, CommitPlayer, Active, At, Opening
<1>2. l \in LoadState /\ l.step = "bytes" /\ l.paused = loads[i].paused /\ l.track = loads[i].track
      /\ l.newest = loads[i].newest
  BY <1>1 DEF LoadState
<1>3. loads' = [loads EXCEPT ![i] = l]
  BY <1>1 DEF CommitPlayer, Step, PlayShape
<1> HIDE DEF l
<1>4. /\ loads' \in [Loads -> LoadState] /\ loads'[i] = l
      /\ \A j \in Loads : j # i => loads[j].step = "idle" /\ loads'[j].step = "idle"
      /\ \A j \in Loads : Active(j) <=> loads'[j].step # "idle"
      /\ ~ui.has /\ ui.ended = 0 /\ loads[i].track = shown.track /\ shown.track # NoTrack
  BY <1>1, <1>2, <1>3, OneMoves DEF Active
<1>5. UNCHANGED <<shown, ui, engine, output, jobs, audioScene>>
  BY DEF CommitPlayer
<1>6. /\ player' \in PlayerState /\ player'.track = shown.track /\ player'.on = loads[i].on
      /\ player'.paused = loads[i].paused /\ player'.src = 0 /\ player'.out = 0
      /\ player'.speed = engine.rate /\ 0 # End /\ 0 * engine.rate = 0
  <2>1. 0 * engine.rate = 0
    BY <1>1 DEF EngineState
  <2>2. loads[i].track \in Track0 /\ loads[i].on \in BOOLEAN /\ loads[i].paused \in BOOLEAN
    BY <1>1 DEF LoadState
  <2> QED
    BY <1>1, <1>4, <2>1, <2>2, BuiltThere, PositionFacts DEF CommitPlayer
<1>7. PlayShape'
  BY <1>1, <1>4, <1>5, <1>6 DEF PlayShape
<1>8. OneLoad' /\ LoadIsAlone' /\ JobsAgree'
  BY <1>1, <1>2, <1>4, <1>5, <1>6 DEF PlayInv, OneLoad, LoadIsAlone, JobsAgree,
     Active, Opening, Stocked, Installed, At, Heard, NoneRebuilds, Rebuilds, Building, AllFree,
     Free
<1>9. TracksAgree'
  BY <1>1, <1>2, <1>4, <1>5, <1>6 DEF PlayInv, LoadIsAlone, TracksAgree, Loading, Active
<1>10. PausedAsShown'
  BY <1>1, <1>2, <1>4, <1>5, <1>6 DEF PlayInv, PausedAsShown, Loading, Active, Stocked,
     Installed, At, Building
<1>11. EndOnce' /\ Quiet'
  BY <1>1, <1>2, <1>4, <1>5, <1>6 DEF PlayInv, EndOnce, Quiet, At, Heard,
     Building, Rebuilds, Free, AllFree
<1>12. Exact'
  BY <1>2, <1>4, <1>5, <1>6 DEF Exact, Committing, At, Heard
<1> QED
  BY <1>7, <1>8, <1>9, <1>10, <1>11, <1>12 DEF PlayInv

LEMMA StateKeeps ==
  ASSUME PlayInv, NEW i \in Loads, CommitState(i)
  PROVE  PlayInv'
<1>1. PICK next \in {"anchor", "has", "flags", "answer"} :
        /\ loads' = [loads EXCEPT ![i].step = next]
        /\ \/ /\ At(i, "bytes") /\ next = "anchor"
              /\ engine' = [engine EXCEPT !.bytes = loads[i].track]
           \/ /\ At(i, "anchor") /\ next = "has"
              /\ engine' = [engine EXCEPT !.base = 0, !.from = 0]
           \/ /\ At(i, "has") /\ next = "flags"
              /\ engine' = [engine EXCEPT !.has = TRUE]
           \/ /\ At(i, "flags") /\ next = "answer"
              /\ engine' = [engine EXCEPT !.notified = FALSE, !.error = FALSE]
  BY DEF CommitState, CommitStep, Step
<1> DEFINE l == [loads[i] EXCEPT !.step = next]
<1>2. /\ PlayShape /\ Active(i) /\ Installed(i) /\ loads[i] \in LoadState
      /\ engine \in EngineState /\ player \in PlayerState
  BY DEF PlayInv, PlayShape, CommitState, CommitStep, Active, At, Installed, Stocked
<1>3. /\ l \in LoadState /\ l.step = next /\ l.paused = loads[i].paused
      /\ l.track = loads[i].track /\ l.newest = loads[i].newest
  BY <1>2 DEF LoadState
<1>4. loads' = [loads EXCEPT ![i] = l]
  BY <1>1, <1>2 DEF PlayShape
<1> HIDE DEF l
<1>5. /\ loads' \in [Loads -> LoadState] /\ loads'[i] = l
      /\ \A j \in Loads : j # i => loads[j].step = "idle" /\ loads'[j].step = "idle"
      /\ \A j \in Loads : Active(j) <=> loads'[j].step # "idle"
      /\ ~ui.has /\ ui.ended = 0 /\ loads[i].track = shown.track /\ shown.track # NoTrack
  BY <1>2, <1>3, <1>4, OneMoves DEF Active
<1>6. UNCHANGED <<shown, ui, player, output, jobs, audioScene>>
  BY DEF CommitState, CommitStep
<1>7. /\ player.track = shown.track /\ player.src # End /\ Heard
      /\ At(i, "bytes") => NoneRebuilds
      /\ ~At(i, "bytes") => engine.bytes = shown.track
  BY <1>2, <1>5 DEF PlayInv, LoadIsAlone, Installed, Heard
<1>8. /\ engine' \in EngineState /\ engine'.bytes = shown.track /\ engine'.rate = engine.rate
      /\ engine'.loop = engine.loop /\ (engine'.error => engine.error)
      /\ next = "has" => engine'.base = 0 /\ engine'.from = 0
      /\ next # "has" => engine'.base = engine.base /\ engine'.from = engine.from
  <2>1. shown.track \in Track0 /\ 0 \in Nat
    BY <1>2, <1>5 DEF LoadState
  <2>2. CASE At(i, "bytes")
    BY <1>1, <1>2, <1>5, <2>1, <2>2 DEF EngineState, At
  <2>3. CASE ~At(i, "bytes")
    BY <1>1, <1>2, <1>7, <2>1, <2>3 DEF EngineState, At
  <2> QED
    BY <2>2, <2>3
<1>9. PlayShape'
  BY <1>2, <1>5, <1>6, <1>8 DEF PlayShape
<1>10. OneLoad' /\ LoadIsAlone'
  BY <1>2, <1>3, <1>5, <1>6, <1>7, <1>8 DEF PlayInv, OneLoad, LoadIsAlone, Active, Opening,
     Stocked, Installed, At, Heard, AllFree, Free
<1>11. JobsAgree'
  BY <1>5, <1>6, <1>7, <1>8 DEF PlayInv, JobsAgree, NoneRebuilds, Rebuilds, Building
<1>12. TracksAgree'
  BY <1>3, <1>5, <1>6, <1>7, <1>8 DEF TracksAgree, Loading, Active
<1>13. PausedAsShown'
  BY <1>2, <1>3, <1>5, <1>6 DEF PlayInv, PausedAsShown, Loading, Active, Stocked, Installed, At,
     Building
<1>14. EndOnce' /\ Quiet'
  BY <1>3, <1>5, <1>6, <1>8 DEF PlayInv, EndOnce, Quiet, At, Heard, Building, Rebuilds, Free
<1>15. Exact'
  <2>1. player.speed = engine.rate
    BY <1>7 DEF PlayInv, Exact
  <2>2. CASE next = "anchor"
    <3>1. player.src = player.out * engine.rate
      BY <1>1, <1>7, <2>2 DEF PlayInv, Exact, Committing, At
    <3>2. Committing'
      BY <1>3, <1>5, <2>2 DEF Committing, At
    <3> QED
      BY <1>6, <1>8, <2>1, <3>1, <3>2 DEF Exact
  <2>3. CASE next = "has"
    <3>1. player.src = player.out * engine.rate
      BY <1>1, <1>7, <2>3 DEF PlayInv, Exact, Committing, At
    <3>2. 0 + (player.out - 0) * engine.rate = player.out * engine.rate
      BY <1>2 DEF PlayerState, EngineState
    <3>3. Anchored' = player'.src
      BY <1>6, <1>8, <2>3, <3>1, <3>2 DEF Anchored
    <3>4. ~Committing'
      BY <1>3, <1>5, <2>3 DEF Committing, At
    <3> QED
      BY <1>6, <1>8, <2>1, <3>3, <3>4 DEF Exact
  <2>4. CASE next \in {"flags", "answer"}
    <3>1. ~Committing /\ ~Committing'
      BY <1>1, <1>3, <1>5, <2>4 DEF Committing, At
    <3>2. Anchored = player.src
      BY <1>7, <3>1 DEF PlayInv, Exact
    <3>3. engine'.base = engine.base /\ engine'.from = engine.from
      BY <1>8, <2>4
    <3> QED
      BY <1>6, <1>8, <2>1, <3>1, <3>2, <3>3 DEF Exact, Anchored
  <2> QED
    BY <2>2, <2>3, <2>4
<1> QED
  BY <1>9, <1>10, <1>11, <1>12, <1>13, <1>14, <1>15 DEF PlayInv

LEMMA AnsweredKeeps ==
  ASSUME PlayInv, Undisturbed, NEW i \in Loads, LoadAnswers(i)
  PROVE  PlayInv'
<1>1. /\ PlayShape /\ Quiet /\ Active(i) /\ At(i, "answer") /\ Installed(i)
      /\ player \in PlayerState /\ ui \in UiState
  BY DEF PlayInv, PlayShape, LoadAnswers, Active, At, Stocked, Installed
<1>2. /\ loads' \in [Loads -> LoadState] /\ \A j \in Loads : loads'[j].step = "idle"
      /\ ~ui.has /\ ui.ended = 0 /\ loads[i].newest /\ ui.cur = shown.track /\ shown.track # NoTrack
      /\ \A j \in Loads : j # i => loads[j].step = "idle"
  BY <1>1, OneMoves, NothingPlayed DEF LoadAnswers, Finished
<1>3. /\ player.track = shown.track /\ player.src # End /\ engine.bytes = shown.track
      /\ ("early" \in audioScene => AllFree) /\ Heard /\ ~Committing
  BY <1>1, <1>2 DEF PlayInv, LoadIsAlone, Stocked, Heard, Committing, At
<1>4. UNCHANGED <<shown, engine, jobs, audioScene>>
  BY DEF LoadAnswers
<1>5. ui' \in UiState /\ ui'.has /\ ui'.ended = 0 /\ ui'.cur = ui.cur
  <2>1. ui' = [ui EXCEPT !.has = TRUE]
    BY <1>1, <1>2 DEF LoadAnswers
  <2> QED
    BY <1>1, <1>2, <2>1 DEF UiState
<1>6. /\ player' = [player EXCEPT !.paused = ~shown.playing]
      /\ audioScene \cap Devices = {} => output' = output
  <2>1. CASE shown.playing
    BY <1>1, <1>2, <1>3, <2>1, Resumes DEF LoadAnswers
  <2>2. CASE ~shown.playing
    BY <1>1, <1>2, <1>3, <2>2, Pauses DEF LoadAnswers
  <2> QED
    BY <2>1, <2>2
<1>7. /\ player' \in PlayerState /\ player'.track = player.track /\ player'.src = player.src
      /\ player'.out = player.out /\ player'.speed = player.speed /\ player'.on = player.on
      /\ player'.paused = ~shown.playing
  <2>1. (~shown.playing) \in BOOLEAN
    OBVIOUS
  <2> QED
    BY <1>1, <1>6, <2>1 DEF PlayerState
<1>8. PlayShape'
  BY <1>1, <1>2, <1>3, <1>4, <1>5, <1>7 DEF PlayShape
<1>9. OneLoad' /\ LoadIsAlone' /\ JobsAgree' /\ TracksAgree'
  BY <1>1, <1>2, <1>3, <1>4, <1>5, <1>7 DEF PlayInv, OneLoad, LoadIsAlone, JobsAgree, TracksAgree,
     Active, Opening, Stocked, Installed, At, Heard, NoneRebuilds, Rebuilds, Building, AllFree,
     Free
<1>10. PausedAsShown'
  BY <1>1, <1>2, <1>4, <1>5, <1>7 DEF PlayInv, PausedAsShown, Loading, Active, Stocked,
     Installed, At, Building
<1>11. EndOnce' /\ Quiet'
  BY <1>2, <1>4, <1>5, <1>6, <1>7 DEF PlayInv, EndOnce, Quiet, At, Heard, Building, Rebuilds, Free
<1>12. Exact'
  BY <1>2, <1>3, <1>4, <1>7 DEF PlayInv, Exact, Anchored, Committing, At, Heard
<1> QED
  BY <1>8, <1>9, <1>10, <1>11, <1>12 DEF PlayInv

\* A thread that is at work: no end is being told, and the track plays or is loaded,
\* or has been let go for a disliked one.
MayWork ==
  /\ ui.ended = 0
  /\ "early" \in audioScene => ~Loading
  /\ Heard => ui.has \/ Loading \/ "dislike" \in audioScene

\* The bytes are there, and are those of the player.
Settled ==
  \/ ui.has
  \/ \E i \in Loads : Stocked(i)
  \/ ~Loading /\ Heard /\ "dislike" \in audioScene

LEMMA SettledFacts ==
  ASSUME PlayInv, Settled
  PROVE  /\ engine.bytes # NoTrack /\ player.track = engine.bytes /\ Heard
         /\ \A i \in Loads : ~Opening(i) /\ ~At(i, "bytes")
         /\ \A i \in Loads : Active(i) => Stocked(i)
         /\ ui.has \/ Loading => engine.bytes = shown.track
         /\ ui.has \/ (Loading /\ "early" \notin audioScene) => player.paused = ~shown.playing
<1>1. CASE ui.has
  BY <1>1 DEF PlayInv, OneLoad, TracksAgree, PausedAsShown, Loading, Opening, Active, At, Heard
<1>2. ASSUME ~ui.has, NEW i \in Loads, Stocked(i)
      PROVE  /\ engine.bytes = shown.track /\ player.track = shown.track /\ shown.track # NoTrack
             /\ \A j \in Loads : ~Opening(j) /\ ~At(j, "bytes")
             /\ \A j \in Loads : Active(j) => Stocked(j)
             /\ "early" \notin audioScene => player.paused = ~shown.playing
  <2>1. Active(i) /\ Installed(i) /\ shown.track # NoTrack
    BY <1>2 DEF Active, Stocked, Installed, PlayInv, OneLoad
  <2>2. \A j \in Loads : Active(j) => j = i
    BY <2>1 DEF PlayInv, OneLoad
  <2>3. engine.bytes = shown.track /\ player.track = shown.track
    BY <1>2, <2>1 DEF PlayInv, LoadIsAlone
  <2>4. "early" \notin audioScene => player.paused = ~shown.playing
    BY <2>1 DEF PlayInv, PausedAsShown
  <2> QED
    BY <1>2, <2>1, <2>2, <2>3, <2>4 DEF Opening, Active, At, Stocked
<1>3. CASE ~ui.has /\ ~Loading /\ Heard
  BY <1>3 DEF PlayInv, TracksAgree, Loading, Opening, Active, At
<1> QED
  BY <1>1, <1>2, <1>3 DEF Settled, Heard

\* A player with bytes is settled, unless it has come to its end.
LEMMA StockedSettles ==
  ASSUME PlayInv, MayWork, Heard, engine.bytes # NoTrack
  PROVE  Settled
<1>1. ASSUME NEW i \in Loads, Active(i) PROVE Stocked(i)
  <2>1. ~Opening(i) /\ ~At(i, "bytes") /\ loads[i] \in LoadState
    BY DEF PlayInv, LoadIsAlone, PlayShape
  <2> QED
    BY <1>1, <2>1 DEF Active, Opening, Stocked, At, LoadState
<1> QED
  BY <1>1 DEF MayWork, Settled, Loading

LEMMA BusyWorks ==
  ASSUME PlayInv, NEW p \in Threads, ~Free(p)
  PROVE  MayWork /\ (Rebuilds(p) => Settled)
<1>1. ui \in UiState /\ ~AllFree
  BY DEF PlayInv, PlayShape, AllFree
<1>2. ui.ended = 0
  BY <1>1 DEF PlayInv, EndOnce, UiState
<1>3. "early" \in audioScene => ~Loading
  BY <1>1 DEF PlayInv, LoadIsAlone, Loading
<1>4. Heard => ui.has \/ Loading \/ "dislike" \in audioScene
  BY <1>1 DEF PlayInv, TracksAgree
<1>5. ASSUME Rebuilds(p), ~ui.has PROVE Settled
  <2>1. ~NoneRebuilds
    BY <1>5 DEF NoneRebuilds
  <2>2. ASSUME NEW i \in Loads, Active(i) PROVE Stocked(i)
    <3>1. ~Opening(i) /\ ~At(i, "bytes") /\ loads[i] \in LoadState
      BY <2>1 DEF PlayInv, LoadIsAlone, PlayShape
    <3> QED
      BY <2>2, <3>1 DEF Active, Opening, Stocked, At, LoadState
  <2>3. ~Loading => Heard
    BY <1>5, <2>1 DEF PlayInv, TracksAgree
  <2> QED
    BY <1>4, <1>5, <2>2, <2>3 DEF Settled, Loading
<1> QED
  BY <1>2, <1>3, <1>4, <1>5 DEF MayWork, Settled

\* A player that has not come to its end plays, is being loaded or has been let go.
LEMMA UnfinishedWorks ==
  ASSUME PlayInv, Undisturbed, player.src # End, "early" \notin audioScene
  PROVE  MayWork
BY DEF MayWork, PlayInv, PlayShape, UiState, EndOnce, TracksAgree

\* What a thread may begin or go on with.
Fits(j) ==
  /\ j.step # "idle" => MayWork
  /\ j.step \in {"jump", "build"} => Settled /\ j.pos \in Positions
  /\ j.step = "build" => /\ j.track = engine.bytes /\ j.rate = engine.rate /\ j.on
                         /\ ui.has \/ Loading => j.paused = ~shown.playing
  /\ audioScene \cap Devices = {} => j.step \in {"idle", "jump", "build"}

LEMMA JobMoves ==
  ASSUME PlayInv, NEW p \in Threads, NEW j \in JobState, Fits(j), jobs' = [jobs EXCEPT ![p] = j],
         UNCHANGED <<shown, ui, loads, player, engine, audioScene>>,
         audioScene \cap Devices = {} => output' = output
  PROVE  PlayInv'
<1>1. /\ PlayShape /\ jobs' \in [Threads -> JobState] /\ jobs'[p] = j
      /\ \A q \in Threads : q # p => jobs'[q] = jobs[q]
  BY DEF PlayInv, PlayShape
<1>2. j.step \in {"jump", "build"} => Settled
  BY DEF Fits
<1>3. PlayShape' /\ OneLoad'
  BY <1>1 DEF PlayInv, PlayShape, OneLoad, Active
<1>4. LoadIsAlone'
  <2>1. ASSUME j.step \in {"jump", "build"}, NEW i \in Loads PROVE ~Opening(i) /\ ~At(i, "bytes")
    BY <1>2, <2>1, SettledFacts
  <2> QED
    BY <1>1, <2>1 DEF PlayInv, LoadIsAlone, Fits, MayWork, Opening, Stocked, Installed, At,
       Active, Loading, Heard, NoneRebuilds, Rebuilds, AllFree, Free
<1>5. TracksAgree'
  BY <1>1, <1>2 DEF PlayInv, TracksAgree, Fits, MayWork, Settled, Loading, Active, Stocked,
     Heard, NoneRebuilds, Rebuilds, AllFree, Free
<1>6. PausedAsShown'
  BY <1>1 DEF PlayInv, PausedAsShown, Fits, Loading, Active, Stocked, Installed, At, Building
<1>7. JobsAgree'
  BY <1>1, <1>2, SettledFacts DEF PlayInv, JobsAgree, Fits, Rebuilds, Building
<1>8. EndOnce'
  BY <1>1 DEF PlayInv, EndOnce, Fits, MayWork, AllFree, Free
<1>9. Quiet'
  BY <1>1 DEF PlayInv, Quiet, Fits, At, Heard, Building, Rebuilds, Free
<1>10. Exact'
  BY DEF PlayInv, Exact, Anchored, Committing, At, Heard
<1> QED
  BY <1>3, <1>4, <1>5, <1>6, <1>7, <1>8, <1>9, <1>10 DEF PlayInv

LEMMA IdleFits == Fits(NoJob)
BY NothingPlayed DEF Fits

\* What is captured of a player that is there fits.
LEMMA CapturedFits ==
  ASSUME PlayInv, MayWork, Settled, NEW n \in Positions, NEW kind \in {"reload", "seek"}
  PROVE  Captured(kind, n) \in JobState /\ Fits(Captured(kind, n))
<1>1. /\ engine.bytes \in Track0 /\ engine.rate \in {1, 2} /\ player.paused \in BOOLEAN
      /\ (ui.has \/ Loading => player.paused = ~shown.playing) /\ n \in Nat
  BY SettledFacts, PositionFacts DEF MayWork, PlayInv, PlayShape, EngineState, PlayerState
<1>2. Captured(kind, n) \in JobState
  BY <1>1 DEF Captured, JobState
<1>3. Fits(Captured(kind, n))
  BY <1>1 DEF Fits, Captured
<1> QED
  BY <1>2, <1>3

\* Devices come and go: a track does not end meanwhile, and no pause comes early.
LEMMA ReloadFits ==
  ASSUME PlayInv, Undisturbed, audioScene \cap Devices # {}, NEW p \in Threads, Reload(p)
  PROVE  \E j \in JobState : Fits(j) /\ jobs' = [jobs EXCEPT ![p] = j]
<1>1. "early" \notin audioScene /\ "time" \notin audioScene
  BY DEF Undisturbed
<1>2. PlayShape /\ player.src # End /\ player.src \in Positions
  BY <1>1 DEF PlayInv, EndOnce, PlayShape, PlayerState
<1>3. CASE engine.bytes = NoTrack \/ ~Loaded
  BY <1>3, IdleFits, NothingPlayed DEF Reload
<1>4. CASE ~(engine.bytes = NoTrack \/ ~Loaded)
  <2>1. Heard /\ MayWork /\ Settled
    BY <1>1, <1>2, <1>4, HeardIsLoaded, UnfinishedWorks, StockedSettles
  <2>2. ~Committing => SourcePos = player.src
    BY <2>1, ToldAsPlayed
  <2>3. PICK n \in Positions : jobs' = [jobs EXCEPT ![p] = Captured("reload", n)]
    BY <1>2, <1>4, <2>2 DEF Reload
  <2> QED
    BY <2>1, <2>3, CapturedFits
<1> QED
  BY <1>3, <1>4

\* The threads begin and go on.
LEMMA JobsKeep ==
  ASSUME PlayInv, Undisturbed,
         \/ \E n \in Positions : Seek(n)
         \/ \E p \in Threads : Switch(p) \/ Switched(p)
         \/ TickReloads \/ TickLoops
  PROVE  PlayInv'
<1>1. /\ PlayShape /\ NoJob \in JobState /\ jobs \in [Threads -> JobState]
      /\ \A p \in {"main", "tick", "monitor"} : p \in Threads
  BY NothingPlayed DEF PlayInv, PlayShape, Threads
<1>2. ASSUME NEW n \in Positions, Seek(n) PROVE PlayInv'
  <2> DEFINE j == [NoJob EXCEPT !.step = "jump", !.kind = "seek", !.pos = n]
  <2>1. j \in JobState /\ j.step = "jump" /\ j.pos = n
    BY <1>1, PositionFacts DEF JobState
  <2>2. MayWork /\ Settled
    BY <1>2, CalmFacts DEF Seek, MayWork, Settled
  <2>3. /\ jobs' = [jobs EXCEPT !["main"] = j] /\ output' = output
        /\ UNCHANGED <<shown, ui, loads, player, engine, audioScene>>
    BY <1>2 DEF Seek, Rest
  <2> HIDE DEF j
  <2>4. Fits(j)
    BY <2>1, <2>2 DEF Fits
  <2> QED
    BY <1>1, <2>1, <2>3, <2>4, JobMoves
<1>3. ASSUME NEW p \in Threads, Switch(p) PROVE PlayInv'
  <2> DEFINE j == [NoJob EXCEPT !.step = "sent"]
  <2>1. j \in JobState /\ j.step = "sent"
    BY <1>1 DEF JobState
  <2>2. audioScene \cap Devices # {} /\ "early" \notin audioScene /\ "time" \notin audioScene
    BY <1>3 DEF Switch, Devices, Undisturbed
  <2>3. MayWork
    BY <2>2, UnfinishedWorks DEF PlayInv, EndOnce
  <2>4. jobs' = [jobs EXCEPT ![p] = j] /\ UNCHANGED <<shown, ui, loads, player, engine, audioScene>>
    BY <1>3 DEF Switch, Rest
  <2> HIDE DEF j
  <2>5. Fits(j)
    BY <2>1, <2>2, <2>3 DEF Fits
  <2> QED
    BY <2>1, <2>2, <2>4, <2>5, JobMoves
<1>4. ASSUME NEW p \in Threads, Switched(p) PROVE PlayInv'
  <2>1. audioScene \cap Devices # {}
    BY <1>4 DEF Switched, PlayInv, Quiet, Free, Rebuilds
  <2>2. Reload(p) /\ UNCHANGED <<shown, ui, loads, player, engine, audioScene>>
    BY <1>4 DEF Switched, Rest
  <2> QED
    BY <2>1, <2>2, ReloadFits, JobMoves
<1>5. CASE TickReloads
  <2>1. audioScene \cap Devices # {}
    BY <1>5 DEF TickReloads, PlayInv, Quiet, Sound
  <2>2. Reload("tick") /\ UNCHANGED <<shown, ui, loads, player, engine, audioScene>>
    BY <1>5 DEF TickReloads, Rest
  <2> QED
    BY <1>1, <2>1, <2>2, ReloadFits, JobMoves
<1>6. CASE TickLoops
  <2> DEFINE j == [NoJob EXCEPT !.step = "jump", !.kind = "seek"]
  <2>1. j \in JobState /\ j.step = "jump" /\ j.pos = 0
    BY <1>1 DEF JobState, NoJob
  <2>2. Loaded /\ Heard /\ engine.has /\ player.src # End /\ "early" \notin audioScene
    BY <1>1, <1>6, HeardIsLoaded DEF TickLoops, Ticks, Drained, PlayInv, Quiet, Undisturbed
  <2>3. MayWork
    BY <2>2, UnfinishedWorks
  <2>4. Settled
    BY <2>2, <2>3, StockedSettles DEF PlayInv, TracksAgree
  <2>5. /\ jobs' = [jobs EXCEPT !["tick"] = j] /\ output' = output
        /\ UNCHANGED <<shown, ui, loads, player, engine, audioScene>>
    BY <1>6 DEF TickLoops, Rest
  <2> HIDE DEF j
  <2>6. Fits(j)
    BY <2>1, <2>3, <2>4, PositionFacts DEF Fits
  <2> QED
    BY <1>1, <2>1, <2>5, <2>6, JobMoves
<1> QED
  BY <1>2, <1>3, <1>4, <1>5, <1>6

\* A rebuild or a seek puts the player and the anchor where it was sent.
LEMMA Reanchors ==
  ASSUME PlayInv, NEW p \in Threads, Rebuilds(p), jobs' = [jobs EXCEPT ![p] = NoJob],
         player' \in PlayerState, player'.track = engine.bytes, player'.src \in Positions,
         player'.speed = engine.rate, player'.src = player'.out * engine.rate,
         ui.has \/ Loading => player'.paused \in {player.paused, ~shown.playing},
         audioScene \cap Devices = {} => player'.on,
         engine' \in EngineState, engine'.base = player'.src, engine'.from = player'.out,
         engine'.bytes = engine.bytes, engine'.rate = engine.rate, engine'.loop = engine.loop,
         engine'.error => engine.error,
         UNCHANGED <<shown, ui, loads, output, audioScene>>
  PROVE  PlayInv'
<1>1. /\ MayWork /\ Settled /\ engine.bytes # NoTrack
      /\ \A i \in Loads : ~Opening(i) /\ ~At(i, "bytes")
      /\ ui.has \/ Loading => engine.bytes = shown.track /\ player.paused = ~shown.playing
  BY BusyWorks, SettledFacts, ~Free(p) DEF Rebuilds, Free, MayWork
<1>2. /\ jobs' \in [Threads -> JobState] /\ jobs'[p].step = "idle"
      /\ \A q \in Threads : q # p => jobs'[q] = jobs[q]
  BY NothingPlayed DEF PlayInv, PlayShape
<1>3. /\ player'.track # NoTrack /\ player'.src # End
      /\ ui.has \/ Loading => player'.track = shown.track /\ player'.paused = ~shown.playing
  BY <1>1, PositionFacts
<1>4. PlayShape' /\ OneLoad'
  BY <1>1, <1>2, <1>3 DEF PlayInv, PlayShape, OneLoad, Active
<1>5. LoadIsAlone'
  BY <1>1, <1>2, <1>3 DEF PlayInv, LoadIsAlone, Loading, Opening, Stocked, Installed, At, Active,
     Heard, AllFree, Free
<1>6. TracksAgree'
  BY <1>1, <1>3 DEF PlayInv, TracksAgree, MayWork, Settled, Loading, Active, Stocked, Heard
<1>7. PausedAsShown'
  BY <1>1, <1>2, <1>3 DEF PlayInv, PausedAsShown, Loading, Active, Stocked, Installed, At,
     Building
<1>8. JobsAgree'
  BY <1>2 DEF PlayInv, JobsAgree, Rebuilds, Building
<1>9. EndOnce'
  BY <1>1, <1>3 DEF EndOnce, MayWork
<1>10. Quiet'
  BY <1>2 DEF PlayInv, PlayShape, EngineState, Quiet, At, Heard, Building, Rebuilds, Free
<1>11. Exact'
  <2>1. engine'.base + (player'.out - engine'.from) * engine'.rate = player'.src
    <3>1. player'.out - engine'.from = 0 /\ engine'.rate \in {1, 2} /\ engine'.base \in Nat
      BY DEF PlayerState, EngineState
    <3> QED
      BY <3>1
  <2> QED
    BY <2>1 DEF Exact, Anchored
<1> QED
  BY <1>4, <1>5, <1>6, <1>7, <1>8, <1>9, <1>10, <1>11 DEF PlayInv

LEMMA JumpKeeps ==
  ASSUME PlayInv, NEW p \in Threads, Jump(p)
  PROVE  PlayInv'
<1> DEFINE pos == jobs[p].pos
           out == pos \div engine.rate
<1>1. /\ Rebuilds(p) /\ ~Free(p) /\ pos \in Positions /\ engine \in EngineState
      /\ engine.rate \in {1, 2} /\ player \in PlayerState /\ jobs \in [Threads -> JobState]
  BY DEF Jump, Rebuilds, Free, PlayInv, PlayShape, JobsAgree, EngineState
<1>2. MayWork /\ Settled
  BY <1>1, BusyWorks
<1>3. engine.bytes = player.track /\ Heard
  BY <1>2, SettledFacts
<1>4. out \in Nat /\ out * engine.rate = pos
  BY <1>1, Halved
<1>5. UNCHANGED <<shown, ui, loads, output, audioScene>>
  BY DEF Jump, Rest
<1>6. CASE /\ player' = [player EXCEPT !.src = out * player.speed, !.out = out]
           /\ engine' = [engine EXCEPT !.notified = FALSE, !.base = pos, !.from = out]
           /\ jobs' = [jobs EXCEPT ![p] = NoJob]
  <2>1. player.speed = engine.rate
    BY <1>3 DEF PlayInv, Exact
  <2>2. player' = [player EXCEPT !.src = pos, !.out = out]
    BY <1>4, <1>6, <2>1
  <2>3. pos \in Nat
    BY <1>1, PositionFacts
  <2> HIDE DEF pos, out
  <2>4. /\ player' \in PlayerState /\ player'.track = player.track /\ player'.src = pos
        /\ player'.out = out /\ player'.speed = player.speed /\ player'.paused = player.paused
        /\ player'.on = player.on
    BY <1>1, <1>4, <2>2 DEF PlayerState
  <2>5. /\ engine' \in EngineState /\ engine'.base = pos /\ engine'.from = out
        /\ engine'.bytes = engine.bytes /\ engine'.rate = engine.rate /\ engine'.loop = engine.loop
        /\ engine'.error = engine.error
    BY <1>1, <1>4, <1>6, <2>3 DEF EngineState
  <2>6. audioScene \cap Devices = {} => player'.on
    BY <1>3, <2>4 DEF PlayInv, Quiet
  <2> QED
    BY <1>1, <1>3, <1>4, <1>5, <1>6, <2>1, <2>4, <2>5, <2>6, Reanchors
<1>7. CASE /\ jobs' = [jobs EXCEPT ![p] = IF engine.bytes = NoTrack THEN NoJob
                                         ELSE Captured("seek", pos)]
           /\ UNCHANGED <<player, engine>>
  <2>1. jobs' = [jobs EXCEPT ![p] = Captured("seek", pos)]
    BY <1>3, <1>7 DEF Heard
  <2>2. Captured("seek", pos) \in JobState /\ Fits(Captured("seek", pos))
    BY <1>1, <1>2, CapturedFits
  <2> QED
    BY <1>5, <1>7, <2>1, <2>2, JobMoves
<1> QED
  BY <1>6, <1>7 DEF Jump

LEMMA InstallKeeps ==
  ASSUME PlayInv, NEW p \in Threads, Install(p)
  PROVE  PlayInv'
<1> DEFINE job == jobs[p]
           out == job.pos \div job.rate
<1>1. /\ Rebuilds(p) /\ Building(p) /\ job \in JobState /\ engine \in EngineState
      /\ job.pos \in Positions /\ job.track = engine.bytes /\ engine.bytes # NoTrack
      /\ job.rate = engine.rate /\ engine.rate \in {1, 2}
      /\ ui.has \/ Loading => job.paused = ~shown.playing
  BY DEF Install, Rebuilds, Building, PlayInv, PlayShape, JobsAgree, PausedAsShown, EngineState
<1>2. out \in Nat /\ out * engine.rate = job.pos /\ job.pos \in Nat
  BY <1>1, Halved, PositionFacts
<1>3. /\ player' = Built(job.track, job.on, job.paused, out)
      /\ engine' = IF job.kind = "seek"
                   THEN [engine EXCEPT !.base = job.pos, !.from = out, !.notified = FALSE]
                   ELSE [engine EXCEPT !.base = job.pos, !.from = out, !.notified = FALSE,
                                       !.has = TRUE, !.error = FALSE]
      /\ jobs' = [jobs EXCEPT ![p] = NoJob]
      /\ UNCHANGED <<shown, ui, loads, output, audioScene>>
  BY DEF Install, Rest
<1>4. audioScene \cap Devices = {} => job.on
  BY <1>1 DEF PlayInv, Quiet
<1> HIDE DEF job, out
<1>5. job.track \in Track0 /\ job.on \in BOOLEAN /\ job.paused \in BOOLEAN
  BY <1>1 DEF JobState
<1>6. /\ player' \in PlayerState /\ player'.track = engine.bytes /\ player'.on = job.on
      /\ player'.paused = job.paused /\ player'.src = job.pos /\ player'.out = out
      /\ player'.speed = engine.rate
  <2>1. /\ player' \in PlayerState /\ player'.track = job.track /\ player'.on = job.on
        /\ player'.paused = job.paused /\ player'.src = job.pos /\ player'.out = out
        /\ player'.speed = engine.rate
    <3>1. player' = Built(job.track, job.on, job.paused, out)
      BY <1>3
    <3>2. /\ engine \in EngineState /\ job.pos \in Positions
          /\ out \in Nat /\ out * engine.rate = job.pos
      BY <1>1, <1>2
    <3> QED
      BY <1>5, <3>1, <3>2, BuiltThere
  <2> QED
    BY <1>1, <2>1
<1>7. /\ engine' \in EngineState /\ engine'.base = job.pos /\ engine'.from = out
      /\ engine'.bytes = engine.bytes /\ engine'.rate = engine.rate /\ engine'.loop = engine.loop
      /\ engine'.error => engine.error
  BY <1>1, <1>2, <1>3 DEF EngineState
<1> QED
  BY <1>1, <1>2, <1>3, <1>4, <1>6, <1>7, Reanchors

\* set_playback_rate and set_ab_loop, when nothing is under way.
LEMMA RateKeeps ==
  ASSUME PlayInv, Undisturbed, NEW r \in {1, 2}, SetRate(r)
  PROVE  PlayInv'
<1>1. /\ PlayShape /\ AllFree /\ ~Loading /\ ~Committing /\ Rates(r) /\ player \in PlayerState
      /\ engine \in EngineState
      /\ UNCHANGED <<shown, ui, loads, output, jobs, audioScene>>
  BY CalmFacts DEF SetRate, Rest, PlayInv, PlayShape
<1>2. Heard => SourcePos = player.src /\ player.src \in Nat
  BY <1>1, ToldAsPlayed
<1>3. /\ player' \in PlayerState /\ (Heard => player'.speed = r) /\ (~Heard => player' = player)
      /\ player'.track = player.track /\ player'.src = player.src /\ player'.on = player.on
      /\ player'.paused = player.paused /\ player'.out = player.out
  BY <1>1, HeardIsLoaded DEF Rates, PlayerState
<1>4. /\ engine' \in EngineState /\ engine'.rate = r /\ engine'.bytes = engine.bytes
      /\ engine'.has = engine.has /\ engine'.notified = engine.notified
      /\ engine'.error = engine.error /\ engine'.loop = engine.loop
      /\ (Heard => engine'.base = player.src /\ engine'.from = player.out)
  <2>1. CASE Heard
    <3>1. engine' = [engine EXCEPT !.rate = r, !.base = player.src, !.from = player.out]
      BY <1>1, <1>2, <2>1, HeardIsLoaded DEF Rates
    <3>2. player.src \in Nat /\ player.out \in Nat
      BY <1>1, <1>2, <2>1 DEF PlayerState
    <3>3. ASSUME NEW b \in Nat, NEW f \in Nat,
                 engine' = [engine EXCEPT !.rate = r, !.base = b, !.from = f]
          PROVE  /\ engine' \in EngineState /\ engine'.rate = r /\ engine'.bytes = engine.bytes
                 /\ engine'.has = engine.has /\ engine'.notified = engine.notified
                 /\ engine'.error = engine.error /\ engine'.loop = engine.loop
                 /\ engine'.base = b /\ engine'.from = f
      BY <1>1, <3>3 DEF EngineState
    <3> QED
      BY <3>1, <3>2, <3>3
  <2>2. CASE ~Heard
    <3>1. engine' = [engine EXCEPT !.rate = r]
      BY <1>1, <2>2, HeardIsLoaded DEF Rates
    <3> QED
      BY <1>1, <2>2, <3>1 DEF EngineState
  <2> QED
    BY <2>1, <2>2
<1>5. PlayShape' /\ OneLoad' /\ LoadIsAlone' /\ TracksAgree'
  BY <1>1, <1>3, <1>4 DEF PlayInv, PlayShape, OneLoad, LoadIsAlone, TracksAgree, Active, Opening,
     Stocked, Installed, At, Loading, Heard, NoneRebuilds, Rebuilds, AllFree, Free
<1>6. PausedAsShown' /\ JobsAgree' /\ EndOnce' /\ Quiet'
  BY <1>1, <1>3, <1>4 DEF PlayInv, PausedAsShown, JobsAgree, EndOnce, Quiet, Loading, Active,
     Stocked, Installed, At, Heard, Rebuilds, Building, AllFree, Free
<1>7. Exact'
  <2>1. ASSUME Heard PROVE Anchored' = player'.src
    <3>1. player.out - player.out = 0 /\ player.src \in Nat /\ r \in {1, 2}
      BY <1>1, <1>2, <2>1 DEF PlayerState
    <3>2. player.src + (player.out - player.out) * r = player.src
      BY <3>1
    <3> QED
      BY <1>3, <1>4, <2>1, <3>2 DEF Anchored
  <2> QED
    BY <1>1, <1>3, <1>4, <2>1 DEF Exact, Committing, At, Heard
<1> QED
  BY <1>5, <1>6, <1>7 DEF PlayInv

LEMMA LoopKeeps ==
  ASSUME PlayInv, NEW on \in BOOLEAN, SetLoop(on)
  PROVE  PlayInv'
<1>1. /\ engine \in EngineState /\ engine' = [engine EXCEPT !.loop = on] /\ "loop" \in audioScene
      /\ UNCHANGED <<shown, ui, loads, player, output, jobs, audioScene>>
  BY DEF SetLoop, Rest, PlayInv, PlayShape
<1>2. /\ engine' \in EngineState /\ engine'.bytes = engine.bytes /\ engine'.has = engine.has
      /\ engine'.notified = engine.notified /\ engine'.rate = engine.rate
      /\ engine'.base = engine.base /\ engine'.from = engine.from /\ engine'.error = engine.error
  BY <1>1 DEF EngineState
<1>3. PlayShape' /\ OneLoad' /\ LoadIsAlone' /\ TracksAgree'
  BY <1>1, <1>2 DEF PlayInv, PlayShape, OneLoad, LoadIsAlone, TracksAgree, Active, Opening,
     Stocked, Installed, At, Loading, Heard, NoneRebuilds, Rebuilds, AllFree, Free
<1>4. PausedAsShown' /\ JobsAgree' /\ EndOnce' /\ Quiet' /\ Exact'
  BY <1>1, <1>2 DEF PlayInv, PausedAsShown, JobsAgree, EndOnce, Quiet, Exact, Anchored,
     Committing, Loading, Active, Stocked, Installed, At, Heard, Rebuilds, Building, AllFree, Free
<1> QED
  BY <1>3, <1>4 DEF PlayInv

\* What is played of the source is what rodio has played, at the player's speed.
LEMMA Played ==
  ASSUME NEW out \in Nat, NEW base \in Nat, NEW from \in Nat, NEW r \in {1, 2}
  PROVE  /\ out + 2 \div r \in Nat /\ (out + 2 \div r) * r = out * r + 2
         /\ base + ((out + 2 \div r) - from) * r = (base + (out - from) * r) + 2
<1>1. CASE r = 1
  BY <1>1
<1>2. CASE r = 2
  BY <1>2
<1> QED
  BY <1>1, <1>2

LEMMA PlaysKeeps ==
  ASSUME PlayInv, Plays
  PROVE  PlayInv'
<1>1. /\ PlayShape /\ player \in PlayerState /\ engine \in EngineState /\ Heard
      /\ player.src # End /\ player.src \in Positions /\ player.src \in Nat
      /\ player.speed = engine.rate
      /\ UNCHANGED <<shown, ui, loads, engine, output, jobs, audioScene>>
  <2>1. Heard /\ player.src # End /\ PlayShape
    BY HeardIsLoaded DEF Plays, Drained, PlayInv
  <2> QED
    BY <2>1, PositionFacts DEF Plays, Rest, PlayInv, PlayShape, PlayerState, Exact
<1>2. player.src + 2 \in Positions \cup {End}
  BY <1>1, PositionFacts
<1>3. player.out + 2 \div player.speed \in Nat
  BY <1>1, Played DEF PlayerState, EngineState
<1>4. /\ player' \in PlayerState /\ player'.src = player.src + 2
      /\ player'.out = player.out + 2 \div player.speed /\ player'.track = player.track
      /\ player'.speed = player.speed /\ player'.paused = player.paused /\ player'.on = player.on
  <2>1. ASSUME NEW s \in Positions \cup {End}, NEW o \in Nat,
               player' = [player EXCEPT !.src = s, !.out = o]
        PROVE  /\ player' \in PlayerState /\ player'.src = s /\ player'.out = o
               /\ player'.track = player.track /\ player'.speed = player.speed
               /\ player'.paused = player.paused /\ player'.on = player.on
    BY <1>1, <2>1 DEF PlayerState
  <2>2. player' = [player EXCEPT !.src = player.src + 2, !.out = player.out + 2 \div player.speed]
    BY DEF Plays
  <2> QED
    BY <1>2, <1>3, <2>1, <2>2
<1>5. player'.src = End => "time" \in audioScene /\ \A i \in Loads : ~Installed(i)
  BY <1>1, <1>4, PositionFacts DEF Plays, Stocked, Installed, At
<1>6. PlayShape' /\ OneLoad'
  BY <1>1, <1>4 DEF PlayInv, PlayShape, OneLoad, Active, Heard
<1>7. LoadIsAlone' /\ PausedAsShown' /\ JobsAgree' /\ Quiet'
  BY <1>1, <1>4, <1>5 DEF PlayInv, LoadIsAlone, PausedAsShown, JobsAgree, Quiet, Active, Opening,
     Stocked, Installed, At, Loading, Heard, NoneRebuilds, Rebuilds, Building, AllFree, Free
<1>8. TracksAgree'
  BY <1>1, <1>4 DEF PlayInv, TracksAgree, Loading, Active, Heard
<1>9. EndOnce'
  BY <1>1, <1>5 DEF PlayInv, EndOnce, AllFree, Free
<1>10. Exact'
  <2>1. player.speed \in {1, 2} /\ player.out \in Nat /\ engine.base \in Nat /\ engine.from \in Nat
    BY <1>1 DEF PlayerState, EngineState
  <2>2. CASE Committing
    <3>1. player.src = player.out * engine.rate
      BY <1>1, <2>2 DEF PlayInv, Exact
    <3>2. player'.src = player'.out * engine'.rate
      BY <1>1, <1>4, <2>1, <3>1, Played
    <3> QED
      BY <1>1, <1>4, <2>2, <3>2 DEF Exact, Committing, At
  <2>3. CASE ~Committing
    <3>1. Anchored = player.src
      BY <1>1, <2>3 DEF PlayInv, Exact
    <3>2. Anchored' = Anchored + 2
      BY <1>1, <1>4, <2>1, Played DEF Anchored
    <3> QED
      BY <1>1, <1>4, <2>3, <3>1, <3>2 DEF Exact, Committing, At
  <2> QED
    BY <2>2, <2>3
<1> QED
  BY <1>6, <1>7, <1>8, <1>9, <1>10 DEF PlayInv

\* A new stream: nothing is heard of what was built for the old one.
LEMMA ReopensKeeps ==
  ASSUME PlayInv, Undisturbed, Reopens
  PROVE  PlayInv'
<1> DEFINE waiting == Head(output.queue)
<1>1. /\ PlayShape /\ player \in PlayerState /\ jobs \in [Threads -> JobState]
      /\ loads \in [Loads -> LoadState]
      /\ UNCHANGED <<shown, ui, engine, audioScene>>
  BY DEF Reopens, PlayInv, PlayShape
<1>2. /\ audioScene \cap Devices # {} /\ "early" \notin audioScene /\ "time" \notin audioScene
      /\ player.src # End /\ MayWork
  <2>1. audioScene \cap Devices # {}
    BY DEF Reopens, PlayInv, Quiet, Sound
  <2>2. "early" \notin audioScene /\ "time" \notin audioScene
    BY <2>1 DEF Undisturbed
  <2> QED
    BY <2>1, <2>2, UnfinishedWorks DEF PlayInv, EndOnce
<1>3. /\ player' \in PlayerState /\ player'.track = player.track /\ player'.src = player.src
      /\ player'.out = player.out /\ player'.speed = player.speed /\ player'.paused = player.paused
      /\ player.track = NoTrack => player' = NoPlayer
  <2>1. player' = [player EXCEPT !.on = FALSE]
    BY DEF Reopens, Reopened
  <2>2. ASSUME player = NoPlayer PROVE player' = player
    <3>1. player.on = FALSE
      BY <2>2 DEF NoPlayer
    <3> QED
      BY <1>1, <2>1, <3>1 DEF PlayerState
  <2> QED
    BY <1>1, <2>1, <2>2 DEF PlayShape, PlayerState
<1>4. /\ loads' \in [Loads -> LoadState]
      /\ \A i \in Loads : /\ loads'[i].step = loads[i].step /\ loads'[i].track = loads[i].track
                          /\ loads'[i].newest = loads[i].newest
                          /\ loads'[i].paused = loads[i].paused
  BY <1>1 DEF Reopens, Reopened, LoadState
<1>5. \A p \in Threads : jobs'[p] \in JobState /\ (jobs'[p].step = "opened" \/
        (/\ jobs'[p].step = jobs[p].step /\ jobs'[p].pos = jobs[p].pos
         /\ jobs'[p].track = jobs[p].track /\ jobs'[p].rate = jobs[p].rate
         /\ jobs'[p].paused = jobs[p].paused))
  <2> SUFFICES ASSUME NEW p \in Threads
               PROVE  jobs'[p] \in JobState /\ (jobs'[p].step = "opened" \/
                        (/\ jobs'[p].step = jobs[p].step /\ jobs'[p].pos = jobs[p].pos
                         /\ jobs'[p].track = jobs[p].track /\ jobs'[p].rate = jobs[p].rate
                         /\ jobs'[p].paused = jobs[p].paused))
    OBVIOUS
  <2>1. jobs[p] \in JobState
    BY <1>1
  <2>2. CASE p = waiting
    BY <2>1, <2>2 DEF Reopens, Reopened, JobState
  <2>3. CASE p # waiting
    BY <2>1, <2>3 DEF Reopens, Reopened, JobState
  <2> QED
    BY <2>2, <2>3
<1>6. jobs' \in [Threads -> JobState]
  BY <1>5 DEF Reopens, Reopened
<1>7. PlayShape' /\ OneLoad'
  BY <1>1, <1>3, <1>4, <1>6 DEF PlayInv, PlayShape, OneLoad, Active
<1>8. LoadIsAlone'
  BY <1>1, <1>2, <1>3, <1>4, <1>5 DEF PlayInv, LoadIsAlone, Opening, Stocked, Installed, At,
     Heard, NoneRebuilds, Rebuilds
<1>9. TracksAgree'
  BY <1>1, <1>2, <1>3, <1>4, <1>5 DEF PlayInv, TracksAgree, Loading, Active, Heard,
     NoneRebuilds, Rebuilds
<1>10. PausedAsShown' /\ JobsAgree'
  BY <1>1, <1>3, <1>4, <1>5 DEF PlayInv, PausedAsShown, JobsAgree, Loading, Active, Stocked,
     Installed, At, Building, Rebuilds
<1>11. EndOnce' /\ Quiet'
  BY <1>1, <1>2, <1>3 DEF PlayInv, EndOnce, MayWork, Quiet
<1>12. Exact'
  BY <1>1, <1>3, <1>4 DEF PlayInv, Exact, Anchored, Committing, At, Heard
<1> QED
  BY <1>7, <1>8, <1>9, <1>10, <1>11, <1>12 DEF PlayInv

\* The stream stops, or the tick thread asks for a new one.
LEMMA StreamKeeps ==
  ASSUME PlayInv, StreamStops \/ TickStalls
  PROVE  PlayInv'
<1>1. /\ audioScene \cap Devices # {} /\ PlayShape /\ engine \in EngineState
      /\ UNCHANGED <<shown, ui, loads, player, jobs, audioScene>>
  <2>1. CASE StreamStops
    BY <2>1 DEF StreamStops, Rest, Devices, PlayInv, PlayShape
  <2>2. CASE TickStalls
    <3>1. Heard
      BY <2>2, HeardIsLoaded DEF TickStalls, Ticks, PlayInv
    <3>2. audioScene \cap Devices # {}
      BY <2>2, <3>1 DEF TickStalls, Pulled, Devices, PlayInv, Quiet, Sound
    <3> QED
      BY <2>2, <3>2 DEF TickStalls, Rest, PlayInv, PlayShape
  <2> QED
    BY <2>1, <2>2
<1>2. engine' = engine \/ engine' = [engine EXCEPT !.error = TRUE]
  BY DEF StreamStops, TickStalls
<1>3. /\ engine' \in EngineState /\ engine'.bytes = engine.bytes /\ engine'.has = engine.has
      /\ engine'.notified = engine.notified /\ engine'.rate = engine.rate
      /\ engine'.base = engine.base /\ engine'.from = engine.from /\ engine'.loop = engine.loop
  BY <1>1, <1>2 DEF EngineState
<1>4. PlayShape' /\ OneLoad' /\ LoadIsAlone' /\ TracksAgree'
  BY <1>1, <1>3 DEF PlayInv, PlayShape, OneLoad, LoadIsAlone, TracksAgree, Active, Opening,
     Stocked, Installed, At, Loading, Heard, NoneRebuilds, Rebuilds, AllFree, Free
<1>5. PausedAsShown' /\ JobsAgree' /\ EndOnce' /\ Quiet' /\ Exact'
  BY <1>1, <1>3 DEF PlayInv, PausedAsShown, JobsAgree, EndOnce, Quiet, Exact, Anchored,
     Committing, Loading, Active, Stocked, Installed, At, Heard, Rebuilds, Building, AllFree, Free
<1> QED
  BY <1>4, <1>5 DEF PlayInv

\* The end is told.
LEMMA TellKeeps ==
  ASSUME PlayInv, Undisturbed, TickEnds
  PROVE  PlayInv'
<1>1. /\ PlayShape /\ ui \in UiState /\ engine \in EngineState /\ Heard /\ player.src = End
      /\ engine.has /\ ~engine.notified
      /\ UNCHANGED <<shown, loads, player, output, jobs, audioScene>>
  BY HeardIsLoaded DEF TickEnds, Ticks, Drained, PlayInv, PlayShape
<1>2. ~Loading /\ (ui.has \/ "dislike" \in audioScene)
  <2>1. ASSUME NEW i \in Loads, Active(i) PROVE FALSE
    <3>1. ~Opening(i) /\ ~Installed(i) /\ loads[i] \in LoadState
      BY <1>1 DEF PlayInv, LoadIsAlone, PlayShape
    <3> QED
      BY <2>1, <3>1 DEF Active, Opening, Stocked, Installed, At, LoadState
  <2> QED
    BY <1>1, <2>1 DEF PlayInv, TracksAgree, Loading
<1>3. ui.ended = 0
  BY <1>1 DEF PlayInv, EndOnce, UiState
<1>4. AllFree
  <2>1. audioScene \cap Devices = {}
    BY <1>1 DEF Undisturbed, PlayInv, EndOnce
  <2>2. \A p \in Threads : jobs[p].step \notin {"jump", "build"}
    BY DEF TickEnds, EndedSuppressed
  <2> QED
    BY <2>1, <2>2 DEF PlayInv, Quiet, AllFree, Free, Rebuilds
<1>5. ui' \in UiState /\ ui'.ended = 1 /\ ui'.has = ui.has /\ ui'.cur = ui.cur
  <2>1. ui.ended + 1 = 1
    BY <1>3
  <2>2. ui' = [ui EXCEPT !.ended = 1]
    BY <2>1 DEF TickEnds
  <2> QED
    BY <1>1, <2>2 DEF UiState
<1>6. /\ engine' \in EngineState /\ engine'.bytes = engine.bytes /\ engine'.has = engine.has
      /\ engine'.notified /\ engine'.rate = engine.rate /\ engine'.error = engine.error
      /\ engine'.base = engine.base /\ engine'.from = engine.from /\ engine'.loop = engine.loop
  BY <1>1 DEF TickEnds, EngineState
<1>7. PlayShape' /\ OneLoad' /\ LoadIsAlone' /\ TracksAgree'
  BY <1>1, <1>2, <1>5, <1>6 DEF PlayInv, PlayShape, OneLoad, LoadIsAlone, TracksAgree, Active,
     Opening, Stocked, Installed, At, Loading, Heard, NoneRebuilds, Rebuilds, AllFree, Free
<1>8. PausedAsShown' /\ JobsAgree' /\ Quiet' /\ Exact'
  BY <1>1, <1>5, <1>6 DEF PlayInv, PausedAsShown, JobsAgree, Quiet, Exact, Anchored, Committing,
     Loading, Active, Stocked, Installed, At, Heard, Rebuilds, Building, Free
<1>9. EndOnce'
  BY <1>1, <1>2, <1>4, <1>5, <1>6 DEF PlayInv, EndOnce, AllFree, Free
<1> QED
  BY <1>7, <1>8, <1>9 DEF PlayInv

\* The store's own actions.
LEMMA StoreActs ==
  ASSUME PlayInv, Undisturbed, (\E t \in Tracks : Choose(t)) \/ Previous \/ Toggle
  PROVE  PlayInv'
<1>1. /\ shown.track \in Track0 /\ NoTrack \in Track0 /\ Tracks \subseteq Track0
      /\ (~shown.playing) \in BOOLEAN
  BY DEF PlayInv, PlayShape, ShownState, Track0
<1>2. ASSUME MayAct, NEW t \in Track0, NEW p \in BOOLEAN, StoreSet(t, p, ui),
             UNCHANGED <<jobs, audioScene>>
      PROVE  PlayInv'
  BY <1>2, CalmFacts, StoreKeeps
<1>3. ASSUME NEW t \in Tracks, Choose(t) PROVE PlayInv'
  BY <1>1, <1>2, <1>3 DEF Choose
<1>4. CASE Previous
  BY <1>1, <1>2, <1>4 DEF Previous
<1>5. CASE Toggle /\ MayAct
  BY <1>1, <1>2, <1>5 DEF Toggle
<1>6. CASE Toggle /\ ~MayAct
  <2>1. /\ "early" \in audioScene /\ Steady /\ shown.playing /\ UNCHANGED <<jobs, audioScene>>
        /\ StoreSet(shown.track, ~shown.playing, ui) /\ (~shown.playing) = FALSE
    BY <1>6 DEF Toggle
  <2>2. StoreSet(shown.track, FALSE, ui)
    BY <2>1
  <2>3. CASE Loading
    BY <2>1, <2>2, <2>3, EarlyKeeps
  <2>4. CASE ~Loading
    BY <1>1, <2>1, <2>2, <2>4, StoreKeeps DEF Steady, AllFree, Free
  <2> QED
    BY <2>3, <2>4
<1> QED
  BY <1>3, <1>4, <1>5, <1>6

\* Previews leave the player alone.
LEMMA AloneKeeps ==
  ASSUME PlayInv, UNCHANGED <<shown, audioVars, audioScene>>
  PROVE  PlayInv'
<1>1. UNCHANGED <<shown, ui, loads, player, engine, output, jobs, audioScene>>
  BY DEF audioVars
<1>2. PlayShape' /\ OneLoad' /\ LoadIsAlone' /\ TracksAgree'
  BY <1>1 DEF PlayInv, PlayShape, OneLoad, LoadIsAlone, TracksAgree, Active, Opening,
     Stocked, Installed, At, Loading, Heard, NoneRebuilds, Rebuilds, AllFree, Free
<1>3. PausedAsShown' /\ JobsAgree' /\ EndOnce' /\ Quiet' /\ Exact'
  BY <1>1 DEF PlayInv, PausedAsShown, JobsAgree, EndOnce, Quiet, Exact, Anchored, Committing,
     Loading, Active, Stocked, Installed, At, Heard, Rebuilds, Building, AllFree, Free
<1> QED
  BY <1>2, <1>3 DEF PlayInv

LEMMA PlayNext ==
  ASSUME PlayInv, Undisturbed, [AudioNext]_playerVars
  PROVE  PlayInv'
<1>1. CASE (\E t \in Tracks : Choose(t)) \/ Previous \/ Toggle \/ TrackEnds
  BY <1>1, StoreActs, EndKeepsPlay
<1>2. ASSUME NEW i \in Loads, LoadSteps(i) PROVE PlayInv'
  BY <1>2, FailedKeeps, CachedKeeps, ReadKeeps, CommittedKeeps, StateKeeps, AnsweredKeeps
     DEF LoadSteps
<1>3. ASSUME NEW r \in {1, 2}, SetRate(r) PROVE PlayInv'
  BY <1>3, RateKeeps
<1>4. ASSUME NEW on \in BOOLEAN, SetLoop(on) PROVE PlayInv'
  BY <1>4, LoopKeeps
<1>5. ASSUME NEW n \in Positions, Seek(n) PROVE PlayInv'
  BY <1>5, JobsKeep
<1>6. ASSUME NEW p \in Threads, Jump(p) \/ Install(p) \/ Switch(p) \/ Switched(p) PROVE PlayInv'
  BY <1>6, JumpKeeps, InstallKeeps, JobsKeep
<1>7. CASE Plays \/ Reopens \/ StreamStops \/ TickReloads \/ TickEnds \/ TickLoops \/ TickStalls
  BY <1>7, PlaysKeeps, ReopensKeeps, StreamKeeps, JobsKeep, TellKeeps
<1>8. CASE ("preview" \in audioScene /\ PreviewNext /\ UNCHANGED <<audioVars, audioScene>>)
           \/ UNCHANGED playerVars
  <2>1. UNCHANGED <<shown, audioVars, audioScene>>
    BY <1>8 DEF PreviewNext, playerVars
  <2> QED
    BY <2>1, AloneKeeps
<1> QED
  BY <1>1, <1>2, <1>3, <1>4, <1>5, <1>6, <1>7, <1>8 DEF AudioNext

LEMMA SceneLasts ==
  ASSUME [AudioNext]_playerVars
  PROVE  audioScene' = audioScene
BY DEF AudioNext, playerVars, Choose, Previous, Toggle, TrackEnds, LoadSteps, LoadFails,
   CacheAnswers, FileRead, CommitPlayer, CommitState, CommitStep, LoadAnswers, SetRate, SetLoop,
   Seek, Jump, Install, Switch, Switched, Plays, Reopens, StreamStops, TickReloads, TickEnds,
   TickLoops, TickStalls

LEMMA PlayStart ==
  ASSUME AudioInit
  PROVE  PlayInv
<1>1. /\ player = NoPlayer /\ ui.ended = 0 /\ ~ui.has /\ engine.bytes = NoTrack /\ ~engine.has
      /\ ~engine.error /\ ~engine.loop /\ output = Sound /\ player.src = 0
      /\ \A i \in Loads : loads[i].step = "idle"
      /\ \A p \in Threads : jobs[p].step = "idle"
      /\ ~Heard
  BY DEF AudioInit, NoPlayer, NoLoad, NoJob, Heard, Sound
<1>2. PlayShape
  <2>1. /\ shown \in ShownState /\ ui \in UiState
    BY DEF AudioInit, PreviewInit, ShownState, UiState, Track0
  <2>2. engine \in EngineState
    BY DEF AudioInit, EngineState, Track0
  <2>3. /\ loads \in [Loads -> LoadState] /\ jobs \in [Threads -> JobState]
        /\ player \in PlayerState
    BY NothingPlayed DEF AudioInit
  <2> QED
    BY <1>1, <2>1, <2>2, <2>3 DEF PlayShape
<1>3. OneLoad /\ LoadIsAlone /\ TracksAgree /\ PausedAsShown /\ JobsAgree
  BY <1>1 DEF OneLoad, LoadIsAlone, TracksAgree, PausedAsShown, JobsAgree, Active,
     Opening, Stocked, Installed, At, Loading, Heard, NoneRebuilds, Rebuilds, Building
<1>4. EndOnce /\ Quiet /\ Exact
  BY <1>1, PositionFacts DEF EndOnce, Quiet, Exact, At, Building, Free
<1> QED
  BY <1>2, <1>3, <1>4 DEF PlayInv

\* The inductive invariant of the player, where the listener does not hurry, no
\* lock is missed, and devices keep away from a track's end and from early pauses;
\* disliked tracks are skipped, whatever plays meanwhile.
THEOREM PlayerInductive == AudioSpec => [](Undisturbed => PlayInv)
<1>1. AudioInit => (Undisturbed => PlayInv)
  BY PlayStart
<1>2. (Undisturbed => PlayInv) /\ [AudioNext]_playerVars => (Undisturbed => PlayInv)'
  <2> SUFFICES ASSUME Undisturbed => PlayInv, [AudioNext]_playerVars, Undisturbed'
               PROVE  PlayInv'
    OBVIOUS
  <2>1. Undisturbed
    BY SceneLasts DEF Undisturbed
  <2> QED
    BY <2>1, PlayNext
<1> QED
  BY <1>1, <1>2, PTL DEF AudioSpec

\* Once everything is handled, the player is of the track that is shown and is
\* paused when the store says so, through devices that come and go while a track
\* is loaded, switched or reloaded, and through disliked tracks that are skipped, unless
\* one of them has ended the queue (audio.ts, engine.rs, device.rs).
THEOREM PlayerAsShown == AudioSpec => []PlaysAsShown
<1>1. (Undisturbed => PlayInv) => PlaysAsShown
  <2> SUFFICES ASSUME PlayInv, Undisturbed, Calm
               PROVE  /\ Loaded /\ ~Drained /\ ("dislike" \in audioScene => ui.cur # NoTrack) =>
                           player.track = shown.track /\ player.paused = ~shown.playing
                      /\ ui.has => Loaded
    BY DEF PlaysAsShown
  <2>1. ~Loading /\ PlayShape
    BY DEF Calm, Loading, Active, PlayInv
  <2>2. ASSUME Loaded, ~Drained, "dislike" \in audioScene => ui.cur # NoTrack
        PROVE  player.track = shown.track /\ player.paused = ~shown.playing
    BY <2>1, <2>2, HeardIsLoaded DEF Drained, PlayInv, TracksAgree, PausedAsShown
  <2>3. ASSUME ui.has PROVE Loaded
    BY <2>1, <2>3, HeardIsLoaded DEF PlayInv, TracksAgree, Heard
  <2> QED
    BY <2>2, <2>3
<1> QED
  BY <1>1, PlayerInductive, PTL

\* The position that is told (source_pos) is the position that is played, through
\* changes of speed, seeks, loops and reloads, for tracks of any length.
THEOREM PositionExact == AudioSpec => []PositionIsExact
<1>1. (Undisturbed => PlayInv) => PositionIsExact
  <2> SUFFICES ASSUME PlayInv, Loaded, ~Committing PROVE SourcePos = player.src
    BY DEF PositionIsExact
  <2> QED
    BY HeardIsLoaded, ToldAsPlayed DEF PlayInv
<1> QED
  BY <1>1, PlayerInductive, PTL

----------------------------------------------------------------------------
(* The cache of a track: the shapes                                         *)

ReqState ==
  [pc : Places, kind : Kinds \cup {"none"}, of : Requests \cup {Nobody},
   woken : BOOLEAN, path : Dirs \cup {"none"}]

\* A request's kind goes with its place, and one that waits has a winner.
Placed ==
  {q \in ReqState :
     /\ q.pc # "idle" => q.kind \in Kinds
     /\ q.pc = "handed" => q.kind = "play"
     /\ q.pc \in {"export", "coding", "poll"} => q.kind = "export"
     /\ q.pc \in {"look", "task"} => q.kind = "like"
     /\ q.pc \in {"join", "check", "doze", "asleep", "answer"} => q.of \in Requests}

CoderState ==
  [pc : {"none", "queued", "rendering", "probing", "end"}, by : Requests \cup {Nobody},
   liked : BOOLEAN, expected : Lengths \cup {"none"}, len : Lengths \cup {"no"}]

CacheShape == CacheTypeOK /\ req \in [Requests -> Placed]

LEMMA ShapeFacts ==
  ASSUME CacheShape
  PROVE  /\ disk \in [Dirs -> Files] /\ req \in [Requests -> Placed]
         /\ req \in [Requests -> ReqState]
         /\ slot \in [Requests -> {"none", "ok", "err"}]
         /\ coder \in CoderState
         /\ timers \in [1 .. MaxTimers -> (SUBSET Requests) \cup {NoTimer}]
         /\ Path \in Dirs \cup {"none"} /\ CleanPath \in Clean \cup {"none"}
         /\ Current("incoming") \in Dirs
BY DEF CacheShape, CacheTypeOK, ReqState, CoderState, Path, CleanPath, Current, Dirs, Clean

LEMMA Resting ==
  /\ Idle \in Placed /\ Idle.pc = "idle" /\ Idle.kind = "none"
  /\ Idle.path = "none" /\ Idle.of = Nobody
BY DEF Idle, Placed, ReqState, Places, Kinds

\* What a request has found: a file, or what the slot of its winner promises.
Found(d) ==
  /\ UNCHANGED <<disk, timers, slot, coder>>
  /\ \/ d = Path /\ d # "none"
     \/ d = Current("incoming") /\ \E w \in Requests : slot[w] = "ok"

\* What may become of request p.
Turn(p, q) ==
  /\ q.kind \in {req[p].kind, "none"} \cup scene
  /\ q.kind = "like" => req[p].kind = "like" \/ ~Running
  /\ q.pc = "handed" => Found(q.path)
  /\ q.path # "none" => q.path = req[p].path \/ q.pc = "handed" \/ Land(p)
  /\ q.pc \in {"enter", "download"} => req[p].pc \in {"enter", "download"} \/ Path' = "none"
  /\ q.pc = "stamp" => Land(p)

Turns(p) == \E q \in Placed : req' = [req EXCEPT ![p] = q] /\ Turn(p, q)

\* A step to another place, with nothing found on the way.
LEMMA GotoTurns ==
  ASSUME CacheShape, NEW p \in Requests, NEW place \in Places, Goto(p, place),
         req[p].pc # "idle",
         place \notin {"idle", "look", "enter", "stamp", "handed", "export"},
         place \in {"coding", "poll"} => req[p].pc = "export",
         place = "task" => req[p].pc = "look",
         place = "download" => req[p].pc = "enter",
         place \in {"join", "check", "doze", "asleep", "answer"} => req[p].of \in Requests
  PROVE  Turns(p)
<1> DEFINE q == [req[p] EXCEPT !.pc = place]
<1>1. req[p] \in ReqState /\ req[p] \in Placed
  BY ShapeFacts
<1>2. /\ q \in ReqState /\ q.pc = place /\ q.kind = req[p].kind /\ q.path = req[p].path
      /\ q.of = req[p].of
  BY <1>1 DEF ReqState
<1>3. req' = [req EXCEPT ![p] = q]
  BY DEF Goto
<1> HIDE DEF q
<1>4. q \in Placed
  BY <1>1, <1>2 DEF Placed
<1>5. Turn(p, q)
  BY <1>2 DEF Turn
<1> QED
  BY <1>3, <1>4, <1>5 DEF Turns

LEMMA FailTurns ==
  ASSUME CacheShape, NEW p \in Requests, Fail(p) \/ req' = [req EXCEPT ![p] = Idle]
  PROVE  Turns(p)
<1>1. req' = [req EXCEPT ![p] = Idle]
  BY DEF Fail
<1>2. Turn(p, Idle)
  BY Resting DEF Turn
<1> QED
  BY <1>1, <1>2, Resting DEF Turns

LEMMA ReplyTurns ==
  ASSUME CacheShape, NEW p \in Requests, NEW kind \in Kinds, NEW d \in Dirs, Reply(p, kind, d),
         kind \in {req[p].kind} \cup scene, kind = "play" => Found(d)
  PROVE  Turns(p)
<1>1. CASE kind = "play"
  <2> DEFINE q == [Idle EXCEPT !.pc = "handed", !.kind = kind, !.path = d]
  <2>1. req' = [req EXCEPT ![p] = q]
    BY <1>1 DEF Reply
  <2>2. q \in Placed /\ q.pc = "handed" /\ q.kind = "play" /\ q.path = d
    BY <1>1 DEF Idle, Placed, ReqState, Places, Kinds
  <2> HIDE DEF q
  <2>3. Turn(p, q)
    BY <1>1, <2>2 DEF Turn
  <2> QED
    BY <2>1, <2>2, <2>3 DEF Turns
<1>2. CASE kind = "export"
  <2> DEFINE q == [Idle EXCEPT !.pc = "export", !.kind = kind]
  <2>1. req' = [req EXCEPT ![p] = q]
    BY <1>2 DEF Reply
  <2>2. q \in Placed /\ q.pc = "export" /\ q.kind = "export" /\ q.path = "none"
    BY <1>2 DEF Idle, Placed, ReqState, Places, Kinds
  <2> HIDE DEF q
  <2>3. Turn(p, q)
    BY <1>2, <2>2 DEF Turn
  <2> QED
    BY <2>1, <2>2, <2>3 DEF Turns
<1>3. CASE kind = "like"
  <2>1. req' = [req EXCEPT ![p] = Idle]
    BY <1>3 DEF Reply
  <2> QED
    BY <2>1, FailTurns
<1> QED
  BY <1>1, <1>2, <1>3 DEF Kinds

LEMMA LookupTurns ==
  ASSUME CacheShape, NEW p \in Requests, NEW kind \in Kinds, Lookup(p, kind),
         kind \in {req[p].kind} \cup scene, kind = "like" => req[p].kind = "like",
         UNCHANGED <<timers, slot, coder>>
  PROVE  Turns(p)
<1>1. CASE Path # "none" /\ ~CutOff(Path)
  <2>1. Path \in Dirs /\ Found(Path) /\ Reply(p, kind, Path)
    BY <1>1, ShapeFacts DEF Lookup, Found
  <2> QED
    BY <2>1, ReplyTurns
<1>2. CASE ~(Path # "none" /\ ~CutOff(Path))
  <2> DEFINE q == [Idle EXCEPT !.pc = "enter", !.kind = kind]
  <2>1. /\ req' = [req EXCEPT ![p] = q]
        /\ disk' = IF Path = "none" THEN disk ELSE [d \in Dirs |-> Gone]
    BY <1>2 DEF Lookup
  <2>2. q \in Placed /\ q.pc = "enter" /\ q.kind = kind /\ q.path = "none"
    BY DEF Idle, Placed, ReqState, Places, Kinds
  <2> HIDE DEF q
  <2>3. Path' = "none"
    BY <2>1 DEF Path, CleanPath, Valid, Gone, Bare, File, Dirs, Clean
  <2>4. Turn(p, q)
    BY <2>2, <2>3 DEF Turn
  <2> QED
    BY <2>1, <2>2, <2>4 DEF Turns
<1> QED
  BY <1>1, <1>2

LEMMA RequestTurns ==
  ASSUME CacheShape, NEW p \in Requests, Goes(p) \/ PlayerReads(p) \/ Ask(p) \/ StartLikes(p)
  PROVE  Turns(p) \/ Notify(p)
<1>1. req[p] \in Placed /\ req \in [Requests -> Placed]
  BY ShapeFacts
<1> USE DEF Placed
<1>2. CASE Ask(p) \/ StartLikes(p)
  <2>1. CASE Ask(p)
    <3>1. PICK kind \in scene \cap {"play", "export"} : Lookup(p, kind)
      BY <2>1 DEF Ask
    <3> QED
      BY <2>1, <3>1, LookupTurns DEF Ask, Kinds
  <2>2. CASE StartLikes(p)
    <3> DEFINE q == [Idle EXCEPT !.pc = "look", !.kind = "like"]
    <3>1. req' = [req EXCEPT ![p] = q] /\ "like" \in scene /\ ~Running
      BY <2>2 DEF StartLikes
    <3>2. q \in Placed /\ q.pc = "look" /\ q.kind = "like" /\ q.path = "none"
      BY DEF Idle, Placed, ReqState, Places, Kinds
    <3> HIDE DEF q
    <3>3. Turn(p, q)
      BY <3>1, <3>2 DEF Turn
    <3> QED
      BY <3>1, <3>2, <3>3 DEF Turns
  <2> QED
    BY <1>2, <2>1, <2>2
<1>3. CASE PlayerReads(p) \/ ExportCopies(p) \/ PollEnds(p) \/ LikesCancelled(p)
  BY <1>3, FailTurns DEF PlayerReads, ExportCopies, PollEnds, LikesCancelled
<1>4. CASE Win(p) \/ Register(p) \/ Check(p) \/ Sleep(p) \/ Wake(p)
  BY <1>1, <1>4, GotoTurns DEF Win, Register, Check, Sleep, Wake, Places
<1>5. CASE DownloadFails(p) \/ Stamp(p) \/ StoreResult(p)
  BY <1>1, <1>5, GotoTurns DEF DownloadFails, Stamp, StoreResult, Places
<1>6. CASE Join(p)
  <2> DEFINE q == [req[p] EXCEPT !.pc = "join", !.of = winner]
  <2>1. req' = [req EXCEPT ![p] = q] /\ winner \in Requests /\ req[p].pc = "enter"
    BY <1>6 DEF Join, CacheShape, CacheTypeOK
  <2>2. /\ q \in Placed /\ q.pc = "join" /\ q.kind = req[p].kind /\ q.path = req[p].path
    BY <1>1, <2>1 DEF ReqState, Places
  <2> HIDE DEF q
  <2>3. Turn(p, q)
    BY <2>2 DEF Turn
  <2> QED
    BY <2>1, <2>2, <2>3 DEF Turns
<1>7. CASE Answer(p)
  <2>1. req[p].of \in Requests /\ req[p].kind \in Kinds
    BY <1>1, <1>7 DEF Answer
  <2>2. CASE slot[req[p].of] = "ok"
    <3>1. Found(Current("incoming"))
      BY <1>7, <2>1, <2>2 DEF Answer, Found
    <3> QED
      BY <1>7, <2>1, <2>2, <3>1, ReplyTurns, ShapeFacts DEF Answer
  <2>3. CASE slot[req[p].of] # "ok"
    BY <1>7, <2>3, FailTurns DEF Answer
  <2> QED
    BY <2>2, <2>3
<1>8. CASE Leave(p)
  <2>1. req[p].kind \in Kinds
    BY <1>1, <1>8 DEF Leave
  <2>2. CASE slot[p] = "ok"
    <3>1. Found(Current("incoming"))
      BY <1>8, <2>2 DEF Leave, Found
    <3> QED
      BY <1>8, <2>1, <2>2, <3>1, ReplyTurns, ShapeFacts DEF Leave
  <2>3. CASE slot[p] # "ok"
    BY <1>8, <2>3, FailTurns DEF Leave
  <2> QED
    BY <2>2, <2>3
<1>9. CASE Land(p)
  <2> DEFINE q == [req[p] EXCEPT !.pc = "stamp", !.path = "incoming"]
  <2>1. req' = [req EXCEPT ![p] = q] /\ req[p].pc = "download"
    BY <1>9 DEF Land
  <2>2. /\ q \in Placed /\ q.pc = "stamp" /\ q.kind = req[p].kind
    BY <1>1, <2>1 DEF ReqState, Places, Dirs
  <2> HIDE DEF q
  <2>3. Turn(p, q)
    BY <1>9, <2>2 DEF Turn
  <2> QED
    BY <2>1, <2>2, <2>3 DEF Turns
<1>10. CASE ExportCodes(p)
  BY <1>1, <1>10, GotoTurns DEF ExportCodes, Places
<1>11. CASE LikeLooks(p)
  <2>1. req[p].kind = "like" /\ req[p].pc = "look"
    BY <1>1, <1>11 DEF LikeLooks
  <2>2. CASE CleanPath # "none"
    <3>1. CleanPath \in Dirs
      BY <2>2, ShapeFacts DEF Dirs
    <3> QED
      BY <1>11, <2>1, <2>2, <3>1, ReplyTurns DEF LikeLooks, Kinds
  <2>3. CASE CleanPath = "none"
    BY <1>1, <1>11, <2>1, <2>3, GotoTurns DEF LikeLooks, Places
  <2> QED
    BY <2>2, <2>3
<1>12. CASE LikeAsks(p)
  <2>1. req[p].kind = "like"
    BY <1>1, <1>12 DEF LikeAsks
  <2> QED
    BY <1>12, <2>1, LookupTurns DEF LikeAsks, Kinds
<1> QED
  BY <1>2, <1>3, <1>4, <1>5, <1>6, <1>7, <1>8, <1>9, <1>10, <1>11, <1>12
     DEF Goes, Waits, Downloads, Exports, Likes

LEMMA FilesTyped ==
  /\ Gone \in Files /\ Gone.len = "no"
  /\ \A len \in Lengths \cup {"no"} : Bare(len) \in Files /\ Bare(len).len = len /\ ~Bare(len).liked
                                    /\ Bare(len).probed = "none"
  /\ \A len \in Lengths \cup {"no"}, liked \in BOOLEAN, e, pr \in Lengths \cup {"none"} :
       File(len, liked, e, pr) \in Files
  /\ \A f \in Files, liked \in BOOLEAN :
       /\ Stamped(f, liked) \in Files /\ Stamped(f, liked).len = f.len
       /\ Stamped(f, liked).liked = liked /\ Stamped(f, liked).probed = f.probed
BY DEF Gone, Bare, File, Files, Stamped, Lengths

LEMMA TimersTyped ==
  ASSUME CacheShape, NEW p \in Requests, Past(p)
  PROVE  /\ timers' \in [1 .. MaxTimers -> (SUBSET Requests) \cup {NoTimer}]
         /\ \A i \in 1 .. MaxTimers : timers'[i] = timers[i] \ {p}
<1>1. timers \in [1 .. MaxTimers -> (SUBSET Requests) \cup {NoTimer}] /\ NoTimer \ {p} = NoTimer
  BY ShapeFacts, NobodyAssumption DEF NoTimer
<1> QED
  BY <1>1 DEF Past

LEMMA ScheduleTyped ==
  ASSUME CacheShape, Schedule
  PROVE  /\ timers' \in [1 .. MaxTimers -> (SUBSET Requests) \cup {NoTimer}]
         /\ \A i \in 1 .. MaxTimers : timers'[i] \in {timers[i], Expecting}
<1>1. /\ timers \in [1 .. MaxTimers -> (SUBSET Requests) \cup {NoTimer}]
      /\ Expecting \in SUBSET Requests
  BY ShapeFacts DEF Expecting
<1>2. timers' = [timers EXCEPT ![FreeTimer] = Expecting]
  BY DEF Schedule
<1> QED
  BY <1>1, <1>2

\* The shapes of all but the requests.
RestTyped ==
  /\ disk' \in [Dirs -> Files]
  /\ winner' \in Requests \cup {Nobody}
  /\ slot' \in [Requests -> {"none", "ok", "err"}]
  /\ coder' \in CoderState
  /\ timers' \in [1 .. MaxTimers -> (SUBSET Requests) \cup {NoTimer}]
  /\ cuts' \in 0 .. MaxCuts
  /\ ffmpeg' \in {"preparing", "found", "ready", "unavailable"}
  /\ cancel' \in BOOLEAN
  /\ restarts' \in 0 .. MaxRestarts /\ scene' = scene

LEMMA RequestTyped ==
  ASSUME CacheShape, NEW p \in Requests, Goes(p) \/ PlayerReads(p) \/ Ask(p) \/ StartLikes(p)
  PROVE  RestTyped
<1>1. /\ disk \in [Dirs -> Files] /\ winner \in Requests \cup {Nobody}
      /\ slot \in [Requests -> {"none", "ok", "err"}] /\ coder \in CoderState
      /\ timers \in [1 .. MaxTimers -> (SUBSET Requests) \cup {NoTimer}]
      /\ cuts \in 0 .. MaxCuts /\ ffmpeg \in {"preparing", "found", "ready", "unavailable"}
      /\ cancel \in BOOLEAN /\ restarts \in 0 .. MaxRestarts
  BY ShapeFacts DEF CacheShape, CacheTypeOK
<1>2. \A by \in Requests \cup {Nobody} : Queued(by) \in CoderState
  BY DEF Queued, NoCoder, CoderState, Lengths
<1>3. ASSUME NEW kind, NEW d, Reply(p, kind, d) PROVE cancel' \in BOOLEAN
  BY <1>3 DEF Reply
<1>4. ASSUME Fail(p) PROVE cancel' \in BOOLEAN
  BY <1>4 DEF Fail
<1>5. ASSUME NEW kind, Lookup(p, kind) PROVE disk' \in [Dirs -> Files] /\ cancel' \in BOOLEAN
  BY <1>1, <1>3, <1>5, FilesTyped DEF Lookup
<1> USE DEF RestTyped
<1>6. CASE Ask(p) \/ LikeAsks(p)
  BY <1>1, <1>5, <1>6 DEF Ask, LikeAsks
<1>7. CASE \/ Register(p) \/ Check(p) \/ Sleep(p) \/ Wake(p) \/ DownloadFails(p) \/ Notify(p)
           \/ ExportCopies(p) \/ PollEnds(p)
  BY <1>1, <1>7 DEF Register, Check, Sleep, Wake, DownloadFails, Notify, ExportCopies, PollEnds
<1>8. CASE Win(p) \/ Join(p) \/ PlayerReads(p)
  BY <1>1, <1>8, TimersTyped DEF Win, Join, PlayerReads
<1>9. CASE Answer(p) \/ Leave(p) \/ LikesCancelled(p)
  BY <1>1, <1>3, <1>4, <1>9 DEF Answer, Leave, LikesCancelled
<1>10. CASE StartLikes(p)
  BY <1>1, <1>10 DEF StartLikes
<1>11. CASE Land(p)
  BY <1>1, <1>11, FilesTyped DEF Land, Lengths, Dirs
<1>12. CASE Stamp(p)
  <2>1. (req[p].kind = "like") \in BOOLEAN
    OBVIOUS
  <2>2. PICK liked \in BOOLEAN :
          disk' = IF Valid("incoming")
                  THEN [disk EXCEPT !["incoming"] = Stamped(disk["incoming"], liked)] ELSE disk
    BY <1>12, <2>1 DEF Stamp
  <2>3. disk["incoming"] \in Files
    BY <1>1 DEF Dirs
  <2>4. Stamped(disk["incoming"], liked) \in Files
    BY <2>3, FilesTyped
  <2>5. disk' \in [Dirs -> Files]
    BY <1>1, <2>2, <2>4 DEF Dirs
  <2>6. coder' \in CoderState
    BY <1>1, <1>2, <1>12 DEF Stamp, Spawned
  <2> QED
    BY <1>1, <1>12, <2>5, <2>6 DEF Stamp
<1>13. CASE StoreResult(p)
  BY <1>1, <1>13 DEF StoreResult
<1>14. CASE ExportCodes(p)
  BY <1>1, <1>2, <1>14 DEF ExportCodes, Coding
<1>15. CASE LikeLooks(p)
  <2>1. Promoted \in [Dirs -> Files]
    BY <1>1, FilesTyped DEF Promoted, Dirs, Clean
  <2> QED
    BY <1>1, <1>3, <1>15, <2>1 DEF LikeLooks
<1> QED
  BY <1>6, <1>7, <1>8, <1>9, <1>10, <1>11, <1>12, <1>13, <1>14, <1>15
     DEF Goes, Waits, Downloads, Exports, Likes

LEMMA OpenedTyped ==
  ASSUME coder \in CoderState, disk["incoming"] \in Files
  PROVE  /\ Opened \in CoderState /\ Opened.pc = "rendering"
         /\ Opened.len = disk["incoming"].len /\ Opened.liked = disk["incoming"].liked
<1>1. PICK liked \in BOOLEAN : disk["incoming"].liked = liked
  BY DEF Files
<1>2. /\ disk["incoming"].expected \in Lengths \cup {"none"}
      /\ disk["incoming"].len \in Lengths \cup {"no"}
  BY DEF Files
<1>3. Opened = [coder EXCEPT !.pc = "rendering", !.liked = liked,
                             !.expected = disk["incoming"].expected, !.len = disk["incoming"].len]
  BY <1>1 DEF Opened
<1> QED
  BY <1>1, <1>2, <1>3 DEF CoderState

LEMMA OthersTyped ==
  ASSUME CacheShape,
         \/ Transcode \/ \E i \in 1 .. MaxTimers : TimerFires(i)
         \/ CancelLikes \/ RemoveCached \/ ClearLiked \/ ClearCache \/ EnforceLimit
         \/ FfmpegProbed \/ Recover \/ Restart
  PROVE  RestTyped /\ req' \in [Requests -> Placed]
<1>1. /\ disk \in [Dirs -> Files] /\ winner \in Requests \cup {Nobody}
      /\ slot \in [Requests -> {"none", "ok", "err"}] /\ coder \in CoderState
      /\ timers \in [1 .. MaxTimers -> (SUBSET Requests) \cup {NoTimer}]
      /\ cuts \in 0 .. MaxCuts /\ ffmpeg \in {"preparing", "found", "ready", "unavailable"}
      /\ cancel \in BOOLEAN /\ restarts \in 0 .. MaxRestarts
      /\ req \in [Requests -> Placed]
  BY ShapeFacts DEF CacheShape, CacheTypeOK
<1>2. /\ disk["incoming"] \in Files /\ "incoming" \in Dirs
      /\ Dest \in Dirs /\ disk[Dest] \in Files
  BY <1>1 DEF Dirs, Clean, Dest
<1>3. /\ Ended \in CoderState /\ NoCoder \in CoderState
      /\ [coder EXCEPT !.pc = "probing"] \in CoderState
      /\ Queued(Nobody) \in CoderState /\ Opened \in CoderState
  <2>1. NoCoder \in CoderState /\ Queued(Nobody) \in CoderState
    BY DEF NoCoder, Queued, CoderState, Lengths
  <2>2. Ended \in CoderState /\ [coder EXCEPT !.pc = "probing"] \in CoderState
    BY <1>1 DEF Ended, CoderState
  <2>3. Opened \in CoderState
    BY <1>1, <1>2, OpenedTyped
  <2> QED
    BY <2>1, <2>2, <2>3
<1> USE DEF RestTyped
<1>4. CASE Open
  BY <1>1, <1>3, <1>4, ScheduleTyped DEF Open, AlreadyClean, Coding
<1>5. CASE RenderFails \/ CoderEnds
  BY <1>1, <1>3, <1>5, Resting DEF RenderFails, CoderEnds, Coding
<1>6. CASE Commit
  <2>1. Bare(coder.len) \in Files
    BY <1>1, FilesTyped DEF CoderState
  <2> QED
    BY <1>1, <1>2, <1>3, <1>6, <2>1 DEF Commit, Coding
<1>7. CASE Judge
  <2>1. PICK probed \in {"none", disk[Dest].len} \ {"no"} : Discard(probed) \/ Accept(probed)
    BY <1>7 DEF Judge
  <2>2. probed \in Lengths \cup {"none"}
    BY <1>2 DEF Files, Lengths
  <2>3. CASE Discard(probed)
    <3>1. cuts' \in 0 .. MaxCuts
      BY <1>1, <2>3, BoundsAssumption DEF Discard
    <3> QED
      BY <1>1, <1>2, <1>3, <1>7, <2>3, <3>1, FilesTyped DEF Judge, Discard, Coding
  <2>4. CASE Accept(probed)
    <3> DEFINE expected == IF TooShort(probed) THEN probed ELSE coder.expected
    <3>3. expected \in Lengths \cup {"none"} /\ disk[Dest].len \in Lengths \cup {"no"}
      BY <1>1, <1>2, <2>2 DEF CoderState, Files
    <3>4. disk' = IF Valid(Dest)
                  THEN [disk EXCEPT ![Dest] = File(disk[Dest].len, coder.liked, expected, probed)]
                  ELSE disk
      BY <2>4 DEF Accept
    <3> HIDE DEF expected
    <3>5. PICK liked \in BOOLEAN : coder.liked = liked
      BY <1>1 DEF CoderState
    <3>1. File(disk[Dest].len, coder.liked, expected, probed) \in Files
      BY <2>2, <3>3, <3>5, FilesTyped
    <3>2. disk' \in [Dirs -> Files] /\ cuts' \in 0 .. MaxCuts
      BY <1>1, <1>2, <2>4, <3>1, <3>4, BoundsAssumption DEF Accept
    <3> QED
      BY <1>1, <1>3, <1>7, <2>4, <3>2, ScheduleTyped DEF Judge, Accept, Coding
  <2> QED
    BY <2>1, <2>3, <2>4
<1>8. ASSUME NEW i \in 1 .. MaxTimers, TimerFires(i)
      PROVE  RestTyped /\ req' \in [Requests -> Placed]
  <2>1. timers' \in [1 .. MaxTimers -> (SUBSET Requests) \cup {NoTimer}]
    BY <1>1, <1>8 DEF TimerFires
  <2>2. disk' \in [Dirs -> Files]
    BY <1>1, <1>2, <1>8, FilesTyped DEF TimerFires
  <2> QED
    BY <1>1, <1>8, <2>1, <2>2 DEF TimerFires
<1>9. ASSUME NEW dirs, Delete(dirs) PROVE RestTyped /\ req' \in [Requests -> Placed]
  BY <1>1, <1>9, FilesTyped DEF Delete
<1>10. CASE CancelLikes \/ FfmpegProbed \/ Recover
  BY <1>1, <1>3, <1>10 DEF CancelLikes, FfmpegProbed, Recover, Spawned
<1>11. CASE Restart
  <2>1. timers' \in [1 .. MaxTimers -> (SUBSET Requests) \cup {NoTimer}]
    BY <1>1, <1>11 DEF Restart
  <2>2. restarts' \in 0 .. MaxRestarts /\ cuts' \in 0 .. MaxCuts
    BY <1>1, <1>11, BoundsAssumption DEF Restart
  <2>3. slot' \in [Requests -> {"none", "ok", "err"}] /\ req' \in [Requests -> Placed]
    BY <1>11, Resting DEF Restart
  <2> QED
    BY <1>1, <1>3, <1>11, <2>1, <2>2, <2>3 DEF Restart
<1> QED
  BY <1>4, <1>5, <1>6, <1>7, <1>8, <1>9, <1>10, <1>11
     DEF Transcode, RemoveCached, ClearLiked, ClearCache, EnforceLimit

LEMMA NotifyTurns ==
  ASSUME CacheShape, NEW p \in Requests, Notify(p)
  PROVE  /\ req' \in [Requests -> Placed]
         /\ \A q \in Requests : /\ req'[q].kind = req[q].kind /\ req'[q].path = req[q].path
                               /\ req'[q].pc \in {req[q].pc, "leave"}
<1>1. ASSUME NEW q \in Requests
      PROVE  /\ req'[q] \in Placed
             /\ req'[q].kind = req[q].kind /\ req'[q].path = req[q].path
             /\ req'[q].pc \in {req[q].pc, "leave"}
  <2>1. req[q] \in Placed /\ req[q] \in ReqState
    BY ShapeFacts
  <2>2. CASE q = p
    BY <2>1, <2>2 DEF Notify, Placed, ReqState, Places
  <2>3. CASE q # p
    <3>1. \A b \in BOOLEAN : [req[q] EXCEPT !.woken = b] \in Placed
      BY <2>1 DEF Placed, ReqState
    <3>2. (req[q].woken \/ (req[q].of = p /\ req[q].pc \in Listening)) \in BOOLEAN
      OBVIOUS
    <3>3. PICK b \in BOOLEAN : req'[q] = [req[q] EXCEPT !.woken = b]
      BY <2>3, <3>2 DEF Notify
    <3> QED
      BY <2>1, <3>1, <3>3 DEF ReqState
  <2> QED
    BY <2>2, <2>3
<1> QED
  BY <1>1 DEF Notify

LEMMA CacheShapeNext ==
  ASSUME CacheShape, [Next]_vars
  PROVE  CacheShape'
<1>1. ASSUME RestTyped, req' \in [Requests -> Placed] PROVE CacheShape'
  <2>1. req' \in [Requests -> ReqState]
    BY <1>1 DEF Placed
  <2> QED
    BY <1>1, <2>1 DEF RestTyped, CacheShape, CacheTypeOK, ReqState, CoderState
<1>2. CASE UNCHANGED vars
  BY <1>2 DEF vars, CacheShape, CacheTypeOK
<1>3. ASSUME NEW p \in Requests, Goes(p) \/ PlayerReads(p) \/ Ask(p) \/ StartLikes(p)
      PROVE  CacheShape'
  <2>1. req' \in [Requests -> Placed]
    BY <1>3, RequestTurns, NotifyTurns, ShapeFacts DEF Turns
  <2> QED
    BY <1>1, <1>3, <2>1, RequestTyped
<1> QED
  BY <1>1, <1>2, <1>3, OthersTyped DEF Next, Users

----------------------------------------------------------------------------
(* The cache of a track: what a scene without short downloads looks like    *)

\* No file is short, and no probe finds one so.
Genuine ==
  "short" \notin scene =>
    /\ \A d \in Dirs : disk[d].len \in {"full", "no"} /\ disk[d].probed \in {"none", "full"}
    /\ coder.len \in {"full", "no"}
    /\ coder.pc = "rendering" => coder.len = "full"

\* The steps that may touch the disk, when nothing is ever cut off.
LEMMA DiskSteps ==
  ASSUME CacheShape, Genuine, "short" \notin scene, [Next]_vars
  PROVE  \/ UNCHANGED disk
         \/ \E p \in Requests : Land(p) \/ Stamp(p) \/ LikeLooks(p)
         \/ Commit
         \/ Judge /\ \E probed \in {"none", disk[Dest].len} \ {"no"} : Accept(probed)
         \/ \E i \in 1 .. MaxTimers : TimerFires(i)
         \/ RemoveCached \/ ClearLiked \/ ClearCache \/ EnforceLimit
<1>1. \A d \in Dirs : ~CutOff(d)
  BY DEF Genuine, CutOff
<1>2. ASSUME NEW p \in Requests, NEW kind, Lookup(p, kind) PROVE UNCHANGED disk
  BY <1>1, <1>2, ShapeFacts DEF Lookup
<1>3. ASSUME NEW probed \in {"none", disk[Dest].len} \ {"no"} PROVE ~Discard(probed)
  <2>1. Dest \in Dirs
    BY DEF Dest, Dirs, Clean
  <2> QED
    BY <1>3, <2>1 DEF Genuine, Discard, TooShort
<1>4. CASE Transcode
  BY <1>3, <1>4 DEF Transcode, Open, RenderFails, Judge, CoderEnds
<1>5. ASSUME NEW p \in Requests, Goes(p) \/ PlayerReads(p) \/ Ask(p) \/ StartLikes(p)
      PROVE  UNCHANGED disk \/ Land(p) \/ Stamp(p) \/ LikeLooks(p)
  <2>1. CASE Ask(p) \/ LikeAsks(p)
    BY <1>2, <2>1 DEF Ask, LikeAsks
  <2>2. CASE Waits(p)
    BY <2>2 DEF Waits, Register, Check, Sleep, Wake, Answer
  <2>3. CASE Win(p) \/ Join(p) \/ PlayerReads(p) \/ StartLikes(p) \/ LikesCancelled(p)
    BY <2>3 DEF Win, Join, PlayerReads, StartLikes, LikesCancelled
  <2>4. CASE Downloads(p)
    BY <2>4 DEF Downloads, DownloadFails, StoreResult, Notify, Leave
  <2>5. CASE Exports(p)
    BY <2>5 DEF Exports, ExportCopies, ExportCodes, PollEnds
  <2> QED
    BY <1>5, <2>1, <2>2, <2>3, <2>4, <2>5 DEF Goes, Likes
<1> QED
  BY <1>4, <1>5
     DEF Next, Users, CancelLikes, FfmpegProbed, Recover, Restart, vars

\* The steps that may touch the transcode.
LEMMA CoderSteps ==
  ASSUME CacheShape, [Next]_vars
  PROVE  \/ UNCHANGED coder
         \/ \E p \in Requests : Stamp(p) \/ ExportCodes(p)
         \/ Transcode \/ Recover \/ Restart
<1>1. ASSUME NEW p \in Requests, Goes(p) \/ PlayerReads(p) \/ Ask(p) \/ StartLikes(p)
      PROVE  UNCHANGED coder \/ Stamp(p) \/ ExportCodes(p)
  <2>2. CASE Waits(p)
    BY <2>2 DEF Waits, Register, Check, Sleep, Wake, Answer
  <2>3. CASE Win(p) \/ Join(p) \/ PlayerReads(p) \/ Ask(p) \/ StartLikes(p)
    BY <2>3 DEF Win, Join, PlayerReads, Ask, StartLikes
  <2>4. CASE Downloads(p)
    BY <2>4 DEF Downloads, DownloadFails, Land, StoreResult, Notify, Leave
  <2>5. CASE Exports(p) \/ Likes(p)
    BY <2>5 DEF Exports, ExportCopies, PollEnds, Likes, LikesCancelled, LikeLooks, LikeAsks
  <2> QED
    BY <1>1, <2>2, <2>3, <2>4, <2>5 DEF Goes
<1> QED
  BY <1>1 DEF Next, Users, TimerFires, CancelLikes, RemoveCached, ClearLiked, ClearCache,
     EnforceLimit, Delete, FfmpegProbed, vars

LEMMA SceneStays ==
  ASSUME CacheShape, [Next]_vars
  PROVE  scene' = scene
<1>1. CASE UNCHANGED vars
  BY <1>1 DEF vars
<1>2. ASSUME NEW p \in Requests, Goes(p) \/ PlayerReads(p) \/ Ask(p) \/ StartLikes(p)
      PROVE  scene' = scene
  BY <1>2, RequestTyped DEF RestTyped
<1> QED
  BY <1>1, <1>2, OthersTyped DEF Next, Users, RestTyped

LEMMA StampKeeps ==
  ASSUME CacheShape, NEW p \in Requests, Stamp(p), NEW d \in Dirs
  PROVE  /\ disk'[d].len = disk[d].len /\ disk'[d].probed = disk[d].probed
         /\ d # "incoming" \/ ~Valid(d) => disk'[d] = disk[d]
         /\ Valid("incoming") => disk'["incoming"].liked = (req[p].kind = "like")
<1>1. disk \in [Dirs -> Files] /\ "incoming" \in Dirs /\ disk["incoming"] \in Files
  BY ShapeFacts DEF Dirs
<1>2. PICK liked \in BOOLEAN : liked = (req[p].kind = "like")
  OBVIOUS
<1>3. disk' = IF Valid("incoming")
              THEN [disk EXCEPT !["incoming"] = Stamped(disk["incoming"], liked)] ELSE disk
  BY <1>2 DEF Stamp
<1>4. Stamped(disk["incoming"], liked) \in Files /\ Stamped(disk["incoming"], liked).liked = liked
      /\ Stamped(disk["incoming"], liked).len = disk["incoming"].len
      /\ Stamped(disk["incoming"], liked).probed = disk["incoming"].probed
  BY <1>1, FilesTyped
<1> QED
  BY <1>1, <1>2, <1>3, <1>4

LEMMA DeletesOnly ==
  ASSUME CacheShape, RemoveCached \/ ClearLiked \/ ClearCache \/ EnforceLimit, NEW d \in Dirs
  PROVE  disk'[d] \in {disk[d], Gone}
BY DEF RemoveCached, ClearLiked, ClearCache, EnforceLimit, Delete

LEMMA GenuineNext ==
  ASSUME CacheShape, Genuine, [Next]_vars
  PROVE  Genuine'
<1> SUFFICES ASSUME "short" \notin scene'
             PROVE  /\ \A d \in Dirs : /\ disk'[d].len \in {"full", "no"}
                                       /\ disk'[d].probed \in {"none", "full"}
                    /\ coder'.len \in {"full", "no"}
                    /\ coder'.pc = "rendering" => coder'.len = "full"
  BY DEF Genuine
<1>1. scene' = scene /\ "short" \notin scene
  BY SceneStays
<1>2. /\ \A d \in Dirs : /\ disk[d].len \in {"full", "no"} /\ disk[d].probed \in {"none", "full"}
                         /\ disk[d] \in Files
      /\ coder.len \in {"full", "no"} /\ coder \in CoderState
      /\ coder.pc = "rendering" => coder.len = "full"
      /\ Dest \in Dirs /\ "incoming" \in Dirs /\ "audio" \in Dirs /\ disk \in [Dirs -> Files]
  BY <1>1, ShapeFacts DEF Genuine, Dest, Dirs, Clean
<1>3. ASSUME NEW d \in Dirs
      PROVE  disk'[d].len \in {"full", "no"} /\ disk'[d].probed \in {"none", "full"}
  <2>1. CASE UNCHANGED disk
    BY <1>2, <2>1
  <2>2. ASSUME NEW p \in Requests, Land(p)
        PROVE  disk'[d].len \in {"full", "no"} /\ disk'[d].probed \in {"none", "full"}
    <3>1. disk'[d] \in {disk[d], Bare("full")}
      BY <1>1, <1>2, <2>2 DEF Land
    <3> QED
      BY <1>2, <3>1, FilesTyped DEF Lengths
  <2>3. ASSUME NEW p \in Requests, Stamp(p)
        PROVE  disk'[d].len \in {"full", "no"} /\ disk'[d].probed \in {"none", "full"}
    <3>1. disk'[d].len = disk[d].len /\ disk'[d].probed = disk[d].probed
      BY <1>2, <2>3, StampKeeps
    <3> QED
      BY <1>2, <3>1
  <2>4. ASSUME NEW p \in Requests, LikeLooks(p)
        PROVE  disk'[d].len \in {"full", "no"} /\ disk'[d].probed \in {"none", "full"}
    <3>1. disk'[d] \in {disk[d], disk["audio"], Gone}
      BY <1>2, <2>4 DEF LikeLooks, Promoted
    <3> QED
      BY <1>2, <3>1 DEF Gone, Bare, File
  <2>5. CASE Commit
    <3>1. disk'[d] \in {disk[d], Bare(coder.len)}
      BY <1>2, <2>5 DEF Commit
    <3> QED
      BY <1>2, <3>1 DEF Bare, File
  <2>6. ASSUME NEW probed \in {"none", disk[Dest].len} \ {"no"}, Accept(probed)
        PROVE  disk'[d].len \in {"full", "no"} /\ disk'[d].probed \in {"none", "full"}
    <3>1. /\ disk'[d].len = disk[d].len
          /\ disk'[d].probed \in {disk[d].probed, probed}
      BY <1>2, <2>6 DEF Accept, File
    <3> QED
      BY <1>2, <2>6, <3>1
  <2>7. ASSUME NEW i \in 1 .. MaxTimers, TimerFires(i)
        PROVE  disk'[d].len \in {"full", "no"} /\ disk'[d].probed \in {"none", "full"}
    <3>1. disk'[d] \in {disk[d], Gone}
      BY <1>2, <2>7 DEF TimerFires
    <3> QED
      BY <1>2, <3>1 DEF Gone, Bare, File
  <2>8. CASE RemoveCached \/ ClearLiked \/ ClearCache \/ EnforceLimit
    <3>1. disk'[d] \in {disk[d], Gone}
      BY <2>8, DeletesOnly
    <3> QED
      BY <1>2, <3>1 DEF Gone, Bare, File
  <2> QED
    BY <1>1, DiskSteps, <2>1, <2>2, <2>3, <2>4, <2>5, <2>6, <2>7, <2>8
<1>4. /\ coder'.len \in {"full", "no"}
      /\ coder'.pc = "rendering" => coder'.len = "full"
  <2>1. CASE UNCHANGED coder
    BY <1>2, <2>1
  <2>2. \A by : Queued(by).pc = "queued" /\ Queued(by).len = "no" /\ NoCoder.pc = "none"
                /\ NoCoder.len = "no"
    BY DEF Queued, NoCoder
  <2>3. ASSUME NEW p \in Requests, Stamp(p) \/ ExportCodes(p)
        PROVE  /\ coder'.len \in {"full", "no"}
               /\ coder'.pc = "rendering" => coder'.len = "full"
    BY <1>2, <2>2, <2>3 DEF Stamp, ExportCodes, Spawned, Coding
  <2>4. CASE Recover \/ Restart
    BY <1>2, <2>2, <2>4 DEF Recover, Restart, Spawned
  <2>5. Ended.pc = "end" /\ Ended.len = coder.len
    BY <1>2 DEF Ended, CoderState
  <2>6. CASE Open
    BY <1>2, <2>5, <2>6, OpenedTyped DEF Open, AlreadyClean, Coding, Valid
  <2>7. CASE RenderFails \/ Judge \/ CoderEnds
    BY <1>2, <2>2, <2>5, <2>7 DEF RenderFails, Judge, CoderEnds, Coding
  <2>8. CASE Commit
    BY <1>2, <2>8 DEF Commit, Coding, CoderState
  <2> QED
    BY CoderSteps, <2>1, <2>3, <2>4, <2>6, <2>7, <2>8 DEF Transcode
<1> QED
  BY <1>3, <1>4


----------------------------------------------------------------------------
(* A path handed to the player                                              *)

\* What keeps a path handed to the player alive: a request that waits for one
\* will find a file, a removal is pending only beside a clean file, and it
\* waits for whoever was handed the raw one.
HandedKept ==
  scene \cap TakesAway = {} =>
    /\ \A p \in Requests : req[p].kind # "like"
    /\ coder.pc = "probing" => Valid(Dest)
    /\ \A p \in Requests : slot[p] = "ok" \/ req[p].path # "none" => Path # "none"
    /\ \A i \in 1 .. MaxTimers : timers[i] # NoTimer => CleanPath # "none"
    /\ \A p \in Requests : req[p].pc = "handed" => req[p].path \in Dirs /\ Valid(req[p].path)
    /\ \A p \in Requests : req[p].pc = "handed" /\ req[p].path = "incoming" =>
         \A i \in 1 .. MaxTimers : timers[i] = NoTimer \/ p \in timers[i]

HandedInv == CacheShape /\ Genuine /\ HandedKept

LEMMA TimerSteps ==
  ASSUME CacheShape, [Next]_vars
  PROVE  \/ UNCHANGED timers
         \/ \E p \in Requests : Win(p) \/ Join(p) \/ PlayerReads(p)
         \/ Open \/ Judge \/ (\E i \in 1 .. MaxTimers : TimerFires(i)) \/ Restart
<1>1. ASSUME NEW p \in Requests, Goes(p) \/ PlayerReads(p) \/ Ask(p) \/ StartLikes(p)
      PROVE  UNCHANGED timers \/ Win(p) \/ Join(p) \/ PlayerReads(p)
  <2>1. CASE Waits(p)
    BY <2>1 DEF Waits, Register, Check, Sleep, Wake, Answer
  <2>2. CASE Ask(p) \/ StartLikes(p)
    BY <2>2 DEF Ask, StartLikes
  <2>3. CASE Downloads(p)
    BY <2>3 DEF Downloads, DownloadFails, Land, Stamp, StoreResult, Notify, Leave
  <2>4. CASE Exports(p) \/ Likes(p)
    BY <2>4 DEF Exports, ExportCopies, ExportCodes, PollEnds, Likes, LikesCancelled, LikeLooks,
       LikeAsks
  <2> QED
    BY <1>1, <2>1, <2>2, <2>3, <2>4 DEF Goes
<1> QED
  BY <1>1 DEF Next, Users, Transcode, RenderFails, Commit, CoderEnds, CancelLikes, RemoveCached,
     ClearLiked, ClearCache, EnforceLimit, Delete, FfmpegProbed, Recover, vars

LEMMA SlotSteps ==
  ASSUME CacheShape, [Next]_vars
  PROVE  \/ UNCHANGED slot
         \/ \E p \in Requests : Win(p) \/ StoreResult(p)
         \/ Restart
<1>1. ASSUME NEW p \in Requests, Goes(p) \/ PlayerReads(p) \/ Ask(p) \/ StartLikes(p)
      PROVE  UNCHANGED slot \/ Win(p) \/ StoreResult(p)
  <2>1. CASE Waits(p)
    BY <2>1 DEF Waits, Register, Check, Sleep, Wake, Answer
  <2>2. CASE Ask(p) \/ StartLikes(p) \/ Join(p) \/ PlayerReads(p)
    BY <2>2 DEF Ask, StartLikes, Join, PlayerReads
  <2>3. CASE Downloads(p)
    BY <2>3 DEF Downloads, DownloadFails, Land, Stamp, Notify, Leave
  <2>4. CASE Exports(p) \/ Likes(p)
    BY <2>4 DEF Exports, ExportCopies, ExportCodes, PollEnds, Likes, LikesCancelled, LikeLooks,
       LikeAsks
  <2> QED
    BY <1>1, <2>1, <2>2, <2>3, <2>4 DEF Goes
<1> QED
  BY <1>1 DEF Next, Users, Transcode, Open, RenderFails, Commit, Judge, CoderEnds, TimerFires,
     CancelLikes, RemoveCached, ClearLiked, ClearCache, EnforceLimit, Delete, FfmpegProbed,
     Recover, vars

\* The steps of nobody's request leave each request alone or end it.
LEMMA OthersEnd ==
  ASSUME CacheShape,
         \/ Transcode \/ \E i \in 1 .. MaxTimers : TimerFires(i)
         \/ CancelLikes \/ RemoveCached \/ ClearLiked \/ ClearCache \/ EnforceLimit
         \/ FfmpegProbed \/ Recover \/ Restart,
         NEW p \in Requests
  PROVE  req'[p] \in {req[p], Idle}
<1>1. CASE Transcode
  BY <1>1 DEF Transcode, Open, RenderFails, Commit, Judge, CoderEnds
<1> QED
  BY <1>1 DEF TimerFires, CancelLikes, RemoveCached, ClearLiked, ClearCache, EnforceLimit, Delete,
     FfmpegProbed, Recover, Restart

\* What a step may do to one request: nothing, an end, a turn, or a waking call.
LEMMA Fates ==
  ASSUME CacheShape, [Next]_vars, NEW p \in Requests
  PROVE  \/ req'[p] \in {req[p], Idle}
         \/ /\ req'[p].kind = req[p].kind /\ req'[p].path = req[p].path
            /\ req'[p].pc \in {req[p].pc, "leave"}
         \/ req'[p] \in Placed /\ Turn(p, req'[p])
<1>1. CASE UNCHANGED vars
  BY <1>1 DEF vars
<1>2. ASSUME NEW q \in Requests, Goes(q) \/ PlayerReads(q) \/ Ask(q) \/ StartLikes(q)
      PROVE  \/ req'[p] \in {req[p], Idle}
             \/ /\ req'[p].kind = req[p].kind /\ req'[p].path = req[p].path
                /\ req'[p].pc \in {req[p].pc, "leave"}
             \/ req'[p] \in Placed /\ Turn(p, req'[p])
  <2>1. CASE Turns(q)
    <3>1. PICK r \in Placed : req' = [req EXCEPT ![q] = r] /\ Turn(q, r)
      BY <2>1 DEF Turns
    <3> QED
      BY <3>1, ShapeFacts
  <2>2. CASE Notify(q)
    BY <2>2, NotifyTurns
  <2> QED
    BY <1>2, <2>1, <2>2, RequestTurns
<1> QED
  BY <1>1, <1>2, OthersEnd DEF Next, Users

\* Clean files stay, and the raw one goes only when a removal is due to nobody.
LEMMA FilesStay ==
  ASSUME HandedInv, scene \cap TakesAway = {}, [Next]_vars
  PROVE  /\ \A d \in Clean : Valid(d) => Valid(d)'
         /\ Valid("incoming") => \/ Valid("incoming")'
                                 \/ CleanPath # "none" /\ \E i \in 1 .. MaxTimers : timers[i] = {}
<1>1. /\ CacheShape /\ Genuine /\ "short" \notin scene
      /\ \A p \in Requests : req[p].kind # "like"
  BY DEF HandedInv, HandedKept, TakesAway
<1>2. /\ disk \in [Dirs -> Files] /\ Dest \in Dirs /\ "incoming" \in Dirs /\ Clean \subseteq Dirs
      /\ "incoming" \notin Clean
  BY <1>1, ShapeFacts DEF Dest, Dirs, Clean
<1>3. CASE UNCHANGED disk
  BY <1>3 DEF Valid
<1>4. ASSUME NEW p \in Requests, Land(p)
      PROVE  \A d \in Dirs : Valid(d) => Valid(d)'
  BY <1>2, <1>4 DEF Land, Valid
<1>5. ASSUME NEW p \in Requests, Stamp(p)
      PROVE  \A d \in Dirs : Valid(d) => Valid(d)'
  BY <1>1, <1>5, StampKeeps DEF Valid
<1>6. ASSUME NEW p \in Requests, LikeLooks(p)
      PROVE  FALSE
  BY <1>1, <1>6, ShapeFacts DEF LikeLooks, Placed
<1>7. CASE Commit
  <2>1. coder.len # "no"
    BY <1>1, <1>7 DEF Commit, Genuine
  <2>2. \A d \in Dirs : Valid(d) => Valid(d)'
    BY <1>2, <1>7, <2>1 DEF Commit, Valid, Bare, File
  <2> QED
    BY <1>2, <2>2
<1>8. ASSUME NEW probed, Accept(probed)
      PROVE  \A d \in Dirs : Valid(d) => Valid(d)'
  BY <1>2, <1>8 DEF Accept, Valid, File
<1>9. ASSUME NEW i \in 1 .. MaxTimers, TimerFires(i)
      PROVE  /\ \A d \in Clean : Valid(d) => Valid(d)'
             /\ Valid("incoming") => Valid("incoming")' \/ (CleanPath # "none" /\ timers[i] = {})
  BY <1>2, <1>9 DEF TimerFires, RawGoes, Valid
<1>10. ~(RemoveCached \/ ClearLiked \/ ClearCache \/ EnforceLimit)
  BY DEF RemoveCached, ClearLiked, ClearCache, EnforceLimit, TakesAway
<1> QED
  BY <1>1, <1>2, <1>3, <1>4, <1>5, <1>6, <1>7, <1>8, <1>9, <1>10, DiskSteps

LEMMA PathsStay ==
  ASSUME HandedInv, scene \cap TakesAway = {}, [Next]_vars
  PROVE  /\ CleanPath # "none" => CleanPath' # "none"
         /\ Path # "none" => Path' # "none"
BY FilesStay DEF CleanPath, Path, Clean

\* A removal is scheduled beside a clean file, and waits for everybody it should.
LEMMA TimersMove ==
  ASSUME HandedInv, scene \cap TakesAway = {}, [Next]_vars, NEW i \in 1 .. MaxTimers
  PROVE  \/ timers'[i] \in {timers[i], NoTimer}
         \/ timers'[i] = Expecting /\ CleanPath' # "none" /\ req' = req
         \/ /\ timers[i] # NoTimer
            /\ \E p \in Requests : timers'[i] = timers[i] \ {p} /\ req'[p].pc # "handed"
<1>1. /\ CacheShape /\ timers \in [1 .. MaxTimers -> (SUBSET Requests) \cup {NoTimer}]
      /\ NoTimer = {Nobody} /\ Nobody \notin Requests /\ req \in [Requests -> Placed]
  BY ShapeFacts, NobodyAssumption DEF HandedInv, NoTimer
<1>2. CASE UNCHANGED timers
  BY <1>2
<1>3. ASSUME NEW p \in Requests, Win(p) \/ Join(p) \/ PlayerReads(p)
      PROVE  \/ timers'[i] = timers[i]
             \/ timers[i] # NoTimer /\ timers'[i] = timers[i] \ {p} /\ req'[p].pc # "handed"
  <2>1. timers'[i] = timers[i] \ {p}
    BY <1>1, <1>3, TimersTyped DEF Win, Join, PlayerReads
  <2>2. req'[p].pc # "handed"
    BY <1>1, <1>3, Resting DEF Win, Join, PlayerReads, Goto, Placed, ReqState
  <2> QED
    BY <1>1, <2>1, <2>2
<1>4. CASE Open
  <2>1. CASE AlreadyClean /\ Valid(Routed)
    <3>1. CleanPath # "none"
      BY <2>1 DEF Routed, CleanPath
    <3> QED
      BY <1>1, <1>4, <2>1, <3>1, PathsStay, ScheduleTyped DEF Open, AlreadyClean
  <2> QED
    BY <1>4, <2>1 DEF Open
<1>5. CASE Judge
  <2>1. PICK probed \in {"none", disk[Dest].len} \ {"no"} : Discard(probed) \/ Accept(probed)
    BY <1>5 DEF Judge
  <2>2. Dest \in Clean /\ Valid(Dest)
    BY <1>5 DEF Judge, HandedInv, HandedKept, Dest, Clean
  <2>3. CleanPath # "none"
    BY <2>2 DEF CleanPath, Clean
  <2>4. CleanPath' # "none"
    BY <2>3, PathsStay
  <2>5. CASE Discard(probed)
    BY <2>5 DEF Discard
  <2>6. CASE Accept(probed)
    BY <1>1, <1>5, <2>4, <2>6, ScheduleTyped DEF Accept, Judge
  <2> QED
    BY <2>1, <2>5, <2>6
<1>6. CASE (\E j \in 1 .. MaxTimers : TimerFires(j)) \/ Restart
  BY <1>1, <1>6 DEF TimerFires, Restart
<1> QED
  BY <1>1, <1>2, <1>3, <1>4, <1>5, <1>6, TimerSteps

\* A request that is handed a path is handed one that is there.
LEMMA RequestsMove ==
  ASSUME HandedInv, scene \cap TakesAway = {}, [Next]_vars, NEW p \in Requests
  PROVE  /\ req'[p].kind # "like"
         /\ req'[p].path # "none" => Path' # "none"
         /\ req'[p].pc = "handed" =>
              \/ req[p].pc = "handed" /\ req'[p].path = req[p].path
              \/ Path # "none" /\ req'[p].path = Path /\ UNCHANGED <<disk, timers>>
<1>1. /\ CacheShape /\ req[p].kind # "like" /\ "like" \notin scene
      /\ req[p].path # "none" => Path # "none"
      /\ \A w \in Requests : slot[w] = "ok" => Path # "none"
      /\ Path # "none" => Path' # "none"
  BY PathsStay DEF HandedInv, HandedKept, TakesAway
<1>2. CASE req'[p] \in {req[p], Idle}
  BY <1>1, <1>2, Resting
<1>3. CASE /\ req'[p].kind = req[p].kind /\ req'[p].path = req[p].path
           /\ req'[p].pc \in {req[p].pc, "leave"}
  BY <1>1, <1>3
<1>4. CASE req'[p] \in Placed /\ Turn(p, req'[p])
  <2>1. ASSUME req'[p].pc = "handed"
        PROVE  Path # "none" /\ req'[p].path = Path /\ UNCHANGED <<disk, timers>>
    BY <1>1, <1>4, <2>1 DEF Turn, Found, Current
  <2>2. ASSUME Land(p) PROVE Path' # "none"
    <3>1. disk \in [Dirs -> Files] /\ "incoming" \in Dirs
      BY <1>1, ShapeFacts DEF Dirs
    <3>2. Valid("incoming")'
      BY <2>2, <3>1 DEF Land, Valid, Bare, File
    <3> QED
      BY <3>2 DEF Path
  <2>3. req'[p].path # "none" => Path' # "none"
    BY <1>1, <1>4, <2>1, <2>2 DEF Turn
  <2>4. req'[p].kind # "like"
    BY <1>1, <1>4 DEF Turn
  <2> QED
    BY <2>1, <2>3, <2>4
<1> QED
  BY <1>1, <1>2, <1>3, <1>4, Fates

LEMMA SlotsMove ==
  ASSUME HandedInv, scene \cap TakesAway = {}, [Next]_vars, NEW p \in Requests, slot'[p] = "ok"
  PROVE  Path' # "none"
<1>1. /\ CacheShape /\ slot \in [Requests -> {"none", "ok", "err"}]
      /\ \A w \in Requests : slot[w] = "ok" \/ req[w].path # "none" => Path # "none"
      /\ Path # "none" => Path' # "none"
  BY PathsStay, ShapeFacts DEF HandedInv, HandedKept
<1>2. slot[p] = "ok" \/ req[p].path # "none"
  BY <1>1, SlotSteps DEF Win, StoreResult, Restart
<1> QED
  BY <1>1, <1>2

LEMMA ProbedStays ==
  ASSUME HandedInv, scene \cap TakesAway = {}, [Next]_vars, coder'.pc = "probing"
  PROVE  Valid(Dest)'
<1>1. /\ CacheShape /\ Genuine /\ "short" \notin scene /\ coder \in CoderState
      /\ disk \in [Dirs -> Files] /\ Clean \subseteq Dirs
  BY ShapeFacts DEF HandedInv, TakesAway, Dirs
<1>2. \A by : Queued(by).pc = "queued" /\ NoCoder.pc = "none"
  BY DEF Queued, NoCoder
<1>3. Ended.pc = "end" /\ Opened.pc = "rendering"
  BY <1>1, ShapeFacts, OpenedTyped DEF Ended, CoderState, Dirs
<1>4. CASE UNCHANGED coder
  <2>1. Dest' = Dest /\ Dest \in Clean /\ Valid(Dest)
    BY <1>4 DEF Dest, Clean, HandedInv, HandedKept
  <2> QED
    BY <2>1, FilesStay DEF Valid
<1>5. CASE Commit
  <2>1. coder'.liked = coder.liked /\ coder.len = "full" /\ Dest \in Dirs
    BY <1>1, <1>5 DEF Commit, Coding, CoderState, Genuine, Dest, Dirs, Clean
  <2> QED
    BY <1>1, <1>5, <2>1 DEF Commit, Dest, Valid, Bare, File
<1>6. ASSUME NEW p \in Requests, Stamp(p) \/ ExportCodes(p) PROVE UNCHANGED coder
  BY <1>2, <1>6 DEF Stamp, ExportCodes, Spawned, Coding
<1>7. CASE Recover \/ Restart
  BY <1>2, <1>4, <1>7 DEF Recover, Restart, Spawned
<1>8. ~(Open \/ RenderFails \/ Judge \/ CoderEnds)
  BY <1>2, <1>3 DEF Open, AlreadyClean, RenderFails, Judge, CoderEnds, Coding
<1> QED
  BY <1>1, <1>4, <1>5, <1>6, <1>7, <1>8, CoderSteps DEF Transcode

LEMMA HandedNext ==
  ASSUME HandedInv, [Next]_vars
  PROVE  HandedInv'
<1>1. CacheShape' /\ Genuine' /\ scene' = scene /\ CacheShape
  BY CacheShapeNext, GenuineNext, SceneStays DEF HandedInv
<1> SUFFICES ASSUME scene' \cap TakesAway = {}
             PROVE  HandedKept'
  BY <1>1 DEF HandedInv, HandedKept
<1>2. scene \cap TakesAway = {} /\ HandedKept /\ TakesAway' = TakesAway
  BY <1>1 DEF HandedInv, TakesAway
<1>3. (\A p \in Requests : req[p].kind # "like")'
  BY <1>2, RequestsMove
<1>4. (coder.pc = "probing" => Valid(Dest))'
  BY <1>2, ProbedStays
<1>5. (\A p \in Requests : slot[p] = "ok" \/ req[p].path # "none" => Path # "none")'
  BY <1>2, RequestsMove, SlotsMove
<1>6. (\A i \in 1 .. MaxTimers : timers[i] # NoTimer => CleanPath # "none")'
  <2> SUFFICES ASSUME NEW i \in 1 .. MaxTimers, timers'[i] # NoTimer
               PROVE  CleanPath' # "none"
    BY DEF NoTimer
  <2>1. timers[i] # NoTimer => CleanPath' # "none"
    BY <1>2, PathsStay DEF HandedKept
  <2> QED
    BY <1>2, <2>1, TimersMove
<1>7. (\A p \in Requests : req[p].pc = "handed" => req[p].path \in Dirs /\ Valid(req[p].path))'
  <2> SUFFICES ASSUME NEW p \in Requests, req'[p].pc = "handed"
               PROVE  req'[p].path \in Dirs /\ disk'[req'[p].path].len # "no"
    BY DEF Valid, Dirs, Clean
  <2>1. CASE req[p].pc = "handed" /\ req'[p].path = req[p].path
    <3>1. req[p].path \in Dirs /\ Valid(req[p].path)
      BY <1>2, <2>1 DEF HandedKept
    <3>2. CASE req[p].path \in Clean
      BY <1>2, <2>1, <3>1, <3>2, FilesStay DEF Valid
    <3>3. CASE req[p].path = "incoming"
      <4>1. \A i \in 1 .. MaxTimers : timers[i] # {}
        BY <1>2, <2>1, <3>3 DEF HandedKept, NoTimer
      <4> QED
        BY <1>2, <2>1, <3>1, <3>3, <4>1, FilesStay DEF Valid
    <3> QED
      BY <3>1, <3>2, <3>3 DEF Dirs
  <2>2. CASE Path # "none" /\ req'[p].path = Path /\ UNCHANGED <<disk, timers>>
    BY <1>1, <2>2, ShapeFacts DEF Path, CleanPath, Valid, Dirs
  <2> QED
    BY <1>2, <2>1, <2>2, RequestsMove
<1>8. (\A p \in Requests : req[p].pc = "handed" /\ req[p].path = "incoming" =>
         \A i \in 1 .. MaxTimers : timers[i] = NoTimer \/ p \in timers[i])'
  <2> SUFFICES ASSUME NEW p \in Requests, req'[p].pc = "handed", req'[p].path = "incoming",
                      NEW i \in 1 .. MaxTimers
               PROVE  timers'[i] = NoTimer \/ p \in timers'[i]
    BY DEF NoTimer
  <2>1. CASE req[p].pc = "handed" /\ req'[p].path = req[p].path
    <3>1. timers[i] = NoTimer \/ p \in timers[i]
      BY <1>2, <2>1 DEF HandedKept
    <3> QED
      BY <1>2, <2>1, <3>1, TimersMove DEF Expecting
  <2>2. CASE Path # "none" /\ req'[p].path = Path /\ UNCHANGED <<disk, timers>>
    <3>1. CleanPath = "none"
      BY <2>2 DEF Path, CleanPath
    <3> QED
      BY <1>2, <2>2, <3>1 DEF HandedKept
  <2> QED
    BY <1>2, <2>1, <2>2, RequestsMove
<1> QED
  BY <1>3, <1>4, <1>5, <1>6, <1>7, <1>8 DEF HandedKept


LEMMA HandedStart ==
  ASSUME Init
  PROVE  HandedInv
<1>1. CacheShape
  <2>1. /\ disk \in [Dirs -> Files] /\ coder \in CoderState
        /\ slot \in [Requests -> {"none", "ok", "err"}] /\ req \in [Requests -> Placed]
    BY FilesTyped, Resting DEF Init, NoCoder, CoderState, Lengths
  <2>2. timers \in [1 .. MaxTimers -> (SUBSET Requests) \cup {NoTimer}]
    BY DEF Init
  <2>3. cuts \in 0 .. MaxCuts /\ restarts \in 0 .. MaxRestarts
    BY BoundsAssumption DEF Init
  <2>4. req \in [Requests -> ReqState]
    BY <2>1 DEF Placed
  <2> QED
    BY <2>1, <2>2, <2>3, <2>4 DEF Init, CacheShape, CacheTypeOK, CoderState, ReqState
<1>2. Genuine
  BY DEF Init, Genuine, NoCoder, Gone, Bare, File
<1>3. HandedKept
  BY Resting DEF Init, HandedKept, NoCoder
<1> QED
  BY <1>1, <1>2, <1>3 DEF HandedInv

\* No step breaks the invariant, in whatever scene the track is.
THEOREM CacheInductive == Spec => []HandedInv
<1>1. HandedInv /\ [Next]_vars => HandedInv'
  BY HandedNext
<1> QED
  BY <1>1, HandedStart, PTL DEF Spec

\* The cache keeps its types.
THEOREM CacheTypeCorrect == Spec => []CacheTypeOK
<1>1. HandedInv => CacheTypeOK
  BY DEF HandedInv, CacheShape
<1> QED
  BY <1>1, CacheInductive, PTL

\* A path that was handed to a player is there until the player has opened
\* it, whatever transcodes, recoveries, restarts and removals run meanwhile.
THEOREM HandedPathsLive == Spec => []HandedPathLives
<1>1. HandedInv => HandedPathLives
  BY DEF HandedInv, HandedKept, HandedPathLives
<1> QED
  BY <1>1, CacheInductive, PTL

----------------------------------------------------------------------------
(* A raw file bound for liked_dir                                           *)

Liking == scene \subseteq {"like", "limit", "crash", "cancel"}

\* The transcode still needs the raw file.
Busy == coder.pc \in {"queued", "rendering", "probing"}

\* What keeps a raw file that is bound for liked_dir: the bulk run is the only
\* request, it downloads only what it has not found, a transcode keeps its raw
\* file, and it ends where that file is bound for.
BoundKept ==
  Liking =>
    /\ \A p \in Requests : req[p].kind \in {"none", "like"}
    /\ \A p, q \in Requests : req[p].kind = "like" /\ req[q].kind = "like" => p = q
    /\ \A p \in Requests : req[p].pc \in {"enter", "download"} => Path = "none"
    /\ \A p \in Requests :
         req[p].pc = "stamp" => CleanPath = "none" /\ Valid("incoming") /\ ~Busy
    /\ Busy => Valid("incoming")
    /\ coder.pc \in {"rendering", "probing"} /\ disk["incoming"].liked => coder.liked
    /\ Valid("incoming") /\ disk["incoming"].liked /\ Valid("audio") => Valid("liked")

BoundInv == CacheShape /\ Genuine /\ BoundKept

\* What a step may do to the files of a track nobody plays.
SameFiles ==
  /\ \A d \in Dirs : disk'[d].len = disk[d].len
  /\ disk'["incoming"].liked = disk["incoming"].liked

Lands(p) ==
  /\ Land(p) /\ Path = "none" /\ ~Busy
  /\ disk' = [disk EXCEPT !["incoming"] = Bare("full")]

Stamps(p) ==
  /\ Stamp(p) /\ CleanPath = "none" /\ Valid("incoming") /\ ~Busy
  /\ disk'["incoming"].liked /\ \A d \in Dirs : disk'[d].len = disk[d].len

Promotes ==
  /\ UNCHANGED coder /\ Valid("audio")
  /\ disk' = [disk EXCEPT !["liked"] = disk["audio"], !["audio"] = Gone]

Commits ==
  /\ Commit /\ disk' = [disk EXCEPT ![Dest] = Bare("full")]
  /\ disk["incoming"].liked => coder.liked

Removes ==
  /\ UNCHANGED coder
  /\ disk'["liked"] = disk["liked"] /\ \A d \in Dirs : disk'[d] \in {disk[d], Gone}
  /\ disk'["incoming"] # disk["incoming"] =>
       /\ coder = NoCoder
       /\ \/ CleanPath # "none"
          \/ ~disk["incoming"].liked /\ \A p \in Requests : req[p].pc # "stamp"

LEMMA LikeDisk ==
  ASSUME BoundInv, Liking, [Next]_vars
  PROVE  \/ SameFiles \/ Promotes \/ Commits \/ Removes
         \/ \E p \in Requests : Lands(p) \/ Stamps(p)
<1>1. /\ CacheShape /\ Genuine /\ BoundKept
      /\ "short" \notin scene /\ "remove" \notin scene /\ "clear" \notin scene
      /\ "early" \notin scene
      /\ disk \in [Dirs -> Files] /\ Dest \in Clean /\ Clean \subseteq Dirs
      /\ "incoming" \in Dirs /\ "liked" \in Dirs /\ "audio" \in Dirs
      /\ Clean = {"liked", "audio"} /\ req \in [Requests -> Placed] /\ coder \in CoderState
  BY ShapeFacts DEF BoundInv, Liking, Dest, Dirs, Clean
<1>2. CASE UNCHANGED disk
  BY <1>2 DEF SameFiles
<1>3. ASSUME NEW p \in Requests, Land(p) PROVE Lands(p)
  <2>1. Path = "none" /\ ~Valid("incoming") /\ ~Busy
    BY <1>1, <1>3 DEF BoundKept, Land, Path, Busy
  <2>2. disk' = [disk EXCEPT !["incoming"] = Bare("full")]
    BY <1>1, <1>3, <2>1 DEF Land
  <2> QED
    BY <1>3, <2>1, <2>2 DEF Lands
<1>4. ASSUME NEW p \in Requests, Stamp(p) PROVE Stamps(p)
  <2>1. req[p].pc = "stamp" /\ req[p].kind = "like"
    BY <1>1, <1>4 DEF Stamp, Placed, BoundKept, Kinds
  <2>2. CleanPath = "none" /\ Valid("incoming") /\ ~Busy
    BY <1>1, <2>1 DEF BoundKept
  <2>3. disk'["incoming"].liked
    BY <1>1, <1>4, <2>1, <2>2, StampKeeps
  <2> QED
    BY <1>1, <1>4, <2>2, <2>3, StampKeeps DEF Stamps
<1>5. ASSUME NEW p \in Requests, LikeLooks(p) PROVE Promotes \/ SameFiles
  BY <1>1, <1>5 DEF LikeLooks, Promoted, Promotes, SameFiles
<1>6. CASE Commit
  <2>1. coder.len = "full" /\ (disk["incoming"].liked => coder.liked)
    BY <1>1, <1>6 DEF Commit, Genuine, BoundKept
  <2> QED
    BY <1>6, <2>1 DEF Commit, Commits
<1>7. ASSUME NEW probed, Accept(probed) PROVE SameFiles
  <2>1. Dest # "incoming"
    BY <1>1
  <2> QED
    BY <1>1, <1>7, <2>1 DEF Accept, SameFiles, File
<1>8. ASSUME NEW i \in 1 .. MaxTimers, TimerFires(i) PROVE Removes
  BY <1>1, <1>8 DEF TimerFires, RawGoes, Removes
<1>9. CASE RemoveCached \/ ClearLiked \/ ClearCache \/ EnforceLimit
  <2>1. PICK dirs \in SUBSET Evictable : Delete(dirs)
    BY <1>1, <1>9 DEF RemoveCached, ClearLiked, ClearCache, EnforceLimit
  <2>2. "liked" \notin dirs
    BY <2>1 DEF Evictable
  <2>3. "incoming" \in dirs =>
          coder = NoCoder /\ ~disk["incoming"].liked /\ \A p \in Requests : req[p].pc # "stamp"
    BY <1>1, <2>1 DEF Evictable, Landed
  <2> QED
    BY <1>1, <2>1, <2>2, <2>3 DEF Delete, Removes
<1> QED
  BY <1>1, <1>2, <1>3, <1>4, <1>5, <1>6, <1>7, <1>8, <1>9, DiskSteps

\* What a step may do to the transcode of such a track.
LEMMA LikeCoder ==
  ASSUME BoundInv, Liking, [Next]_vars
  PROVE  \/ UNCHANGED coder
         \/ coder'.pc \in {"none", "end"}
         \/ coder'.pc = "queued" /\ \E p \in Requests : Stamp(p)
         \/ /\ coder'.pc = "queued" /\ UNCHANGED disk /\ Valid("incoming")
            /\ \A p \in Requests : req[p].pc # "stamp"
         \/ /\ coder'.pc = "rendering" /\ UNCHANGED disk /\ Valid("incoming")
            /\ Busy /\ coder'.liked = disk["incoming"].liked
         \/ Commit /\ coder'.liked = coder.liked
<1>1. /\ CacheShape /\ BoundKept /\ "early" \notin scene /\ disk["incoming"] \in Files
      /\ coder \in CoderState /\ req \in [Requests -> Placed]
  BY ShapeFacts DEF BoundInv, Liking, Dirs
<1>2. \A by : Queued(by).pc = "queued" /\ NoCoder.pc = "none"
  BY DEF Queued, NoCoder
<1>3. Ended.pc = "end"
  BY <1>1 DEF Ended, CoderState
<1>4. ASSUME NEW p \in Requests, Stamp(p)
      PROVE  UNCHANGED coder \/ coder'.pc = "queued"
  BY <1>2, <1>4 DEF Stamp, Spawned
<1>5. ASSUME NEW p \in Requests, ExportCodes(p) PROVE FALSE
  BY <1>1, <1>5 DEF ExportCodes, Placed, BoundKept
<1>6. CASE Recover
  BY <1>1, <1>2, <1>6 DEF Recover, Spawned, Landed
<1>7. CASE Restart
  BY <1>2, <1>7 DEF Restart
<1>8. CASE Open
  BY <1>1, <1>3, <1>8, OpenedTyped DEF Open, AlreadyClean, Coding, Busy
<1>9. CASE RenderFails \/ Judge \/ CoderEnds
  BY <1>2, <1>3, <1>9 DEF RenderFails, Judge, CoderEnds, Coding
<1>10. CASE Commit
  BY <1>1, <1>10 DEF Commit, Coding, CoderState
<1> QED
  BY <1>1, <1>4, <1>5, <1>6, <1>7, <1>8, <1>9, <1>10, CoderSteps DEF Transcode

\* The bulk run is the only request: it starts when none is running.
LEMMA OneLike ==
  ASSUME BoundInv, Liking, [Next]_vars
  PROVE  /\ \A p \in Requests : req'[p].kind \in {"none", "like"}
         /\ \A p, q \in Requests : req'[p].kind = "like" /\ req'[q].kind = "like" => p = q
<1>1. /\ CacheShape /\ req \in [Requests -> Placed]
      /\ \A p \in Requests : req[p].kind \in {"none", "like"}
      /\ \A p, q \in Requests : req[p].kind = "like" /\ req[q].kind = "like" => p = q
  BY ShapeFacts DEF BoundInv, BoundKept
<1>2. CASE \A p \in Requests : req'[p].kind \in {req[p].kind, "none"}
  BY <1>1, <1>2
<1>3. ASSUME NEW p \in Requests, Turns(p)
      PROVE  /\ \A q \in Requests : req'[q].kind \in {"none", "like"}
             /\ \A q, r \in Requests : req'[q].kind = "like" /\ req'[r].kind = "like" => q = r
  <2>1. PICK t \in Placed : req' = [req EXCEPT ![p] = t] /\ Turn(p, t)
    BY <1>3 DEF Turns
  <2>2. t.kind \in {"none", "like"}
    BY <1>1, <2>1 DEF Turn, Placed, ReqState, Kinds, Liking
  <2>3. t.kind = "like" => req[p].kind = "like" \/ \A q \in Requests : req[q].kind # "like"
    BY <2>1 DEF Turn, Running
  <2> QED
    BY <1>1, <2>1, <2>2, <2>3
<1>4. ASSUME NEW p \in Requests, Notify(p)
      PROVE  \A q \in Requests : req'[q].kind \in {req[q].kind, "none"}
  BY <1>1, <1>4, NotifyTurns
<1>5. ASSUME \/ Transcode \/ \E i \in 1 .. MaxTimers : TimerFires(i)
             \/ CancelLikes \/ RemoveCached \/ ClearLiked \/ ClearCache \/ EnforceLimit
             \/ FfmpegProbed \/ Recover \/ Restart
      PROVE  \A q \in Requests : req'[q].kind \in {req[q].kind, "none"}
  BY <1>1, <1>5, OthersEnd, Resting
<1>6. CASE UNCHANGED vars
  BY <1>2, <1>6 DEF vars
<1> QED
  BY <1>1, <1>2, <1>3, <1>4, <1>5, <1>6, RequestTurns DEF Next, Users


\* Nothing is downloaded beside a file that is there.
LEMMA DownloadsAfresh ==
  ASSUME BoundInv, Liking, [Next]_vars, NEW p \in Requests, req'[p].pc \in {"enter", "download"}
  PROVE  Path' = "none"
<1>1. /\ CacheShape /\ req \in [Requests -> Placed] /\ BoundKept /\ disk \in [Dirs -> Files]
      /\ coder \in CoderState
  BY ShapeFacts DEF BoundInv
<1>2. req[p].pc \in {"enter", "download"} \/ Path' = "none"
  BY Fates, Resting, <1>1 DEF Turn
<1> SUFFICES ASSUME req[p].pc \in {"enter", "download"} PROVE Path' = "none"
  BY <1>2
<1>3. /\ Path = "none" /\ ~Valid("incoming") /\ ~Valid("audio") /\ ~Valid("liked") /\ ~Busy
      /\ req[p].kind = "like"
  BY <1>1 DEF BoundKept, Path, CleanPath, Placed, Kinds
<1>4. CASE SameFiles
  BY <1>3, <1>4 DEF SameFiles, Path, CleanPath, Valid, Dirs, Clean
<1>5. CASE Removes
  BY <1>3, <1>5 DEF Removes, Path, CleanPath, Valid, Dirs, Clean, Gone, Bare, File
<1>6. ~Promotes /\ ~Commits
  BY <1>3 DEF Promotes, Commits, Commit, Busy
<1>7. ASSUME NEW q \in Requests, Lands(q) PROVE FALSE
  <2>1. req[q].pc = "download" /\ req[q].kind = "like"
    BY <1>1, <1>7 DEF Lands, Land, Placed, BoundKept, Kinds
  <2>2. q = p
    BY <1>1, <1>3, <2>1 DEF BoundKept
  <2>3. req'[p].pc = "stamp"
    BY <1>1, <1>7, <2>2 DEF Lands, Land, Placed, ReqState
  <2> QED
    BY <2>3
<1>8. ASSUME NEW q \in Requests, Stamps(q) PROVE FALSE
  BY <1>3, <1>8 DEF Stamps
<1> QED
  BY <1>4, <1>5, <1>6, <1>7, <1>8, LikeDisk

\* A raw file that has just landed is alone, and nobody transcodes it.
LEMMA LandedAlone ==
  ASSUME BoundInv, Liking, [Next]_vars, NEW p \in Requests, req'[p].pc = "stamp"
  PROVE  CleanPath' = "none" /\ Valid("incoming")' /\ ~Busy'
<1>1. /\ CacheShape /\ req \in [Requests -> Placed] /\ BoundKept /\ disk \in [Dirs -> Files]
      /\ coder \in CoderState
  BY ShapeFacts DEF BoundInv
<1>2. CASE Land(p)
  <2>1. Path = "none" /\ ~Valid("incoming") /\ ~Busy
    BY <1>1, <1>2 DEF BoundKept, Land, Path, Busy
  <2>2. ~Valid("audio") /\ ~Valid("liked") /\ coder' = coder
    BY <1>2, <2>1 DEF Land, Path, CleanPath
  <2>3. disk'["audio"] = disk["audio"] /\ disk'["liked"] = disk["liked"]
    BY <1>1, <1>2 DEF Land, Dirs, Clean
  <2>4. disk'["incoming"].len # "no"
    BY <1>1, <1>2, <2>1 DEF Land, Dirs, Bare, File
  <2> QED
    BY <2>1, <2>2, <2>3, <2>4 DEF CleanPath, Valid, Busy
<1>3. CASE req[p].pc = "stamp"
  <2>1. /\ CleanPath = "none" /\ Valid("incoming") /\ ~Busy /\ req[p].kind = "like"
        /\ ~Valid("audio") /\ ~Valid("liked")
    BY <1>1, <1>3 DEF BoundKept, CleanPath, Placed, Kinds
  <2>2. ASSUME NEW q \in Requests, Stamp(q) PROVE FALSE
    <3>1. req[q].pc = "stamp" /\ req[q].kind = "like"
      BY <1>1, <2>2 DEF Stamp, Placed, BoundKept, Kinds
    <3>2. q = p
      BY <1>1, <2>1, <3>1 DEF BoundKept
    <3>3. req'[p].pc = "store"
      BY <1>1, <2>2, <3>2 DEF Stamp, Goto, Placed, ReqState
    <3> QED
      BY <3>3
  <2>3. ~Promotes /\ ~Commits
    BY <2>1 DEF Promotes, Commits, Commit, Busy
  <2>4. ASSUME NEW q \in Requests, Lands(q) PROVE FALSE
    BY <2>1, <2>4 DEF Lands, Path
  <2>5. ASSUME SameFiles PROVE CleanPath' = "none" /\ Valid("incoming")'
    BY <2>1, <2>5 DEF SameFiles, CleanPath, Valid, Dirs, Clean
  <2>6. ASSUME Removes PROVE CleanPath' = "none" /\ Valid("incoming")'
    BY <1>3, <2>1, <2>6 DEF Removes, CleanPath, Valid, Dirs, Clean, Gone, Bare, File
  <2>7. CleanPath' = "none" /\ Valid("incoming")'
    BY <2>2, <2>3, <2>4, <2>5, <2>6, LikeDisk DEF Stamps
  <2>8. ~Busy'
    BY <1>3, <2>1, <2>2, LikeCoder DEF Busy, Commit
  <2> QED
    BY <2>7, <2>8
<1> QED
  BY <1>1, <1>2, <1>3, Fates, Resting DEF Turn

\* A transcode keeps its raw file.
LEMMA RawStays ==
  ASSUME BoundInv, Liking, [Next]_vars, Busy'
  PROVE  Valid("incoming")'
<1>1. /\ CacheShape /\ req \in [Requests -> Placed] /\ BoundKept /\ disk \in [Dirs -> Files]
      /\ coder \in CoderState /\ "incoming" \in Dirs /\ "incoming" \notin Clean
      /\ Dest \in Clean /\ NoCoder.pc = "none"
  BY ShapeFacts DEF BoundInv, Dirs, Clean, Dest, NoCoder
<1>2. ASSUME NEW p \in Requests, Stamp(p) PROVE Valid("incoming")'
  <2>1. Valid("incoming")
    BY <1>1, <1>2 DEF Stamp, BoundKept
  <2> QED
    BY <1>1, <1>2, <2>1, StampKeeps DEF Valid
<1>3. CASE Valid("incoming") /\ UNCHANGED disk
  BY <1>3 DEF Valid
<1>4. CASE UNCHANGED coder
  <2>1. Busy /\ Valid("incoming")
    BY <1>1, <1>4 DEF Busy, BoundKept
  <2>2. CASE SameFiles
    BY <1>1, <2>1, <2>2 DEF SameFiles, Valid
  <2>3. CASE Promotes
    BY <1>1, <2>1, <2>3 DEF Promotes, Valid
  <2>4. CASE Removes
    BY <1>1, <2>1, <2>4 DEF Removes, Valid, Busy
  <2>5. CASE Commits
    BY <1>1, <2>1, <2>5 DEF Commits, Valid
  <2>6. ASSUME NEW p \in Requests, Lands(p) \/ Stamps(p) PROVE FALSE
    BY <2>1, <2>6 DEF Lands, Stamps
  <2> QED
    BY <2>2, <2>3, <2>4, <2>5, <2>6, LikeDisk
<1>5. CASE Commit
  BY <1>1, <1>5 DEF Commit, Valid
<1> QED
  BY <1>2, <1>3, <1>4, <1>5, LikeCoder DEF Busy

\* A transcode ends where its raw file is bound for.
LEMMA RouteStays ==
  ASSUME BoundInv, Liking, [Next]_vars, coder'.pc \in {"rendering", "probing"},
         disk'["incoming"].liked
  PROVE  coder'.liked
<1>1. /\ CacheShape /\ BoundKept /\ disk \in [Dirs -> Files]
      /\ coder \in CoderState /\ "incoming" \in Dirs /\ "incoming" \notin Clean
      /\ Dest \in Clean /\ NoCoder.pc = "none"
  BY ShapeFacts DEF BoundInv, Dirs, Clean, Dest, NoCoder
<1>2. CASE UNCHANGED coder
  <2>1. Busy /\ (disk["incoming"].liked => coder'.liked)
    BY <1>1, <1>2 DEF Busy, BoundKept
  <2>2. CASE SameFiles
    BY <2>1, <2>2 DEF SameFiles
  <2>3. CASE Promotes
    BY <1>1, <2>1, <2>3 DEF Promotes
  <2>4. CASE Removes
    BY <1>1, <2>1, <2>4 DEF Removes, Busy
  <2>5. CASE Commits
    BY <1>1, <2>1, <2>5 DEF Commits
  <2>6. ASSUME NEW p \in Requests, Lands(p) \/ Stamps(p) PROVE FALSE
    BY <2>1, <2>6 DEF Lands, Stamps
  <2> QED
    BY <2>2, <2>3, <2>4, <2>5, <2>6, LikeDisk
<1>3. CASE Commit /\ coder'.liked = coder.liked
  BY <1>1, <1>3 DEF Commit, BoundKept
<1> QED
  BY <1>2, <1>3, LikeCoder

\* A liked raw file and an unliked clean one do not go without the liked one.
LEMMA LikedBeside ==
  ASSUME BoundInv, Liking, [Next]_vars, Valid("incoming")', disk'["incoming"].liked,
         Valid("audio")'
  PROVE  Valid("liked")'
<1>1. /\ CacheShape /\ BoundKept /\ disk \in [Dirs -> Files]
      /\ "incoming" \in Dirs /\ "liked" \in Dirs /\ "audio" \in Dirs
      /\ Dest \in {"liked", "audio"} /\ (coder.liked => Dest = "liked")
      /\ Gone.len = "no" /\ ~Bare("full").liked /\ Bare("full").len = "full"
  BY ShapeFacts DEF BoundInv, Dirs, Clean, Dest, Gone, Bare, File
<1>2. CASE SameFiles
  BY <1>1, <1>2 DEF SameFiles, Valid, BoundKept
<1>3. CASE Promotes
  BY <1>1, <1>3 DEF Promotes, Valid
<1>4. CASE Removes
  BY <1>1, <1>4 DEF Removes, Valid, BoundKept
<1>5. CASE Commits
  BY <1>1, <1>5 DEF Commits, Valid, BoundKept
<1>6. ASSUME NEW p \in Requests, Lands(p) PROVE FALSE
  BY <1>1, <1>6 DEF Lands
<1>7. ASSUME NEW p \in Requests, Stamps(p) PROVE FALSE
  BY <1>1, <1>7 DEF Stamps, Valid, CleanPath
<1> QED
  BY <1>2, <1>3, <1>4, <1>5, <1>6, <1>7, LikeDisk

LEMMA BoundNext ==
  ASSUME BoundInv, [Next]_vars
  PROVE  BoundInv'
<1>1. CacheShape' /\ Genuine' /\ scene' = scene
  BY CacheShapeNext, GenuineNext, SceneStays DEF BoundInv
<1> SUFFICES ASSUME Liking PROVE BoundKept'
  BY <1>1 DEF BoundInv, BoundKept, Liking
<1>2. (\A p \in Requests : req[p].pc \in {"enter", "download"} => Path = "none")'
  BY DownloadsAfresh
<1>3. (\A p \in Requests :
         req[p].pc = "stamp" => CleanPath = "none" /\ Valid("incoming") /\ ~Busy)'
  BY LandedAlone
<1>4. (Busy => Valid("incoming"))'
  BY RawStays
<1>5. (coder.pc \in {"rendering", "probing"} /\ disk["incoming"].liked => coder.liked)'
  BY RouteStays
<1>6. (Valid("incoming") /\ disk["incoming"].liked /\ Valid("audio") => Valid("liked"))'
  BY LikedBeside
<1> QED
  BY <1>2, <1>3, <1>4, <1>5, <1>6, OneLike DEF BoundKept

\* A step takes a raw file that is bound for liked_dir away, or back to
\* audio_dir, only when the liked file is there.
LEMMA LikedStep ==
  ASSUME BoundInv, Liking, [Next]_vars, Valid("incoming"), disk["incoming"].liked,
         ~(disk'["incoming"].len # "no" /\ disk'["incoming"].liked)
  PROVE  Valid("liked")
<1>1. /\ CacheShape /\ BoundKept /\ disk \in [Dirs -> Files]
      /\ "incoming" \in Dirs /\ Dest # "incoming"
  BY ShapeFacts DEF BoundInv, Dirs, Clean, Dest
<1>2. ~SameFiles
  BY <1>1 DEF SameFiles, Valid
<1>3. ~Promotes /\ ~Commits
  BY <1>1 DEF Promotes, Commits, Valid
<1>4. CASE Removes
  BY <1>1, <1>4 DEF Removes, Valid, CleanPath, BoundKept
<1>5. ASSUME NEW p \in Requests, Lands(p) \/ Stamps(p) PROVE FALSE
  BY <1>1, <1>5 DEF Lands, Stamps, Path, Valid
<1> QED
  BY <1>2, <1>3, <1>4, <1>5, LikeDisk

\* The invariant of the scenes in which only the bulk caching of likes runs.
THEOREM LikesInductive == Spec => []BoundInv
<1>1. Init => BoundInv
  <2> SUFFICES ASSUME Init PROVE BoundInv
    OBVIOUS
  <2>1. CacheShape /\ Genuine
    BY HandedStart DEF HandedInv
  <2>2. BoundKept
    BY Resting DEF Init, BoundKept, Busy, NoCoder, Valid, Gone, Bare, File, Dirs, Clean
  <2> QED
    BY <2>1, <2>2 DEF BoundInv
<1>2. BoundInv /\ [Next]_vars => BoundInv'
  BY BoundNext
<1> QED
  BY <1>1, <1>2, PTL DEF Spec

\* A raw file that is bound for liked_dir is taken away only once the liked
\* file is there: the quota spares it, and the removal after the grace period,
\* a restart and its recovery never drop it early.
THEOREM LikedBoundIsKept == Spec => LikedBoundKept
<1>1. BoundInv /\ [Next]_vars =>
        [scene \subseteq {"like", "limit", "crash", "cancel"} =>
           (Valid("incoming") /\ disk["incoming"].liked
              /\ ~(disk'["incoming"].len # "no" /\ disk'["incoming"].liked) => Valid("liked"))]_disk
  BY LikedStep DEF Liking
<1> QED
  BY <1>1, LikesInductive, PTL DEF Spec, LikedBoundKept
=============================================================================
