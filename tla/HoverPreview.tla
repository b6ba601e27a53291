---------------------------- MODULE HoverPreview ----------------------------
(***************************************************************************)
(* The hover preview of the desktop client: the controller of              *)
(* audioPreview.ts, its starts, each a chain of two asynchronous calls,    *)
(* and the second player of the engine that they share (PreviewState).     *)
(*                                                                         *)
(* A generation is only compared with those of the starts under way, so    *)
(* `++startGen` is a new number only when one of them carries the old one. *)
(***************************************************************************)
EXTENDS Naturals

CONSTANTS Tracks,
          NoTrack,  \* no track, no player
          MaxGen    \* bound on the generations of a behaviour

ASSUME NoTrackAssumption == NoTrack \notin Tracks
ASSUME MaxGenAssumption == MaxGen \in Nat

VARIABLES shown,    \* the player store: currentTrack and isPlaying
          hover,    \* audioPreview.ts: active and pending track, timer, startGen
          starts,   \* the starts under way, by generation
          preview   \* PreviewState: the player's track, its gen, whether it fades

previewVars == <<hover, starts, preview>>

Track0 == Tracks \cup {NoTrack}
Start  == [track : Tracks, gen : 1..MaxGen, step : {"cache", "decode", "answer"}]

PreviewTypeOK ==
  /\ shown \in [track : Track0, playing : BOOLEAN]
  /\ hover \in [active : Track0, pending : Track0, timer : Track0, gen : 0..MaxGen + 1]
  /\ starts \subseteq Start
  /\ preview \in [track : Track0, gen : 0..MaxGen, fading : BOOLEAN]

PreviewInit ==
  /\ shown = [track |-> NoTrack, playing |-> FALSE]
  /\ hover = [active |-> NoTrack, pending |-> NoTrack, timer |-> NoTrack, gen |-> 0]
  /\ starts = {}
  /\ preview = [track |-> NoTrack, gen |-> 0, fading |-> FALSE]

CanPreview(t)  == ~shown.playing /\ shown.track # t
NewestStart(s) == s.gen = hover.gen
Moves(s, step) == starts' = (starts \ {s}) \cup {[s EXCEPT !.step = step]}
Ends(s)        == starts' = starts \ {s}

\* preview_stop with gen 0, or with the generation it must match.
Stopped(gen, cut) ==
  IF preview.track = NoTrack \/ gen \notin {0, preview.gen} THEN preview
  ELSE IF cut THEN [preview EXCEPT !.track = NoTrack, !.fading = FALSE]
  ELSE [preview EXCEPT !.fading = TRUE]

\* (mutant) a preview that ends does not cancel the start under way
EndPreviewKeepsStart(cut) ==
  /\ hover' = [active |-> NoTrack, pending |-> NoTrack, timer |-> NoTrack, gen |-> hover.gen]
  /\ preview' = IF hover.active = NoTrack THEN preview ELSE Stopped(0, cut)
  /\ UNCHANGED starts

EndPreview(cut) ==
  /\ hover' = [active |-> NoTrack, pending |-> NoTrack, timer |-> NoTrack,
               gen |-> hover.gen + (IF \E s \in starts : NewestStart(s) THEN 1 ELSE 0)]
  /\ preview' = IF hover.active = NoTrack THEN preview ELSE Stopped(0, cut)
  /\ UNCHANGED starts

\* wirePreviewGuards: the store's subscriber, when the store becomes t and p.
GuardPreview(t, p) ==
  IF (p /\ ~shown.playing) \/ t # shown.track THEN EndPreview(FALSE) ELSE UNCHANGED previewVars

----------------------------------------------------------------------------
StartHover(t) ==
  /\ t \notin {hover.active, hover.pending}
  /\ hover' = [hover EXCEPT !.pending = t, !.timer = t]
  /\ UNCHANGED <<starts, preview>>

\* Unhover, scroll, a hidden window, the end of PREVIEW_WINDOW_MS; or a click.
StopHover == \E cut \in BOOLEAN : hover # [hover EXCEPT !.active = NoTrack, !.pending = NoTrack]
                                  /\ EndPreview(cut)

HoverTimerFires ==
  /\ hover.timer # NoTrack /\ hover.gen < MaxGen
  /\ IF hover.pending # hover.timer THEN
       hover' = [hover EXCEPT !.timer = NoTrack] /\ UNCHANGED starts
     ELSE IF ~CanPreview(hover.timer) THEN
       hover' = [hover EXCEPT !.timer = NoTrack, !.pending = NoTrack] /\ UNCHANGED starts
     ELSE
       /\ hover' = [hover EXCEPT !.timer = NoTrack, !.gen = @ + 1]
       /\ starts' = starts \cup {[track |-> hover.timer, gen |-> hover.gen + 1, step |-> "cache"]}
  /\ UNCHANGED preview

\* The catch of a start: no file, or one that cannot be decoded.
StartFails(s) ==
  /\ s.step \in {"cache", "decode"}
  /\ Ends(s)
  /\ hover' = [hover EXCEPT !.pending = IF @ = s.track THEN NoTrack ELSE @]
  /\ UNCHANGED preview

\* ensureTrackCached answers; audio_preview_play looks at the generation first.
Cached(s) ==
  /\ s.step = "cache"
  /\ IF ~NewestStart(s) \/ hover.pending # s.track \/ ~CanPreview(s.track) THEN Ends(s)
     ELSE Moves(s, IF s.gen < preview.gen THEN "answer" ELSE "decode")
  /\ UNCHANGED <<hover, preview>>

Decoded(s) ==
  /\ s.step = "decode"
  /\ preview' = IF s.gen < preview.gen THEN preview
                ELSE [track |-> s.track, gen |-> s.gen, fading |-> FALSE]
  /\ Moves(s, "answer")
  /\ UNCHANGED hover

\* audio_preview_play has answered: a start that was overtaken stops its own.
StartAnswers(s) ==
  /\ s.step = "answer"
  /\ Ends(s)
  /\ IF NewestStart(s)
     THEN hover' = [hover EXCEPT !.active = s.track, !.pending = NoTrack] /\ UNCHANGED preview
     ELSE preview' = Stopped(s.gen, TRUE) /\ UNCHANGED hover

\* process_preview_fade, at its last step.
FadeEnds ==
  /\ preview.fading
  /\ preview' = [preview EXCEPT !.track = NoTrack, !.fading = FALSE]
  /\ UNCHANGED <<hover, starts>>

PreviewNext ==
  /\ \/ \E t \in Tracks : StartHover(t)
     \/ StopHover \/ HoverTimerFires \/ FadeEnds
     \/ \E s \in starts : StartFails(s) \/ Cached(s) \/ Decoded(s) \/ StartAnswers(s)
  /\ UNCHANGED shown

----------------------------------------------------------------------------
\* Once no start is under way, the preview that is heard is the one that the
\* controller shows as active, and never one over the music or of the loaded
\* track: whatever order hovers, decodes and answers come in.
PreviewMatches ==
  starts = {} /\ preview.track # NoTrack /\ ~preview.fading =>
    preview.track = hover.active /\ CanPreview(preview.track)
=============================================================================
