---------------------------- MODULE AudioEngine ----------------------------
(***************************************************************************)
(* The main player of the desktop client.  audio.ts follows the player     *)
(* store and loads tracks; the engine keeps one rodio player and the bytes *)
(* it was built from; the audio-output thread opens devices; the tick      *)
(* thread reports the end, jumps back in an A-B loop, finds stalls and     *)
(* reloads after a reconnect; a monitor follows the default output.        *)
(*                                                                         *)
(* Commands that are not async run on the main thread in their order and   *)
(* take effect here when they are invoked, except a seek and a device      *)
(* switch, which have steps between which the other threads run.  A track  *)
(* is End long; positions are in source time, `out` in rodio's time.       *)
(***************************************************************************)
EXTENDS HoverPreview, Sequences, FiniteSets

CONSTANTS Loads,       \* bound: loadTrack calls under way, one without "overlap"
          End,         \* length of a track: an even number
          LoopEnd,     \* b of the A-B loop, whose a is 0
          MaxBreaks,   \* bound on events of the devices, one where tracks end
          MaxQueue,    \* bound on commands to the audio-output thread
          AudioScenes  \* the sets of AudioEvents a behaviour may show

AudioEvents ==
  { "preview",  \* no fault: covers are hovered
    "time",     \* no fault: tracks play to their end
    "seek",     \* no fault: the listener seeks
    "rate",     \* no fault: the listener changes the playback rate
    "loop",     \* no fault: an A-B loop is set
    "pick",     \* no fault: the listener picks a device
    "follow",   \* no fault: the default output changes
    "dies",     \* the stream of the device fails and says so
    "mute",     \* the stream stops without an error
    "slow",     \* a live stream makes no progress for STALL_THRESHOLD_MS
    "missing",  \* a track cannot be downloaded, read or decoded
    "early",    \* no fault: a track is paused while it is loaded
    "busy",     \* a try_lock of the player fails
    "overlap",  \* no fault: a load starts while another is under way
    "dislike",  \* no fault: the store comes to a track that is disliked
    "hurry" }   \* the listener acts while a load, reload or seek is under way

ASSUME AudioAssumption ==
  /\ End \in Nat /\ End % 2 = 0 /\ LoopEnd \in 1..End
  /\ MaxBreaks \in Nat /\ MaxQueue \in Nat \ {0}
  /\ AudioScenes \subseteq SUBSET AudioEvents

VARIABLES ui,      \* audio.ts: currentUrn, hasTrack, and the ended events to be handled
          loads,   \* ... and the loadTrack calls
          player,  \* AudioState: the player
          engine,  \* ... bytes, anchor, rate, loop, has_track, ended_notified, device_error
          output,  \* the stream: alive or not, the thread's commands, device_reconnected
          jobs,    \* what the threads that rebuild the player are doing
          breaks, audioScene

audioVars == <<ui, loads, player, engine, output, jobs, breaks>>
playerVars == <<shown, previewVars, audioVars, audioScene>>

Threads == {"main", "tick", "monitor"}

\* on: connected to the mixer of the stream that is open now
NoPlayer == [track |-> NoTrack, on |-> FALSE, paused |-> FALSE, src |-> 0, out |-> 0, speed |-> 1]
NoLoad   == [track |-> NoTrack, step |-> "idle", newest |-> FALSE, paused |-> FALSE, on |-> FALSE]
NoJob    == [step |-> "idle", kind |-> "reload", track |-> NoTrack, pos |-> 0, rate |-> 1,
             paused |-> FALSE, on |-> FALSE]

AudioTypeOK ==
  /\ PreviewTypeOK
  /\ ui \in [cur : Track0, has : BOOLEAN, ended : 0..2]
  /\ loads \in [Loads -> [track : Track0, newest : BOOLEAN, paused : BOOLEAN, on : BOOLEAN,
                          step : {"idle", "cache", "read", "build", "bytes", "anchor", "has",
                                  "flags", "answer"}]]
  /\ player \in [track : Track0, on : BOOLEAN, paused : BOOLEAN, src : 0..End,
                 out : 0..2 * End, speed : {1, 2}]
  /\ engine \in [bytes : Track0, base : 0..End, from : 0..2 * End, rate : {1, 2}, loop : BOOLEAN,
                 has : BOOLEAN, notified : BOOLEAN, error : BOOLEAN]
  /\ output.live \in BOOLEAN /\ output.reconnected \in BOOLEAN
  /\ output.queue \in Seq(Threads \cup {"reconnect"}) /\ Len(output.queue) <= MaxQueue
  /\ jobs \in [Threads -> [step : {"idle", "sent", "opened", "jump", "build"},
                           kind : {"reload", "seek"}, track : Track0, pos : 0..End, rate : {1, 2},
                           paused : BOOLEAN, on : BOOLEAN]]
  /\ breaks \in 0..MaxBreaks
  /\ audioScene \in AudioScenes

AudioInit ==
  /\ PreviewInit
  /\ ui = [cur |-> NoTrack, has |-> FALSE, ended |-> 0]  \* a restored track is not loaded
  /\ loads = [i \in Loads |-> NoLoad]
  /\ player = NoPlayer
  /\ engine = [bytes |-> NoTrack, base |-> 0, from |-> 0, rate |-> 1, loop |-> FALSE,
               has |-> FALSE, notified |-> FALSE, error |-> FALSE]
  /\ output = [live |-> TRUE, queue |-> <<>>, reconnected |-> FALSE]
  /\ jobs = [p \in Threads |-> NoJob]
  /\ breaks = 0
  /\ audioScene \in AudioScenes

----------------------------------------------------------------------------
(* The engine                                                              *)

Loaded  == player # NoPlayer
Drained == player.src = End
\* Only a player on the mixer of a live stream is pulled.
Pulled  == player.on /\ output.live

\* source_pos
Anchored  == engine.base + (player.out - engine.from) * engine.rate
SourcePos == IF Anchored < 0 THEN 0 ELSE Anchored

At(i, step)    == loads[i].step = step
Step(i, step)  == loads' = [loads EXCEPT ![i].step = step]
Finished(i)    == loads' = [loads EXCEPT ![i] = NoLoad]

\* The player of a load is there, and its anchor is not yet.
Committing == \E i \in Loads : At(i, "bytes") \/ At(i, "anchor")
Positions  == {n \in 0..End - 1 : n % 2 = 0}

\* The command fits into the bound on the channel.
Send(cmd) == Len(output.queue) < MaxQueue /\ output' = [output EXCEPT !.queue = Append(@, cmd)]

\* play, pause and stop try the lock; the tick thread holds it while it emits.
Locked == "busy" \in audioScene

\* `output` first: play reconnects before it starts the player.
EnginePlay ==
  /\ IF engine.error THEN Send("reconnect") ELSE UNCHANGED output
  /\ \/ player' = [player EXCEPT !.paused = FALSE]
     \/ Locked /\ UNCHANGED player

EnginePause ==
  /\ \/ player' = [player EXCEPT !.paused = Loaded]
     \/ Locked /\ UNCHANGED player
  /\ UNCHANGED output

\* stop: the player, when the lock is free; the bytes have a lock of their own.
StopPlayer == player' = NoPlayer \/ (Locked /\ UNCHANGED player)

\* A player of t, built at the speed of the engine and sought to `out`.
Built(t, on, paused, out) ==
  [track |-> t, on |-> on, paused |-> paused, out |-> out, speed |-> engine.rate,
   src |-> IF out * engine.rate > End THEN End ELSE out * engine.rate]

\* (mutant) the position is kept across a change of speed
RatesUnanchored(r) ==
  /\ player' = IF Loaded THEN [player EXCEPT !.speed = r] ELSE player
  /\ engine' = [engine EXCEPT !.rate = r]

\* set_playback_rate closes the segment that was played at the old rate.
Rates(r) ==
  /\ player' = IF Loaded THEN [player EXCEPT !.speed = r] ELSE player
  /\ engine' = IF Loaded THEN [engine EXCEPT !.rate = r, !.base = SourcePos, !.from = player.out]
                         ELSE [engine EXCEPT !.rate = r]

----------------------------------------------------------------------------
(* audio.ts: the store's subscriber and loadTrack                          *)

MayLoad == "overlap" \in audioScene \/ \A i \in Loads : loads[i].step = "idle"

\* loadTrack(t) in a free slot, from the state u of audio.ts; a new track takes
\* the A-B loop back.
LoadTrack(t, u) ==
  /\ \E i \in Loads :
       /\ loads[i].step = "idle" /\ MayLoad
       /\ loads' = [j \in Loads |-> IF j = i THEN [NoLoad EXCEPT !.track = t, !.step = "cache",
                                                                 !.newest = TRUE]
                                    ELSE [loads[j] EXCEPT !.newest = FALSE]]
  /\ ui' = [u EXCEPT !.cur = t, !.has = FALSE]
  /\ engine' = [engine EXCEPT !.has = FALSE, !.bytes = NoTrack, !.loop = @ /\ u.cur = t]
  /\ StopPlayer
  /\ UNCHANGED output

\* The player store becomes t and p: the track is another, or plays or pauses.
Follows(t, p, u) ==
  LET resumes == p /\ ~shown.playing
      pauses  == ~p /\ shown.playing
  IN
  /\ shown' = [track |-> t, playing |-> p]
  /\ GuardPreview(t, p)
  /\ \/ t # NoTrack /\ (t # u.cur \/ (resumes /\ ~u.has)) /\ LoadTrack(t, u)
     \/ /\ t = NoTrack /\ t # u.cur
        /\ ui' = [u EXCEPT !.cur = NoTrack, !.has = FALSE]
        /\ engine' = [engine EXCEPT !.has = FALSE, !.bytes = NoTrack]
        /\ StopPlayer /\ UNCHANGED <<loads, output>>
     \/ /\ t = u.cur /\ resumes /\ (u.has \/ t = NoTrack)
        /\ EnginePlay /\ ui' = u /\ UNCHANGED <<loads, engine>>
     \/ t = u.cur /\ pauses /\ EnginePause /\ ui' = u /\ UNCHANGED <<loads, engine>>
     \/ t = u.cur /\ p = shown.playing /\ ui' = u /\ UNCHANGED <<loads, player, engine, output>>

\* A track that is disliked: the last one is let go without a stop, and next()
\* comes to another track, or leaves the end of the queue to the autopilot.  (It
\* is called twice when a quality was shown: a load that is over at once.)
Skips(t, p, u) ==
  /\ "dislike" \in audioScene /\ t # NoTrack /\ t # u.cur
  /\ \/ \E next \in Tracks \ {t} :
          /\ shown' = [track |-> next, playing |-> TRUE]
          /\ EndPreview(FALSE)
          /\ LoadTrack(next, [u EXCEPT !.cur = NoTrack])
     \/ /\ shown' = [track |-> t, playing |-> p]
        /\ GuardPreview(t, p)
        /\ ui' = [u EXCEPT !.cur = NoTrack, !.has = FALSE]
        /\ UNCHANGED <<loads, player, engine, output>>

StoreSet(t, p, u) == Follows(t, p, u) \/ Skips(t, p, u)

Free(p)  == jobs[p].step = "idle"
Steady   == (\A p \in Threads : Free(p)) /\ ui.ended = 0
Calm     == Steady /\ \A i \in Loads : loads[i].step = "idle"
MayAct   == Free("main") /\ (Calm \/ "hurry" \in audioScene)

\* play, playFromQueue, next
Choose(t) ==
  /\ MayAct /\ StoreSet(t, TRUE, ui) /\ UNCHANGED <<jobs, breaks, audioScene>>

\* prev, when the queue has been cleared
Previous ==
  /\ MayAct /\ StoreSet(NoTrack, TRUE, ui) /\ UNCHANGED <<jobs, breaks, audioScene>>

\* togglePlay; with "early", also while the track is being loaded
Toggle ==
  /\ shown.track # NoTrack
  /\ MayAct \/ ("early" \in audioScene /\ Steady /\ shown.playing)
  /\ StoreSet(shown.track, ~shown.playing, ui)
  /\ UNCHANGED <<jobs, breaks, audioScene>>

\* The catch of loadTrack: the error is only the newest load's.
LoadFails(i) ==
  /\ "missing" \in audioScene /\ Free("main")
  /\ loads[i].step \in {"cache", "read", "build"}
  /\ Finished(i)
  /\ IF loads[i].newest /\ shown.playing
     THEN shown' = [shown EXCEPT !.playing = FALSE] /\ EnginePause
     ELSE UNCHANGED <<shown, player, output>>
  /\ UNCHANGED <<previewVars, ui, engine, jobs, breaks, audioScene>>

\* The cache has the file: audio_load_file is called unless the track was changed.
CacheAnswers(i) ==
  /\ At(i, "cache")
  /\ IF loads[i].newest
     THEN loads' = [loads EXCEPT ![i].step = "read", ![i].paused = ~shown.playing]
     ELSE Finished(i)
  /\ UNCHANGED <<shown, previewVars, ui, player, engine, output, jobs, breaks, audioScene>>

\* load_file has read the file: stop_current_player, and the mixer is cloned.
FileRead(i) ==
  /\ At(i, "read")
  /\ player' = NoPlayer
  /\ loads' = [loads EXCEPT ![i].step = "build", ![i].on = TRUE]
  /\ UNCHANGED <<shown, previewVars, ui, engine, output, jobs, breaks, audioScene>>

\* commit_loaded_track takes one lock, or stores one flag, after the other.
CommitPlayer(i) ==
  /\ At(i, "build")
  /\ player' = Built(loads[i].track, loads[i].on, loads[i].paused, 0)
  /\ Step(i, "bytes")
  /\ UNCHANGED <<shown, previewVars, ui, engine, output, jobs, breaks, audioScene>>

CommitStep(i, step, next, state) ==
  /\ At(i, step)
  /\ engine' = state
  /\ Step(i, next)
  /\ UNCHANGED <<shown, previewVars, ui, player, output, jobs, breaks, audioScene>>

\* (mutant) the end of the last track stays notified
CommitStateNotified(i) ==
  \/ CommitStep(i, "bytes", "anchor", [engine EXCEPT !.bytes = loads[i].track])
  \/ CommitStep(i, "anchor", "has", [engine EXCEPT !.base = 0, !.from = 0])
  \/ CommitStep(i, "has", "flags", [engine EXCEPT !.has = TRUE])
  \/ CommitStep(i, "flags", "answer", [engine EXCEPT !.error = FALSE])

\* No step between ended_notified and device_error: nobody tells them apart there.
CommitState(i) ==
  \/ CommitStep(i, "bytes", "anchor", [engine EXCEPT !.bytes = loads[i].track])
  \/ CommitStep(i, "anchor", "has", [engine EXCEPT !.base = 0, !.from = 0])
  \/ CommitStep(i, "has", "flags", [engine EXCEPT !.has = TRUE])
  \/ CommitStep(i, "flags", "answer", [engine EXCEPT !.notified = FALSE, !.error = FALSE])

\* (mutant) afterLoad trusts the state the track was loaded in
LoadAnswersAsAsked(i) ==
  /\ At(i, "answer") /\ Free("main")
  /\ Finished(i)
  /\ ui' = [ui EXCEPT !.has = @ \/ loads[i].newest]
  /\ UNCHANGED <<shown, previewVars, player, engine, output, jobs, breaks, audioScene>>

\* audio_load_file has answered: afterLoad, for the newest load.
LoadAnswers(i) ==
  /\ At(i, "answer") /\ Free("main")
  /\ Finished(i)
  /\ ui' = [ui EXCEPT !.has = @ \/ loads[i].newest]
  /\ IF ~loads[i].newest THEN UNCHANGED <<player, output>>
     ELSE IF shown.playing THEN EnginePlay ELSE EnginePause
  /\ UNCHANGED <<shown, previewVars, engine, jobs, breaks, audioScene>>

\* The listener of audio:ended and handleTrackEnd: the loop or repeat-one loads
\* the track again; next() moves on, stops at the end of the queue, or leaves it
\* to the autopilot.
TrackEnds ==
  LET u == [ui EXCEPT !.ended = @ - 1, !.has = FALSE] IN
  /\ ui.ended > 0 /\ Free("main")
  /\ \/ /\ shown.track # NoTrack /\ LoadTrack(shown.track, u)
        /\ UNCHANGED <<shown, previewVars>>
     \/ \E t \in Tracks : StoreSet(t, TRUE, [u EXCEPT !.cur = NoTrack])
     \/ StoreSet(shown.track, FALSE, [u EXCEPT !.cur = NoTrack])
     \/ /\ ui' = [u EXCEPT !.cur = NoTrack]
        /\ UNCHANGED <<shown, previewVars, loads, player, engine, output>>
  /\ UNCHANGED <<jobs, breaks, audioScene>>

----------------------------------------------------------------------------
(* The listener's commands, the threads that rebuild the player            *)

Rest == <<shown, previewVars, ui, loads>>

SetRate(r) ==
  /\ "rate" \in audioScene /\ MayAct /\ Rates(r)
  /\ UNCHANGED <<Rest, output, jobs, breaks, audioScene>>

SetLoop(on) ==
  /\ "loop" \in audioScene /\ MayAct /\ shown.track # NoTrack
  /\ engine' = [engine EXCEPT !.loop = on]
  /\ UNCHANGED <<Rest, player, output, jobs, breaks, audioScene>>

Seek(pos) ==
  /\ "seek" \in audioScene /\ MayAct /\ ui.has
  /\ jobs' = [jobs EXCEPT !["main"] = [NoJob EXCEPT !.step = "jump", !.kind = "seek", !.pos = pos]]
  /\ UNCHANGED <<Rest, player, engine, output, breaks, audioScene>>

\* A track is longer than an answer takes.
Plays ==
  /\ player.src + 2 < End
       \/ /\ "time" \in audioScene
          /\ \A i \in Loads : loads[i].step \in {"idle", "cache", "read", "build"}
  /\ audioScene \cap {"time", "seek", "rate", "loop"} # {}
  /\ Loaded /\ Pulled /\ ~player.paused /\ ~Drained
  /\ player' = [player EXCEPT !.src = @ + 2, !.out = @ + 2 \div player.speed]
  /\ UNCHANGED <<Rest, engine, output, jobs, breaks, audioScene>>

MayBreak == breaks < IF "time" \in audioScene THEN 1 ELSE MaxBreaks

\* What p rebuilds: the bytes, position and state it has read, and the mixer of now.
Captured(kind, pos) ==
  [step |-> "build", kind |-> kind, track |-> engine.bytes, pos |-> pos, rate |-> engine.rate,
   paused |-> player.paused, on |-> TRUE]

\* reload_current_track of p, up to the decode.  While a load commits, the anchor
\* is still the last track's, and the position that is read is any.
Reload(p) ==
  IF engine.bytes = NoTrack \/ ~Loaded THEN jobs' = [jobs EXCEPT ![p] = NoJob]
  ELSE \E pos \in IF Committing THEN Positions ELSE {SourcePos} :
         jobs' = [jobs EXCEPT ![p] = Captured("reload", pos)]

\* seek_to: in place when the decoder can, else with a new player.
Jump(p) ==
  LET pos == jobs[p].pos
      out == pos \div engine.rate
  IN
  /\ jobs[p].step = "jump"
  /\ \/ /\ pos > 0 /\ Loaded /\ ~Drained
        /\ player' = [player EXCEPT !.src = out * player.speed, !.out = out]
        /\ engine' = [engine EXCEPT !.notified = FALSE, !.base = pos, !.from = out]
        /\ jobs' = [jobs EXCEPT ![p] = NoJob]
     \/ /\ jobs' = [jobs EXCEPT ![p] = IF engine.bytes = NoTrack THEN NoJob
                                       ELSE Captured("seek", pos)]
        /\ UNCHANGED <<player, engine>>
  /\ UNCHANGED <<Rest, output, breaks, audioScene>>

\* The player is built and replaces whatever is there.
Install(p) ==
  LET job == jobs[p]
      out == job.pos \div job.rate
      at  == [engine EXCEPT !.base = job.pos, !.from = out, !.notified = FALSE]
  IN
  /\ job.step = "build"
  /\ player' = Built(job.track, job.on, job.paused, out)
  /\ engine' = IF job.kind = "seek" THEN at ELSE [at EXCEPT !.has = TRUE, !.error = FALSE]
  /\ jobs' = [jobs EXCEPT ![p] = NoJob]
  /\ UNCHANGED <<Rest, output, breaks, audioScene>>

\* swap_device_and_continue, by the listener or by the monitor
Switch(p) ==
  /\ \/ p = "main" /\ "pick" \in audioScene /\ MayAct
     \/ p = "monitor" /\ "follow" \in audioScene /\ Free(p)
  /\ MayBreak /\ breaks' = breaks + 1
  /\ Send(p)
  /\ jobs' = [jobs EXCEPT ![p] = [NoJob EXCEPT !.step = "sent"]]
  /\ UNCHANGED <<Rest, player, engine, audioScene>>

Switched(p) ==
  /\ jobs[p].step = "opened"
  /\ Reload(p)
  /\ UNCHANGED <<Rest, player, engine, output, breaks, audioScene>>

----------------------------------------------------------------------------
(* The audio-output thread, the device and the tick thread                 *)

\* A new stream: what was built for the old one is heard no more.
Reopened(waiting) ==
  /\ player' = [player EXCEPT !.on = FALSE]
  /\ loads' = [i \in Loads |-> [loads[i] EXCEPT !.on = FALSE]]
  /\ jobs' = [p \in Threads |-> IF p = waiting THEN [jobs[p] EXCEPT !.step = "opened"]
                                ELSE [jobs[p] EXCEPT !.on = FALSE]]

\* (mutant) the tick thread is not told
ReopensUntold ==
  /\ output.queue # <<>>
  /\ Reopened(Head(output.queue))
  /\ output' = [live |-> TRUE, queue |-> Tail(output.queue), reconnected |-> output.reconnected]
  /\ UNCHANGED <<shown, previewVars, ui, engine, breaks, audioScene>>

\* SwitchDevice and Reconnect; a device that cannot be opened gives the default one.
Reopens ==
  /\ output.queue # <<>>
  /\ Reopened(Head(output.queue))
  /\ output' = [live |-> TRUE, queue |-> Tail(output.queue),
                reconnected |-> output.reconnected \/ Head(output.queue) = "reconnect"]
  /\ UNCHANGED <<shown, previewVars, ui, engine, breaks, audioScene>>

\* The stream's error callback, or a stream that just stops.
StreamStops ==
  /\ output.live /\ MayBreak /\ breaks' = breaks + 1
  /\ \/ /\ "dies" \in audioScene /\ Len(output.queue) < MaxQueue
        /\ output' = [output EXCEPT !.live = FALSE, !.queue = Append(@, "reconnect")]
        /\ engine' = [engine EXCEPT !.error = TRUE]
     \/ /\ "mute" \in audioScene
        /\ output' = [output EXCEPT !.live = FALSE]
        /\ UNCHANGED engine
  /\ UNCHANGED <<Rest, player, jobs, audioScene>>

TickReloads ==
  /\ Free("tick") /\ output.reconnected
  /\ output' = [output EXCEPT !.reconnected = FALSE]
  /\ Reload("tick")
  /\ UNCHANGED <<Rest, player, engine, breaks, audioScene>>

\* The tick thread looks at the player.
Ticks == Free("tick") /\ engine.has /\ Loaded

\* suppress_ended_until_ms and suppress_stall_until_ms: windows that begin with
\* the rebuild and outlast it.
EndedSuppressed == \E p \in Threads : jobs[p].step \in {"jump", "build"}
StallSuppressed == \E p \in Threads : ~Free(p) /\ jobs[p].kind = "reload"

TickEnds ==
  /\ Ticks /\ Drained /\ ~EndedSuppressed /\ ~engine.error /\ ~engine.notified /\ ui.ended < 2
  /\ engine' = [engine EXCEPT !.notified = TRUE]
  /\ ui' = [ui EXCEPT !.ended = @ + 1]
  /\ UNCHANGED <<shown, previewVars, loads, player, output, jobs, breaks, audioScene>>

TickLoops ==
  /\ Ticks /\ ~Drained /\ engine.loop /\ SourcePos >= LoopEnd
  /\ jobs' = [jobs EXCEPT !["tick"] = [NoJob EXCEPT !.step = "jump", !.kind = "seek"]]
  /\ UNCHANGED <<Rest, player, engine, output, breaks, audioScene>>

\* (mutant) only an error of the stream reconnects
TickStallsOnError ==
  /\ Ticks /\ engine.error /\ ~Drained /\ ~player.paused /\ ~StallSuppressed /\ ~Pulled
  /\ Send("reconnect")
  /\ UNCHANGED <<Rest, player, engine, jobs, breaks, audioScene>>

\* No progress for STALL_THRESHOLD_MS; the cooldown is longer than a reconnect and
\* the reload that follows it.
TickStalls ==
  /\ Ticks /\ ~output.reconnected /\ ~Drained /\ ~player.paused /\ ~StallSuppressed
  /\ \/ ~Pulled /\ UNCHANGED breaks
     \/ Pulled /\ "slow" \in audioScene /\ MayBreak /\ breaks' = breaks + 1
  /\ \A n \in 1..Len(output.queue) : output.queue[n] # "reconnect"
  /\ Send("reconnect")
  /\ UNCHANGED <<Rest, player, engine, jobs, audioScene>>

LoadSteps(i) ==
  \/ LoadFails(i) \/ CacheAnswers(i) \/ FileRead(i) \/ CommitPlayer(i) \/ CommitState(i)
  \/ LoadAnswers(i)

AudioNext ==
  \/ \E t \in Tracks : Choose(t)
  \/ Previous \/ Toggle \/ TrackEnds
  \/ \E i \in Loads : LoadSteps(i)
  \/ \E r \in {1, 2} : SetRate(r)
  \/ \E on \in BOOLEAN : SetLoop(on)
  \/ \E pos \in Positions : Seek(pos)
  \/ \E p \in Threads : Jump(p) \/ Install(p) \/ Switch(p) \/ Switched(p)
  \/ Plays \/ Reopens \/ StreamStops
  \/ TickReloads \/ TickEnds \/ TickLoops \/ TickStalls
  \/ "preview" \in audioScene /\ PreviewNext /\ UNCHANGED <<audioVars, audioScene>>

AudioSpec == AudioInit /\ [][AudioNext]_playerVars

\* The runtime runs every task, the threads run, the webview handles what it is
\* told.  Listeners and devices owe nothing.
FairAudioSpec ==
  /\ AudioSpec
  /\ \A i \in Loads : WF_playerVars(LoadSteps(i))
  /\ \A p \in Threads : WF_playerVars(Jump(p) \/ Install(p) \/ Switched(p))
  /\ WF_playerVars(Reopens) /\ WF_playerVars(TickReloads) /\ WF_playerVars(TickEnds)
  /\ WF_playerVars(TickStalls) /\ WF_playerVars(TrackEnds)

----------------------------------------------------------------------------
\* No listener in a hurry, no command lost to a taken lock, no device that changes
\* while a track ends (a reload would then tell the end again), and no loop or
\* device beside a track that is paused while it is loaded: a rebuild that has
\* read the player before the pause would install it playing.
Devices == {"dies", "mute", "pick", "follow", "slow"}
Undisturbed ==
  /\ audioScene \cap {"hurry", "busy"} = {}
  /\ "time" \in audioScene => audioScene \cap Devices = {}
  /\ "early" \in audioScene => audioScene \cap (Devices \cup {"loop"}) = {}

\* Once everything is handled, the player is of the track that is shown and is
\* paused when the store says so, through devices that come and go while a track
\* is loaded, switched or reloaded, and through disliked tracks that are skipped;
\* not while one of those has ended the queue: then the last track sounds on.
PlaysAsShown ==
  Undisturbed /\ Calm /\ output.queue = <<>> /\ ~output.reconnected =>
    /\ Loaded /\ ~Drained /\ ("dislike" \in audioScene => ui.cur # NoTrack)
       => player.track = shown.track /\ player.paused = ~shown.playing
    /\ ui.has => Loaded

\* The position shown is the position played, through changes of speed, seeks,
\* loops and reloads.
PositionIsExact ==
  Undisturbed /\ Loaded /\ ~Committing => SourcePos = player.src

Silent ==
  engine.has /\ engine.bytes # NoTrack /\ Loaded /\ ~player.paused /\ ~Drained /\ ~Pulled

\* A player that should be heard and is not pulled by a live stream is rebuilt on
\* one, whichever of the threads reads, opens and installs first.
SoundComesBack == Silent ~> ~Silent

\* A track that has come to its end while audio.ts shows it as loaded gives way:
\* the end is told and handled, whatever seeks, reloads and devices came before.
\* (How often it is told is not said here.)
AtEnd == ui.has /\ ui.cur # NoTrack /\ Loaded /\ Drained

EndIsTold == AtEnd ~> ~AtEnd
=============================================================================
