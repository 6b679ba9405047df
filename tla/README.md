# AnalogPhoneSTT: a verification development

TLA+ models, model-checking runs and TLAPS proofs for the two programs of this
repository: the *phone gateway* (`phone/`), which takes calls from Asterisk over
AudioSocket, and the *STT server* (`stt_port/`), which cuts the audio into
utterances, transcribes them and sends the text (and synthesized speech) back.
All paths below are relative to the repository.

Contents: [the system](#the-system), [the plan](#the-plan),
[CallServer](#callserver), [SttLink](#sttlink), [Segmenter](#segmenter),
[AudioSocket](#audiosocket), [Watchdog](#watchdog),
[Gates and Worker](#gates-and-worker), [Bridge](#bridge),
[what the code does not do](#what-the-code-does-not-do),
[what is not modelled](#what-is-not-modelled),
[running it](#running-it).

## The system

```
 telephone -- Asterisk == AudioSocket ==> phone/audiosocket.Call
                                             |  recv() / send()
                                             v
                                  phone/session.handle_call
                                  phone/session.SttLink  ---- one WebSocket per call ----+
                                                                                         |
   stt_port/main.consume_chunks  <== out_queue ==  stt_port/server.WebSocketSource  <----+
     (worker thread: gates, watchdog,                (asyncio handlers, one per connection)
      decode, emit, speak)        == _pending, _drained, _sockets, loop callbacks ==>
```

| component | state it keeps | operations | works with |
|---|---|---|---|
| Call server, `server.WebSocketSource` | `_sockets`, `_pending`, `_drained`, `out_queue`, one handler task and one idle watcher per connection | accept, `call_start`, audio, `speak`, `call_end`, idle flush, wait for the last transcripts, unregister, `emit`, `send_audio`, `_chunk_done`, `stop` | the worker, through the queue, three dictionaries under one lock and `call_soon_threadsafe`; the phone, through the WebSocket |
| Worker, `main.consume_chunks` | the queue item in hand | take, decode or gate out, emit, count down, synthesize, stop on the sentinel | the call server |
| Utterance segmentation, `audio.Segmenter` | preroll ring, chunk buffer, silence run | `process` a block, `flush` | the call server, or the microphone callback |
| Phone session, `session.SttLink`, `handle_call` | `_ws`, `_outbox` and its unfinished count, pump task, reader task, a task per reply | connect, `send_audio`, pump, `speak`, `receive_transcripts`, `finish`, `close` | AudioSocket on one side, the WebSocket on the other |
| AudioSocket call, `audiosocket.Call` | `_ended`, pacing deadline, frame counters | `recv`, `send`, `hangup` | Asterisk |
| Inference watchdog, `main.InferenceWatchdog` | a pool with one thread | `transcribe`, late results, `close` | worker |
| Filler gates and speech profile | none (pure functions) | `_frame_rms`, `speech_profile`, `trim_trailing_silence`, `filler_reason` | worker |
| Transcript normalisation, `words_to_digits`, `normalise_transcript`, `emit_transcript` | none (pure functions) | rewrite one text | worker |
| ASR and TTS backends, entry points, ARI origination, diagnostics | none, or a third-party model | | |

What makes each of them hard, and what makes it correct:

* **Call server and worker.** Handlers interleave at their awaits on one loop, the
  worker thread interleaves with them between any two statements, and the loop
  runs what the worker posts in the order it was posted, later.  Correct means:
  the counter of unfinished utterances is exact; no handler sleeps through its
  last transcript; a handler that was told "all done" has had everything sent;
  transcripts arrive in spoken order at the right connection; hangup and shutdown
  end, whatever the worker does.
* **Phone session.** Four kinds of task write to or read from one WebSocket; its
  writes go through a lock that a wedged peer holds; every wait has its own
  timer; and the link's idea of the connection (`_ws`) parts company with the
  connection itself.  Correct means: the far side sees one well-framed call; what
  is lost was dropped and counted; the caller is attended to and the hangup
  completes whatever the far side does; the connection does not outlive the call.
* **Segmenter.** A ring that wraps, is bypassed while an utterance is open and is
  "emptied" by two counters; a buffer with an end; a flush at any moment.
  Correct means: each utterance is one contiguous stretch of the stream with the
  right preroll, and no sample is handed over twice.
* **Watchdog.** An abandoned decode still holds the only thread, and so does each
  decode given up behind it.  Correct means: no more is lost than the runaway
  accounts for, and every loss is reported.
* **AudioSocket.** Playback is paced by a deadline that survives sleeps and stalls,
  and one flag ends both directions.  Correct means: nothing that was read is lost or
  doubled, Asterisk's buffer is never overrun, the end is final and always comes.
* **Gates.** Boundaries of framing and of three thresholds.  Correct means: the
  statistics are those of the chunk, and trimming removes silence only.
* **Transcript normalisation.** Rewrites that run over each other's output.  Correct
  means: what the words say is read once, and the hint about the model's casing
  survives.
* **Both machines together.** Two timers of 5 s and 6 s that start at different
  moments decide which side closes first.  Correct means: it is the server that
  closes, the phone has heard by then all that was sent, and what it hears of a call
  is what was said, in order.

`PROJECT.json` lists each hazard at its line, with the properties that cover it or
the reason why none does yet.

## The plan

In order of importance; what stands here exists, what could follow is said below.

| | module | what it is | runs | proofs |
|---|---|---|---|---|
| 1 | `CallServer` (`MCCallServer`, `CallServerProofs`, `CallServerOrder`) | handlers, loop and worker of the STT server | `two`, `live`, `held` | all safety properties: counter, no lost wake-up, routing, and the order of transcripts |
| 2 | `SttLink` (`SttLinkProofs`) | one call on the phone machine | `link_call`, `link_leak` | all safety properties |
| 3 | `Segmenter` implementing `Utterances` (`SegmenterProofs`) | ring and buffer, and what they promise | `streams` | all properties and the refinement |
| 4 | `AudioSocket` (`AudioSocketProofs`) | frame reading, end of call, paced playback | `line` | the pacing bound, every frame once, silence after the end |
| 5 | `Watchdog` (`WatchdogProofs`) | decodes given up on a single thread | `decodes`, `exit` | all properties |
| 6 | `Gates`, `Worker` (`WorkerProofs`) | one utterance through the worker: profile, gates and trim; the text that goes out | `chunks`, `tail` | all invariants, for chunks and texts of any length |
| 7 | `Bridge` implementing `Conversation` (`BridgeProofs`) | `SttLink` and `CallServer` composed, with their timers | `bridge` | the refinement, that the composition keeps all that is proved of its parts, and both properties of the end of a call |

Nothing of the plan is left; what could follow is under [what is not modelled](#what-is-not-modelled).

## CallServer

### Correspondence to the code

One handler per connection `k`; `hpc[k]` is where it is.  A handler awaits in
`recv` (the `async for` of `_handle`) and in `wait` (the drained event of
`_wait_for_pending`).  Every other state (`MidStep`) is a place *between* two
awaits where it leaves a lock, so that the worker can come in between; while a
handler is there the loop is not free and no other handler, callback or timer
runs.

| code | actions |
|---|---|
| `_handle`: accept, `call_start`, adopted audio | `Accept`, `CallStart`, `AudioAdopted` |
| audio blocks, `_on_block`, `_queue_chunk` | `AudioOpens`, `AudioCloses`; `Count` is the locked section, `Put` the `put` behind it |
| `_watch_idle` | `WatchIdle` |
| `speak`, `_queue_speech` | `QueueSpeech` |
| `call_end`, a closed socket, `_end_call` | `CallEnd`, `EndOfStream` |
| `_wait_for_pending` | `Check` (one locked section), `DrainTimeout`, `Leave` (the locked `finally`) |
| the `finally` of `_handle`, and websockets closing the connection | `Drop` |
| callbacks posted by the worker | `RunCallback`: `run_coroutine_threadsafe` takes two hops (make the task, run it) and an event two (`set`, wake the waiter), first in first out |
| `consume_chunks`, `emit`, `_chunk_done`, `speak`, `send_audio` | `Get`, `Emit`, `ChunkDone` (its locked section), `Notify` (the `call_soon_threadsafe` behind it), `Speak` |
| an exception out of `backend.transcribe` (`main.py:429` catches nothing) | `Crash` |
| `stop` | `BeginStop`, `FinishStop`; `Server.close()` closes each connection by `SocketCloses` |

Abstractions: audio is "an utterance is open"; a decode ends with a text or with
nothing, which stands for every gate, an empty text and a decode given up by the
watchdog; a timer that is armed may fire at any moment; a call id is new unless a
connection announces its own call again.  The last one is what
`server.py:404-407` asks for.  The gateway's ids are the first eight hex digits of
a UUID.  `Emit` reads `_sockets` and posts the send in one step; nothing that
another thread does in between changes the outcome, because an entry that
disappears in between is a socket that is closed when the send runs.

### Runs

* `two` (safety): two connections, two call ids, two utterances, one speak
  request, one worker, symmetric in connections and ids.  Two connections are
  what routing and "one handler at a time" need; two ids let one
  connection replace its call while the other is active; two utterances are
  needed for a counter above one, for order, and for a chunk left over behind a
  drain timeout.  The counter's logic is per call, so more utterances repeat what
  is there; the theorems cover all values.
* `live` (liveness): one connection, two ids, two utterances.
* `held`: the smallest instance of a disagreement, see
  [below](#what-the-code-does-not-do).

| property | what goes wrong without it |
|---|---|
| `PendingExact` | the hangup never waits, or always times out |
| `NoLostWakeup` | a handler waits for an event that nobody will set |
| `FiredMeansDrained` | a stale or early event ends the wait |
| `Answered` | a woken handler closes the socket ahead of its last transcript |
| `InSpokenOrder`, `FinalIsLast` | transcripts out of order; the gate's `final` on the wrong utterance |
| `SentinelLast` | the worker stops with utterances behind the sentinel |
| `Routed` | a transcript goes to another caller, or to none while the call lives |
| `HangupCloses` | a hung or dead worker keeps connections open |
| `ChunksFinish`, `ShutdownCompletes` | a chunk or a reply that produces nothing stops the worker, or the shutdown |

### Fairness

`LoopFairness`: the loop runs a ready callback and resumes a handler that can run
(asyncio's ready queue is first in first out); a timer that is armed fires
(`wait_for` in `_wait_for_pending`); a closed socket ends the `async for`; after
`Server.close()` each connection gets closed; `stop()` goes on when the handlers
have returned, and is called when the worker is gone (`_run_ws_loop`).  Nothing is
assumed of peers, nor that audio, `call_end` or Ctrl-C ever come.  `HangupCloses`
holds on that alone.  `ChunksFinish` and `ShutdownCompletes` state their extra
assumption themselves: `WorkerProgress`, no decode or synthesis takes for ever.
`Crash` is never fair: it may happen, or not.

### Proofs (`CallServerProofs`)

For every set of connections and of call ids and every number of utterances and
requests, from `CallsAssumption`, `ConnsAssumption` and `BoundsAssumption` (the
two "none" values are not real ones, the bounds are numbers): `TypeCorrect`,
`PendingExactHolds`, `NoLostWakeupHolds`, `FiredMeansDrainedHolds`, `RoutedHolds`.

All follow from the inductive invariant `IInv`, a conjunction of parts:

* `Handlers`: one handler at a time is between two awaits, and a call has one
  handler.  Without it two handlers could be inside `_queue_chunk` at once.
* `Made`: the utterances cut so far are `1..made`, and one that is counted and not
  queued is the last, in the hands of its handler.
* `Queued`, `Working`: the queue holds each queued chunk once and under its own
  call; what the worker holds is what it took.
* `Counting`: the counter is the number of chunks in hand *or* was thrown away
  by a handler that gave up and unregistered its event, and a call that is
  registered, given up or fired has a handler that got that far.  `PendingExact`
  alone is not inductive: after a timeout the worker counts chunks down whose
  entry is gone, and only the position of the handler says that no new chunk of
  that call can come.
* `Waiting`: for each waiting handler something remains that will wake it.

Each part is shown to be kept by every action; the helper lemmas say what each
action does to the fate of a chunk, to the queue, to the ready callbacks and to
the set of owed chunks.

### Proofs about order (`CallServerOrder`)

`AnsweredHolds`, `InSpokenOrderHolds`, `FinalIsLastHolds` and `SentinelLastHolds` are
about sequences: the chunk queue and the loop's ready callbacks.  They rest on
`IInv`, `Routed` and on the inductive invariant `OInv`:

* `InLine`, `LastOfCall`: the queue holds the utterances in the order they were cut,
  and a final one has none of its call behind it.
* `SendsInLine`: the sends on the loop are in the order of their utterances, all of
  them ahead of what the worker holds, which is ahead of what is queued.
* `Stopping`: nothing is queued behind the sentinel, because `stop()` puts it when
  no handler is left.
* `Behind`: an event on the loop stands behind every send of its call.  This is
  why `_chunk_done` sets the event through the loop (`server.py:310-316`).
* `Sockets`, `Addressed`: which connection a scheduled send goes to.
* `Answered` itself, which is inductive given the others.

`SentAheadHolds` adds that a send on the loop has a connection and that nothing that
was sent waits there again.  `BridgeProofs` needs it.

## SttLink

### Correspondence to the code

`main` is where `handle_call` is, `pump` where `_drain_outbox` is, `reader` where
`receive_transcripts` is; each reply of the responder is a task in `reply`.  An
action runs from one await to the next.  `ws` is `_ws is not None`; `conn` is the
connection, which may be open when `ws` is false.  `snd` is the connection's write lock: a
send is written when it gets the lock, and holds it until the peer reads.

| code | actions |
|---|---|
| `connect` | `Connected`, `DialFails`, `StartPump` |
| the read loop, `send_audio` | `SendAudio`; `Hangup` when `recv()` yields nothing more |
| `_drain_outbox` | `PumpTakes`, `PumpTicksOff`, and `PumpUnwinds` after a cancellation |
| `_send_text` | `TextSent`: returned, raised, or out of time |
| `finish` | `Hangup`, `Flushed`, `FlushTimeout`, `Announce`, `EndSent` |
| the grace, `close` | `GraceOver`, `GraceTimeout`, `Close`, `Closed` |
| `receive_transcripts` | `ReaderStarts`, `SpeechArrives`, `SpeechPlayed`, `TranscriptArrives`, `ReaderEnds` |
| `speak` | `SpeakStarts`, `SpeakSent` |
| the connection and the far side (external) | `GetsLock`, `PeerCloses`, `Posts`, `Returns`, `Raises` |

### Run `link_call`

Four frames over an outbox of two, two replies.  Capacity two with four frames
lets the outbox fill, drop and drain with a frame in the pump's hand; two replies
let two speakers, the pump and `call_end` contend for the lock.

`JoinExact` (the flush's count is exact), `CallFramed` (start first, no audio after
the end), `NoTruncation` (a `call_end` whose flush did not give up follows every
accepted frame, in order; the rest was dropped and counted), `LossBounded` (a flush
that did give up costs no more than a full outbox and the frame in the pump's hand,
however long the call), `WaitsForTheAnswer` (the phone closes a live connection only
when the grace ran out or its own sink failed), `Attended`, `HangupEnds`.

Fairness (`LinkSpec`): only the timers of `connect`, `_send_text`, `finish` and the
grace fire, and `handle_call` notices that its reader has ended.  Nothing is
assumed of the far side, of the lock, of the pump or of the replies: that is what
`Attended` and `HangupEnds` are about.

### Proofs (`SttLinkProofs`)

For every capacity above zero, any number of frames and any set of replies
(`CapacityAssumption`, `FramesAssumption`, `RepliesAssumption`: a reply is neither of the
two other writers): `TypeCorrect`, `JoinExactHolds`, `CallFramedHolds`,
`NoTruncationHolds`, `LossBoundedHolds`, `WaitsForTheAnswerHolds`.  The inductive invariant `IInv` consists
of the types and of:

* `Boxes`: when the link has its outbox, what the pump may be doing with it, and that
  the outbox's count of unfinished frames is exact (`JoinExact`).
* `Senders`: who is writing, waiting for the lock or done, at each place of
  `handle_call`; so that no audio can follow a `call_end`.
* `Links`: how `_ws`, the connection and the reader go together.
* `Framed`: what stands on the wire, by place: nothing, the start first, the end once.
* `Ordered`: what was written, what the pump holds and what is boxed are, in this order,
  the frames accepted so far, none twice.
* `Counted`: while the link is up every frame offered is sent, dropped, boxed or in hand;
  and once `call_end` is written, no more than a full outbox and a hand are missing.

`NoTruncation` alone is not inductive: that the flush emptied the outbox says
nothing unless the count is exact and the pump's frame is written before it is
ticked off.  `Attended` and `HangupEnds` are model-checked only.

## Segmenter

`Utterances` is what `audio.Segmenter` promises: samples are numbered, an
utterance is a window of them that reaches back `preroll` samples but not past
the previous utterance, is ended by `hangover` quiet blocks in a row or a flush,
and is cut at `limit`.  `Segmenter` is the code: the ring with its position and
fill count (`WritePreroll`, `PrerollOrdered`), the bounded buffer (`Appended`),
`Wait`, `Open` and `Continue` (the three ways through `process`), `Close`, `Flush`.
A sample is its number, so a stale, missing or doubled sample shows.  Whether a
block is loud is left open.  Blocks have the segmenter's own size: `blocks_from`
(`server.py:127-140`) and the microphone stream both deliver nothing else.

The refinement (`ImplementsUtterances`) reads the start of the open utterance off
the first sample of the chunk.  `PrerollFresh` and `ChunkUnbroken` are the
properties of ring and buffer it rests on; `NoStaleAudio` says that no chunk reaches
back behind the end of the one before (`audio.py:197-198`).

Run `streams`: blocks of 2, 3 and 4 samples, rings of 3 and 4 (a block smaller
than the ring with wrap-around, equal, and larger), buffers of 7 and 8 (which
the blocks do not divide, so the last block is truncated), hangovers of 1 and 2,
streams of up to 24 samples: several utterances with every alignment in between.

Proofs (`SegmenterProofs`), for all sizes of block, ring, buffer and hangover, from
`ParametersAssumption` (they are positive), `HeardAssumption` (the bound on the
stream is a number) and the condition in `Parameters` that the preroll fits into a
chunk.  `IInv` adds to the types
`RingHolds` (which sample each slot of the ring holds, written without reading the
ring in order, so that it survives a wrapping write) and `OpenAfterFloor` (an open
chunk starts after the end of the previous one) to `ChunkUnbroken`.  `PrerollFresh`
follows from `RingHolds`; the lemmas `WindowGrows`, `AppendedWindow` and
`WritePrerollHolds` carry the argument.  `Implements` maps every step of
`Segmenter` to a step of `Utterances` or a stutter.

That preroll fits into a chunk holds with the defaults and is not checked by the
constructor; a caller that asked for a preroll longer than a chunk would get an
exception from `audio.py:285`.

## AudioSocket

### Correspondence to the code

`Call` has two users on one loop: the task that reads (`on_connect`, then the
handler's `recv` loop) and the one that plays replies (`receive_transcripts` awaits
`send` for each).  A frame is a number and a kind; it may arrive in two pieces.

| code | actions |
|---|---|
| `ready`, `_recv`, `_read_frame` | `TakeFrame` (one turn of the loop in `_recv`), `ReadFails`, `ReadTimeout` |
| `recv` | `Recv` first returns what `ready` pushed back |
| `send` | `SendBegins`, `Wakes`, `Drained`: each goes through the loop up to its next await (`Turn`) |
| `hangup`, `close` | `Hangup`, `Close` |
| Asterisk, the network, the clock (external) | `FrameArrives`, `RestArrives`, `PeerGoes`, `Tick` |

Time passes in ticks; a frame is `Frame` of them, and `due` and `lead` are the
deadlines of `send` seen from now.  A frame that is due may be up to `MaxLate`
ticks late: the loop is busy, or the socket is full.  What Asterisk has been sent
and has not played is `backlog`.

### Run `line`

Three frames of any kind in, replies of up to two frames out (any number of them),
frames of two ticks, lateness of up to two ticks (a whole frame, so that two are
due at once).  Three frames are what a pushback, an item and an end need; the
theorems cover all numbers.

`EachOnce` (what `ready` and `recv` return is every content frame read, once, in
order), `BufferBounded` (Asterisk buffers at most one frame and what the playback
was late by: the reason why `send` is paced), `SilentAfterEnd`, `CallEnds`.

Fairness (`CallSpec`): the handler asks for the next item and returns after the
last, and the read timeout fires.  The peer owes nothing, not even the payload of
a header it has sent.

### Proofs (`AudioSocketProofs`)

From `FrameAssumption` (a frame takes time) and `LimitsAssumption` (the bounds are
numbers).  `BufferBounded` needs `OnSchedule`: while the call lasts, what Asterisk
has in hand is not more than the time to the next deadline and the lateness;
`TurnKeeps` shows that a turn of the loop keeps it, `PlaybackStep` that every step
does.  `EachOnce` needs `ReadyFirst`: what was pushed back comes before anything
`recv` reads.  `CallEnds` is model-checked only.

## Watchdog

The worker (`consume_chunks`) submits a decode (`Submit`) and waits for it: `Result`,
or after the ceiling `GivesUp`, then `LogWhenLate`, the `add_done_callback` of
`main.py:209` (between the two the decode may end).  `Land` is the end of a decode on the
pool's thread, with the callback.  The pool runs the decodes in the order of submission; so
it is described on its thread's own clock, which stands still while it has
nothing to do: decode `n` runs until `ends[n]`.  `Stop` is `close()`, by the sentinel or
Ctrl-C; `Exit` (external) is the interpreter's exit, which joins the threads of
every pool.  Time passes when nobody has anything to do at this moment.

Run `decodes`: a ceiling of three ticks, four decodes of one to seven ticks, any
idle time in between: two ordinary decodes may be lost behind one runaway, and the
pile recover or not.  `LoggedOnce`: each decode given up is reported once, when it
ends.  `LostForCause`: the decodes given up took the ceiling or more on the
average; so without a decode above the ceiling none is lost, and a runaway costs no
more ordinary ones than its excess pays for.  That matters because a decode that is
given up while it stands in the queue is still run.

Proofs (`WatchdogProofs`), for every ceiling and all lengths: `IInv` adds `Schedule`
(the clock is within the decode that runs), `Callbacks` (who is listened for) and
`Account`: what the thread has left to do is paid for by the excess so far,
but for the decode that the worker waits for.  Waiting pays it off at one tick per
tick, and giving up turns the rest into excess.  Assumptions: the ceiling is
positive, the bounds are numbers.

## Gates and Worker

`Gates`: a chunk is the levels of its whole frames and the number of samples behind
them.  `FrameCount` is the rounding of `_frame_rms`, `LongestRun` the loop of
`speech_profile`, `FillerReason` and `TrimmedLength` the functions of those names;
`Drop` and `Trim` are the two ways through `consume_chunks`.

`Worker` takes an utterance that passed on to its text: `HandOver` to the backend, and
`Transcribe`, in which the decode returns any text, or is given up, and
`emit_transcript` settles what goes out.  A text is a sequence of words, each with
what stands before it (a blank, several, a hyphen, anything else), which is what the
three expressions of `words_to_digits` tell apart; a word that spells a number has its
value.  Of the letters only the case of the text's first one is kept.  `Substitute`
is `re.sub`: left to right, a word that a match has used is not matched again.

Run `chunks`: all chunks of up to six frames of four levels, with and without a
partial frame, and all texts of up to three words over three units (zero, which no
expression combines; four; fifteen, which only the last one converts), one ten,
`hundred`, other words and digits.  Three words are the longest on which the
expressions interact ("twenty four hundred").  `RunIsLongest` compares the loop with the
definition of a longest run; `TrimKeepsProfile` says that the trimmed chunk, framed
anew, has the profile the gates saw, which holds because of the pad.
`NumbersReadOnce` compares the three substitutions with a single reading of the words:
`ReadsOnce` asks that the words that go out are, in order and one for one, those of the
text that begin a number or belong to none (`Heads`), each with the value that `Reading`
gives it and its neighbour.
`HintKept` says that with the hint a consumer still knows how the model began the
text.

### Proofs (`WorkerProofs`)

`RunIsLongestHolds`, `TrimKeepsProfileHolds`, `NumbersReadOnceHolds`, `HintKeptHolds`: the
four invariants of `chunks`, for chunks and texts of any length, any levels and any values of
the number words, from `SizesAssumption` (a frame and the pad have at least one sample),
`ThresholdsAssumption`, `NumbersAssumption` and `WordsAssumption`.  All four follow from
`WorkerInv`: chunks and texts are well formed at every stage, the target is the chunk or
what trimming leaves of it, and a record is made of the text and the style as they are.
TLC finds it to hold on the instance of `chunks` (run on `WorkerProofs`).

The loops of the code are folds, and a fold is a recursive function over sets of
positions.  What is proved of them takes an induction:

* `NatSets` is induction over the naturals with a *set* where the library's theorem has
  an operator; it comes from the well-foundedness of strict inclusion on finite sets.
* `FoldExists` and `FoldRuns`: the recursive function of a fold exists, and has an
  accumulator for each step.  `CountRunSteps`, `AddLoudSteps` and `PassSteps` are that for
  the three loops.
* `RunIsLongest`: `Counted` is the loop's invariant.  The stretch in hand ends at the
  last frame and cannot be made longer, and the best one so far is the longest so far.
* `TrimKeepsProfile`: `FrameCountIs` says which frames are measured, `CutTo` that the pad
  keeps the last loud frame among them when the rest is framed anew (`PadKeeps` is the
  arithmetic), `QuietTailRun` and `QuietTailTotal` that quiet frames at the end leave run
  and sum alone.
* `NumbersReadOnce`: `Places` is the invariant of one substitution: every word that is not
  swallowed is kept once and in order, joined to the one it swallows (`SubstituteOnce`).
  That needs `NoChain`: no word is both ends of a match, nor begins one when joined.
  `HundredsAre` is the heart: the second substitution, which sees only what the first one left,
  swallows exactly the words the single reading scales by.

## Bridge

### Correspondence to the code

`Bridge` is one call across both machines: `SttLink` and `CallServer` (with one
connection and one call id), each as `INSTANCE`.  Every step of a machine is a step of
its own module; `Bridge` adds when it may happen, and what is under way.  What
`SttLink` writes (`wire`) is what the handler reads (`rd` counts how far), what the server's
loop sends (`RunsCallback`) is what the phone's reader reads (`down`, `Takes`), and each
side learns of the other's close behind everything sent before it (`PhoneLearns`,
`ServerLearns`).  Where a part leaves a choice to its peer, the peer now decides: a send
fails on a closed connection only, the reader ends when there is nothing left to read.
`LinkLost` is a network that fails for good, anywhere, with any part of what was
under way still arriving.

Time: the unit is such that a message or a close is at most one tick under way
(`age`), and whoever need not wait acts within the tick (`PhoneIdle`, `ServerIdle`).  A
decode takes any time, a reply plays for any time.  `drainRan` and `graceRan` count the
ticks of `FINAL_DRAIN_TIMEOUT` (`server.py:104`) and
`FINAL_TRANSCRIPT_GRACE_SECONDS` (`session.py:44`); `TimersAssumption` is what those lines
ask of them, `Drain + 2 < Grace`.  Before the handler starts its drain the `call_end` may be a
tick under way, and the close that follows it another.  With `Grace = Drain + 2` TLC finds
the phone closing first: the assumption is tight.

### Run `bridge`

Two frames over an outbox of two, one reply, two utterances, one speak request, a
drain of one tick and a grace of four: about two million states.  Two utterances
are what order and "one back, one owed" need; `LinkLost` cuts at every point.  Deadlock
is checked, with `Finished` as the only place where nothing happens: so both
machines always get to the end of the call.

* `ServerClosesFirst`: while the network holds, the server closes, and the grace does
  not run out (unless the phone's own sink raised).
* `LastWordsHeard`: the phone leaves the call having heard every transcript that was
  sent, and the server has read all there was to read; what is unfinished was given
  up by the drain timeout.
* `ImplementsConversation`: what the phone sees is a `Conversation`: transcripts in spoken
  order, none twice, none that was not said, none after the call.

Left out of the composition, and in the parts: the timers against a stuck connection
(`connect`, `_send_text`, the flush), a crash of the worker, and `stop()` in the middle of the call.

### Proofs: the composition (`BridgeProofs`)

From `PhoneAssumption`, `ServerAssumption` and `TimersAssumption`, for any number of
frames, replies, utterances and requests and any timers:

* `ServerImplemented` and `PhoneImplemented`: each step of the composition is, for
  either machine, a step of its module or a stutter.  So everything proved in
  `CallServerProofs`, `CallServerOrder` and `SttLinkProofs` holds of the
  composition (`ServerFacts`, `PhoneFacts`).
* `ConversationHolds`, `Spec => ImplementsConversation`.  The invariant it takes, `BInv`,
  says that what is under way to the phone are utterances that were sent, in order and
  all later than the last one heard (`Relays`), and that the reader has ended before the
  phone leaves the call (`Left`).  A send that the loop runs is later than any that ran before: `InSpokenOrder` and `SentAhead` of the
  server.

### Proofs: the end of a call (`BridgeProofs`)

`ServerClosesFirst` and `LastWordsHeard`, from the same assumptions.  Of
`TimersAssumption` this is where `Drain + 2 < Grace` is needed, and all that is
needed.  The inductive invariant `EInv` stands on those of the two machines:

* `Announced`: `call_end` is written once, and is on the wire when the grace begins
  on an open connection;
* `Served`: a handler about to return owes its call nothing, unless it gave up;
* `Quiet`: while network and sink hold (`Calm`), it is the server that closes: the
  phone's side is closed only behind the server's, and the handler has left its loop
  exactly if it has read `call_end`;
* `Timed`: where the handler is bounds how long the grace has run.  It runs at most
  one tick until `call_end` is read, `Drain` ticks in the wait, and one until the
  phone notices the close, so at most `Drain + 2`;
* `Delivered`: a transcript that was sent is heard or on its way;
* `Basic`: the counters' ranges, and that nothing runs before the connection is there.

`Quiet` and `Timed` need each other: the phone does not close because the grace does
not run out, and the grace does not run out because the phone has not closed.  The
operators from `Writes` to `HandlerMoves` say what a step of either machine does to
the few variables the invariant looks at.

## What the code does not do

Disagreements between the code and what it or its documents say; each is a run
that must fail, and an entry under "findings".  (Not among them: speak requests are
uncounted so as not to delay a teardown (`server.py:276-279`), but an utterance behind one in the
queue is counted and waits for it all the same; `HangupCloses` bounds that.)

* `held`: the connection is said to stay open "until the call's outstanding chunks
  have come back" (`stt_port/README.md:99-101`).  `emit` counts a chunk down when
  its send is *scheduled*; a handler that tests the counter in between closes the
  socket first.
* `link_leak`: a control message that takes more than two seconds makes the link
  forget a connection that is still open (`session.py:183`); `close()` then has
  nothing to close, and the WebSocket outlives the call.
* `exit`: `close()` is said not to wait for a runaway decode (`main.py:223-224`); the
  interpreter waits for it, and for every decode given up behind it.
* `tail`: of a chunk without a partial frame `_frame_rms` drops the last whole frame
  (`audio.py:93`).  If that one is loud and follows more silence than the pad, it is
  trimmed off, although "speech is never truncated" (`test_server.py:571`).

Three more are no run.  A pump that `finish()` cancels in the middle of a send ends in an
`AttributeError` that nobody sees, because its outbox is gone by then
(`session.py:157,168,243-245`); `PumpUnwinds` is that step, and nothing of the call
depends on it.  And a transcript of commas only is normalised to nothing *after* the
test for an empty text (`main.py:447`), so that the blank line which `main.py:443-445` is there to
avoid is printed, and an empty record sent.  And if the far side stops reading, frames are
said to be "dropped and counted" (`phone/README.md:122-124`), but those still queued when
the flush at hangup gives up are thrown away with the outbox (`session.py:245`) and no
count is raised; `LossBounded` says how many that can be.

## What is not modelled

* In `Bridge`: see there.
* In `AudioSocket`: frame counters, `call_id` and `label` (a log tag), and payloads.
* In `Watchdog`: `timeout_s <= 0`, which is a plain call.
* In `Gates` and `Worker`: how a frame's level is computed from its samples; debug
  recordings; a record's time, duration and latency.
* In `CallServer`: meter output, statistics, log lines, malformed control messages
  (they change nothing).  The `Meter` constant keeps the one difference `--meter`
  makes to control; the runs have it off, the theorems hold for both.
* In `SttLink`: DTMF, the statistics line, and cancellation of the call when the
  process is interrupted.
* The energy threshold and the arithmetic of the audio path; models and voices
  (third party; any outcome is allowed); argument parsing, configuration, the HTTP
  request of `originate.py`: no state that outlives a call of them.
* The diagnostic scripts (`link_check.py`, `replay.py`, `fake_call.py`): an operator runs
  them by hand, and nothing in the two programs calls them.

Only model-checked, not proved: all liveness properties (temporal properties under
fairness are out of the prover's reach).

## Running it

`tlc -config <cfg> <module>` with the pairs of `PROJECT.json` "runs", and
`tlapm` on `CallServerProofs`, `CallServerOrder`, `SttLinkProofs`, `SegmenterProofs`,
`AudioSocketProofs`, `WatchdogProofs`, `WorkerProofs` and `BridgeProofs`.  The longest run is `bridge`, about two
minutes.  The operators named
"Mutant of ..." in the modules are plausible bugs of the definition that follows;
substituting one for it makes the run named in `PROJECT.json` report the property
it is listed for.
