# A verification project for fish-bare-agent

fish-bare-agent is a voice agent: a browser streams microphone audio to a Node
server (`server.js`), which sends it to Deepgram Flux for turn detection, asks
an LLM for a reply, streams the reply's text into a Fish synthesis socket and
the synthesized audio back to the browser. The audio either uses the browser's
own websocket or an optional Go process (`gateway/`) that speaks WebRTC with
the browser and a websocket with the server.

This directory holds TLA+ models of that code, the TLC configurations that
check them on small instances, and theorems about them that the TLA+ proof
system checks for every value of the constants. `PROJECT.json` lists the runs,
maps every definition to the lines it models, and lists the hazards the
properties are for. Paths below are relative to the repository root.

## 1. Inventory

| Part | Code | State | Operations |
|---|---|---|---|
| Session turn engine | `server.js` class `Session` (330-752) | `turn`, `turnCounter`, per-turn `committed finished inHistory spoken outbox`, `bargeHeld`, `userTurnAudible`, `history` | six Flux events, LLM and Fish callbacks, `applyConfig`, `destroy` |
| Fish synthesis socket | `openFishTurn` (240-322) | `open closed queue`, socket state | `pushText`, `endInput`, `close`; open, audio, finish, error |
| LLM stream | `streamLLM` (187-233) | abort signal, pending line | deltas, end, failure |
| Sentence chunker | `SentenceChunker` (108-144) | `#buf` | `push`, `flush` |
| Echo filter | `isEchoOf` (151-181), `#recentAgentText` | last reply, live text | verdict against two thresholds |
| Audio transport | `sendAudio sendClear attachGateway` (376-412), offer relay and upgrade handler (764-878) | `gatewayWs`, `client`, `sessions` map | send, clear, attach, detach, `use_ws_audio` |
| Playback horizon | 376-399 | `playbackHorizon` | extend, zero, `agentAudible` |
| Deepgram connection | `#connectDeepgram` (412-463) | socket | mic audio (dropped until it is open), message, error, close |
| Gateway call | `gateway/session.go`, `startCall` of `gateway/main.go` | `outPCM closed mu closeOnce`, four goroutines | `readEngine pace handleInboundTrack writeEngine close`, state callbacks |
| Resamplers | `gateway/internal/dsp/dsp.go` | filter history and phase | `Process` (48 to 16 kHz, 24 to 48 kHz) |
| Browser client | `public/app.js` | `ws pc player mic` and the UI state | `start stop setupRtc fallbackToWs`, messages, ducking |
| Worklets | `public/*-worklet.js` | player queue, offset | audio, clear, process |
| HTTP, SDP relay, tests | `server.js` 758-804, `scripts/`, `gateway/cmd/` | none of the protocol | |

How the parts interact:

- Everything in `server.js` runs in one Node thread. A callback runs to
  completion, so the hazards are in the *order* of callbacks: six event sources
  (Flux, LLM, Fish, browser, gateway, clock) call into one session, and callbacks
  of a turn keep arriving after the turn is over. Every callback of a turn asks
  `live()` first; what goes wrong when one does not is the subject of several
  properties.
- `EagerEndOfTurn` starts a reply *speculatively*. Its output is buffered in the
  turn's outbox until `EndOfTurn` commits it or `TurnResumed` discards it. LLM
  and Fish may fail, finish or go on producing at any moment of that.
- A `StartOfTurn` while the agent is audible is a barge-in: cut at once, or in
  "smart" mode ducked and *held* until a transcript proves it is speech rather
  than the agent's own echo.
- In the gateway, four goroutines share `outPCM` and `closed` under one mutex,
  and `close()` is called by any of them, by the connection-state callback and
  by a failing negotiation.

What makes each part correct:

- *Turn engine.* The browser gets each reply exactly once, in order, or is told
  that it was cut or failed; a rolled-back speculation is not noticed; the
  conversation holds each exchange once and each prompt holds the conversation;
  an interruption silences the reply; nothing outlives its turn.
- *Gateway.* What is played is the reply in order; a clear cuts it sharply;
  either end going away takes the call down; nothing is written after `close()`.
- *Transport and client.* A running session ends up with audio the user hears,
  over one of two paths, whatever fails on the way; the microphone travels one
  way; an idle page and an ended session hold nothing.
- *Playback and echo.* The engine never hears from the loudspeaker: its horizon
  has to track what is played, since the barge-in and the echo filter depend on
  it. An echo must not cut the reply or be answered, and a user must not be taken
  for an echo.
- *The text path.* Clauses do not depend on how the text is cut into deltas, nor
  deltas on how the response is cut into chunks; Fish receives every word that
  was read, in order, although it may connect late; the turn hears once how it
  ended. The resamplers do not depend on how their input is cut into blocks.

The hazards this gives rise to, each with its line, are in `PROJECT.json`.

## 2. Modules

| Module | What it is |
|---|---|
| `Session` | The turn engine with the two streams of a turn, the Flux events, the barge-in hold, the history |
| `ReplyStream` | The abstract promise of a session: replies open one at a time, each is heard in order, a closed one stays closed |
| `Gateway` | One call of the WebRTC gateway: startCall from newSession on, all goroutines, the mutex, `close()` |
| `FishTurn` | The text side of `openFishTurn`: queue, start, flush, stop, verdicts |
| `SpeechRequest` | The abstract promise of it: the service receives the opening and then the script, in order |
| `Chunker`, `EventStream` | The sentence chunker and the reader of the LLM's response, as functions |
| `ReplyText` | The three composed: one reply's text from the response to Fish |
| `Transport` | The engine's and the gateway's side of the audio path of each session |
| `Client` | The page, composed with `Transport` |
| `Playout` | The horizon, a FIFO path with bounded delay, and an abstract player |
| `Playback` | `Playout` with the queue and the loop of `player-worklet.js` |
| `EchoFilter` | `isEchoOf` on words |
| `Echo` | A reply written, spoken, played and heard again: `Playback` with the echo filter and the barge-in hold |
| `MCSession`, `MCGateway`, `MCReplyText`, `MCClient`, `MCEcho` | Instances for TLC |
| `SessionProofs` | Type correctness and the bookkeeping invariant of `Session` |
| `SessionSafetyProofs` | Barge-in, dead turns, sockets, stray streams; history, prompts, delivery, closing of replies; `Session` implements `ReplyStream` |
| `GatewayProofs` | The reply's way through the gateway, sharp cuts, silence after close |
| `FishProofs` | Order of a request, one verdict, `FishTurn` implements `SpeechRequest` |
| `ClientProofs` | The page's and the engine's audio paths: types, one microphone path, nothing leaks, ended sessions keep no gateway |
| `PlayoutProofs` | The horizon tracks the loudspeaker |
| `ReplyTextProofs` | The response is read whole, the clauses are those of the whole text, the speech is complete; `ReplyText` implements `FishTurn` |
| `EchoProofs` | The worklet's queue and loop, `Playback` implements `Playout`, the two errors of the echo filter |

### Session

An action is one callback run to completion. `turn` is the id of `this.turn` (0
for null), `turns[i]` the turn object (old ones are kept because closures keep
them), `llm[i]` and `fish[i]` the two streams of turn `i`. The browser socket is
FIFO and its reader has no choice of its own, so the browser's view is recorded
when it is sent: `shown[i]` is what `#deliver` and `#commitTurn` let through,
`notice[i]` is a clear or an error instead of `agent_done`, `ducked` is the last
duck or unduck, `lastFinal` the last `user_final`. `made[i]` is a history
variable with what the streams of a turn produced.

| Code | Actions |
|---|---|
| `StartOfTurn` | `StartHeld` (smart and audible: duck and hold), `StartCut` |
| `Update` | `UpdateConfirms`; an update that proves nothing changes nothing |
| `EagerEndOfTurn` | `EagerIgnored`, `EagerSpeculate` |
| `TurnResumed` | `TurnResumed` |
| `EndOfTurn` | `EndOfTurnEmpty`, `EndOfTurnEcho`, `EndOfTurnCommit`, `EndOfTurnAnswer` |
| `streamLLM`, `#runAgentTurn` | `LlmDelta`, `LlmDone`, `LlmFail`, `LlmLate` |
| `openFishTurn` | `FishOpen`, `FishAudio`, `FishFinish`, `FishFail`, `FishGone` |
| the rest | `ApplyConfig`, `SttClosed`, `PlaybackEnds`, `Destroy` |

What the model abstracts, and why nothing interesting goes with it:

- A transcript is one of `Texts`. The echo verdict is "none", "weak" (between
  the two thresholds) or "strong", chosen freely, but only if the agent has said
  something it could be an echo of (`AgentTextKnown`). The verdict itself is in
  `Echo`. Whether a transcript has enough words to cut is a free choice as well.
- An LLM delta and an audio buffer are the items "text" and "audio"; "done" is
  `agent_done`. Whether a delta completes a clause for Fish is a choice.
- The playback horizon is one bit, `audible` (`Playout` has the arithmetic): set
  when audio reaches the browser, cleared by `sendClear` and by time passing.
- Audio goes to the client's socket. `sendAudio` prefers a gateway's when there is
  one, and while that socket is closing it drops the audio and leaves the horizon
  as it is (server.js:376-383). The choice of the sink is in `Transport`; in a
  WebRTC session `DeliveredInOrder` is about the audio while the gateway is up.
- `close()` of a Fish socket that is still connecting makes it emit an error later,
  which is not reported. `Session` leaves that event out, `FishTurn` has it.
- Latency records and log messages are left out.
- A callback of a turn that is not live returns without an effect; it is a
  stuttering step, except where it changes the state of its stream (`LlmLate`,
  `FishGone`).
- Flux is external: `flux` only says which events it can send next (a user turn
  starts, is guessed to end, resumes, ends). Nothing bounds when it does.
  After `Destroy` Flux may go on sending until its own socket is closed, as in the
  code.

### Gateway

An action is what a goroutine does between two points where others can run.
`held` is the mutex, kept while `writeEngine` writes to a socket; the other
locked sections cannot block and are single actions that need it free.
Audio is a sequence of sample *numbers*, so order, loss and repetition show.
One unit is one of the engine's 24 kHz samples: 20 ms are `Frame` units. The
interpolator doubles them and delays the signal by its filter length; across a
clear it therefore blends some fifteen samples of the old reply into the new one.
The model abstracts this: its cut is sharp up to the filter's memory.

| Code | Actions |
|---|---|
| `startCall` from `newSession` on | `NegotiationFails`, `Negotiated`, `TrackUp`, `PeerLost` |
| `close` and its callers | `MarkClosed`, `CloseEngine`, `ClosePeer`, `CloseReturns` |
| `readEngine` | `ReadAudio`, `AppendAudio`, `ReadClear`, `ReadFails` |
| `pace` | `TickTakes`, `FrameWritten`, `FrameFails`, `TickEnds` |
| `handleInboundTrack`, `writeEngine` | `MicDecodes`, `MicLocks`, `MicWritten`, `MicRefused`, `MicEnds` |
| the engine | `EngineSendsAudio`, `EngineSendsClear`, `EngineLost` |

`closeOnce` is modelled as it works: concurrent callers wait until the first
one is through, and a PeerConnection being closed calls `close()` again from its
own callback. `cuts` is a history variable with one record per clear: how many
frames had been heard, and which samples were sent before it.

### The text path

The deltas of one chunk of the response are handled without an await between
them, so an action of `ReplyText` is one `reader.read()` with everything it sets
off, down to the events written to the Fish socket. What interleaves is the
chunks, the socket's events and the end of the turn.

| Code | Actions |
|---|---|
| `streamLLM` with `onDelta` | `ReadChunk` (`EventStream!Lines`, `Deltas`; `Chunker!Pushed`) |
| the end, and the catch, of `#runAgentTurn` | `StreamEnds`, `StreamFails` |
| `#cancelTurn` | `Cancelled` |
| `openFishTurn` | `PushTexts`, `EndInput`, `Hangup`, `FishOpens`, `FishFinishes`, `FishFails`, `FishGone` |

A line of the response is two cells and a newline, enough to be cut in two.
A text is a sequence of characters of which only being punctuation matters.
The loops of the code are functions over their rounds: `Split` over the cells of
a body, `Pushed` over the rounds of `push`, `Chunked` over the deltas of a chunk.
`ReplyText` changes `fishVars` by the actions of `FishTurn` and no others.
A socket that is closed while it connects is "aborting": it never opens, and the
error event of its aborted handshake (`FishFails`) is still to come. `hungUp` is a
history variable: the turn has called `close()` before the request had ended.

### Transport and Client

The page's `start`, `initWsAudio` and `setupRtc` are asynchronous and work on
globals. An action runs from one await to the next, and what follows an await
reads the globals as they are *then*: `page.pc` need not be the connection the
continuation created. Session `s` owns microphone, contexts, websocket and
PeerConnection number `s`, so a mix-up shows. `held` has the browser's resources
that are open, `page` the globals that point to some of them.

| Code | Actions |
|---|---|
| `start`, the button, the knob | `Start`, `PressStop`, `TurnKnob` |
| `initWsAudio` | `MicWorkletLoads`, `PlayerWorkletLoads`, `WorkletFails` |
| the websocket's events | `SocketCloses`, `SessionMessage` |
| `setupRtc` | `SessionMessage`, `OfferMade`, `Gathered`, `AnswerComes`, `AnswerFails` |
| `onconnectionstatechange`, the watchdog | `Connected`, `Failed`, `Watchdog` |
| `fallbackToWs`, `stop` | `FallBack`, `Stop`, inside the actions that call them |
| upgrade of `/ws`, its messages and close | `Accepts` (in `SessionMessage`), `UseWsAudio`, `SessionEnds` |
| offer relay, upgrade of `/gateway`, `startCall` | `Dials`, `GatewayAnswers` |
| the gateway's `close()`, and its socket's close at the engine | `GatewayHangsUp`, `GatewaySocketCloses` |

Abstracted: between `Dials` and `GatewayAnswers` the whole inside of a call,
which is `Gateway`; a call is matched to a PeerConnection by the offer it was made
from (`sdp`), and the page's media flow only if the answer it was given is the
one of the call the engine is using (`Heard`).

### Playback and Echo

Samples are numbered. `Playout` has what the engine does (`SendAudio`,
`SendClear`), a FIFO path whose messages are at most `Latency` quanta late
(`Arrives`), and time (`Tick`). `Playback` replaces the last two by the code of
the player worklet (`Receives`, `Process`) and is checked to implement
`Playout`. `Echo` adds the reply's text on its way (`Writes`, `Records`,
`Speaks`, `Finishes`), what Flux makes of the sound (`StartOfTurn`, `Update`,
`EndOfTurnEcho`, `EndOfTurnAnswered`), and the user. A word takes `WordLen`
samples, so the word being played follows from the sample; a transcript is a
contiguous piece of the reply's words, followed by words of the user. It starts
no later than `Reaction` quanta after the sound, which `Grace` has to cover
(`EchoGraceAssumption`: the comment at server.js:386 says that it does).
Milliseconds are samples here, and the horizon is kept relative to now.

## 3. Plan

In order; what is done is marked.

1. `Session`, `ReplyStream`: safety, refinement, liveness, proofs. *Done.*
2. `Gateway`: pipeline, mutex, shutdown, proofs of the safety part. *Done.*
3. `FishTurn`, `SpeechRequest`, `Chunker`, `EventStream`, composed in
   `ReplyText`; refinement checked and proved, proofs of the safety part for
   responses of any length and texts of any characters. *Done.*
4. `Transport` and `Client`: one run with safety and liveness, proofs of the
   safety part. *Done.*
5. `Playout`, `Playback`, `EchoFilter`, `Echo`: horizon, player and echo filter,
   proofs of every property of the run. *Done.*
6. `Resampler`: the index arithmetic of the streaming filters (`dsp.go`): outputs
   and indices independent of block boundaries, no index out of range, as
   functions over small alphabets and as a theorem about the indices.

## 4. Runs

| Run | Module, configuration | Bounds | What it shows |
|---|---|---|---|
| `session_safety` | `MCSession.cfg` | 2 turns, 2 transcripts, 2 items per turn, symmetric transcripts; 1.4 M states | eleven invariants of the turn engine |
| `session_promises` | `MCSessionPromises.cfg` | 2 turns, 1 transcript, 2 items; 0.7 M states | dead turns are silent, `Session` implements `ReplyStream`, promised replies end |
| `session_history` | `MCSessionHistory.cfg` | as `session_safety` | violated: see section 7 |
| `session_unheard` | `MCSessionUnheard.cfg` | as above | violated: see section 7 |
| `session_duck` | `MCSessionDuck.cfg` | as above | violated: see section 7 |
| `gateway_call` | `MCGateway.cfg` | frames of 2 samples, 4 samples and 2 clears from the engine, 3 samples from the microphone; 0.8 M states | order both ways, sharp cuts, silence after close, shutdown, pacing |
| `gateway_tail` | `MCGatewayTail.cfg` | 3 samples | violated: see section 7 |
| `reply_text` | `MCReplyText.cfg` | responses of 1 to 3 lines, a letter and a punctuation mark, deltas of 1 or 2 characters; 0.1 M states | eight properties of the text path |
| `client` | `MCClient.cfg` | 2 sessions of one page; 0.6 M states | audio paths, leaks, the microphone |
| `client_knob` | `MCClientKnob.cfg` | 1 session | violated: see section 7 |
| `echo_suppression` | `MCEcho.cfg` | a reply of 4 words (one twice) of 2 samples, buffers of 1 and 3 samples, quanta of 2, delays up to one quantum, a window of 3 words, up to 3 user words; 1.3 M states | horizon, player, echo filter |
| `echo_window` | `MCEchoWindow.cfg` | as above | violated: see section 7 |

Why the bounds suffice. Every rule of the turn engine relates a turn to the one
before it: an interrupted reply and the reply to the interruption, a speculation
and its replacement. Two turns contain all of these; two items show order and
buffering on both sides of the commit (`agent_done` comes on top of them). Two
transcripts are needed for a speculation on another text than the final one.
The proofs remove these bounds for everything but liveness. In the gateway,
4 samples, sent in blocks of any size, are two frames, or one with a remainder on
either side of a clear; two clears let one fall between taking and writing a frame
and the next one follow while the queue refills. Three samples from the microphone
are a chunk and a remainder, and packets may be lost anywhere between them; a chunk
is enough to make the mutex matter for `close()`, and `EngineHearsMicInOrder` covers
any number of chunks.

Three lines of one or two characters give every position of a cut: inside a
line, at its end, in a run of punctuation and before it, with lines that carry
nothing in between and with the last newline missing. Two sessions let every
continuation of an earlier session wake up in a later one. A second session
starts only when the *engine* is done with the first (a bound, in `Start`):
the sessions share no state there. In `Echo` a buffer may be shorter or longer
than a quantum and than a word, and neither divides the other; the reply is
longer than the window, so text leaves it, and a word occurs twice, so that pairs
matter; the grace is the smallest that `EchoGraceAssumption` allows.

Deadlock is not checked in any configuration, because a session, a call, a
request, a page and a reply really end: a closed browser with no streams left, a
call with all of its goroutines over, a page that has started all its sessions.
That they end *properly* is what `FishSocketsReleased`, `ReplyEnds`,
`EitherEndEndsTheCall`, `RequestEnds` and `NothingLeaks` say.

### The properties

Of a session:

- `DeliveredInOrder`: exactly once, in order, nothing before the commit and all
  of it afterwards, whatever the streams do around `EndOfTurn`.
- `HistoryInOrder`, `PromptIsComplete`: the conversation holds no exchange twice
  although an interruption and the end of the LLM stream both record it, and no
  exchange is recorded behind the back of the reply in flight.
- `BargeInStopsReply`, `DuckedOnlyWhileHeld`: an interruption stops the reply and
  makes the agent inaudible; playback is ducked only while a barge-in is held.
- `AnswersFinalTranscript`: the reply answers the last final transcript.
- `EveryReplyIsClosed`, `ReplyEnds`: a promised reply is closed for the browser,
  and does not stay in flight for ever.
- `FishSocketsReleased`, `StrayLlmOnlyAfterFishFailure`: what may outlive a turn.
- `DeadTurnsAreSilent`, `KeepsPromise`: no step after a turn's end touches what
  the browser was shown of it, and seen from the browser the session is a
  `ReplyStream`: speculation is invisible in the delivered audio and text.
- `TurnBookkeeping`: what these rest on.

Of a call: `ReplyInOrder`, `CutIsSharp`, `MicInOrder`, `QuietAfterClose`,
`EitherEndEndsTheCall`, `FullFramesGoOut`, and `PipelineInOrder`, on which the
first two rest.

Of the text path:

- `StreamReadWhole`, `ClausesAreWhole`: what was read are the deltas of the
  complete lines, and the clauses end where the text as a whole is cut
  (`CutsOf`, a definition that knows no deltas), however both were cut.
- `SpeechIsComplete`: when Fish is told to stop it has every word that was read.
- `RequestInOrder`, `KeepsScript`: the queue, and `SpeechRequest`. `OneVerdict`:
  the turn hears at most once how its request ended, and hears of no error after it
  has hung up, in particular not of the one that closing a connecting socket causes.
  `RequestEnds`: while its turn lives, a request ends.

Of the page and the engine:

- `NobodyIsStranded`: a session that keeps running ends up with audio for good,
  whatever becomes of the gateway, of ICE, and of an attach that comes after the
  page gave up. It names its exceptions: a worklet that could not be loaded
  during a fallback, and the knob turned during `start()`.
- `OneMicPath`: the microphone travels over one capture node or one connected
  PeerConnection, with two exceptions in which the code really doubles it: `Crossed`
  (the knob turned during `start()`, which `SocketCarriesJsonOnly` reports) and
  `Stale` (a fallback of a stopped session that wakes up in a later one).
- `NothingLeaks`, `GoneSessionsAreDetached`: an idle page holds no device or
  connection, an ended session no gateway.
- `SocketCarriesJsonOnly`: what app.js says of a session over WebRTC; violated.

Of playback and echo:

- `HorizonTracksPlayout`: the engine's guess is what the loudspeaker does, up to
  the delay of the path. `PlaysAsSent`: the player implements `Playout`.
- `RememberedEchoLeavesReplyAlone`, `UserIsHeard`: the two errors an echo filter
  can make. The first is about echoes that begin in the remembered text and
  before a cut; `EchoLeavesReplyAlone` drops the former condition and is violated.
  The second takes the user's words not to occur in the reply: a user who repeats
  the reply's words cannot be told from its echo.

Each property has a mutant in `PROJECT.json`: a slip of the code it notices.
The slips are the operators at the head of each module that no action uses.

## 5. Fairness

`Session!FairSpec`: an LLM stream ends or fails (the request carries
`max_tokens`), and a Fish socket that stays up opens, and once it was told to
stop it finishes or reports a failure. That the Fish socket *stays* up is not
assumed: `FishGone` closes it without a message at any time, and because
`openFishTurn` has no close handler, `ReplyEnds` names that case as the
exception. Nothing is assumed of Flux, of the user, of playback or of the clock.

`Gateway!FairSpec`: the Go scheduler runs each goroutine that can run, the
ticker ticks, and `WriteMessage` returns, since the engine reads its socket or
the socket dies. The last one is an assumption on the environment and not on
the code: `writeEngine` holds the mutex during the write and sets no deadline,
so an engine that neither reads nor closes blocks the whole call, `close()`
included. Nothing is assumed of the engine, of negotiation or of the network.

`ReplyText!FairSpec`: a response goes on arriving until it ends, fails or is
aborted, and a connecting socket opens or fails. Fish owes nothing. Both
conjuncts are stated on what becomes of the response and the socket, not on the
code's handlers, which run whenever their event is there.

`Client!FairSpec`: the timer of the watchdog fires, `addModule` settles, the
engine's event loop handles what has arrived, a websocket that connects or
closes gets there, a gateway that has dialled the engine answers or fails
(its gathering is capped at 3 s, main.go:184-187), and each end of a lost
PeerConnection notices. The user and the network owe nothing: an offer may never
reach the gateway, ICE may never connect, `setupRtc` may hang. That the page gets out of
these by its own timer is the point of `NobodyIsStranded`.

`Echo` has safety properties only. That time does not pass (`Tick`, `Process`)
while a message is overdue is its assumption on the path.

## 6. Proofs

All theorems hold for every value of the constants: transcripts, turns and items,
frame sizes, reply lengths and clears, texts, sessions, delays and buffers. The
assumptions of `Session` and `Gateway` are
`SessionAssumption` (there is a transcript, there is a "no transcript" apart
from them, the bounds are numbers) and `GatewayAssumption` (frames are not
empty, the bounds are numbers).

*Session.* `TypeOK` is inductive once it knows that the current turn is an id
that was given out. `TurnBookkeeping` is the inductive core: ids not given out
are unused, the current turn is the youngest, a recorded exchange belongs to a
stream that ended, and a finished turn has its `agent_done` at the end of what
it produced. On top of it, one invariant at a time:

- `DuckNeedsHold`, `BargeInWorks`, `FinalIsAnswered`, `SocketsReleased`,
  `StraysExplained` (invariants) and `DeadStaySilent` (an action property);
- `ConversationInOrder` and `PromptsComplete` together, since each needs that
  the current turn's exchange is the last one or is missing;
- `DeliveryInOrder`, and from it `RepliesAreClosed`;
- `SessionKeepsPromise`: the initial states of `Session` map to those of
  `ReplyStream`, and each step to opening, extending or closing a reply or to
  a stutter. `DeliveredInOrder` is needed for commits (a reply opens with
  nothing heard), `TurnBookkeeping` for the fact that a reply opens only once.

*Gateway.* `ReplyInOrder` and `CutIsSharp` only speak of frames that were
written and say nothing of those to come, so neither is inductive.
`PipelineInOrder` closes the gap: the frames heard, the frame in hand,
the queue, the block being appended and the messages in the socket are
consecutive pieces of the reply, each gapless and each before the next, and
every processed clear has a place between two of them (`Divides`): a frame in
hand is either after it, or it is the one frame taken before the clear and
nothing was written since. `MutexKept` carries `ClosedCallIsQuiet`: while a
chunk is being written the mutex is held, and `MarkClosed` needs it free.

The theorems are `GatewayTypes`, `ReplyStaysInPieces`, `BrowserHearsReplyInOrder`,
`CutsAreSharp` (up to the interpolator's memory) and `ClosedCallIsQuiet`, and for
the other direction `EngineHearsMicInOrder`: the chunks sent, the decoder's buffer
and the samples to come follow each other (`MicFollows`).

*The synthesis request.* No assumption, any set of texts: `FishTypes`;
`OneVerdictOnly`, which needs that the flags agree with the socket
(`SocketMatchesFlags`: in particular a turn that has hung up has set `closed`, which
swallows the error of an aborted handshake); `RequestStaysInOrder`; and from it
`FishKeepsScript`, each step maps to a step of `SpeechRequest` or to a stutter.

*The text path.* From `ReplyTextAssumption` (deltas are texts that are not empty,
the bound on lines is a number), for any characters and punctuation. `ReplyInv` has
three parts. `ResponseInv`: what has arrived and what has not are one response, what
waits in `pending` is its partial line, and `full` are the deltas of its complete
lines. That a chunk keeps this rests on `SplitConcat`: splitting what arrived is
splitting the partial line with the new chunk behind it. `ReadsRegularly` then counts
the lines, which gives `StreamIsReadWhole`. `ClausesInv`: while the turn lives and is
reading, the clauses and the buffer behind them are `full`, cut at cuts of it and at
all that are not in the buffer (`CutInto`), and the buffer has none. The steps of this
are one lemma each: a clause ends at the first cut (`ClauseEndsAtCut`), a round of
`push` leaves a cut less (`RoundCuts`), `push` leaves none (`PushCuts`), more text
behind neither undoes a cut nor makes one before the last clause ends (`CutOn`), and
so the deltas of a chunk are cut as one text (`ChunkedCuts`) and the flush adds the
rest (`FlushCuts`). This gives `ClausesStayWhole`. `AskedInv`: the request as written
is of clauses, and if its end was written they make up all that was read; with
`RequestStaysInOrder` that is `SpeechStaysComplete`. `ReplyIsRequest`: every step of
`ReplyText` is a step of `FishTurn` or leaves it alone, so that the theorems above
hold of the reply's request (`ReplyKeepsScript`).

*Transport and Client.* For any number of sessions. `EndedSessionsAreDetached`:
the gateway's socket is open only while it is attached (`DetachInv`), and the
upgrade handler attaches only to a session in the map. `PageIsTyped`,
`StoppedPageHoldsNothing` (`NothingLeaks`) and `MicTakesOnePath` (`OneMicPath`) rest
on `PageInv`. What an idle page holds depends on what `stop()` finds in the page's
globals, and these are written by continuations of sessions that may be over;
so `PageInv` says what the globals are of (`Globe`): the last session, or nothing;
that the open microphone and connections are exactly those they name (`Owned`);
how far each set-up and each fallback can have come (`Dialling`, `Loads`); and,
unless some session set up its audio twice (`Stale` or `Crossed`), that the open
audio contexts are those they name as well (`Regular`). `MicTakesOnePath` has the two
exceptions of its property, and the proof shows that there is no third.

*The horizon.* `HorizonTracks` and `AgentAudibleWhilePlaying`, from
`PlayoutAssumption` and `GraceAssumption` (the grace covers the delay and one
quantum). Neither property says anything of the messages under way, so neither
is inductive. `WireInv` adds: what is under way is in order and complete
(`InOrder`, `Carried`), no message straddles a clear (`Cleared`), and, the core,
when a message was sent the horizon covered all audio from it on, and has sunk by
no more than the message's age since (`Covered`). A player that falls short in
`Tick` then waits for a message that has not reached its deadline, so it has
lost less than `Latency` (`NextUnderWay`, `TickHolds`).

*The player.* `PlayerPlaysAsSent`: `Playback` implements `Playout`. `QueueInv` says
that the worklet's queue holds the samples that `Playout` has as one interval,
block after block, with the offset inside the first. `process()` is a loop over
output samples, here the recursive function `FilledFrom`; `FillsInOrder` is its
loop invariant, by induction over the samples still to be written: the row
holds consecutive samples up to where the queue runs dry, and silence from there
(`OutRow`). `ProcessIsTick` and `ReceivesIsArrives` map the steps.

*The echo filter.* `HorizonTracksPlayer` carries the horizon's theorem over to the
worklet. `UserIsNotAnEcho` (`UserIsHeard`) and `EchoIsLeftUnanswered`
(`RememberedEchoLeavesReplyAlone`) are about transcripts that Flux sends later than
the sound they are of. `EchoInv` says what has to be known until then: the reply is
in the history once, whole or as far as it was written (`Recording`); no more of
it is sent than is written, nor heard than is sent (`Voiced`); while what was heard
of an uncut reply can still start a user turn, the horizon is past by no more than
the path's delay and the reaction of Flux (`SoundsOn`); and so, by
`EchoGraceAssumption`, a user turn with words of an uncut reply began while the
agent counted as audible (`Judged`), which decides the threshold.

Induction. The theorems of the library that take an operator cannot be used by
the installed provers. Induction over numbers can: `InductionOverNat` states it
for a *set* of numbers and follows from the well-foundedness of `<`, so a
recursive function over numbers (`FilledFrom`) can be reasoned about. In the same
way `InductionOverSeq` is induction over sequences. That a loop's function exists at
all is `LoopRuns`, and that it is the only one is `SameRun`; `JoinAppend` and
`JoinConcat` say what the community modules' `FlattenSeq` does.

Only model-checked: liveness (`ReplyEnds`, `EitherEndEndsTheCall`,
`FullFramesGoOut`, `RequestEnds`, `NobodyIsStranded`), which is beyond the prover.
Every safety property of a passing run is a theorem.

## 7. Where code and comments disagree

Six runs check what a comment or the repository's README says and find the code
doing otherwise.

- `session_history`: "Speculative turns roll back silently: no client messages,
  no history." The exchange is pushed as soon as the LLM stream ends, committed
  or not; a rollback after that leaves it in the conversation and in the next
  prompt, with a reply the user never heard.
- `session_unheard`: "the speculative work is discarded and the browser never
  hears about it." When a service fails during a speculation the browser is sent
  an error and an `agent_done`.
- `session_duck`: "Duck playback immediately [...], cut fully once the transcript
  proves real speech, swell back if it turns out to be our own echo." A final
  transcript between the two echo thresholds does neither, and when it confirms a
  matching speculation the new reply starts ducked.
- `gateway_tail`: "pace encodes and sends one 20 ms Opus frame per tick while
  audio is queued." Less than a frame stays queued until more audio arrives, and
  is then heard in front of the next reply.
- `echo_window`: "*echo filter* — drops "user" turns whose transcript matches
  what the agent was just saying" (README.md). The reference is the end of the
  text written so far, 600 characters of it. The LLM writes faster than Fish
  speaks, so in a long reply the words being heard are no longer in it: their echo
  cuts the reply in smart mode, or is answered.

- `client_knob`: "audio rides a PeerConnection through the Go/Pion gateway (Opus @
  48 kHz); the WS carries JSON only." (app.js:3-4). `start()` reads the transport
  setting when it begins and the session message reads it again. The knob's handler
  stops a session that is running, but while `start()` waits for its worklets none
  is running yet; turned to webrtc then, it gives the session both kinds of audio:
  the capture node goes on posting to the websocket beside a connected
  PeerConnection, which has no context to play the reply (`Crossed`).

The models also show behaviours that no text of the repository speaks of:

- The close event of a stopped session's websocket stops the session that was
  started since (app.js:156, a hazard without a property).
- A fallback of a stopped session can wake up in the next one and attach a second
  microphone node there (`Stale`, app.js:171-174, an exception of `OneMicPath`).
- A worklet that cannot be loaded leaves `start()` with its button disabled and
  the microphone on (`starting = "broken"`, app.js:138).

## 8. Not modelled

- The resamplers: `Gateway` takes a block in and gives the same block out. Their
  arithmetic is floating point; their index arithmetic is step 6 of the plan. That
  the interpolator remembers some 15 samples across a clear is left out with it.
- In `Session`, a gateway socket that is closing and drops the reply's audio.
- The characters of the echo filter: words are atoms in `EchoFilter`, so the
  substring test never accepts a part of a word (server.js:170).
- Opus, RTP, jitter buffers and the sample builder.
- Deepgram, the LLM and Fish beyond what their callbacks can do to a session.
- What the page shows (bubbles, orb, metrics, status), the volume while ducked,
  and the knobs other than the transport.
- Latency bookkeeping (`lastSpeechWall`, metrics), HTTP and static files, markup,
  configuration, and the smoke and load tests, which are clients of a running
  system.
- The composition of all modules in one: `Session`, `Gateway`, `Client` and
  `Echo` meet in `gatewayWs`, in the audio messages and in the transcripts, and
  each abstracts the others' side of these.
