------------------------------ MODULE Gateway ------------------------------
(***************************************************************************)
(* One call of the WebRTC gateway, gateway/session.go, from newSession on: *)
(* the end of startCall, the goroutines readEngine, pace and               *)
(* handleInboundTrack, the connection-state callbacks and close().         *)
(*                                                                         *)
(* An action is what a goroutine does between two points where others can  *)
(* run. s.mu is a variable because writeEngine holds it while it writes to *)
(* the socket; every other locked section cannot block and is one action   *)
(* that needs the mutex free.                                              *)
(*                                                                         *)
(* Audio is a sequence of sample numbers, so that order, loss and          *)
(* duplication can be told. A reply sample is one of the engine's 24 kHz   *)
(* samples (two after up.Process) and a mic sample one of the 16 kHz ones  *)
(* the decimator yields; Frame and MicFrame are 20 ms in those units.      *)
(***************************************************************************)
EXTENDS Naturals, Sequences

CONSTANTS
  Frame,       \* frame48: samples in one outbound frame
  MicFrame,    \* frame16: samples in one chunk toward the engine
  MaxSamples,  \* bound: samples of reply audio the engine sends
  MaxClears,   \* bound: "clear" messages the engine sends
  MaxMic       \* bound: samples the microphone yields

ASSUME GatewayAssumption ==
  /\ Frame \in Nat \ {0}
  /\ MicFrame \in Nat \ {0}
  /\ MaxSamples \in Nat
  /\ MaxClears \in Nat
  /\ MaxMic \in Nat

VARIABLES
  setup,       \* startCall: "negotiating", "failing", "up" or "failed"
  engine,      \* the engine socket: "open", "lost" (by the peer), "closed"
  peer,        \* the PeerConnection: "up" until it fails, "lost", "closed"
  fromEngine,  \* messages of the engine not yet read
  reader,      \* readEngine: "off", "reading", "appending", "closing", "done"
  block,       \* the samples readEngine has decoded and not yet appended
  outPCM,      \* samples waiting for the pacer
  pacer,       \* pace: "off", "waiting", "sending", "done"
  inHand,      \* the frame taken out of outPCM and not yet written
  heard,       \* frames written to the track, in order
  mic,         \* handleInboundTrack: "off", "reading", "writing", "done"
  micPCM,      \* its toEngine buffer
  toEngine,    \* chunks written to the engine socket, in order
  held,        \* s.mu is held by writeEngine
  callback,    \* a connection-state callback is inside close()
  once,        \* closeOnce: "fresh", "marked", "engineClosed", "done"
  closed,      \* s.closed
  sent,        \* reply samples the engine has sent so far
  clears,      \* clears the engine has sent so far
  cuts,        \* history variable: one record per clear processed
  micMade      \* mic samples decoded so far

setupSide == <<setup, peer, callback, once, closed>>
inbound   == <<mic, micPCM, toEngine, held, micMade>>
reading   == <<fromEngine, reader, block, cuts>>
pacing    == <<pacer, inHand, heard>>
supply    == <<sent, clears>>
vars == <<setupSide, engine, inbound, reading, outPCM, pacing, supply>>

Samples    == 1..MaxSamples
MicSamples == 1..MaxMic
Message ==
  {m \in [type: {"audio", "clear"}, from: 0..MaxSamples, to: 0..MaxSamples] :
     m.type = "audio" => m.from # 0}

TypeOK ==
  /\ setup \in {"negotiating", "failing", "up", "failed"}
  /\ engine \in {"open", "lost", "closed"}
  /\ peer \in {"up", "lost", "closed"}
  /\ fromEngine \in Seq(Message)
  /\ reader \in {"off", "reading", "appending", "closing", "done"}
  /\ block \in Seq(Samples)
  /\ outPCM \in Seq(Samples)
  /\ pacer \in {"off", "waiting", "sending", "done"}
  /\ inHand \in Seq(Samples)
  /\ heard \in Seq(Seq(Samples))
  /\ mic \in {"off", "reading", "writing", "done"}
  /\ micPCM \in Seq(MicSamples)
  /\ toEngine \in Seq(Seq(MicSamples))
  /\ held \in BOOLEAN
  /\ callback \in BOOLEAN
  /\ once \in {"fresh", "marked", "engineClosed", "done"}
  /\ closed \in BOOLEAN
  /\ sent \in 0..MaxSamples
  /\ clears \in 0..MaxClears
  /\ cuts \in Seq([at: Nat, before: Nat])
  /\ micMade \in 0..MaxMic

(***************************************************************************)
(* Small faults, one plausible slip of the code each; no action uses them. *)
(***************************************************************************)
FrameNotConsumed(queue)   == queue
PartialFrameKept(queue)   == SubSeq(queue, Frame * (Len(queue) \div Frame) + 1, Len(queue))
PutInFront(queue, samples) == samples \o queue
MoreThanAFrame(queue)     == Len(queue) > Frame
RunShifted(from, to)      == [k \in 1..(to + 1 - from) |-> from + k]
ClosedIgnored             == TRUE
ReaderJustReturns         == "done"
ChunkNotConsumed(buffer)  == buffer

-----------------------------------------------------------------------------
(***************************************************************************)
(* The pieces of the goroutines.                                           *)
(***************************************************************************)

\* The consecutive sample numbers from..to. up.Process is taken to pass samples on as
\* they are; what is left out is that it blends each with the 15 before it, which it
\* remembers across a clear.
Run(from, to) == [k \in 1..(to + 1 - from) |-> from + k - 1]

\* s.mu.Lock() does not have to wait.
MutexFree == ~held

\* len(s.outPCM) >= frame48
HasFrame(queue) == Len(queue) >= Frame

\* s.outPCM = s.outPCM[frame48:]
AfterFrame(queue) == SubSeq(queue, Frame + 1, Len(queue))

\* s.outPCM = append(s.outPCM, pcm48...)
Appended(queue, samples) == queue \o samples

\* s.outPCM = s.outPCM[:0]
Cleared(queue) == << >>

\* toEngine = toEngine[frame16:]
AfterChunk(buffer) == SubSeq(buffer, MicFrame + 1, Len(buffer))

\* if s.closed, in writeEngine: is the chunk still written?
MayWrite == ~closed

\* if s.closed, in pace: does the pacer end at this tick?
PacerEnds == closed

\* What readEngine does when ReadMessage fails: it calls s.close().
ReaderAfterError == "closing"

\* Some goroutine has called close() and has not returned from it.
Closing == reader = "closing" \/ setup = "failing" \/ callback

-----------------------------------------------------------------------------
(***************************************************************************)
(* startCall, from newSession on. The engine is already attached and may   *)
(* already be sending.                                                     *)
(***************************************************************************)

\* SetRemoteDescription, CreateAnswer or SetLocalDescription fails.
NegotiationFails ==
  /\ setup = "negotiating"
  /\ setup' = "failing"
  /\ UNCHANGED <<peer, callback, once, closed, engine, inbound, reading, outPCM, pacing, supply>>

\* The answer is ready, candidates gathered or 3 s gone: start the two
\* goroutines. pace returns at once if there is no Opus encoder.
Negotiated ==
  /\ setup = "negotiating"
  /\ setup' = "up"
  /\ reader' = "reading"
  /\ pacer' \in {"waiting", "done"}
  /\ UNCHANGED <<peer, callback, once, closed, engine, inbound, fromEngine, block, cuts,
                 outPCM, inHand, heard, supply>>

\* OnTrack: the mic track is up; the goroutine ends if there is no decoder.
TrackUp ==
  /\ setup = "up"
  /\ peer = "up"
  /\ mic = "off"
  /\ mic' \in {"reading", "done"}
  /\ UNCHANGED <<setupSide, engine, micPCM, toEngine, held, micMade, reading, outPCM, pacing, supply>>

-----------------------------------------------------------------------------
(***************************************************************************)
(* close(). Every caller waits in closeOnce.Do until the first is through. *)
(***************************************************************************)

MarkClosed ==
  /\ Closing
  /\ once = "fresh"
  /\ MutexFree
  /\ once' = "marked"
  /\ closed' = TRUE
  /\ UNCHANGED <<setup, peer, callback, engine, inbound, reading, outPCM, pacing, supply>>

CloseEngine ==
  /\ once = "marked"
  /\ once' = "engineClosed"
  /\ engine' = "closed"
  /\ UNCHANGED <<setup, peer, callback, closed, inbound, reading, outPCM, pacing, supply>>

\* The PeerConnection reports its own closing to the callback, which calls
\* close() again.
ClosePeer ==
  /\ once = "engineClosed"
  /\ once' = "done"
  /\ peer' = "closed"
  /\ callback' = TRUE
  /\ UNCHANGED <<setup, closed, engine, inbound, reading, outPCM, pacing, supply>>

CloseReturns ==
  /\ once = "done"
  /\ \/ /\ reader = "closing"
        /\ reader' = "done"
        /\ UNCHANGED <<setup, callback>>
     \/ /\ setup = "failing"
        /\ setup' = "failed"
        /\ UNCHANGED <<reader, callback>>
     \/ /\ callback
        /\ callback' = FALSE
        /\ UNCHANGED <<setup, reader>>
  /\ UNCHANGED <<peer, once, closed, engine, inbound, fromEngine, block, cuts,
                 outPCM, pacing, supply>>

\* OnConnectionStateChange: failed, disconnected or closed.
PeerLost ==
  /\ peer = "up"
  /\ peer' = "lost"
  /\ callback' = TRUE
  /\ UNCHANGED <<setup, once, closed, engine, inbound, reading, outPCM, pacing, supply>>

\* The engine's side of the socket goes away.
EngineLost ==
  /\ engine = "open"
  /\ engine' = "lost"
  /\ UNCHANGED <<setupSide, inbound, reading, outPCM, pacing, supply>>

-----------------------------------------------------------------------------
(***************************************************************************)
(* The engine, and readEngine.                                             *)
(***************************************************************************)

\* sendAudio of the engine: a block of reply PCM.
EngineSendsAudio ==
  /\ engine = "open"
  /\ \E to \in (sent + 1)..MaxSamples :
       /\ sent' = to
       /\ fromEngine' = Append(fromEngine, [type |-> "audio", from |-> sent + 1, to |-> to])
  /\ UNCHANGED <<setupSide, engine, inbound, reader, block, cuts, outPCM, pacing, clears>>

\* sendClear of the engine. The record says which samples precede it.
EngineSendsClear ==
  /\ engine = "open"
  /\ clears < MaxClears
  /\ clears' = clears + 1
  /\ fromEngine' = Append(fromEngine, [type |-> "clear", from |-> sent, to |-> sent])
  /\ UNCHANGED <<setupSide, engine, inbound, reader, block, cuts, outPCM, pacing, sent>>

\* A binary frame: decoded and interpolated (see Run) before s.mu is taken.
ReadAudio ==
  /\ reader = "reading"
  /\ engine # "closed"
  /\ fromEngine # << >>
  /\ Head(fromEngine).type = "audio"
  /\ block' = Run(Head(fromEngine).from, Head(fromEngine).to)
  /\ fromEngine' = Tail(fromEngine)
  /\ reader' = "appending"
  /\ UNCHANGED <<setupSide, engine, inbound, cuts, outPCM, pacing, supply>>

AppendAudio ==
  /\ reader = "appending"
  /\ MutexFree
  /\ outPCM' = Appended(outPCM, block)
  /\ block' = << >>
  /\ reader' = "reading"
  /\ UNCHANGED <<setupSide, engine, inbound, fromEngine, cuts, pacing, supply>>

\* A text frame of type "clear".
ReadClear ==
  /\ reader = "reading"
  /\ engine # "closed"
  /\ fromEngine # << >>
  /\ Head(fromEngine).type = "clear"
  /\ MutexFree
  /\ outPCM' = Cleared(outPCM)
  /\ cuts' = Append(cuts, [at |-> Len(heard), before |-> Head(fromEngine).from])
  /\ fromEngine' = Tail(fromEngine)
  /\ UNCHANGED <<setupSide, engine, inbound, reader, block, pacing, supply>>

\* ReadMessage fails: at once if the socket is closed on this side, and at
\* the latest after the last message if it was lost.
ReadFails ==
  /\ reader = "reading"
  /\ engine # "open"
  /\ reader' = ReaderAfterError
  /\ fromEngine' = << >>
  /\ UNCHANGED <<setupSide, engine, inbound, block, cuts, outPCM, pacing, supply>>

-----------------------------------------------------------------------------
(***************************************************************************)
(* pace: the locked half of a tick takes a frame out, the other writes it. *)
(***************************************************************************)

TickEnds ==
  /\ pacer = "waiting"
  /\ MutexFree
  /\ PacerEnds
  /\ pacer' = "done"
  /\ UNCHANGED <<setupSide, engine, inbound, reading, outPCM, inHand, heard, supply>>

TickTakes ==
  /\ pacer = "waiting"
  /\ MutexFree
  /\ ~PacerEnds
  /\ HasFrame(outPCM)
  /\ inHand' = SubSeq(outPCM, 1, Frame)
  /\ outPCM' = AfterFrame(outPCM)
  /\ pacer' = "sending"
  /\ UNCHANGED <<setupSide, engine, inbound, reading, heard, supply>>

FrameWritten ==
  /\ pacer = "sending"
  /\ heard' = Append(heard, inHand)
  /\ inHand' = << >>
  /\ pacer' = "waiting"
  /\ UNCHANGED <<setupSide, engine, inbound, reading, outPCM, supply>>

\* The frame is lost: Encode failed, or WriteSample did and ends the pacer.
FrameFails ==
  /\ pacer = "sending"
  /\ inHand' = << >>
  /\ pacer' \in {"waiting", "done"}
  /\ UNCHANGED <<setupSide, engine, inbound, reading, outPCM, heard, supply>>

-----------------------------------------------------------------------------
(***************************************************************************)
(* handleInboundTrack and writeEngine.                                     *)
(***************************************************************************)

\* Packets decode to some samples; the ones of a packet that does not
\* decode, or that the sample builder gives up on, are skipped.
MicDecodes ==
  /\ mic = "reading"
  /\ peer = "up"
  /\ Len(micPCM) < MicFrame
  /\ \E from \in (micMade + 1)..MaxMic : \E to \in from..MaxMic :
       /\ micPCM' = micPCM \o Run(from, to)
       /\ micMade' = to
  /\ UNCHANGED <<setupSide, engine, mic, toEngine, held, reading, outPCM, pacing, supply>>

\* writeEngine takes s.mu, and keeps it while WriteMessage runs.
MicLocks ==
  /\ mic = "reading"
  /\ Len(micPCM) >= MicFrame
  /\ MutexFree
  /\ MayWrite
  /\ held' = TRUE
  /\ mic' = "writing"
  /\ UNCHANGED <<setupSide, engine, micPCM, toEngine, micMade, reading, outPCM, pacing, supply>>

MicRefused ==
  /\ mic = "reading"
  /\ Len(micPCM) >= MicFrame
  /\ MutexFree
  /\ ~MayWrite
  /\ mic' = "done"
  /\ UNCHANGED <<setupSide, engine, micPCM, toEngine, held, micMade, reading, outPCM, pacing, supply>>

\* WriteMessage returns; on a socket that is gone it may fail, and then
\* ends the goroutine and nothing else.
MicWritten ==
  /\ mic = "writing"
  /\ held' = FALSE
  /\ \/ /\ engine # "closed"
        /\ mic' = "reading"
        /\ toEngine' = Append(toEngine, SubSeq(micPCM, 1, MicFrame))
        /\ micPCM' = AfterChunk(micPCM)
     \/ /\ engine # "open"
        /\ mic' = "done"
        /\ UNCHANGED <<toEngine, micPCM>>
  /\ UNCHANGED <<setupSide, engine, micMade, reading, outPCM, pacing, supply>>

\* ReadRTP fails: the track is closed.
MicEnds ==
  /\ mic = "reading"
  /\ Len(micPCM) < MicFrame
  /\ peer # "up"
  /\ mic' = "done"
  /\ UNCHANGED <<setupSide, engine, micPCM, toEngine, held, micMade, reading, outPCM, pacing, supply>>

-----------------------------------------------------------------------------
Init ==
  /\ setup = "negotiating"
  /\ engine = "open"
  /\ peer = "up"
  /\ fromEngine = << >>
  /\ reader = "off"
  /\ block = << >>
  /\ outPCM = << >>
  /\ pacer = "off"
  /\ inHand = << >>
  /\ heard = << >>
  /\ mic = "off"
  /\ micPCM = << >>
  /\ toEngine = << >>
  /\ held = FALSE
  /\ callback = FALSE
  /\ once = "fresh"
  /\ closed = FALSE
  /\ sent = 0
  /\ clears = 0
  /\ cuts = << >>
  /\ micMade = 0

Setup  == NegotiationFails \/ Negotiated \/ TrackUp
Close  == MarkClosed \/ CloseEngine \/ ClosePeer \/ CloseReturns
Losses == PeerLost \/ EngineLost
Engine == EngineSendsAudio \/ EngineSendsClear
Reader == ReadAudio \/ AppendAudio \/ ReadClear \/ ReadFails
Pacer  == TickEnds \/ TickTakes \/ FrameWritten \/ FrameFails
Mic    == MicDecodes \/ MicLocks \/ MicRefused \/ MicWritten \/ MicEnds

Next == Setup \/ Close \/ Losses \/ Engine \/ Reader \/ Pacer \/ Mic

Spec == Init /\ [][Next]_vars

(***************************************************************************)
(* The Go scheduler runs every goroutine that can run, the ticker ticks,   *)
(* and WriteMessage returns (the engine reads its socket, or the socket    *)
(* dies). Nothing is assumed of the engine, of the network or of startCall.*)
(***************************************************************************)
Fairness ==
  /\ WF_vars(Reader)
  /\ WF_vars(TickEnds \/ TickTakes)
  /\ WF_vars(FrameWritten \/ FrameFails)
  /\ WF_vars(MarkClosed)
  /\ WF_vars(CloseEngine)
  /\ WF_vars(ClosePeer)
  /\ WF_vars(CloseReturns)
  /\ WF_vars(MicLocks \/ MicRefused \/ MicEnds)
  /\ WF_vars(MicWritten)

FairSpec == Spec /\ Fairness

-----------------------------------------------------------------------------
(***************************************************************************)
(* Properties.                                                             *)
(***************************************************************************)

\* What the browser is played is the reply in its order: every frame is 20 ms
\* of consecutive samples, and no frame comes before an earlier one or again,
\* whatever the reader, the pacer and clears do between each other's steps.
ReplyInOrder ==
  /\ \A f \in DOMAIN heard : heard[f] = Run(heard[f][1], heard[f][1] + Frame - 1)
  /\ \A f, g \in DOMAIN heard : f < g => heard[f][Frame] < heard[g][1]

\* A barge-in is sharp: of what was sent before a clear, the browser gets at
\* most the one frame that pace had already taken out when readEngine emptied
\* the queue, and no frame joins samples from both sides of the clear. (Up to the
\* memory of the interpolator: some 15 old samples are blended into the first frame
\* after the clear.)
CutIsSharp ==
  \A c \in DOMAIN cuts : \A f \in DOMAIN heard :
    /\ f > cuts[c].at + 1 => heard[f][1] > cuts[c].before
    /\ ~(heard[f][1] <= cuts[c].before /\ cuts[c].before < heard[f][Frame])

\* The engine is sent the microphone in whole 20 ms chunks, in order and
\* nothing twice.
MicInOrder ==
  /\ \A c \in DOMAIN toEngine : Len(toEngine[c]) = MicFrame
  /\ \A c, d \in DOMAIN toEngine : \A j, k \in 1..MicFrame :
       (c < d \/ (c = d /\ j < k)) => toEngine[c][j] < toEngine[d][k]

\* Once close() has set s.closed, nothing more is written to the engine and
\* the pacer takes no further frame; the write that could have overlapped is
\* what writeEngine holds the mutex for.
QuietAfterClose ==
  [][closed => /\ toEngine' = toEngine
               /\ pacer' = "sending" => pacer = "sending"]_vars

\* Everything a call has is released: sockets closed, goroutines over.
Released ==
  /\ engine = "closed" /\ peer = "closed"
  /\ reader \in {"off", "done"} /\ pacer \in {"off", "done"} /\ mic \in {"off", "done"}

\* Either end of the bridge going away takes down the other, and so does a
\* failed negotiation: no PeerConnection, socket or goroutine outlives a call.
EitherEndEndsTheCall ==
  (setup = "failing" \/ (setup = "up" /\ (peer # "up" \/ engine # "open"))) ~> Released

\* The pacer keeps up: 20 ms of queued audio do not stay queued, unless the
\* pacer has ended with the call or with the track.
FullFramesGoOut ==
  Len(outPCM) >= Frame ~> (Len(outPCM) < Frame \/ pacer = "done")

\* The last sample sent before message m.
Start(m) == IF m.type = "audio" THEN m.from - 1 ELSE m.from

\* The last sample readEngine has read, while it reads.
ReadUpTo == IF fromEngine = << >> THEN sent ELSE Start(fromEngine[1])
StillReads == reader \in {"off", "reading", "appending"}

MessagesInOrder ==
  /\ \A k \in DOMAIN fromEngine :
       IF fromEngine[k].type = "audio" THEN fromEngine[k].from <= fromEngine[k].to
                                       ELSE fromEngine[k].from = fromEngine[k].to
  /\ \A k \in 1..(Len(fromEngine) - 1) : Start(fromEngine[k + 1]) = fromEngine[k].to
  /\ fromEngine # << >> => fromEngine[Len(fromEngine)].to = sent

\* Consecutive samples; vacuous when there are none.
Gapless(samples) == \A k \in DOMAIN samples : samples[k] = samples[1] + k - 1

\* All that has left the queue is before sample n.
LeftBefore(n) ==
  /\ \A f \in DOMAIN heard : heard[f][Frame] < n
  /\ pacer = "sending" => inHand[Frame] < n

QueueInOrder ==
  /\ setup = "negotiating" => reader = "off"
  /\ \A f \in DOMAIN heard : Len(heard[f]) = Frame
  /\ StillReads => LeftBefore(ReadUpTo + 1)
  /\ IF reader = "appending"
       THEN block # << >> /\ Gapless(block) /\ block[Len(block)] = ReadUpTo /\ LeftBefore(block[1])
       ELSE block = << >>
  /\ outPCM # << >> =>
       /\ Gapless(outPCM)
       /\ LeftBefore(outPCM[1])
       /\ StillReads =>
            outPCM[Len(outPCM)] = IF reader = "appending" THEN block[1] - 1 ELSE ReadUpTo
  /\ pacer = "sending" =>
       /\ Len(inHand) = Frame /\ Gapless(inHand)
       /\ \A f \in DOMAIN heard : heard[f][Frame] < inHand[1]

Divides(cut) ==
  /\ cut.at <= Len(heard)
  /\ StillReads => cut.before <= ReadUpTo
  /\ block # << >> => cut.before < block[1]
  /\ outPCM # << >> => cut.before < outPCM[1]
  /\ pacer = "sending" =>
       \/ cut.before < inHand[1]
       \/ inHand[Frame] <= cut.before /\ Len(heard) = cut.at

\* s.mu is held exactly while writeEngine writes a chunk, and close() waits
\* for it before it marks the session closed.
MutexKept ==
  /\ held <=> mic = "writing"
  /\ mic = "writing" => Len(micPCM) >= MicFrame /\ ~closed

\* What ReplyInOrder and CutIsSharp rest on: at any moment the frames heard,
\* the frame in hand, the queue, the block being appended and the messages
\* still in the socket are consecutive pieces of the reply, and every clear
\* divides them the same way.
PipelineInOrder ==
  /\ MutexKept
  /\ MessagesInOrder
  /\ QueueInOrder
  /\ \A c \in DOMAIN cuts : Divides(cuts[c])

\* "pace encodes and sends one 20 ms Opus frame per tick while audio is
\* queued": what is queued goes out. It does not: the last samples of a reply
\* that do not fill a frame stay until the next reply or the next clear.
QueuedAudioIsSent ==
  outPCM # << >> ~> (outPCM = << >> \/ pacer = "done")
=============================================================================
