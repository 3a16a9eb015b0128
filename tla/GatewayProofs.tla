--------------------------- MODULE GatewayProofs ---------------------------
(***************************************************************************)
(* What Gateway keeps for every frame size, every length of reply and any  *)
(* number of clears.                                                       *)
(***************************************************************************)
EXTENDS Gateway, TLAPS

(***************************************************************************)
(* Sequences.                                                              *)
(***************************************************************************)
LEMMA RunIsSequence ==
  ASSUME NEW n \in Nat, NEW from \in 1..n, NEW to \in from..n
  PROVE  /\ Run(from, to) \in Seq(1..n)
         /\ Len(Run(from, to)) = to + 1 - from
         /\ \A k \in 1..(to + 1 - from) : Run(from, to)[k] = from + k - 1
BY DEF Run

LEMMA AppendIs ==
  ASSUME NEW S, NEW s \in Seq(S), NEW e \in S
  PROVE  /\ Append(s, e) \in Seq(S)
         /\ Len(Append(s, e)) = Len(s) + 1
         /\ Append(s, e)[Len(s) + 1] = e
         /\ \A k \in 1..Len(s) : Append(s, e)[k] = s[k]
OBVIOUS

LEMMA TailIs ==
  ASSUME NEW S, NEW s \in Seq(S), s # << >>
  PROVE  /\ Tail(s) \in Seq(S)
         /\ Len(Tail(s)) = Len(s) - 1
         /\ \A k \in 1..(Len(s) - 1) : Tail(s)[k] = s[k + 1]
         /\ Head(s) = s[1] /\ s[1] \in S
         /\ Len(s) \in Nat \ {0}
OBVIOUS

LEMMA PrefixIs ==
  ASSUME NEW S, NEW s \in Seq(S), NEW n \in Nat \ {0}, Len(s) >= n
  PROVE  /\ SubSeq(s, 1, n) \in Seq(S)
         /\ Len(SubSeq(s, 1, n)) = n
         /\ \A k \in 1..n : SubSeq(s, 1, n)[k] = s[k]
OBVIOUS

LEMMA SuffixIs ==
  ASSUME NEW S, NEW s \in Seq(S), NEW n \in Nat \ {0}, Len(s) >= n
  PROVE  /\ SubSeq(s, n + 1, Len(s)) \in Seq(S)
         /\ Len(SubSeq(s, n + 1, Len(s))) = Len(s) - n
         /\ \A k \in 1..(Len(s) - n) : SubSeq(s, n + 1, Len(s))[k] = s[n + k]
OBVIOUS

LEMMA ConcatIs ==
  ASSUME NEW S, NEW s \in Seq(S), NEW t \in Seq(S)
  PROVE  /\ s \o t \in Seq(S)
         /\ Len(s \o t) = Len(s) + Len(t)
         /\ \A k \in 1..Len(s) : (s \o t)[k] = s[k]
         /\ \A k \in 1..Len(t) : (s \o t)[Len(s) + k] = t[k]
OBVIOUS

LEMMA OneOrMore ==
  ASSUME NEW n \in Nat \ {0}
  PROVE  n = 1 \/ n > 1
OBVIOUS

LEMMA NextAfter ==
  ASSUME NEW first \in Nat, NEW n \in Nat, NEW next \in Nat, first + n - 1 = next - 1
  PROVE  /\ next = first + n
         /\ \A k \in Nat : next + (k - n) - 1 = first + k - 1
OBVIOUS

LEMMA MessageIs ==
  ASSUME NEW m \in Message
  PROVE  /\ m.type \in {"audio", "clear"} /\ m.from \in 0..MaxSamples /\ m.to \in 0..MaxSamples
         /\ m.type = "audio" => m.from \in Samples
         /\ Start(m) \in Nat
BY GatewayAssumption DEF Message, Samples, Start

(***************************************************************************)
(* The messages in the socket continue each other.                         *)
(***************************************************************************)
LEMMA MessagesStayInOrder ==
  ASSUME TypeOK, MessagesInOrder, [Next]_vars
  PROVE  MessagesInOrder'
<1>0. /\ fromEngine \in Seq(Message) /\ sent \in 0..MaxSamples
      /\ \A k \in 1..Len(fromEngine) : fromEngine[k] \in Message
  BY DEF TypeOK
<1>1. CASE UNCHANGED <<fromEngine, sent>>
  BY <1>1 DEF MessagesInOrder, Start
<1>2. ASSUME NEW m \in Message, fromEngine' = Append(fromEngine, m), Start(m) = sent, m.to = sent',
             IF m.type = "audio" THEN m.from <= m.to ELSE m.from = m.to
      PROVE  MessagesInOrder'
  <2> DEFINE n == Len(fromEngine)
  <2>1. /\ Len(fromEngine') = n + 1 /\ fromEngine'[n + 1] = m
        /\ \A k \in 1..n : fromEngine'[k] = fromEngine[k]
    BY <1>0, <1>2, AppendIs
  <2>2. \A k \in 1..n : Start(fromEngine'[k + 1]) = fromEngine'[k].to
    BY <1>0, <1>2, <2>1 DEF MessagesInOrder, Start
  <2> QED
    BY <1>0, <1>2, <2>1, <2>2 DEF MessagesInOrder
<1>3. CASE fromEngine # << >> /\ fromEngine' = Tail(fromEngine) /\ sent' = sent
  BY <1>0, <1>3, TailIs DEF MessagesInOrder, Start
<1>4. CASE EngineSendsAudio
  <2>1. PICK to \in (sent + 1)..MaxSamples :
          /\ sent' = to
          /\ fromEngine' = Append(fromEngine, [type |-> "audio", from |-> sent + 1, to |-> to])
    BY <1>4 DEF EngineSendsAudio
  <2> DEFINE m == [type |-> "audio", from |-> sent + 1, to |-> to]
  <2>2. m \in Message /\ Start(m) = sent /\ m.from <= m.to /\ m.type = "audio"
    BY <1>0, <2>1, GatewayAssumption DEF Message, Start
  <2> QED
    BY <1>2, <2>1, <2>2
<1>5. CASE EngineSendsClear
  <2> DEFINE m == [type |-> "clear", from |-> sent, to |-> sent]
  <2>1. fromEngine' = Append(fromEngine, m) /\ sent' = sent
    BY <1>5 DEF EngineSendsClear, supply
  <2>2. m \in Message /\ Start(m) = sent /\ m.from = m.to /\ m.type # "audio"
    BY <1>0, GatewayAssumption DEF Message, Start
  <2> QED
    BY <1>2, <2>1, <2>2
<1>6. CASE ReadAudio \/ ReadClear
  BY <1>3, <1>6 DEF ReadAudio, ReadClear, supply
<1>7. CASE ReadFails
  BY <1>7 DEF ReadFails, MessagesInOrder, supply
<1> QED
  BY <1>1, <1>4, <1>5, <1>6, <1>7
  DEF Next, Setup, Close, Losses, Engine, Reader, Pacer, Mic, vars, reading, supply, pacing,
      setupSide, inbound,
      NegotiationFails, Negotiated, TrackUp, MarkClosed, CloseEngine, ClosePeer, CloseReturns,
      PeerLost, EngineLost, AppendAudio, TickEnds, TickTakes, FrameWritten, FrameFails,
      MicDecodes, MicLocks, MicRefused, MicWritten, MicEnds

(***************************************************************************)
(* The mutex is held exactly while a chunk is being written.               *)
(***************************************************************************)
LEMMA MutexStaysKept ==
  ASSUME MutexKept, [Next]_vars
  PROVE  MutexKept'
<1>1. CASE MarkClosed
  BY <1>1 DEF MarkClosed, MutexFree, MutexKept, inbound
<1>2. CASE Mic
  BY <1>2 DEF Mic, MicDecodes, MicLocks, MicRefused, MicWritten, MicEnds, MayWrite, MutexKept,
              setupSide
<1>3. CASE TrackUp
  BY <1>3 DEF TrackUp, MutexKept, setupSide
<1>4. CASE UNCHANGED <<inbound, closed>>
  BY <1>4 DEF MutexKept, inbound
<1> QED
  BY <1>1, <1>2, <1>3, <1>4
  DEF Next, Setup, Close, Losses, Engine, Reader, Pacer, vars, setupSide,
      NegotiationFails, Negotiated, CloseEngine, ClosePeer, CloseReturns, PeerLost, EngineLost,
      EngineSendsAudio, EngineSendsClear, ReadAudio, AppendAudio, ReadClear, ReadFails,
      TickEnds, TickTakes, FrameWritten, FrameFails

(***************************************************************************)
(* Types.                                                                  *)
(***************************************************************************)
LEMMA TypeStep ==
  ASSUME TypeOK, MessagesInOrder, MutexKept, [Next]_vars
  PROVE  TypeOK'
<1>1. CASE EngineSendsAudio
  <2>1. PICK to \in (sent + 1)..MaxSamples :
          /\ sent' = to
          /\ fromEngine' = Append(fromEngine, [type |-> "audio", from |-> sent + 1, to |-> to])
    BY <1>1 DEF EngineSendsAudio
  <2>2. [type |-> "audio", from |-> sent + 1, to |-> to] \in Message /\ sent' \in 0..MaxSamples
    BY <2>1, GatewayAssumption DEF TypeOK, Message
  <2>3. fromEngine' \in Seq(Message)
    BY <2>1, <2>2, AppendIs DEF TypeOK
  <2> QED
    BY <1>1, <2>2, <2>3 DEF EngineSendsAudio, TypeOK, setupSide, inbound, pacing
<1>2. CASE EngineSendsClear
  <2>1. [type |-> "clear", from |-> sent, to |-> sent] \in Message /\ clears' \in 0..MaxClears
    BY <1>2, GatewayAssumption DEF EngineSendsClear, TypeOK, Message
  <2>2. fromEngine' \in Seq(Message)
    BY <1>2, <2>1, AppendIs DEF EngineSendsClear, TypeOK
  <2> QED
    BY <1>2, <2>1, <2>2 DEF EngineSendsClear, TypeOK, setupSide, inbound, pacing
<1>3. CASE ReadAudio
  <2>1. /\ fromEngine[1] \in Message /\ Head(fromEngine) = fromEngine[1]
        /\ fromEngine[1].type = "audio" /\ fromEngine' \in Seq(Message)
        /\ fromEngine[1].from <= fromEngine[1].to
    BY <1>3, TailIs DEF ReadAudio, TypeOK, MessagesInOrder
  <2>2. /\ fromEngine[1].from \in 1..MaxSamples
        /\ fromEngine[1].to \in fromEngine[1].from..MaxSamples
    BY <2>1, MessageIs, GatewayAssumption DEF Samples
  <2>3. block' \in Seq(Samples)
    BY <1>3, <2>1, <2>2, RunIsSequence, GatewayAssumption DEF ReadAudio, Samples
  <2> QED
    BY <1>3, <2>1, <2>3 DEF ReadAudio, TypeOK, setupSide, inbound, pacing, supply
<1>4. CASE AppendAudio
  BY <1>4, ConcatIs DEF AppendAudio, Appended, TypeOK, setupSide, inbound, pacing, supply
<1>5. CASE ReadClear
  <2>1. /\ fromEngine[1] \in Message /\ Head(fromEngine) = fromEngine[1] /\ fromEngine' \in Seq(Message)
    BY <1>5, TailIs DEF ReadClear, TypeOK
  <2>2. [at |-> Len(heard), before |-> Head(fromEngine).from] \in [at: Nat, before: Nat]
    BY <2>1, MessageIs DEF TypeOK
  <2>3. cuts' \in Seq([at: Nat, before: Nat])
    BY <1>5, <2>2, AppendIs DEF ReadClear, TypeOK
  <2> QED
    BY <1>5, <2>1, <2>3 DEF ReadClear, Cleared, TypeOK, setupSide, inbound, pacing, supply
<1>6. CASE ReadFails
  BY <1>6 DEF ReadFails, ReaderAfterError, TypeOK, setupSide, inbound, pacing, supply
<1>7. CASE TickEnds
  BY <1>7 DEF TickEnds, TypeOK, setupSide, inbound, reading, supply
<1>8. CASE TickTakes
  <2>1. inHand' \in Seq(Samples) /\ outPCM' \in Seq(Samples)
    BY <1>8, PrefixIs, SuffixIs, GatewayAssumption DEF TickTakes, HasFrame, AfterFrame, TypeOK
  <2> QED
    BY <1>8, <2>1 DEF TickTakes, TypeOK, setupSide, inbound, reading, supply
<1>9. CASE FrameWritten
  <2>1. heard' \in Seq(Seq(Samples))
    BY <1>9, AppendIs DEF FrameWritten, TypeOK
  <2> QED
    BY <1>9, <2>1 DEF FrameWritten, TypeOK, setupSide, inbound, reading, supply
<1>10. CASE FrameFails
  BY <1>10 DEF FrameFails, TypeOK, setupSide, inbound, reading, supply
<1>11. CASE MicDecodes
  <2>0. PICK from \in (micMade + 1)..MaxMic :
          \E to \in from..MaxMic : micPCM' = micPCM \o Run(from, to) /\ micMade' = to
    BY <1>11 DEF MicDecodes
  <2>1. PICK to \in from..MaxMic : micPCM' = micPCM \o Run(from, to) /\ micMade' = to
    BY <2>0
  <2>2. from \in 1..MaxMic /\ to \in from..MaxMic /\ micMade' \in 0..MaxMic
    BY <2>0, <2>1, GatewayAssumption DEF TypeOK
  <2>3. micPCM' \in Seq(MicSamples)
    BY <2>1, <2>2, RunIsSequence, ConcatIs, GatewayAssumption DEF TypeOK, MicSamples
  <2> QED
    BY <1>11, <2>2, <2>3 DEF MicDecodes, TypeOK, setupSide, reading, pacing, supply
<1>12. CASE MicLocks \/ MicRefused \/ MicEnds
  <2>1. CASE MicLocks
    BY <2>1 DEF MicLocks, TypeOK, setupSide, reading, pacing, supply
  <2>2. CASE MicRefused
    BY <2>2 DEF MicRefused, TypeOK, setupSide, reading, pacing, supply
  <2>3. CASE MicEnds
    BY <2>3 DEF MicEnds, TypeOK, setupSide, reading, pacing, supply
  <2> QED
    BY <1>12, <2>1, <2>2, <2>3
<1>13. CASE MicWritten
  <2>0. mic' \in {"off", "reading", "writing", "done"} /\ held' \in BOOLEAN
    BY <1>13 DEF MicWritten
  <2>1. UNCHANGED <<setupSide, engine, micMade, reading, outPCM, pacing, supply>>
    BY <1>13 DEF MicWritten
  <2>2. micPCM' \in Seq(MicSamples) /\ toEngine' \in Seq(Seq(MicSamples))
    <3>1. CASE UNCHANGED <<toEngine, micPCM>>
      BY <3>1 DEF TypeOK
    <3>2. CASE /\ toEngine' = Append(toEngine, SubSeq(micPCM, 1, MicFrame))
               /\ micPCM' = AfterChunk(micPCM)
      <4>1. Len(micPCM) >= MicFrame /\ micPCM \in Seq(MicSamples)
        BY <1>13 DEF MicWritten, MutexKept, TypeOK
      <4>2. SubSeq(micPCM, 1, MicFrame) \in Seq(MicSamples) /\ micPCM' \in Seq(MicSamples)
        BY <3>2, <4>1, PrefixIs, SuffixIs, GatewayAssumption DEF AfterChunk
      <4>3. toEngine' \in Seq(Seq(MicSamples))
        BY <3>2, <4>2, AppendIs DEF TypeOK
      <4> QED
        BY <4>2, <4>3
    <3> QED
      BY <1>13, <3>1, <3>2 DEF MicWritten
  <2> QED
    BY <2>0, <2>1, <2>2 DEF TypeOK, setupSide, reading, pacing, supply
<1>14. CASE Setup
  <2>1. CASE NegotiationFails
    BY <2>1 DEF NegotiationFails, TypeOK, inbound, reading, pacing, supply
  <2>2. CASE Negotiated
    BY <2>2 DEF Negotiated, TypeOK, inbound, supply
  <2>3. CASE TrackUp
    BY <2>3 DEF TrackUp, TypeOK, setupSide, reading, pacing, supply
  <2> QED
    BY <1>14, <2>1, <2>2, <2>3 DEF Setup
<1>15. CASE Close
  <2>1. CASE MarkClosed \/ CloseEngine \/ ClosePeer
    BY <2>1 DEF MarkClosed, CloseEngine, ClosePeer, TypeOK, inbound, reading, pacing, supply
  <2>2. CASE CloseReturns
    <3>1. setup' \in {"negotiating", "failing", "up", "failed"}
      BY <2>2 DEF CloseReturns, TypeOK
    <3>2. reader' \in {"off", "reading", "appending", "closing", "done"}
      BY <2>2 DEF CloseReturns, TypeOK
    <3>3. callback' \in BOOLEAN
      BY <2>2 DEF CloseReturns, TypeOK
    <3>4. UNCHANGED <<peer, once, closed, engine, inbound, fromEngine, block, cuts, outPCM,
                      pacing, supply>>
      BY <2>2 DEF CloseReturns
    <3> QED
      BY <3>1, <3>2, <3>3, <3>4 DEF TypeOK, inbound, pacing, supply
  <2> QED
    BY <1>15, <2>1, <2>2 DEF Close
<1>16. CASE Losses
  BY <1>16 DEF Losses, PeerLost, EngineLost, TypeOK, setupSide, inbound, reading, pacing, supply
<1>17. CASE UNCHANGED vars
  BY <1>17 DEF vars, TypeOK, setupSide, inbound, reading, pacing, supply
<1> QED
  BY <1>1, <1>2, <1>3, <1>4, <1>5, <1>6, <1>7, <1>8, <1>9, <1>10, <1>11, <1>12, <1>13, <1>14,
     <1>15, <1>16, <1>17
  DEF Next, Engine, Reader, Pacer, Mic

(***************************************************************************)
(* The pieces of the reply stay in order on their way through the queue.   *)
(***************************************************************************)

LEMMA SampleIs ==
  ASSUME NEW s \in Seq(Samples)
  PROVE  /\ \A k \in 1..Len(s) : s[k] \in Nat
         /\ s # << >> => Len(s) \in Nat \ {0} /\ s[1] \in Nat /\ s[Len(s)] \in Nat
BY GatewayAssumption DEF Samples

\* The types the pipeline is made of.
LEMMA PipelineTypes ==
  ASSUME TypeOK
  PROVE  /\ fromEngine \in Seq(Message) /\ sent \in Nat
         /\ block \in Seq(Samples) /\ outPCM \in Seq(Samples) /\ inHand \in Seq(Samples)
         /\ heard \in Seq(Seq(Samples)) /\ cuts \in Seq([at: Nat, before: Nat])
         /\ Frame \in Nat \ {0}
BY GatewayAssumption DEF TypeOK

\* Everything that is compared is a number.
LEMMA Numbers ==
  ASSUME TypeOK, QueueInOrder
  PROVE  /\ Frame \in Nat \ {0}
         /\ ReadUpTo \in Nat
         /\ \A f \in DOMAIN heard : heard[f][Frame] \in Nat
         /\ pacer = "sending" => inHand[Frame] \in Nat /\ inHand[1] \in Nat
         /\ outPCM # << >> => outPCM[1] \in Nat /\ outPCM[Len(outPCM)] \in Nat
         /\ block # << >> => block[1] \in Nat /\ block[Len(block)] \in Nat
<1>1. ReadUpTo \in Nat
  <2>1. CASE fromEngine = << >>
    BY <2>1, PipelineTypes DEF ReadUpTo
  <2>2. CASE fromEngine # << >>
    <3>1. fromEngine[1] \in Message
      BY <2>2, PipelineTypes, TailIs
    <3> QED
      BY <2>2, <3>1, MessageIs DEF ReadUpTo
  <2> QED
    BY <2>1, <2>2
<1>2. \A f \in DOMAIN heard : heard[f][Frame] \in Nat
  <2> SUFFICES ASSUME NEW f \in DOMAIN heard PROVE heard[f][Frame] \in Nat
    OBVIOUS
  <2>1. heard[f] \in Seq(Samples)
    BY PipelineTypes
  <2>2. Frame \in 1..Len(heard[f])
    BY PipelineTypes DEF QueueInOrder
  <2> QED
    BY <2>1, <2>2, SampleIs
<1>3. pacer = "sending" => inHand[Frame] \in Nat /\ inHand[1] \in Nat
  <2> SUFFICES ASSUME pacer = "sending" PROVE inHand[Frame] \in Nat /\ inHand[1] \in Nat
    OBVIOUS
  <2>1. Len(inHand) = Frame
    BY DEF QueueInOrder
  <2>2. Frame \in 1..Len(inHand) /\ 1 \in 1..Len(inHand)
    BY <2>1, PipelineTypes
  <2> QED
    BY <2>2, PipelineTypes, SampleIs
<1>4. /\ outPCM # << >> => outPCM[1] \in Nat /\ outPCM[Len(outPCM)] \in Nat
      /\ block # << >> => block[1] \in Nat /\ block[Len(block)] \in Nat
  BY PipelineTypes, SampleIs
<1> QED
  BY <1>1, <1>2, <1>3, <1>4, PipelineTypes

\* After the first message has been read, the bound is where it ended.
LEMMA ReadUpToAfterTail ==
  ASSUME fromEngine \in Seq(Message), MessagesInOrder, fromEngine # << >>,
         fromEngine' = Tail(fromEngine), sent' = sent
  PROVE  ReadUpTo' = fromEngine[1].to
<1>0. Len(fromEngine) \in Nat \ {0}
  OBVIOUS
<1>1. CASE Len(fromEngine) = 1
  <2>1. fromEngine' = << >>
    BY <1>1
  <2> QED
    BY <1>1, <2>1 DEF ReadUpTo, MessagesInOrder
<1>2. CASE Len(fromEngine) > 1
  <2>1. fromEngine' # << >> /\ fromEngine'[1] = fromEngine[2]
    BY <1>2, TailIs
  <2>2. Start(fromEngine[1 + 1]) = fromEngine[1].to
    BY <1>2 DEF MessagesInOrder
  <2> QED
    BY <2>1, <2>2 DEF ReadUpTo, Start
<1>3. Len(fromEngine) = 1 \/ Len(fromEngine) > 1
  BY <1>0, OneOrMore
<1> QED
  BY <1>1, <1>2, <1>3

LEMMA ReadUpToAfterAppend ==
  ASSUME fromEngine \in Seq(Message), NEW m \in Message, fromEngine' = Append(fromEngine, m),
         Start(m) = sent
  PROVE  ReadUpTo' = ReadUpTo
<1>1. fromEngine' # << >>
  BY AppendIs
<1>2. CASE fromEngine = << >>
  BY <1>1, <1>2, AppendIs DEF ReadUpTo, Start
<1>3. CASE fromEngine # << >>
  BY <1>1, <1>3, AppendIs DEF ReadUpTo, Start
<1> QED
  BY <1>2, <1>3

LEMMA ReadUpToStays ==
  ASSUME TypeOK, MessagesInOrder, EngineSendsAudio \/ EngineSendsClear \/ ReadClear
  PROVE  ReadUpTo' = ReadUpTo
<1>1. CASE EngineSendsAudio
  <2>1. PICK to \in (sent + 1)..MaxSamples :
          fromEngine' = Append(fromEngine, [type |-> "audio", from |-> sent + 1, to |-> to])
    BY <1>1 DEF EngineSendsAudio
  <2>2. /\ [type |-> "audio", from |-> sent + 1, to |-> to] \in Message
        /\ Start([type |-> "audio", from |-> sent + 1, to |-> to]) = sent
    BY GatewayAssumption DEF TypeOK, Message, Start
  <2> QED
    BY <2>1, <2>2, PipelineTypes, ReadUpToAfterAppend
<1>2. CASE EngineSendsClear
  <2>1. /\ [type |-> "clear", from |-> sent, to |-> sent] \in Message
        /\ Start([type |-> "clear", from |-> sent, to |-> sent]) = sent
    BY GatewayAssumption DEF TypeOK, Message, Start
  <2> QED
    BY <1>2, <2>1, PipelineTypes, ReadUpToAfterAppend DEF EngineSendsClear
<1>3. CASE ReadClear
  <2>1. /\ fromEngine # << >> /\ fromEngine' = Tail(fromEngine) /\ sent' = sent
        /\ Head(fromEngine).type = "clear"
    BY <1>3 DEF ReadClear, supply
  <2>2. Head(fromEngine) = fromEngine[1] /\ 1 \in DOMAIN fromEngine
    BY <2>1, PipelineTypes, TailIs
  <2>3. fromEngine[1].from = fromEngine[1].to /\ fromEngine[1].type # "audio"
    BY <2>1, <2>2 DEF MessagesInOrder
  <2>4. ReadUpTo' = fromEngine[1].to
    BY <2>1, PipelineTypes, ReadUpToAfterTail
  <2> QED
    BY <2>1, <2>3, <2>4 DEF ReadUpTo, Start
<1> QED
  BY <1>1, <1>2, <1>3

\* What readEngine decodes starts where it had read up to.
LEMMA ReadAudioEffect ==
  ASSUME TypeOK, MessagesInOrder, ReadAudio
  PROVE  /\ block' # << >> /\ Gapless(block')
         /\ block'[1] = ReadUpTo + 1 /\ block'[Len(block')] = ReadUpTo'
<1> DEFINE m == fromEngine[1]
<1>1. fromEngine # << >> /\ fromEngine' = Tail(fromEngine) /\ sent' = sent
  BY DEF ReadAudio, supply
<1>2. m \in Message /\ Head(fromEngine) = m /\ 1 \in DOMAIN fromEngine
  BY <1>1, PipelineTypes, TailIs
<1>3. block' = Run(m.from, m.to) /\ m.type = "audio" /\ m.from <= m.to
  BY <1>2 DEF ReadAudio, MessagesInOrder
<1>4. m.from \in 1..MaxSamples /\ m.to \in m.from..MaxSamples
  BY <1>2, <1>3, MessageIs, GatewayAssumption DEF Samples
<1> HIDE DEF m
<1>5. /\ Len(block') = m.to + 1 - m.from
      /\ \A k \in 1..(m.to + 1 - m.from) : block'[k] = m.from + k - 1
      /\ block' \in Seq(1..MaxSamples)
  BY <1>3, <1>4, RunIsSequence, GatewayAssumption
<1>6. ReadUpTo = m.from - 1
  BY <1>1, <1>3 DEF ReadUpTo, Start, m
<1>7. ReadUpTo' = m.to
  BY <1>1, PipelineTypes, ReadUpToAfterTail DEF m
<1>8. /\ 1 \in 1..(m.to + 1 - m.from) /\ block'[1] = m.from
      /\ block'[Len(block')] = m.to
  BY <1>4, <1>5, GatewayAssumption
<1>9. DOMAIN block' = 1..(m.to + 1 - m.from)
  BY <1>5
<1>10. Gapless(block')
  BY <1>4, <1>5, <1>8, <1>9, GatewayAssumption DEF Gapless
<1>11. block' # << >>
  BY <1>4, <1>5, GatewayAssumption
<1> QED
  BY <1>4, <1>6, <1>7, <1>8, <1>10, <1>11, GatewayAssumption

\* A gapless sequence of samples grows from its first to its last.
LEMMA GaplessGrows ==
  ASSUME NEW s \in Seq(Samples), Gapless(s), NEW k \in 1..Len(s)
  PROVE  /\ s[k] = s[1] + k - 1 /\ s[1] \in Nat
         /\ s[1] <= s[k] /\ s[k] <= s[Len(s)]
<1>1. DOMAIN s = 1..Len(s) /\ Len(s) \in Nat /\ Len(s) \in 1..Len(s) /\ 1 \in 1..Len(s)
  OBVIOUS
<1>2. s[1] \in Nat
  BY <1>1, SampleIs
<1>3. s[k] = s[1] + k - 1 /\ s[Len(s)] = s[1] + Len(s) - 1
  BY <1>1 DEF Gapless
<1> QED
  BY <1>1, <1>2, <1>3

LEMMA QueueStaysInOrder ==
  ASSUME TypeOK, TypeOK', MessagesInOrder, QueueInOrder, [Next]_vars
  PROVE  QueueInOrder'
\* The step leaves the queue alone and the reader goes no further.
<1>1. ASSUME UNCHANGED <<block, outPCM, pacer, inHand, heard>>, ReadUpTo' = ReadUpTo,
             setup' = setup \/ (setup = "negotiating" /\ setup' # "negotiating") \/ setup' = "failed",
             \/ reader' = reader
             \/ reader = "off" /\ reader' = "reading" /\ setup' # "negotiating"
             \/ reader = "closing" /\ reader' = "done"
      PROVE  QueueInOrder'
  BY <1>1 DEF QueueInOrder, StillReads, LeftBefore, Gapless
<1>2. CASE ReadAudio
  <2>1. /\ UNCHANGED <<outPCM, pacer, inHand, heard, setup>> /\ reader = "reading"
        /\ reader' = "appending"
    BY <1>2 DEF ReadAudio, pacing, setupSide
  <2>2. /\ block' # << >> /\ Gapless(block') /\ block'[1] = ReadUpTo + 1
        /\ block'[Len(block')] = ReadUpTo'
    BY <1>2, ReadAudioEffect
  <2>3. /\ ReadUpTo \in Nat /\ block'[1] \in Nat /\ block'[Len(block')] \in Nat
        /\ block'[1] <= block'[Len(block')]
    <3>1. block' \in Seq(Samples)
      BY PipelineTypes DEF TypeOK
    <3>2. Len(block') \in 1..Len(block')
      BY <2>2, <3>1, SampleIs
    <3> QED
      BY <2>2, <3>1, <3>2, GaplessGrows, SampleIs, Numbers
  <2>4. /\ \A f \in DOMAIN heard : heard[f][Frame] < ReadUpTo + 1
        /\ pacer = "sending" => inHand[Frame] < ReadUpTo + 1
    BY <2>1 DEF QueueInOrder, StillReads, LeftBefore
  <2>5. LeftBefore(ReadUpTo + 1)' /\ LeftBefore(block[1])'
    BY <2>1, <2>2, <2>3, <2>4, Numbers DEF LeftBefore
  <2> QED
    BY <2>1, <2>2, <2>3, <2>4, <2>5, Numbers DEF QueueInOrder, StillReads, LeftBefore, Gapless
<1>3. CASE AppendAudio
  <2>1. /\ outPCM' = outPCM \o block /\ block' = << >> /\ reader = "appending" /\ reader' = "reading"
        /\ UNCHANGED <<pacer, inHand, heard, setup, fromEngine, sent>>
    BY <1>3 DEF AppendAudio, Appended, pacing, setupSide, supply
  <2>2. ReadUpTo' = ReadUpTo
    BY <2>1 DEF ReadUpTo, Start
  <2>3. /\ block # << >> /\ Gapless(block) /\ block[Len(block)] = ReadUpTo
        /\ LeftBefore(block[1])
        /\ outPCM # << >> =>
             Gapless(outPCM) /\ LeftBefore(outPCM[1]) /\ outPCM[Len(outPCM)] = block[1] - 1
    BY <2>1 DEF QueueInOrder, StillReads
  <2>4. /\ outPCM' \in Seq(Samples) /\ Len(outPCM') = Len(outPCM) + Len(block)
        /\ \A k \in 1..Len(outPCM) : outPCM'[k] = outPCM[k]
        /\ \A k \in 1..Len(block) : outPCM'[Len(outPCM) + k] = block[k]
        /\ Len(outPCM) \in Nat /\ Len(block) \in Nat \ {0}
    BY <2>1, <2>3, PipelineTypes, ConcatIs, SampleIs
  <2>5. \A k \in 1..Len(block) : block[k] = block[1] + k - 1
    BY <2>3, PipelineTypes, GaplessGrows
  <2>6. block[1] \in Nat /\ 1 \in 1..Len(block)
    BY <2>3, <2>4, PipelineTypes, SampleIs
  <2>7. \A k \in 1..Len(outPCM') : outPCM'[k] = outPCM'[1] + k - 1
    <3>1. CASE outPCM = << >>
      <4>1. Len(outPCM) = 0
        BY <3>1
      <4>2. Len(outPCM') = Len(block) /\ \A k \in 1..Len(block) : outPCM'[k] = block[k]
        BY <2>4, <4>1
      <4> QED
        BY <2>5, <2>6, <4>2
    <3>2. CASE outPCM # << >>
      <4>1. /\ \A k \in 1..Len(outPCM) : outPCM[k] = outPCM[1] + k - 1
            /\ outPCM[1] \in Nat /\ Len(outPCM) \in 1..Len(outPCM) /\ 1 \in 1..Len(outPCM)
            /\ outPCM[Len(outPCM)] = outPCM[1] + Len(outPCM) - 1
        <5>1. Len(outPCM) \in 1..Len(outPCM) /\ 1 \in 1..Len(outPCM)
          BY <2>4, <3>2, PipelineTypes, SampleIs
        <5> QED
          BY <2>3, <3>2, <5>1, PipelineTypes, GaplessGrows
      <4>2. /\ block[1] = outPCM[1] + Len(outPCM)
            /\ \A j \in Nat : block[1] + (j - Len(outPCM)) - 1 = outPCM[1] + j - 1
        <5> DEFINE first == outPCM[1]
                   n     == Len(outPCM)
                   next  == block[1]
        <5>1. first + n - 1 = next - 1
          BY <2>3, <3>2, <4>1
        <5>2. first \in Nat /\ n \in Nat /\ next \in Nat
          BY <2>4, <2>6, <4>1
        <5> HIDE DEF first, n, next
        <5>3. next = first + n /\ \A j \in Nat : next + (j - n) - 1 = first + j - 1
          BY <5>1, <5>2, NextAfter
        <5> QED
          BY <5>3 DEF first, n, next
      <4>3. outPCM'[1] = outPCM[1]
        BY <2>4, <4>1
      <4> SUFFICES ASSUME NEW k \in 1..Len(outPCM') PROVE outPCM'[k] = outPCM'[1] + k - 1
        OBVIOUS
      <4>4. CASE k \in 1..Len(outPCM)
        BY <2>4, <4>1, <4>3, <4>4
      <4>5. CASE k \notin 1..Len(outPCM)
        <5>1. k - Len(outPCM) \in 1..Len(block) /\ k = Len(outPCM) + (k - Len(outPCM))
          BY <2>4, <4>5
        <5>2. outPCM'[k] = block[k - Len(outPCM)]
          BY <2>4, <5>1
        <5>3. block[k - Len(outPCM)] = block[1] + (k - Len(outPCM)) - 1
          BY <2>5, <5>1
        <5> QED
          <6>1. k \in Nat
            BY <2>4
          <6>2. outPCM'[k] = outPCM[1] + k - 1
            BY <4>2, <5>2, <5>3, <6>1
          <6> QED
            BY <4>3, <6>2
      <4> QED
        BY <4>4, <4>5
    <3> QED
      BY <3>1, <3>2
  <2>8. Gapless(outPCM')
    BY <2>4, <2>7 DEF Gapless
  <2>9. outPCM' # << >> /\ outPCM'[Len(outPCM')] = ReadUpTo
    <3>1. Len(block) \in 1..Len(block)
      BY <2>4
    <3> QED
      BY <2>3, <2>4, <3>1
  <2>10. LeftBefore(outPCM'[1])
    <3>1. CASE outPCM = << >>
      BY <2>3, <2>4, <2>6, <3>1
    <3>2. CASE outPCM # << >>
      <4>1. 1 \in 1..Len(outPCM)
        BY <2>4, <3>2, PipelineTypes, SampleIs
      <4> QED
        BY <2>3, <2>4, <3>2, <4>1
    <3> QED
      BY <3>1, <3>2
  <2>11. LeftBefore(outPCM[1])' /\ LeftBefore(ReadUpTo + 1)'
    BY <2>1, <2>2, <2>10 DEF QueueInOrder, StillReads, LeftBefore
  <2>12. pacer' = "sending" => Gapless(inHand')
    BY <2>1 DEF QueueInOrder, Gapless
  <2> QED
    BY <2>1, <2>2, <2>8, <2>9, <2>11, <2>12 DEF QueueInOrder, StillReads
<1>4. CASE ReadClear
  <2>1. /\ outPCM' = << >> /\ UNCHANGED <<setup, pacer, inHand, heard, reader, block>>
        /\ reader = "reading" /\ ReadUpTo' = ReadUpTo
    BY <1>4, ReadUpToStays DEF ReadClear, Cleared, setupSide, pacing
  <2> QED
    BY <2>1 DEF QueueInOrder, StillReads, LeftBefore, Gapless
<1>5. CASE ReadFails
  BY <1>5 DEF ReadFails, ReaderAfterError, QueueInOrder, StillReads, LeftBefore, Gapless, setupSide,
              pacing
<1>6. CASE TickEnds \/ FrameFails
  <2>1. /\ UNCHANGED <<setup, heard, reader, block, outPCM, fromEngine, sent>> /\ pacer' # "sending"
    BY <1>6 DEF TickEnds, FrameFails, setupSide, reading, supply
  <2>2. ReadUpTo' = ReadUpTo
    BY <2>1 DEF ReadUpTo, Start
  <2> QED
    BY <2>1, <2>2 DEF QueueInOrder, StillReads, LeftBefore, Gapless
<1>7. CASE TickTakes
  <2>1. /\ UNCHANGED <<setup, heard, reader, block, fromEngine, sent>>
        /\ pacer = "waiting" /\ pacer' = "sending" /\ Len(outPCM) >= Frame
        /\ inHand' = SubSeq(outPCM, 1, Frame) /\ outPCM' = SubSeq(outPCM, Frame + 1, Len(outPCM))
    BY <1>7 DEF TickTakes, HasFrame, AfterFrame, setupSide, reading, supply
  <2>2. ReadUpTo' = ReadUpTo /\ ReadUpTo \in Nat
    BY <2>1, Numbers DEF ReadUpTo, Start
  <2>3. /\ Len(inHand') = Frame /\ \A k \in 1..Frame : inHand'[k] = outPCM[k]
        /\ Len(outPCM') = Len(outPCM) - Frame
        /\ \A k \in 1..(Len(outPCM) - Frame) : outPCM'[k] = outPCM[Frame + k]
        /\ Frame \in Nat \ {0} /\ Len(outPCM) \in Nat \ {0} /\ outPCM # << >>
        /\ inHand' \in Seq(Samples) /\ outPCM' \in Seq(Samples)
    <3>1. outPCM \in Seq(Samples) /\ Frame \in Nat \ {0} /\ Len(outPCM) \in Nat
      BY PipelineTypes
    <3>2. /\ Len(inHand') = Frame /\ \A k \in 1..Frame : inHand'[k] = outPCM[k]
          /\ inHand' \in Seq(Samples)
      BY <2>1, <3>1, PrefixIs
    <3>3. /\ Len(outPCM') = Len(outPCM) - Frame /\ outPCM' \in Seq(Samples)
          /\ \A k \in 1..(Len(outPCM) - Frame) : outPCM'[k] = outPCM[Frame + k]
      BY <2>1, <3>1, SuffixIs
    <3>4. Len(outPCM) \in Nat \ {0}
      BY <2>1, <3>1
    <3>5. outPCM # << >>
      BY <3>4
    <3> QED
      BY <3>1, <3>2, <3>3, <3>4, <3>5
  <2>4. /\ outPCM[1] \in Nat
        /\ \A k \in 1..Len(outPCM) : outPCM[k] = outPCM[1] + k - 1
        /\ LeftBefore(outPCM[1])
    BY <2>3, PipelineTypes, GaplessGrows, SampleIs DEF QueueInOrder
  <2>5. Gapless(inHand') /\ Gapless(outPCM')
    <3>1. DOMAIN inHand' = 1..Frame /\ DOMAIN outPCM' = 1..(Len(outPCM) - Frame)
      BY <2>3
    <3>2. \A k \in 1..Frame : inHand'[k] = inHand'[1] + k - 1
      BY <2>1, <2>3, <2>4
    <3>3. \A k \in 1..(Len(outPCM) - Frame) : Frame + k \in 1..Len(outPCM)
      BY <2>1, <2>3
    <3>4. \A k \in 1..(Len(outPCM) - Frame) : outPCM'[k] = outPCM[1] + Frame + k - 1
      BY <2>3, <2>4, <3>3
    <3>5. \A k \in 1..(Len(outPCM) - Frame) : outPCM'[k] = outPCM'[1] + k - 1
      <4> SUFFICES ASSUME NEW k \in 1..(Len(outPCM) - Frame) PROVE outPCM'[k] = outPCM'[1] + k - 1
        OBVIOUS
      <4>1. 1 \in 1..(Len(outPCM) - Frame) /\ k \in Nat
        BY <2>3
      <4>2. outPCM'[1] = outPCM[1] + Frame + 1 - 1 /\ outPCM'[k] = outPCM[1] + Frame + k - 1
        BY <3>4, <4>1
      <4> QED
        BY <2>3, <2>4, <4>1, <4>2
    <3> QED
      BY <3>1, <3>2, <3>5 DEF Gapless
  <2>6. /\ inHand'[1] = outPCM[1] /\ inHand'[Frame] = outPCM[1] + Frame - 1
        /\ outPCM' # << >> =>
             /\ outPCM'[1] = outPCM[1] + Frame
             /\ outPCM'[Len(outPCM')] = outPCM[Len(outPCM)]
    <3>1. inHand'[1] = outPCM[1] /\ inHand'[Frame] = outPCM[1] + Frame - 1
      BY <2>1, <2>3, <2>4
    <3>2. ASSUME outPCM' # << >>
          PROVE  outPCM'[1] = outPCM[1] + Frame /\ outPCM'[Len(outPCM')] = outPCM[Len(outPCM)]
      <4>1. Len(outPCM) - Frame \in Nat \ {0}
        BY <2>3, <3>2, SampleIs
      <4>2. /\ 1 \in 1..(Len(outPCM) - Frame) /\ Len(outPCM) - Frame \in 1..(Len(outPCM) - Frame)
            /\ Frame + 1 \in 1..Len(outPCM) /\ Frame + (Len(outPCM) - Frame) = Len(outPCM)
        BY <2>3, <4>1
      <4>3. outPCM'[1] = outPCM[Frame + 1] /\ outPCM'[Len(outPCM')] = outPCM[Len(outPCM)]
        BY <2>3, <4>2
      <4>4. outPCM[Frame + 1] = outPCM[1] + (Frame + 1) - 1
        BY <2>4, <4>2
      <4> QED
        BY <2>3, <2>4, <4>3, <4>4
    <3> QED
      BY <3>1, <3>2
  <2>7. outPCM[1] + Frame - 1 <= outPCM[Len(outPCM)]
    BY <2>1, <2>3, <2>4
  <2>8. \A f \in DOMAIN heard : heard[f][Frame] < outPCM[1] /\ heard[f][Frame] \in Nat
    BY <2>4, Numbers DEF LeftBefore
  <2>10. CASE reader = "appending"
    <3>1. /\ block # << >> /\ Gapless(block) /\ block[Len(block)] = ReadUpTo
          /\ outPCM[Len(outPCM)] = block[1] - 1
      BY <2>3, <2>10 DEF QueueInOrder, StillReads
    <3>2. block[1] \in Nat /\ block[1] <= ReadUpTo
      <4>1. Len(block) \in 1..Len(block)
        BY <3>1, PipelineTypes, SampleIs
      <4> QED
        BY <3>1, <4>1, PipelineTypes, GaplessGrows
    <3>3. inHand'[Frame] < block[1] /\ inHand'[Frame] < ReadUpTo + 1
      BY <2>2, <2>3, <2>4, <2>6, <2>7, <3>1, <3>2
    <3>4. LeftBefore(block[1])' /\ LeftBefore(ReadUpTo + 1)'
      BY <2>1, <2>2, <2>10, <3>3 DEF QueueInOrder, StillReads, LeftBefore
    <3>5. outPCM' # << >> => LeftBefore(outPCM[1])'
      BY <2>1, <2>3, <2>4, <2>6, <2>8 DEF LeftBefore
    <3> QED
      BY <2>1, <2>2, <2>3, <2>5, <2>6, <2>8, <2>10, <3>1, <3>4, <3>5 DEF QueueInOrder, StillReads, Gapless
  <2>11. CASE reader # "appending"
    <3>1. StillReads => outPCM[Len(outPCM)] = ReadUpTo
      BY <2>3, <2>11 DEF QueueInOrder
    <3>2. StillReads => LeftBefore(ReadUpTo + 1)'
      <4> SUFFICES ASSUME StillReads PROVE LeftBefore(ReadUpTo + 1)'
        OBVIOUS
      <4>1. inHand'[Frame] < ReadUpTo + 1
        BY <2>2, <2>3, <2>4, <2>6, <2>7, <3>1
      <4> QED
        BY <2>1, <2>2, <4>1 DEF QueueInOrder, LeftBefore
    <3>3. outPCM' # << >> => LeftBefore(outPCM[1])'
      BY <2>1, <2>3, <2>4, <2>6, <2>8 DEF LeftBefore
    <3> QED
      BY <2>1, <2>2, <2>3, <2>5, <2>6, <2>8, <2>11, <3>1, <3>2, <3>3 DEF QueueInOrder, StillReads, Gapless
  <2> QED
    BY <2>10, <2>11
<1>8. CASE FrameWritten
  <2>1. /\ UNCHANGED <<setup, reader, block, outPCM, fromEngine, sent>>
        /\ pacer = "sending" /\ pacer' = "waiting" /\ heard' = Append(heard, inHand)
    BY <1>8 DEF FrameWritten, setupSide, reading, supply
  <2>2. ReadUpTo' = ReadUpTo
    BY <2>1 DEF ReadUpTo, Start
  <2>3. /\ DOMAIN heard' = 1..(Len(heard) + 1) /\ DOMAIN heard = 1..Len(heard)
        /\ \A f \in 1..Len(heard) : heard'[f] = heard[f]
        /\ heard'[Len(heard) + 1] = inHand /\ Len(heard) \in Nat
    BY <2>1, PipelineTypes, AppendIs
  <2>4. \A f \in DOMAIN heard' : f \in DOMAIN heard \/ f = Len(heard) + 1
    BY <2>3
  <2>5. ASSUME NEW n, LeftBefore(n)
        PROVE  \A f \in DOMAIN heard' : heard'[f][Frame] < n
    BY <2>1, <2>3, <2>4, <2>5 DEF LeftBefore
  <2>6. \A f \in DOMAIN heard' : Len(heard'[f]) = Frame
    BY <2>1, <2>3, <2>4 DEF QueueInOrder
  <2>7. /\ StillReads' => LeftBefore(ReadUpTo + 1)'
        /\ reader' = "appending" => LeftBefore(block[1])'
        /\ outPCM' # << >> => LeftBefore(outPCM[1])'
    BY <2>1, <2>2, <2>5 DEF QueueInOrder, StillReads, LeftBefore
  <2> QED
    BY <2>1, <2>2, <2>6, <2>7 DEF QueueInOrder, StillReads, Gapless
<1>9. CASE EngineSendsAudio \/ EngineSendsClear
  BY <1>1, <1>9, ReadUpToStays DEF EngineSendsAudio, EngineSendsClear, setupSide, pacing
<1>10. CASE Negotiated
  BY <1>10 DEF Negotiated, QueueInOrder, StillReads, LeftBefore, Gapless, ReadUpTo, Start, supply
<1>11. CASE CloseReturns
  <2>1. /\ UNCHANGED <<block, outPCM, pacer, inHand, heard, fromEngine, sent>>
        /\ setup' \in {setup, "failed"}
        /\ reader' = reader \/ (reader = "closing" /\ reader' = "done")
    BY <1>11 DEF CloseReturns, pacing, supply
  <2> QED
    BY <1>1, <2>1 DEF ReadUpTo, Start
<1>12. CASE NegotiationFails \/ TrackUp \/ MarkClosed \/ CloseEngine \/ ClosePeer \/ Losses \/ Mic
            \/ UNCHANGED vars
  <2>1. /\ UNCHANGED <<block, outPCM, pacer, inHand, heard, fromEngine, sent>>
        /\ setup' = setup \/ (setup = "negotiating" /\ setup' # "negotiating")
        /\ reader' = reader
    BY <1>12 DEF Losses, Mic, vars, setupSide, reading, pacing, supply,
      NegotiationFails, TrackUp, MarkClosed, CloseEngine, ClosePeer,
      PeerLost, EngineLost, MicDecodes, MicLocks, MicRefused, MicWritten, MicEnds
  <2> QED
    BY <1>1, <2>1 DEF ReadUpTo, Start
<1> QED
  BY <1>2, <1>3, <1>4, <1>5, <1>6, <1>7, <1>8, <1>9, <1>10, <1>11, <1>12
  DEF Next, Setup, Close, Engine, Reader, Pacer

(***************************************************************************)
(* Every clear keeps dividing the reply where it did.                      *)
(***************************************************************************)
LEMMA CutsKeepDividing ==
  ASSUME TypeOK, TypeOK', MessagesInOrder, QueueInOrder, [Next]_vars,
         NEW cut \in [at: Nat, before: Nat], Divides(cut)
  PROVE  Divides(cut)'
<1>0. cut.at \in Nat /\ cut.before \in Nat /\ ReadUpTo \in Nat /\ ReadUpTo' \in Nat
  <2>1. ReadUpTo' \in Nat
    <3>1. CASE fromEngine' = << >>
      BY <3>1, PipelineTypes DEF ReadUpTo, TypeOK
    <3>2. CASE fromEngine' # << >>
      <4>1. fromEngine'[1] \in Message
        BY <3>2, TailIs DEF TypeOK
      <4> QED
        BY <3>2, <4>1, MessageIs DEF ReadUpTo, Start
    <3> QED
      BY <3>1, <3>2
  <2> QED
    BY <2>1, Numbers
<1>1. ASSUME UNCHANGED <<block, outPCM, pacer, inHand, heard>>, ReadUpTo' = ReadUpTo,
             StillReads' => StillReads
      PROVE  Divides(cut)'
  BY <1>1 DEF Divides
<1>2. CASE ReadAudio
  <2>1. /\ UNCHANGED <<outPCM, pacer, inHand, heard>> /\ reader = "reading"
    BY <1>2 DEF ReadAudio, pacing
  <2>2. block'[1] = ReadUpTo + 1 /\ block'[Len(block')] = ReadUpTo' /\ block' # << >>
        /\ Gapless(block')
    BY <1>2, ReadAudioEffect
  <2>3. cut.before <= ReadUpTo
    BY <2>1 DEF Divides, StillReads
  <2>4. cut.before < block'[1]
    BY <1>0, <2>2, <2>3
  <2>5. block'[1] <= ReadUpTo'
    <3>1. block' \in Seq(Samples)
      BY DEF TypeOK
    <3>2. Len(block') \in 1..Len(block')
      BY <2>2, <3>1, SampleIs
    <3> QED
      BY <2>2, <3>1, <3>2, GaplessGrows
  <2> QED
    BY <1>0, <2>1, <2>2, <2>3, <2>4, <2>5 DEF Divides
<1>3. CASE AppendAudio
  <2>1. /\ outPCM' = outPCM \o block /\ block' = << >> /\ reader = "appending" /\ reader' = "reading"
        /\ UNCHANGED <<pacer, inHand, heard, fromEngine, sent>>
    BY <1>3 DEF AppendAudio, Appended, pacing, supply
  <2>2. ReadUpTo' = ReadUpTo
    BY <2>1 DEF ReadUpTo, Start
  <2>3. block # << >>
    BY <2>1 DEF QueueInOrder
  <2>4. outPCM'[1] \in {outPCM[1], block[1]} /\ (outPCM = << >> => outPCM'[1] = block[1])
    <3>1. CASE outPCM = << >>
      BY <2>1, <3>1, PipelineTypes
    <3>2. CASE outPCM # << >>
      <4>1. 1 \in 1..Len(outPCM)
        BY <3>2, PipelineTypes, SampleIs
      <4> QED
        BY <2>1, <3>2, <4>1, PipelineTypes, ConcatIs
    <3> QED
      BY <3>1, <3>2
  <2>5. cut.before < outPCM'[1]
    BY <2>3, <2>4 DEF Divides
  <2> QED
    BY <2>1, <2>2, <2>5 DEF Divides, StillReads
<1>4. CASE ReadClear
  <2>1. /\ outPCM' = << >> /\ UNCHANGED <<pacer, inHand, heard, reader, block>>
        /\ ReadUpTo' = ReadUpTo
    BY <1>4, ReadUpToStays DEF ReadClear, Cleared, pacing
  <2> QED
    BY <2>1 DEF Divides, StillReads
<1>5. CASE ReadFails
  BY <1>5 DEF ReadFails, ReaderAfterError, Divides, StillReads, pacing
<1>6. CASE TickEnds \/ FrameFails
  <2>1. /\ UNCHANGED <<heard, reader, block, outPCM, fromEngine, sent>> /\ pacer' # "sending"
    BY <1>6 DEF TickEnds, FrameFails, reading, supply
  <2>2. ReadUpTo' = ReadUpTo
    BY <2>1 DEF ReadUpTo, Start
  <2> QED
    BY <2>1, <2>2 DEF Divides, StillReads
<1>7. CASE TickTakes
  <2>1. /\ UNCHANGED <<heard, reader, block, fromEngine, sent>> /\ pacer = "waiting" /\ Len(outPCM) >= Frame
        /\ inHand' = SubSeq(outPCM, 1, Frame) /\ outPCM' = SubSeq(outPCM, Frame + 1, Len(outPCM))
    BY <1>7 DEF TickTakes, HasFrame, AfterFrame, reading, supply
  <2>2. ReadUpTo' = ReadUpTo
    BY <2>1 DEF ReadUpTo, Start
  <2>3. outPCM \in Seq(Samples) /\ Frame \in Nat \ {0} /\ Len(outPCM) \in Nat \ {0}
    BY <2>1, PipelineTypes
  <2>4. outPCM # << >>
    BY <2>3
  <2>5. cut.before < outPCM[1] /\ Gapless(outPCM)
    BY <2>4 DEF Divides, QueueInOrder
  <2>6. inHand'[1] = outPCM[1]
    BY <2>1, <2>3, PrefixIs
  <2>7. outPCM' # << >> => cut.before < outPCM'[1]
    <3> SUFFICES ASSUME outPCM' # << >> PROVE cut.before < outPCM'[1]
      OBVIOUS
    <3>1. Len(outPCM') = Len(outPCM) - Frame /\ outPCM' \in Seq(Samples)
          /\ \A k \in 1..(Len(outPCM) - Frame) : outPCM'[k] = outPCM[Frame + k]
      BY <2>1, <2>3, SuffixIs
    <3>2. Len(outPCM) - Frame \in Nat \ {0}
      BY <3>1, SampleIs
    <3>3. 1 \in 1..(Len(outPCM) - Frame) /\ Frame + 1 \in 1..Len(outPCM)
      BY <2>3, <3>2
    <3>4. outPCM'[1] = outPCM[Frame + 1] /\ outPCM[1] <= outPCM[Frame + 1]
          /\ outPCM[1] \in Nat /\ outPCM[Frame + 1] \in Nat
      BY <2>3, <2>5, <3>1, <3>3, GaplessGrows, SampleIs
    <3> QED
      BY <1>0, <2>5, <3>4
  <2> QED
    BY <2>1, <2>2, <2>5, <2>6, <2>7 DEF Divides, StillReads
<1>8. CASE FrameWritten
  <2>1. /\ UNCHANGED <<reader, block, outPCM, fromEngine, sent>>
        /\ pacer' = "waiting" /\ heard' = Append(heard, inHand)
    BY <1>8 DEF FrameWritten, reading, supply
  <2>2. ReadUpTo' = ReadUpTo
    BY <2>1 DEF ReadUpTo, Start
  <2>3. Len(heard') = Len(heard) + 1 /\ Len(heard) \in Nat
    BY <2>1, PipelineTypes, AppendIs
  <2>4. cut.at <= Len(heard')
    BY <1>0, <2>3 DEF Divides
  <2> QED
    BY <2>1, <2>2, <2>4 DEF Divides, StillReads
<1>9. CASE EngineSendsAudio \/ EngineSendsClear
  BY <1>1, <1>9, ReadUpToStays DEF EngineSendsAudio, EngineSendsClear, pacing, StillReads
<1>10. CASE Negotiated
  <2>1. StillReads
    BY <1>10 DEF Negotiated, QueueInOrder, StillReads
  <2> QED
    BY <1>10, <2>1 DEF Negotiated, Divides, ReadUpTo, Start, supply
<1>11. CASE CloseReturns
  <2>1. /\ UNCHANGED <<block, outPCM, pacer, inHand, heard, fromEngine, sent>>
        /\ StillReads' => StillReads
    BY <1>11 DEF CloseReturns, pacing, supply, StillReads
  <2> QED
    BY <1>1, <2>1 DEF ReadUpTo, Start
<1>12. CASE NegotiationFails \/ TrackUp \/ MarkClosed \/ CloseEngine \/ ClosePeer \/ Losses \/ Mic
            \/ UNCHANGED vars
  <2>1. UNCHANGED <<block, outPCM, pacer, inHand, heard, fromEngine, sent, reader>>
    BY <1>12 DEF Losses, Mic, vars, setupSide, reading, pacing, supply,
      NegotiationFails, TrackUp, MarkClosed, CloseEngine, ClosePeer,
      PeerLost, EngineLost, MicDecodes, MicLocks, MicRefused, MicWritten, MicEnds
  <2> QED
    BY <1>1, <2>1 DEF ReadUpTo, Start, StillReads
<1> QED
  BY <1>2, <1>3, <1>4, <1>5, <1>6, <1>7, <1>8, <1>9, <1>10, <1>11, <1>12
  DEF Next, Setup, Close, Engine, Reader, Pacer

LEMMA ElementIs ==
  ASSUME NEW S, NEW s \in Seq(S)
  PROVE  \A k \in DOMAIN s : s[k] \in S
OBVIOUS

LEMMA CutIs ==
  ASSUME TypeOK
  PROVE  \A c \in DOMAIN cuts : cuts[c] \in [at: Nat, before: Nat]
<1> DEFINE Cut == [at: Nat, before: Nat]
<1>1. cuts \in Seq(Cut)
  BY PipelineTypes
<1> HIDE DEF Cut
<1>2. \A c \in DOMAIN cuts : cuts[c] \in Cut
  BY <1>1, ElementIs
<1> QED
  BY <1>2 DEF Cut

LEMMA HeardIsCounted ==
  ASSUME TypeOK
  PROVE  Len(heard) \in Nat /\ DOMAIN heard = 1..Len(heard)
<1>1. heard \in Seq(Seq(Samples))
  BY PipelineTypes
<1> QED
  BY <1>1

\* A clear that is processed divides the reply too.
LEMMA NewCutDivides ==
  ASSUME TypeOK, MessagesInOrder, QueueInOrder, ReadClear,
         NEW cut, cut = [at |-> Len(heard), before |-> Head(fromEngine).from]
  PROVE  /\ Divides(cut)'
         /\ cut \in [at: Nat, before: Nat]
         /\ \A f \in DOMAIN heard : heard[f][Frame] <= cut.before
<1>1. /\ outPCM' = << >> /\ UNCHANGED <<pacer, inHand, heard, block>> /\ reader = "reading"
      /\ fromEngine # << >> /\ Head(fromEngine).type = "clear"
  BY DEF ReadClear, Cleared, pacing
<1>2. Head(fromEngine) = fromEngine[1]
  BY <1>1, PipelineTypes, TailIs
<1>3. cut.before = ReadUpTo /\ ReadUpTo' = ReadUpTo /\ ReadUpTo \in Nat
  BY <1>1, <1>2, ReadUpToStays, Numbers DEF ReadUpTo, Start
<1>4. block = << >> /\ LeftBefore(ReadUpTo + 1)
  BY <1>1 DEF QueueInOrder, StillReads
<1>5. /\ pacer = "sending" => inHand[Frame] <= cut.before
      /\ \A f \in DOMAIN heard : heard[f][Frame] <= cut.before
  BY <1>3, <1>4, Numbers DEF LeftBefore
<1>6. Len(heard) \in Nat /\ cut.at = Len(heard) /\ Len(heard') = Len(heard)
  <2>1. Len(heard) \in Nat
    BY HeardIsCounted
  <2>2. Len(heard') = Len(heard)
    BY <1>1
  <2> QED
    BY <2>1, <2>2
<1>7. cut \in [at: Nat, before: Nat]
  BY <1>3, <1>6
<1> QED
  BY <1>1, <1>3, <1>4, <1>5, <1>6, <1>7 DEF Divides

(***************************************************************************)
(* The inductive invariant: types and the order of the pipeline.           *)
(***************************************************************************)
LEMMA CutsStayDividing ==
  ASSUME TypeOK, TypeOK', MessagesInOrder, QueueInOrder, [Next]_vars,
         \A c \in DOMAIN cuts : Divides(cuts[c])
  PROVE  (\A c \in DOMAIN cuts : Divides(cuts[c]))'
<1>1. \A c \in DOMAIN cuts : cuts[c] \in [at: Nat, before: Nat]
  BY CutIs
<1>2. ASSUME UNCHANGED cuts
      PROVE  (\A c \in DOMAIN cuts : Divides(cuts[c]))'
  <2> SUFFICES ASSUME NEW c \in DOMAIN cuts PROVE Divides(cuts[c])'
    BY <1>2
  <2>1. PICK cut \in [at: Nat, before: Nat] : cut = cuts[c]
    BY <1>1
  <2>2. Divides(cut)'
    BY <2>1, CutsKeepDividing
  <2> QED
    BY <1>2, <2>1, <2>2 DEF Divides
<1>3. CASE ReadClear
  <2>1. PICK cut : cut = [at |-> Len(heard), before |-> Head(fromEngine).from]
    OBVIOUS
  <2>2. Divides(cut)' /\ cut \in [at: Nat, before: Nat]
    BY <1>3, <2>1, NewCutDivides
  <2>3. cuts' = Append(cuts, cut)
    BY <1>3, <2>1 DEF ReadClear
  <2>4. /\ DOMAIN cuts' = 1..(Len(cuts) + 1) /\ DOMAIN cuts = 1..Len(cuts)
        /\ \A c \in 1..Len(cuts) : cuts'[c] = cuts[c]
        /\ cuts'[Len(cuts) + 1] = cut /\ Len(cuts) \in Nat
    BY <2>2, <2>3, PipelineTypes, AppendIs
  <2> SUFFICES ASSUME NEW c \in DOMAIN cuts' PROVE Divides(cuts[c])'
    OBVIOUS
  <2>5. CASE c = Len(cuts) + 1
    BY <2>2, <2>4, <2>5 DEF Divides
  <2>6. CASE c \in DOMAIN cuts
    <3>1. PICK old \in [at: Nat, before: Nat] : old = cuts[c]
      BY <1>1, <2>6
    <3>2. Divides(old)'
      BY <2>6, <3>1, CutsKeepDividing
    <3> QED
      BY <2>4, <2>6, <3>1, <3>2 DEF Divides
  <2> QED
    BY <2>4, <2>5, <2>6
<1> QED
  BY <1>2, <1>3
  DEF Next, Setup, Close, Losses, Engine, Reader, Pacer, Mic, vars, reading,
      NegotiationFails, Negotiated, TrackUp, MarkClosed, CloseEngine, ClosePeer, CloseReturns,
      PeerLost, EngineLost, EngineSendsAudio, EngineSendsClear, ReadAudio, AppendAudio, ReadFails,
      TickEnds, TickTakes, FrameWritten, FrameFails,
      MicDecodes, MicLocks, MicRefused, MicWritten, MicEnds

LEMMA CallStarts ==
  ASSUME Init
  PROVE  TypeOK /\ PipelineInOrder
<1>1. TypeOK
  <2>1. \A S : << >> \in Seq(S)
    OBVIOUS
  <2>2. sent \in 0..MaxSamples /\ clears \in 0..MaxClears /\ micMade \in 0..MaxMic
    BY GatewayAssumption DEF Init
  <2> QED
    BY <2>1, <2>2 DEF Init, TypeOK
<1>2. MutexKept /\ MessagesInOrder
  BY DEF Init, MutexKept, MessagesInOrder
<1>3. QueueInOrder
  BY DEF Init, QueueInOrder, StillReads, LeftBefore
<1> QED
  BY <1>1, <1>2, <1>3 DEF Init, PipelineInOrder

LEMMA CallStep ==
  ASSUME TypeOK, PipelineInOrder, [Next]_vars
  PROVE  TypeOK' /\ PipelineInOrder'
<1>1. MutexKept /\ MessagesInOrder /\ QueueInOrder /\ \A c \in DOMAIN cuts : Divides(cuts[c])
  BY DEF PipelineInOrder
<1>2. TypeOK'
  BY <1>1, TypeStep
<1>3. MutexKept' /\ MessagesInOrder' /\ QueueInOrder'
  BY <1>1, <1>2, MutexStaysKept, MessagesStayInOrder, QueueStaysInOrder
<1> QED
  BY <1>1, <1>2, <1>3, CutsStayDividing DEF PipelineInOrder

\* Whatever the frame sizes and the length of the call, every variable keeps
\* its type: no slice is taken past the end of its buffer.
THEOREM GatewayTypes == Spec => []TypeOK
<1>1. Init => TypeOK /\ PipelineInOrder
  BY CallStarts
<1>2. TypeOK /\ PipelineInOrder /\ [Next]_vars => (TypeOK /\ PipelineInOrder)'
  BY CallStep
<1> QED
  BY <1>1, <1>2, PTL DEF Spec

\* At every moment of every call what has been played, what is in hand, what
\* is queued, what is being appended and what is still in the socket are
\* consecutive pieces of the reply, divided alike by every clear.
THEOREM ReplyStaysInPieces == Spec => []PipelineInOrder
<1>1. Init => TypeOK /\ PipelineInOrder
  BY CallStarts
<1>2. TypeOK /\ PipelineInOrder /\ [Next]_vars => (TypeOK /\ PipelineInOrder)'
  BY CallStep
<1> QED
  BY <1>1, <1>2, PTL DEF Spec

(***************************************************************************)
(* From the pieces in order to what the browser hears.                     *)
(***************************************************************************)
LEMMA GaplessIsRun ==
  ASSUME NEW s \in Seq(Samples), Gapless(s), Len(s) = Frame
  PROVE  s = Run(s[1], s[1] + Frame - 1)
<1>1. Frame \in Nat \ {0} /\ s[1] \in Nat
  BY GatewayAssumption, SampleIs
<1>2. (s[1] + Frame - 1) + 1 - s[1] = Frame
  BY <1>1
<1>3. s = [k \in 1..Frame |-> s[1] + k - 1]
  BY DEF Gapless
<1> QED
  BY <1>2, <1>3 DEF Run

\* The effect of FrameWritten on heard, and where the new frame lies.
LEMMA FrameWrittenEffect ==
  ASSUME TypeOK, QueueInOrder, FrameWritten
  PROVE  /\ DOMAIN heard = 1..Len(heard) /\ DOMAIN heard' = 1..(Len(heard) + 1) /\ Len(heard) \in Nat
         /\ \A f \in 1..Len(heard) : heard'[f] = heard[f]
         /\ heard'[Len(heard) + 1] = inHand
         /\ pacer = "sending" /\ cuts' = cuts
         /\ inHand \in Seq(Samples) /\ Len(inHand) = Frame /\ Gapless(inHand)
         /\ \A f \in DOMAIN heard : heard[f][Frame] < inHand[1]
BY PipelineTypes, AppendIs DEF FrameWritten, QueueInOrder, reading

LEMMA OtherStepsAreNotHeard ==
  ASSUME [Next]_vars
  PROVE  FrameWritten \/ heard' = heard
BY DEF Next, Setup, Close, Losses, Engine, Reader, Pacer, Mic, vars, pacing,
      NegotiationFails, Negotiated, TrackUp, MarkClosed, CloseEngine, ClosePeer, CloseReturns,
      PeerLost, EngineLost, EngineSendsAudio, EngineSendsClear, ReadAudio, AppendAudio, ReadClear,
      ReadFails, TickEnds, TickTakes, FrameFails,
      MicDecodes, MicLocks, MicRefused, MicWritten, MicEnds

LEMMA OtherStepsDoNotCut ==
  ASSUME [Next]_vars
  PROVE  ReadClear \/ cuts' = cuts
BY DEF Next, Setup, Close, Losses, Engine, Reader, Pacer, Mic, vars, reading,
      NegotiationFails, Negotiated, TrackUp, MarkClosed, CloseEngine, ClosePeer, CloseReturns,
      PeerLost, EngineLost, EngineSendsAudio, EngineSendsClear, ReadAudio, AppendAudio,
      ReadFails, TickEnds, TickTakes, FrameWritten, FrameFails,
      MicDecodes, MicLocks, MicRefused, MicWritten, MicEnds

LEMMA ReplyStaysInOrder ==
  ASSUME TypeOK, PipelineInOrder, ReplyInOrder, [Next]_vars
  PROVE  ReplyInOrder'
<1>1. CASE FrameWritten
  <2>1. /\ DOMAIN heard = 1..Len(heard) /\ DOMAIN heard' = 1..(Len(heard) + 1) /\ Len(heard) \in Nat
        /\ \A f \in 1..Len(heard) : heard'[f] = heard[f]
        /\ heard'[Len(heard) + 1] = inHand
        /\ \A f \in DOMAIN heard : heard[f][Frame] < inHand[1]
        /\ inHand = Run(inHand[1], inHand[1] + Frame - 1)
    BY <1>1, FrameWrittenEffect, GaplessIsRun DEF PipelineInOrder
  <2>2. \A f \in DOMAIN heard' : f \in DOMAIN heard \/ f = Len(heard) + 1
    BY <2>1
  <2>3. \A f \in DOMAIN heard' : heard'[f] = Run(heard'[f][1], heard'[f][1] + Frame - 1)
    BY <2>1, <2>2 DEF ReplyInOrder
  <2>4. ASSUME NEW f \in DOMAIN heard', NEW g \in DOMAIN heard', f < g
        PROVE  heard'[f][Frame] < heard'[g][1]
    <3>1. f \in DOMAIN heard
      BY <2>1, <2>4
    <3>2. CASE g \in DOMAIN heard
      BY <2>1, <2>4, <3>1, <3>2 DEF ReplyInOrder
    <3>3. CASE g = Len(heard) + 1
      BY <2>1, <3>1, <3>3
    <3> QED
      BY <2>2, <3>2, <3>3
  <2> QED
    BY <2>3, <2>4 DEF ReplyInOrder
<1>2. CASE heard' = heard
  BY <1>2 DEF ReplyInOrder
<1> QED
  BY <1>1, <1>2, OtherStepsAreNotHeard

\* However reader, pacer and clears interleave, every frame the browser is
\* sent is 20 ms of consecutive samples and no sample is sent twice or out of
\* its order.
THEOREM BrowserHearsReplyInOrder == Spec => []ReplyInOrder
<1>1. Init => TypeOK /\ PipelineInOrder /\ ReplyInOrder
  <2>1. Init => ReplyInOrder
    BY DEF Init, ReplyInOrder
  <2> QED
    BY <2>1, CallStarts
<1>2. TypeOK /\ PipelineInOrder /\ ReplyInOrder /\ [Next]_vars
        => (TypeOK /\ PipelineInOrder /\ ReplyInOrder)'
  BY CallStep, ReplyStaysInOrder
<1> QED
  BY <1>1, <1>2, PTL DEF Spec

\* Frame f lies as a cut wants it.
Sharp(cut, first, last, f) ==
  /\ f > cut.at + 1 => first > cut.before
  /\ ~(first <= cut.before /\ cut.before < last)

LEMMA CutStaysSharp ==
  ASSUME TypeOK, PipelineInOrder, CutIsSharp, [Next]_vars
  PROVE  CutIsSharp'
<1>0. QueueInOrder /\ MessagesInOrder /\ \A c \in DOMAIN cuts : Divides(cuts[c])
  BY DEF PipelineInOrder
<1>1. ASSUME NEW c \in DOMAIN cuts
      PROVE  cuts[c].at \in Nat /\ cuts[c].before \in Nat
  <2>1. cuts[c] \in [at: Nat, before: Nat]
    BY CutIs
  <2> QED
    BY <2>1
<1>2. CASE FrameWritten
  <2>1. /\ DOMAIN heard = 1..Len(heard) /\ DOMAIN heard' = 1..(Len(heard) + 1) /\ Len(heard) \in Nat
        /\ \A f \in 1..Len(heard) : heard'[f] = heard[f]
        /\ heard'[Len(heard) + 1] = inHand
        /\ pacer = "sending" /\ cuts' = cuts
    BY <1>0, <1>2, FrameWrittenEffect
  <2>2. /\ inHand[1] \in Nat /\ inHand[Frame] \in Nat /\ inHand[1] <= inHand[Frame]
        /\ Frame \in Nat \ {0}
    <3>1. inHand \in Seq(Samples) /\ Len(inHand) = Frame /\ Gapless(inHand)
      BY <1>0, <1>2, FrameWrittenEffect
    <3>2. Frame \in Nat \ {0}
      BY GatewayAssumption
    <3>3. Frame \in 1..Len(inHand)
      BY <3>1, <3>2
    <3> QED
      BY <1>0, <2>1, <3>1, <3>2, <3>3, Numbers, GaplessGrows
  <2>3. ASSUME NEW c \in DOMAIN cuts, NEW f \in DOMAIN heard'
        PROVE  Sharp(cuts[c], heard'[f][1], heard'[f][Frame], f)
    <3>1. CASE f \in DOMAIN heard
      BY <2>1, <3>1 DEF CutIsSharp, Sharp
    <3>2. CASE f = Len(heard) + 1
      <4>1. \/ cuts[c].before < inHand[1]
            \/ inHand[Frame] <= cuts[c].before /\ Len(heard) = cuts[c].at
        BY <1>0, <2>1 DEF Divides
      <4> QED
        BY <1>1, <2>1, <2>2, <3>2, <4>1 DEF Sharp
    <3> QED
      BY <2>1, <3>1, <3>2
  <2> QED
    BY <2>1, <2>3 DEF CutIsSharp, Sharp
<1>3. CASE heard' = heard /\ cuts' = cuts
  BY <1>3 DEF CutIsSharp
<1>4. CASE heard' = heard /\ ReadClear
  <2>1. PICK cut : cut = [at |-> Len(heard), before |-> Head(fromEngine).from]
    OBVIOUS
  <2>2. /\ cut \in [at: Nat, before: Nat]
        /\ \A f \in DOMAIN heard : heard[f][Frame] <= cut.before
    BY <1>0, <1>4, <2>1, NewCutDivides
  <2>3. cuts' = Append(cuts, cut)
    BY <1>4, <2>1 DEF ReadClear
  <2>4. /\ DOMAIN cuts' = 1..(Len(cuts) + 1) /\ DOMAIN cuts = 1..Len(cuts)
        /\ \A c \in 1..Len(cuts) : cuts'[c] = cuts[c]
        /\ cuts'[Len(cuts) + 1] = cut /\ Len(cuts) \in Nat
    BY <2>2, <2>3, PipelineTypes, AppendIs
  <2>5. ASSUME NEW f \in DOMAIN heard
        PROVE  Sharp(cut, heard[f][1], heard[f][Frame], f)
    <3>1. heard[f][Frame] \in Nat /\ heard[f][Frame] <= cut.before
      BY <1>0, <2>2, Numbers
    <3>2. f \in 1..Len(heard) /\ Len(heard) \in Nat /\ cut.at = Len(heard) /\ cut.before \in Nat
      BY <2>1, <2>2, PipelineTypes
    <3> QED
      BY <3>1, <3>2 DEF Sharp
  <2>6. ASSUME NEW c \in DOMAIN cuts', NEW f \in DOMAIN heard
        PROVE  Sharp(cuts'[c], heard[f][1], heard[f][Frame], f)
    <3>1. CASE c \in DOMAIN cuts
      BY <2>4, <3>1 DEF CutIsSharp, Sharp
    <3>2. CASE c = Len(cuts) + 1
      BY <2>4, <2>5, <3>2
    <3> QED
      BY <2>4, <3>1, <3>2
  <2> QED
    BY <1>4, <2>6 DEF CutIsSharp, Sharp
<1>5. CASE FrameWritten \/ heard' = heard
  BY <1>2, <1>3, <1>4, <1>5, OtherStepsDoNotCut
<1> QED
  BY <1>5, OtherStepsAreNotHeard

\* Whatever was in flight when the engine cleared, at most the one frame the
\* pacer already held is still played of it, and no frame mixes what came
\* before a clear with what came after, up to the memory of the interpolator.
THEOREM CutsAreSharp == Spec => []CutIsSharp
<1>1. Init => TypeOK /\ PipelineInOrder /\ CutIsSharp
  <2>1. Init => CutIsSharp
    BY DEF Init, CutIsSharp
  <2> QED
    BY <2>1, CallStarts
<1>2. TypeOK /\ PipelineInOrder /\ CutIsSharp /\ [Next]_vars
        => (TypeOK /\ PipelineInOrder /\ CutIsSharp)'
  BY CallStep, CutStaysSharp
<1> QED
  BY <1>1, <1>2, PTL DEF Spec

\* After close() has marked the session, no write reaches the engine and the
\* pacer takes no frame: writeEngine cannot be inside its write then, because
\* marking needs the mutex it holds.
THEOREM ClosedCallIsQuiet == Spec => QuietAfterClose
<1>1. Init => MutexKept
  BY DEF Init, MutexKept
<1>2. MutexKept /\ [Next]_vars => MutexKept'
  BY MutexStaysKept
<1>3. MutexKept /\ [Next]_vars =>
        [closed => /\ toEngine' = toEngine
                   /\ pacer' = "sending" => pacer = "sending"]_vars
  <2> SUFFICES ASSUME MutexKept, Next, closed
               PROVE  toEngine' = toEngine /\ (pacer' = "sending" => pacer = "sending")
    OBVIOUS
  <2>1. toEngine' = toEngine
    <3>1. ~MicWritten
      BY DEF MicWritten, MutexKept
    <3> QED
      BY <3>1 DEF Next, Setup, Close, Losses, Engine, Reader, Pacer, Mic, inbound,
      NegotiationFails, Negotiated, TrackUp, MarkClosed, CloseEngine, ClosePeer, CloseReturns,
      PeerLost, EngineLost, EngineSendsAudio, EngineSendsClear, ReadAudio, AppendAudio, ReadClear,
      ReadFails, TickEnds, TickTakes, FrameWritten, FrameFails,
      MicDecodes, MicLocks, MicRefused, MicEnds
  <2>2. pacer' = "sending" => pacer = "sending"
    <3>1. ~TickTakes
      BY DEF TickTakes, PacerEnds
    <3> QED
      BY <3>1 DEF Next, Setup, Close, Losses, Engine, Reader, Pacer, Mic, pacing,
      NegotiationFails, Negotiated, TrackUp, MarkClosed, CloseEngine, ClosePeer, CloseReturns,
      PeerLost, EngineLost, EngineSendsAudio, EngineSendsClear, ReadAudio, AppendAudio, ReadClear,
      ReadFails, TickEnds, FrameWritten, FrameFails,
      MicDecodes, MicLocks, MicRefused, MicWritten, MicEnds
  <2> QED
    BY <2>1, <2>2
<1> QED
  BY <1>1, <1>2, <1>3, PTL DEF Spec, QuietAfterClose

(***************************************************************************)
(* The microphone's way to the engine.                                     *)
(***************************************************************************)

\* Samples that go up, none above n.
Rising(samples, n) ==
  /\ \A k \in DOMAIN samples : samples[k] <= n
  /\ \A j, k \in DOMAIN samples : j < k => samples[j] < samples[k]

\* What MicInOrder rests on: the chunks sent, the buffer and the samples still
\* to come follow each other.
MicFollows ==
  /\ Rising(micPCM, micMade)
  /\ \A c \in DOMAIN toEngine : \A k \in 1..MicFrame :
       /\ toEngine[c][k] <= micMade
       /\ \A j \in DOMAIN micPCM : toEngine[c][k] < micPCM[j]

\* The parts of TypeOK the microphone needs.
LEMMA MicTypes ==
  ASSUME TypeOK
  PROVE  /\ MicFrame \in Nat \ {0} /\ micMade \in Nat
         /\ micPCM \in Seq(MicSamples) /\ toEngine \in Seq(Seq(MicSamples))
         /\ MicSamples \subseteq Nat /\ MaxMic \in Nat
BY GatewayAssumption DEF TypeOK, MicSamples

LEMMA MicNumbers ==
  ASSUME TypeOK, MicInOrder
  PROVE  /\ \A k \in DOMAIN micPCM : micPCM[k] \in Nat
         /\ \A c \in DOMAIN toEngine : \A k \in 1..MicFrame : toEngine[c][k] \in Nat
<1>1. \A k \in DOMAIN micPCM : micPCM[k] \in Nat
  BY MicTypes, ElementIs
<1>2. ASSUME NEW c \in DOMAIN toEngine, NEW k \in 1..MicFrame
      PROVE  toEngine[c][k] \in Nat
  <2>1. toEngine[c] \in Seq(MicSamples)
    BY MicTypes, ElementIs
  <2>2. k \in DOMAIN toEngine[c]
    BY <2>1 DEF MicInOrder
  <2> QED
    BY <2>1, <2>2, MicTypes, ElementIs
<1> QED
  BY <1>1, <1>2

LEMMA MicDecodesFollows ==
  ASSUME TypeOK, MicInOrder, MicFollows, MicDecodes
  PROVE  MicFollows'
<1>1. PICK from \in (micMade + 1)..MaxMic :
        \E to \in from..MaxMic : micPCM' = micPCM \o Run(from, to) /\ micMade' = to
  BY DEF MicDecodes
<1>2. PICK to \in from..MaxMic : micPCM' = micPCM \o Run(from, to) /\ micMade' = to
  BY <1>1
<1>3. /\ from \in Nat /\ to \in Nat /\ micMade \in Nat /\ micMade < from /\ from <= to
      /\ MaxMic \in Nat /\ from \in 1..MaxMic
  BY MicTypes
<1> DEFINE n == Len(micPCM)
           more == Run(from, to)
<1>4. /\ more \in Seq(MicSamples) /\ Len(more) = to + 1 - from
      /\ \A k \in 1..(to + 1 - from) : more[k] = from + k - 1
  BY <1>3, RunIsSequence DEF MicSamples
<1> HIDE DEF more
<1>5. n \in Nat /\ DOMAIN micPCM = 1..n
  BY MicTypes
<1>6. /\ micPCM' \in Seq(MicSamples) /\ Len(micPCM') = n + Len(more)
      /\ \A k \in 1..n : micPCM'[k] = micPCM[k]
      /\ \A k \in 1..Len(more) : micPCM'[n + k] = more[k]
  <2>1. micPCM' = micPCM \o more
    BY <1>2 DEF more
  <2>2. micPCM \in Seq(MicSamples) /\ more \in Seq(MicSamples)
    BY <1>4, MicTypes
  <2>3. /\ micPCM \o more \in Seq(MicSamples) /\ Len(micPCM \o more) = n + Len(more)
        /\ \A k \in 1..n : (micPCM \o more)[k] = micPCM[k]
        /\ \A k \in 1..Len(more) : (micPCM \o more)[n + k] = more[k]
    BY <2>2, ConcatIs
  <2> QED
    BY <2>1, <2>3
<1>7. DOMAIN micPCM' = 1..(n + (to + 1 - from))
  BY <1>4, <1>6
<1> HIDE DEF n
<1>8. ASSUME NEW k \in DOMAIN micPCM', k > n
      PROVE  micPCM'[k] = from + (k - n) - 1 /\ k \in Nat
  <2>1. k - n \in 1..(to + 1 - from) /\ n + (k - n) = k /\ k \in Nat
    BY <1>3, <1>5, <1>7, <1>8
  <2> QED
    BY <1>4, <1>6, <2>1
<1>9. ASSUME NEW k \in DOMAIN micPCM', ~(k > n)
      PROVE  /\ k \in DOMAIN micPCM /\ micPCM'[k] = micPCM[k]
             /\ micPCM[k] \in Nat /\ micPCM[k] <= micMade
  <2>1. k \in 1..n
    BY <1>3, <1>5, <1>7, <1>9
  <2> QED
    BY <1>5, <1>6, <2>1, MicNumbers DEF MicFollows, Rising
<1>10. \A k \in DOMAIN micPCM' : micPCM'[k] <= micMade'
  <2> SUFFICES ASSUME NEW k \in DOMAIN micPCM' PROVE micPCM'[k] <= micMade'
    OBVIOUS
  <2>1. CASE k > n
    BY <1>2, <1>3, <1>5, <1>7, <1>8, <2>1
  <2>2. CASE ~(k > n)
    BY <1>2, <1>3, <1>9, <2>2
  <2> QED
    BY <2>1, <2>2
<1>11. ASSUME NEW j \in DOMAIN micPCM', NEW k \in DOMAIN micPCM', j < k
       PROVE  micPCM'[j] < micPCM'[k]
  <2>0. j \in Nat /\ k \in Nat
    BY <1>3, <1>5, <1>7
  <2>1. CASE j > n
    BY <1>3, <1>5, <1>8, <1>11, <2>0, <2>1
  <2>2. CASE ~(j > n) /\ k > n
    BY <1>3, <1>5, <1>8, <1>9, <1>11, <2>0, <2>2
  <2>3. CASE ~(k > n)
    <3>1. ~(j > n)
      BY <1>5, <1>11, <2>0, <2>3
    <3> QED
      BY <1>9, <1>11, <2>3, <3>1 DEF MicFollows, Rising
  <2> QED
    BY <2>1, <2>2, <2>3
<1>12. UNCHANGED toEngine
  BY DEF MicDecodes
<1>13. ASSUME NEW c \in DOMAIN toEngine, NEW k \in 1..MicFrame
       PROVE  /\ toEngine[c][k] <= micMade'
              /\ \A j \in DOMAIN micPCM' : toEngine[c][k] < micPCM'[j]
  <2>1. toEngine[c][k] \in Nat /\ toEngine[c][k] <= micMade
    BY MicNumbers DEF MicFollows
  <2>2. ASSUME NEW j \in DOMAIN micPCM' PROVE toEngine[c][k] < micPCM'[j]
    <3>1. CASE j > n
      BY <1>3, <1>5, <1>8, <2>1, <3>1
    <3>2. CASE ~(j > n)
      BY <1>9, <3>2 DEF MicFollows
    <3> QED
      BY <3>1, <3>2
  <2> QED
    BY <1>2, <1>3, <2>1, <2>2
<1> QED
  BY <1>10, <1>11, <1>12, <1>13 DEF MicFollows, Rising

LEMMA MicWrittenFollows ==
  ASSUME TypeOK, MutexKept, MicInOrder, MicFollows, MicWritten
  PROVE  MicInOrder' /\ MicFollows'
<1>0. UNCHANGED micMade
  BY DEF MicWritten
<1>1. CASE UNCHANGED <<toEngine, micPCM>>
  BY <1>0, <1>1 DEF MicInOrder, MicFollows, Rising
<1>2. CASE /\ toEngine' = Append(toEngine, SubSeq(micPCM, 1, MicFrame))
           /\ micPCM' = SubSeq(micPCM, MicFrame + 1, Len(micPCM))
  <2> DEFINE chunk == SubSeq(micPCM, 1, MicFrame)
             n == Len(toEngine)
  <2>1. Len(micPCM) >= MicFrame /\ Len(micPCM) \in Nat /\ MicFrame \in Nat \ {0} /\ n \in Nat
    BY MicTypes DEF MicWritten, MutexKept
  <2>2. /\ chunk \in Seq(MicSamples) /\ Len(chunk) = MicFrame
        /\ \A k \in 1..MicFrame : chunk[k] = micPCM[k]
    BY <2>1, MicTypes, PrefixIs
  <2>3. /\ DOMAIN micPCM' = 1..(Len(micPCM) - MicFrame)
        /\ \A k \in 1..(Len(micPCM) - MicFrame) : micPCM'[k] = micPCM[MicFrame + k]
    BY <1>2, <2>1, MicTypes, SuffixIs
  <2> HIDE DEF chunk
  <2>4. /\ DOMAIN toEngine' = 1..(n + 1) /\ DOMAIN toEngine = 1..n
        /\ \A c \in 1..n : toEngine'[c] = toEngine[c]
        /\ toEngine'[n + 1] = chunk
    BY <1>2, <2>2, MicTypes, AppendIs DEF chunk
  <2> HIDE DEF n
  <2>5. DOMAIN micPCM = 1..Len(micPCM)
    BY MicTypes
  <2>6. \A k \in 1..MicFrame : k \in DOMAIN micPCM
    BY <2>1, <2>5
  <2>7. \A k \in DOMAIN micPCM' :
          MicFrame + k \in DOMAIN micPCM /\ micPCM'[k] = micPCM[MicFrame + k] /\ k \in Nat \ {0}
    BY <2>1, <2>3, <2>5
  <2>8. \A c \in DOMAIN toEngine' : c \in DOMAIN toEngine \/ c = n + 1
    BY <2>1, <2>4
  <2>9. \A c \in DOMAIN toEngine' : Len(toEngine'[c]) = MicFrame
    BY <2>2, <2>4, <2>8 DEF MicInOrder
  <2>10. ASSUME NEW c \in DOMAIN toEngine', NEW d \in DOMAIN toEngine',
                NEW j \in 1..MicFrame, NEW k \in 1..MicFrame, c < d \/ (c = d /\ j < k)
         PROVE  toEngine'[c][j] < toEngine'[d][k]
    <3>1. CASE d \in DOMAIN toEngine
      <4>1. c \in DOMAIN toEngine
        BY <2>1, <2>4, <2>10, <3>1
      <4> QED
        BY <2>4, <2>10, <3>1, <4>1 DEF MicInOrder
    <3>2. CASE d = n + 1 /\ c \in DOMAIN toEngine
      BY <2>2, <2>4, <2>6, <3>2 DEF MicFollows
    <3>3. CASE d = n + 1 /\ c = n + 1
      <4>1. j < k
        BY <2>1, <2>10, <3>3
      <4> QED
        BY <2>2, <2>4, <2>6, <3>3, <4>1 DEF MicFollows, Rising
    <3> QED
      BY <2>8, <3>1, <3>2, <3>3
  <2>11. MicInOrder'
    BY <2>9, <2>10 DEF MicInOrder
  <2>12. Rising(micPCM, micMade)'
    <3>1. \A k \in DOMAIN micPCM' : micPCM'[k] <= micMade'
      BY <1>0, <2>7 DEF MicFollows, Rising
    <3>2. ASSUME NEW j \in DOMAIN micPCM', NEW k \in DOMAIN micPCM', j < k
          PROVE  micPCM'[j] < micPCM'[k]
      <4>1. MicFrame + j < MicFrame + k
        BY <2>1, <2>7, <3>2
      <4> QED
        BY <2>7, <4>1 DEF MicFollows, Rising
    <3> QED
      BY <3>1, <3>2 DEF Rising
  <2>13. ASSUME NEW c \in DOMAIN toEngine', NEW k \in 1..MicFrame
         PROVE  /\ toEngine'[c][k] <= micMade'
                /\ \A j \in DOMAIN micPCM' : toEngine'[c][k] < micPCM'[j]
    <3>1. CASE c \in DOMAIN toEngine
      BY <1>0, <2>4, <2>7, <3>1 DEF MicFollows
    <3>2. CASE c = n + 1
      <4>1. toEngine'[c][k] = micPCM[k] /\ k \in DOMAIN micPCM
        BY <2>2, <2>4, <2>6, <3>2
      <4>2. \A j \in DOMAIN micPCM' : k < MicFrame + j
        BY <2>1, <2>7
      <4> QED
        BY <1>0, <2>7, <4>1, <4>2 DEF MicFollows, Rising
    <3> QED
      BY <2>8, <3>1, <3>2
  <2> QED
    BY <2>11, <2>12, <2>13 DEF MicFollows
<1> QED
  BY <1>1, <1>2 DEF MicWritten, AfterChunk

LEMMA MicStaysInOrder ==
  ASSUME TypeOK, MutexKept, MicInOrder, MicFollows, [Next]_vars
  PROVE  MicInOrder' /\ MicFollows'
<1>1. CASE MicDecodes
  <2>1. MicInOrder'
    BY <1>1 DEF MicDecodes, MicInOrder
  <2> QED
    BY <1>1, <2>1, MicDecodesFollows
<1>2. CASE MicWritten
  BY <1>2, MicWrittenFollows
<1>3. CASE UNCHANGED <<toEngine, micPCM, micMade>>
  BY <1>3 DEF MicInOrder, MicFollows, Rising
<1> QED
  BY <1>1, <1>2, <1>3
  DEF Next, Setup, Close, Losses, Engine, Reader, Pacer, Mic, vars, inbound,
      NegotiationFails, Negotiated, TrackUp, MarkClosed, CloseEngine, ClosePeer, CloseReturns,
      PeerLost, EngineLost, EngineSendsAudio, EngineSendsClear, ReadAudio, AppendAudio, ReadClear,
      ReadFails, TickEnds, TickTakes, FrameWritten, FrameFails, MicLocks, MicRefused, MicEnds

\* The engine is sent the microphone in whole chunks, in order and nothing
\* twice, whatever packets are lost and however close() falls between.
THEOREM EngineHearsMicInOrder == Spec => []MicInOrder
<1>1. Init => TypeOK /\ PipelineInOrder /\ MicInOrder /\ MicFollows
  <2>1. Init => MicInOrder /\ MicFollows
    BY DEF Init, MicInOrder, MicFollows, Rising
  <2> QED
    BY <2>1, CallStarts
<1>2. TypeOK /\ PipelineInOrder /\ MicInOrder /\ MicFollows /\ [Next]_vars
        => (TypeOK /\ PipelineInOrder /\ MicInOrder /\ MicFollows)'
  <2>1. PipelineInOrder => MutexKept
    BY DEF PipelineInOrder
  <2> QED
    BY <2>1, CallStep, MicStaysInOrder
<1> QED
  BY <1>1, <1>2, PTL DEF Spec
=============================================================================
