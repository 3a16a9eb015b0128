------------------------------ MODULE Playback ------------------------------
(***************************************************************************)
(* Playout with the player of the page: the queue of player-worklet.js and *)
(* the loop of its process(). The websocket, the page's onmessage and the  *)
(* port of the worklet are one FIFO.                                       *)
(***************************************************************************)
EXTENDS Playout, SequencesExt

VARIABLES
  queue,     \* the player's queue: <<first sample, length>>
  offset     \* read position within queue[1]

playbackVars == <<playoutVars, queue, offset>>

(* A slip of the code that the property notices; no action uses it. *)
OffsetKept == offset   \* clear drops the queue only

-----------------------------------------------------------------------------
PlaybackTypeOK ==
  /\ horizon \in Int /\ horizon >= -Grace
  /\ sent \in Nat /\ cut \in 1..sent + 1
  /\ arrived \in 0..sent /\ expect \in 1..sent + 1
  /\ wire \in Seq(Message)
  /\ queue \in Seq(Nat \X Nat) /\ offset \in Nat
  /\ out \in Seq(1..sent) /\ Len(out) <= Quantum

PlaybackInit == PlayoutInit /\ queue = <<>> /\ offset = 0

Sends(n) == SendAudio(n) /\ UNCHANGED <<queue, offset>>
Clears   == SendClear /\ UNCHANGED <<queue, offset>>

\* The player's onmessage.
OffsetAfterClear == 0

Receives ==
  LET m == Head(wire) IN
  /\ wire # <<>> /\ wire' = Tail(wire)
  /\ IF m.len = 0
       THEN queue' = <<>> /\ offset' = OffsetAfterClear /\ expect' = m.first
       ELSE queue' = Append(queue, <<m.first, m.len>>) /\ UNCHANGED <<offset, expect>>
  /\ arrived' = m.first + m.len - 1
  /\ UNCHANGED <<horizon, sent, cut, out>>

\* The loop of process(): from the queue's head, chunk by chunk, while room is left.
Fill(st, chunk) ==
  LET rest == chunk[2] - st.offset
      n    == IF st.room < rest THEN st.room ELSE rest
  IN  IF st.room = 0 THEN st
      ELSE [room   |-> st.room - n,
            out    |-> st.out \o [i \in 1..n |-> chunk[1] + st.offset + i - 1],
            shifts |-> IF n = rest THEN st.shifts + 1 ELSE st.shifts,
            offset |-> IF n = rest THEN 0 ELSE st.offset + n]

FilledFrom[k \in 0..Len(queue)] ==
  IF k = 0 THEN [room |-> Quantum, out |-> <<>>, shifts |-> 0, offset |-> offset]
           ELSE Fill(FilledFrom[k - 1], queue[k])

Filled == FilledFrom[Len(queue)]

\* process() renders a quantum.
Process ==
  /\ \A i \in DOMAIN wire : wire[i].delay > 0
  /\ wire' = [i \in DOMAIN wire |-> [wire[i] EXCEPT !.delay = @ - 1]]
  /\ queue' = SubSeq(queue, Filled.shifts + 1, Len(queue))
  /\ offset' = Filled.offset
  /\ out' = Filled.out
  /\ expect' = IF out' = <<>> THEN expect ELSE Last(out') + 1
  /\ horizon' = Larger(horizon - Quantum, -Grace)
  /\ UNCHANGED <<sent, cut, arrived>>

-----------------------------------------------------------------------------
(* A property. *)

\* The page plays what Playout promises: every sample once, in order, as soon as it has
\* arrived and its turn has come, and nothing after a clear that was sent before it.
PlaysAsSent == PlayoutSpec
=============================================================================
