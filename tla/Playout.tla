------------------------------ MODULE Playout -------------------------------
(***************************************************************************)
(* Reply audio as the engine sees it: what sendAudio and sendClear of      *)
(* server.js send, a path to the loudspeaker that is FIFO with a bounded   *)
(* delay, and a player that plays what has arrived, in order. Whether the  *)
(* agent is audible is never measured: the engine infers it from what it   *)
(* has sent. Playback has the player of the page in detail.                *)
(*                                                                         *)
(* Time passes in render quanta (Tick) and is measured in samples. The     *)
(* horizon is kept relative to now, and no lower than -Grace: from there   *)
(* on it makes no difference how long ago it was.                          *)
(***************************************************************************)
EXTENDS Integers, Sequences

CONSTANTS
  Quantum,   \* samples rendered at a time
  Grace,     \* the 300 ms of agentAudible, in samples
  Latency,   \* longest delay of a message, in quanta
  Chunks     \* lengths of the audio buffers Fish sends

ASSUME PlayoutAssumption ==
  /\ Quantum \in Nat \ {0} /\ Latency \in Nat
  /\ Chunks \subseteq Nat \ {0}

\* "300 ms of grace covers transit, playout buffering" (server.js:386)
ASSUME GraceAssumption == Grace \in Nat /\ (Latency + 1) * Quantum <= Grace

VARIABLES
  horizon,   \* playbackHorizon - Date.now()
  sent,      \* samples sent so far; they are numbered from 1
  cut,       \* the number after the last sample sent before the last clear
  wire,      \* messages under way; a clear has length 0
  arrived,   \* the last sample that has arrived
  expect,    \* the sample to be played next
  out        \* the samples rendered last

playoutVars == <<horizon, sent, cut, wire, arrived, expect, out>>

Message == [first: Nat \ {0}, len: Nat, delay: 0..Latency]

(* A slip of the code that the properties notice; no action uses it. *)
Extended(n) == horizon + n       \* a horizon that is past is not replaced by now

-----------------------------------------------------------------------------
Larger(a, b) == IF a >= b THEN a ELSE b

\* agentAudible()
AgentAudible == horizon + Grace > 0

\* Math.max(Date.now(), playbackHorizon) + ms
HorizonAfter(n) == Larger(0, horizon) + n

PlayoutInit ==
  /\ horizon = -Grace
  /\ sent = 0 /\ cut = 1
  /\ wire = <<>>
  /\ arrived = 0 /\ expect = 1 /\ out = <<>>

SendAudio(n) ==
  /\ wire' = Append(wire, [first |-> sent + 1, len |-> n, delay |-> Latency])
  /\ sent' = sent + n
  /\ horizon' = HorizonAfter(n)
  /\ UNCHANGED <<cut, arrived, expect, out>>

\* The horizon becomes 0, long ago.
SendClear ==
  /\ wire' = Append(wire, [first |-> sent + 1, len |-> 0, delay |-> Latency])
  /\ cut' = sent + 1
  /\ horizon' = -Grace
  /\ UNCHANGED <<sent, arrived, expect, out>>

\* A clear drops what has arrived and was not played yet.
Arrives ==
  LET m == Head(wire) IN
  /\ wire # <<>> /\ wire' = Tail(wire)
  /\ arrived' = m.first + m.len - 1
  /\ expect' = IF m.len = 0 THEN m.first ELSE expect
  /\ UNCHANGED <<horizon, sent, cut, out>>

\* A quantum is rendered from what has arrived, and everyone's clock moves on. No
\* message is later than Latency.
Rendered ==
  IF arrived + 1 - expect <= Quantum THEN arrived + 1 - expect ELSE Quantum

Tick ==
  /\ \A i \in DOMAIN wire : wire[i].delay > 0
  /\ wire' = [i \in DOMAIN wire |-> [wire[i] EXCEPT !.delay = @ - 1]]
  /\ out' = [i \in 1..Rendered |-> expect + i - 1]
  /\ expect' = expect + Rendered
  /\ horizon' = Larger(horizon - Quantum, -Grace)
  /\ UNCHANGED <<sent, cut, arrived>>

PlayoutNext == SendClear \/ Arrives \/ Tick \/ \E n \in Chunks : SendAudio(n)

PlayoutSpec == PlayoutInit /\ [][PlayoutNext]_playoutVars

-----------------------------------------------------------------------------
(* Properties. *)

\* What was sent since the last clear and is still to be played.
Remaining == sent + 1 - Larger(expect, cut)

\* The horizon is when the reply ends, give or take the delay of the path: never
\* later than the player ends, and earlier by Latency at most ("bytes shipped =
\* seconds of speaker time", README.md:89).
HorizonTracksPlayout ==
  /\ horizon <= Remaining
  /\ Remaining > 0 => Remaining <= horizon + Latency * Quantum

\* While the player plays what was sent since the last clear, agentAudible says so.
AudibleWhilePlaying == out # <<>> /\ expect > cut => AgentAudible
=============================================================================
