--------------------------- MODULE PlayoutProofs ----------------------------
(***************************************************************************)
(* Proof that the playback horizon tracks what the loudspeaker does, and   *)
(* that the agent counts as audible while it plays, for every quantum,     *)
(* delay and length of the buffers. The argument is about each message     *)
(* under way: when it was sent the horizon covered all audio from it on,   *)
(* so by its deadline the player has lost no more than Latency.            *)
(***************************************************************************)
EXTENDS Playout, TLAPS

\* The next sample to be played that no clear will drop.
Base == Larger(expect, cut)

PlayoutTypeOK ==
  /\ horizon \in Int /\ horizon >= -Grace
  /\ sent \in Nat
  /\ cut \in Int /\ 1 <= cut /\ cut <= sent + 1
  /\ wire \in Seq(Message)
  /\ arrived \in Int /\ 0 <= arrived /\ arrived <= sent
  /\ expect \in Int /\ 1 <= expect /\ expect <= arrived + 1

\* The messages lie behind what has arrived, in order, and in front of what is sent next.
InOrder ==
  /\ \A i \in DOMAIN wire : arrived < wire[i].first /\ wire[i].first + wire[i].len <= sent + 1
  /\ \A i, j \in DOMAIN wire : i < j => wire[i].first + wire[i].len <= wire[j].first

\* Every sample sent that has not arrived is under way.
Carried ==
  \A p \in Int : arrived < p /\ p <= sent =>
    \E i \in DOMAIN wire : wire[i].first <= p /\ p < wire[i].first + wire[i].len

\* No message straddles the last clear, and the clear is under way while the player is
\* behind it.
Cleared ==
  /\ \A i \in DOMAIN wire :
       IF wire[i].len = 0 THEN wire[i].first <= cut
       ELSE cut <= wire[i].first \/ wire[i].first + wire[i].len <= cut
  /\ expect < cut => \E i \in DOMAIN wire : wire[i].len = 0 /\ wire[i].first = cut

\* The time a message has been under way, in samples.
Age(delay) == (Latency - delay) * Quantum

\* When a message was sent the horizon covered all audio from it on; since then it has
\* sunk by the message's age.
Covered ==
  \A i \in DOMAIN wire : wire[i].len > 0 /\ cut <= wire[i].first =>
    sent + 1 - wire[i].first <= horizon + Age(wire[i].delay)

WireInv == PlayoutTypeOK /\ InOrder /\ Carried /\ Cleared /\ Covered

PlayoutInv == WireInv /\ HorizonTracksPlayout /\ AudibleWhilePlaying

-----------------------------------------------------------------------------
(* What each action makes of the wire. *)

\* The fields of a message under way, and the places on the wire.
LEMMA MessageFields ==
  ASSUME PlayoutTypeOK
  PROVE  /\ Len(wire) \in Nat
         /\ DOMAIN wire = 1..Len(wire)
         /\ \A i \in DOMAIN wire :
              /\ wire[i].first \in Int /\ 1 <= wire[i].first
              /\ wire[i].len \in Int /\ 0 <= wire[i].len
              /\ wire[i].delay \in 0..Latency
<1>1. wire \in Seq(Message)
  BY DEF PlayoutTypeOK
<1>2. \A i \in DOMAIN wire : wire[i] \in Message
  BY <1>1
<1> QED
  BY <1>1, <1>2, PlayoutAssumption DEF Message

\* A message is put on the wire behind the others.
LEMMA SendFacts ==
  ASSUME PlayoutTypeOK, NEW n \in Nat,
         wire' = Append(wire, [first |-> sent + 1, len |-> n, delay |-> Latency])
  PROVE  /\ wire' \in Seq(Message)
         /\ DOMAIN wire' = 1..Len(wire) + 1
         /\ \A i \in DOMAIN wire : wire'[i] = wire[i]
         /\ wire'[Len(wire) + 1].first = sent + 1
         /\ wire'[Len(wire) + 1].len = n
         /\ wire'[Len(wire) + 1].delay = Latency
<1> DEFINE m == [first |-> sent + 1, len |-> n, delay |-> Latency]
<1>1. wire \in Seq(Message) /\ m \in Message
  BY PlayoutAssumption DEF PlayoutTypeOK, Message
<1>2. m.first = sent + 1 /\ m.len = n /\ m.delay = Latency
  OBVIOUS
<1> HIDE DEF m
<1>3. wire' = Append(wire, m)
  BY DEF m
<1> QED
  BY <1>1, <1>2, <1>3

\* The first message leaves it.
LEMMA ArrivalFacts ==
  ASSUME PlayoutTypeOK, wire # <<>>, wire' = Tail(wire)
  PROVE  /\ wire' \in Seq(Message)
         /\ 1 \in DOMAIN wire /\ Head(wire) = wire[1]
         /\ DOMAIN wire' = 1..Len(wire) - 1
         /\ \A i \in DOMAIN wire' : i + 1 \in DOMAIN wire /\ wire'[i] = wire[i + 1]
<1>1. wire \in Seq(Message)
  BY DEF PlayoutTypeOK
<1> QED
  BY <1>1

\* Time passes for all of them.
LEMMA TickFacts ==
  ASSUME PlayoutTypeOK, Tick
  PROVE  /\ wire' \in Seq(Message)
         /\ DOMAIN wire' = DOMAIN wire
         /\ \A i \in DOMAIN wire :
              /\ wire'[i].first = wire[i].first /\ wire'[i].len = wire[i].len
              /\ wire'[i].delay = wire[i].delay - 1
              /\ 0 < wire[i].delay
<1>1. wire \in Seq(Message) /\ Len(wire) \in Nat
  BY DEF PlayoutTypeOK
<1>2. \A i \in DOMAIN wire : wire[i] \in Message /\ wire[i].delay > 0
  BY <1>1 DEF Tick
<1>3. wire' = [i \in DOMAIN wire |-> [wire[i] EXCEPT !.delay = @ - 1]]
  BY DEF Tick
<1>4. \A i \in DOMAIN wire : wire'[i] \in Message
  BY <1>2, <1>3, PlayoutAssumption DEF Message
<1>5. DOMAIN wire' = 1..Len(wire)
  BY <1>1, <1>3
<1>6. wire' = [i \in 1..Len(wire) |-> wire'[i]]
  BY <1>1, <1>3
<1>7. wire' \in Seq(Message)
  BY <1>1, <1>4, <1>5, <1>6
<1> QED
  BY <1>1, <1>2, <1>3, <1>7 DEF Message

\* The arithmetic of ages.
LEMMA Ages ==
  ASSUME NEW d \in 0..Latency
  PROVE  /\ Age(d) \in Int
         /\ Age(Latency) = 0
         /\ d > 0 => Age(d - 1) = Age(d) + Quantum /\ Age(d - 1) <= Latency * Quantum
         /\ Latency * Quantum \in Nat
         /\ Latency * Quantum + Quantum <= Grace
<1>1. Latency \in Nat /\ Quantum \in Nat /\ Quantum > 0 /\ Grace \in Nat
      /\ (Latency + 1) * Quantum <= Grace
  BY PlayoutAssumption, GraceAssumption
<1>2. d \in Int /\ 0 <= d /\ d <= Latency
  BY <1>1
<1>3. (Latency + 1) * Quantum = Latency * Quantum + Quantum
  BY <1>1
<1>4. (Latency - (d - 1)) * Quantum = (Latency - d) * Quantum + Quantum
  BY <1>1, <1>2
<1>5. d > 0 => (Latency - (d - 1)) * Quantum <= Latency * Quantum
  BY <1>1, <1>2
<1> QED
  BY <1>1, <1>2, <1>3, <1>4, <1>5 DEF Age

LEMMA StillAbove ==
  ASSUME NEW a \in Int, NEW b \in Int, NEW c \in Int, NEW n \in Nat, b >= a + n, a + c > 0
  PROVE  b + c > 0
OBVIOUS

LEMMA SinkingCover ==
  ASSUME NEW a \in Int, NEW b \in Int, NEW c \in Int, NEW h \in Int, NEW q \in Int,
         NEW g \in Int, a <= h + c, b >= h - q, g = c + q
  PROVE  a <= b + g
OBVIOUS

LEMMA WithinLatency ==
  ASSUME NEW r \in Int, NEW a \in Int, NEW h \in Int, NEW q \in Int, NEW l \in Int,
         r <= h + a, a + q <= l
  PROVE  r <= h - q + l
OBVIOUS

LEMMA GraceCovers ==
  ASSUME NEW h \in Int, NEW b \in Int, NEW q \in Int, NEW l \in Int, NEW g \in Int,
         0 < h + l, b >= h - q, l + q <= g
  PROVE  b + g > 0
OBVIOUS

-----------------------------------------------------------------------------
(* The invariant, action by action. *)

LEMMA InitHolds == PlayoutInit => PlayoutInv
<1> SUFFICES ASSUME PlayoutInit PROVE PlayoutInv
  OBVIOUS
<1>1. PlayoutTypeOK
  <2>1. wire \in Seq(Message)
    BY DEF PlayoutInit
  <2> QED BY <2>1, GraceAssumption DEF PlayoutInit, PlayoutTypeOK
<1>2. InOrder /\ Carried /\ Cleared /\ Covered
  BY DEF PlayoutInit, InOrder, Carried, Cleared, Covered
<1>3. HorizonTracksPlayout /\ AudibleWhilePlaying
  BY GraceAssumption
     DEF PlayoutInit, HorizonTracksPlayout, Remaining, Larger, AudibleWhilePlaying
<1> QED BY <1>1, <1>2, <1>3 DEF PlayoutInv, WireInv

LEMMA SendAudioHolds ==
  ASSUME PlayoutInv, NEW n \in Chunks, SendAudio(n)
  PROVE  PlayoutInv'
<1>n. n \in Nat /\ n > 0
  BY PlayoutAssumption
<1> USE DEF PlayoutInv, WireInv
<1>1. wire' = Append(wire, [first |-> sent + 1, len |-> n, delay |-> Latency])
  BY DEF SendAudio
<1>2. sent' = sent + n /\ cut' = cut /\ arrived' = arrived /\ expect' = expect /\ out' = out
  BY DEF SendAudio
<1>3. horizon' \in Int /\ horizon' >= horizon + n /\ horizon' >= n
      /\ horizon' <= (IF horizon > 0 THEN horizon + n ELSE n)
  BY <1>n DEF SendAudio, HorizonAfter, Larger, PlayoutTypeOK
<1>4. PlayoutTypeOK'
  BY <1>n, <1>1, <1>2, <1>3, SendFacts, GraceAssumption DEF PlayoutTypeOK
<1>5. InOrder'
  BY <1>n, <1>1, <1>2, SendFacts, MessageFields DEF InOrder, PlayoutTypeOK
<1>6. Carried'
  <2> SUFFICES ASSUME NEW p \in Int, arrived < p, p <= sent + n
      PROVE  \E i \in DOMAIN wire' : wire'[i].first <= p /\ p < wire'[i].first + wire'[i].len
    BY <1>2 DEF Carried
  <2>1. CASE p <= sent
    <3>1. PICK i \in DOMAIN wire : wire[i].first <= p /\ p < wire[i].first + wire[i].len
      BY <2>1 DEF Carried
    <3> QED BY <3>1, <1>n, <1>1, SendFacts, MessageFields
  <2>2. CASE p > sent
    <3>1. Len(wire) + 1 \in DOMAIN wire'
      BY <1>n, <1>1, SendFacts, MessageFields
    <3> QED BY <2>2, <3>1, <1>n, <1>1, SendFacts DEF PlayoutTypeOK
  <2> QED BY <2>1, <2>2 DEF PlayoutTypeOK
<1>7. Cleared'
  BY <1>n, <1>1, <1>2, SendFacts, MessageFields DEF Cleared, PlayoutTypeOK
<1>8. Covered'
  <2> SUFFICES ASSUME NEW i \in DOMAIN wire', wire'[i].len > 0, cut <= wire'[i].first
      PROVE  sent + n + 1 - wire'[i].first <= horizon' + Age(wire'[i].delay)
    BY <1>2 DEF Covered, Age
  <2>1. CASE i \in DOMAIN wire
    <3>1. wire'[i] = wire[i]
      BY <2>1, <1>n, <1>1, SendFacts
    <3>2. sent + 1 - wire[i].first <= horizon + Age(wire[i].delay)
      BY <2>1, <3>1 DEF Covered
    <3>3. wire[i].first \in Int /\ Age(wire[i].delay) \in Int
      BY <2>1, MessageFields, Ages
    <3>4. sent \in Int /\ horizon \in Int
      BY DEF PlayoutTypeOK
    <3> HIDE DEF PlayoutInv, WireInv
    <3> QED BY <3>1, <3>2, <3>3, <3>4, <1>3, <1>n
  <2>2. CASE i = Len(wire) + 1
    <3>1. wire'[i].first = sent + 1 /\ wire'[i].delay = Latency
      BY <2>2, <1>n, <1>1, SendFacts
    <3>2. Age(Latency) = 0
      BY Ages, PlayoutAssumption
    <3>3. sent \in Int
      BY DEF PlayoutTypeOK
    <3> HIDE DEF PlayoutInv, WireInv
    <3>4. Age(wire'[i].delay) = 0
      BY <3>1, <3>2
    <3>5. sent + n + 1 - wire'[i].first = n
      BY <3>1, <3>3, <1>n
    <3> QED BY <3>4, <3>5, <1>3, <1>n
  <2> QED BY <2>1, <2>2, <1>n, <1>1, SendFacts, MessageFields
<1>9. HorizonTracksPlayout'
  <2>1. Remaining \in Int /\ Remaining >= 0 /\ Remaining' = Remaining + n
    BY <1>2, <1>n DEF Remaining, Larger, PlayoutTypeOK
  <2>2. Latency * Quantum \in Nat
    BY Ages, PlayoutAssumption
  <2>3. Remaining' <= horizon' + Latency * Quantum
    BY <2>1, <2>2, <1>3, <1>n DEF HorizonTracksPlayout, PlayoutTypeOK
  <2>4. horizon' <= Remaining'
    BY <2>1, <1>3, <1>n DEF HorizonTracksPlayout, PlayoutTypeOK
  <2> QED BY <2>3, <2>4 DEF HorizonTracksPlayout
<1>10. AudibleWhilePlaying'
  <2>1. horizon \in Int /\ Grace \in Int
    BY GraceAssumption DEF PlayoutTypeOK
  <2>2. horizon + Grace > 0 => horizon' + Grace > 0
    <3>1. horizon' \in Int /\ horizon' >= horizon + n
      BY <1>3
    <3> QED BY <2>1, <3>1, <1>n, StillAbove
  <2> QED BY <2>2, <1>2 DEF AudibleWhilePlaying, AgentAudible
<1> QED BY <1>4, <1>5, <1>6, <1>7, <1>8, <1>9, <1>10

\* Nothing remains of what was sent; what is still played was sent before the clear.
LEMMA SendClearHolds ==
  ASSUME PlayoutInv, SendClear
  PROVE  PlayoutInv'
<1> USE DEF PlayoutInv, WireInv
<1>1. wire' = Append(wire, [first |-> sent + 1, len |-> 0, delay |-> Latency])
  BY DEF SendClear
<1>2. sent' = sent /\ cut' = sent + 1 /\ arrived' = arrived /\ expect' = expect /\ out' = out
      /\ horizon' = -Grace
  BY DEF SendClear
<1>4. PlayoutTypeOK'
  BY <1>1, <1>2, SendFacts, GraceAssumption DEF PlayoutTypeOK
<1>5. InOrder'
  BY <1>1, <1>2, SendFacts, MessageFields DEF InOrder, PlayoutTypeOK
<1>6. Carried'
  <2> SUFFICES ASSUME NEW p \in Int, arrived < p, p <= sent
      PROVE  \E i \in DOMAIN wire' : wire'[i].first <= p /\ p < wire'[i].first + wire'[i].len
    BY <1>2 DEF Carried
  <2>1. PICK i \in DOMAIN wire : wire[i].first <= p /\ p < wire[i].first + wire[i].len
    BY DEF Carried
  <2> QED BY <2>1, <1>1, SendFacts, MessageFields
<1>7. Cleared'
  <2>1. ASSUME NEW i \in DOMAIN wire
        PROVE  IF wire[i].len = 0 THEN wire[i].first <= sent + 1
               ELSE sent + 1 <= wire[i].first \/ wire[i].first + wire[i].len <= sent + 1
    BY MessageFields DEF InOrder, PlayoutTypeOK
  <2>2. Len(wire) + 1 \in DOMAIN wire' /\ wire'[Len(wire) + 1].len = 0
        /\ wire'[Len(wire) + 1].first = cut'
    BY <1>1, <1>2, SendFacts, MessageFields
  <2> QED BY <2>1, <2>2, <1>1, <1>2, SendFacts, MessageFields DEF Cleared, PlayoutTypeOK
<1>8. Covered'
  <2> SUFFICES ASSUME NEW i \in DOMAIN wire', wire'[i].len > 0, sent + 1 <= wire'[i].first
      PROVE  FALSE
    BY <1>2 DEF Covered
  <2>1. i \in DOMAIN wire /\ wire'[i] = wire[i]
    BY <1>1, SendFacts, MessageFields
  <2> QED BY <2>1, MessageFields DEF InOrder, PlayoutTypeOK
<1>9. HorizonTracksPlayout'
  BY <1>2, GraceAssumption DEF HorizonTracksPlayout, Remaining, Larger, PlayoutTypeOK
<1>10. AudibleWhilePlaying'
  BY <1>2 DEF AudibleWhilePlaying, PlayoutTypeOK
<1> QED BY <1>4, <1>5, <1>6, <1>7, <1>8, <1>9, <1>10

\* The others move up; a clear moves the player, but to no place behind the last clear.
LEMMA ArrivesHolds ==
  ASSUME PlayoutInv, Arrives
  PROVE  PlayoutInv'
<1> USE DEF PlayoutInv, WireInv
<1>1. wire # <<>> /\ wire' = Tail(wire)
  BY DEF Arrives
<1>2. horizon' = horizon /\ sent' = sent /\ cut' = cut /\ out' = out
  BY DEF Arrives
<1>3. 1 \in DOMAIN wire /\ wire[1].first \in Int /\ wire[1].len \in Int /\ 0 <= wire[1].len
  BY <1>1, ArrivalFacts, MessageFields
<1>4. /\ arrived' = wire[1].first + wire[1].len - 1
      /\ expect' = IF wire[1].len = 0 THEN wire[1].first ELSE expect
  BY <1>1, ArrivalFacts DEF Arrives
<1>5. arrived < wire[1].first /\ wire[1].first + wire[1].len <= sent + 1
  BY <1>3 DEF InOrder
<1>6. wire[1].len = 0 => wire[1].first <= cut /\ expect <= wire[1].first
  BY <1>3, <1>5 DEF Cleared, PlayoutTypeOK
<1>7. \A i \in DOMAIN wire : i = 1 \/ (i - 1 \in DOMAIN wire' /\ wire'[i - 1] = wire[i])
  BY <1>1, ArrivalFacts, MessageFields
<1>8. PlayoutTypeOK'
  <2>1. horizon' \in Int /\ horizon' >= -Grace /\ sent' \in Nat
        /\ cut' \in Int /\ 1 <= cut' /\ cut' <= sent' + 1
    BY <1>2 DEF PlayoutTypeOK
  <2>2. arrived' \in Int /\ 0 <= arrived' /\ arrived' <= sent'
    BY <1>2, <1>3, <1>4, <1>5 DEF PlayoutTypeOK
  <2>3. expect' \in Int /\ 1 <= expect' /\ expect' <= arrived' + 1
    BY <1>3, <1>4, <1>5 DEF PlayoutTypeOK
  <2> QED BY <2>1, <2>2, <2>3, <1>1, ArrivalFacts DEF PlayoutTypeOK
<1>9. InOrder'
  <2>1. ASSUME NEW i \in DOMAIN wire'
        PROVE  /\ i + 1 \in DOMAIN wire /\ wire'[i] = wire[i + 1] /\ 1 < i + 1
               /\ wire[1].first + wire[1].len <= wire[i + 1].first
               /\ wire[i + 1].first \in Int /\ wire[i + 1].len \in Int
               /\ wire[i + 1].first + wire[i + 1].len <= sent + 1
    <3>1. i + 1 \in DOMAIN wire /\ wire'[i] = wire[i + 1] /\ 1 < i + 1
      BY <1>1, ArrivalFacts, MessageFields
    <3> QED BY <3>1, <1>3, MessageFields DEF InOrder
  <2>2. ASSUME NEW i \in DOMAIN wire', NEW j \in DOMAIN wire', i < j
        PROVE  wire'[i].first + wire'[i].len <= wire'[j].first
    <3>1. i + 1 < j + 1
      BY <2>2, <1>1, ArrivalFacts, MessageFields
    <3> QED BY <3>1, <2>1 DEF InOrder
  <2> QED BY <2>1, <2>2, <1>2, <1>3, <1>4 DEF InOrder
<1>10. Carried'
  <2> SUFFICES ASSUME NEW p \in Int, arrived' < p, p <= sent
      PROVE  \E i \in DOMAIN wire' : wire'[i].first <= p /\ p < wire'[i].first + wire'[i].len
    BY <1>2 DEF Carried
  <2>1. arrived < p /\ wire[1].first + wire[1].len <= p
    BY <1>3, <1>4, <1>5 DEF PlayoutTypeOK
  <2>2. PICK i \in DOMAIN wire : wire[i].first <= p /\ p < wire[i].first + wire[i].len
    BY <2>1 DEF Carried
  <2>3. i # 1
    BY <2>1, <2>2, <1>3
  <2> QED BY <2>2, <2>3, <1>7
<1>11. Cleared'
  <2>1. \A i \in DOMAIN wire' :
          IF wire'[i].len = 0 THEN wire'[i].first <= cut
          ELSE cut <= wire'[i].first \/ wire'[i].first + wire'[i].len <= cut
    BY <1>1, ArrivalFacts DEF Cleared
  <2>2. ASSUME expect' < cut
        PROVE  \E i \in DOMAIN wire' : wire'[i].len = 0 /\ wire'[i].first = cut
    <3>1. expect < cut
      BY <2>2, <1>3, <1>4, <1>6 DEF PlayoutTypeOK
    <3>2. PICK i \in DOMAIN wire : wire[i].len = 0 /\ wire[i].first = cut
      BY <3>1 DEF Cleared
    <3>3. i # 1
      BY <2>2, <3>2, <1>4, <1>3 DEF PlayoutTypeOK
    <3> QED BY <3>2, <3>3, <1>7
  <2> QED BY <2>1, <2>2, <1>2 DEF Cleared
<1>12. Covered'
  BY <1>1, <1>2, ArrivalFacts DEF Covered, Age
<1>13. HorizonTracksPlayout'
  <2>1. Remaining' = Remaining
    BY <1>2, <1>3, <1>4, <1>6 DEF Remaining, Larger, PlayoutTypeOK
  <2> QED BY <2>1, <1>2 DEF HorizonTracksPlayout
<1>14. AudibleWhilePlaying'
  <2>1. expect' > cut => expect > cut
    BY <1>3, <1>4, <1>6 DEF PlayoutTypeOK
  <2> QED BY <2>1, <1>2 DEF AudibleWhilePlaying, AgentAudible
<1> QED BY <1>8, <1>9, <1>10, <1>11, <1>12, <1>13, <1>14

\* What a quantum of time does to the numbers.
LEMMA TickNumbers ==
  ASSUME PlayoutTypeOK, Tick
  PROVE  /\ Rendered \in Int /\ 0 <= Rendered /\ Rendered <= Quantum
         /\ Rendered < Quantum => Rendered = arrived + 1 - expect
         /\ expect' = expect + Rendered /\ expect' <= arrived + 1
         /\ horizon' \in Int /\ horizon' >= horizon - Quantum /\ horizon' >= -Grace
         /\ horizon' = horizon - Quantum \/ horizon' = -Grace
         /\ out' # <<>> => 0 < Rendered
         /\ sent' = sent /\ cut' = cut /\ arrived' = arrived
<1>1. Quantum \in Int /\ 0 < Quantum /\ Grace \in Int
  BY PlayoutAssumption, GraceAssumption
<1>2. /\ Rendered \in Int /\ 0 <= Rendered /\ Rendered <= Quantum
      /\ Rendered < Quantum => Rendered = arrived + 1 - expect
      /\ expect + Rendered <= arrived + 1
  BY <1>1 DEF Rendered, PlayoutTypeOK
<1>3. horizon' = Larger(horizon - Quantum, -Grace)
  BY DEF Tick
<1>4. /\ horizon' \in Int /\ horizon' >= horizon - Quantum /\ horizon' >= -Grace
      /\ horizon' = horizon - Quantum \/ horizon' = -Grace
  BY <1>1, <1>3 DEF Larger, PlayoutTypeOK
<1>5. Rendered = 0 => out' = <<>>
  <2> SUFFICES ASSUME Rendered = 0 PROVE out' = <<>>
    OBVIOUS
  <2>1. out' = [i \in 1..0 |-> expect + i - 1]
    BY DEF Tick
  <2> QED BY <2>1
<1> QED BY <1>2, <1>4, <1>5 DEF Tick

\* When the player falls short, or is behind the clear, what it would play next is under way.
LEMMA NextUnderWay ==
  ASSUME WireInv, Tick, expect < cut \/ Rendered < Quantum,
         Larger(expect', cut) <= sent
  PROVE  \E i \in DOMAIN wire :
           wire[i].len > 0 /\ wire[i].first = Larger(expect', cut)
<1> USE DEF WireInv
<1>1. CASE expect < cut
  <2>1. PICK c \in DOMAIN wire : wire[c].len = 0 /\ wire[c].first = cut
    BY <1>1 DEF Cleared
  <2>2. arrived < cut
    BY <2>1 DEF InOrder
  <2>3. expect' \in Int /\ expect' <= cut /\ cut \in Int
    BY <2>2, TickNumbers DEF PlayoutTypeOK
  <2>4. Larger(expect', cut) = cut
    BY <2>3 DEF Larger
  <2>5. PICK i \in DOMAIN wire : wire[i].first <= cut /\ cut < wire[i].first + wire[i].len
    BY <2>2, <2>3, <2>4 DEF Carried
  <2>6. wire[i].len > 0 /\ wire[i].first = cut
    BY <2>5, <2>3, MessageFields DEF Cleared
  <2> QED BY <2>4, <2>6
<1>2. CASE expect >= cut /\ Rendered < Quantum
  <2>1. expect' = arrived + 1 /\ arrived \in Int /\ cut \in Int /\ arrived + 1 >= cut
    BY <1>2, TickNumbers DEF PlayoutTypeOK
  <2>2. Larger(expect', cut) = arrived + 1
    BY <2>1 DEF Larger
  <2>3. PICK i \in DOMAIN wire : wire[i].first <= arrived + 1
                                 /\ arrived + 1 < wire[i].first + wire[i].len
    BY <2>1, <2>2 DEF Carried
  <2>4. wire[i].len > 0 /\ wire[i].first = arrived + 1
    BY <2>1, <2>3, MessageFields DEF InOrder
  <2> QED BY <2>2, <2>4
<1> QED BY <1>1, <1>2 DEF PlayoutTypeOK

LEMMA TickHolds ==
  ASSUME PlayoutInv, Tick
  PROVE  PlayoutInv'
<1> USE DEF PlayoutInv, WireInv
<1>1. Quantum \in Int /\ 0 < Quantum /\ Grace \in Int /\ Latency * Quantum \in Int
      /\ Latency * Quantum + Quantum <= Grace
  BY PlayoutAssumption, GraceAssumption, Ages
<1>2. PlayoutTypeOK'
  BY TickNumbers, TickFacts DEF PlayoutTypeOK
<1>3. InOrder'
  BY TickNumbers, TickFacts DEF InOrder
<1>4. Carried'
  BY TickNumbers, TickFacts DEF Carried
<1>5. Cleared'
  BY TickNumbers, TickFacts DEF Cleared, PlayoutTypeOK
<1>6. ASSUME NEW i \in DOMAIN wire, wire[i].len > 0, cut <= wire[i].first
      PROVE  /\ Age(wire[i].delay) \in Int /\ wire[i].first \in Int
             /\ Age(wire'[i].delay) = Age(wire[i].delay) + Quantum
             /\ Age(wire[i].delay) + Quantum <= Latency * Quantum
             /\ sent + 1 - wire[i].first <= horizon + Age(wire[i].delay)
  <2>1. wire[i].delay \in 0..Latency /\ 0 < wire[i].delay /\ wire'[i].delay = wire[i].delay - 1
    BY TickFacts, MessageFields
  <2> QED BY <2>1, <1>6, Ages, MessageFields DEF Covered
<1>7. Covered'
  <2> SUFFICES ASSUME NEW i \in DOMAIN wire, wire[i].len > 0, cut <= wire[i].first
      PROVE  sent + 1 - wire[i].first <= horizon' + Age(wire'[i].delay)
    BY TickNumbers, TickFacts DEF Covered, Age
  <2>1. horizon' \in Int /\ horizon' >= horizon - Quantum /\ horizon \in Int /\ sent \in Int
    BY TickNumbers DEF PlayoutTypeOK
  <2> QED BY <2>1, <1>1, <1>6, SinkingCover
<1>8. HorizonTracksPlayout'
  <2>1. /\ Remaining \in Int /\ Remaining' = sent + 1 - Larger(expect', cut)
        /\ Remaining' \in Int /\ Remaining' >= 0 /\ Remaining' >= Remaining - Quantum
        /\ expect >= cut /\ Rendered = Quantum => Remaining' = Remaining - Quantum
    <3>1. /\ Rendered \in Int /\ 0 <= Rendered /\ Rendered <= Quantum
          /\ expect' = expect + Rendered /\ expect' <= arrived + 1
          /\ sent' = sent /\ cut' = cut
      BY TickNumbers
    <3>2. sent \in Int /\ cut \in Int /\ expect \in Int /\ arrived \in Int
          /\ arrived <= sent /\ cut <= sent + 1
      BY DEF PlayoutTypeOK
    <3>3. Remaining = sent + 1 - Larger(expect, cut)
          /\ Remaining' = sent + 1 - Larger(expect + Rendered, cut)
      BY <3>1 DEF Remaining, Larger
    <3> HIDE DEF PlayoutInv, WireInv
    <3> QED BY <3>1, <3>2, <3>3, <1>1 DEF Larger
  <2>2. horizon \in Int /\ horizon' \in Int /\ horizon' >= horizon - Quantum
        /\ (horizon' = horizon - Quantum \/ horizon' = -Grace)
    BY TickNumbers DEF PlayoutTypeOK
  <2>3. horizon' <= Remaining'
    BY <1>1, <2>1, <2>2, GraceAssumption DEF HorizonTracksPlayout
  <2>4. ASSUME Remaining' > 0
        PROVE  Remaining' <= horizon - Quantum + Latency * Quantum
    <3>1. CASE expect >= cut /\ Rendered = Quantum
      BY <3>1, <2>1, <2>2, <2>4, <1>1 DEF HorizonTracksPlayout
    <3>2. CASE expect < cut \/ Rendered < Quantum
      <4>1. Larger(expect', cut) <= sent /\ Larger(expect', cut) >= cut
        BY <2>1, <2>4, TickNumbers DEF Larger, PlayoutTypeOK
      <4>2. PICK i \in DOMAIN wire : wire[i].len > 0 /\ wire[i].first = Larger(expect', cut)
        BY <3>2, <4>1, NextUnderWay
      <4>3. Remaining' = sent + 1 - wire[i].first
        BY <4>2, <2>1
      <4>4. Remaining' <= horizon + Age(wire[i].delay)
            /\ Age(wire[i].delay) \in Int /\ Age(wire[i].delay) + Quantum <= Latency * Quantum
        BY <4>1, <4>2, <4>3, <1>6
      <4> QED BY <4>4, <2>1, <2>2, <1>1, WithinLatency
    <3> QED BY <3>1, <3>2, TickNumbers, <1>1 DEF PlayoutTypeOK
  <2>5. Remaining' > 0 => Remaining' <= horizon' + Latency * Quantum
    BY <2>1, <2>2, <2>4, <1>1
  <2> QED BY <2>3, <2>5 DEF HorizonTracksPlayout
<1>9. AudibleWhilePlaying'
  <2> SUFFICES ASSUME out' # <<>>, expect' > cut
      PROVE  horizon' + Grace > 0
    BY TickNumbers DEF AudibleWhilePlaying, AgentAudible
  <2>1. 0 < Rendered
    BY TickNumbers
  <2>2. expect >= cut
    <3> SUFFICES ASSUME expect < cut PROVE FALSE
      BY DEF PlayoutTypeOK
    <3>1. arrived < cut
      BY DEF Cleared, InOrder
    <3> QED BY <3>1, TickNumbers DEF PlayoutTypeOK
  <2>3. Remaining \in Int /\ Remaining > 0
    BY <2>1, <2>2, TickNumbers DEF Remaining, Larger, PlayoutTypeOK
  <2>4. 0 < horizon + Latency * Quantum
    BY <2>3, <1>1 DEF HorizonTracksPlayout, PlayoutTypeOK
  <2>5. horizon \in Int /\ horizon' \in Int /\ horizon' >= horizon - Quantum
    BY TickNumbers DEF PlayoutTypeOK
  <2> QED BY <2>4, <2>5, <1>1, GraceCovers
<1> QED BY <1>2, <1>3, <1>4, <1>5, <1>7, <1>8, <1>9

-----------------------------------------------------------------------------
(* The theorems. *)

LEMMA InvIsInductive == PlayoutInv /\ [PlayoutNext]_playoutVars => PlayoutInv'
<1> SUFFICES ASSUME PlayoutInv, [PlayoutNext]_playoutVars PROVE PlayoutInv'
  OBVIOUS
<1>1. ASSUME NEW n \in Chunks, SendAudio(n) PROVE PlayoutInv'
  BY <1>1, SendAudioHolds
<1>2. CASE SendClear
  BY <1>2, SendClearHolds
<1>3. CASE Arrives
  BY <1>3, ArrivesHolds
<1>4. CASE Tick
  BY <1>4, TickHolds
<1>5. CASE UNCHANGED playoutVars
  BY <1>5 DEF playoutVars, PlayoutInv, WireInv, PlayoutTypeOK, InOrder, Carried, Cleared, Covered,
     Age, HorizonTracksPlayout, Remaining, Larger, AudibleWhilePlaying, AgentAudible
<1> QED BY <1>1, <1>2, <1>3, <1>4, <1>5 DEF PlayoutNext

LEMMA InvAlways == PlayoutSpec => []PlayoutInv
  BY InitHolds, InvIsInductive, PTL DEF PlayoutSpec

\* The horizon sendAudio keeps (server.js:376-383) is when the reply ends at the
\* loudspeaker: never later, and earlier by the delay of the path at most.
THEOREM HorizonTracks == PlayoutSpec => []HorizonTracksPlayout
<1>1. PlayoutInv => HorizonTracksPlayout
  BY DEF PlayoutInv
<1> QED BY <1>1, InvAlways, PTL

\* While the player plays what was sent since the last clear, agentAudible
\* (server.js:385-389) is true: its grace covers the delay of the path.
THEOREM AgentAudibleWhilePlaying == PlayoutSpec => []AudibleWhilePlaying
<1>1. PlayoutInv => AudibleWhilePlaying
  BY DEF PlayoutInv
<1> QED BY <1>1, InvAlways, PTL
=============================================================================
