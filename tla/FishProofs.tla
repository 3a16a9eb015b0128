----------------------------- MODULE FishProofs -----------------------------
(***************************************************************************)
(* The text side of a Fish socket, for every set of clauses and any number *)
(* of them: what Fish is sent is the request as it was written, in order,  *)
(* and the turn hears of the end once.                                     *)
(***************************************************************************)
EXTENDS FishTurn, TLAPS

\* Every event has the form a socket may carry.
LEMMA TextsAreEvents ==
  ASSUME NEW cs \in Seq(Clauses)
  PROVE  [i \in DOMAIN cs |-> Text(cs[i])] \in Seq(Event)
<1>1. cs \in [1..Len(cs) -> Clauses] /\ DOMAIN cs = 1..Len(cs) /\ Len(cs) \in Nat
  OBVIOUS
<1> HIDE DEF Clauses
<1>2. \A c \in Clauses : Text(c) \in Event
  BY DEF Event, Text
<1>3. [i \in DOMAIN cs |-> Text(cs[i])] \in [1..Len(cs) -> Event]
  BY <1>1, <1>2
<1> QED
  BY <1>1, <1>3

LEMMA EndingIsEvents == Ending \in Seq(Event)
BY DEF Ending, Event

\* What Write does to the types, whatever events it is given.
LEMMA WriteTypes ==
  ASSUME FishTypeOK, NEW es \in Seq(Event), Write(es), ended' \in BOOLEAN
  PROVE  FishTypeOK'
<1> HIDE DEF Event
<1>1. queue' \in Seq(Event)
  BY DEF FishTypeOK, Write, QueueAfter
<1>2. wire' \in Seq(Event \cup {Start})
  <2>1. es \in Seq(Event \cup {Start})
    OBVIOUS
  <2> QED
    BY <2>1 DEF FishTypeOK, Write, WireAfter
<1>3. asked' \in Seq(Event)
  BY DEF FishTypeOK, Write
<1> QED
  BY <1>1, <1>2, <1>3 DEF FishTypeOK, Write

\* The first line of a request is the start event: the types at FishOpens.
LEMMA OpensTypes ==
  ASSUME FishTypeOK, FishOpens
  PROVE  FishTypeOK'
<1> HIDE DEF Event, Start
<1>1. queue \in Seq(Event \cup {Start})
  BY DEF FishTypeOK
<1>2. <<Start>> \in Seq(Event \cup {Start})
  OBVIOUS
<1>3. Opening(queue) \in Seq(Event \cup {Start})
  BY <1>1, <1>2 DEF Opening
<1> QED
  BY <1>3 DEF FishTypeOK, FishOpens

\* Type correctness: every variable keeps its type, whatever is written and
\* whatever becomes of the socket.
THEOREM FishTypes == FishSpec => []FishTypeOK
<1>1. FishInit => FishTypeOK
  <2>1. /\ << >> \in Seq(Event)
        /\ << >> \in Seq(Event \cup {Start})
        /\ << >> \in Seq({"finished", "failed", "error"})
    <3> HIDE DEF Event, Start
    <3> QED
      OBVIOUS
  <2> QED
    BY <2>1 DEF FishInit, FishTypeOK
<1>2. FishTypeOK /\ [FishNext]_fishVars => FishTypeOK'
  <2> SUFFICES ASSUME FishTypeOK, [FishNext]_fishVars PROVE FishTypeOK'
    OBVIOUS
  <2> USE DEF FishTypeOK
  <2> HIDE DEF Event, Start
  <2>1. ASSUME NEW cs \in Seq(Clauses), PushTexts(cs) PROVE FishTypeOK'
    BY <2>1, TextsAreEvents, WriteTypes DEF PushTexts
  <2>2. ASSUME NEW cs \in Seq(Clauses), EndInput(cs) PROVE FishTypeOK'
    <3>1. [i \in DOMAIN cs |-> Text(cs[i])] \o Ending \in Seq(Event)
      BY TextsAreEvents, EndingIsEvents
    <3> QED
      BY <2>2, <3>1, WriteTypes DEF EndInput
  <2>3. CASE Hangup
    BY <2>3 DEF Hangup, CloseFish
  <2>4. CASE FishOpens
    BY <2>4, OpensTypes
  <2>5. CASE FishFails
    BY <2>5 DEF FishFails, FailureReported
  <2>6. CASE FishGone
    BY <2>6 DEF FishGone
  <2>7. ASSUME NEW v \in {"finished", "failed"}, FishFinishes(v) PROVE FishTypeOK'
    BY <2>7 DEF FishFinishes
  <2>8. CASE UNCHANGED fishVars
    BY <2>8 DEF fishVars
  <2> QED
    BY <2>1, <2>2, <2>3, <2>4, <2>5, <2>6, <2>7, <2>8 DEF FishNext
<1> QED
  BY <1>1, <1>2, PTL DEF FishSpec

\* How the flags and the socket go together: a request that was told of its end, or
\* that the turn hung up on, is closed.
SocketMatchesFlags ==
  /\ open => sock # "connecting"
  /\ sock = "open" => open
  /\ verdicts # << >> => closed /\ sock \in {"closing", "gone"}
  /\ hungUp => closed

\* The turn hears of the end of its request at most once, and never of an error
\* after it has hung up. The invariant carries along how the flags and the socket go
\* together.
THEOREM OneVerdictOnly == FishSpec => [](SocketMatchesFlags /\ OneVerdict)
<1> DEFINE Inv == FishTypeOK /\ SocketMatchesFlags /\ OneVerdict
<1>1. FishInit => SocketMatchesFlags /\ OneVerdict
  BY DEF FishInit, SocketMatchesFlags, OneVerdict
<1>2. Inv /\ [FishNext]_fishVars => SocketMatchesFlags' /\ OneVerdict'
  <2> SUFFICES ASSUME Inv, [FishNext]_fishVars PROVE SocketMatchesFlags' /\ OneVerdict'
    OBVIOUS
  <2> USE DEF FishTypeOK, SocketMatchesFlags, OneVerdict
  <2> HIDE DEF Event, Start
  <2>1. ASSUME NEW cs \in Seq(Clauses), PushTexts(cs) \/ EndInput(cs)
        PROVE  SocketMatchesFlags' /\ OneVerdict'
    BY <2>1 DEF PushTexts, EndInput, Write
  <2>2. CASE Hangup
    <3>1. /\ open' = open /\ closed' = TRUE /\ verdicts' = verdicts
          /\ hungUp' = (hungUp \/ ~closed)
      BY <2>2 DEF Hangup, CloseFish
    <3>2. /\ sock' # "open"
          /\ sock' = "connecting" => FALSE
          /\ sock \in {"closing", "gone"} => sock' = sock
      BY <2>2 DEF Hangup, CloseFish
    <3>3. SocketMatchesFlags'
      BY <3>1, <3>2
    <3>4. ~closed => verdicts # <<"error">>
      <4>1. ~closed => verdicts = << >>
        OBVIOUS
      <4>2. Len(<< >>) = 0 /\ Len(<<"error">>) = 1
        OBVIOUS
      <4> QED
        BY <4>1, <4>2
    <3>5. OneVerdict'
      BY <3>1, <3>4
    <3> QED
      BY <3>3, <3>5
  <2>3. CASE FishOpens
    BY <2>3 DEF FishOpens
  <2>4. CASE FishFails
    <3>1. UNCHANGED <<open, hungUp>> /\ sock' = "gone" /\ closed' = TRUE
      BY <2>4 DEF FishFails
    <3>2. CASE closed
      BY <2>4, <3>1, <3>2 DEF FishFails, FailureReported
    <3>3. CASE ~closed
      <4>1. verdicts = << >> /\ ~hungUp
        BY <3>3
      <4>2. verdicts' = <<"error">>
        BY <2>4, <3>3, <4>1 DEF FishFails, FailureReported
      <4> QED
        BY <3>1, <4>1, <4>2
    <3> QED
      BY <3>2, <3>3
  <2>5. CASE FishGone
    BY <2>5 DEF FishGone
  <2>6. ASSUME NEW v \in {"finished", "failed"}, FishFinishes(v)
        PROVE  SocketMatchesFlags' /\ OneVerdict'
    BY <2>6 DEF FishFinishes
  <2>7. CASE UNCHANGED fishVars
    BY <2>7 DEF fishVars
  <2> QED
    BY <2>1, <2>2, <2>3, <2>4, <2>5, <2>6, <2>7 DEF FishNext
<1> QED
  BY <1>1, <1>2, FishTypes, PTL DEF FishSpec

-----------------------------------------------------------------------------
(* The order of the request. *)

\* What begins a sequence begins every extension of it.
LEMMA BeginsExtension ==
  ASSUME NEW S, NEW s \in Seq(S), NEW t \in Seq(S), NEW e \in Seq(S),
         Request!Begins(s, t)
  PROVE  Request!Begins(s, t \o e)
BY DEF Request!Begins

LEMMA BeginsItself ==
  ASSUME NEW S, NEW s \in Seq(S)
  PROVE  Request!Begins(s, s)
BY DEF Request!Begins

LEMMA EmptyBegins ==
  ASSUME NEW S, NEW t \in Seq(S)
  PROVE  Request!Begins(<< >>, t)
BY DEF Request!Begins

LEMMA OneThenMany ==
  ASSUME NEW S, NEW x \in S, NEW s \in Seq(S), NEW e \in Seq(S)
  PROVE  /\ <<x>> \o s \in Seq(S)
         /\ (<<x>> \o s) \o e = <<x>> \o (s \o e)
<1>1. <<x>> \in Seq(S)
  OBVIOUS
<1> QED
  BY <1>1

\* Writing keeps the order, whether it goes to the queue or to the socket.
LEMMA WriteInOrder ==
  ASSUME FishTypeOK, SocketMatchesFlags, RequestInOrder, NEW es \in Seq(Event), Write(es)
  PROVE  RequestInOrder'
<1> DEFINE Wire == Event \cup {Start}
<1> HIDE DEF Event, Start
<1>1. /\ es \in Seq(Wire) /\ asked \in Seq(Wire) /\ wire \in Seq(Wire) /\ Start \in Wire
      /\ asked \in Seq(Event) /\ open \in BOOLEAN /\ closed \in BOOLEAN
  BY DEF FishTypeOK
<1>2. UNCHANGED <<sock, open, closed>>
  BY DEF Write
<1> HIDE DEF Wire
<1>3. CASE ~open
  BY <1>1, <1>2, <1>3 DEF Write, QueueAfter, WireAfter, RequestInOrder
<1>4. CASE open /\ closed
  BY <1>2, <1>4 DEF Write, QueueAfter, WireAfter, RequestInOrder
<1>5. CASE open /\ ~closed
  <2>1. queue' = queue /\ asked' = asked \o es
    BY <1>5 DEF Write, QueueAfter
  <2>2. /\ <<Start>> \o asked \in Seq(Wire)
        /\ (<<Start>> \o asked) \o es = <<Start>> \o (asked \o es)
        /\ <<Start>> \o (asked \o es) \in Seq(Wire)
    <3>1. asked \o es \in Seq(Wire)
      BY <1>1
    <3> QED
      BY <1>1, <3>1, OneThenMany
  <2>3. CASE sock = "open"
    <3>1. wire' = wire \o es /\ wire = <<Start>> \o asked
      BY <1>5, <2>3 DEF Write, WireAfter, RequestInOrder
    <3>2. wire' = <<Start>> \o asked'
      BY <2>1, <2>2, <3>1
    <3>3. Request!Begins(wire', <<Start>> \o asked')
      BY <2>1, <2>2, <3>2, BeginsItself
    <3> QED
      BY <1>2, <1>5, <2>1, <3>2, <3>3 DEF RequestInOrder
  <2>4. CASE sock # "open"
    <3>1. wire' = wire /\ Request!Begins(wire, <<Start>> \o asked)
      BY <1>5, <2>4 DEF Write, WireAfter, RequestInOrder
    <3>2. Request!Begins(wire, (<<Start>> \o asked) \o es)
      BY <1>1, <2>2, <3>1, BeginsExtension
    <3> QED
      BY <1>2, <1>5, <2>1, <2>2, <2>4, <3>1, <3>2 DEF RequestInOrder
  <2> QED
    BY <2>3, <2>4
<1> QED
  BY <1>1, <1>3, <1>4, <1>5

\* Opening sends the start event and then what waited.
LEMMA OpensInOrder ==
  ASSUME FishTypeOK, SocketMatchesFlags, RequestInOrder, FishOpens
  PROVE  RequestInOrder'
<1> HIDE DEF Event, Start
<1>1. ~open /\ queue = asked /\ asked' = asked /\ open' /\ queue' = << >>
  BY DEF FishOpens, SocketMatchesFlags, RequestInOrder, FishTypeOK
<1>2. wire' = <<Start>> \o asked'
  BY <1>1 DEF FishOpens, Opening
<1>3. <<Start>> \o asked' \in Seq(Event \cup {Start})
  <2>1. asked' \in Seq(Event \cup {Start}) /\ Start \in Event \cup {Start} /\ << >> \in Seq(Event \cup {Start})
    BY <1>1 DEF FishTypeOK
  <2> QED
    BY <2>1, OneThenMany
<1>4. Request!Begins(wire', <<Start>> \o asked')
  BY <1>2, <1>3, BeginsItself
<1> QED
  BY <1>1, <1>2, <1>4 DEF RequestInOrder

\* Everything the other steps change leaves the order alone: they do not write,
\* and none of them opens the socket.
LEMMA OthersInOrder ==
  ASSUME RequestInOrder, UNCHANGED <<open, queue, wire, asked>>,
         sock' = "open" => sock = "open"
  PROVE  RequestInOrder'
BY DEF RequestInOrder

\* Each step keeps the request in order.
LEMMA StepInOrder ==
  ASSUME FishTypeOK, SocketMatchesFlags, RequestInOrder, [FishNext]_fishVars
  PROVE  RequestInOrder'
<1> HIDE DEF Event, Start
<1>1. ASSUME NEW cs \in Seq(Clauses), PushTexts(cs) PROVE RequestInOrder'
  BY <1>1, TextsAreEvents, WriteInOrder DEF PushTexts
<1>2. ASSUME NEW cs \in Seq(Clauses), EndInput(cs) PROVE RequestInOrder'
  <2>1. [i \in DOMAIN cs |-> Text(cs[i])] \o Ending \in Seq(Event)
    BY TextsAreEvents, EndingIsEvents
  <2> QED
    BY <1>2, <2>1, WriteInOrder DEF EndInput
<1>3. CASE Hangup
  BY <1>3, OthersInOrder DEF Hangup, CloseFish
<1>4. CASE FishOpens
  BY <1>4, OpensInOrder
<1>5. CASE FishFails
  BY <1>5, OthersInOrder DEF FishFails
<1>6. CASE FishGone
  BY <1>6, OthersInOrder DEF FishGone
<1>7. ASSUME NEW v \in {"finished", "failed"}, FishFinishes(v) PROVE RequestInOrder'
  BY <1>7, OthersInOrder DEF FishFinishes
<1>8. CASE UNCHANGED fishVars
  BY <1>8, OthersInOrder DEF fishVars
<1> QED
  BY <1>1, <1>2, <1>3, <1>4, <1>5, <1>6, <1>7, <1>8 DEF FishNext

\* Fish is sent the start event and then what the turn wrote, in order, whenever
\* the socket opens and whatever else happens to it.
THEOREM RequestStaysInOrder == FishSpec => []RequestInOrder
<1>1. FishInit => RequestInOrder
  BY DEF FishInit, RequestInOrder
<1>2. FishTypeOK /\ SocketMatchesFlags /\ RequestInOrder /\ [FishNext]_fishVars => RequestInOrder'
  BY StepInOrder
<1> QED
  BY <1>1, <1>2, FishTypes, OneVerdictOnly, PTL DEF FishSpec

-----------------------------------------------------------------------------
(* The request as a script. *)

\* Writing lets the script and what was received of it grow.
LEMMA WriteGrows ==
  ASSUME FishTypeOK, NEW es \in Seq(Event), Write(es)
  PROVE  Request!Begins(asked, asked') /\ Request!Begins(wire, wire')
<1> DEFINE Wire == Event \cup {Start}
<1> HIDE DEF Event, Start
<1>1. es \in Seq(Wire) /\ wire \in Seq(Wire) /\ asked \in Seq(Event)
  BY DEF FishTypeOK
<1> HIDE DEF Wire
<1>2. Request!Begins(asked, asked \o es) /\ Request!Begins(asked, asked)
  BY <1>1, BeginsItself, BeginsExtension
<1>3. Request!Begins(wire, wire \o es) /\ Request!Begins(wire, wire)
  BY <1>1, BeginsItself, BeginsExtension
<1> QED
  BY <1>2, <1>3 DEF Write, WireAfter

\* So does every other step.
LEMMA StepGrows ==
  ASSUME FishTypeOK, SocketMatchesFlags, RequestInOrder, [FishNext]_fishVars
  PROVE  Request!Begins(asked, asked') /\ Request!Begins(wire, wire')
<1> HIDE DEF Event, Start
<1>1. asked \in Seq(Event) /\ wire \in Seq(Event \cup {Start})
  BY DEF FishTypeOK
<1>2. Request!Begins(asked, asked) /\ Request!Begins(wire, wire)
  BY <1>1, BeginsItself
<1>3. ASSUME NEW cs \in Seq(Clauses), PushTexts(cs)
      PROVE  Request!Begins(asked, asked') /\ Request!Begins(wire, wire')
  BY <1>3, TextsAreEvents, WriteGrows DEF PushTexts
<1>4. ASSUME NEW cs \in Seq(Clauses), EndInput(cs)
      PROVE  Request!Begins(asked, asked') /\ Request!Begins(wire, wire')
  <2>1. [i \in DOMAIN cs |-> Text(cs[i])] \o Ending \in Seq(Event)
    BY TextsAreEvents, EndingIsEvents
  <2> QED
    BY <1>4, <2>1, WriteGrows DEF EndInput
<1>5. CASE FishOpens
  <2>1. wire = << >> /\ asked' = asked
    BY <1>5 DEF FishOpens, RequestInOrder, SocketMatchesFlags, FishTypeOK
  <2>2. wire' \in Seq(Event \cup {Start})
    BY <1>5, OpensTypes DEF FishTypeOK
  <2> QED
    BY <1>2, <2>1, <2>2, EmptyBegins
<1>6. CASE Hangup
  BY <1>2, <1>6 DEF Hangup
<1>7. CASE FishFails
  BY <1>2, <1>7 DEF FishFails
<1>8. CASE FishGone
  BY <1>2, <1>8 DEF FishGone
<1>9. ASSUME NEW v \in {"finished", "failed"}, FishFinishes(v)
      PROVE  Request!Begins(asked, asked') /\ Request!Begins(wire, wire')
  BY <1>2, <1>9 DEF FishFinishes
<1>10. CASE UNCHANGED fishVars
  BY <1>2, <1>10 DEF fishVars
<1> QED
  BY <1>3, <1>4, <1>5, <1>6, <1>7, <1>8, <1>9, <1>10 DEF FishNext

\* openFishTurn implements SpeechRequest: seen from Fish there is no queue and no
\* connecting, only a script that is received from its beginning.
THEOREM FishKeepsScript == FishSpec => KeepsScript
<1>1. FishInit => Request!Init
  BY DEF FishInit, Request!Init
<1>2. /\ FishTypeOK /\ SocketMatchesFlags /\ RequestInOrder /\ [FishNext]_fishVars
      /\ FishTypeOK' /\ RequestInOrder'
      => [Request!Next]_<<asked, wire>>
  <2> SUFFICES ASSUME FishTypeOK, SocketMatchesFlags, RequestInOrder, [FishNext]_fishVars,
                      FishTypeOK', RequestInOrder'
               PROVE  Request!Next
    OBVIOUS
  <2> HIDE DEF Event, Start
  <2>1. Request!Begins(asked, asked') /\ Request!Begins(wire, wire')
    BY StepGrows
  <2>2. asked' \in Seq(Event) /\ wire' \in Seq(Event \cup {Start})
    BY DEF FishTypeOK
  <2>3. Request!Begins(wire', <<Start>> \o asked')
    <3>1. asked' \in Seq(Event \cup {Start}) /\ Start \in Event \cup {Start}
      BY <2>2
    <3>2. <<Start>> \o asked' \in Seq(Event \cup {Start})
      BY <3>1, OneThenMany
    <3> QED
      BY <3>2, EmptyBegins DEF RequestInOrder
  <2> QED
    BY <2>1, <2>2, <2>3 DEF Request!Next
<1> QED
  BY <1>1, <1>2, FishTypes, OneVerdictOnly, RequestStaysInOrder, PTL
     DEF FishSpec, KeepsScript, Request!Spec, Request!vars
=============================================================================
