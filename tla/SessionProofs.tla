--------------------------- MODULE SessionProofs ---------------------------
(***************************************************************************)
(* Theorems about Session, for every set of texts, every number of turns   *)
(* and every number of items in a turn.                                    *)
(***************************************************************************)
EXTENDS Session, TLAPS

\* The updates a handler makes to a turn object keep its type.
LEMMA TurnUpdates ==
  ASSUME NEW object \in TurnObject, NEW b \in BOOLEAN, NEW s \in Seq(Item)
  PROVE  /\ [object EXCEPT !.committed = TRUE, !.outbox = s] \in TurnObject
         /\ [object EXCEPT !.spoken = b, !.inHistory = TRUE] \in TurnObject
         /\ [object EXCEPT !.spoken = b] \in TurnObject
         /\ [object EXCEPT !.finished = TRUE] \in TurnObject
         /\ [object EXCEPT !.outbox = s] \in TurnObject
BY DEF TurnObject

\* The types of what #cancelTurn computes.
LEMMA CancelTypes ==
  ASSUME TypeOK
  PROVE  /\ AbortedLlm \in [Ids -> LlmState]
         /\ ClosedFish \in [Ids -> FishState]
         /\ HistoryAfterCancel \in Seq(Exchange)
         /\ NoticeAfterCancel \in [Ids -> Notices]
<1> USE SessionAssumption
<1>1. turn # NoTurn => turn \in Ids
  BY DEF TypeOK, NoTurn, Ids
<1>2. AbortedLlm \in [Ids -> LlmState]
  BY DEF TypeOK, AbortedLlm, LlmState
<1>3. ClosedFish \in [Ids -> FishState]
  BY DEF TypeOK, ClosedFish, Hangup, LlmState, FishState
<1>4. HistoryAfterCancel \in Seq(Exchange)
  <2>1. turn # NoTurn => [turn |-> turn, reply |-> "cut"] \in Exchange
    BY <1>1 DEF Exchange
  <2> QED
    BY <2>1 DEF TypeOK, HistoryAfterCancel
<1>5. NoticeAfterCancel \in [Ids -> Notices]
  BY <1>1 DEF TypeOK, NoticeAfterCancel, CancelClears, Notices
<1> QED
  BY <1>2, <1>3, <1>4, <1>5

\* A cancelled turn leaves the turn side of the state well typed.
LEMMA CancelTurnType ==
  ASSUME TypeOK, CancelTurn
  PROVE  /\ turnCounter' \in 0..MaxTurns
         /\ turn' \in 0..turnCounter'
         /\ turns' \in [Ids -> TurnObject]
         /\ llm' \in [Ids -> LlmState]
         /\ fish' \in [Ids -> FishState]
         /\ history' \in Seq(Exchange)
         /\ notice' \in [Ids -> Notices]
         /\ made' \in [Ids -> Seq(Item)]
BY SessionAssumption, CancelTypes DEF CancelTurn, TypeOK, NoTurn

\* So does a turn started in place of another.
LEMMA ReplaceTurnType ==
  ASSUME TypeOK, NEW text \in Texts, NEW now \in BOOLEAN, ReplaceTurn(text, now)
  PROVE  /\ turnCounter' \in 0..MaxTurns
         /\ turn' \in 0..turnCounter'
         /\ turns' \in [Ids -> TurnObject]
         /\ llm' \in [Ids -> LlmState]
         /\ fish' \in [Ids -> FishState]
         /\ history' \in Seq(Exchange)
         /\ notice' \in [Ids -> Notices]
         /\ made' \in [Ids -> Seq(Item)]
<1> USE SessionAssumption
<1> USE CancelTypes
<1>1. NewTurn(text, now) \in TurnObject
  BY DEF NewTurn, TurnObject
<1>2. turnCounter' \in 0..MaxTurns /\ turn' \in 0..turnCounter' /\ turnCounter' \in Ids
  BY DEF ReplaceTurn, TypeOK, Ids
<1>3. llm' \in [Ids -> LlmState] /\ fish' \in [Ids -> FishState]
  BY <1>2 DEF ReplaceTurn, LlmState, FishState
<1> QED
  BY <1>1, <1>2, <1>3 DEF ReplaceTurn, TypeOK

\* So does #deliver.
LEMMA DeliverType ==
  ASSUME TypeOK, NEW i \in Ids, NEW item \in Item, Deliver(i, item)
  PROVE  /\ Buffered(i, item) \in TurnObject
         /\ shown' \in [Ids -> Seq(Item)]
         /\ made' \in [Ids -> Seq(Item)]
         /\ audible' \in BOOLEAN
<1>1. turns[i].outbox \in Seq(Item) /\ turns[i] \in TurnObject
  BY DEF TypeOK, TurnObject
<1>2. Append(turns[i].outbox, item) \in Seq(Item)
  BY <1>1
<1>3. [turns[i] EXCEPT !.outbox = Append(@, item)] \in TurnObject
  BY <1>1, <1>2 DEF TurnObject
<1>4. Buffered(i, item) \in TurnObject
  BY <1>1, <1>3 DEF Buffered
<1>5. shown' \in [Ids -> Seq(Item)]
  BY DEF Deliver, ShowTo, TypeOK
<1>6. made' \in [Ids -> Seq(Item)]
  BY DEF Deliver, TypeOK
<1>7. audible' \in BOOLEAN
  BY DEF Deliver
<1> QED
  BY <1>4, <1>5, <1>6, <1>7

(* Every variable keeps its type.                                          *)
THEOREM TypeCorrect == Spec => []TypeOK
<1> USE SessionAssumption DEF NoTurn
<1>1. Init => TypeOK
  <2> SUFFICES ASSUME Init PROVE TypeOK
    OBVIOUS
  <2>1. << >> \in Seq(Item) /\ << >> \in Seq(Exchange)
    OBVIOUS
  <2>2. turns \in [Ids -> TurnObject]
    BY <2>1 DEF Init, TurnObject
  <2>3. turnCounter \in 0..MaxTurns /\ turn \in 0..turnCounter
    BY DEF Init
  <2> QED
    BY <2>1, <2>2, <2>3 DEF Init, TypeOK, Phases, LlmState, FishState, Notices
<1>2. TypeOK /\ [Next]_vars => TypeOK'
  <2> SUFFICES ASSUME TypeOK, [Next]_vars PROVE TypeOK'
    OBVIOUS
  <2> USE DEF knobs, userSide, turnState, streams, browserSide
  <2>1. CASE StartHeld
    BY <2>1 DEF StartHeld, KeepTurn, TypeOK, Phases
  <2>2. CASE StartCut
    BY <2>2, CancelTurnType DEF StartCut, SendClear, TypeOK, Phases
  <2>3. CASE UpdateConfirms
    BY <2>3, CancelTurnType DEF UpdateConfirms, SendClear, TypeOK
  <2>4. CASE TurnResumed
    BY <2>4, CancelTurnType DEF TurnResumed, KeepTurn, TypeOK, Phases
  <2>5. CASE EndOfTurnEmpty
    BY <2>5, CancelTurnType DEF EndOfTurnEmpty, KeepTurn, ReleaseHold, TypeOK, Phases
  <2>6. CASE EndOfTurnEcho
    BY <2>6 DEF EndOfTurnEcho, KeepTurn, ReleaseHold, TypeOK, Phases
  <2>7. ASSUME NEW text \in Texts \cup {NoText}, EagerIgnored(text) PROVE TypeOK'
    BY <2>7 DEF EagerIgnored, KeepTurn, TypeOK, Phases
  <2>8. ASSUME NEW text \in Texts, EagerSpeculate(text) PROVE TypeOK'
    BY <2>8, ReplaceTurnType DEF EagerSpeculate, ClearIf, SendClear, TypeOK, Phases
  <2>9. ASSUME NEW text \in Texts, EndOfTurnCommit(text) PROVE TypeOK'
    <3>1. turn \in Ids
      BY <2>9 DEF EndOfTurnCommit, CanCommit, Speculating, TypeOK, Ids
    <3>2. turns' \in [Ids -> TurnObject]
      <4>1. << >> \in Seq(Item)
        OBVIOUS
      <4>2. [turns[turn] EXCEPT !.committed = TRUE, !.outbox = << >>] \in TurnObject
        BY <3>1, <4>1, TurnUpdates DEF TypeOK
      <4> QED
        BY <2>9, <3>1, <4>2 DEF EndOfTurnCommit, CommitTurn, TypeOK
    <3>3. shown' \in [Ids -> Seq(Item)]
      BY <2>9, <3>1 DEF EndOfTurnCommit, CommitTurn, ShowTo, TypeOK, TurnObject
    <3>4. audible' \in BOOLEAN
      BY <2>9 DEF EndOfTurnCommit, CommitTurn, TypeOK
    <3> QED
      BY <2>9, <3>2, <3>3, <3>4
      DEF EndOfTurnCommit, CommitTurn, TurnAfterCommit, SaidFinal, TypeOK, Phases
  <2>10. ASSUME NEW text \in Texts, EndOfTurnAnswer(text) PROVE TypeOK'
    BY <2>10, ReplaceTurnType DEF EndOfTurnAnswer, SaidFinal, ClearIf, SendClear, TypeOK, Phases
  <2>11. CASE SttClosed
    BY <2>11 DEF SttClosed, TypeOK, Phases
  <2>12. ASSUME NEW i \in Ids, LlmDelta(i) PROVE TypeOK'
    <3>1. /\ Buffered(i, "text") \in TurnObject
          /\ shown' \in [Ids -> Seq(Item)]
          /\ made' \in [Ids -> Seq(Item)]
          /\ audible' \in BOOLEAN
      BY <2>12, DeliverType DEF LlmDelta, Item
    <3>2. turns' \in [Ids -> TurnObject]
      <4>1. PICK pushed \in BOOLEAN :
              turns' = [turns EXCEPT ![i] = [Buffered(i, "text") EXCEPT !.spoken = @ \/ pushed]]
        BY <2>12 DEF LlmDelta
      <4>2. [Buffered(i, "text") EXCEPT !.spoken = @ \/ pushed] \in TurnObject
        BY <3>1 DEF TurnObject
      <4> QED
        BY <4>1, <4>2 DEF TypeOK
    <3> QED
      BY <2>12, <3>1, <3>2 DEF LlmDelta, TypeOK
  <2>13. ASSUME NEW i \in Ids, LlmDone(i) PROVE TypeOK'
    <3>1. [turn |-> i, reply |-> IF HasText(i) THEN "full" ELSE "empty"] \in Exchange
      BY DEF Exchange
    <3>2. turns' \in [Ids -> TurnObject]
      <4>1. HasText(i) \in BOOLEAN
        BY DEF HasText
      <4>2. [turns[i] EXCEPT !.spoken = HasText(i), !.inHistory = TRUE] \in TurnObject
        BY <4>1, TurnUpdates DEF TypeOK
      <4> QED
        BY <2>13, <4>2 DEF LlmDone, TypeOK
    <3> QED
      BY <2>13, <3>1, <3>2 DEF LlmDone, LlmState, TypeOK
  <2>14. ASSUME NEW i \in Ids, LlmFail(i) PROVE TypeOK'
    BY <2>14, CancelTypes DEF LlmFail, NoticeFailure, LlmState, Notices, TypeOK
  <2>15. ASSUME NEW i \in Ids, LlmLate(i) PROVE TypeOK'
    BY <2>15 DEF LlmLate, LlmState, TypeOK
  <2>16. ASSUME NEW i \in Ids, FishOpen(i) PROVE TypeOK'
    BY <2>16 DEF FishOpen, FishState, TypeOK
  <2>17. ASSUME NEW i \in Ids, FishAudio(i) PROVE TypeOK'
    <3>1. /\ Buffered(i, "audio") \in TurnObject
          /\ shown' \in [Ids -> Seq(Item)]
          /\ made' \in [Ids -> Seq(Item)]
          /\ audible' \in BOOLEAN
      BY <2>17, DeliverType DEF FishAudio, Item
    <3> QED
      BY <2>17, <3>1 DEF FishAudio, TypeOK
  <2>18. ASSUME NEW i \in Ids, FishFinish(i) PROVE TypeOK'
    <3>1. /\ Buffered(i, "done") \in TurnObject
          /\ shown' \in [Ids -> Seq(Item)]
          /\ made' \in [Ids -> Seq(Item)]
          /\ audible' \in BOOLEAN
      BY <2>18, DeliverType DEF FishFinish, Item
    <3>2. turns' \in [Ids -> TurnObject]
      BY <2>18, <3>1 DEF FishFinish, TypeOK, TurnObject
    <3> QED
      BY <2>18, <3>1, <3>2 DEF FishFinish, FishState, TypeOK
  <2>19. ASSUME NEW i \in Ids, FishFail(i) PROVE TypeOK'
    BY <2>19 DEF FishFail, NoticeFailure, FishState, Notices, TypeOK
  <2>20. ASSUME NEW i \in Ids, FishGone(i) PROVE TypeOK'
    BY <2>20 DEF FishGone, FishState, TypeOK
  <2>21. CASE ApplyConfig
    BY <2>21 DEF ApplyConfig, TypeOK
  <2>22. CASE PlaybackEnds
    BY <2>22 DEF PlaybackEnds, TypeOK
  <2>23. CASE Destroy
    <3>1. turn' \in 0..turnCounter'
      BY <2>23 DEF Destroy, TypeOK
    <3> QED
      BY <2>23, <3>1, CancelTypes DEF Destroy, TypeOK
  <2>24. CASE UNCHANGED vars
    BY <2>24 DEF vars, TypeOK
  <2> QED
    BY <2>1, <2>2, <2>3, <2>4, <2>5, <2>6, <2>7, <2>8, <2>9, <2>10, <2>11, <2>12,
       <2>13, <2>14, <2>15, <2>16, <2>17, <2>18, <2>19, <2>20, <2>21, <2>22, <2>23,
       <2>24 DEF Next, FluxEvent, LlmEvent, FishEvent
<1> QED
  BY <1>1, <1>2, PTL DEF Spec

-----------------------------------------------------------------------------
(***************************************************************************)
(* Most callbacks touch the turn in one of four ways; a lemma per way says *)
(* that it keeps the books in order.                                       *)
(***************************************************************************)
TurnStep ==
  \/ KeepTurn /\ UNCHANGED shown
  \/ CancelTurn /\ UNCHANGED shown
  \/ (\E text \in Texts, now \in BOOLEAN : ReplaceTurn(text, now)) /\ UNCHANGED shown
  \/ Speculating /\ CommitTurn

\* Every step touches the turn in one of these ways, or is a stream callback.
LEMMA TurnSteps ==
  ASSUME [Next]_vars
  PROVE  \/ TurnStep
         \/ \E i \in Ids : LlmEvent(i) \/ FishEvent(i)
         \/ Destroy
<1> USE DEF TurnStep, KeepTurn, knobs, userSide, turnState, streams, browserSide
<1>1. CASE StartHeld \/ StartCut \/ UpdateConfirms \/ TurnResumed \/ EndOfTurnEmpty \/ EndOfTurnEcho
  BY <1>1 DEF StartHeld, StartCut, UpdateConfirms, TurnResumed, EndOfTurnEmpty, EndOfTurnEcho
<1>2. ASSUME NEW text \in Texts \cup {NoText}, EagerIgnored(text) PROVE TurnStep
  BY <1>2 DEF EagerIgnored
<1>3. ASSUME NEW text \in Texts,
             EagerSpeculate(text) \/ EndOfTurnCommit(text) \/ EndOfTurnAnswer(text)
      PROVE  TurnStep
  BY <1>3 DEF EagerSpeculate, EndOfTurnCommit, EndOfTurnAnswer, CanCommit
<1>4. CASE SttClosed \/ ApplyConfig \/ PlaybackEnds \/ UNCHANGED vars
  BY <1>4 DEF SttClosed, ApplyConfig, PlaybackEnds, vars
<1> QED
  BY <1>1, <1>2, <1>3, <1>4 DEF Next, FluxEvent

\* The turn of a recorded exchange is an id.
LEMMA HistoryTurns ==
  ASSUME TypeOK, NEW k \in DOMAIN history
  PROVE  history[k].turn \in Ids /\ history[k].turn \in Nat
<1>1. history[k] \in Exchange
  BY DEF TypeOK
<1> QED
  BY <1>1, SessionAssumption DEF Exchange, Ids

\* What pushing one exchange onto the conversation makes of it.
LEMMA Appended ==
  ASSUME TypeOK, NEW exchange \in Exchange
  PROVE  LET longer == Append(history, exchange)
         IN  /\ Len(longer) = Len(history) + 1
             /\ \A k \in DOMAIN longer :
                  \/ k \in DOMAIN history /\ longer[k] = history[k]
                  \/ k = Len(history) + 1 /\ longer[k] = exchange
BY DEF TypeOK

\* #cancelTurn keeps the books.
LEMMA BooksAfterCancel ==
  ASSUME TypeOK, TurnBookkeeping, CancelTurn, UNCHANGED shown
  PROVE  TurnBookkeeping'
<1>1. turn' \in {NoTurn, turnCounter'}
  BY DEF CancelTurn
<1>2. ASSUME NEW i \in Ids PROVE InStep(i)'
  <2>1. turnCounter \in Nat /\ turn \in Nat /\ turn <= turnCounter
    BY SessionAssumption DEF TypeOK
  <2>2. /\ llm'[i] = IF i = turn THEN "ended" ELSE llm[i]
        /\ fish'[i] = IF i = turn THEN Hangup(fish[i]) ELSE fish[i]
    BY DEF CancelTurn, AbortedLlm, ClosedFish
  <2>3. i # turn => notice'[i] = notice[i]
    BY DEF CancelTurn, NoticeAfterCancel, TypeOK
  <2>4. InStep(i)
    BY DEF TurnBookkeeping
  <2> QED
    BY <2>1, <2>2, <2>3, <2>4 DEF CancelTurn, InStep, Hangup, Ids
<1>3. ASSUME NEW k \in DOMAIN history' PROVE RecordedInTime(k)'
  BY DEF CancelTurn, TurnBookkeeping, RecordedInTime, TypeOK, HistoryAfterCancel, Exchange, NoTurn
<1> QED
  BY <1>1, <1>2, <1>3 DEF TurnBookkeeping

\* #startTurn keeps the books.
LEMMA BooksAfterReplace ==
  ASSUME TypeOK, TurnBookkeeping, UNCHANGED shown,
         NEW text \in Texts, NEW now \in BOOLEAN, ReplaceTurn(text, now)
  PROVE  TurnBookkeeping'
<1>1. /\ turnCounter \in Nat /\ turn \in Nat /\ turn <= turnCounter
      /\ turnCounter' = turnCounter + 1 /\ turn' = turnCounter + 1 /\ turn' \in Ids
  BY SessionAssumption DEF TypeOK, ReplaceTurn
<1>2. turn' \in {NoTurn, turnCounter'}
  BY <1>1
<1>3. ASSUME NEW i \in Ids PROVE InStep(i)'
  <2>1. InStep(i)
    BY DEF TurnBookkeeping
  <2>2. CASE i = turn'
    BY <1>1, <2>1, <2>2 DEF ReplaceTurn, NewTurn, InStep, TypeOK, AbortedLlm, ClosedFish, Ids
  <2>3. CASE i # turn'
    <3>1. /\ llm'[i] = IF i = turn THEN "ended" ELSE llm[i]
          /\ fish'[i] = IF i = turn THEN Hangup(fish[i]) ELSE fish[i]
          /\ turns'[i] = turns[i]
      BY <1>1, <2>3 DEF ReplaceTurn, AbortedLlm, ClosedFish, TypeOK
    <3>2. i # turn => notice'[i] = notice[i]
      BY DEF ReplaceTurn, NoticeAfterCancel, TypeOK
    <3> QED
      BY <1>1, <2>1, <2>3, <3>1, <3>2 DEF ReplaceTurn, InStep, Hangup, Ids
  <2> QED
    BY <2>2, <2>3
<1>4. ASSUME NEW k \in DOMAIN history' PROVE RecordedInTime(k)'
  <2>1. history'[k].turn <= turnCounter /\ history'[k].turn \in Nat
    <3>1. CASE history' = history
      BY <3>1, HistoryTurns DEF TurnBookkeeping, RecordedInTime
    <3>2. CASE history' = Append(history, [turn |-> turn, reply |-> "cut"]) /\ turn # NoTurn
      <4>1. [turn |-> turn, reply |-> "cut"] \in Exchange
        BY <1>1, <3>2, SessionAssumption DEF Exchange, Ids, NoTurn, TypeOK
      <4> DEFINE new == [turn |-> turn, reply |-> "cut"]
      <4>2. \/ k \in DOMAIN history /\ history'[k] = history[k]
            \/ history'[k] = new
        BY <3>2, <4>1, Appended
      <4> QED
        BY <1>1, <4>2, HistoryTurns DEF TurnBookkeeping, RecordedInTime
    <3> QED
      BY <3>1, <3>2 DEF ReplaceTurn, HistoryAfterCancel
  <2> QED
    BY <1>1, <2>1 DEF RecordedInTime
<1> QED
  BY <1>2, <1>3, <1>4 DEF TurnBookkeeping

\* #commitTurn keeps the books.
LEMMA BooksAfterCommit ==
  ASSUME TypeOK, TurnBookkeeping, Speculating, CommitTurn
  PROVE  TurnBookkeeping'
<1>1. turn \in Ids /\ turn \in Nat /\ turnCounter \in Nat /\ turn <= turnCounter
  BY SessionAssumption DEF Speculating, NoTurn, TypeOK, Ids
<1>2. turn' \in {NoTurn, turnCounter'}
  BY DEF CommitTurn, TurnAfterCommit, TurnBookkeeping
<1>3. ASSUME NEW i \in Ids PROVE InStep(i)'
  <2>1. InStep(i)
    BY DEF TurnBookkeeping
  <2>2. /\ turns'[i].inHistory = turns[i].inHistory
        /\ turns'[i].finished = turns[i].finished
        /\ i # turn => turns'[i] = turns[i] /\ shown'[i] = shown[i]
        /\ i = turn => turns'[i].committed
    BY <1>1 DEF CommitTurn, TypeOK, TurnObject, ShowTo
  <2>3. CASE i = turn
    BY <1>1, <2>1, <2>2, <2>3 DEF CommitTurn, InStep, streams
  <2>4. CASE i # turn
    BY <2>1, <2>2, <2>4 DEF CommitTurn, InStep, streams
  <2> QED
    BY <2>3, <2>4
<1>4. ASSUME NEW k \in DOMAIN history' PROVE RecordedInTime(k)'
  <2>1. RecordedInTime(k)
    BY DEF CommitTurn, TurnBookkeeping
  <2>2. turns'[turn].inHistory = turns[turn].inHistory
    BY <1>1 DEF CommitTurn, TypeOK, TurnObject
  <2> QED
    BY <2>1, <2>2 DEF CommitTurn, TurnAfterCommit, RecordedInTime
<1> QED
  BY <1>2, <1>3, <1>4 DEF TurnBookkeeping

\* What #deliver does to the fields the books are about.
LEMMA BooksAfterDeliver ==
  ASSUME TypeOK, TurnBookkeeping, NEW i \in Ids, NEW item \in Item, Deliver(i, item), turn = i
  PROVE  /\ i <= turnCounter /\ i \in Nat /\ turnCounter \in Nat /\ turn # NoTurn
         /\ \A j \in Ids : j # i => made'[j] = made[j] /\ shown'[j] = shown[j]
         /\ ~turns[i].committed =>
              Buffered(i, item) = [turns[i] EXCEPT !.outbox = Append(@, item)]
         /\ Buffered(i, item).inHistory = turns[i].inHistory
         /\ Buffered(i, item).finished = turns[i].finished
         /\ Buffered(i, item).committed = turns[i].committed
BY SessionAssumption DEF Deliver, Buffered, ShowTo, TypeOK, TurnObject, Ids, NoTurn

\* The callbacks of an LLM stream keep the books.
LEMMA BooksAfterLlm ==
  ASSUME TypeOK, TurnBookkeeping, NEW i \in Ids, LlmEvent(i)
  PROVE  TurnBookkeeping'
<1> USE DEF turnState, streams, browserSide
<1>1. CASE LlmDelta(i)
  <2>1. Deliver(i, "text") /\ turn = i /\ "text" \in Item
    BY <1>1 DEF LlmDelta, Live, Item
  <2>2. llm[i] = "streaming"
    BY <1>1 DEF LlmDelta
  <2>3. ASSUME NEW j \in Ids PROVE InStep(j)'
    <3>1. InStep(j) /\ InStep(i)
      BY DEF TurnBookkeeping
    <3>2. CASE j = i
      <4>1. turns'[i].finished = turns[i].finished /\ turns'[i].inHistory = turns[i].inHistory
        <5>1. PICK pushed \in BOOLEAN :
                turns' = [turns EXCEPT ![i] = [Buffered(i, "text") EXCEPT !.spoken = @ \/ pushed]]
          BY <1>1 DEF LlmDelta
        <5>2. Buffered(i, "text") \in TurnObject
          BY <2>1, DeliverType
        <5> QED
          BY <2>1, <5>1, <5>2, BooksAfterDeliver DEF TypeOK, TurnObject
      <4> QED
        BY <1>1, <2>1, <2>2, <3>1, <3>2, <4>1, BooksAfterDeliver DEF LlmDelta, InStep
    <3>3. CASE j # i
      <4>1. turns'[j] = turns[j]
        BY <1>1, <3>3 DEF LlmDelta, TypeOK
      <4> QED
        BY <1>1, <2>1, <3>1, <3>3, <4>1, BooksAfterDeliver DEF LlmDelta, InStep
    <3> QED
      BY <3>2, <3>3
  <2>4. ASSUME NEW k \in DOMAIN history' PROVE RecordedInTime(k)'
    <3>1. RecordedInTime(k)
      BY <1>1 DEF LlmDelta, TurnBookkeeping
    <3>2. turns'[i].inHistory = turns[i].inHistory
      <4>1. PICK pushed \in BOOLEAN :
              turns' = [turns EXCEPT ![i] = [Buffered(i, "text") EXCEPT !.spoken = @ \/ pushed]]
        BY <1>1 DEF LlmDelta
      <4>2. Buffered(i, "text") \in TurnObject
        BY <2>1, DeliverType
      <4> QED
        BY <2>1, <4>1, <4>2, BooksAfterDeliver DEF TypeOK, TurnObject
    <3> QED
      BY <1>1, <2>1, <3>1, <3>2 DEF LlmDelta, RecordedInTime
  <2> QED
    BY <1>1, <2>3, <2>4 DEF LlmDelta, TurnBookkeeping
<1>2. CASE LlmDone(i)
  <2>1. llm[i] = "streaming" /\ turn = i /\ i # NoTurn /\ i <= turnCounter /\ i \in Nat
    BY <1>2, SessionAssumption DEF LlmDone, Live, TypeOK, Ids, NoTurn
  <2>2. /\ turns'[i].inHistory /\ turns'[i].finished = turns[i].finished
        /\ turns'[i].committed = turns[i].committed /\ turns'[i].outbox = turns[i].outbox
    BY <1>2 DEF LlmDone, TypeOK, TurnObject
  <2>3. ASSUME NEW j \in Ids PROVE InStep(j)'
    <3>1. InStep(j)
      BY DEF TurnBookkeeping
    <3>2. j # i => turns'[j] = turns[j] /\ llm'[j] = llm[j]
      BY <1>2 DEF LlmDone, TypeOK
    <3>3. llm'[i] = "ended"
      BY <1>2 DEF LlmDone, TypeOK
    <3> QED
      BY <1>2, <2>1, <2>2, <3>1, <3>2, <3>3 DEF LlmDone, InStep
  <2>4. ASSUME NEW k \in DOMAIN history' PROVE RecordedInTime(k)'
    <3> DEFINE new == [turn |-> i, reply |-> IF HasText(i) THEN "full" ELSE "empty"]
    <3>1. new \in Exchange /\ history' = Append(history, new)
      BY <1>2 DEF LlmDone, Exchange
    <3>2. \/ k \in DOMAIN history /\ history'[k] = history[k]
          \/ history'[k] = new
      BY <3>1, Appended
    <3> QED
      BY <1>2, <2>1, <2>2, <3>2 DEF LlmDone, RecordedInTime, TurnBookkeeping
  <2> QED
    BY <1>2, <2>3, <2>4 DEF LlmDone, TurnBookkeeping
<1>3. CASE LlmFail(i)
  <2>1. llm[i] = "streaming" /\ turn = i /\ turn' = NoTurn /\ i <= turnCounter /\ i \in Nat
    BY <1>3, SessionAssumption DEF LlmFail, Live, TypeOK, Ids
  <2>2. ASSUME NEW j \in Ids PROVE InStep(j)'
    <3>1. InStep(j)
      BY DEF TurnBookkeeping
    <3>2. /\ llm'[j] = IF j = i THEN "ended" ELSE llm[j]
          /\ fish'[j] = IF j = i THEN Hangup(fish[j]) ELSE fish[j]
          /\ j # i => notice'[j] = notice[j]
      BY <1>3, <2>1 DEF LlmFail, ClosedFish, NoticeFailure, TypeOK
    <3> QED
      BY <1>3, <2>1, <3>1, <3>2 DEF LlmFail, InStep, Hangup
  <2>3. ASSUME NEW k \in DOMAIN history' PROVE RecordedInTime(k)'
    BY <1>3 DEF LlmFail, RecordedInTime, TurnBookkeeping
  <2> QED
    BY <1>3, <2>2, <2>3 DEF LlmFail, TurnBookkeeping
<1>4. CASE LlmLate(i)
  BY <1>4 DEF LlmLate, TurnBookkeeping, InStep, RecordedInTime, TypeOK
<1> QED
  BY <1>1, <1>2, <1>3, <1>4 DEF LlmEvent

\* The callbacks of a Fish socket keep the books.
LEMMA BooksAfterFish ==
  ASSUME TypeOK, TurnBookkeeping, NEW i \in Ids, FishEvent(i)
  PROVE  TurnBookkeeping'
<1> USE DEF turnState, streams, browserSide
<1>1. CASE FishOpen(i) \/ FishGone(i)
  <2>1. fish[i] # "gone" \/ fish'[i] = "gone"
    BY <1>1 DEF FishOpen, FishGone, TypeOK
  <2>2. fish[i] # "unborn" /\ fish'[i] # "unborn"
    BY <1>1 DEF FishOpen, FishGone, FishReceives, TypeOK
  <2>3. ASSUME NEW j \in Ids PROVE InStep(j)'
    <3>1. InStep(j) /\ (j # i => fish'[j] = fish[j])
      BY <1>1 DEF FishOpen, FishGone, TypeOK, TurnBookkeeping
    <3> QED
      BY <1>1, <2>1, <2>2, <3>1 DEF FishOpen, FishGone, InStep
  <2>4. ASSUME NEW k \in DOMAIN history' PROVE RecordedInTime(k)'
    BY <1>1 DEF FishOpen, FishGone, RecordedInTime, TurnBookkeeping
  <2> QED
    BY <1>1, <2>3, <2>4 DEF FishOpen, FishGone, TurnBookkeeping
<1>2. CASE FishAudio(i)
  <2>1. Deliver(i, "audio") /\ turn = i /\ "audio" \in Item /\ fish[i] # "gone"
    BY <1>2 DEF FishAudio, Live, Item, FishReceives
  <2>2. turns' = [turns EXCEPT ![i] = Buffered(i, "audio")]
    BY <1>2 DEF FishAudio
  <2>3. /\ turns'[i] = Buffered(i, "audio")
        /\ \A j \in Ids : j # i => turns'[j] = turns[j]
    BY <2>2 DEF TypeOK
  <2>4. ASSUME NEW j \in Ids PROVE InStep(j)'
    <3>1. InStep(j) /\ InStep(i)
      BY DEF TurnBookkeeping
    <3>2. CASE j = i
      BY <1>2, <2>1, <2>3, <3>1, <3>2, BooksAfterDeliver DEF FishAudio, InStep
    <3>3. CASE j # i
      BY <1>2, <2>1, <2>3, <3>1, <3>3, BooksAfterDeliver DEF FishAudio, InStep
    <3> QED
      BY <3>2, <3>3
  <2>5. ASSUME NEW k \in DOMAIN history' PROVE RecordedInTime(k)'
    BY <1>2, <2>1, <2>3, BooksAfterDeliver DEF FishAudio, RecordedInTime, TurnBookkeeping
  <2> QED
    BY <1>2, <2>4, <2>5 DEF FishAudio, TurnBookkeeping
<1>3. CASE FishFinish(i)
  <2>1. Deliver(i, "done") /\ turn = i /\ "done" \in Item /\ turns[i].inHistory
    BY <1>3 DEF FishFinish, Live, Item
  <2>2. Buffered(i, "done") \in TurnObject
    BY <2>1, DeliverType
  <2>3. /\ turns' = [turns EXCEPT ![i] = [Buffered(i, "done") EXCEPT !.finished = TRUE]]
        /\ fish' = [fish EXCEPT ![i] = "gone"]
    BY <1>3 DEF FishFinish
  <2>4. /\ turns'[i].finished
        /\ turns'[i].committed = turns[i].committed
        /\ turns'[i].inHistory
        /\ turns'[i].outbox = Buffered(i, "done").outbox
        /\ \A j \in Ids : j # i => turns'[j] = turns[j]
    BY <2>1, <2>2, <2>3, BooksAfterDeliver DEF TypeOK, TurnObject
  <2>5. ~turns[i].committed =>
           turns'[i].outbox # << >> /\ turns'[i].outbox[Len(turns'[i].outbox)] = "done"
    <3>1. turns[i].outbox \in Seq(Item)
      BY DEF TypeOK, TurnObject
    <3>2. ~turns[i].committed => turns'[i].outbox = Append(turns[i].outbox, "done")
      BY <2>4 DEF Buffered, TypeOK, TurnObject
    <3> QED
      BY <2>1, <3>1, <3>2
  <2>6. ASSUME NEW j \in Ids PROVE InStep(j)'
    <3>1. InStep(j) /\ InStep(i)
      BY DEF TurnBookkeeping
    <3>2. fish'[i] = "gone" /\ (j # i => fish'[j] = fish[j])
      BY <2>3 DEF TypeOK
    <3>3. CASE j = i
      BY <1>3, <2>1, <2>4, <2>5, <3>1, <3>2, <3>3, BooksAfterDeliver DEF FishFinish, InStep
    <3>4. CASE j # i
      BY <1>3, <2>1, <2>4, <3>1, <3>2, <3>4, BooksAfterDeliver DEF FishFinish, InStep
    <3> QED
      BY <3>3, <3>4
  <2>7. ASSUME NEW k \in DOMAIN history' PROVE RecordedInTime(k)'
    BY <1>3, <2>1, <2>4 DEF FishFinish, RecordedInTime, TurnBookkeeping
  <2> QED
    BY <1>3, <2>6, <2>7 DEF FishFinish, TurnBookkeeping
<1>4. CASE FishFail(i)
  <2>1. turn = i /\ turn' = NoTurn /\ i <= turnCounter /\ i \in Nat /\ turnCounter \in Nat
    BY <1>4, SessionAssumption DEF FishFail, Live, TypeOK, Ids
  <2>2. ASSUME NEW j \in Ids PROVE InStep(j)'
    <3>1. InStep(j)
      BY DEF TurnBookkeeping
    <3>2. /\ fish'[j] = IF j = i THEN "gone" ELSE fish[j]
          /\ j # i => notice'[j] = notice[j]
      BY <1>4 DEF FishFail, NoticeFailure, TypeOK
    <3> QED
      BY <1>4, <2>1, <3>1, <3>2 DEF FishFail, InStep
  <2>3. ASSUME NEW k \in DOMAIN history' PROVE RecordedInTime(k)'
    BY <1>4 DEF FishFail, RecordedInTime, TurnBookkeeping
  <2> QED
    BY <1>4, <2>2, <2>3 DEF FishFail, TurnBookkeeping
<1> QED
  BY <1>1, <1>2, <1>3, <1>4 DEF FishEvent

\* destroy() keeps the books.
LEMMA BooksAfterDestroy ==
  ASSUME TypeOK, TurnBookkeeping, Destroy
  PROVE  TurnBookkeeping'
<1>1. turn \in Nat /\ turnCounter \in Nat /\ turn <= turnCounter
  BY SessionAssumption DEF TypeOK
<1>2. ASSUME NEW i \in Ids PROVE InStep(i)'
  <2>1. InStep(i)
    BY DEF TurnBookkeeping
  <2>2. /\ llm'[i] = IF i = turn THEN "ended" ELSE llm[i]
        /\ fish'[i] = IF i = turn THEN Hangup(fish[i]) ELSE fish[i]
    BY DEF Destroy, AbortedLlm, ClosedFish
  <2> QED
    BY <1>1, <2>1, <2>2 DEF Destroy, InStep, Hangup
<1>3. ASSUME NEW k \in DOMAIN history' PROVE RecordedInTime(k)'
  BY DEF Destroy, RecordedInTime, TurnBookkeeping
<1> QED
  BY <1>2, <1>3 DEF Destroy, TurnBookkeeping

(* Ids not given out are unused and this.turn is null or the youngest id.  *)
(* A turn is in the history only when its LLM stream has ended, finished   *)
(* only when it is in the history and its Fish socket is gone, and if it   *)
(* is finished but uncommitted its agent_done is last in the outbox. An    *)
(* exchange of the history is of an id given out, and of an earlier one    *)
(* than a current turn that is not recorded itself.                        *)
THEOREM Bookkeeping == Spec => []TurnBookkeeping
<1>1. Init => TurnBookkeeping
  BY SessionAssumption DEF Init, TurnBookkeeping, InStep, RecordedInTime, NoTurn, Ids
<1>2. TypeOK /\ TurnBookkeeping /\ [Next]_vars => TurnBookkeeping'
  <2> SUFFICES ASSUME TypeOK, TurnBookkeeping, [Next]_vars
               PROVE  TurnBookkeeping'
    OBVIOUS
  <2>1. CASE TurnStep
    <3>1. CASE KeepTurn /\ UNCHANGED shown
      BY <3>1 DEF KeepTurn, TurnBookkeeping, InStep, RecordedInTime, turnState, streams
    <3> QED
      BY <2>1, <3>1, BooksAfterCancel, BooksAfterReplace, BooksAfterCommit DEF TurnStep
  <2>2. CASE \E i \in Ids : LlmEvent(i) \/ FishEvent(i)
    BY <2>2, BooksAfterLlm, BooksAfterFish
  <2>3. CASE Destroy
    BY <2>3, BooksAfterDestroy
  <2> QED
    BY <2>1, <2>2, <2>3, TurnSteps
<1> QED
  BY <1>1, <1>2, TypeCorrect, PTL DEF Spec
=============================================================================
