------------------------ MODULE SessionSafetyProofs ------------------------
(***************************************************************************)
(* The safety properties of Session, for every instance, and the promise   *)
(* of ReplyStream. Each is inductive once the types and, for the ones      *)
(* about turns, the bookkeeping invariant of SessionProofs are known. What *)
(* reaches the conversation and the browser is in the second half.         *)
(***************************************************************************)
EXTENDS SessionProofs

(***************************************************************************)
(* What any callback of the two streams leaves alone: everything on the    *)
(* user's side, what was decided about a turn when it was started, and     *)
(* every turn but the one in flight.                                       *)
(***************************************************************************)
SameDecisions(j) ==
  /\ turns'[j].committed = turns[j].committed
  /\ turns'[j].userText = turns[j].userText
  /\ turns'[j].prompt = turns[j].prompt

\* #deliver changes no decision, and makes only a promised turn audible.
LEMMA DeliverEffect ==
  ASSUME TypeOK, NEW i \in Ids, NEW item \in Item, Deliver(i, item), turn = i
  PROVE  /\ Buffered(i, item).committed = turns[i].committed
         /\ Buffered(i, item).userText = turns[i].userText
         /\ Buffered(i, item).prompt = turns[i].prompt
         /\ Buffered(i, item) \in TurnObject
         /\ audible' => audible \/ (turn # NoTurn /\ turns[turn].committed)
         /\ \A j \in Ids : j # i => made'[j] = made[j] /\ shown'[j] = shown[j]
<1>1. Buffered(i, item) \in TurnObject
  BY DeliverType
<1>2. i # NoTurn
  BY SessionAssumption DEF Ids, NoTurn
<1> QED
  BY <1>1, <1>2 DEF Deliver, Buffered, ShowTo, TypeOK, TurnObject

\* The frame of the nine stream callbacks.
LEMMA StreamEvent ==
  ASSUME TypeOK, NEW i \in Ids, LlmEvent(i) \/ FishEvent(i)
  PROVE  /\ turn' \in {turn, NoTurn}
         /\ UNCHANGED <<client, cfg, flux, userTurnAudible, bargeHeld, turnCounter, ducked, lastFinal>>
         /\ audible' => audible \/ (turn # NoTurn /\ turns[turn].committed)
         /\ \A j \in Ids : SameDecisions(j)
         /\ \A j \in Ids \ {turn} :
              turns'[j] = turns[j] /\ shown'[j] = shown[j] /\ made'[j] = made[j]
<1> USE DEF knobs, userSide, turnState, streams, browserSide
<1>1. CASE LlmDelta(i)
  <2>1. turn = i /\ Deliver(i, "text") /\ "text" \in Item
    BY <1>1 DEF LlmDelta, Live, Item
  <2>2. PICK pushed \in BOOLEAN :
          turns' = [turns EXCEPT ![i] = [Buffered(i, "text") EXCEPT !.spoken = @ \/ pushed]]
    BY <1>1 DEF LlmDelta
  <2>3. SameDecisions(i) /\ \A j \in Ids : j # i => turns'[j] = turns[j]
    BY <2>1, <2>2, DeliverEffect DEF SameDecisions, TypeOK, TurnObject
  <2> QED
    BY <1>1, <2>1, <2>3, DeliverEffect DEF LlmDelta, SameDecisions
<1>2. CASE LlmDone(i)
  <2>1. turn = i /\ SameDecisions(i) /\ \A j \in Ids : j # i => turns'[j] = turns[j]
    BY <1>2 DEF LlmDone, Live, SameDecisions, TypeOK, TurnObject
  <2> QED
    BY <1>2, <2>1 DEF LlmDone, SameDecisions
<1>3. CASE LlmFail(i)
  BY <1>3 DEF LlmFail, SameDecisions
<1>4. CASE LlmLate(i)
  BY <1>4 DEF LlmLate, SameDecisions
<1>5. CASE FishOpen(i) \/ FishGone(i)
  BY <1>5 DEF FishOpen, FishGone, SameDecisions
<1>6. CASE FishAudio(i)
  <2>1. turn = i /\ Deliver(i, "audio") /\ "audio" \in Item
    BY <1>6 DEF FishAudio, Live, Item
  <2>2. turns' = [turns EXCEPT ![i] = Buffered(i, "audio")]
    BY <1>6 DEF FishAudio
  <2>3. SameDecisions(i) /\ \A j \in Ids : j # i => turns'[j] = turns[j]
    BY <2>1, <2>2, DeliverEffect DEF SameDecisions, TypeOK
  <2> QED
    BY <1>6, <2>1, <2>3, DeliverEffect DEF FishAudio, SameDecisions
<1>7. CASE FishFinish(i)
  <2>1. turn = i /\ Deliver(i, "done") /\ "done" \in Item
    BY <1>7 DEF FishFinish, Live, Item
  <2>2. turns' = [turns EXCEPT ![i] = [Buffered(i, "done") EXCEPT !.finished = TRUE]]
    BY <1>7 DEF FishFinish
  <2>3. SameDecisions(i) /\ \A j \in Ids : j # i => turns'[j] = turns[j]
    BY <2>1, <2>2, DeliverEffect DEF SameDecisions, TypeOK, TurnObject
  <2> QED
    BY <1>7, <2>1, <2>3, DeliverEffect DEF FishFinish, SameDecisions
<1>8. CASE FishFail(i)
  BY <1>8 DEF FishFail, SameDecisions
<1> QED
  BY <1>1, <1>2, <1>3, <1>4, <1>5, <1>6, <1>7, <1>8 DEF LlmEvent, FishEvent

(***************************************************************************)
(* Properties of the user's side: the hold, the duck and the final text.   *)
(***************************************************************************)

(* However the hold ends, playback does not stay ducked without one.       *)
THEOREM DuckNeedsHold == Spec => []DuckedOnlyWhileHeld
<1>1. Init => DuckedOnlyWhileHeld
  BY DEF Init, DuckedOnlyWhileHeld
<1>2. DuckedOnlyWhileHeld /\ [Next]_vars => DuckedOnlyWhileHeld'
  <2> SUFFICES ASSUME DuckedOnlyWhileHeld, [Next]_vars PROVE DuckedOnlyWhileHeld'
    OBVIOUS
  <2> USE DEF DuckedOnlyWhileHeld, userSide, browserSide
  <2>1. CASE StartHeld
    BY <2>1 DEF StartHeld
  <2>2. CASE StartCut \/ UpdateConfirms
    BY <2>2 DEF StartCut, UpdateConfirms, SendClear
  <2>3. CASE TurnResumed
    BY <2>3 DEF TurnResumed
  <2>4. CASE EndOfTurnEmpty \/ EndOfTurnEcho
    BY <2>4 DEF EndOfTurnEmpty, EndOfTurnEcho, ReleaseHold
  <2>5. ASSUME NEW text \in Texts \cup {NoText}, EagerIgnored(text) PROVE DuckedOnlyWhileHeld'
    BY <2>5 DEF EagerIgnored
  <2>6. ASSUME NEW text \in Texts, EagerSpeculate(text) PROVE DuckedOnlyWhileHeld'
    BY <2>6 DEF EagerSpeculate, ClearIf, SendClear
  <2>7. ASSUME NEW text \in Texts, EndOfTurnCommit(text) PROVE DuckedOnlyWhileHeld'
    BY <2>7 DEF EndOfTurnCommit
  <2>8. ASSUME NEW text \in Texts, EndOfTurnAnswer(text) PROVE DuckedOnlyWhileHeld'
    BY <2>8 DEF EndOfTurnAnswer, ClearIf, SendClear
  <2>9. CASE SttClosed \/ ApplyConfig \/ PlaybackEnds \/ Destroy \/ UNCHANGED vars
    BY <2>9 DEF SttClosed, ApplyConfig, PlaybackEnds, Destroy, vars
  <2>10. ASSUME NEW i \in Ids, LlmEvent(i) PROVE DuckedOnlyWhileHeld'
    BY <2>10 DEF LlmEvent, LlmDelta, LlmDone, LlmFail, LlmLate
  <2>11. ASSUME NEW i \in Ids, FishEvent(i) PROVE DuckedOnlyWhileHeld'
    BY <2>11 DEF FishEvent, FishOpen, FishAudio, FishFinish, FishFail, FishGone
  <2> QED
    BY <2>1, <2>2, <2>3, <2>4, <2>5, <2>6, <2>7, <2>8, <2>9, <2>10, <2>11 DEF Next, FluxEvent
<1> QED
  BY <1>1, <1>2, PTL DEF Spec

(* While the user talks over no hold, no promised reply is in flight and   *)
(* no agent audio is on its way to the speaker.                            *)
THEOREM BargeInWorks == Spec => []BargeInStopsReply
<1>1. Init => BargeInStopsReply
  BY DEF Init, BargeInStopsReply, UserTalking
<1>2. TypeOK /\ BargeInStopsReply /\ [Next]_vars => BargeInStopsReply'
  <2> SUFFICES ASSUME TypeOK, BargeInStopsReply, [Next]_vars PROVE BargeInStopsReply'
    OBVIOUS
  <2> USE DEF BargeInStopsReply, UserTalking, userSide, turnState
  <2>1. CASE StartHeld
    BY <2>1 DEF StartHeld
  <2>2. CASE StartCut \/ UpdateConfirms
    BY <2>2 DEF StartCut, UpdateConfirms, SendClear, CancelTurn
  <2>3. CASE TurnResumed
    BY <2>3 DEF TurnResumed, CancelTurn, KeepTurn
  <2>4. CASE EndOfTurnEmpty \/ EndOfTurnEcho \/ SttClosed
    BY <2>4 DEF EndOfTurnEmpty, EndOfTurnEcho, SttClosed
  <2>5. ASSUME NEW text \in Texts \cup {NoText}, EagerIgnored(text) PROVE BargeInStopsReply'
    BY <2>5 DEF EagerIgnored, KeepTurn
  <2>6. ASSUME NEW text \in Texts, EagerSpeculate(text) PROVE BargeInStopsReply'
    <3>1. turn' \in Ids /\ ~turns'[turn'].committed
      BY <2>6 DEF EagerSpeculate, ReplaceTurn, NewTurn, TypeOK
    <3>2. ~bargeHeld' => ~audible'
      BY <2>6 DEF EagerSpeculate, ClearIf, SendClear
    <3> QED
      BY <3>1, <3>2
  <2>7. ASSUME NEW text \in Texts, EndOfTurnCommit(text) \/ EndOfTurnAnswer(text)
        PROVE  BargeInStopsReply'
    BY <2>7 DEF EndOfTurnCommit, EndOfTurnAnswer
  <2>8. CASE ApplyConfig \/ PlaybackEnds \/ Destroy \/ UNCHANGED vars
    BY <2>8 DEF ApplyConfig, PlaybackEnds, Destroy, vars
  <2>9. ASSUME NEW i \in Ids, LlmEvent(i) \/ FishEvent(i) PROVE BargeInStopsReply'
    <3>1. turn # NoTurn => turn \in Ids
      BY SessionAssumption DEF TypeOK, Ids, NoTurn
    <3> QED
      BY <2>9, <3>1, StreamEvent DEF SameDecisions
  <2> QED
    BY <2>1, <2>2, <2>3, <2>4, <2>5, <2>6, <2>7, <2>8, <2>9 DEF Next, FluxEvent
<1> QED
  BY <1>1, <1>2, TypeCorrect, PTL DEF Spec

(* A promised reply answers the transcript the browser was shown last.     *)
THEOREM FinalIsAnswered == Spec => []AnswersFinalTranscript
<1>1. Init => AnswersFinalTranscript
  BY DEF Init, AnswersFinalTranscript
<1>2. TypeOK /\ AnswersFinalTranscript /\ [Next]_vars => AnswersFinalTranscript'
  <2> SUFFICES ASSUME TypeOK, AnswersFinalTranscript, [Next]_vars
               PROVE  AnswersFinalTranscript'
    OBVIOUS
  <2> USE DEF AnswersFinalTranscript, knobs, userSide, turnState, browserSide
  <2>1. CASE StartHeld \/ EndOfTurnEcho
    BY <2>1 DEF StartHeld, EndOfTurnEcho, KeepTurn
  <2>2. CASE StartCut \/ UpdateConfirms
    BY <2>2 DEF StartCut, UpdateConfirms, CancelTurn
  <2>3. CASE TurnResumed \/ EndOfTurnEmpty
    BY <2>3 DEF TurnResumed, EndOfTurnEmpty, CancelTurn, KeepTurn
  <2>4. ASSUME NEW text \in Texts \cup {NoText}, EagerIgnored(text) PROVE AnswersFinalTranscript'
    BY <2>4 DEF EagerIgnored, KeepTurn
  <2>5. ASSUME NEW text \in Texts, EagerSpeculate(text) PROVE AnswersFinalTranscript'
    BY <2>5 DEF EagerSpeculate, ReplaceTurn, NewTurn, TypeOK
  <2>6. ASSUME NEW text \in Texts, EndOfTurnCommit(text) PROVE AnswersFinalTranscript'
    <3>1. turn \in Ids /\ turns[turn].userText = text
      BY <2>6, SessionAssumption DEF EndOfTurnCommit, CanCommit, Speculating, TypeOK, Ids, NoTurn
    <3>2. turns'[turn].userText = text
      BY <2>6, <3>1 DEF EndOfTurnCommit, CommitTurn, TypeOK, TurnObject
    <3> QED
      BY <2>6, <3>2 DEF EndOfTurnCommit, CommitTurn, TurnAfterCommit, SaidFinal
  <2>7. ASSUME NEW text \in Texts, EndOfTurnAnswer(text) PROVE AnswersFinalTranscript'
    BY <2>7 DEF EndOfTurnAnswer, ReplaceTurn, NewTurn, SaidFinal, TypeOK
  <2>8. CASE SttClosed \/ ApplyConfig \/ PlaybackEnds \/ Destroy \/ UNCHANGED vars
    BY <2>8 DEF SttClosed, ApplyConfig, PlaybackEnds, Destroy, vars
  <2>9. ASSUME NEW i \in Ids, LlmEvent(i) \/ FishEvent(i) PROVE AnswersFinalTranscript'
    <3>1. turn # NoTurn => turn \in Ids
      BY SessionAssumption DEF TypeOK, Ids, NoTurn
    <3> QED
      BY <2>9, <3>1, StreamEvent DEF SameDecisions
  <2> QED
    BY <2>1, <2>2, <2>3, <2>4, <2>5, <2>6, <2>7, <2>8, <2>9 DEF Next, FluxEvent
<1> QED
  BY <1>1, <1>2, TypeCorrect, PTL DEF Spec

-----------------------------------------------------------------------------
(***************************************************************************)
(* Properties of the turns that are over.                                  *)
(***************************************************************************)

(* live(): no late callback of a dead turn reaches the browser or the      *)
(* conversation.                                                           *)
THEOREM DeadStaySilent == Spec => DeadTurnsAreSilent
<1>1. TypeOK /\ [Next]_vars => [DeadTurnsUntouched]_vars
  <2> SUFFICES ASSUME TypeOK, [Next]_vars, NEW i \in Ids, i <= turnCounter, i # turn
               PROVE  shown'[i] = shown[i] /\ made'[i] = made[i] /\ turns'[i] = turns[i]
    BY DEF DeadTurnsUntouched
  <2> USE DEF turnState, browserSide
  <2>1. CASE KeepTurn /\ UNCHANGED shown
    BY <2>1 DEF KeepTurn
  <2>2. CASE CancelTurn /\ UNCHANGED shown
    BY <2>2 DEF CancelTurn
  <2>3. ASSUME NEW text \in Texts, NEW now \in BOOLEAN, ReplaceTurn(text, now), UNCHANGED shown
        PROVE  shown'[i] = shown[i] /\ made'[i] = made[i] /\ turns'[i] = turns[i]
    BY <2>3, SessionAssumption DEF ReplaceTurn, TypeOK, Ids
  <2>4. CASE Speculating /\ CommitTurn
    BY <2>4 DEF CommitTurn, ShowTo, TypeOK
  <2>5. CASE Destroy
    BY <2>5 DEF Destroy
  <2>6. ASSUME NEW j \in Ids, LlmEvent(j) \/ FishEvent(j)
        PROVE  shown'[i] = shown[i] /\ made'[i] = made[i] /\ turns'[i] = turns[i]
    BY <2>6, StreamEvent
  <2> QED
    BY <2>1, <2>2, <2>3, <2>4, <2>5, <2>6, TurnSteps DEF TurnStep
<1> QED
  BY <1>1, TypeCorrect, PTL DEF Spec, DeadTurnsAreSilent

(* Every path that takes a turn out of flight closes its Fish socket.      *)
THEOREM SocketsReleased == Spec => []FishSocketsReleased
<1>1. Init => FishSocketsReleased
  BY DEF Init, FishSocketsReleased
<1>2. TypeOK /\ TurnBookkeeping /\ FishSocketsReleased /\ [Next]_vars => FishSocketsReleased'
  <2> SUFFICES ASSUME TypeOK, TurnBookkeeping, FishSocketsReleased, [Next]_vars,
                      NEW i \in 1..turnCounter', i # turn'
               PROVE  fish'[i] \in {"closing", "gone"}
    BY DEF FishSocketsReleased
  <2> USE DEF turnState, streams
  <2>1. turnCounter \in Nat /\ turnCounter <= MaxTurns /\ MaxTurns \in Nat
    BY SessionAssumption DEF TypeOK
  <2>2. ASSUME i \in 1..turnCounter
        PROVE  /\ i \in Ids /\ InStep(i) /\ fish[i] \in FishState \ {"unborn"}
               /\ i # turn => fish[i] \in {"closing", "gone"}
    BY <2>1, <2>2 DEF FishSocketsReleased, TurnBookkeeping, InStep, TypeOK, Ids
  <2>3. CASE KeepTurn
    BY <2>2, <2>3 DEF KeepTurn
  <2>4. CASE CancelTurn
    BY <2>2, <2>4 DEF CancelTurn, ClosedFish, Hangup, FishState
  <2>5. ASSUME NEW text \in Texts, NEW now \in BOOLEAN, ReplaceTurn(text, now)
        PROVE  fish'[i] \in {"closing", "gone"}
    <3>1. i \in 1..turnCounter
      BY <2>1, <2>5 DEF ReplaceTurn
    <3> QED
      BY <2>2, <2>5, <3>1 DEF ReplaceTurn, ClosedFish, Hangup, FishState
  <2>6. CASE Speculating /\ CommitTurn
    BY <2>2, <2>6 DEF CommitTurn, TurnAfterCommit, InStep
  <2>7. CASE Destroy
    BY <2>2, <2>7 DEF Destroy, ClosedFish, Hangup, FishState
  <2>8. ASSUME NEW j \in Ids, LlmEvent(j) PROVE fish'[i] \in {"closing", "gone"}
    <3>1. CASE LlmDelta(j) \/ LlmDone(j) \/ LlmLate(j)
      BY <2>2, <3>1 DEF LlmDelta, LlmDone, LlmLate
    <3>2. CASE LlmFail(j)
      BY <2>2, <3>2 DEF LlmFail, Live, ClosedFish, Hangup, FishState
    <3> QED
      BY <2>8, <3>1, <3>2 DEF LlmEvent
  <2>9. ASSUME NEW j \in Ids, FishEvent(j) PROVE fish'[i] \in {"closing", "gone"}
    <3>1. CASE FishOpen(j)
      BY <2>2, <3>1 DEF FishOpen, TypeOK
    <3>2. CASE FishAudio(j)
      BY <2>2, <3>2 DEF FishAudio
    <3>3. CASE FishFinish(j) \/ FishFail(j) \/ FishGone(j)
      BY <2>2, <3>3 DEF FishFinish, FishFail, FishGone, Live, TypeOK
    <3> QED
      BY <2>9, <3>1, <3>2, <3>3 DEF FishEvent
  <2> QED
    BY <2>3, <2>4, <2>5, <2>6, <2>7, <2>8, <2>9, TurnSteps DEF TurnStep
<1> QED
  BY <1>1, <1>2, TypeCorrect, Bookkeeping, PTL DEF Spec

(* Only a Fish failure leaves an LLM stream running behind a dead turn.    *)
THEOREM StraysExplained == Spec => []StrayLlmOnlyAfterFishFailure
<1>1. Init => StrayLlmOnlyAfterFishFailure
  BY DEF Init, StrayLlmOnlyAfterFishFailure
<1>2. /\ TypeOK /\ TypeOK' /\ TurnBookkeeping /\ TurnBookkeeping'
      /\ StrayLlmOnlyAfterFishFailure /\ [Next]_vars
      => StrayLlmOnlyAfterFishFailure'
  <2> SUFFICES ASSUME TypeOK, TypeOK', TurnBookkeeping, TurnBookkeeping',
                      StrayLlmOnlyAfterFishFailure, [Next]_vars,
                      NEW i \in 1..turnCounter', i # turn', llm'[i] = "streaming"
               PROVE  fish'[i] = "gone" /\ ~turns'[i].finished
    BY DEF StrayLlmOnlyAfterFishFailure
  <2> USE DEF turnState, streams
  <2>1. turnCounter \in Nat /\ turnCounter' \in Nat /\ turnCounter' <= MaxTurns /\ MaxTurns \in Nat
    BY SessionAssumption DEF TypeOK
  <2>2. ~turns'[i].finished
    BY <2>1 DEF TurnBookkeeping, InStep, Ids
  <2>3. ASSUME i \in 1..turnCounter
        PROVE  i \in Ids /\ (i # turn /\ llm[i] = "streaming" => fish[i] = "gone")
               /\ (turns[i].finished => llm[i] = "ended")
    BY <2>1, <2>3, SessionAssumption DEF StrayLlmOnlyAfterFishFailure, TurnBookkeeping, InStep,
       TypeOK, Ids
  <2>4. CASE KeepTurn
    BY <2>2, <2>3, <2>4 DEF KeepTurn
  <2>5. CASE CancelTurn \/ Destroy
    BY <2>2, <2>3, <2>5 DEF CancelTurn, Destroy, AbortedLlm, ClosedFish, Hangup
  <2>6. ASSUME NEW text \in Texts, NEW now \in BOOLEAN, ReplaceTurn(text, now)
        PROVE  fish'[i] = "gone"
    <3>1. i \in 1..turnCounter
      BY <2>1, <2>6 DEF ReplaceTurn
    <3> QED
      BY <2>3, <2>6, <3>1 DEF ReplaceTurn, AbortedLlm, ClosedFish, Hangup
  <2>7. CASE Speculating /\ CommitTurn
    BY <2>2, <2>3, <2>7 DEF CommitTurn, TurnAfterCommit
  <2>8. ASSUME NEW j \in Ids, LlmEvent(j) PROVE fish'[i] = "gone"
    <3>1. CASE LlmDelta(j) \/ LlmDone(j) \/ LlmLate(j)
      BY <2>3, <3>1 DEF LlmDelta, LlmDone, LlmLate, TypeOK
    <3>2. CASE LlmFail(j)
      BY <2>3, <3>2 DEF LlmFail, Live, ClosedFish, Hangup, TypeOK
    <3> QED
      BY <2>8, <3>1, <3>2 DEF LlmEvent
  <2>9. ASSUME NEW j \in Ids, FishEvent(j) PROVE fish'[i] = "gone"
    <3>1. CASE FishOpen(j) \/ FishAudio(j) \/ FishGone(j)
      BY <2>3, <3>1 DEF FishOpen, FishAudio, FishGone, TypeOK
    <3>2. CASE FishFinish(j) \/ FishFail(j)
      BY <2>3, <3>2 DEF FishFinish, FishFail, Live, TypeOK
    <3> QED
      BY <2>9, <3>1, <3>2 DEF FishEvent
  <2> QED
    BY <2>2, <2>4, <2>5, <2>6, <2>7, <2>8, <2>9, TurnSteps DEF TurnStep
<1> QED
  BY <1>1, <1>2, TypeCorrect, Bookkeeping, PTL DEF Spec

-----------------------------------------------------------------------------
(***************************************************************************)
(* How the conversation grows.                                             *)
(***************************************************************************)

\* A cancelled turn adds its exchange after all the recorded ones.
LEMMA CancelAppendsInOrder ==
  ASSUME TypeOK, TurnBookkeeping, HistoryInOrder
  PROVE  \A j, k \in DOMAIN HistoryAfterCancel :
           j < k => HistoryAfterCancel[j].turn < HistoryAfterCancel[k].turn
<1>1. CASE HistoryAfterCancel = history
  BY <1>1 DEF HistoryInOrder
<1>2. CASE /\ HistoryAfterCancel = Append(history, [turn |-> turn, reply |-> "cut"])
           /\ turn # NoTurn /\ ~turns[turn].inHistory
  <2>1. [turn |-> turn, reply |-> "cut"] \in Exchange
    BY <1>2, SessionAssumption DEF Exchange, Ids, NoTurn, TypeOK
  <2>2. \A k \in DOMAIN history : history[k].turn < turn
    BY <1>2 DEF TurnBookkeeping, RecordedInTime
  <2> SUFFICES ASSUME NEW j \in DOMAIN HistoryAfterCancel, NEW k \in DOMAIN HistoryAfterCancel,
                      j < k
               PROVE  HistoryAfterCancel[j].turn < HistoryAfterCancel[k].turn
    OBVIOUS
  <2>3. j \in DOMAIN history /\ HistoryAfterCancel[j] = history[j]
    BY <1>2, <2>1, Appended DEF TypeOK
  <2>4. \/ k \in DOMAIN history /\ HistoryAfterCancel[k] = history[k]
        \/ HistoryAfterCancel[k] = [turn |-> turn, reply |-> "cut"]
    BY <1>2, <2>1, Appended
  <2> QED
    BY <2>2, <2>3, <2>4 DEF HistoryInOrder
<1> QED
  BY <1>1, <1>2 DEF HistoryAfterCancel

(* An exchange is recorded at most once, in the order of the user turns.   *)
THEOREM ConversationInOrder == Spec => []HistoryInOrder
<1>1. Init => HistoryInOrder
  BY DEF Init, HistoryInOrder
<1>2. TypeOK /\ TurnBookkeeping /\ HistoryInOrder /\ [Next]_vars => HistoryInOrder'
  <2> SUFFICES ASSUME TypeOK, TurnBookkeeping, HistoryInOrder, [Next]_vars
               PROVE  HistoryInOrder'
    OBVIOUS
  <2> USE DEF streams, turnState, browserSide
  <2>1. CASE KeepTurn \/ CommitTurn \/ Destroy
    BY <2>1 DEF KeepTurn, CommitTurn, Destroy, HistoryInOrder
  <2>2. CASE history' = HistoryAfterCancel
    BY <2>2, CancelAppendsInOrder DEF HistoryInOrder
  <2>3. ASSUME NEW i \in Ids, LlmDone(i) PROVE HistoryInOrder'
    <3> DEFINE new == [turn |-> i, reply |-> IF HasText(i) THEN "full" ELSE "empty"]
    <3>1. new \in Exchange /\ history' = Append(history, new) /\ turn = i /\ llm[i] = "streaming"
      BY <2>3 DEF LlmDone, Live, Exchange
    <3>2. \A k \in DOMAIN history : history[k].turn < i
      <4>1. ~turns[i].inHistory /\ i # NoTurn
        BY <3>1, SessionAssumption DEF TurnBookkeeping, InStep, Ids, NoTurn
      <4> QED
        BY <3>1, <4>1 DEF TurnBookkeeping, RecordedInTime
    <3> SUFFICES ASSUME NEW j \in DOMAIN history', NEW k \in DOMAIN history', j < k
                 PROVE  history'[j].turn < history'[k].turn
      BY DEF HistoryInOrder
    <3>3. j \in DOMAIN history /\ history'[j] = history[j]
      BY <3>1, Appended DEF TypeOK
    <3>4. \/ k \in DOMAIN history /\ history'[k] = history[k]
          \/ history'[k] = new
      BY <3>1, Appended
    <3> QED
      BY <3>2, <3>3, <3>4 DEF HistoryInOrder
  <2>4. ASSUME NEW i \in Ids, LlmEvent(i) \/ FishEvent(i), ~LlmDone(i) PROVE HistoryInOrder'
    BY <2>4 DEF LlmEvent, LlmDelta, LlmFail, LlmLate, FishEvent, FishOpen, FishAudio, FishFinish,
       FishFail, FishGone, HistoryInOrder
  <2> QED
    BY <2>1, <2>2, <2>3, <2>4, TurnSteps DEF TurnStep, CancelTurn, ReplaceTurn
<1> QED
  BY <1>1, <1>2, TypeCorrect, Bookkeeping, PTL DEF Spec

\* Only the end of the LLM stream marks a turn as recorded.
LEMMA StreamKeepsRecord ==
  ASSUME TypeOK, NEW i \in Ids, LlmEvent(i) \/ FishEvent(i), ~LlmDone(i), NEW j \in Ids
  PROVE  turns'[j].inHistory = turns[j].inHistory
<1> USE DEF turnState
<1>1. ASSUME NEW item \in Item, Deliver(i, item)
      PROVE  Buffered(i, item) \in TurnObject /\ Buffered(i, item).inHistory = turns[i].inHistory
  BY <1>1, DeliverType DEF Buffered, TypeOK, TurnObject
<1>2. CASE LlmDelta(i)
  <2>1. PICK pushed \in BOOLEAN :
          turns' = [turns EXCEPT ![i] = [Buffered(i, "text") EXCEPT !.spoken = @ \/ pushed]]
    BY <1>2 DEF LlmDelta
  <2> QED
    BY <1>1, <1>2, <2>1 DEF LlmDelta, Item, TypeOK, TurnObject
<1>3. CASE FishAudio(i)
  BY <1>1, <1>3 DEF FishAudio, Item, TypeOK
<1>4. CASE FishFinish(i)
  BY <1>1, <1>4 DEF FishFinish, Item, TypeOK, TurnObject
<1>5. CASE LlmFail(i) \/ LlmLate(i) \/ FishOpen(i) \/ FishFail(i) \/ FishGone(i)
  BY <1>5 DEF LlmFail, LlmLate, FishOpen, FishFail, FishGone
<1> QED
  BY <1>2, <1>3, <1>4, <1>5 DEF LlmEvent, FishEvent

(* The reply in flight was generated from the whole conversation.          *)
THEOREM PromptsComplete == Spec => []PromptIsComplete
<1>1. Init => PromptIsComplete
  BY DEF Init, PromptIsComplete
<1>2. TypeOK /\ TurnBookkeeping /\ PromptIsComplete /\ [Next]_vars => PromptIsComplete'
  <2> SUFFICES ASSUME TypeOK, TurnBookkeeping, PromptIsComplete, [Next]_vars, turn' # NoTurn
               PROVE  Len(history') = turns'[turn'].prompt + (IF turns'[turn'].inHistory THEN 1 ELSE 0)
    BY DEF PromptIsComplete
  <2> USE DEF streams, turnState, browserSide
  <2>0. turn # NoTurn => turn \in Ids
    BY SessionAssumption DEF TypeOK, Ids, NoTurn
  <2>1. CASE KeepTurn
    BY <2>1 DEF KeepTurn, PromptIsComplete
  <2>2. CASE CancelTurn \/ Destroy
    BY <2>2 DEF CancelTurn, Destroy
  <2>3. ASSUME NEW text \in Texts, NEW now \in BOOLEAN, ReplaceTurn(text, now)
        PROVE  Len(history') = turns'[turn'].prompt + (IF turns'[turn'].inHistory THEN 1 ELSE 0)
    <3>1. turns'[turn'] = NewTurn(text, now)
      BY <2>3 DEF ReplaceTurn, TypeOK
    <3> QED
      BY <2>3, <3>1, CancelTypes DEF ReplaceTurn, NewTurn
  <2>4. CASE Speculating /\ CommitTurn
    BY <2>0, <2>4 DEF Speculating, CommitTurn, TurnAfterCommit, TypeOK, TurnObject, PromptIsComplete
  <2>5. ASSUME NEW i \in Ids, LlmDone(i)
        PROVE  Len(history') = turns'[turn'].prompt + (IF turns'[turn'].inHistory THEN 1 ELSE 0)
    <3> DEFINE new == [turn |-> i, reply |-> IF HasText(i) THEN "full" ELSE "empty"]
    <3>1. new \in Exchange /\ history' = Append(history, new) /\ turn = i /\ turn' = i /\ i # NoTurn
      BY <2>5, SessionAssumption DEF LlmDone, Live, Exchange, Ids, NoTurn
    <3>2. ~turns[i].inHistory
      BY <2>5 DEF LlmDone, TurnBookkeeping, InStep
    <3>3. turns'[i].inHistory /\ turns'[i].prompt = turns[i].prompt /\ turns[i].prompt \in Nat
      BY <2>5 DEF LlmDone, TypeOK, TurnObject
    <3> QED
      BY <3>1, <3>2, <3>3, Appended DEF PromptIsComplete, TypeOK
  <2>6. ASSUME NEW i \in Ids, LlmEvent(i) \/ FishEvent(i), ~LlmDone(i)
        PROVE  Len(history') = turns'[turn'].prompt + (IF turns'[turn'].inHistory THEN 1 ELSE 0)
    <3>1. turn' = turn /\ turns'[turn].prompt = turns[turn].prompt
      BY <2>0, <2>6, StreamEvent DEF SameDecisions
    <3>2. history' = history
      BY <2>6 DEF LlmEvent, LlmDelta, LlmFail, LlmLate, FishEvent, FishOpen, FishAudio, FishFinish,
         FishFail, FishGone
    <3>3. turns'[turn].inHistory = turns[turn].inHistory
      BY <2>0, <2>6, <3>1, StreamKeepsRecord
    <3> QED
      BY <3>1, <3>2, <3>3 DEF PromptIsComplete
  <2> QED
    BY <2>1, <2>2, <2>3, <2>4, <2>5, <2>6, TurnSteps DEF TurnStep
<1> QED
  BY <1>1, <1>2, TypeCorrect, Bookkeeping, PTL DEF Spec

-----------------------------------------------------------------------------
(***************************************************************************)
(* How a reply reaches the browser.                                        *)
(***************************************************************************)

\* A browser websocket that closed stays closed.
LEMMA ClientNeverReturns ==
  ASSUME [Next]_vars PROVE client' => client
<1> USE DEF knobs, FluxEvent, LlmEvent, FishEvent
<1>1. CASE FluxEvent
  BY <1>1 DEF StartHeld, StartCut, UpdateConfirms, TurnResumed, EndOfTurnEmpty, EndOfTurnEcho,
     EagerIgnored, EagerSpeculate, EndOfTurnCommit, EndOfTurnAnswer, SttClosed
<1>2. ASSUME NEW i \in Ids, LlmEvent(i) \/ FishEvent(i) PROVE client' => client
  BY <1>2 DEF LlmDelta, LlmDone, LlmFail, LlmLate, FishOpen, FishAudio, FishFinish, FishFail,
     FishGone
<1>3. CASE ApplyConfig \/ PlaybackEnds \/ Destroy \/ UNCHANGED vars
  BY <1>3 DEF ApplyConfig, PlaybackEnds, Destroy, vars
<1> QED
  BY <1>1, <1>2, <1>3 DEF Next

\* What DeliveredInOrder says of one turn.
Delivered(i) ==
  /\ ~turns[i].committed => shown[i] = << >> /\ turns[i].outbox = made[i]
  /\ turns[i].committed  => turns[i].outbox = << >> /\ (client => shown[i] = made[i])

\* #deliver keeps it, whichever of the three items it is given.
LEMMA DeliverKeepsOrder ==
  ASSUME TypeOK, NEW i \in Ids, NEW item \in Item, Delivered(i), Deliver(i, item), client' => client
  PROVE  LET object == Buffered(i, item)
         IN  /\ ~object.committed => shown'[i] = << >> /\ object.outbox = made'[i]
             /\ object.committed  => object.outbox = << >> /\ (client' => shown'[i] = made'[i])
<1>1. /\ turns[i] \in TurnObject /\ turns[i].outbox \in Seq(Item)
      /\ made[i] \in Seq(Item) /\ shown[i] \in Seq(Item)
  BY DEF TypeOK, TurnObject
<1>2. made'[i] = Append(made[i], item)
  BY DEF Deliver, TypeOK
<1>3. CASE turns[i].committed
  <2>1. Buffered(i, item) = turns[i]
    BY <1>3 DEF Buffered
  <2>2. client => shown'[i] = shown[i] \o <<item>>
    BY <1>3 DEF Deliver, ShowTo, TypeOK
  <2>3. shown[i] \o <<item>> = Append(shown[i], item)
    BY <1>1
  <2> QED
    BY <1>2, <1>3, <2>1, <2>2, <2>3 DEF Delivered
<1>4. CASE ~turns[i].committed
  <2>1. /\ Buffered(i, item).outbox = Append(turns[i].outbox, item)
        /\ ~Buffered(i, item).committed
    BY <1>1, <1>4 DEF Buffered, TurnObject
  <2>2. shown'[i] = shown[i]
    BY <1>4 DEF Deliver
  <2> QED
    BY <1>2, <1>4, <2>1, <2>2 DEF Delivered
<1> QED
  BY <1>3, <1>4

(* The browser gets exactly what was produced, in order, from the commit   *)
(* on; before it everything waits in the outbox.                           *)
THEOREM DeliveryInOrder == Spec => []DeliveredInOrder
<1>1. Init => DeliveredInOrder
  BY DEF Init, DeliveredInOrder
<1>2. TypeOK /\ TurnBookkeeping /\ DeliveredInOrder /\ [Next]_vars => DeliveredInOrder'
  <2> SUFFICES ASSUME TypeOK, TurnBookkeeping, DeliveredInOrder, [Next]_vars, NEW i \in Ids
               PROVE  Delivered(i)'
    BY DEF DeliveredInOrder, Delivered
  <2> USE DEF streams, turnState, browserSide
  <2>1. Delivered(i) /\ (client' => client)
    BY ClientNeverReturns DEF DeliveredInOrder, Delivered
  <2>2. CASE turns'[i] = turns[i] /\ shown'[i] = shown[i] /\ made'[i] = made[i]
    BY <2>1, <2>2 DEF Delivered
  <2>3. CASE UNCHANGED shown /\ (KeepTurn \/ CancelTurn \/ Destroy)
    BY <2>2, <2>3 DEF KeepTurn, CancelTurn, Destroy
  <2>4. ASSUME NEW text \in Texts, NEW now \in BOOLEAN, ReplaceTurn(text, now), UNCHANGED shown
        PROVE  Delivered(i)'
    <3>1. CASE i = turnCounter + 1
      <4>1. made[i] = << >> /\ shown[i] = << >>
        BY <3>1, SessionAssumption DEF TurnBookkeeping, InStep, TypeOK
      <4>2. turns'[i] = NewTurn(text, now)
        BY <2>4, <3>1 DEF ReplaceTurn, TypeOK
      <4> QED
        BY <2>4, <4>1, <4>2 DEF ReplaceTurn, NewTurn, Delivered
    <3>2. CASE i # turnCounter + 1
      BY <2>2, <2>4, <3>2 DEF ReplaceTurn, TypeOK
    <3> QED
      BY <3>1, <3>2
  <2>5. CASE Speculating /\ CommitTurn
    <3>1. CASE i = turn
      <4>1. turns'[i].committed /\ turns'[i].outbox = << >>
        BY <2>5, <3>1 DEF CommitTurn, TypeOK, TurnObject
      <4>2. client => shown'[i] = shown[i] \o turns[i].outbox
        BY <2>5, <3>1 DEF CommitTurn, ShowTo, TypeOK
      <4>3. shown[i] = << >> /\ turns[i].outbox = made[i] /\ made[i] \in Seq(Item)
        BY <2>1, <2>5, <3>1 DEF Delivered, Speculating, TypeOK
      <4>4. << >> \o made[i] = made[i]
        BY <4>3
      <4> QED
        BY <2>1, <2>5, <4>1, <4>2, <4>3, <4>4 DEF Delivered, CommitTurn
    <3>2. CASE i # turn
      BY <2>2, <2>5, <3>2 DEF CommitTurn, ShowTo, TypeOK
    <3> QED
      BY <3>1, <3>2
  <2>6. ASSUME NEW j \in Ids, LlmEvent(j) \/ FishEvent(j) PROVE Delivered(i)'
    <3>1. CASE i # turn
      BY <2>2, <2>6, <3>1, StreamEvent
    <3>2. CASE i = turn /\ LlmDelta(j)
      <4>1. j = i /\ Deliver(i, "text") /\ "text" \in Item
        BY <3>2 DEF LlmDelta, Live, Item
      <4>2. PICK pushed \in BOOLEAN :
              turns' = [turns EXCEPT ![i] = [Buffered(i, "text") EXCEPT !.spoken = @ \/ pushed]]
        BY <3>2, <4>1 DEF LlmDelta
      <4>3. Buffered(i, "text") \in TurnObject
        BY <4>1, DeliverType
      <4>4. /\ turns'[i].committed = Buffered(i, "text").committed
            /\ turns'[i].outbox = Buffered(i, "text").outbox
        BY <4>2, <4>3 DEF TypeOK, TurnObject
      <4> QED
        BY <2>1, <4>1, <4>4, DeliverKeepsOrder DEF Delivered
    <3>3. CASE i = turn /\ LlmDone(j)
      <4>1. turns'[i].committed = turns[i].committed /\ turns'[i].outbox = turns[i].outbox
        BY <3>3 DEF LlmDone, Live, TypeOK, TurnObject
      <4> QED
        BY <2>1, <3>3, <4>1 DEF LlmDone, Delivered
    <3>4. CASE LlmFail(j) \/ LlmLate(j) \/ FishOpen(j) \/ FishFail(j) \/ FishGone(j)
      BY <2>2, <3>4 DEF LlmFail, LlmLate, FishOpen, FishFail, FishGone
    <3>5. CASE i = turn /\ FishAudio(j)
      <4>1. j = i /\ Deliver(i, "audio") /\ "audio" \in Item
        BY <3>5 DEF FishAudio, Live, Item
      <4>2. turns'[i] = Buffered(i, "audio")
        BY <3>5, <4>1 DEF FishAudio, TypeOK
      <4> QED
        BY <2>1, <4>1, <4>2, DeliverKeepsOrder DEF Delivered
    <3>6. CASE i = turn /\ FishFinish(j)
      <4>1. j = i /\ Deliver(i, "done") /\ "done" \in Item
        BY <3>6 DEF FishFinish, Live, Item
      <4>2. Buffered(i, "done") \in TurnObject
        BY <4>1, DeliverType
      <4>3. /\ turns'[i].committed = Buffered(i, "done").committed
            /\ turns'[i].outbox = Buffered(i, "done").outbox
        BY <3>6, <4>1, <4>2 DEF FishFinish, TypeOK, TurnObject
      <4> QED
        BY <2>1, <4>1, <4>3, DeliverKeepsOrder DEF Delivered
    <3> QED
      BY <2>6, <3>1, <3>2, <3>3, <3>4, <3>5, <3>6 DEF LlmEvent, FishEvent
  <2> QED
    BY <2>3, <2>4, <2>5, <2>6, TurnSteps DEF TurnStep, Destroy
<1> QED
  BY <1>1, <1>2, TypeCorrect, Bookkeeping, PTL DEF Spec

\* The browser knows how the reply of turn i ended.
Closed(i) ==
  \/ notice[i] # "none"
  \/ shown[i] # << >> /\ shown[i][Len(shown[i])] = "done"

(* A promised reply is closed by agent_done, by a clear or by an error.    *)
THEOREM RepliesAreClosed == Spec => []EveryReplyIsClosed
<1>1. Init => EveryReplyIsClosed
  BY DEF Init, EveryReplyIsClosed
<1>2. /\ TypeOK /\ TurnBookkeeping /\ DeliveredInOrder /\ EveryReplyIsClosed /\ [Next]_vars
      => EveryReplyIsClosed'
  <2> SUFFICES ASSUME TypeOK, TurnBookkeeping, DeliveredInOrder, EveryReplyIsClosed, [Next]_vars,
                      NEW i \in 1..turnCounter', turns'[i].committed, i # turn', client'
               PROVE  Closed(i)'
    BY DEF EveryReplyIsClosed, Closed
  <2> USE DEF streams, turnState, browserSide
  <2>1. /\ client /\ i \in Nat
        /\ turnCounter \in Nat /\ turnCounter <= MaxTurns /\ MaxTurns \in Nat
    BY ClientNeverReturns, SessionAssumption DEF TypeOK
  <2>2. ASSUME i \in 1..turnCounter
        PROVE  i \in Ids /\ InStep(i) /\ (turns[i].committed /\ i # turn => Closed(i))
    BY <2>1, <2>2 DEF EveryReplyIsClosed, Closed, TurnBookkeeping, Ids
  <2>3. CASE KeepTurn /\ UNCHANGED shown
    BY <2>2, <2>3 DEF KeepTurn, Closed
  <2>4. CASE CancelTurn /\ UNCHANGED shown
    BY <2>1, <2>2, <2>4 DEF CancelTurn, NoticeAfterCancel, CancelClears, NoTurn, TypeOK, Closed
  <2>5. ASSUME NEW text \in Texts, NEW now \in BOOLEAN, ReplaceTurn(text, now), UNCHANGED shown
        PROVE  Closed(i)'
    <3>1. i \in 1..turnCounter
      BY <2>1, <2>5 DEF ReplaceTurn
    <3>2. turns'[i] = turns[i]
      BY <2>1, <2>2, <2>5, <3>1 DEF ReplaceTurn, TypeOK
    <3> QED
      BY <2>1, <2>2, <2>5, <3>1, <3>2 DEF ReplaceTurn, NoticeAfterCancel, CancelClears, NoTurn,
         TypeOK, Closed
  <2>6. CASE Speculating /\ CommitTurn
    <3>1. i \in 1..turnCounter
      BY <2>6 DEF CommitTurn
    <3>2. CASE i = turn
      <4>1. turns[i].finished /\ ~turns[i].committed
        BY <2>6, <3>2 DEF CommitTurn, TurnAfterCommit, Speculating
      <4>2. turns[i].outbox # << >> /\ turns[i].outbox[Len(turns[i].outbox)] = "done"
        BY <2>2, <3>1, <4>1 DEF InStep
      <4>3. shown'[i] = shown[i] \o turns[i].outbox /\ shown[i] = << >>
        BY <2>1, <2>2, <2>6, <3>1, <3>2, <4>1 DEF CommitTurn, ShowTo, TypeOK, DeliveredInOrder
      <4>4. << >> \o turns[i].outbox = turns[i].outbox
        BY <2>2, <3>1 DEF TypeOK, TurnObject
      <4> QED
        BY <4>2, <4>3, <4>4 DEF Closed
    <3>3. CASE i # turn
      BY <2>2, <2>6, <3>1, <3>3 DEF CommitTurn, ShowTo, TypeOK, Closed
    <3> QED
      BY <3>2, <3>3
  <2>7. CASE Destroy
    BY <2>7 DEF Destroy
  <2>8. ASSUME NEW j \in Ids, LlmEvent(j) \/ FishEvent(j) PROVE Closed(i)'
    <3>1. i \in 1..turnCounter /\ turns[i].committed
      BY <2>2, <2>8, StreamEvent DEF SameDecisions
    <3>2. CASE i # turn
      <4>1. shown'[i] = shown[i]
        BY <2>2, <2>8, <3>1, <3>2, StreamEvent
      <4>2. notice'[i] = notice[i]
        BY <2>2, <2>8, <3>1, <3>2 DEF LlmEvent, LlmDelta, LlmDone, LlmFail, LlmLate, FishEvent,
           FishOpen, FishAudio, FishFinish, FishFail, FishGone, NoticeFailure, Live, TypeOK
      <4> QED
        BY <2>2, <3>1, <3>2, <4>1, <4>2 DEF Closed
    <3>3. CASE i = turn /\ (LlmFail(j) \/ FishFail(j))
      BY <2>1, <2>2, <3>1, <3>3 DEF LlmFail, FishFail, NoticeFailure, Live, TypeOK, Closed
    <3>4. CASE i = turn /\ FishFinish(j)
      <4>1. shown'[i] = shown[i] \o <<"done">> /\ shown[i] \in Seq(Item)
        BY <2>1, <2>2, <3>1, <3>4 DEF FishFinish, Deliver, ShowTo, Live, TypeOK
      <4>2. shown'[i] # << >> /\ shown'[i][Len(shown'[i])] = "done"
        BY <4>1
      <4> QED
        BY <4>2 DEF Closed
    <3>5. CASE LlmDelta(j) \/ LlmDone(j) \/ LlmLate(j) \/ FishOpen(j) \/ FishAudio(j) \/ FishGone(j)
      <4>1. turn' = turn
        BY <3>5 DEF LlmDelta, LlmDone, LlmLate, FishOpen, FishAudio, FishGone
      <4> QED
        BY <2>8, <3>2, <4>1
    <3> QED
      BY <2>8, <3>2, <3>3, <3>4, <3>5 DEF LlmEvent, FishEvent
  <2> QED
    BY <2>3, <2>4, <2>5, <2>6, <2>7, <2>8, TurnSteps DEF TurnStep
<1> QED
  BY <1>1, <1>2, TypeCorrect, Bookkeeping, DeliveryInOrder, PTL DEF Spec

(***************************************************************************)
(* Session implements ReplyStream: under the mapping of the INSTANCE named *)
(* Promise every callback is a step of ReplyStream or no step at all.      *)
(***************************************************************************)

Committed == {i \in Ids : turns[i].committed}
OpenReply == IF turn # NoTurn /\ turns[turn].committed THEN turn ELSE 0

\* The step in terms of the mapped variables.
OpensReply(i) ==
  /\ \A other \in Committed : other < i
  /\ Committed' = Committed \cup {i}
  /\ OpenReply' \in {i, 0}
  /\ \A j \in Ids \ {i} : shown'[j] = shown[j]
ExtendsReply(i) ==
  /\ OpenReply = i
  /\ \E item \in Item : shown' = [shown EXCEPT ![i] = Append(@, item)]
  /\ OpenReply' \in {i, 0}
  /\ UNCHANGED Committed
ClosesReply == OpenReply' = 0 /\ UNCHANGED <<Committed, shown>>
NoNews == UNCHANGED <<Committed, OpenReply, shown>>

PromiseStep == (\E i \in Ids : OpensReply(i) \/ ExtendsReply(i)) \/ ClosesReply \/ NoNews

\* Promised replies belong to ids that were given out.
LEMMA CommittedIds ==
  ASSUME TypeOK, TurnBookkeeping, NEW i \in Committed
  PROVE  i \in Nat /\ i <= turnCounter
<1>1. i \in Ids /\ turns[i].committed
  BY DEF Committed
<1>2. i \in Nat /\ turnCounter \in Nat
  BY <1>1, SessionAssumption DEF Ids, TypeOK
<1>3. ~(i > turnCounter)
  BY <1>1 DEF TurnBookkeeping, InStep
<1> QED
  BY <1>2, <1>3

\* Starting a turn opens a reply or, speculatively, closes the open one.
LEMMA ReplaceIsPromised ==
  ASSUME TypeOK, TurnBookkeeping, UNCHANGED shown,
         NEW text \in Texts, NEW now \in BOOLEAN, ReplaceTurn(text, now)
  PROVE  PromiseStep
<1>1. /\ turn' = turnCounter + 1 /\ turn' \in Ids /\ turn' # NoTurn /\ turnCounter \in Nat
      /\ turns' = [turns EXCEPT ![turn'] = NewTurn(text, now)]
  BY SessionAssumption DEF ReplaceTurn, TypeOK, NoTurn
<1>2. turns'[turn'].committed = now /\ \A j \in Ids : j # turn' => turns'[j] = turns[j]
  BY <1>1 DEF NewTurn, TypeOK
<1>3. turn' \notin Committed
  BY <1>1, CommittedIds
<1>4. CASE now
  <2>1. Committed' = Committed \cup {turn'} /\ OpenReply' = turn'
    BY <1>1, <1>2, <1>4 DEF Committed, OpenReply
  <2>2. \A other \in Committed : other < turn'
    BY <1>1, CommittedIds
  <2> QED
    BY <1>1, <2>1, <2>2 DEF PromiseStep, OpensReply
<1>5. CASE ~now
  <2>1. Committed' = Committed /\ OpenReply' = 0
    BY <1>1, <1>2, <1>3, <1>5 DEF Committed, OpenReply
  <2> QED
    BY <2>1 DEF PromiseStep, ClosesReply
<1> QED
  BY <1>4, <1>5

\* Committing the speculation opens its reply with what it has said so far.
LEMMA CommitIsPromised ==
  ASSUME TypeOK, TurnBookkeeping, Speculating, CommitTurn
  PROVE  PromiseStep
<1>1. turn \in Ids /\ turn # NoTurn /\ turn = turnCounter /\ ~turns[turn].committed
  BY SessionAssumption DEF Speculating, TypeOK, TurnBookkeeping, Ids, NoTurn
<1>2. turns'[turn].committed /\ \A j \in Ids : j # turn => turns'[j] = turns[j] /\ shown'[j] = shown[j]
  BY <1>1 DEF CommitTurn, ShowTo, TypeOK, TurnObject
<1>3. \A other \in Committed : other < turn
  <2>1. turn \notin Committed /\ turn \in Nat
    BY <1>1, SessionAssumption DEF Committed, Ids
  <2> QED
    BY <1>1, <2>1, CommittedIds
<1>4. Committed' = Committed \cup {turn}
  BY <1>1, <1>2 DEF Committed
<1>5. OpenReply' \in {turn, 0}
  BY DEF OpenReply, CommitTurn, TurnAfterCommit
<1> QED
  BY <1>1, <1>2, <1>3, <1>4, <1>5 DEF PromiseStep, OpensReply

\* A stream callback extends the open reply, closes it, or is not noticed.
LEMMA StreamIsPromised ==
  ASSUME TypeOK, NEW i \in Ids, LlmEvent(i) \/ FishEvent(i)
  PROVE  PromiseStep
<1> USE DEF turnState, browserSide
<1>1. UNCHANGED Committed
  BY StreamEvent DEF Committed, SameDecisions
<1>2. turn # NoTurn => turn \in Ids
  BY SessionAssumption DEF TypeOK, Ids, NoTurn
<1>3. OpenReply' \in {OpenReply, 0} /\ (turn' = turn => OpenReply' = OpenReply)
  BY <1>2, StreamEvent DEF OpenReply, SameDecisions
<1>4. ASSUME NEW item \in Item, Deliver(i, item), turn = i
      PROVE  \/ shown' = shown
             \/ shown' = [shown EXCEPT ![i] = Append(@, item)] /\ OpenReply = i
  <2>1. shown[i] \o <<item>> = Append(shown[i], item)
    BY DEF TypeOK
  <2>2. i # NoTurn
    BY SessionAssumption DEF Ids, NoTurn
  <2> QED
    BY <1>4, <2>1, <2>2 DEF Deliver, ShowTo, OpenReply, TypeOK
<1>5. \/ shown' = shown
      \/ \E item \in Item : shown' = [shown EXCEPT ![i] = Append(@, item)] /\ OpenReply = i
  <2>1. CASE LlmDelta(i)
    BY <1>4, <2>1 DEF LlmDelta, Live, Item
  <2>2. CASE FishAudio(i)
    BY <1>4, <2>2 DEF FishAudio, Live, Item
  <2>3. CASE FishFinish(i)
    BY <1>4, <2>3 DEF FishFinish, Live, Item
  <2>4. CASE LlmDone(i) \/ LlmFail(i) \/ LlmLate(i) \/ FishOpen(i) \/ FishFail(i) \/ FishGone(i)
    BY <2>4 DEF LlmDone, LlmFail, LlmLate, FishOpen, FishFail, FishGone
  <2> QED
    BY <2>1, <2>2, <2>3, <2>4 DEF LlmEvent, FishEvent
<1>6. CASE shown' = shown
  BY <1>1, <1>3, <1>6 DEF PromiseStep, ClosesReply, NoNews
<1>7. CASE \E item \in Item : shown' = [shown EXCEPT ![i] = Append(@, item)] /\ OpenReply = i
  BY <1>1, <1>3, <1>7 DEF PromiseStep, ExtendsReply
<1> QED
  BY <1>5, <1>6, <1>7

(* Speculation, barge-in and failures never show: the session is a stream  *)
(* of replies that are opened in order, grow only while open and stay      *)
(* closed.                                                                 *)
THEOREM SessionKeepsPromise == Spec => KeepsPromise
<1>1. Init => Promise!Init
  BY DEF Init, Promise!Init
<1>2. TypeOK /\ TurnBookkeeping /\ [Next]_vars => PromiseStep
  <2> SUFFICES ASSUME TypeOK, TurnBookkeeping, [Next]_vars PROVE PromiseStep
    OBVIOUS
  <2> USE DEF turnState, browserSide
  <2>1. CASE KeepTurn /\ UNCHANGED shown
    BY <2>1 DEF KeepTurn, PromiseStep, NoNews, Committed, OpenReply
  <2>2. CASE (CancelTurn \/ Destroy) /\ UNCHANGED shown
    BY <2>2 DEF CancelTurn, Destroy, PromiseStep, ClosesReply, Committed, OpenReply
  <2>3. ASSUME NEW i \in Ids, LlmEvent(i) \/ FishEvent(i) PROVE PromiseStep
    BY <2>3, StreamIsPromised
  <2> QED
    BY <2>1, <2>2, <2>3, ReplaceIsPromised, CommitIsPromised, TurnSteps DEF TurnStep, Destroy
<1>3. TypeOK /\ TypeOK' /\ PromiseStep => [Promise!Next]_Promise!vars
  <2> SUFFICES ASSUME TypeOK, TypeOK', PromiseStep PROVE [Promise!Next]_Promise!vars
    OBVIOUS
  <2>1. ASSUME NEW i \in Ids, OpensReply(i) PROVE Promise!Next
    <3>1. shown' = [shown EXCEPT ![i] = shown'[i]] /\ shown'[i] \in Seq(Item)
      BY <2>1 DEF OpensReply, TypeOK
    <3> QED
      BY <2>1, <3>1 DEF OpensReply, Committed, OpenReply, Promise!Next, Promise!Open
  <2>2. ASSUME NEW i \in Ids, ExtendsReply(i) PROVE Promise!Next
    BY <2>2 DEF ExtendsReply, Committed, OpenReply, Promise!Next, Promise!Say
  <2>3. CASE ClosesReply
    BY <2>3 DEF ClosesReply, Committed, OpenReply, Promise!Next, Promise!Close
  <2>4. CASE NoNews
    BY <2>4 DEF NoNews, Committed, OpenReply, Promise!vars
  <2> QED
    BY <2>1, <2>2, <2>3, <2>4 DEF PromiseStep
<1> QED
  BY <1>1, <1>2, <1>3, TypeCorrect, Bookkeeping, PTL DEF Spec, KeepsPromise, Promise!Spec
=============================================================================
