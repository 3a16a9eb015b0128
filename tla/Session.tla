------------------------------ MODULE Session ------------------------------
(***************************************************************************)
(* The turn engine of one browser connection: class Session of server.js,  *)
(* with the two streams an agent turn owns (the LLM response and the Fish  *)
(* synthesis socket) and the Deepgram Flux events that drive it.           *)
(*                                                                         *)
(* Node runs one callback at a time, so an action is one callback run to   *)
(* completion; what interleaves is the order in which Flux, the LLM        *)
(* streams, the Fish sockets, the browser and the clock call in.           *)
(*                                                                         *)
(* The browser websocket is FIFO and its reader has no choice of its own,  *)
(* so "what the browser was sent" (ducked, shown, notice, lastFinal) is    *)
(* recorded when it is sent.                                               *)
(***************************************************************************)
EXTENDS Naturals, Sequences

CONSTANTS
  Texts,     \* non-empty transcripts a user turn can have
  NoText,    \* the userText of a turn object that does not exist yet
  MaxTurns,  \* bound: agent turns one session starts
  MaxItems   \* bound: text deltas and audio buffers one turn produces

ASSUME SessionAssumption ==
  /\ Texts # {}
  /\ NoText \notin Texts
  /\ MaxTurns \in Nat \ {0}
  /\ MaxItems \in Nat

VARIABLES
  client,           \* the browser websocket is open
  cfg,              \* the self-interruption knobs: bargeMode "smart", echoFilter
  flux,             \* phase of the current user turn, as Flux reports it
  userTurnAudible,  \* was the agent audible when this user turn began?
  bargeHeld,        \* smart mode: cut deferred, awaiting proof
  audible,          \* agentAudible(): the playback horizon is not past
  turn,             \* id of this.turn, NoTurn when null
  turnCounter,      \* ids given out so far
  turns,            \* the turn objects; callbacks keep old ones reachable
  llm,              \* state of each turn's LLM stream
  fish,             \* state of each turn's Fish socket
  history,          \* the conversation: one entry per recorded exchange
  ducked,           \* the browser was last told to duck its playback
  shown,            \* per turn: what #deliver let through to the browser
  notice,           \* per turn: how else the browser learnt of its end
  lastFinal,        \* the text of the last user_final sent
  made              \* history variable: what each turn's streams produced

knobs       == <<client, cfg>>
userSide    == <<flux, userTurnAudible, bargeHeld>>
turnState   == <<turn, turnCounter, turns>>
streams     == <<llm, fish>>
browserSide == <<ducked, shown, notice, lastFinal>>
vars == <<knobs, userSide, audible, turnState, streams, history, browserSide, made>>

NoTurn == 0
Ids    == 1..MaxTurns

Phases == {"idle", "talking", "eager", "closed"}
Item   == {"text", "audio", "done"}

Notices   == {"none", "clear", "error"}
LlmState  == {"unborn", "streaming", "ended"}
FishState == {"unborn", "connecting", "open", "closing", "gone"}

(***************************************************************************)
(* The turn object of #startTurn. prompt is the length of the history the  *)
(* LLM request is built from.                                              *)
(***************************************************************************)
TurnObject ==
  [userText: Texts \cup {NoText}, committed: BOOLEAN, finished: BOOLEAN,
   inHistory: BOOLEAN, spoken: BOOLEAN, outbox: Seq(Item), prompt: Nat]

\* What history.push adds: the user's text and the reply, whole or cut.
Exchange == [turn: Ids, reply: {"full", "cut", "empty"}]

TypeOK ==
  /\ client \in BOOLEAN
  /\ cfg \in [smart: BOOLEAN, echoFilter: BOOLEAN]
  /\ flux \in Phases
  /\ userTurnAudible \in BOOLEAN
  /\ bargeHeld \in BOOLEAN
  /\ audible \in BOOLEAN
  /\ turnCounter \in 0..MaxTurns
  /\ turn \in 0..turnCounter
  /\ turns \in [Ids -> TurnObject]
  /\ llm \in [Ids -> LlmState]
  /\ fish \in [Ids -> FishState]
  /\ history \in Seq(Exchange)
  /\ ducked \in BOOLEAN
  /\ shown \in [Ids -> Seq(Item)]
  /\ notice \in [Ids -> Notices]
  /\ lastFinal \in Texts \cup {NoText}
  /\ made \in [Ids -> Seq(Item)]

(***************************************************************************)
(* Small faults, one plausible slip of the code each. No action uses them: *)
(* substituted for the definition they are named after, they show that the *)
(* property which is supposed to notice does notice.                       *)
(***************************************************************************)
LiveUnchecked(i)          == TRUE
AbortForgotten            == llm
FishLeftOpen              == fish
ShowNested(i, items)      == [shown EXCEPT ![i] = Append(@, items)]
BufferedAfterCommit(i, m) == [turns[i] EXCEPT !.outbox = Append(@, m)]
ReleaseWithoutUnduck      == bargeHeld' = FALSE /\ UNCHANGED ducked
ClearKeepsHorizon         == ducked' = FALSE /\ UNCHANGED audible
CommitAnyText(text)       == turn # NoTurn /\ ~turns[turn].committed
FinishedTurnKept          == turn
CutUnannounced            == notice
RecordedTwice ==
  IF turn # NoTurn /\ turns[turn].committed /\ turns[turn].spoken
    THEN Append(history, [turn |-> turn, reply |-> "cut"])
    ELSE history
OutboxSkipped(i, item) == turns[i]
StalePrompt(text, now) ==
  [userText |-> text, committed |-> now, finished |-> FALSE, inHistory |-> FALSE,
   spoken |-> FALSE, outbox |-> << >>, prompt |-> Len(history)]

-----------------------------------------------------------------------------
(***************************************************************************)
(* The pieces of a handler.                                                *)
(***************************************************************************)

\* const live = () => this.turn?.id === turn.id
Live(i) == turn = i

\* The turn in flight, if any, has not been promised to the browser yet.
Speculating == turn # NoTurn /\ ~turns[turn].committed

\* #cancelTurn, variable by variable; all of it is a no-op without a turn.
AbortedLlm == [i \in Ids |-> IF i = turn THEN "ended" ELSE llm[i]]

\* close() of openFishTurn: a socket still connecting never opens, an open one may
\* deliver messages until the closing handshake is over. (The error event that the
\* former has yet to emit is not reported: FishTurn, OneVerdict.)
Hangup(state) ==
  IF state = "connecting" THEN "gone" ELSE IF state = "open" THEN "closing" ELSE state

ClosedFish == [i \in Ids |-> IF i = turn THEN Hangup(fish[i]) ELSE fish[i]]

\* An interrupted reply is recorded as far as it was handed to Fish, unless
\* the LLM had finished and #runAgentTurn recorded the exchange.
HistoryAfterCancel ==
  IF /\ turn # NoTurn
     /\ turns[turn].committed
     /\ turns[turn].spoken
     /\ ~turns[turn].inHistory
    THEN Append(history, [turn |-> turn, reply |-> "cut"])
    ELSE history

\* Cancelling a committed turn flushes the playback everywhere.
CancelClears == turn # NoTurn /\ turns[turn].committed
NoticeAfterCancel ==
  IF CancelClears /\ client THEN [notice EXCEPT ![turn] = "clear"] ELSE notice

CancelTurn ==
  /\ turn' = NoTurn
  /\ llm' = AbortedLlm
  /\ fish' = ClosedFish
  /\ history' = HistoryAfterCancel
  /\ notice' = NoticeAfterCancel
  /\ UNCHANGED <<turnCounter, turns, made>>

KeepTurn == UNCHANGED <<turnState, streams, history, notice, made>>

NewTurn(text, now) ==
  [userText |-> text, committed |-> now, finished |-> FALSE, inHistory |-> FALSE,
   spoken |-> FALSE, outbox |-> << >>, prompt |-> Len(HistoryAfterCancel)]

\* if (this.turn) this.#cancelTurn(); this.#startTurn(text, ...), committed on
\* the spot when now holds: until its first await #runAgentTurn delivers nothing.
ReplaceTurn(text, now) ==
  LET id == turnCounter + 1
  IN  /\ id \in Ids
      /\ turnCounter' = id
      /\ turn' = id
      /\ turns' = [turns EXCEPT ![id] = NewTurn(text, now)]
      /\ llm' = [AbortedLlm EXCEPT ![id] = "streaming"]
      /\ fish' = [ClosedFish EXCEPT ![id] = "connecting"]
      /\ history' = HistoryAfterCancel
      /\ notice' = NoticeAfterCancel
      /\ UNCHANGED made

\* sendClear zeroes the playback horizon; the browser drops its queue and gain.
SendClear == audible' = FALSE /\ ducked' = FALSE

ClearIf(wanted) == IF wanted THEN SendClear ELSE UNCHANGED <<audible, ducked>>

\* bargeHeld = false, with an unduck when it was set.
ReleaseHold == bargeHeld' = FALSE /\ ducked' = (ducked /\ ~bargeHeld)

\* sendJson and sendAudio write only while the socket is open. Left out is a gateway
\* socket, which sendAudio prefers to the client's: while that one is closing the
\* audio is dropped and the horizon stays. (What becomes of it is in Transport.)
ShowTo(i, items) == IF client THEN [shown EXCEPT ![i] = @ \o items] ELSE shown

\* #deliver: through to the browser once committed, into the outbox before.
Buffered(i, item) ==
  IF turns[i].committed THEN turns[i] ELSE [turns[i] EXCEPT !.outbox = Append(@, item)]

Deliver(i, item) ==
  /\ made' = [made EXCEPT ![i] = Append(@, item)]
  /\ shown' = IF turns[i].committed THEN ShowTo(i, <<item>>) ELSE shown
  /\ audible' = (audible \/ (item = "audio" /\ turns[i].committed /\ client))

\* Transcript against #recentAgentText: bigram coverage below 0.35, below 0.6,
\* or above ("none", "weak", "strong"); without agent text there is no echo.
AgentTextKnown ==
  \/ history # << >> /\ history[Len(history)].reply # "empty"
  \/ turn # NoTurn /\ turns[turn].spoken

EchoLevels == IF AgentTextKnown THEN {"none", "weak", "strong"} ELSE {"none"}

\* #isSuppressedEcho
SuppressedEcho(echo) == cfg.echoFilter /\ userTurnAudible /\ echo = "strong"

\* The condition of #maybeConfirmBarge; enough is "final || words >= minWords".
BargeProved(echo, enough) ==
  bargeHeld /\ enough /\ ~(cfg.echoFilter /\ echo # "none")

\* The speculation in flight was generated for exactly this transcript.
CanCommit(text) == Speculating /\ turns[turn].userText = text

-----------------------------------------------------------------------------
(***************************************************************************)
(* Flux (external): a user turn is StartOfTurn, then any number of Update, *)
(* EagerEndOfTurn and TurnResumed, then EndOfTurn. #onTurnInfo answers it. *)
(* The handlers keep running after destroy(): closing the Deepgram socket  *)
(* does not recall the events already under way.                           *)
(***************************************************************************)
UserTalking == flux \in {"talking", "eager"}

\* StartOfTurn while the agent is audible in smart mode: duck, do not cut.
StartHeld ==
  /\ flux = "idle" /\ flux' = "talking"
  /\ audible /\ cfg.smart
  /\ userTurnAudible' = TRUE
  /\ bargeHeld' = TRUE
  /\ ducked' = client
  /\ KeepTurn
  /\ UNCHANGED <<knobs, audible, shown, lastFinal>>

\* StartOfTurn otherwise: instant cut, even with no turn in flight.
StartCut ==
  /\ flux = "idle" /\ flux' = "talking"
  /\ ~(audible /\ cfg.smart)
  /\ userTurnAudible' = audible
  /\ bargeHeld' = FALSE
  /\ CancelTurn
  /\ SendClear
  /\ UNCHANGED <<knobs, shown, lastFinal>>

\* An Update whose partial transcript settles a held barge-in. Any other
\* Update only relays the partial text and changes nothing here.
UpdateConfirms ==
  /\ UserTalking
  /\ \E echo \in EchoLevels, enough \in BOOLEAN : BargeProved(echo, enough)
  /\ bargeHeld' = FALSE
  /\ CancelTurn
  /\ SendClear
  /\ UNCHANGED <<knobs, flux, userTurnAudible, shown, lastFinal>>

\* EagerEndOfTurn that starts nothing: there is no transcript, or the hold
\* stands, or the transcript is the agent's own voice, or the same text is
\* already being answered.
EagerIgnored(text) ==
  /\ UserTalking
  /\ \/ text = NoText
     \/ \E echo \in EchoLevels, enough \in BOOLEAN :
          /\ ~BargeProved(echo, enough)
          /\ bargeHeld \/ SuppressedEcho(echo) \/ CanCommit(text)
  /\ flux' = "eager"
  /\ KeepTurn
  /\ UNCHANGED <<knobs, userTurnAudible, bargeHeld, audible, ducked, shown, lastFinal>>

\* EagerEndOfTurn that starts (or restarts) the speculative turn.
EagerSpeculate(text) ==
  /\ UserTalking
  /\ \E echo \in EchoLevels, enough \in BOOLEAN :
       LET proved == BargeProved(echo, enough)
       IN  /\ \/ proved
              \/ ~bargeHeld /\ ~CanCommit(text)
           /\ ~SuppressedEcho(echo)
           /\ bargeHeld' = (bargeHeld /\ ~proved)
           /\ ClearIf(proved \/ CancelClears)
  /\ flux' = "eager"
  /\ ReplaceTurn(text, FALSE)
  /\ UNCHANGED <<knobs, userTurnAudible, shown, lastFinal>>

\* TurnResumed rolls the speculation back.
TurnResumed ==
  /\ flux = "eager" /\ flux' = "talking"
  /\ IF Speculating THEN CancelTurn ELSE KeepTurn
  /\ UNCHANGED <<knobs, userTurnAudible, bargeHeld, audible, ducked, shown, lastFinal>>

\* EndOfTurn without a transcript: false alarm.
EndOfTurnEmpty ==
  /\ UserTalking /\ flux' = "idle"
  /\ IF Speculating THEN CancelTurn ELSE KeepTurn
  /\ ReleaseHold
  /\ UNCHANGED <<knobs, userTurnAudible, audible, shown, lastFinal>>

\* EndOfTurn of the agent's own voice: never answered.
EndOfTurnEcho ==
  /\ UserTalking /\ flux' = "idle"
  /\ \E echo \in EchoLevels : SuppressedEcho(echo)
  /\ ReleaseHold
  /\ KeepTurn
  /\ UNCHANGED <<knobs, userTurnAudible, audible, shown, lastFinal>>

\* EndOfTurn with the transcript the speculation was made for: #commitTurn
\* flushes the outbox; a turn that finished while buffered is over.
TurnAfterCommit == IF turns[turn].finished THEN NoTurn ELSE turn

CommitTurn ==
  /\ turns' = [turns EXCEPT ![turn] = [@ EXCEPT !.committed = TRUE, !.outbox = << >>]]
  /\ shown' = ShowTo(turn, turns[turn].outbox)
  /\ audible' = (audible \/ (client /\ \E k \in DOMAIN turns[turn].outbox :
                                           turns[turn].outbox[k] = "audio"))
  /\ turn' = TurnAfterCommit
  /\ UNCHANGED <<turnCounter, streams, history, notice, made>>

SaidFinal(text) == lastFinal' = IF client THEN text ELSE lastFinal

EndOfTurnCommit(text) ==
  /\ UserTalking /\ flux' = "idle"
  /\ CanCommit(text)
  /\ \E echo \in EchoLevels : ~SuppressedEcho(echo) /\ ~BargeProved(echo, TRUE)
  /\ SaidFinal(text)
  /\ CommitTurn
  /\ UNCHANGED <<knobs, userTurnAudible, bargeHeld, ducked>>

\* EndOfTurn without a usable speculation: start over, already committed.
EndOfTurnAnswer(text) ==
  /\ UserTalking /\ flux' = "idle"
  /\ \E echo \in EchoLevels :
       LET proved == BargeProved(echo, TRUE)
       IN  /\ ~SuppressedEcho(echo)
           /\ proved \/ ~CanCommit(text)
           /\ bargeHeld' = (bargeHeld /\ ~proved)
           /\ ClearIf(proved \/ CancelClears)
  /\ SaidFinal(text)
  /\ ReplaceTurn(text, TRUE)
  /\ UNCHANGED <<knobs, userTurnAudible, shown>>

\* The Deepgram socket closes: no further events, nothing else changes.
SttClosed ==
  /\ flux # "closed" /\ flux' = "closed"
  /\ UNCHANGED <<knobs, userTurnAudible, bargeHeld, audible, turnState, streams,
                 history, browserSide, made>>

-----------------------------------------------------------------------------
(***************************************************************************)
(* The LLM stream of turn i. abort() ends it without another callback; a   *)
(* stream nobody aborted goes on calling in after its turn is gone.        *)
(***************************************************************************)
HasText(i) == \E k \in DOMAIN made[i] : made[i][k] = "text"

\* One delta; pushed tells whether the chunker completed a clause for Fish.
LlmDelta(i) ==
  /\ llm[i] = "streaming" /\ Live(i)
  /\ Len(made[i]) < MaxItems
  /\ Deliver(i, "text")
  /\ \E pushed \in BOOLEAN :
       turns' = [turns EXCEPT ![i] = [Buffered(i, "text") EXCEPT !.spoken = @ \/ pushed]]
  /\ UNCHANGED <<knobs, userSide, turn, turnCounter, streams, history, ducked,
                 notice, lastFinal>>

\* The stream ends: flush the chunker, end Fish's input, record the exchange.
LlmDone(i) ==
  /\ llm[i] = "streaming" /\ Live(i)
  /\ llm' = [llm EXCEPT ![i] = "ended"]
  /\ turns' = [turns EXCEPT ![i] = [@ EXCEPT !.spoken = HasText(i), !.inHistory = TRUE]]
  /\ history' = Append(history,
                  [turn |-> i, reply |-> IF HasText(i) THEN "full" ELSE "empty"])
  /\ UNCHANGED <<knobs, userSide, audible, turn, turnCounter, fish, browserSide, made>>

\* Failing a live turn tells the browser at once, committed or not.
NoticeFailure(i) ==
  notice' = IF Live(i) /\ client THEN [notice EXCEPT ![i] = "error"] ELSE notice

\* The request or the stream fails for another reason than abort().
LlmFail(i) ==
  /\ llm[i] = "streaming" /\ Live(i)
  /\ llm' = [llm EXCEPT ![i] = "ended"]
  /\ fish' = ClosedFish
  /\ turn' = NoTurn
  /\ NoticeFailure(i)
  /\ UNCHANGED <<knobs, userSide, audible, turnCounter, turns, history, ducked,
                 shown, lastFinal, made>>

\* The stream of a turn that is over ends, however: live() fails, no effect.
LlmLate(i) ==
  /\ llm[i] = "streaming" /\ ~Live(i)
  /\ llm' = [llm EXCEPT ![i] = "ended"]
  /\ UNCHANGED <<knobs, userSide, audible, turnState, fish, history, browserSide, made>>

-----------------------------------------------------------------------------
(***************************************************************************)
(* The Fish socket of turn i. Text waits in the socket's queue until it    *)
(* opens; the service synthesizes what it was sent and finishes once told  *)
(* to stop, which endInput does when the LLM is done.                      *)
(***************************************************************************)
FishReceives(i) == fish[i] \in {"open", "closing"}

FishOpen(i) ==
  /\ fish[i] = "connecting"
  /\ fish' = [fish EXCEPT ![i] = "open"]
  /\ UNCHANGED <<knobs, userSide, audible, turnState, llm, history, browserSide, made>>

FishAudio(i) ==
  /\ FishReceives(i) /\ turns[i].spoken
  /\ Live(i)
  /\ Len(made[i]) < MaxItems
  /\ Deliver(i, "audio")
  /\ turns' = [turns EXCEPT ![i] = Buffered(i, "audio")]
  /\ UNCHANGED <<knobs, userSide, turn, turnCounter, streams, history, ducked,
                 notice, lastFinal>>

\* "finish": a speculative turn stays, finished, until it is committed.
FishFinish(i) ==
  /\ FishReceives(i) /\ turns[i].inHistory
  /\ Live(i)
  /\ fish' = [fish EXCEPT ![i] = "gone"]
  /\ Deliver(i, "done")
  /\ turns' = [turns EXCEPT ![i] = [Buffered(i, "done") EXCEPT !.finished = TRUE]]
  /\ turn' = IF turns[i].committed THEN NoTurn ELSE turn
  /\ UNCHANGED <<knobs, userSide, turnCounter, llm, history, ducked, notice, lastFinal>>

\* A socket error, or "finish" with reason "error". The LLM is not aborted.
FishFail(i) ==
  /\ fish[i] \in {"connecting", "open"} /\ Live(i)
  /\ fish' = [fish EXCEPT ![i] = "gone"]
  /\ turn' = NoTurn
  /\ NoticeFailure(i)
  /\ UNCHANGED <<knobs, userSide, audible, turnCounter, turns, llm, history, ducked,
                 shown, lastFinal, made>>

\* The socket closes without "finish" and without an error: nobody listens
\* for "close". Also the end of a socket close() was called on.
FishGone(i) ==
  /\ FishReceives(i)
  /\ fish' = [fish EXCEPT ![i] = "gone"]
  /\ UNCHANGED <<knobs, userSide, audible, turnState, llm, history, browserSide, made>>

-----------------------------------------------------------------------------
(***************************************************************************)
(* The browser and the clock.                                              *)
(***************************************************************************)

ApplyConfig ==
  /\ client
  /\ cfg' \in [smart: BOOLEAN, echoFilter: BOOLEAN]
  /\ UNCHANGED <<client, userSide, audible, turnState, streams, history, browserSide, made>>

PlaybackEnds ==
  /\ audible /\ audible' = FALSE
  /\ UNCHANGED <<knobs, userSide, turnState, streams, history, browserSide, made>>

\* The websocket closes: destroy(). The page resets itself.
Destroy ==
  /\ client /\ client' = FALSE
  /\ turn' = NoTurn
  /\ llm' = AbortedLlm
  /\ fish' = ClosedFish
  /\ ducked' = FALSE
  /\ UNCHANGED <<cfg, userSide, audible, turnCounter, turns, history, shown, notice,
                 lastFinal, made>>

-----------------------------------------------------------------------------
Init ==
  /\ client = TRUE
  /\ cfg = [smart |-> FALSE, echoFilter |-> TRUE]
  /\ flux = "idle"
  /\ userTurnAudible = FALSE
  /\ bargeHeld = FALSE
  /\ audible = FALSE
  /\ turn = NoTurn
  /\ turnCounter = 0
  /\ turns = [i \in Ids |->
       [userText |-> NoText, committed |-> FALSE, finished |-> FALSE, inHistory |-> FALSE,
        spoken |-> FALSE, outbox |-> << >>, prompt |-> 0]]
  /\ llm = [i \in Ids |-> "unborn"]
  /\ fish = [i \in Ids |-> "unborn"]
  /\ history = << >>
  /\ ducked = FALSE
  /\ shown = [i \in Ids |-> << >>]
  /\ notice = [i \in Ids |-> "none"]
  /\ lastFinal = NoText
  /\ made = [i \in Ids |-> << >>]

FluxEvent ==
  \/ StartHeld
  \/ StartCut
  \/ UpdateConfirms
  \/ TurnResumed
  \/ EndOfTurnEmpty
  \/ EndOfTurnEcho
  \/ \E text \in Texts \cup {NoText} : EagerIgnored(text)
  \/ \E text \in Texts :
       \/ EagerSpeculate(text)
       \/ EndOfTurnCommit(text)
       \/ EndOfTurnAnswer(text)
  \/ SttClosed

LlmEvent(i)  == LlmDelta(i) \/ LlmDone(i) \/ LlmFail(i) \/ LlmLate(i)
FishEvent(i) == FishOpen(i) \/ FishAudio(i) \/ FishFinish(i) \/ FishFail(i) \/ FishGone(i)

Next ==
  \/ FluxEvent
  \/ \E i \in Ids : LlmEvent(i) \/ FishEvent(i)
  \/ ApplyConfig
  \/ PlaybackEnds
  \/ Destroy

Spec == Init /\ [][Next]_vars

-----------------------------------------------------------------------------
(***************************************************************************)
(* Fairness of the services: an LLM stream ends (max_tokens bounds it),    *)
(* and a Fish socket that stays up opens, and finishes once it was told to *)
(* stop, or reports a failure. That it stays up is not assumed (FishGone), *)
(* and nothing is assumed of Flux, of the user or of the clock.            *)
(***************************************************************************)
LlmStops(i)  == LlmDone(i) \/ LlmFail(i)
FishStops(i) == FishOpen(i) \/ FishFinish(i) \/ FishFail(i)

FairSpec == Spec /\ \A i \in Ids : WF_vars(LlmStops(i)) /\ WF_vars(FishStops(i))

-----------------------------------------------------------------------------
(***************************************************************************)
(* Properties the code has.                                                *)
(***************************************************************************)

(* #deliver, #commitTurn: whatever the timing of EndOfTurn against the two *)
(* streams, the browser gets what a turn produced exactly once and in the  *)
(* order it was produced, all of it from the commit on and none before.    *)
(* In a WebRTC session, of the audio, while the gateway's socket is up.    *)
DeliveredInOrder ==
  \A i \in Ids :
    /\ ~turns[i].committed => shown[i] = << >> /\ turns[i].outbox = made[i]
    /\ turns[i].committed  => turns[i].outbox = << >> /\ (client => shown[i] = made[i])

DeadTurnsUntouched ==
  \A i \in Ids : i <= turnCounter /\ i # turn =>
    /\ shown'[i] = shown[i]
    /\ made'[i] = made[i]
    /\ turns'[i] = turns[i]

(* live(): once a turn is cancelled, failed or done, no late LLM delta and *)
(* no late Fish message of it reaches the browser or the conversation.     *)
DeadTurnsAreSilent == [][DeadTurnsUntouched]_vars

(* #cancelTurn, #runAgentTurn: an exchange enters the conversation at most *)
(* once, although an interruption and the end of the LLM stream both       *)
(* record it, and exchanges are in the order in which the user spoke.      *)
HistoryInOrder ==
  \A j, k \in DOMAIN history : j < k => history[j].turn < history[k].turn

(* #startTurn: the reply in flight is generated from the whole             *)
(* conversation; no exchange is recorded behind its back.                  *)
PromptIsComplete ==
  turn # NoTurn =>
    Len(history) = turns[turn].prompt + (IF turns[turn].inHistory THEN 1 ELSE 0)

(* #onTurnInfo: playback is never left ducked once the hold that ducked it *)
(* is over, whichever of cut, false alarm or echo ended the hold.          *)
DuckedOnlyWhileHeld == ducked => bargeHeld

(* #onTurnInfo: while the user talks over no hold, no promised reply is in *)
(* flight and the agent is not audible, whatever came in since the cut.    *)
BargeInStopsReply ==
  UserTalking /\ ~bargeHeld =>
    ~audible /\ (turn # NoTurn => ~turns[turn].committed)

(* #cancelTurn, onFinish, onError, destroy: every path on which a turn     *)
(* stops being the current one closes its Fish socket.                     *)
FishSocketsReleased ==
  \A i \in 1..turnCounter : i # turn => fish[i] \in {"closing", "gone"}

(* #cancelTurn aborts the LLM request; the only stream left running behind *)
(* a turn that is over is the one whose Fish socket failed.                *)
StrayLlmOnlyAfterFishFailure ==
  \A i \in 1..turnCounter :
    i # turn /\ llm[i] = "streaming" => fish[i] = "gone" /\ ~turns[i].finished

(* #onTurnInfo EndOfTurn: a promised reply in flight answers the very      *)
(* transcript the browser was last shown as final, speculative or not.     *)
AnswersFinalTranscript ==
  turn # NoTurn /\ turns[turn].committed /\ client => turns[turn].userText = lastFinal

(* A promised reply never just stops: the browser got its agent_done, a    *)
(* clear that cut it, or the failure, unless the browser itself is gone.   *)
EveryReplyIsClosed ==
  \A i \in 1..turnCounter :
    turns[i].committed /\ i # turn /\ client =>
      \/ notice[i] # "none"
      \/ shown[i] # << >> /\ shown[i][Len(shown[i])] = "done"

(* #commitTurn, onFinish: a promised reply does not stay in flight for     *)
(* ever, unless its Fish socket went away without a word.                  *)
ReplyEnds ==
  \A i \in Ids :
    (turn = i /\ turns[i].committed) ~>
      (turn # i \/ (fish[i] = "gone" /\ ~turns[i].finished))

(* The session keeps the promise of ReplyStream: speculation is invisible. *)
Promise == INSTANCE ReplyStream WITH
  Replies <- Ids,
  Parts   <- Item,
  opened  <- {i \in Ids : turns[i].committed},
  current <- IF turn # NoTurn /\ turns[turn].committed THEN turn ELSE 0,
  heard   <- shown

KeepsPromise == Promise!Spec

\* A turn object and its two streams.
InStep(i) ==
  /\ i <= turnCounter => llm[i] # "unborn" /\ fish[i] # "unborn"
  /\ i > turnCounter =>
       /\ llm[i] = "unborn" /\ fish[i] = "unborn"
       /\ made[i] = << >> /\ shown[i] = << >> /\ notice[i] = "none"
       /\ ~turns[i].committed /\ ~turns[i].inHistory
  /\ turns[i].inHistory => llm[i] = "ended"
  /\ turns[i].finished => turns[i].inHistory /\ fish[i] = "gone"
  /\ turns[i].finished /\ ~turns[i].committed =>
       turns[i].outbox # << >> /\ turns[i].outbox[Len(turns[i].outbox)] = "done"

\* An exchange of the conversation and the turn in flight.
RecordedInTime(k) ==
  /\ history[k].turn <= turnCounter
  /\ turn # NoTurn /\ ~turns[turn].inHistory => history[k].turn < turn

(* What the other invariants rest on: ids are never reused, this.turn is   *)
(* only ever the youngest turn, and the flags of a turn object follow the  *)
(* two streams: recorded only by an LLM stream that ended, finished only   *)
(* after that and with the agent_done queued behind everything else.       *)
TurnBookkeeping ==
  /\ turn \in {NoTurn, turnCounter}
  /\ \A i \in Ids : InStep(i)
  /\ \A k \in DOMAIN history : RecordedInTime(k)

-----------------------------------------------------------------------------
(***************************************************************************)
(* Properties the comments state and the code does not have.               *)
(***************************************************************************)

(* "Speculative turns roll back silently: no client messages, no history." *)
(* A speculation whose LLM stream ended before the rollback is in it.      *)
RollbackLeavesNoHistory ==
  \A k \in DOMAIN history :
    LET i == history[k].turn IN i = turn \/ turns[i].committed

(* "the speculative work is discarded and the browser never hears about    *)
(* it": a service that fails during the speculation reports to the browser.*)
SpeculationIsUnheard == \A i \in Ids : ~turns[i].committed => notice[i] = "none"

(* "Duck playback immediately, cut fully once the transcript proves real   *)
(* speech, swell back if it turns out to be our own echo": a transcript    *)
(* between the two echo thresholds does neither when the user turn ends.   *)
EndOfTurnSettlesDuck == flux = "idle" => ~ducked
=============================================================================
