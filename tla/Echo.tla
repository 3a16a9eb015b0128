-------------------------------- MODULE Echo --------------------------------
(***************************************************************************)
(* The loudspeaker heard by the microphone: one committed reply, written   *)
(* by the LLM, synthesized, sent and played (Playback), and the user turns *)
(* Flux makes of what it hears: words of the reply, words of the user, or  *)
(* both. The engine decides by the horizon and the recent text             *)
(* (EchoFilter) whether such a turn cuts the reply and is answered.        *)
(*                                                                         *)
(* The echo filter is on. User turns have a transcript; the others, eager  *)
(* turns and what happens after an answer are in Session.                  *)
(***************************************************************************)
EXTENDS Playback, EchoFilter

CONSTANTS
  Reply,      \* the words of the reply
  WordLen,    \* samples a word takes to say
  UserWord,   \* what the user says, a word that is not in the reply
  MaxSaid,    \* bound: words the user says in a turn
  MinWords,   \* the knob of that name
  Window,     \* words #recentAgentText keeps: the code's 600 characters
  Reaction    \* quanta until what is heard makes Flux report a turn

ASSUME EchoAssumption ==
  /\ Reply \in Seq(STRING) \ {<<>>} /\ UserWord \in STRING
  /\ \A i \in DOMAIN Reply : Reply[i] # UserWord
  /\ {WordLen, MaxSaid, MinWords, Window} \subseteq Nat \ {0} /\ Reaction \in Nat

\* "300 ms of grace covers transit, playout buffering, and echo tail" (server.js:386)
ASSUME EchoGraceAssumption == (Latency + 1 + Reaction) * Quantum <= Grace

VARIABLES
  smart,      \* cfg.bargeMode = "smart"
  turnOn,     \* this.turn is the reply's
  written,    \* words in turn.spoken
  recorded,   \* words of the reply in the history, as last assistant entry
  lastHeard,  \* the word that was played last
  idle,       \* quanta since then, as far as they matter to Flux
  flux,       \* the user turn: "idle", "talking", "answered"
  userTurnAudible,
  bargeHeld,
  first,      \* the user turn's transcript: words first..last of the reply (first = 0:
  last,       \* none of it), then said words of the user
  said,
  spoilt      \* the reply had been cut before this user turn began

writing  == <<turnOn, written, recorded>>
hearing  == <<lastHeard, idle>>
userTurn == <<flux, userTurnAudible, bargeHeld, first, last, said, spoilt>>
vars == <<playbackVars, smart, writing, hearing, userTurn>>

Total == Len(Reply)

TypeOK ==
  /\ PlaybackTypeOK
  /\ smart \in BOOLEAN /\ turnOn \in BOOLEAN
  /\ written \in 0..Total /\ recorded \in 0..Total
  /\ lastHeard \in 0..Total /\ idle \in 0..Reaction + 1
  /\ flux \in {"idle", "talking", "answered"}
  /\ userTurnAudible \in BOOLEAN /\ bargeHeld \in BOOLEAN
  /\ first \in 0..Total /\ last \in 0..Total /\ first <= last
  /\ said \in 0..MaxSaid /\ spoilt \in BOOLEAN

(* Slips of the code that the properties notice; no action uses them. *)
NotYetSpoken == SubSeq(Reply, 1, recorded)   \* the turn in flight is left out
RecordedAgain == recorded + (IF turnOn THEN written ELSE 0)   \* inHistory is not checked

-----------------------------------------------------------------------------
(* The engine's verdicts. *)

\* #recentAgentText: the last assistant entry, then the turn in flight.
AgentText == SubSeq(Reply, 1, recorded) \o (IF turnOn THEN SubSeq(Reply, 1, written) ELSE <<>>)
RecentAgentText == SubSeq(AgentText, Larger(1, Len(AgentText) - Window + 1), Len(AgentText))

Transcript(e) ==
  (IF first = 0 THEN <<>> ELSE SubSeq(Reply, first, e)) \o [i \in 1..said |-> UserWord]

\* #isSuppressedEcho
SuppressedEcho(t) == userTurnAudible /\ IsEchoOf(t, RecentAgentText, SuppressAt)

\* The condition of #maybeConfirmBarge.
BargeProved(t, enough) == bargeHeld /\ enough /\ ~IsEchoOf(t, RecentAgentText, HoldAt)

\* #cancelTurn records what was said of the reply, unless it is recorded already.
RecordedAfterCut == IF turnOn /\ recorded = 0 THEN written ELSE recorded

\* #cancelTurn of the committed reply, and the sendClear that goes with a cut.
Cut ==
  /\ Clears
  /\ turnOn' = FALSE
  /\ recorded' = RecordedAfterCut
  /\ UNCHANGED written

Init ==
  /\ PlaybackInit
  /\ smart \in BOOLEAN
  /\ turnOn = TRUE /\ written = 0 /\ recorded = 0
  /\ lastHeard = 0 /\ idle = Reaction + 1
  /\ flux = "idle" /\ userTurnAudible = FALSE /\ bargeHeld = FALSE
  /\ first = 0 /\ last = 0 /\ said = 0 /\ spoilt = FALSE

(* The reply. *)

\* A delta of the LLM: its text is ahead of the audio.
Writes ==
  /\ turnOn /\ written < Total
  /\ written' = written + 1
  /\ UNCHANGED <<playbackVars, smart, turnOn, recorded, hearing, userTurn>>

\* The end of the LLM's response.
Records ==
  /\ turnOn /\ written = Total /\ recorded = 0
  /\ recorded' = Total
  /\ UNCHANGED <<playbackVars, smart, turnOn, written, hearing, userTurn>>

\* Fish has synthesized some of the text.
Speaks(n) ==
  /\ turnOn /\ sent + n <= written * WordLen
  /\ Sends(n)
  /\ UNCHANGED <<smart, writing, hearing, userTurn>>

\* Fish has finished: the turn is over, its audio may still be playing.
Finishes ==
  /\ turnOn /\ recorded = Total
  /\ turnOn' = FALSE
  /\ UNCHANGED <<playbackVars, smart, written, recorded, hearing, userTurn>>

\* The audio of the answer follows the cut. Bound: one word of it.
Answers(n) ==
  /\ flux = "answered" /\ cut > 1 /\ sent + n < cut + WordLen
  /\ Sends(n)
  /\ UNCHANGED <<smart, writing, hearing, userTurn>>

Delivers ==
  /\ Receives
  /\ UNCHANGED <<smart, writing, hearing, userTurn>>

\* The microphone hears what is played; it matters until the user is answered.
Plays ==
  /\ Process
  /\ IF flux = "answered" THEN UNCHANGED hearing
     ELSE IF out' = <<>>
       THEN /\ idle' = IF idle > Reaction THEN idle ELSE idle + 1
            /\ UNCHANGED lastHeard
       ELSE /\ idle' = 0
            /\ lastHeard' = (Last(out') - 1) \div WordLen + 1
  /\ UNCHANGED <<smart, writing, userTurn>>

(* Flux (external) and #onTurnInfo. *)

\* StartOfTurn, on a word of the reply or on one of the user.
StartOfTurn ==
  /\ flux = "idle" /\ flux' = "talking"
  /\ \/ /\ lastHeard > 0 /\ idle <= Reaction
        /\ first' = lastHeard /\ last' = lastHeard /\ said' = 0
     \/ first' = 0 /\ last' = 0 /\ said' = 1
  /\ spoilt' = (cut > 1)
  /\ userTurnAudible' = AgentAudible
  /\ bargeHeld' = (AgentAudible /\ smart)
  /\ IF bargeHeld' THEN UNCHANGED <<playbackVars, writing>> ELSE Cut
  /\ UNCHANGED <<smart, hearing>>

\* Flux hears another word of the user.
UserSpeaks ==
  /\ flux = "talking" /\ said < MaxSaid
  /\ said' = said + 1
  /\ UNCHANGED <<playbackVars, smart, writing, hearing,
                 flux, userTurnAudible, bargeHeld, first, last, spoilt>>

\* The words of the reply in the transcript: no fewer than before.
HeardUpTo(e) == IF first = 0 THEN e = 0 ELSE e \in last..lastHeard

\* Update, while a barge-in is held; otherwise it changes nothing.
Update(e) ==
  /\ flux = "talking" /\ bargeHeld /\ HeardUpTo(e)
  /\ last' = e
  /\ IF BargeProved(Transcript(e), Len(Transcript(e)) >= MinWords)
       THEN bargeHeld' = FALSE /\ Cut
       ELSE UNCHANGED <<bargeHeld, playbackVars, writing>>
  /\ UNCHANGED <<smart, hearing, flux, userTurnAudible, first, said, spoilt>>

\* EndOfTurn of the agent's own voice: never answered.
EndOfTurnEcho(e) ==
  /\ flux = "talking" /\ flux' = "idle" /\ HeardUpTo(e)
  /\ SuppressedEcho(Transcript(e))
  /\ last' = e
  /\ bargeHeld' = FALSE
  /\ UNCHANGED <<playbackVars, smart, writing, hearing, userTurnAudible, first, said, spoilt>>

\* EndOfTurn otherwise: a reply in flight gives way to the answer, and so does one
\* that is only being played, unless the transcript resembles it enough for the hold.
EndOfTurnAnswered(e) ==
  LET proved == BargeProved(Transcript(e), TRUE) IN
  /\ flux = "talking" /\ flux' = "answered" /\ HeardUpTo(e)
  /\ ~SuppressedEcho(Transcript(e))
  /\ last' = e
  /\ bargeHeld' = (bargeHeld /\ ~proved)
  /\ IF proved \/ turnOn THEN Cut ELSE UNCHANGED <<playbackVars, writing>>
  /\ UNCHANGED <<smart, hearing, userTurnAudible, first, said, spoilt>>

Next ==
  \/ Writes \/ Records \/ Finishes \/ Delivers \/ Plays \/ StartOfTurn \/ UserSpeaks
  \/ \E n \in Chunks : Speaks(n) \/ Answers(n)
  \/ \E e \in 0..Total : Update(e) \/ EndOfTurnEcho(e) \/ EndOfTurnAnswered(e)

Spec == Init /\ [][Next]_vars

-----------------------------------------------------------------------------
(* Properties. *)

\* After a step, Flux's turn is nothing but the reply's own words, and the reply had
\* not been cut when it began.
PureEcho == flux' # "idle" /\ first' > 0 /\ said' = 0 /\ ~spoilt'

\* The turn's words are all in the text the engine remembers.
InWindow == (IF turnOn THEN written ELSE recorded) - first' < Window

LeftAlone == flux' # "answered" /\ (smart => cut' = cut)

\* An echo of what is remembered is never answered, and in smart mode does not cut the
\* reply, at whatever moment it is heard and however the audio was delayed (server.js,
\* "The "user" was the agent's own voice. Never answer it.").
RememberedEchoLeavesReplyAlone == [][flux' # flux \/ last' # last => (PureEcho /\ InWindow => LeftAlone)]_vars

\* The same of every echo of the reply: what README.md:91-92 promises, "drops "user"
\* turns whose transcript matches what the agent was just saying".
EchoLeavesReplyAlone == [][flux' # flux \/ last' # last => (PureEcho => LeftAlone)]_vars

\* A user who adds as many words to an echo as were heard of the reply is not taken
\* for an echo (isEchoOf at the threshold of #isSuppressedEcho). The user's words are
\* taken not to occur in the reply; a user who repeats the reply's own words sounds
\* like its echo.
UserIsHeard ==
  [][flux = "talking" /\ flux' = "idle" => said < (IF first = 0 THEN 0 ELSE last' - first + 1)]_vars
=============================================================================
