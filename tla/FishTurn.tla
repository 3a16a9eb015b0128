------------------------------ MODULE FishTurn ------------------------------
(***************************************************************************)
(* openFishTurn of server.js: the text side of one Fish synthesis socket.  *)
(* A turn opens the socket and writes at once; what it writes before the   *)
(* socket is open waits in a queue. The audio that comes back is in        *)
(* Session and Playback.                                                   *)
(***************************************************************************)
EXTENDS Naturals, Sequences

CONSTANT
  Char       \* the characters of a text

\* The texts a turn pushes: pushToFish drops an empty one.
Clauses == Seq(Char) \ {<< >>}

Start  == <<"start">>
Text(c) == <<"text", c>>
Flush  == <<"flush">>
Stop   == <<"stop">>
EndUnsaid == <<Flush>>   \* a slip no action uses: endInput without stop
Ending == <<Flush, Stop>>
Event  == ({"text"} \X Clauses) \cup {Flush, Stop}

VARIABLES
  sock,      \* the websocket: "connecting", "open", "closing", "gone", or
             \* "aborting", closed before it was open
  open,      \* the open handler has run
  closed,    \* the turn or Fish has ended the request
  queue,     \* events buffered until the socket opens
  wire,      \* events sent to Fish
  ended,     \* endInput was called
  verdicts,  \* calls of onFinish and onError: by a finish message ("finished",
             \* "failed") or an error event ("error")
  hungUp,    \* history variable: it was the turn that closed the request
  asked      \* history variable: events written while the request was not closed

fishVars == <<sock, open, closed, queue, wire, ended, verdicts, hungUp, asked>>

FishTypeOK ==
  /\ sock \in {"connecting", "aborting", "open", "closing", "gone"}
  /\ open \in BOOLEAN
  /\ closed \in BOOLEAN
  /\ ended \in BOOLEAN
  /\ queue \in Seq(Event)
  /\ wire \in Seq(Event \cup {Start})
  /\ verdicts \in Seq({"finished", "failed", "error"})
  /\ hungUp \in BOOLEAN
  /\ asked \in Seq(Event)

Request == INSTANCE SpeechRequest WITH
             Opening <- Start, Events <- Event, script <- asked, received <- wire

-----------------------------------------------------------------------------
(* Slips of the code that the properties notice; no action uses them. *)

QueueFirst(q) == q \o <<Start>>                           \* start sent after the queue
NotQueued(es) == IF ~closed THEN wire \o es ELSE wire     \* sent before the socket is open
AlwaysReported(v) == Append(verdicts, v)                  \* closed not looked at

-----------------------------------------------------------------------------
(* The operations on the request. *)

\* `send`, for the events es of one callback: where they wait, and what goes out.
QueueAfter(es) == IF closed \/ open THEN queue ELSE queue \o es
WireAfter(es) == IF ~closed /\ open /\ sock = "open" THEN wire \o es ELSE wire

Write(es) ==
  /\ queue' = QueueAfter(es)
  /\ wire' = WireAfter(es)
  /\ asked' = IF closed THEN asked ELSE asked \o es
  /\ UNCHANGED <<sock, open, closed, verdicts, hungUp>>

\* What goes out when the socket opens.
Opening(q) == <<Start>> \o q

\* onError is called unless the request was closed before.
FailureReported(v) == IF closed THEN verdicts ELSE Append(verdicts, v)

\* close(): a socket that is still connecting never opens, and has yet to emit the
\* error event of its aborted handshake.
CloseFish ==
  /\ closed' = TRUE
  /\ sock' = CASE sock = "connecting" -> "aborting"
               [] sock = "open"       -> "closing"
               [] OTHER               -> sock

-----------------------------------------------------------------------------
(* What happens to a request. *)

FishInit ==
  /\ sock = "connecting"
  /\ open = FALSE
  /\ closed = FALSE
  /\ queue = << >>
  /\ wire = << >>
  /\ ended = FALSE
  /\ verdicts = << >>
  /\ hungUp = FALSE
  /\ asked = << >>

\* pushText of each of the clauses cs.
PushTexts(cs) ==
  /\ ~ended
  /\ Write([i \in DOMAIN cs |-> Text(cs[i])])
  /\ UNCHANGED ended

\* pushText of the clauses cs that are left, and endInput.
EndInput(cs) ==
  /\ ~ended
  /\ ended' = TRUE
  /\ Write([i \in DOMAIN cs |-> Text(cs[i])] \o Ending)

\* The turn is cancelled or its LLM stream failed.
Hangup ==
  /\ CloseFish
  /\ hungUp' = (hungUp \/ ~closed)
  /\ UNCHANGED <<open, queue, wire, ended, verdicts, asked>>

FishOpens ==
  /\ sock = "connecting"
  /\ sock' = "open"
  /\ open' = TRUE
  /\ wire' = Opening(queue)
  /\ queue' = << >>
  /\ UNCHANGED <<closed, ended, verdicts, hungUp, asked>>

\* The finish message, which can still arrive while the socket is closing. Fish
\* sends one; on a socket that is still there a verdict means it has.
FishFinishes(verdict) ==
  /\ sock \in {"open", "closing"}
  /\ verdicts = << >>
  /\ closed' = TRUE
  /\ sock' = "closing"
  /\ verdicts' = Append(verdicts, verdict)
  /\ UNCHANGED <<open, queue, wire, ended, hungUp, asked>>

\* The error event, which also comes of a handshake that close() aborted.
FishFails ==
  /\ sock # "gone"
  /\ sock' = "gone"
  /\ verdicts' = FailureReported("error")
  /\ closed' = TRUE
  /\ UNCHANGED <<open, queue, wire, ended, hungUp, asked>>

\* The close event, for which there is no handler.
FishGone ==
  /\ sock \in {"open", "closing"}
  /\ sock' = "gone"
  /\ UNCHANGED <<open, closed, queue, wire, ended, verdicts, hungUp, asked>>

FishNext ==
  \/ \E cs \in Seq(Clauses) : PushTexts(cs) \/ EndInput(cs)
  \/ Hangup \/ FishOpens \/ FishFails \/ FishGone
  \/ \E v \in {"finished", "failed"} : FishFinishes(v)

FishSpec == FishInit /\ [][FishNext]_fishVars

-----------------------------------------------------------------------------
(* Properties. *)

\* Until the socket opens everything written waits in the queue and nothing is
\* sent. From then on nothing waits, and what was sent is the start event
\* followed by what was written, in order: all of it while the socket is up, and
\* a beginning of it when Fish has gone away unnoticed (queue of openFishTurn).
RequestInOrder ==
  IF ~open
    THEN wire = << >> /\ queue = asked
    ELSE /\ queue = << >>
         /\ Request!Begins(wire, <<Start>> \o asked)
         /\ sock = "open" => wire = <<Start>> \o asked

\* The turn is told of the end of its request at most once, and a turn that has hung
\* up is not told that its socket failed: neither the error event of a handshake it
\* aborted nor one after the finish message is reported (closed, server.js:301-304).
OneVerdict ==
  /\ Len(verdicts) <= 1
  /\ hungUp => verdicts # <<"error">>

\* Seen from Fish, the request is a script that only grows, received in order
\* from its beginning (SpeechRequest).
KeepsScript == Request!Spec
=============================================================================
