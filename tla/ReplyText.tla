----------------------------- MODULE ReplyText -----------------------------
(***************************************************************************)
(* The text of one reply on its way from the LLM to Fish: #runAgentTurn of *)
(* server.js with streamLLM, SentenceChunker and openFishTurn.             *)
(*                                                                         *)
(* The deltas of one chunk of the response are handled in one go: there is *)
(* no await between them. What interleaves is the chunks, the Fish socket  *)
(* and the end of the turn. A "text" below is a sequence of characters.    *)
(***************************************************************************)
EXTENDS FishTurn, Chunker, EventStream

CONSTANTS
  Tokens,    \* the deltas an LLM can send
  MaxLines   \* bound: lines of one response

ASSUME ReplyTextAssumption == Tokens \subseteq Clauses /\ MaxLines \in Nat

VARIABLES
  content,   \* what each line of the response carries, empty when nothing
  body,      \* the part of the response that has not arrived
  arrived,   \* history variable: the part that has
  llm,       \* streamLLM: "reading", "done", "failed", "aborted"
  pending,   \* its trailing partial line
  full,      \* the deltas it has read, joined
  live,      \* live(): this is still the session's turn
  buf,       \* the chunker's text
  clauses    \* what pushToFish was given (joined: turn.spoken)

llmVars == <<content, body, arrived, llm, pending, full>>
vars == <<fishVars, llmVars, live, buf, clauses>>

Joined(texts) == FlattenSeq(texts)

\* Each delta in turn through chunker.push and pushToFish.
NextDelta(st, delta) ==
  LET p == Pushed(st.buf \o delta)
  IN  [buf |-> p.buf, out |-> st.out \o p.out]

Chunked(deltas) ==
  LET after[k \in 0..Len(deltas)] ==
        IF k = 0 THEN [buf |-> buf, out |-> << >>]
                 ELSE NextDelta(after[k - 1], deltas[k])
  IN  after[Len(deltas)]

Init ==
  /\ FishInit
  /\ \E n \in 1..MaxLines, terminated \in BOOLEAN :
       /\ content \in [1..n -> Tokens \cup {<< >>}]
       /\ body = BodyOf(n, terminated)
  /\ arrived = << >>
  /\ llm = "reading"
  /\ pending = << >>
  /\ full = << >>
  /\ live = TRUE
  /\ buf = << >>
  /\ clauses = << >>

\* One reader.read() of n cells and the deltas it completes.
ReadChunk(n) ==
  LET cells  == pending \o SubSeq(body, 1, n)
      deltas == Deltas(Lines(cells), content)
      chunk  == Chunked(deltas)
  IN
  /\ llm = "reading"
  /\ body' = SubSeq(body, n + 1, Len(body))
  /\ arrived' = arrived \o SubSeq(body, 1, n)
  /\ pending' = PartialLine(cells)
  /\ full' = full \o Joined(deltas)
  /\ IF live
       THEN /\ buf' = chunk.buf
            /\ clauses' = clauses \o chunk.out
            /\ PushTexts(chunk.out)
       ELSE UNCHANGED <<fishVars, buf, clauses>>
  /\ UNCHANGED <<content, llm, live>>

\* The response ends: the rest of the text, and the end of the input.
StreamEnds ==
  /\ llm = "reading" /\ body = << >>
  /\ llm' = "done"
  /\ IF live
       THEN /\ clauses' = clauses \o Flushed(buf)
            /\ buf' = << >>
            /\ EndInput(Flushed(buf))
       ELSE UNCHANGED <<fishVars, buf, clauses>>
  /\ UNCHANGED <<content, body, arrived, pending, full, live>>

\* The request or the response fails.
StreamFails ==
  /\ llm = "reading"
  /\ llm' = "failed"
  /\ live' = FALSE
  /\ IF live THEN Hangup ELSE UNCHANGED fishVars
  /\ UNCHANGED <<content, body, arrived, pending, full, buf, clauses>>

\* #cancelTurn: the read in progress rejects and nothing more is read.
Cancelled ==
  /\ live
  /\ live' = FALSE
  /\ llm' = IF llm = "reading" THEN "aborted" ELSE llm
  /\ Hangup
  /\ UNCHANGED <<content, body, arrived, pending, full, buf, clauses>>

\* The callbacks of Fish. A finished turn is given up once it is committed; a
\* failed one at once, without aborting the LLM. An error event of a request that
\* is closed calls nothing back.
FishEnds ==
  /\ \/ FishFinishes("finished") /\ live' \in {live, FALSE}
     \/ FishFinishes("failed") /\ live' = FALSE
     \/ FishFails /\ live' = (live /\ closed)
  /\ UNCHANGED <<llmVars, buf, clauses>>

FishConnects == FishOpens /\ UNCHANGED <<llmVars, live, buf, clauses>>
FishLeaves   == FishGone  /\ UNCHANGED <<llmVars, live, buf, clauses>>

Read == \E n \in 1..Len(body) : ReadChunk(n)

Next ==
  \/ Read \/ StreamEnds \/ StreamFails \/ Cancelled
  \/ FishConnects \/ FishEnds \/ FishLeaves

Spec == Init /\ [][Next]_vars

\* The environment's part, as what becomes of the response and of the socket:
\* the response goes on arriving until it ends, fails or is aborted, and a
\* connecting socket opens or fails.
Arrives ==
  /\ llm = "reading"
  /\ \/ llm' \in {"done", "failed", "aborted"} /\ UNCHANGED body
     \/ /\ \E n \in 1..Len(body) : body' = SubSeq(body, n + 1, Len(body))
        /\ UNCHANGED llm

Connects == sock = "connecting" /\ sock' \in {"open", "gone"}

FairSpec == Spec /\ WF_<<llm, body>>(Arrives) /\ WF_sock(Connects)

-----------------------------------------------------------------------------
(* Properties. *)

TypeOK ==
  /\ FishTypeOK
  /\ llm \in {"reading", "done", "failed", "aborted"}
  /\ live \in BOOLEAN
  /\ pending \in Seq({Newline} \cup {<<i, h>> : i \in 1..MaxLines, h \in 1..2})
  /\ \A k \in DOMAIN clauses : clauses[k] \in Clauses
  /\ body # << >> => llm # "done"

\* However the response is cut into chunks, what was read of it is what the lines
\* carry whose newlines have arrived, each once and in order.
StreamReadWhole ==
  full = Joined(SubSeq(content, 1, Cardinality({k \in DOMAIN arrived : arrived[k] = Newline})))

\* However the text is cut into deltas, the clauses pushed so far are those of the
\* text as a whole: they make up its beginning and end at its cuts, so that none is
\* split and runs of punctuation stay together. At the end the rest follows as one
\* more.
ClausesAreWhole ==
  live =>
    /\ IsPrefix(Joined(clauses), full)
    /\ << >> \notin ToSet(clauses)
    /\ EndsOf(clauses) = CutsOf(full) \cup (IF llm = "done" THEN {Len(full)} \ {0} ELSE {})

\* When Fish is told to stop it has been sent every word of the reply that was
\* read, although the first clauses may have waited for its socket.
SpeechIsComplete ==
  (wire # << >> /\ Last(wire) = Stop) =>
    Joined([k \in 1..Len(wire) |-> IF wire[k][1] = "text" THEN wire[k][2] ELSE << >>]) = full

\* While a turn lives its request ends: Fish is told to stop, or the request is
\* closed or its socket is gone.
RequestEnds == live ~> (~live \/ closed \/ sock = "gone" \/ Stop \in ToSet(wire))
=============================================================================
