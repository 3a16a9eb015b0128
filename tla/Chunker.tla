------------------------------ MODULE Chunker ------------------------------
(***************************************************************************)
(* class SentenceChunker of server.js. A text is a sequence of characters, *)
(* of which only being punctuation matters. The chunker is its #buf.       *)
(***************************************************************************)
EXTENDS Integers, SequencesExt

CONSTANT Punct   \* SENTENCE_PUNCT

\* One past the last character of the run of punctuation that begins at i.
RunEnd(buf, i) ==
  CHOOSE e \in i..Len(buf) + 1 :
    /\ \A k \in i..e - 1 : buf[k] \in Punct
    /\ e <= Len(buf) => buf[e] \notin Punct

\* Slips of the code that the properties notice; nothing uses them: a clause ends
\* without waiting for the next token; flush is forgotten; an empty rest is pushed.
EndAtOnce(buf) ==
  LET marks == {i \in 1..Len(buf) : buf[i] \in Punct}
  IN  IF marks = {} THEN 0 ELSE RunEnd(buf, Min(marks)) - 1
FlushForgotten(buf) == << >>
EmptyPushed(buf) == <<buf>>

\* Where the first clause of the buffer ends: the last character of the first run of
\* punctuation. A run at the very end of the buffer may go on in the next token, so
\* there is no clause yet (0).
ClauseEnd(buf) ==
  LET marks == {i \in 1..Len(buf) : buf[i] \in Punct}
      end   == RunEnd(buf, Min(marks))
  IN  IF marks = {} \/ end > Len(buf) THEN 0 ELSE end - 1

\* One round of push: the first clause, if there is one, leaves the buffer.
Round(st) ==
  LET end == ClauseEnd(st.buf)
  IN  IF end = 0 THEN st
      ELSE [out |-> Append(st.out, SubSeq(st.buf, 1, end)),
            buf |-> SubSeq(st.buf, end + 1, Len(st.buf))]

\* push: the clauses completed in the buffer, and what stays in it. Each round but
\* the last makes the buffer shorter, so that Len(buf) rounds are enough.
Pushed(buf) ==
  LET after[k \in 0..Len(buf)] ==
        IF k = 0 THEN [out |-> << >>, buf |-> buf] ELSE Round(after[k - 1])
  IN  after[Len(buf)]

\* flush: the clauses its result is pushed as.
Flushed(buf) == IF buf = << >> THEN << >> ELSE <<buf>>

-----------------------------------------------------------------------------
(* What the chunker is for, said without it: a text is cut behind every run *)
(* of punctuation that something else follows.                              *)

CutsOf(text) ==
  {i \in 1..Len(text) - 1 : text[i] \in Punct /\ text[i + 1] \notin Punct}

\* Where the clauses end in the text that they make up.
EndsOf(clauses) == {Len(FlattenSeq(SubSeq(clauses, 1, k))) : k \in 1..Len(clauses)}
=============================================================================
