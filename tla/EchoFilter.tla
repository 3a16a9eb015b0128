----------------------------- MODULE EchoFilter -----------------------------
(***************************************************************************)
(* isEchoOf of server.js, on normalized texts: sequences of words. The     *)
(* substring test of the code works on characters, so it also accepts a    *)
(* first or last word that is only part of a spoken one; words are atoms   *)
(* here.                                                                   *)
(***************************************************************************)
EXTENDS Naturals, SequencesExt, FiniteSetsExt

\* Percent of the transcript's word pairs: to go on holding a barge-in ...
HoldAt == 35

(* A slip of the code that the properties notice; no action uses it. *)
SuppressLow == HoldAt      \* the two thresholds are mixed up

\* ... and to suppress a finished turn.
SuppressAt == 60

Pairs(text) == {<<text[i], text[i + 1]>> : i \in 1..Len(text) - 1}

\* a.includes(t)
Within(t, a) == \E i \in 0..Len(a) - Len(t) : SubSeq(a, i + 1, i + Len(t)) = t

Hits(t, a) == Cardinality({i \in 1..Len(t) - 1 : <<t[i], t[i + 1]>> \in Pairs(a)})

IsEchoOf(t, a, threshold) ==
  /\ t # <<>> /\ a # <<>>
  /\ \/ Within(t, a)
     \/ Len(t) >= 2 /\ 100 * Hits(t, a) >= threshold * (Len(t) - 1)
=============================================================================
