--------------------------- MODULE SpeechRequest ---------------------------
(***************************************************************************)
(* What a synthesis socket promises to the turn that writes to it, with no *)
(* word about connecting, queues or failures: the turn writes a script     *)
(* that only grows, and the service receives an opening event followed by  *)
(* the script, in order, nothing twice and nothing that was not written.   *)
(* It may stop receiving at any point.                                     *)
(***************************************************************************)
EXTENDS Naturals, Sequences

CONSTANTS
  Opening,   \* the event every request begins with
  Events     \* what a script is made of

VARIABLES
  script,    \* the events the turn has written
  received   \* the events the service has been sent

vars == <<script, received>>

\* s is how t begins.
Begins(s, t) ==
  /\ Len(s) <= Len(t)
  /\ \A i \in 1..Len(s) : s[i] = t[i]

Init ==
  /\ script = << >>
  /\ received = << >>

\* The script grows, and so does what was received of it.
Next ==
  /\ script' \in Seq(Events)
  /\ Begins(script, script')
  /\ received' \in Seq(Events \cup {Opening})
  /\ Begins(received, received')
  /\ Begins(received', <<Opening>> \o script')

Spec == Init /\ [][Next]_vars
=============================================================================
