---------------------------- MODULE ReplyStream ----------------------------
(***************************************************************************)
(* What a session promises to its listener, with no word about speculation,*)
(* barge-in or the services behind it: replies are opened one at a time in *)
(* the order of the turns, only the open reply grows, and a reply that was *)
(* closed is never heard of again. A reply may be opened with everything   *)
(* it will ever say.                                                       *)
(***************************************************************************)
EXTENDS Naturals, Sequences

CONSTANTS
  Replies,   \* the replies a session may give, a set of naturals
  Parts      \* what a reply is made of; "done" is its last part

VARIABLES
  opened,    \* the replies that have been opened
  current,   \* the open reply, 0 when there is none
  heard      \* per reply, what the listener was sent

vars == <<opened, current, heard>>

Init ==
  /\ opened = {}
  /\ current = 0
  /\ heard = [r \in Replies |-> << >>]

\* A later reply takes the floor, with the parts prepared so far; it may be
\* complete already.
Open(r) ==
  /\ \A other \in opened : other < r
  /\ opened' = opened \cup {r}
  /\ current' \in {r, 0}
  /\ heard'[r] \in Seq(Parts)
  /\ heard' = [heard EXCEPT ![r] = heard'[r]]

\* The open reply grows by one part, or by none when nobody listens any more.
Say(r) ==
  /\ current = r
  /\ \E part \in Parts : heard' = [heard EXCEPT ![r] = Append(@, part)]
  /\ current' \in {r, 0}
  /\ UNCHANGED opened

\* The open reply ends without another word.
Close ==
  /\ current' = 0
  /\ UNCHANGED <<opened, heard>>

Next == (\E r \in Replies : Open(r) \/ Say(r)) \/ Close

Spec == Init /\ [][Next]_vars
=============================================================================
