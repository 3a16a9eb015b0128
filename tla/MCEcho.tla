------------------------------- MODULE MCEcho -------------------------------
(* A reply of a few words in small audio buffers. *)
EXTENDS Echo

MCReply == <<"fish", "like", "fish", "food">>
MCChunks == {1, 3}
=============================================================================
