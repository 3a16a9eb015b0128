---------------------------- MODULE MCReplyText ----------------------------
(* One short reply, small enough for TLC. *)
EXTENDS ReplyText

CONSTANTS Letter, Mark   \* a letter and a punctuation mark

MCPunct  == {Mark}
MCTokens == {<<Letter>>, <<Mark>>, <<Letter, Mark>>, <<Mark, Letter>>}
MCChar   == {Letter, Mark}
=============================================================================
