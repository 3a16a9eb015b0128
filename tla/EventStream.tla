---------------------------- MODULE EventStream ----------------------------
(***************************************************************************)
(* The reading half of streamLLM in server.js: the body of the LLM's       *)
(* response arrives in chunks that are cut anywhere, and each complete     *)
(* "data:" line holds one delta.                                           *)
(*                                                                         *)
(* A body is a sequence of cells. Line i of the response is the two cells  *)
(* <<i, 1>> and <<i, 2>> and a newline, so that it can be cut in two and a *)
(* half line is not a line.                                                *)
(***************************************************************************)
EXTENDS Integers, SequencesExt

Newline == <<0, 0>>
Cells(i) == <<<<i, 1>>, <<i, 2>>>>

\* The body of a response of n lines, whose last newline may be missing.
BodyOf(n, terminated) ==
  [k \in 1..3 * n - (IF terminated THEN 0 ELSE 1) |->
     IF k % 3 = 0 THEN Newline ELSE <<k \div 3 + 1, k % 3>>]

\* pending.split("\n"), cell by cell: a newline completes the line read so far, any
\* other cell belongs to it.
NextCell(st, cell) ==
  IF cell = Newline THEN [lines |-> Append(st.lines, st.partial), partial |-> << >>]
                    ELSE [lines |-> st.lines, partial |-> Append(st.partial, cell)]

Split(cells) ==
  LET after[k \in 0..Len(cells)] ==
        IF k = 0 THEN [lines |-> << >>, partial |-> << >>]
                 ELSE NextCell(after[k - 1], cells[k])
  IN  after[Len(cells)]

\* A slip of the code that a property notices; nothing uses it.
PartialDropped(cells) == << >>

\* The complete lines, and the partial one behind them.
Lines(cells)       == Split(cells).lines
PartialLine(cells) == Split(cells).partial

\* The delta of a line, when content[i] is what line i carries: a text, or nothing,
\* as a comment, an empty line, [DONE], JSON that does not parse and a choice
\* without content do.
Delta(line, content) ==
  LET carriers == {i \in DOMAIN content : line = Cells(i) /\ content[i] # << >>}
  IN  IF carriers = {} THEN << >> ELSE <<content[CHOOSE i \in carriers : TRUE]>>

Deltas(lines, content) == FlattenSeq([k \in 1..Len(lines) |-> Delta(lines[k], content)])

=============================================================================
