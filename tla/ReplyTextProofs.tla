-------------------------- MODULE ReplyTextProofs ---------------------------
(***************************************************************************)
(* Proofs about the text path, for every response, every way it is cut     *)
(* into chunks and deltas, and every set of characters and of punctuation: *)
(* what is read is what the lines carry, the clauses are those of the text *)
(* as a whole, and when Fish is told to stop it has been sent every word.  *)
(*                                                                         *)
(* The loops of the code are recursive functions over the naturals. That   *)
(* they have the values their equations say, and what these values are, is *)
(* shown by induction, stated for a set.                                   *)
(***************************************************************************)
EXTENDS ReplyText, FishProofs, SequenceTheorems, FiniteSetTheorems, WellFoundedInduction

\* Induction over the naturals, for a set: a set of naturals that is not empty has a
\* least element.
LEMMA LeastNatural ==
  ASSUME NEW T \in SUBSET Nat, T # {}
  PROVE  \E x \in T : \A y \in T : x <= y
<1>1. PICK x \in T : \A y \in T : <<y, x>> \notin OpToRel(<, Nat)
  BY NatLessThanWellFounded, WFMin
<1>2. ASSUME NEW y \in T, y < x PROVE FALSE
  <2>1. <<y, x>> \in OpToRel(<, Nat)
    BY <1>2 DEF OpToRel
  <2> QED BY <1>1, <2>1
<1>3. \A y \in T : y \in Nat /\ x \in Nat /\ ~(y < x)
  BY <1>2
<1> QED BY <1>3

LEMMA InductionOverNat ==
  ASSUME NEW S, 0 \in S, \A n \in Nat : n \in S => n + 1 \in S
  PROVE  Nat \subseteq S
<1> DEFINE T == {n \in Nat : n \notin S}
<1> SUFFICES ASSUME T # {} PROVE FALSE
  OBVIOUS
<1>1. PICK x \in T : \A y \in T : x <= y
  <2> HIDE DEF T
  <2>1. T \in SUBSET Nat
    BY DEF T
  <2> QED BY <2>1, LeastNatural
<1>2. x # 0 /\ x - 1 \in T /\ x - 1 < x
  OBVIOUS
<1> QED BY <1>1, <1>2

\* f has the states of a loop that starts in e, after each of its first n rounds:
\* step[<<k, s>>] is the state that round k makes of s.
IsRun(f, e, step, n) ==
  f[0] = e /\ \A k \in 1..n : f[k] = step[<<k, f[k - 1]>>]

\* A loop has a run.
LEMMA LoopRuns ==
  ASSUME NEW S, NEW e \in S, NEW step \in [Nat \X S -> S], NEW n \in Nat
  PROVE  \E f \in [0..n -> S] : IsRun(f, e, step, n)
<1> DEFINE Runs(f, m) == IsRun(f, e, step, m)
           T == {m \in Nat : \E f \in [0..m -> S] : Runs(f, m)}
<1>1. 0 \in T
  <2> DEFINE f == [k \in 0..0 |-> e]
  <2>1. f \in [0..0 -> S] /\ Runs(f, 0)
    BY DEF IsRun
  <2> HIDE DEF f, Runs
  <2> QED BY <2>1
<1>2. ASSUME NEW m \in Nat, m \in T PROVE m + 1 \in T
  <2>1. PICK f \in [0..m -> S] : Runs(f, m)
    BY <1>2
  <2> DEFINE g == [k \in 0..m + 1 |-> IF k <= m THEN f[k] ELSE step[<<m + 1, f[m]>>]]
  <2>2. g \in [0..m + 1 -> S]
    OBVIOUS
  <2>3. Runs(g, m + 1)
    <3>1. g[0] = e
      BY <2>1 DEF IsRun
    <3>2. ASSUME NEW k \in 1..m + 1 PROVE g[k] = step[<<k, g[k - 1]>>]
      <4>1. CASE k <= m
        <5>1. k \in 1..m /\ g[k] = f[k] /\ g[k - 1] = f[k - 1]
          BY <4>1
        <5> QED BY <5>1, <2>1 DEF IsRun
      <4>2. CASE k = m + 1
        <5>1. g[k] = step[<<m + 1, f[m]>>] /\ g[k - 1] = f[m]
          BY <4>2
        <5> QED BY <5>1, <4>2
      <4> QED BY <4>1, <4>2
    <3> HIDE DEF g
    <3> QED BY <3>1, <3>2 DEF IsRun
  <2> HIDE DEF g, Runs
  <2> QED BY <2>2, <2>3
<1>3. n \in T
  <2> HIDE DEF T
  <2> QED BY <1>1, <1>2, InductionOverNat
<1> QED BY <1>3

\* Two runs of a loop from the same state are the same.
LEMMA SameRun ==
  ASSUME NEW n \in Nat, NEW f, NEW g, NEW e, NEW step,
         IsRun(f, e, step, n), IsRun(g, e, step, n)
  PROVE  \A k \in 0..n : f[k] = g[k]
<1> DEFINE T == {m \in Nat : m <= n => f[m] = g[m]}
<1>1. 0 \in T
  BY DEF IsRun
<1>2. ASSUME NEW m \in Nat, m \in T PROVE m + 1 \in T
  <2> SUFFICES ASSUME m + 1 <= n PROVE f[m + 1] = g[m + 1]
    OBVIOUS
  <2>1. m + 1 \in 1..n /\ (m + 1) - 1 = m /\ f[m] = g[m]
    BY <1>2
  <2> QED BY <2>1 DEF IsRun
<1>3. Nat \subseteq T
  <2> HIDE DEF T
  <2> QED BY <1>1, <1>2, InductionOverNat
<1> QED BY <1>3

\* Induction over the sequences, for a set.
LEMMA InductionOverSeq ==
  ASSUME NEW A, NEW S, << >> \in S,
         \A s \in Seq(A), x \in A : s \in S => Append(s, x) \in S
  PROVE  Seq(A) \subseteq S
<1> DEFINE T == {n \in Nat : \A s \in Seq(A) : Len(s) = n => s \in S}
<1>1. 0 \in T
  OBVIOUS
<1>2. ASSUME NEW n \in Nat, n \in T PROVE n + 1 \in T
  <2> SUFFICES ASSUME NEW s \in Seq(A), Len(s) = n + 1 PROVE s \in S
    OBVIOUS
  <2>1. s # << >>
    OBVIOUS
  <2>2. PICK r \in Seq(A), x \in A : s = Append(r, x)
    BY <2>1, SequenceEmptyOrAppend
  <2>3. Len(r) = n
    BY <2>2, AppendProperties
  <2>4. r \in S
    BY <1>2, <2>3
  <2> QED BY <2>2, <2>4
<1>3. Nat \subseteq T
  <2> HIDE DEF T
  <2> QED BY <1>1, <1>2, InductionOverNat
<1> QED BY <1>3

\* What is appended does not change what was there.
LEMMA AppendAt ==
  ASSUME NEW A, NEW s \in Seq(A), NEW x \in A
  PROVE  /\ Append(s, x) \in Seq(A) /\ Len(Append(s, x)) = Len(s) + 1
         /\ \A k \in 1..Len(s) : Append(s, x)[k] = s[k]
         /\ Append(s, x)[Len(s) + 1] = x
BY AppendProperties

LEMMA SameEnd ==
  ASSUME NEW n \in Nat, NEW f, NEW g, NEW e, NEW step,
         IsRun(f, e, step, n), IsRun(g, e, step, n)
  PROVE  f[n] = g[n]
BY SameRun

-----------------------------------------------------------------------------
(* Joining sequences (FlattenSeq of the community modules). *)

\* One round of the loop that joins the sequences ss of elements of A.
Joining(A, ss) ==
  [p \in Nat \X Seq(A) |-> IF p[1] \in 1..Len(ss) THEN p[2] \o ss[p[1]] ELSE p[2]]

LEMMA JoiningTypes ==
  ASSUME NEW A, NEW ss \in Seq(Seq(A))
  PROVE  Joining(A, ss) \in [Nat \X Seq(A) -> Seq(A)]
<1> SUFFICES ASSUME NEW k \in Nat, NEW s \in Seq(A)
             PROVE  (IF k \in 1..Len(ss) THEN s \o ss[k] ELSE s) \in Seq(A)
  BY DEF Joining
<1>1. k \in 1..Len(ss) => ss[k] \in Seq(A)
  OBVIOUS
<1> QED BY <1>1

\* What joining does from left to right.
LEMMA JoinRuns ==
  ASSUME NEW A, NEW ss \in Seq(Seq(A))
  PROVE  \E f \in [0..Len(ss) -> Seq(A)] :
           /\ f[0] = << >>
           /\ \A k \in 1..Len(ss) : f[k] = f[k - 1] \o ss[k]
           /\ FlattenSeq(ss) = f[Len(ss)]
<1> DEFINE n == Len(ss)
           Step(g, i) == IF i = 1 THEN ss[i] ELSE g[i - 1] \o ss[i]
           F == CHOOSE g : g = [i \in 1..n |-> Step(g, i)]
<1>1. n \in Nat /\ << >> \in Seq(A)
  OBVIOUS
<1>2. PICK f \in [0..n -> Seq(A)] : IsRun(f, << >>, Joining(A, ss), n)
  <2> HIDE DEF n
  <2> QED BY <1>1, JoiningTypes, LoopRuns
<1>3. \A k \in 1..n : f[k] = f[k - 1] \o ss[k]
  <2> SUFFICES ASSUME NEW k \in 1..n PROVE f[k] = f[k - 1] \o ss[k]
    OBVIOUS
  <2>1. k - 1 \in 0..n /\ k \in Nat
    OBVIOUS
  <2>2. f[k - 1] \in Seq(A)
    <3> HIDE DEF n
    <3> QED BY <2>1
  <2> QED BY <1>2, <2>1, <2>2 DEF Joining, IsRun
<1>4. CASE n = 0
  BY <1>2, <1>3, <1>4 DEF FlattenSeq, IsRun
<1>5. CASE n # 0
  <2> DEFINE h == [i \in 1..n |-> f[i]]
  <2>1. ASSUME NEW i \in 1..n PROVE h[i] = Step(h, i)
    <3>1. CASE i = 1
      <4>1. 1 \in 1..n /\ 1 - 1 = 0
        BY <3>1
      <4>2. ss[1] \in Seq(A)
        BY <4>1
      <4>3. f[1] = f[0] \o ss[1] /\ f[0] = << >>
        <5> HIDE DEF n
        <5> QED BY <1>2, <1>3, <4>1 DEF IsRun
      <4>4. << >> \o ss[1] = ss[1]
        BY <4>2
      <4> QED BY <3>1, <4>2, <4>4, <4>3
    <3>2. CASE i # 1
      <4>1. i - 1 \in 1..n
        BY <3>2
      <4> QED BY <1>3, <3>2, <4>1
    <3> QED BY <3>1, <3>2
  <2>2. h = [i \in 1..n |-> Step(h, i)]
    <3> HIDE DEF Step
    <3> QED BY <2>1
  <2>3. F = [i \in 1..n |-> Step(F, i)]
    <3> HIDE DEF h, Step
    <3> QED BY <2>2
  <2>4. FlattenSeq(ss) = F[n]
    BY <1>5 DEF FlattenSeq
  <2> DEFINE G == [i \in 0..n |-> IF i = 0 THEN << >> ELSE F[i]]
             T == {m \in Nat : m <= n => G[m] = f[m]}
  <2> HIDE DEF F
  <2>5. 0 \in T
    BY <1>2 DEF IsRun
  <2>6. ASSUME NEW m \in Nat, m \in T PROVE m + 1 \in T
    <3> SUFFICES ASSUME m + 1 <= n PROVE F[m + 1] = f[m + 1]
      OBVIOUS
    <3>1. m + 1 \in 1..n /\ (m + 1) - 1 = m /\ G[m] = f[m] /\ m \in 0..n
      BY <2>6
    <3>2. F[m + 1] = Step(F, m + 1)
      <4> HIDE DEF Step
      <4> QED BY <2>3, <3>1
    <3>3. f[m + 1] = f[m] \o ss[m + 1]
      BY <1>3, <3>1
    <3>4. CASE m = 0
      <4>1. ss[1] \in Seq(A) /\ f[0] = << >>
        BY <1>2, <3>1, <3>4 DEF IsRun
      <4>2. << >> \o ss[1] = ss[1]
        BY <4>1
      <4> QED BY <3>2, <3>3, <3>4, <4>1, <4>2
    <3>5. CASE m # 0
      <4>1. F[m] = f[m]
        BY <3>1, <3>5
      <4>2. F[m + 1] = F[m] \o ss[m + 1]
        <5>1. m + 1 # 1
          BY <3>5
        <5>2. F[m + 1] = F[(m + 1) - 1] \o ss[m + 1]
          BY <3>2, <5>1
        <5> QED BY <3>1, <5>2
      <4> QED BY <3>3, <4>1, <4>2
    <3> QED BY <3>4, <3>5
  <2>7. n \in T
    <3> HIDE DEF T
    <3> QED BY <1>1, <2>5, <2>6, InductionOverNat
  <2>8. F[n] = f[n]
    BY <1>1, <1>5, <2>7
  <2> QED BY <1>2, <1>3, <2>4, <2>8 DEF IsRun
<1> QED BY <1>4, <1>5

LEMMA JoinType ==
  ASSUME NEW A, NEW ss \in Seq(Seq(A))
  PROVE  FlattenSeq(ss) \in Seq(A)
<1>1. Len(ss) \in 0..Len(ss)
  OBVIOUS
<1>2. PICK f \in [0..Len(ss) -> Seq(A)] : FlattenSeq(ss) = f[Len(ss)]
  BY JoinRuns
<1> QED BY <1>1, <1>2

LEMMA JoinEmpty == FlattenSeq(<< >>) = << >>
BY DEF FlattenSeq

LEMMA JoinAppend ==
  ASSUME NEW A, NEW ss \in Seq(Seq(A)), NEW s \in Seq(A)
  PROVE  FlattenSeq(Append(ss, s)) = FlattenSeq(ss) \o s
<1> DEFINE n == Len(ss)
           tt == Append(ss, s)
<1>1. /\ tt \in Seq(Seq(A)) /\ Len(tt) = n + 1 /\ tt[n + 1] = s
      /\ \A k \in 1..n : tt[k] = ss[k]
  <2> DEFINE B == Seq(A)
  <2>1. ss \in Seq(B) /\ s \in B
    OBVIOUS
  <2> HIDE DEF B
  <2>2. /\ tt \in Seq(B) /\ Len(tt) = n + 1 /\ tt[n + 1] = s
        /\ \A k \in 1..n : tt[k] = ss[k]
    BY <2>1, AppendAt
  <2> QED BY <2>2 DEF B
<1>2. PICK f \in [0..n -> Seq(A)] :
        /\ f[0] = << >>
        /\ \A k \in 1..n : f[k] = f[k - 1] \o ss[k]
        /\ FlattenSeq(ss) = f[n]
  BY JoinRuns
<1> HIDE DEF tt
<1>3. PICK g \in [0..n + 1 -> Seq(A)] :
        /\ g[0] = << >>
        /\ \A k \in 1..n + 1 : g[k] = g[k - 1] \o tt[k]
        /\ FlattenSeq(tt) = g[n + 1]
  BY <1>1, JoinRuns
<1>4. IsRun(f, << >>, Joining(A, tt), n) /\ IsRun(g, << >>, Joining(A, tt), n)
  <2> SUFFICES ASSUME NEW k \in 1..n
               PROVE  /\ f[k] = Joining(A, tt)[<<k, f[k - 1]>>]
                      /\ g[k] = Joining(A, tt)[<<k, g[k - 1]>>]
    BY <1>2, <1>3 DEF IsRun
  <2>1. k - 1 \in 0..n /\ k - 1 \in 0..n + 1 /\ k \in Nat /\ k \in 1..n + 1 /\ k \in 1..Len(tt)
    BY <1>1
  <2>2. f[k - 1] \in Seq(A) /\ g[k - 1] \in Seq(A)
    <3> HIDE DEF n
    <3> QED BY <2>1
  <2>3. f[k] = f[k - 1] \o tt[k] /\ g[k] = g[k - 1] \o tt[k]
    BY <1>1, <1>2, <1>3, <2>1
  <2> QED BY <2>1, <2>2, <2>3 DEF Joining
<1>5. f[n] = g[n]
  <2>1. n \in Nat
    OBVIOUS
  <2> HIDE DEF n
  <2> QED BY <1>4, <2>1, SameEnd
<1>6. g[n + 1] = g[n] \o s
  <2>1. n + 1 \in 1..n + 1 /\ (n + 1) - 1 = n
    OBVIOUS
  <2> HIDE DEF n
  <2> QED BY <1>1, <1>3, <2>1
<1> QED BY <1>2, <1>3, <1>5, <1>6 DEF tt

LEMMA JoinOne ==
  ASSUME NEW A, NEW s \in Seq(A)
  PROVE  FlattenSeq(<<s>>) = s
<1>1. << >> \in Seq(Seq(A)) /\ Append(<< >>, s) = <<s>> /\ << >> \o s = s
  OBVIOUS
<1>2. FlattenSeq(Append(<< >>, s)) = FlattenSeq(<< >>) \o s
  BY <1>1, JoinAppend
<1> QED BY <1>1, <1>2, JoinEmpty

\* A sequence is appended to piece by piece.
LEMMA ConcatAppend ==
  ASSUME NEW A, NEW s \in Seq(A), NEW t \in Seq(A), NEW x \in A
  PROVE  s \o Append(t, x) = Append(s \o t, x)
OBVIOUS

LEMMA JoinConcat ==
  ASSUME NEW A, NEW ss \in Seq(Seq(A)), NEW tt \in Seq(Seq(A))
  PROVE  FlattenSeq(ss \o tt) = FlattenSeq(ss) \o FlattenSeq(tt)
<1> DEFINE B == Seq(A)
           S == {uu \in Seq(B) : FlattenSeq(ss \o uu) = FlattenSeq(ss) \o FlattenSeq(uu)}
<1>1. << >> \in S
  <2>1. << >> \in Seq(B) /\ ss \o << >> = ss
    OBVIOUS
  <2>2. FlattenSeq(ss) \in Seq(A)
    BY JoinType
  <2>3. FlattenSeq(ss) \o << >> = FlattenSeq(ss)
    BY <2>2
  <2> QED BY <2>1, <2>3, JoinEmpty
<1>2. ASSUME NEW uu \in Seq(B), NEW s \in B, uu \in S
      PROVE  Append(uu, s) \in S
  <2>1. Append(uu, s) \in Seq(B) /\ ss \o uu \in Seq(B)
    OBVIOUS
  <2>2. ss \o Append(uu, s) = Append(ss \o uu, s)
    <3> HIDE DEF B, S
    <3>1. ss \in Seq(B)
      BY DEF B
    <3> QED BY <3>1, ConcatAppend
  <2>3. FlattenSeq(Append(ss \o uu, s)) = FlattenSeq(ss \o uu) \o s
    BY <2>1, JoinAppend
  <2>4. FlattenSeq(Append(uu, s)) = FlattenSeq(uu) \o s
    BY JoinAppend
  <2>5. FlattenSeq(ss) \in Seq(A) /\ FlattenSeq(uu) \in Seq(A) /\ s \in Seq(A)
    BY JoinType
  <2>6. (FlattenSeq(ss) \o FlattenSeq(uu)) \o s = FlattenSeq(ss) \o (FlattenSeq(uu) \o s)
    BY <2>5, ConcatAssociative
  <2> QED BY <1>2, <2>1, <2>2, <2>3, <2>4, <2>6
<1>3. Seq(B) \subseteq S
  <2> HIDE DEF B, S
  <2> QED BY <1>1, <1>2, InductionOverSeq
<1> QED BY <1>3

-----------------------------------------------------------------------------
(* Splitting a response into lines.                                        *)

NoCells == [lines |-> << >>, partial |-> << >>]
Reader(A) == [lines : Seq(Seq(A)), partial : Seq(A)]

LEMMA ReaderTypes ==
  ASSUME NEW A
  PROVE  /\ NoCells \in Reader(A)
         /\ \A st \in Reader(A), c \in A : NextCell(st, c) \in Reader(A)
<1>1. << >> \in Seq(Seq(A)) /\ << >> \in Seq(A)
  OBVIOUS
<1>2. NoCells \in Reader(A)
  BY <1>1 DEF NoCells, Reader
<1>3. ASSUME NEW st \in Reader(A), NEW c \in A PROVE NextCell(st, c) \in Reader(A)
  <2>1. st.lines \in Seq(Seq(A)) /\ st.partial \in Seq(A)
    BY DEF Reader
  <2>2. Append(st.partial, c) \in Seq(A)
    BY <2>1
  <2>3. Append(st.lines, st.partial) \in Seq(Seq(A))
    <3> DEFINE B == Seq(A)
    <3>1. st.lines \in Seq(B) /\ st.partial \in B
      BY <2>1
    <3> HIDE DEF B
    <3>2. Append(st.lines, st.partial) \in Seq(B)
      BY <3>1
    <3> QED BY <3>2 DEF B
  <2> QED BY <1>1, <2>1, <2>2, <2>3 DEF NextCell, Reader
<1> QED BY <1>2, <1>3

LEMMA NextCellFields ==
  ASSUME NEW st, NEW c
  PROVE  /\ c = Newline => /\ NextCell(st, c).lines = Append(st.lines, st.partial)
                           /\ NextCell(st, c).partial = << >>
         /\ c # Newline => /\ NextCell(st, c).lines = st.lines
                           /\ NextCell(st, c).partial = Append(st.partial, c)
BY DEF NextCell

\* f has what has been read after each cell.
IsSplit(f, cells) ==
  f = [k \in 0..Len(cells) |-> IF k = 0 THEN NoCells ELSE NextCell(f[k - 1], cells[k])]

LEMMA SplitRuns ==
  ASSUME NEW A, NEW cells \in Seq(A)
  PROVE  \E f : IsSplit(f, cells) /\ Split(cells) = f[Len(cells)]
<1> DEFINE n == Len(cells)
           step == [p \in Nat \X Reader(A) |->
                      IF p[1] \in 1..n THEN NextCell(p[2], cells[p[1]]) ELSE p[2]]
<1>1. n \in Nat /\ \A k \in 1..n : cells[k] \in A
  OBVIOUS
<1>2. step \in [Nat \X Reader(A) -> Reader(A)]
  <2> SUFFICES ASSUME NEW k \in Nat, NEW st \in Reader(A)
               PROVE  (IF k \in 1..n THEN NextCell(st, cells[k]) ELSE st) \in Reader(A)
    OBVIOUS
  <2> HIDE DEF n
  <2> QED BY <1>1, ReaderTypes
<1>3. PICK f \in [0..n -> Reader(A)] : IsRun(f, NoCells, step, n)
  <2> HIDE DEF n, step
  <2> QED BY <1>1, <1>2, ReaderTypes, LoopRuns
<1>4. ASSUME NEW k \in 0..n
      PROVE  f[k] = IF k = 0 THEN NoCells ELSE NextCell(f[k - 1], cells[k])
  <2>1. CASE k = 0
    BY <1>3, <2>1 DEF IsRun
  <2>2. CASE k # 0
    <3>1. k \in 1..n /\ k \in Nat /\ k - 1 \in 0..n
      BY <2>2
    <3>2. f[k] = step[<<k, f[k - 1]>>]
      <4> HIDE DEF step, n
      <4> QED BY <1>3, <3>1 DEF IsRun
    <3>3. f[k - 1] \in Reader(A)
      <4> HIDE DEF step, n
      <4> QED BY <3>1
    <3> QED BY <2>2, <3>1, <3>2, <3>3
  <2> QED BY <2>1, <2>2
<1>5. IsSplit(f, cells)
  BY <1>4 DEF IsSplit
<1>6. Split(cells) = (CHOOSE g : IsSplit(g, cells))[n]
  BY DEF Split, IsSplit, NoCells
<1>7. IsSplit(CHOOSE g : IsSplit(g, cells), cells)
  BY <1>5
<1> QED BY <1>6, <1>7

LEMMA SplitEmpty == Split(<< >>) = NoCells
<1>1. << >> \in Seq({}) /\ Len(<< >>) = 0
  OBVIOUS
<1>2. PICK f : IsSplit(f, << >>) /\ Split(<< >>) = f[Len(<< >>)]
  BY <1>1, SplitRuns
<1>3. f[0] = NoCells
  BY <1>1, <1>2 DEF IsSplit
<1> QED BY <1>1, <1>2, <1>3

LEMMA SplitAppend ==
  ASSUME NEW A, NEW cells \in Seq(A), NEW c \in A
  PROVE  Split(Append(cells, c)) = NextCell(Split(cells), c)
<1> DEFINE n == Len(cells)
           longer == Append(cells, c)
<1>1. n \in Nat /\ longer \in Seq(A) /\ Len(longer) = n + 1 /\ longer[n + 1] = c
      /\ \A k \in 1..n : longer[k] = cells[k]
  BY AppendAt
<1>2. PICK f : IsSplit(f, cells) /\ Split(cells) = f[n]
  BY SplitRuns
<1>3. PICK g : IsSplit(g, longer) /\ Split(longer) = g[n + 1]
  <2> HIDE DEF longer
  <2> QED BY <1>1, SplitRuns
<1> HIDE DEF longer
<1> DEFINE V == {f[k] : k \in 0..n} \cup {g[k] : k \in 0..n}
           step == [p \in Nat \X V |-> NextCell(p[2], longer[p[1]])]
<1>4. IsRun(f, NoCells, step, n) /\ IsRun(g, NoCells, step, n)
  <2>1. f[0] = NoCells /\ g[0] = NoCells
    BY <1>1, <1>2, <1>3 DEF IsSplit
  <2> SUFFICES ASSUME NEW k \in 1..n
               PROVE  f[k] = step[<<k, f[k - 1]>>] /\ g[k] = step[<<k, g[k - 1]>>]
    BY <2>1 DEF IsRun
  <2>2. k \in Nat /\ k - 1 \in 0..n /\ k \in 0..n /\ k # 0 /\ k \in 0..n + 1
    BY <1>1
  <2>3. f[k - 1] \in V /\ g[k - 1] \in V
    BY <2>2
  <2>4. f[k] = NextCell(f[k - 1], longer[k])
    BY <1>1, <1>2, <2>2 DEF IsSplit
  <2>5. g[k] = NextCell(g[k - 1], longer[k])
    BY <1>1, <1>3, <2>2 DEF IsSplit
  <2> HIDE DEF V, n
  <2> QED BY <2>2, <2>3, <2>4, <2>5
<1>5. f[n] = g[n]
  <2> HIDE DEF n, step
  <2> QED BY <1>1, <1>4, SameEnd
<1>6. g[n + 1] = NextCell(g[n], c)
  <2>1. n + 1 \in 0..n + 1 /\ n + 1 # 0 /\ (n + 1) - 1 = n
    BY <1>1
  <2> HIDE DEF n
  <2> QED BY <1>1, <1>3, <2>1 DEF IsSplit
<1> QED BY <1>2, <1>3, <1>5, <1>6 DEF longer

LEMMA SplitType ==
  ASSUME NEW A, NEW cells \in Seq(A)
  PROVE  Split(cells) \in Reader(A)
<1> DEFINE S == {cs \in Seq(A) : Split(cs) \in Reader(A)}
<1>1. << >> \in S
  BY SplitEmpty, ReaderTypes
<1>2. ASSUME NEW cs \in Seq(A), NEW c \in A, cs \in S PROVE Append(cs, c) \in S
  <2>1. Append(cs, c) \in Seq(A)
    OBVIOUS
  <2> QED BY <1>2, <2>1, SplitAppend, ReaderTypes
<1>3. Seq(A) \subseteq S
  <2> HIDE DEF S
  <2> QED BY <1>1, <1>2, InductionOverSeq
<1> QED BY <1>3

\* A partial line holds no newline.
LEMMA PartialIsPlain ==
  ASSUME NEW A, NEW cells \in Seq(A)
  PROVE  PartialLine(cells) \in Seq(A \ {Newline})
<1> DEFINE B == A \ {Newline}
           S == {cs \in Seq(A) : Split(cs).partial \in Seq(B)}
<1>1. << >> \in Seq(A) /\ << >> \in Seq(B)
  OBVIOUS
<1>2. << >> \in S
  <2>1. Split(<< >>).partial = << >>
    BY SplitEmpty DEF NoCells
  <2> QED BY <1>1, <2>1
<1>3. ASSUME NEW cs \in Seq(A), NEW c \in A, cs \in S PROVE Append(cs, c) \in S
  <2>1. Append(cs, c) \in Seq(A) /\ Split(Append(cs, c)) = NextCell(Split(cs), c)
    BY SplitAppend
  <2>2. CASE c = Newline
    <3>1. Split(Append(cs, c)).partial = << >>
      BY <2>1, <2>2, NextCellFields
    <3> QED BY <1>1, <2>1, <3>1
  <2>3. CASE c # Newline
    <3>1. Split(Append(cs, c)).partial = Append(Split(cs).partial, c)
      BY <2>1, <2>3, NextCellFields
    <3>2. Split(cs).partial \in Seq(B) /\ c \in B
      BY <1>3, <2>3
    <3> HIDE DEF B
    <3>3. Append(Split(cs).partial, c) \in Seq(B)
      BY <3>2
    <3> QED BY <2>1, <3>1, <3>3
  <2> QED BY <2>2, <2>3
<1>4. Seq(A) \subseteq S
  <2> HIDE DEF S
  <2> QED BY <1>2, <1>3, InductionOverSeq
<1> QED BY <1>4 DEF PartialLine

\* Cells without a newline are a partial line.
LEMMA PlainIsPartial ==
  ASSUME NEW A, NEW cells \in Seq(A \ {Newline})
  PROVE  Split(cells) = [lines |-> << >>, partial |-> cells]
<1> DEFINE B == A \ {Newline}
           S == {cs \in Seq(B) : Split(cs) = [lines |-> << >>, partial |-> cs]}
<1>1. << >> \in S
  BY SplitEmpty DEF NoCells
<1>2. ASSUME NEW cs \in Seq(B), NEW c \in B, cs \in S PROVE Append(cs, c) \in S
  <2>1. Split(Append(cs, c)) = NextCell(Split(cs), c) /\ Append(cs, c) \in Seq(B)
    <3> HIDE DEF B
    <3> QED BY SplitAppend
  <2> QED BY <1>2, <2>1 DEF NextCell
<1>3. Seq(B) \subseteq S
  <2> HIDE DEF B, S
  <2> QED BY <1>1, <1>2, InductionOverSeq
<1> QED BY <1>3

\* What a chunk adds to what was split does not depend on what came before the
\* partial line.
LEMMA SplitConcat ==
  ASSUME NEW A, NEW before \in Seq(A), NEW chunk \in Seq(A)
  PROVE  LET cells == PartialLine(before) \o chunk IN
         /\ Lines(before \o chunk) = Lines(before) \o Lines(cells)
         /\ PartialLine(before \o chunk) = PartialLine(cells)
<1> DEFINE p == PartialLine(before)
           Good(c) == /\ Lines(before \o c) = Lines(before) \o Lines(p \o c)
                      /\ PartialLine(before \o c) = PartialLine(p \o c)
           S == {c \in Seq(A) : Good(c)}
<1>1. p \in Seq(A \ {Newline}) /\ p \in Seq(A) /\ Lines(before) \in Seq(Seq(A))
  <2>1. p \in Seq(A)
    BY SplitType DEF PartialLine, Reader
  <2> QED BY <2>1, PartialIsPlain, SplitType DEF Lines, Reader
<1>2. << >> \in S
  <2>1. before \o << >> = before /\ p \o << >> = p /\ Lines(before) \o << >> = Lines(before)
    BY <1>1
  <2>2. Lines(p) = << >> /\ PartialLine(p) = p
    <3> HIDE DEF p
    <3>1. Split(p) = [lines |-> << >>, partial |-> p]
      BY <1>1, PlainIsPartial
    <3> QED BY <3>1 DEF Lines, PartialLine
  <2>3. Good(<< >>)
    <3> HIDE DEF p
    <3>1. Lines(before \o << >>) = Lines(before) /\ PartialLine(before \o << >>) = p
      BY <2>1 DEF p
    <3>2. Lines(p \o << >>) = << >> /\ PartialLine(p \o << >>) = p
      BY <2>1, <2>2
    <3> QED BY <2>1, <3>1, <3>2
  <2> HIDE DEF Good
  <2> QED BY <2>3
<1>3. ASSUME NEW c \in Seq(A), NEW x \in A, c \in S PROVE Append(c, x) \in S
  <2> HIDE DEF p
  <2>1. p \in Seq(A) /\ Lines(before) \in Seq(Seq(A))
    BY <1>1
  <2>2. /\ before \o c \in Seq(A) /\ p \o c \in Seq(A) /\ Append(c, x) \in Seq(A)
        /\ before \o Append(c, x) = Append(before \o c, x)
        /\ p \o Append(c, x) = Append(p \o c, x)
    BY <2>1, ConcatAppend
  <2>3. /\ Split(before \o Append(c, x)) = NextCell(Split(before \o c), x)
        /\ Split(p \o Append(c, x)) = NextCell(Split(p \o c), x)
    BY <2>2, SplitAppend
  <2>4. /\ Split(before \o c).lines = Lines(before) \o Split(p \o c).lines
        /\ Split(before \o c).partial = Split(p \o c).partial
    BY <1>3 DEF Lines, PartialLine
  <2>5. CASE x # Newline
    <3>1. /\ Split(before \o Append(c, x)).lines = Split(before \o c).lines
          /\ Split(p \o Append(c, x)).lines = Split(p \o c).lines
          /\ Split(before \o Append(c, x)).partial = Append(Split(before \o c).partial, x)
          /\ Split(p \o Append(c, x)).partial = Append(Split(p \o c).partial, x)
      BY <2>3, <2>5, NextCellFields
    <3>2. Good(Append(c, x))
      BY <2>4, <3>1 DEF Lines, PartialLine
    <3> QED BY <2>2, <3>2
  <2>6. CASE x = Newline
    <3>1. Split(p \o c).lines \in Seq(Seq(A)) /\ Split(p \o c).partial \in Seq(A)
      BY <2>2, SplitType DEF Reader
    <3>2. Lines(before) \o Append(Split(p \o c).lines, Split(p \o c).partial)
            = Append(Lines(before) \o Split(p \o c).lines, Split(p \o c).partial)
      <4> DEFINE B == Seq(A)
      <4>1. Lines(before) \in Seq(B) /\ Split(p \o c).lines \in Seq(B)
            /\ Split(p \o c).partial \in B
        BY <2>1, <3>1
      <4> HIDE DEF B
      <4> QED BY <4>1, ConcatAppend
    <3>3. /\ Split(before \o Append(c, x)).lines
               = Append(Split(before \o c).lines, Split(before \o c).partial)
          /\ Split(p \o Append(c, x)).lines = Append(Split(p \o c).lines, Split(p \o c).partial)
          /\ Split(before \o Append(c, x)).partial = << >>
          /\ Split(p \o Append(c, x)).partial = << >>
      BY <2>3, <2>6, NextCellFields
    <3>4. Good(Append(c, x))
      BY <2>4, <3>2, <3>3 DEF Lines, PartialLine
    <3> QED BY <2>2, <3>4
  <2> QED BY <2>5, <2>6
<1>4. Seq(A) \subseteq S
  <2> HIDE DEF S
  <2> QED BY <1>2, <1>3, InductionOverSeq
<1> QED BY <1>4

-----------------------------------------------------------------------------
(* The deltas of the lines.                                                *)

\* What the lines of a response may carry.
Contents == Seq(Tokens \cup {<< >>})

LEMMA ContentTypes == Tokens \cup {<< >>} \subseteq Seq(Char)
<1> SUFFICES ASSUME NEW t \in Tokens \cup {<< >>} PROVE t \in Seq(Char)
  OBVIOUS
<1>1. CASE t = << >>
  BY <1>1
<1>2. CASE t \in Tokens
  <2>1. t \in Clauses
    BY <1>2, ReplyTextAssumption
  <2> QED BY <2>1 DEF Clauses
<1> QED BY <1>1, <1>2

\* A line carries one delta or none, and a delta is a text.
LEMMA DeltaType ==
  ASSUME NEW carried \in Contents, NEW line
  PROVE  Delta(line, carried) \in Seq(Clauses)
<1> DEFINE C == {i \in DOMAIN carried : line = Cells(i) /\ carried[i] # << >>}
<1>1. CASE C = {}
  BY <1>1 DEF Delta
<1>2. CASE C # {}
  <2> DEFINE i == CHOOSE j \in C : TRUE
  <2>1. i \in C
    BY <1>2
  <2> HIDE DEF i
  <2>2. i \in 1..Len(carried) /\ carried[i] # << >>
    BY <2>1 DEF Contents
  <2>3. carried[i] \in Tokens \cup {<< >>}
    BY <2>2 DEF Contents
  <2>4. carried[i] \in Clauses
    BY <2>2, <2>3, ReplyTextAssumption
  <2>5. Delta(line, carried) = <<carried[i]>>
    BY <1>2 DEF Delta, i
  <2> HIDE DEF Clauses
  <2> QED BY <2>4, <2>5
<1> QED BY <1>1, <1>2

LEMMA DeltasEmpty ==
  ASSUME NEW carried
  PROVE  Deltas(<< >>, carried) = << >>
<1>1. [k \in 1..Len(<< >>) |-> Delta(<< >>[k], carried)] = << >>
  OBVIOUS
<1> QED BY <1>1, JoinEmpty DEF Deltas

LEMMA DeltasAppend ==
  ASSUME NEW carried \in Contents, NEW L, NEW lines \in Seq(L), NEW line \in L
  PROVE  /\ Deltas(lines, carried) \in Seq(Clauses)
         /\ Deltas(Append(lines, line), carried)
              = Deltas(lines, carried) \o Delta(line, carried)
<1> DEFINE n == Len(lines)
           longer == Append(lines, line)
           ds == [k \in 1..n |-> Delta(lines[k], carried)]
           ds2 == [k \in 1..Len(longer) |-> Delta(longer[k], carried)]
           d == Delta(line, carried)
           B == Seq(Clauses)
<1>1. n \in Nat /\ Len(longer) = n + 1 /\ longer[n + 1] = line
      /\ \A k \in 1..n : longer[k] = lines[k]
  BY AppendAt
<1>2. \A x : Delta(x, carried) \in B
  BY DeltaType
<1>3. ds \in Seq(B) /\ d \in B /\ Len(ds) = n
  <2> HIDE DEF n, B
  <2> QED BY <1>1, <1>2
<1>4. ds2 = Append(ds, d)
  <2> HIDE DEF longer, n
  <2>1. \A k \in 1..n : ds2[k] = ds[k]
    BY <1>1
  <2>2. ds2[n + 1] = d
    BY <1>1
  <2>3. ds2 \in Seq(B) /\ Len(ds2) = n + 1
    <3> HIDE DEF B
    <3> QED BY <1>1, <1>2
  <2>4. /\ Append(ds, d) \in Seq(B) /\ Len(Append(ds, d)) = n + 1
        /\ \A k \in 1..n : Append(ds, d)[k] = ds[k]
        /\ Append(ds, d)[n + 1] = d
    <3> HIDE DEF ds, d, B
    <3> QED BY <1>3, AppendAt
  <2>5. \A k \in 1..n + 1 : ds2[k] = Append(ds, d)[k]
    <3> HIDE DEF ds2, ds, d
    <3> QED BY <1>1, <2>1, <2>2, <2>4
  <2> HIDE DEF ds2, ds, d, B
  <2> QED BY <2>3, <2>4, <2>5, SeqEqual
<1>5. FlattenSeq(Append(ds, d)) = FlattenSeq(ds) \o d /\ FlattenSeq(ds) \in Seq(Clauses)
  <2>1. ds \in Seq(Seq(Clauses)) /\ d \in Seq(Clauses)
    BY <1>3
  <2> HIDE DEF ds, d, Clauses
  <2> QED BY <2>1, JoinAppend, JoinType
<1>6. Deltas(lines, carried) = FlattenSeq(ds) /\ Deltas(longer, carried) = FlattenSeq(ds2)
  BY DEF Deltas
<1> HIDE DEF ds, ds2, d, longer
<1>7. Deltas(longer, carried) = FlattenSeq(ds) \o d
  BY <1>4, <1>5, <1>6
<1> QED BY <1>5, <1>6, <1>7 DEF d, longer

LEMMA DeltasType ==
  ASSUME NEW carried \in Contents, NEW L, NEW lines \in Seq(L)
  PROVE  Deltas(lines, carried) \in Seq(Clauses)
<1>1. CASE lines = << >>
  <2>1. Deltas(lines, carried) = << >>
    BY <1>1, DeltasEmpty
  <2> HIDE DEF Clauses
  <2> QED BY <2>1
<1>2. CASE lines # << >>
  <2>1. PICK l \in L : TRUE
    BY <1>2
  <2> QED BY <2>1, DeltasAppend
<1> QED BY <1>1, <1>2

LEMMA DeltasConcat ==
  ASSUME NEW carried \in Contents, NEW L, NEW lines \in Seq(L), NEW more \in Seq(L)
  PROVE  Deltas(lines \o more, carried) = Deltas(lines, carried) \o Deltas(more, carried)
<1> DEFINE D(ls) == Deltas(ls, carried)
           S == {ls \in Seq(L) : D(lines \o ls) = D(lines) \o D(ls)}
<1>1. \A ls \in Seq(L) : D(ls) \in Seq(Clauses)
  BY DeltasType
<1> HIDE DEF Clauses
<1>2. << >> \in S
  <2>1. lines \o << >> = lines /\ D(<< >>) = << >> /\ D(lines) \in Seq(Clauses)
    BY <1>1, DeltasEmpty
  <2> HIDE DEF D
  <2>2. D(lines) \o << >> = D(lines)
    BY <2>1
  <2> QED BY <2>1, <2>2
<1>3. ASSUME NEW ls \in Seq(L), NEW l \in L, ls \in S PROVE Append(ls, l) \in S
  <2>1. /\ lines \o Append(ls, l) = Append(lines \o ls, l) /\ lines \o ls \in Seq(L)
        /\ Append(ls, l) \in Seq(L)
    BY ConcatAppend
  <2>2. /\ D(Append(lines \o ls, l)) = D(lines \o ls) \o Delta(l, carried)
        /\ D(Append(ls, l)) = D(ls) \o Delta(l, carried)
    BY <2>1, DeltasAppend
  <2>3. D(lines) \in Seq(Clauses) /\ D(ls) \in Seq(Clauses) /\ Delta(l, carried) \in Seq(Clauses)
    BY <1>1, DeltaType
  <2> HIDE DEF D
  <2>4. D(lines \o ls) = D(lines) \o D(ls)
    BY <1>3
  <2>5. (D(lines) \o D(ls)) \o Delta(l, carried) = D(lines) \o (D(ls) \o Delta(l, carried))
    BY <2>3, ConcatAssociative
  <2> QED BY <2>1, <2>2, <2>4, <2>5
<1>4. Seq(L) \subseteq S
  <2> HIDE DEF S
  <2> QED BY <1>2, <1>3, InductionOverSeq
<1> QED BY <1>4

\* Each line carries its delta.
LEMMA DeltaOfLine ==
  ASSUME NEW carried \in Contents, NEW i \in 1..Len(carried)
  PROVE  FlattenSeq(Delta(Cells(i), carried)) = carried[i] /\ carried[i] \in Seq(Char)
<1> DEFINE C == {j \in DOMAIN carried : Cells(i) = Cells(j) /\ carried[j] # << >>}
<1>1. carried[i] \in Tokens \cup {<< >>}
  BY DEF Contents
<1>2. carried[i] \in Seq(Char)
  BY <1>1, ContentTypes
<1>3. \A j \in C : j = i
  <2>1. ASSUME NEW j, Cells(i) = Cells(j) PROVE j = i
    <3>1. Cells(i)[1][1] = i /\ Cells(j)[1][1] = j
      BY DEF Cells
    <3> QED BY <2>1, <3>1
  <2> QED BY <2>1
<1>4. CASE carried[i] = << >>
  <2>1. C = {}
    BY <1>3, <1>4
  <2>2. Delta(Cells(i), carried) = << >>
    BY <2>1 DEF Delta
  <2> QED BY <1>2, <1>4, <2>2, JoinEmpty
<1>5. CASE carried[i] # << >>
  <2>1. C = {i}
    BY <1>3, <1>5 DEF Contents
  <2>2. (CHOOSE j \in C : TRUE) = i
    BY <2>1
  <2>3. Delta(Cells(i), carried) = <<carried[i]>>
    BY <2>1, <2>2 DEF Delta
  <2> QED BY <1>2, <2>3, JoinOne
<1> QED BY <1>4, <1>5

\* The deltas of the first q lines are what these lines carry.
LEMMA DeltasOfLines ==
  ASSUME NEW carried \in Contents, NEW q \in 0..Len(carried)
  PROVE  FlattenSeq(Deltas([k \in 1..q |-> Cells(k)], carried))
           = FlattenSeq(SubSeq(carried, 1, q))
<1> DEFINE lines(m) == [k \in 1..m |-> Cells(k)]
           L == {Cells(k) : k \in Nat}
           T == {m \in Nat : m <= Len(carried) =>
                  FlattenSeq(Deltas(lines(m), carried)) = FlattenSeq(SubSeq(carried, 1, m))}
<1>1. Len(carried) \in Nat
  BY DEF Contents
<1>2. 0 \in T
  <2>1. lines(0) = << >> /\ SubSeq(carried, 1, 0) = << >>
    OBVIOUS
  <2> QED BY <2>1, DeltasEmpty
<1>3. ASSUME NEW m \in Nat, m \in T PROVE m + 1 \in T
  <2> SUFFICES ASSUME m + 1 <= Len(carried)
               PROVE  FlattenSeq(Deltas(lines(m + 1), carried))
                        = FlattenSeq(SubSeq(carried, 1, m + 1))
    OBVIOUS
  <2> DEFINE c == Cells(m + 1)
             front == SubSeq(carried, 1, m)
  <2>1. lines(m) \in Seq(L) /\ c \in L /\ lines(m + 1) = Append(lines(m), c)
    <3>1. lines(m) \in Seq(L) /\ c \in L /\ Len(lines(m)) = m
      OBVIOUS
    <3>2. lines(m + 1) \in Seq(L) /\ Len(lines(m + 1)) = m + 1
      OBVIOUS
    <3>3. \A k \in 1..m + 1 : lines(m + 1)[k] = Append(lines(m), c)[k]
      <4>1. /\ Append(lines(m), c) \in Seq(L) /\ Len(Append(lines(m), c)) = m + 1
            /\ \A k \in 1..m : Append(lines(m), c)[k] = lines(m)[k]
            /\ Append(lines(m), c)[m + 1] = c
        <5> HIDE DEF lines, c, L
        <5> QED BY <3>1, AppendAt
      <4> QED BY <4>1
    <3> HIDE DEF lines, L, c
    <3> QED BY <3>1, <3>2, <3>3
  <2>2. Deltas(lines(m + 1), carried) = Deltas(lines(m), carried) \o Delta(c, carried)
        /\ Deltas(lines(m), carried) \in Seq(Clauses)
    <3> HIDE DEF L, lines, c
    <3> QED BY <2>1, DeltasAppend
  <2>3. Delta(c, carried) \in Seq(Clauses)
    BY DeltaType
  <2>4. Deltas(lines(m), carried) \in Seq(Seq(Char)) /\ Delta(c, carried) \in Seq(Seq(Char))
    <3>1. Clauses \subseteq Seq(Char)
      BY DEF Clauses
    <3> HIDE DEF Clauses, lines, c
    <3> QED BY <2>2, <2>3, <3>1, SeqMonotonic
  <2>5. FlattenSeq(Deltas(lines(m + 1), carried))
          = FlattenSeq(Deltas(lines(m), carried)) \o FlattenSeq(Delta(c, carried))
    <3> HIDE DEF lines, c
    <3> QED BY <2>2, <2>4, JoinConcat
  <2>6. FlattenSeq(Delta(c, carried)) = carried[m + 1] /\ carried[m + 1] \in Seq(Char)
    <3>1. m + 1 \in 1..Len(carried)
      BY <1>1
    <3> QED BY <3>1, DeltaOfLine
  <2>7. front \in Seq(Seq(Char)) /\ SubSeq(carried, 1, m + 1) = Append(front, carried[m + 1])
    <3>1. carried \in Seq(Seq(Char))
      <4>1. Tokens \cup {<< >>} \subseteq Seq(Char)
        BY ContentTypes
      <4> QED BY <4>1, SeqMonotonic DEF Contents
    <3> DEFINE B == Seq(Char)
    <3>2. carried \in Seq(B) /\ m \in Nat /\ m + 1 <= Len(carried)
      BY <3>1
    <3> HIDE DEF B
    <3>3. front \in Seq(B) /\ SubSeq(carried, 1, m + 1) = Append(front, carried[m + 1])
      BY <3>2
    <3> QED BY <3>3 DEF B
  <2>8. FlattenSeq(SubSeq(carried, 1, m + 1)) = FlattenSeq(front) \o carried[m + 1]
    <3> HIDE DEF front
    <3> QED BY <2>6, <2>7, JoinAppend
  <2>9. FlattenSeq(Deltas(lines(m), carried)) = FlattenSeq(front)
    BY <1>3
  <2> HIDE DEF lines, front, c
  <2> QED BY <2>5, <2>6, <2>8, <2>9
<1>4. Nat \subseteq T
  <2> HIDE DEF T
  <2> QED BY <1>2, <1>3, InductionOverNat
<1> QED BY <1>1, <1>4

-----------------------------------------------------------------------------
(* A response, as far as it has arrived.                                   *)

Cell == {Newline} \cup {<<i, h>> : i \in Nat, h \in 1..2}

\* The k-th cell of every response that is long enough.
CellAt(k) == IF k % 3 = 0 THEN Newline ELSE <<k \div 3 + 1, k % 3>>

LEMMA ThreeCells ==
  ASSUME NEW q \in Nat
  PROVE  /\ CellAt(3 * q + 1) = <<q + 1, 1>>
         /\ CellAt(3 * q + 2) = <<q + 1, 2>>
         /\ CellAt(3 * q + 3) = Newline
<1>1. /\ (3 * q + 1) % 3 = 1 /\ (3 * q + 1) \div 3 = q
      /\ (3 * q + 2) % 3 = 2 /\ (3 * q + 2) \div 3 = q
      /\ (3 * q + 3) % 3 = 0
  OBVIOUS
<1> QED BY <1>1 DEF CellAt

LEMMA CellAtType ==
  ASSUME NEW k \in Nat
  PROVE  CellAt(k) \in Cell
<1>1. k % 3 \in 0..2 /\ k \div 3 \in Nat
  OBVIOUS
<1>2. CASE k % 3 = 0
  BY <1>2 DEF CellAt, Cell
<1>3. CASE k % 3 # 0
  <2>1. k % 3 \in 1..2 /\ k \div 3 + 1 \in Nat
    BY <1>1, <1>3
  <2> QED BY <1>3, <2>1 DEF CellAt, Cell
<1> QED BY <1>2, <1>3

\* cells is how a response begins.
Regular(cells) == \A k \in 1..Len(cells) : cells[k] = CellAt(k)

Newlines(cells) == {k \in DOMAIN cells : cells[k] = Newline}

\* q complete lines have been read, and r cells of the next one.
HasRead(cells, q, r) ==
  /\ Len(cells) = 3 * q + r
  /\ Lines(cells) = [k \in 1..q |-> Cells(k)]
  /\ PartialLine(cells) = SubSeq(Cells(q + 1), 1, r)
  /\ IsFiniteSet(Newlines(cells)) /\ Cardinality(Newlines(cells)) = q

\* The parts of a line.
LEMMA PartsOfPair ==
  ASSUME NEW S, NEW a \in S, NEW b \in S
  PROVE  /\ SubSeq(<<a, b>>, 1, 0) = << >>
         /\ SubSeq(<<a, b>>, 1, 1) = <<a>>
         /\ SubSeq(<<a, b>>, 1, 2) = <<a, b>>
<1>1. <<a, b>> \in Seq(S) /\ Len(<<a, b>>) = 2
  OBVIOUS
<1>2. SubSeq(<<a, b>>, 1, 0) = << >>
  BY <1>1, SubSeqEmpty
<1>3. SubSeq(<<a, b>>, 1, 2) = <<a, b>>
  BY <1>1, SubSeqFull
<1>4. SubSeq(<<a, b>>, 1, 1) = <<a>>
  <2> DEFINE s == <<a, b>>
  <2>1. s \in Seq(S) /\ 1 \in 1..Len(s) /\ s[1] = a
    BY <1>1
  <2> HIDE DEF s
  <2>2. SubSeq(s, 1, 1) = <<s[1]>> \o SubSeq(s, 2, 1)
    BY <2>1, SubSeqRecursiveFirst
  <2>3. SubSeq(s, 2, 1) = << >>
    BY SubSeqEmpty
  <2>4. <<a>> \in Seq(S) /\ <<a>> \o << >> = <<a>>
    OBVIOUS
  <2> QED BY <2>1, <2>2, <2>3, <2>4 DEF s
<1> QED BY <1>2, <1>3, <1>4

LEMMA PartsOfLine ==
  ASSUME NEW i \in Nat
  PROVE  /\ SubSeq(Cells(i), 1, 0) = << >>
         /\ SubSeq(Cells(i), 1, 1) = <<<<i, 1>>>>
         /\ SubSeq(Cells(i), 1, 2) = Cells(i)
<1> DEFINE a == <<i, 1>>
           b == <<i, 2>>
<1>1. a \in Nat \X Nat /\ b \in Nat \X Nat /\ Cells(i) = <<a, b>>
  BY DEF Cells
<1> HIDE DEF a, b
<1>2. /\ SubSeq(<<a, b>>, 1, 0) = << >>
      /\ SubSeq(<<a, b>>, 1, 1) = <<a>>
      /\ SubSeq(<<a, b>>, 1, 2) = <<a, b>>
  BY <1>1, PartsOfPair
<1> QED BY <1>1, <1>2 DEF a

LEMMA AppendToOne ==
  ASSUME NEW S, NEW a \in S, NEW b \in S
  PROVE  Append(<<a>>, b) = <<a, b>>
<1>1. <<a>> \in Seq(S) /\ Len(<<a>>) = 1 /\ <<a>>[1] = a
      /\ <<a, b>> \in Seq(S) /\ Len(<<a, b>>) = 2 /\ <<a, b>>[1] = a /\ <<a, b>>[2] = b
  OBVIOUS
<1> DEFINE s == <<a>>
           t == <<a, b>>
<1> HIDE DEF s, t
<1>2. /\ Append(s, b) \in Seq(S) /\ Len(Append(s, b)) = 2
      /\ Append(s, b)[1] = a /\ Append(s, b)[2] = b
  <2>1. s \in Seq(S) /\ Len(s) = 1 /\ s[1] = a
    BY <1>1 DEF s
  <2>2. /\ Append(s, b) \in Seq(S) /\ Len(Append(s, b)) = Len(s) + 1
        /\ \A k \in 1..Len(s) : Append(s, b)[k] = s[k]
        /\ Append(s, b)[Len(s) + 1] = b
    BY <2>1, AppendAt
  <2> DEFINE u == Append(s, b)
  <2> HIDE DEF u
  <2>3. u \in Seq(S) /\ Len(u) = 2 /\ u[1] = a /\ u[2] = b
    BY <2>1, <2>2 DEF u
  <2> QED BY <2>3 DEF u
<1>3. t \in Seq(S) /\ Len(t) = 2 /\ t[1] = a /\ t[2] = b
  BY <1>1 DEF t
<1>4. Append(s, b) = t
  BY <1>2, <1>3, SeqEqual
<1> QED BY <1>4 DEF s, t

\* One more cell.
LEMMA ReadsOneMore ==
  ASSUME NEW cells \in Seq(Cell), NEW q \in Nat, NEW r \in 0..2, HasRead(cells, q, r)
  PROVE  LET longer == Append(cells, CellAt(3 * q + r + 1)) IN
         IF r = 2 THEN HasRead(longer, q + 1, 0) ELSE HasRead(longer, q, r + 1)
<1> DEFINE c == CellAt(3 * q + r + 1)
           longer == Append(cells, c)
           n == Len(cells)
<1>1. /\ longer \in Seq(Cell) /\ Len(longer) = n + 1 /\ n = 3 * q + r /\ c \in Cell
      /\ \A k \in 1..n : longer[k] = cells[k]
      /\ longer[n + 1] = c
  <2>1. 3 * q + r + 1 \in Nat
    OBVIOUS
  <2>2. c \in Cell
    BY <2>1, CellAtType
  <2> HIDE DEF c
  <2> QED BY <2>2, AppendAt DEF HasRead
<1>2. Split(longer) = NextCell(Split(cells), c)
  BY <1>1, SplitAppend
<1>3. /\ Split(cells).lines = [k \in 1..q |-> Cells(k)]
      /\ Split(cells).partial = SubSeq(Cells(q + 1), 1, r)
  BY DEF HasRead, Lines, PartialLine
<1>4. Newlines(longer) = IF c = Newline THEN Newlines(cells) \cup {n + 1} ELSE Newlines(cells)
  <2>1. DOMAIN longer = 1..n + 1 /\ DOMAIN cells = 1..n /\ n \in Nat
    BY <1>1
  <2> HIDE DEF c, longer, n
  <2> QED BY <1>1, <2>1 DEF Newlines
<1>5. IsFiniteSet(Newlines(cells)) /\ Cardinality(Newlines(cells)) = q
      /\ n + 1 \notin Newlines(cells)
  BY DEF HasRead, Newlines
<1>6. q + 1 \in Nat /\ Newline \notin {<<q + 1, 1>>, <<q + 1, 2>>}
  BY DEF Newline
<1>7. CASE r = 2
  <2>1. c = Newline
    BY <1>7, ThreeCells
  <2>2. /\ Split(longer).lines = Append(Split(cells).lines, Split(cells).partial)
        /\ Split(longer).partial = << >>
    BY <1>2, <2>1, NextCellFields
  <2>3. Split(cells).partial = Cells(q + 1)
    BY <1>3, <1>6, <1>7, PartsOfLine
  <2>4. Append([k \in 1..q |-> Cells(k)], Cells(q + 1)) = [k \in 1..q + 1 |-> Cells(k)]
    OBVIOUS
  <2>5. IsFiniteSet(Newlines(longer)) /\ Cardinality(Newlines(longer)) = q + 1
    <3>1. Newlines(longer) = Newlines(cells) \cup {n + 1}
      BY <1>4, <2>1
    <3> HIDE DEF n, longer
    <3> QED BY <1>5, <3>1, FS_AddElement
  <2>6. Len(longer) = 3 * (q + 1) + 0
    BY <1>1, <1>7
  <2>7. q + 1 + 1 \in Nat
    OBVIOUS
  <2>8. Split(longer).partial = SubSeq(Cells(q + 1 + 1), 1, 0)
    BY <2>2, <2>7, PartsOfLine
  <2>9. Split(longer).lines = [k \in 1..q + 1 |-> Cells(k)]
    BY <1>3, <2>2, <2>3, <2>4
  <2>10. HasRead(longer, q + 1, 0)
    <3> HIDE DEF longer
    <3> QED BY <2>5, <2>6, <2>8, <2>9 DEF HasRead, Lines, PartialLine
  <2> QED BY <1>7, <2>10
<1>8. CASE r # 2
  <2>1. c # Newline /\ c = <<q + 1, r + 1>>
    <3>1. CASE r = 0
      BY <1>6, <3>1, ThreeCells
    <3>2. CASE r = 1
      BY <1>6, <3>2, ThreeCells
    <3> QED BY <1>8, <3>1, <3>2
  <2>2. /\ Split(longer).lines = Split(cells).lines
        /\ Split(longer).partial = Append(Split(cells).partial, c)
    <3> HIDE DEF c, longer
    <3>1. /\ NextCell(Split(cells), c).lines = Split(cells).lines
          /\ NextCell(Split(cells), c).partial = Append(Split(cells).partial, c)
      BY <2>1, NextCellFields
    <3> QED BY <1>2, <3>1
  <2>3. Append(Split(cells).partial, c) = SubSeq(Cells(q + 1), 1, r + 1)
    <3>1. CASE r = 0
      <4>1. Split(cells).partial = << >> /\ c = <<q + 1, 1>>
        BY <1>3, <1>6, <2>1, <3>1, PartsOfLine
      <4>2. SubSeq(Cells(q + 1), 1, r + 1) = <<<<q + 1, 1>>>>
        BY <1>6, <3>1, PartsOfLine
      <4>3. Append(<< >>, <<q + 1, 1>>) = <<<<q + 1, 1>>>>
        OBVIOUS
      <4> HIDE DEF c
      <4> QED BY <4>1, <4>2, <4>3
    <3>2. CASE r = 1
      <4>1. Split(cells).partial = <<<<q + 1, 1>>>> /\ c = <<q + 1, 2>>
        BY <1>3, <1>6, <2>1, <3>2, PartsOfLine
      <4>2. SubSeq(Cells(q + 1), 1, r + 1) = Cells(q + 1)
        BY <1>6, <3>2, PartsOfLine
      <4>3. Append(<<<<q + 1, 1>>>>, <<q + 1, 2>>) = Cells(q + 1)
        <5> DEFINE x == <<q + 1, 1>>
                   y == <<q + 1, 2>>
        <5>1. x \in Nat \X Nat /\ y \in Nat \X Nat
          BY <1>6
        <5> HIDE DEF x, y
        <5>2. Append(<<x>>, y) = <<x, y>>
          BY <5>1, AppendToOne
        <5> QED BY <5>2 DEF x, y, Cells
      <4> HIDE DEF c
      <4> QED BY <4>1, <4>2, <4>3
    <3> QED BY <1>8, <3>1, <3>2
  <2>4. IsFiniteSet(Newlines(longer)) /\ Cardinality(Newlines(longer)) = q
    <3> HIDE DEF longer, c
    <3> QED BY <1>4, <1>5, <2>1
  <2>5. Len(longer) = 3 * q + (r + 1)
    BY <1>1
  <2>6. HasRead(longer, q, r + 1)
    <3> HIDE DEF longer, c
    <3> QED BY <1>3, <2>2, <2>3, <2>4, <2>5 DEF HasRead, Lines, PartialLine
  <2> QED BY <1>8, <2>6
<1> QED BY <1>7, <1>8

\* Of the beginning of a response the complete lines are read.
LEMMA ReadsRegularly ==
  ASSUME NEW cells \in Seq(Cell), Regular(cells)
  PROVE  \E q \in Nat, r \in 0..2 : HasRead(cells, q, r)
<1> DEFINE S == {cs \in Seq(Cell) : Regular(cs) => \E q \in Nat, r \in 0..2 : HasRead(cs, q, r)}
<1>1. << >> \in S
  <2>1. /\ << >> \in Seq(Cell) /\ Len(<< >>) = 3 * 0 + 0
        /\ [k \in 1..0 |-> Cells(k)] = << >> /\ Newlines(<< >>) = {}
    BY DEF Newlines
  <2>2. SubSeq(Cells(0 + 1), 1, 0) = << >>
    BY PartsOfLine
  <2>3. IsFiniteSet(Newlines(<< >>)) /\ Cardinality(Newlines(<< >>)) = 0
    BY <2>1, FS_EmptySet
  <2>4. Lines(<< >>) = << >> /\ PartialLine(<< >>) = << >>
    BY SplitEmpty DEF Lines, PartialLine, NoCells
  <2>5. HasRead(<< >>, 0, 0)
    BY <2>1, <2>2, <2>3, <2>4 DEF HasRead
  <2> QED BY <2>1, <2>5
<1>2. ASSUME NEW cs \in Seq(Cell), NEW c \in Cell, cs \in S PROVE Append(cs, c) \in S
  <2> SUFFICES ASSUME Regular(Append(cs, c))
               PROVE  \E q \in Nat, r \in 0..2 : HasRead(Append(cs, c), q, r)
    OBVIOUS
  <2>1. /\ Len(Append(cs, c)) = Len(cs) + 1 /\ Len(cs) \in Nat
        /\ \A k \in 1..Len(cs) : Append(cs, c)[k] = cs[k]
        /\ Append(cs, c)[Len(cs) + 1] = c
    BY AppendAt
  <2>2. Regular(cs) /\ c = CellAt(Len(cs) + 1)
    BY <2>1 DEF Regular
  <2>3. PICK q \in Nat, r \in 0..2 : HasRead(cs, q, r)
    BY <1>2, <2>2
  <2>4. c = CellAt(3 * q + r + 1)
    BY <2>2, <2>3 DEF HasRead
  <2>5. IF r = 2 THEN HasRead(Append(cs, c), q + 1, 0) ELSE HasRead(Append(cs, c), q, r + 1)
    BY <2>3, <2>4, ReadsOneMore
  <2> QED BY <2>5
<1>3. Seq(Cell) \subseteq S
  <2> HIDE DEF S
  <2> QED BY <1>1, <1>2, InductionOverSeq
<1> QED BY <1>3

-----------------------------------------------------------------------------
(* What is read of a response.                                             *)

(* A response that arrives piece by piece: what has arrived and what has not are a *)
(* response of as many lines as content has, and what has been read are the complete *)
(* lines of what has arrived.                                              *)
ResponseInv ==
  /\ content \in Contents
  /\ arrived \in Seq(Cell) /\ body \in Seq(Cell)
  /\ Regular(arrived)
  /\ \A k \in 1..Len(body) : body[k] = CellAt(Len(arrived) + k)
  /\ Len(arrived) + Len(body) <= 3 * Len(content)
  /\ pending = PartialLine(arrived)
  /\ full = Joined(Deltas(Lines(arrived), content))

\* A response that has not been read.
LEMMA ResponseBegins ==
  ASSUME NEW n \in 1..MaxLines, NEW terminated \in BOOLEAN,
         content \in [1..n -> Tokens \cup {<< >>}], body = BodyOf(n, terminated),
         arrived = << >>, pending = << >>, full = << >>
  PROVE  ResponseInv
<1> DEFINE m == 3 * n - (IF terminated THEN 0 ELSE 1)
<1>1. n \in Nat /\ m \in Nat /\ m <= 3 * n
  BY ReplyTextAssumption
<1>2. content \in Contents /\ Len(content) = n
  BY <1>1 DEF Contents
<1>3. body = [k \in 1..m |-> CellAt(k)]
  BY DEF BodyOf, CellAt
<1>4. body \in Seq(Cell) /\ Len(body) = m /\ \A k \in 1..m : body[k] = CellAt(k)
  <2> HIDE DEF m
  <2>1. \A k \in 1..m : CellAt(k) \in Cell
    BY <1>1, CellAtType
  <2> QED BY <1>1, <1>3, <2>1
<1>5. Len(arrived) = 0 /\ arrived \in Seq(Cell) /\ Regular(arrived)
  BY DEF Regular
<1>6. pending = PartialLine(arrived) /\ Lines(arrived) = << >>
  BY SplitEmpty DEF PartialLine, Lines, NoCells
<1>7. full = Joined(Deltas(Lines(arrived), content))
  BY <1>6, DeltasEmpty, JoinEmpty DEF Joined
<1>8. \A k \in 1..Len(body) : body[k] = CellAt(Len(arrived) + k)
  <2> HIDE DEF m
  <2> QED BY <1>4, <1>5
<1>9. Len(arrived) + Len(body) <= 3 * Len(content)
  BY <1>1, <1>2, <1>4, <1>5
<1> QED BY <1>2, <1>4, <1>5, <1>6, <1>7, <1>8, <1>9 DEF ResponseInv

\* The response is read whole, whatever it is cut into.
LEMMA ReadWhole ==
  ASSUME ResponseInv
  PROVE  StreamReadWhole
<1>1. PICK q \in Nat, r \in 0..2 : HasRead(arrived, q, r)
  BY ReadsRegularly DEF ResponseInv
<1>2. q \in 0..Len(content)
  <2>1. Len(arrived) = 3 * q + r /\ Len(arrived) + Len(body) <= 3 * Len(content)
    BY <1>1 DEF HasRead, ResponseInv
  <2>2. Len(body) \in Nat /\ Len(content) \in Nat
    BY DEF ResponseInv, Contents
  <2> QED BY <2>1, <2>2
<1>3. full = FlattenSeq(Deltas([k \in 1..q |-> Cells(k)], content))
  BY <1>1 DEF HasRead, ResponseInv, Joined
<1>4. FlattenSeq(Deltas([k \in 1..q |-> Cells(k)], content)) = FlattenSeq(SubSeq(content, 1, q))
  BY <1>2, DeltasOfLines DEF ResponseInv
<1>5. Cardinality({k \in DOMAIN arrived : arrived[k] = Newline}) = q
  BY <1>1 DEF HasRead, Newlines
<1> QED BY <1>3, <1>4, <1>5 DEF StreamReadWhole, Joined

\* A chunk is read.
LEMMA ChunkReads ==
  ASSUME ResponseInv, NEW n \in 1..Len(body), ReadChunk(n)
  PROVE  /\ ResponseInv'
         /\ Deltas(Lines(pending \o SubSeq(body, 1, n)), content) \in Seq(Clauses)
         /\ full \in Seq(Char)
<1> DEFINE chunk == SubSeq(body, 1, n)
           rest == SubSeq(body, n + 1, Len(body))
           cells == pending \o chunk
           deltas == Deltas(Lines(cells), content)
<1>1. /\ body \in Seq(Cell) /\ arrived \in Seq(Cell) /\ Len(body) \in Nat /\ Len(arrived) \in Nat
      /\ n \in Nat /\ n <= Len(body) /\ content \in Contents
  BY DEF ResponseInv
<1>2. /\ chunk \in Seq(Cell) /\ Len(chunk) = n /\ \A k \in 1..n : chunk[k] = body[k]
      /\ rest \in Seq(Cell) /\ Len(rest) = Len(body) - n
      /\ \A k \in 1..Len(body) - n : rest[k] = body[n + k]
  BY <1>1
<1>3. /\ arrived' = arrived \o chunk /\ body' = rest /\ content' = content
      /\ pending' = PartialLine(cells) /\ full' = full \o Joined(deltas)
  BY DEF ReadChunk
<1>4. /\ Lines(arrived \o chunk) = Lines(arrived) \o Lines(cells)
      /\ PartialLine(arrived \o chunk) = PartialLine(cells)
  <2>1. pending = PartialLine(arrived)
    BY DEF ResponseInv
  <2> HIDE DEF chunk
  <2> QED BY <1>1, <1>2, <2>1, SplitConcat
<1>5. /\ Lines(arrived) \in Seq(Seq(Cell)) /\ Lines(cells) \in Seq(Seq(Cell))
      /\ cells \in Seq(Cell)
  <2>1. pending \in Seq(Cell)
    BY <1>1, SplitType DEF ResponseInv, PartialLine, Reader
  <2>2. cells \in Seq(Cell)
    <3> HIDE DEF chunk
    <3> QED BY <1>2, <2>1
  <2> HIDE DEF cells
  <2> QED BY <1>1, <2>2, SplitType DEF Lines, Reader
<1>6. /\ Deltas(Lines(arrived) \o Lines(cells), content)
           = Deltas(Lines(arrived), content) \o deltas
      /\ deltas \in Seq(Clauses) /\ Deltas(Lines(arrived), content) \in Seq(Clauses)
  <2> HIDE DEF cells
  <2> QED BY <1>1, <1>5, DeltasConcat, DeltasType
<1>7. Clauses \subseteq Seq(Char)
  BY DEF Clauses
<1>8. deltas \in Seq(Seq(Char)) /\ Deltas(Lines(arrived), content) \in Seq(Seq(Char))
  <2> HIDE DEF deltas, Clauses
  <2> QED BY <1>6, <1>7, SeqMonotonic
<1>9. full' = Joined(Deltas(Lines(arrived'), content'))
  <2>1. full = FlattenSeq(Deltas(Lines(arrived), content))
    BY DEF ResponseInv, Joined
  <2> HIDE DEF deltas, cells, chunk
  <2> QED BY <1>3, <1>4, <1>6, <1>8, <2>1, JoinConcat DEF Joined
<1>10. full \in Seq(Char)
  <2> HIDE DEF deltas
  <2> QED BY <1>8, JoinType DEF ResponseInv, Joined
<1>11. arrived' \in Seq(Cell) /\ Len(arrived') = Len(arrived) + n /\ Regular(arrived')
  <2> HIDE DEF chunk, rest
  <2>1. /\ arrived \o chunk \in Seq(Cell) /\ Len(arrived \o chunk) = Len(arrived) + Len(chunk)
        /\ \A k \in 1..Len(arrived) + Len(chunk) :
             (arrived \o chunk)[k]
               = IF k <= Len(arrived) THEN arrived[k] ELSE chunk[k - Len(arrived)]
    BY <1>1, <1>2, ConcatProperties
  <2>2. /\ arrived' \in Seq(Cell) /\ Len(arrived') = Len(arrived) + n
        /\ \A k \in 1..Len(arrived) + n :
             arrived'[k] = IF k <= Len(arrived) THEN arrived[k] ELSE chunk[k - Len(arrived)]
    BY <1>2, <1>3, <2>1
  <2>3. ASSUME NEW k \in 1..Len(arrived) + n PROVE arrived'[k] = CellAt(k)
    <3>1. CASE k <= Len(arrived)
      BY <1>1, <2>2, <3>1 DEF ResponseInv, Regular
    <3>2. CASE k > Len(arrived)
      <4> DEFINE j == k - Len(arrived)
      <4>1. j \in 1..n /\ Len(arrived) + j = k
        BY <1>1, <3>2
      <4>2. body[j] = CellAt(Len(arrived) + j)
        BY <1>1, <4>1 DEF ResponseInv
      <4> HIDE DEF j
      <4>3. arrived'[k] = chunk[j]
        BY <1>1, <2>2, <3>2 DEF j
      <4> QED BY <1>2, <4>1, <4>2, <4>3
    <3> QED BY <1>1, <3>1, <3>2
  <2> QED BY <2>2, <2>3 DEF Regular
<1>12. \A k \in 1..Len(body') : body'[k] = CellAt(Len(arrived') + k)
  <2> HIDE DEF chunk, rest
  <2> SUFFICES ASSUME NEW k \in 1..Len(body) - n
               PROVE  rest[k] = CellAt(Len(arrived) + n + k)
    BY <1>1, <1>2, <1>3, <1>11
  <2>1. n + k \in 1..Len(body)
    BY <1>1
  <2>2. body[n + k] = CellAt(Len(arrived) + (n + k))
    BY <2>1 DEF ResponseInv
  <2>3. Len(arrived) + (n + k) = Len(arrived) + n + k
    BY <1>1
  <2> QED BY <1>2, <2>2, <2>3
<1>13. Len(arrived') + Len(body') <= 3 * Len(content')
  <2>1. Len(arrived) + Len(body) <= 3 * Len(content)
    BY DEF ResponseInv
  <2> HIDE DEF chunk, rest
  <2> QED BY <1>1, <1>2, <1>3, <1>11, <2>1
<1>14. pending' = PartialLine(arrived')
  BY <1>3, <1>4
<1>15. ResponseInv'
  <2> HIDE DEF chunk, rest, cells, deltas
  <2> QED BY <1>1, <1>2, <1>3, <1>9, <1>11, <1>12, <1>13, <1>14 DEF ResponseInv
<1> QED BY <1>6, <1>10, <1>15

-----------------------------------------------------------------------------
(* The chunker.                                                            *)

LEMMA MinOfNaturals ==
  ASSUME NEW T \in SUBSET Nat, T # {}
  PROVE  Min(T) \in T /\ \A y \in T : Min(T) <= y
<1>1. \E x \in T : \A y \in T : x <= y
  BY LeastNatural
<1> QED BY <1>1 DEF Min

\* A run of punctuation ends at the first character that is none.
LEMMA RunEnds ==
  ASSUME NEW text \in Seq(Char), NEW i \in 1..Len(text)
  PROVE  /\ RunEnd(text, i) \in i..Len(text) + 1
         /\ \A k \in i..RunEnd(text, i) - 1 : text[k] \in Punct
         /\ RunEnd(text, i) <= Len(text) => text[RunEnd(text, i)] \notin Punct
<1> DEFINE n == Len(text)
           T == {e \in i..n + 1 : e = n + 1 \/ text[e] \notin Punct}
<1>1. n \in Nat /\ i \in Nat /\ T \in SUBSET Nat /\ n + 1 \in T
  OBVIOUS
<1>2. PICK e \in T : \A f \in T : e <= f
  <2> HIDE DEF T
  <2> QED BY <1>1, LeastNatural
<1>3. ASSUME NEW k \in i..e - 1 PROVE text[k] \in Punct
  <2>1. k \in i..n + 1 /\ k # n + 1 /\ ~(e <= k)
    BY <1>1, <1>2
  <2> QED BY <1>2, <2>1
<1>4. e \in i..n + 1 /\ (e <= n => text[e] \notin Punct)
  BY <1>1, <1>2
<1> DEFINE Ends(f) == /\ \A k \in i..f - 1 : text[k] \in Punct
                      /\ f <= n => text[f] \notin Punct
<1>5. \E f \in i..n + 1 : Ends(f)
  <2> HIDE DEF T, n
  <2> QED BY <1>3, <1>4
<1>6. RunEnd(text, i) = CHOOSE f \in i..n + 1 : Ends(f)
  BY DEF RunEnd
<1>7. RunEnd(text, i) \in i..n + 1 /\ Ends(RunEnd(text, i))
  <2> HIDE DEF Ends, n
  <2> QED BY <1>5, <1>6
<1> QED BY <1>7

\* The first clause ends at the first cut of the text.
LEMMA ClauseEndsAtCut ==
  ASSUME NEW text \in Seq(Char)
  PROVE  /\ ClauseEnd(text) = 0 => CutsOf(text) = {}
         /\ ClauseEnd(text) # 0 =>
              ClauseEnd(text) \in CutsOf(text) /\ \A j \in CutsOf(text) : ClauseEnd(text) <= j
<1> DEFINE n == Len(text)
           marks == {i \in 1..n : text[i] \in Punct}
           m == Min(marks)
           end == RunEnd(text, m)
<1>1. n \in Nat /\ marks \in SUBSET Nat
  OBVIOUS
<1>2. ClauseEnd(text) = IF marks = {} \/ end > n THEN 0 ELSE end - 1
  BY DEF ClauseEnd
<1>3. CASE marks = {}
  <2>1. CutsOf(text) = {}
    BY <1>1, <1>3 DEF CutsOf
  <2> QED BY <1>2, <1>3, <2>1
<1>4. CASE marks # {}
  <2>1. m \in marks /\ \A y \in marks : m <= y
    <3> HIDE DEF marks
    <3> QED BY <1>1, <1>4, MinOfNaturals
  <2>2. m \in 1..n /\ text[m] \in Punct
    BY <2>1
  <2> HIDE DEF m
  <2>3. /\ end \in m..n + 1
        /\ \A k \in m..end - 1 : text[k] \in Punct
        /\ end <= n => text[end] \notin Punct
    BY <2>2, RunEnds
  <2> HIDE DEF end
  <2>4. end > m
    <3> SUFFICES ASSUME end = m PROVE FALSE
      BY <1>1, <2>2, <2>3
    <3> QED BY <1>1, <2>2, <2>3
  <2>5. ASSUME NEW j \in CutsOf(text) PROVE end <= n /\ end - 1 <= j
    <3>1. j \in 1..n - 1 /\ text[j] \in Punct /\ text[j + 1] \notin Punct /\ j \in marks
      BY <1>1 DEF CutsOf
    <3>2. m <= j
      BY <2>1, <3>1
    <3>3. ~(j + 1 \in m..end - 1)
      BY <2>3, <3>1
    <3> HIDE DEF n, marks
    <3> QED BY <1>1, <2>2, <2>3, <3>1, <3>2, <3>3
  <2>6. ASSUME end <= n PROVE end - 1 \in CutsOf(text)
    <3>1. end - 1 \in 1..n - 1 /\ end - 1 \in m..end - 1 /\ (end - 1) + 1 = end
      BY <1>1, <2>2, <2>3, <2>4, <2>6
    <3> QED BY <2>3, <2>6, <3>1 DEF CutsOf
  <2>7. CASE end > n
    <3>1. CutsOf(text) = {}
      <4> HIDE DEF n, marks
      <4> QED BY <1>1, <2>3, <2>5, <2>7
    <3> QED BY <1>2, <2>7, <3>1
  <2>8. CASE end <= n
    <3>1. ClauseEnd(text) = end - 1
      <4> HIDE DEF n, marks
      <4>1. ~(end > n)
        BY <1>1, <2>2, <2>3, <2>8
      <4> QED BY <1>2, <1>4, <4>1 DEF end
    <3> HIDE DEF n, marks
    <3>2. end - 1 # 0
      BY <1>1, <2>2, <2>3, <2>4
    <3> QED BY <2>5, <2>6, <2>8, <3>1, <3>2
  <2> HIDE DEF n, marks
  <2> QED BY <1>1, <2>2, <2>3, <2>7, <2>8
<1> QED BY <1>3, <1>4

LEMMA ClausesAreTexts ==
  /\ Clauses \subseteq Seq(Char)
  /\ \A cs \in Seq(Clauses) : cs \in Seq(Seq(Char)) /\ FlattenSeq(cs) \in Seq(Char)
<1>1. Clauses \subseteq Seq(Char)
  BY DEF Clauses
<1>2. ASSUME NEW cs \in Seq(Clauses) PROVE cs \in Seq(Seq(Char))
  <2> HIDE DEF Clauses
  <2> QED BY <1>1, SeqMonotonic
<1>3. \A cs \in Seq(Seq(Char)) : FlattenSeq(cs) \in Seq(Char)
  BY JoinType
<1> QED BY <1>1, <1>2, <1>3

\* Another clause moves the last end by its length.
LEMMA EndsOfAppend ==
  ASSUME NEW cs \in Seq(Clauses), NEW c \in Clauses
  PROVE  /\ Append(cs, c) \in Seq(Clauses)
         /\ FlattenSeq(Append(cs, c)) = FlattenSeq(cs) \o c
         /\ EndsOf(Append(cs, c)) = EndsOf(cs) \cup {Len(FlattenSeq(cs)) + Len(c)}
<1> DEFINE n == Len(cs)
           longer == Append(cs, c)
<1>1. c \in Seq(Char) /\ cs \in Seq(Seq(Char)) /\ FlattenSeq(cs) \in Seq(Char)
  BY ClausesAreTexts
<1> HIDE DEF Clauses
<1>2. longer \in Seq(Clauses) /\ Len(longer) = n + 1 /\ n \in Nat
  BY AppendAt
<1>3. FlattenSeq(longer) = FlattenSeq(cs) \o c
  BY <1>1, JoinAppend
<1>4. \A k \in 1..n : SubSeq(longer, 1, k) = SubSeq(cs, 1, k)
  OBVIOUS
<1>5. SubSeq(longer, 1, n + 1) = longer
  <2> HIDE DEF longer
  <2> QED BY <1>2, SubSeqFull
<1>6. Len(FlattenSeq(longer)) = Len(FlattenSeq(cs)) + Len(c)
  <2> DEFINE t == FlattenSeq(cs)
  <2>1. t \in Seq(Char)
    BY <1>1
  <2> HIDE DEF t
  <2>2. Len(t \o c) = Len(t) + Len(c)
    BY <1>1, <2>1, ConcatProperties
  <2> QED BY <1>3, <2>2 DEF t
<1>7. EndsOf(longer) = {Len(FlattenSeq(SubSeq(longer, 1, k))) : k \in 1..n}
                         \cup {Len(FlattenSeq(SubSeq(longer, 1, n + 1)))}
  <2>1. 1..Len(longer) = (1..n) \cup {n + 1}
    BY <1>2
  <2> HIDE DEF longer, n
  <2> QED BY <2>1 DEF EndsOf
<1>8. {Len(FlattenSeq(SubSeq(longer, 1, k))) : k \in 1..n} = EndsOf(cs)
  <2> HIDE DEF longer
  <2> QED BY <1>4 DEF EndsOf
<1> HIDE DEF longer
<1>9. EndsOf(longer) = EndsOf(cs) \cup {Len(FlattenSeq(cs)) + Len(c)}
  BY <1>5, <1>6, <1>7, <1>8
<1> QED BY <1>2, <1>3, <1>9 DEF longer

\* The last clause ends where the clauses do.
LEMMA LastEnd ==
  ASSUME NEW cs \in Seq(Clauses), cs # << >>
  PROVE  Len(FlattenSeq(cs)) \in EndsOf(cs)
<1> HIDE DEF Clauses
<1>1. Len(cs) \in 1..Len(cs) /\ SubSeq(cs, 1, Len(cs)) = cs
  BY SubSeqFull
<1> QED BY <1>1 DEF EndsOf

\* The clauses cs, and rest behind them, are the text, cut at cuts of the text, and
\* at all those that are not in the rest.
CutInto(text, cs, rest) ==
  /\ cs \in Seq(Clauses) /\ rest \in Seq(Char)
  /\ text = FlattenSeq(cs) \o rest
  /\ EndsOf(cs) \subseteq CutsOf(text)
  /\ \A j \in CutsOf(text) : j \in EndsOf(cs) \/ j > Len(FlattenSeq(cs))

\* The cuts of the rest are cuts of the text.
LEMMA CutsBehind ==
  ASSUME NEW front \in Seq(Char), NEW rest \in Seq(Char), NEW j \in Nat, j > Len(front)
  PROVE  j \in CutsOf(front \o rest) <=> j - Len(front) \in CutsOf(rest)
<1> DEFINE text == front \o rest
           n == Len(front)
           i == j - n
<1>1. /\ text \in Seq(Char) /\ Len(text) = n + Len(rest)
      /\ \A k \in 1..n + Len(rest) : text[k] = IF k <= n THEN front[k] ELSE rest[k - n]
      /\ n \in Nat /\ Len(rest) \in Nat
  BY ConcatProperties
<1> HIDE DEF text
<1>2. j \in 1..Len(text) - 1 <=> i \in 1..Len(rest) - 1
  BY <1>1
<1>3. ASSUME i \in 1..Len(rest) - 1 PROVE text[j] = rest[i] /\ text[j + 1] = rest[i + 1]
  <2>1. j \in 1..n + Len(rest) /\ ~(j <= n)
    BY <1>1, <1>3
  <2>2. j + 1 \in 1..n + Len(rest) /\ ~(j + 1 <= n) /\ (j + 1) - n = i + 1
    BY <1>1, <1>3
  <2> HIDE DEF n
  <2> QED BY <1>1, <2>1, <2>2
<1> HIDE DEF i
<1>4. j \in CutsOf(text) <=> i \in CutsOf(rest)
  BY <1>2, <1>3 DEF CutsOf
<1> QED BY <1>4 DEF text, i

\* A text is what comes before a place in it and what comes behind.
LEMMA PartsOfText ==
  ASSUME NEW rest \in Seq(Char), NEW e \in 1..Len(rest)
  PROVE  /\ SubSeq(rest, 1, e) \in Clauses /\ Len(SubSeq(rest, 1, e)) = e
         /\ SubSeq(rest, e + 1, Len(rest)) \in Seq(Char)
         /\ Len(SubSeq(rest, e + 1, Len(rest))) = Len(rest) - e
         /\ SubSeq(rest, 1, e) \o SubSeq(rest, e + 1, Len(rest)) = rest
<1> DEFINE a == SubSeq(rest, 1, e)
           b == SubSeq(rest, e + 1, Len(rest))
<1>1. a \in Seq(Char) /\ Len(a) = e /\ \A k \in 1..e : a[k] = rest[k]
  OBVIOUS
<1>2. /\ b \in Seq(Char) /\ Len(b) = Len(rest) - e
      /\ \A k \in 1..Len(rest) - e : b[k] = rest[e + k]
  OBVIOUS
<1> HIDE DEF a, b
<1>3. /\ a \o b \in Seq(Char) /\ Len(a \o b) = Len(a) + Len(b)
      /\ \A k \in 1..Len(a) + Len(b) : (a \o b)[k] = IF k <= Len(a) THEN a[k] ELSE b[k - Len(a)]
  BY <1>1, <1>2, ConcatProperties
<1> DEFINE t == a \o b
<1> HIDE DEF t
<1>4. t \in Seq(Char) /\ Len(t) = Len(rest)
  BY <1>1, <1>2, <1>3 DEF t
<1>5. ASSUME NEW k \in 1..Len(rest) PROVE t[k] = rest[k]
  <2>1. CASE k <= e
    BY <1>1, <1>2, <1>3, <2>1 DEF t
  <2>2. CASE k > e
    <3>1. t[k] = b[k - e]
      BY <1>1, <1>2, <1>3, <2>2 DEF t
    <3>2. k - e \in 1..Len(rest) - e /\ e + (k - e) = k
      BY <2>2
    <3>3. b[k - e] = rest[e + (k - e)]
      BY <1>2, <3>2
    <3> QED BY <3>1, <3>2, <3>3
  <2> QED BY <2>1, <2>2
<1>6. t = rest
  BY <1>4, <1>5, SeqEqual
<1>7. a \in Clauses
  BY <1>1 DEF Clauses
<1> QED BY <1>1, <1>2, <1>6, <1>7 DEF a, b, t

\* Another clause leaves the rest.
LEMMA CutOnce ==
  ASSUME NEW text, NEW cs, NEW rest, CutInto(text, cs, rest), ClauseEnd(rest) # 0
  PROVE  LET e == ClauseEnd(rest) IN
         /\ CutInto(text, Append(cs, SubSeq(rest, 1, e)), SubSeq(rest, e + 1, Len(rest)))
         /\ SubSeq(rest, 1, e) \in Clauses
         /\ Len(SubSeq(rest, e + 1, Len(rest))) < Len(rest)
<1> DEFINE e == ClauseEnd(rest)
           a == SubSeq(rest, 1, e)
           b == SubSeq(rest, e + 1, Len(rest))
           front == FlattenSeq(cs)
           L == Len(front)
           more == Append(cs, a)
<1>1. /\ cs \in Seq(Clauses) /\ rest \in Seq(Char) /\ front \in Seq(Char)
      /\ text = front \o rest /\ EndsOf(cs) \subseteq CutsOf(text)
      /\ \A j \in CutsOf(text) : j \in EndsOf(cs) \/ j > L
  <2>1. cs \in Seq(Clauses)
    BY DEF CutInto
  <2>2. front \in Seq(Char)
    BY <2>1, ClausesAreTexts
  <2> HIDE DEF Clauses
  <2> QED BY <2>2 DEF CutInto
<1>2. e \in CutsOf(rest) /\ \A j \in CutsOf(rest) : e <= j
  BY <1>1, ClauseEndsAtCut
<1> HIDE DEF e
<1>3. e \in 1..Len(rest) /\ e \in Nat /\ Len(rest) \in Nat /\ L \in Nat
  BY <1>1, <1>2 DEF CutsOf
<1>4. /\ a \in Clauses /\ Len(a) = e /\ b \in Seq(Char) /\ Len(b) = Len(rest) - e
      /\ a \o b = rest
  BY <1>1, <1>3, PartsOfText
<1> HIDE DEF a, b
<1>5. /\ more \in Seq(Clauses) /\ FlattenSeq(more) = front \o a
      /\ EndsOf(more) = EndsOf(cs) \cup {L + e}
  BY <1>1, <1>4, EndsOfAppend
<1> HIDE DEF more, front
<1>6. text = FlattenSeq(more) \o b
  <2>1. a \in Seq(Char)
    BY <1>4, ClausesAreTexts
  <2>2. (front \o a) \o b = front \o (a \o b)
    <3>1. front \in Seq(Char) /\ b \in Seq(Char)
      BY <1>1, <1>4
    <3> QED BY <2>1, <3>1, ConcatAssociative
  <2> QED BY <1>1, <1>4, <1>5, <2>2
<1>7. Len(FlattenSeq(more)) = L + e
  <2>1. a \in Seq(Char)
    BY <1>4, ClausesAreTexts
  <2>2. Len(front \o a) = Len(front) + Len(a)
    BY <1>1, <2>1, ConcatProperties
  <2> QED BY <1>4, <1>5, <2>2
<1> HIDE DEF L
<1>8. ASSUME NEW j \in Nat, j > L PROVE j \in CutsOf(text) <=> j - L \in CutsOf(rest)
  BY <1>1, <1>8, CutsBehind DEF L
<1>9. L + e \in CutsOf(text)
  <2>1. L + e \in Nat /\ L + e > L /\ (L + e) - L = e
    BY <1>3
  <2> QED BY <1>2, <1>8, <2>1
<1>10. ASSUME NEW j \in CutsOf(text) PROVE j \in EndsOf(more) \/ j > L + e
  <2>1. CASE j \in EndsOf(cs)
    BY <1>5, <2>1
  <2>2. CASE j > L
    <3>1. j \in Nat
      BY DEF CutsOf
    <3>2. j - L \in CutsOf(rest)
      BY <1>8, <2>2, <3>1
    <3>3. e <= j - L
      BY <1>2, <3>2
    <3>4. j = L + e \/ j > L + e
      BY <1>3, <3>1, <3>3
    <3> QED BY <1>5, <3>4
  <2> QED BY <1>1, <2>1, <2>2
<1>11. CutInto(text, more, b)
  BY <1>1, <1>4, <1>5, <1>6, <1>7, <1>9, <1>10 DEF CutInto
<1>12. Len(b) < Len(rest)
  BY <1>3, <1>4
<1> QED BY <1>4, <1>11, <1>12 DEF more, a, b, e

\* A text all of whose cuts are at the ends of its clauses.
LEMMA CutWhole ==
  ASSUME NEW text, NEW cs, NEW rest, CutInto(text, cs, rest), CutsOf(rest) = {}
  PROVE  EndsOf(cs) = CutsOf(text)
<1>1. /\ cs \in Seq(Clauses) /\ rest \in Seq(Char) /\ text = FlattenSeq(cs) \o rest
      /\ EndsOf(cs) \subseteq CutsOf(text)
  BY DEF CutInto
<1>2. FlattenSeq(cs) \in Seq(Char)
  BY <1>1, ClausesAreTexts
<1>3. ASSUME NEW j \in CutsOf(text) PROVE j \in EndsOf(cs)
  <2> SUFFICES ASSUME j > Len(FlattenSeq(cs)) PROVE FALSE
    BY DEF CutInto
  <2>1. j \in Nat
    BY DEF CutsOf
  <2>2. j - Len(FlattenSeq(cs)) \in CutsOf(rest)
    BY <1>1, <1>2, <2>1, CutsBehind
  <2> QED BY <2>2
<1> QED BY <1>1, <1>3

\* What a loop of the chunker keeps: the clauses out that are complete, and its text.
Chunking == [out : Seq(Clauses), buf : Seq(Char)]

LEMMA RoundFields ==
  ASSUME NEW st
  PROVE  LET end == ClauseEnd(st.buf) IN
         /\ end = 0 => Round(st) = st
         /\ end # 0 => /\ Round(st).out = Append(st.out, SubSeq(st.buf, 1, end))
                       /\ Round(st).buf = SubSeq(st.buf, end + 1, Len(st.buf))
                       /\ Round(st) = [out |-> Round(st).out, buf |-> Round(st).buf]
BY DEF Round

\* A round of push leaves the text cut at cuts, and a cut less in the buffer.
LEMMA RoundCuts ==
  ASSUME NEW cs \in Seq(Clauses), NEW text, NEW st \in Chunking,
         CutInto(text, cs \o st.out, st.buf)
  PROVE  /\ Round(st) \in Chunking
         /\ CutInto(text, cs \o Round(st).out, Round(st).buf)
         /\ (Round(st) = st /\ CutsOf(st.buf) = {}) \/ Len(Round(st).buf) < Len(st.buf)
<1> DEFINE e == ClauseEnd(st.buf)
           c == SubSeq(st.buf, 1, e)
           b == SubSeq(st.buf, e + 1, Len(st.buf))
<1>1. st.out \in Seq(Clauses) /\ st.buf \in Seq(Char)
  <2> HIDE DEF Clauses
  <2> QED BY DEF Chunking
<1>2. CASE e = 0
  <2>1. Round(st) = st
    BY <1>2, RoundFields
  <2>2. CutsOf(st.buf) = {}
    BY <1>1, <1>2, ClauseEndsAtCut
  <2> HIDE DEF CutInto, Chunking
  <2> QED BY <2>1, <2>2
<1>3. CASE e # 0
  <2>1. /\ Round(st).out = Append(st.out, c) /\ Round(st).buf = b
        /\ Round(st) = [out |-> Append(st.out, c), buf |-> b]
    BY <1>3, RoundFields
  <2>2. /\ CutInto(text, Append(cs \o st.out, c), b) /\ c \in Clauses /\ Len(b) < Len(st.buf)
    BY <1>3, CutOnce
  <2> HIDE DEF c, b, e, Clauses
  <2>3. cs \o Append(st.out, c) = Append(cs \o st.out, c) /\ Append(st.out, c) \in Seq(Clauses)
    BY <1>1, <2>2, ConcatAppend
  <2>4. b \in Seq(Char)
    BY <2>2 DEF CutInto
  <2>5. Round(st) \in Chunking
    BY <2>1, <2>3, <2>4 DEF Chunking
  <2> HIDE DEF CutInto, Chunking
  <2> QED BY <2>1, <2>2, <2>3, <2>5
<1> QED BY <1>2, <1>3

\* f has what a push has done after each round.
IsPush(f, text) ==
  f = [k \in 0..Len(text) |-> IF k = 0 THEN [out |-> << >>, buf |-> text] ELSE Round(f[k - 1])]

\* A round keeps the types.
LEMMA RoundTypes ==
  ASSUME NEW st \in Chunking
  PROVE  Round(st) \in Chunking
<1> DEFINE e == ClauseEnd(st.buf)
           c == SubSeq(st.buf, 1, e)
           b == SubSeq(st.buf, e + 1, Len(st.buf))
<1>1. st.out \in Seq(Clauses) /\ st.buf \in Seq(Char)
  <2> HIDE DEF Clauses
  <2> QED BY DEF Chunking
<1>2. CASE e = 0
  BY <1>2, RoundFields
<1>3. CASE e # 0
  <2>1. Round(st) = [out |-> Append(st.out, c), buf |-> b]
    BY <1>3, RoundFields
  <2>2. e \in 1..Len(st.buf)
    <3>1. e \in CutsOf(st.buf)
      BY <1>1, <1>3, ClauseEndsAtCut
    <3>2. Len(st.buf) \in Nat
      BY <1>1
    <3> HIDE DEF e
    <3> QED BY <3>1, <3>2 DEF CutsOf
  <2>3. c \in Clauses /\ b \in Seq(Char)
    BY <1>1, <2>2, PartsOfText
  <2> HIDE DEF c, b, Clauses
  <2>4. Append(st.out, c) \in Seq(Clauses)
    BY <1>1, <2>3
  <2> QED BY <2>1, <2>3, <2>4 DEF Chunking
<1> QED BY <1>2, <1>3

LEMMA PushRuns ==
  ASSUME NEW text \in Seq(Char)
  PROVE  \E f : IsPush(f, text) /\ Pushed(text) = f[Len(text)]
<1> DEFINE n == Len(text)
           e == [out |-> << >>, buf |-> text]
           step == [p \in Nat \X Chunking |-> Round(p[2])]
<1>1. n \in Nat /\ e \in Chunking
  <2> HIDE DEF Clauses
  <2>1. << >> \in Seq(Clauses)
    OBVIOUS
  <2> QED BY <2>1 DEF Chunking
<1> HIDE DEF e
<1>2. step \in [Nat \X Chunking -> Chunking]
  BY RoundTypes
<1>3. PICK f \in [0..n -> Chunking] : IsRun(f, e, step, n)
  <2> HIDE DEF n, step
  <2> QED BY <1>1, <1>2, LoopRuns
<1>4. ASSUME NEW k \in 0..n
      PROVE  f[k] = IF k = 0 THEN e ELSE Round(f[k - 1])
  <2>1. CASE k = 0
    BY <1>3, <2>1 DEF IsRun
  <2>2. CASE k # 0
    <3>1. k \in 1..n /\ k \in Nat /\ k - 1 \in 0..n
      BY <2>2
    <3>2. f[k] = step[<<k, f[k - 1]>>]
      <4> HIDE DEF step, n
      <4> QED BY <1>3, <3>1 DEF IsRun
    <3>3. f[k - 1] \in Chunking
      <4> HIDE DEF step, n
      <4> QED BY <3>1
    <3> QED BY <2>2, <3>1, <3>2, <3>3
  <2> QED BY <2>1, <2>2
<1>5. IsPush(f, text)
  BY <1>4 DEF IsPush, e
<1>6. Pushed(text) = (CHOOSE g : IsPush(g, text))[n]
  BY DEF Pushed, IsPush
<1>7. IsPush(CHOOSE g : IsPush(g, text), text)
  BY <1>5
<1> QED BY <1>6, <1>7

\* push cuts the buffer at each of its cuts.
LEMMA PushCuts ==
  ASSUME NEW cs \in Seq(Clauses), NEW text, NEW rest, CutInto(text, cs, rest)
  PROVE  /\ Pushed(rest) \in Chunking
         /\ CutInto(text, cs \o Pushed(rest).out, Pushed(rest).buf)
         /\ CutsOf(Pushed(rest).buf) = {}
<1> DEFINE n == Len(rest)
           e == [out |-> << >>, buf |-> rest]
<1>1. rest \in Seq(Char) /\ n \in Nat
  BY DEF CutInto
<1>2. PICK f : IsPush(f, rest) /\ Pushed(rest) = f[n]
  BY <1>1, PushRuns
<1>3. f[0] = e /\ \A k \in 0..n : k # 0 => f[k] = Round(f[k - 1])
  <2>1. f = [k \in 0..n |-> IF k = 0 THEN e ELSE Round(f[k - 1])]
    BY <1>2 DEF IsPush
  <2>2. 0 \in 0..n
    BY <1>1
  <2> HIDE DEF n, e
  <2>3. ASSUME NEW k \in 0..n PROVE f[k] = IF k = 0 THEN e ELSE Round(f[k - 1])
    BY <2>1
  <2> QED BY <2>2, <2>3
<1> DEFINE Good(st, k) ==
             /\ st \in Chunking
             /\ CutInto(text, cs \o st.out, st.buf)
             /\ CutsOf(st.buf) = {} \/ Len(st.buf) <= n - k
           T == {m \in Nat : m <= n => Good(f[m], m)}
<1>4. 0 \in T
  <2> HIDE DEF Clauses
  <2>1. << >> \in Seq(Clauses) /\ cs \o << >> = cs
    OBVIOUS
  <2>2. e \in Chunking /\ e.out = << >> /\ e.buf = rest
    BY <1>1, <2>1 DEF Chunking
  <2> HIDE DEF e
  <2>3. Good(e, 0)
    BY <1>1, <2>1, <2>2
  <2> HIDE DEF Good
  <2> QED BY <1>3, <2>3
<1>5. ASSUME NEW m \in Nat, m \in T PROVE m + 1 \in T
  <2> SUFFICES ASSUME m + 1 <= n PROVE Good(f[m + 1], m + 1)
    OBVIOUS
  <2>1. Good(f[m], m)
    <3> HIDE DEF Good, n
    <3> QED BY <1>1, <1>5
  <2>2. f[m + 1] = Round(f[m])
    <3>1. m + 1 \in 0..n /\ m + 1 # 0 /\ (m + 1) - 1 = m
      BY <1>1
    <3> HIDE DEF n
    <3> QED BY <1>3, <3>1
  <2> DEFINE st == f[m]
  <2> HIDE DEF st
  <2>3. /\ Round(st) \in Chunking
        /\ CutInto(text, cs \o Round(st).out, Round(st).buf)
        /\ (Round(st) = st /\ CutsOf(st.buf) = {}) \/ Len(Round(st).buf) < Len(st.buf)
    <3>1. st \in Chunking /\ CutInto(text, cs \o st.out, st.buf)
      BY <2>1 DEF st
    <3> HIDE DEF Chunking, CutInto, Clauses
    <3> QED BY <3>1, RoundCuts
  <2>4. CutsOf(Round(st).buf) = {} \/ Len(Round(st).buf) <= n - (m + 1)
    <3>1. Round(st) = st /\ CutsOf(st.buf) = {} => CutsOf(Round(st).buf) = {}
      OBVIOUS
    <3>2. CutsOf(st.buf) = {} => Round(st) = st
      <4>1. st.buf \in Seq(Char)
        <5> HIDE DEF Clauses
        <5> QED BY <2>1 DEF st, Chunking
      <4>2. CutsOf(st.buf) = {} => ClauseEnd(st.buf) = 0
        BY <4>1, ClauseEndsAtCut
      <4> QED BY <4>2, RoundFields
    <3>3. CutsOf(st.buf) = {} \/ Len(st.buf) <= n - m
      BY <2>1 DEF st
    <3>4. Len(st.buf) \in Nat /\ Len(Round(st).buf) \in Nat
      <4> HIDE DEF Clauses
      <4>1. st.buf \in Seq(Char) /\ Round(st).buf \in Seq(Char)
        BY <2>1, <2>3 DEF st, Chunking
      <4> QED BY <4>1
    <3> DEFINE a == Len(st.buf)
               b == Len(Round(st).buf)
    <3> HIDE DEF a, b, n
    <3>5. a <= n - m /\ b < a => b <= n - (m + 1)
      BY <1>1, <3>4 DEF a, b
    <3> QED BY <2>3, <3>1, <3>2, <3>3, <3>5 DEF a, b
  <2> HIDE DEF CutInto, Chunking, n
  <2> QED BY <2>2, <2>3, <2>4 DEF st
<1>6. Good(f[n], n)
  <2>1. Nat \subseteq T
    <3> HIDE DEF T
    <3> QED BY <1>4, <1>5, InductionOverNat
  <2> HIDE DEF Good
  <2> QED BY <1>1, <2>1
<1>7. CutsOf(f[n].buf) = {}
  <2>1. CASE Len(f[n].buf) <= n - n
    <3>1. f[n].buf \in Seq(Char)
      <4> HIDE DEF Clauses, n
      <4> QED BY <1>6 DEF Chunking
    <3> DEFINE t == f[n].buf
    <3> HIDE DEF t
    <3>2. t \in Seq(Char) /\ Len(t) = 0
      BY <1>1, <2>1, <3>1 DEF t
    <3>3. CutsOf(t) = {}
      BY <3>2 DEF CutsOf
    <3> QED BY <3>3 DEF t
  <2> QED BY <1>6, <2>1
<1> HIDE DEF CutInto, Chunking
<1> QED BY <1>2, <1>6, <1>7

LEMMA CutNothing ==
  ASSUME NEW text \in Seq(Char)
  PROVE  CutInto(text, << >>, text)
<1> HIDE DEF Clauses
<1>1. << >> \in Seq(Clauses) /\ Len(<< >>) = 0 /\ << >> \o text = text
  OBVIOUS
<1>2. EndsOf(<< >>) = {}
  BY <1>1 DEF EndsOf
<1>3. \A j \in CutsOf(text) : j > 0
  BY DEF CutsOf
<1> QED BY <1>1, <1>2, <1>3, JoinEmpty DEF CutInto

LEMMA PushTypes ==
  ASSUME NEW text \in Seq(Char)
  PROVE  Pushed(text) \in Chunking
<1>1. << >> \in Seq(Clauses)
  <2> HIDE DEF Clauses
  <2> QED OBVIOUS
<1> HIDE DEF Clauses
<1> QED BY <1>1, CutNothing, PushCuts

\* More text behind does not undo a cut, nor make one before the last clause ends.
LEMMA CutOn ==
  ASSUME NEW text, NEW cs, NEW rest, NEW delta \in Seq(Char), CutInto(text, cs, rest)
  PROVE  CutInto(text \o delta, cs, rest \o delta)
<1> DEFINE front == FlattenSeq(cs)
           L == Len(front)
           longer == text \o delta
<1>1. /\ cs \in Seq(Clauses) /\ rest \in Seq(Char) /\ text = front \o rest
      /\ EndsOf(cs) \subseteq CutsOf(text)
      /\ \A j \in CutsOf(text) : j \in EndsOf(cs) \/ j > L
  BY DEF CutInto
<1>2. front \in Seq(Char)
  BY <1>1, ClausesAreTexts
<1>3. cs # << >> => L \in EndsOf(cs)
  BY <1>1, LastEnd
<1>4. cs = << >> => front = << >>
  BY JoinEmpty
<1> HIDE DEF front, Clauses
<1>5. text \in Seq(Char) /\ rest \o delta \in Seq(Char) /\ longer = front \o (rest \o delta)
  <2>1. (front \o rest) \o delta = front \o (rest \o delta)
    BY <1>1, <1>2, ConcatAssociative
  <2> QED BY <1>1, <1>2, <2>1
<1>6. /\ longer \in Seq(Char) /\ Len(longer) = Len(text) + Len(delta)
      /\ \A k \in 1..Len(text) + Len(delta) :
           longer[k] = IF k <= Len(text) THEN text[k] ELSE delta[k - Len(text)]
      /\ Len(text) \in Nat /\ Len(delta) \in Nat /\ L \in Nat
  BY <1>2, <1>5, ConcatProperties
<1> HIDE DEF longer, L
<1>7. ASSUME NEW j \in 1..Len(text) - 1
      PROVE  j \in CutsOf(longer) <=> j \in CutsOf(text)
  <2>1. longer[j] = text[j] /\ longer[j + 1] = text[j + 1] /\ j \in 1..Len(longer) - 1
    BY <1>6
  <2> QED BY <2>1 DEF CutsOf
<1>8. CutsOf(text) \subseteq CutsOf(longer)
  <2>1. CutsOf(text) \subseteq 1..Len(text) - 1
    BY DEF CutsOf
  <2> QED BY <1>7, <2>1
<1>9. ASSUME NEW j \in CutsOf(longer), ~(j > L) PROVE j \in EndsOf(cs)
  <2>1. j \in Nat /\ j >= 1
    BY <1>6 DEF CutsOf
  <2>2. L # 0
    BY <1>6, <1>9, <2>1
  <2>3. L \in CutsOf(text)
    BY <1>1, <1>3, <1>4, <2>2 DEF L
  <2>4. L \in 1..Len(text) - 1
    BY <2>3 DEF CutsOf
  <2>5. j \in 1..Len(text) - 1
    BY <1>6, <1>9, <2>1, <2>4
  <2> QED BY <1>1, <1>7, <1>9, <2>5
<1>10. EndsOf(cs) \subseteq CutsOf(longer)
  BY <1>1, <1>8
<1> QED BY <1>1, <1>5, <1>9, <1>10 DEF CutInto, longer, L, front

LEMMA NextDeltaFields ==
  ASSUME NEW st, NEW delta
  PROVE  /\ NextDelta(st, delta).buf = Pushed(st.buf \o delta).buf
         /\ NextDelta(st, delta).out = st.out \o Pushed(st.buf \o delta).out
         /\ NextDelta(st, delta) = [buf |-> Pushed(st.buf \o delta).buf,
                                    out |-> st.out \o Pushed(st.buf \o delta).out]
BY DEF NextDelta

LEMMA NextDeltaTypes ==
  ASSUME NEW st \in Chunking, NEW delta \in Seq(Char)
  PROVE  NextDelta(st, delta) \in Chunking
<1> HIDE DEF Clauses
<1>1. st.out \in Seq(Clauses) /\ st.buf \in Seq(Char)
  BY DEF Chunking
<1>2. st.buf \o delta \in Seq(Char)
  BY <1>1
<1>3. Pushed(st.buf \o delta) \in Chunking
  BY <1>2, PushTypes
<1> DEFINE p == Pushed(st.buf \o delta)
<1>4. p.out \in Seq(Clauses) /\ p.buf \in Seq(Char)
  <2> HIDE DEF p
  <2>1. p \in Chunking
    BY <1>3 DEF p
  <2> QED BY <2>1 DEF Chunking
<1>5. NextDelta(st, delta) = [buf |-> p.buf, out |-> st.out \o p.out]
  BY NextDeltaFields
<1> HIDE DEF p
<1>6. st.out \o p.out \in Seq(Clauses)
  BY <1>1, <1>4
<1> QED BY <1>4, <1>5, <1>6 DEF Chunking

\* Another delta.
LEMMA DeltaCuts ==
  ASSUME NEW cs \in Seq(Clauses), NEW text, NEW st \in Chunking, NEW delta \in Seq(Char),
         CutInto(text, cs \o st.out, st.buf)
  PROVE  /\ CutInto(text \o delta, cs \o NextDelta(st, delta).out, NextDelta(st, delta).buf)
         /\ CutsOf(NextDelta(st, delta).buf) = {}
<1> DEFINE p == Pushed(st.buf \o delta)
           ds == cs \o st.out
<1> HIDE DEF Clauses
<1>1. st.out \in Seq(Clauses) /\ st.buf \in Seq(Char)
  BY DEF Chunking
<1>2. ds \in Seq(Clauses)
  BY <1>1
<1>3. CutInto(text \o delta, ds, st.buf \o delta)
  BY CutOn
<1>4. p \in Chunking /\ CutInto(text \o delta, ds \o p.out, p.buf) /\ CutsOf(p.buf) = {}
  <2> HIDE DEF ds
  <2> QED BY <1>2, <1>3, PushCuts
<1>5. NextDelta(st, delta).buf = p.buf /\ NextDelta(st, delta).out = st.out \o p.out
  BY NextDeltaFields
<1> HIDE DEF p
<1>6. ds \o p.out = cs \o (st.out \o p.out)
  <2>1. p.out \in Seq(Clauses)
    BY <1>4 DEF Chunking
  <2> DEFINE a == st.out
             b == p.out
  <2>2. a \in Seq(Clauses) /\ b \in Seq(Clauses)
    BY <1>1, <2>1
  <2> HIDE DEF a, b, ds
  <2>3. (cs \o a) \o b = cs \o (a \o b)
    BY <2>2, ConcatAssociative
  <2> QED BY <2>3 DEF a, b, ds
<1> HIDE DEF CutInto
<1> QED BY <1>4, <1>5, <1>6

\* f has what the chunker has made of the deltas, after each of them.
IsChunked(f, deltas) ==
  f = [k \in 0..Len(deltas) |->
         IF k = 0 THEN [buf |-> buf, out |-> << >>] ELSE NextDelta(f[k - 1], deltas[k])]

LEMMA ChunkedRuns ==
  ASSUME buf \in Seq(Char), NEW deltas \in Seq(Clauses)
  PROVE  \E f : IsChunked(f, deltas) /\ Chunked(deltas) = f[Len(deltas)]
<1> DEFINE n == Len(deltas)
           e == [buf |-> buf, out |-> << >>]
           step == [p \in Nat \X Chunking |->
                      IF p[1] \in 1..n THEN NextDelta(p[2], deltas[p[1]]) ELSE p[2]]
<1>1. \A k \in 1..n : deltas[k] \in Seq(Char)
  <2>1. \A k \in 1..n : deltas[k] \in Clauses
    <3> HIDE DEF Clauses
    <3> QED OBVIOUS
  <2> QED BY <2>1, ClausesAreTexts
<1> HIDE DEF Clauses
<1>2. n \in Nat /\ e \in Chunking
  <2>1. << >> \in Seq(Clauses)
    OBVIOUS
  <2> QED BY <2>1 DEF Chunking
<1> HIDE DEF e
<1>3. step \in [Nat \X Chunking -> Chunking]
  <2> SUFFICES ASSUME NEW k \in Nat, NEW st \in Chunking
               PROVE  (IF k \in 1..n THEN NextDelta(st, deltas[k]) ELSE st) \in Chunking
    OBVIOUS
  <2> HIDE DEF n
  <2> QED BY <1>1, NextDeltaTypes
<1>4. PICK f \in [0..n -> Chunking] : IsRun(f, e, step, n)
  <2> HIDE DEF n, step
  <2> QED BY <1>2, <1>3, LoopRuns
<1>5. ASSUME NEW k \in 0..n
      PROVE  f[k] = IF k = 0 THEN e ELSE NextDelta(f[k - 1], deltas[k])
  <2>1. CASE k = 0
    BY <1>4, <2>1 DEF IsRun
  <2>2. CASE k # 0
    <3>1. k \in 1..n /\ k \in Nat /\ k - 1 \in 0..n
      BY <2>2
    <3>2. f[k] = step[<<k, f[k - 1]>>]
      <4> HIDE DEF step, n
      <4> QED BY <1>4, <3>1 DEF IsRun
    <3>3. f[k - 1] \in Chunking
      <4> HIDE DEF step, n
      <4> QED BY <3>1
    <3> QED BY <2>2, <3>1, <3>2, <3>3
  <2> QED BY <2>1, <2>2
<1>6. IsChunked(f, deltas)
  BY <1>5 DEF IsChunked, e
<1>7. Chunked(deltas) = (CHOOSE g : IsChunked(g, deltas))[n]
  BY DEF Chunked, IsChunked
<1>8. IsChunked(CHOOSE g : IsChunked(g, deltas), deltas)
  BY <1>6
<1> QED BY <1>7, <1>8

\* The first deltas, and one more.
LEMMA JoinOneMore ==
  ASSUME NEW deltas \in Seq(Seq(Char)), NEW m \in Nat, m + 1 <= Len(deltas)
  PROVE  /\ FlattenSeq(SubSeq(deltas, 1, m)) \in Seq(Char) /\ deltas[m + 1] \in Seq(Char)
         /\ FlattenSeq(SubSeq(deltas, 1, m + 1))
              = FlattenSeq(SubSeq(deltas, 1, m)) \o deltas[m + 1]
<1> DEFINE B == Seq(Char)
           front == SubSeq(deltas, 1, m)
<1>1. front \in Seq(B) /\ SubSeq(deltas, 1, m + 1) = Append(front, deltas[m + 1])
      /\ deltas[m + 1] \in B
  <2>1. deltas \in Seq(B)
    OBVIOUS
  <2> HIDE DEF B
  <2> QED BY <2>1
<1> HIDE DEF front
<1>2. front \in Seq(Seq(Char)) /\ deltas[m + 1] \in Seq(Char)
  BY <1>1
<1> QED BY <1>1, <1>2, JoinAppend, JoinType DEF front

\* The deltas of a chunk are cut as one text.
LEMMA ChunkedCuts ==
  ASSUME NEW cs \in Seq(Clauses), NEW text \in Seq(Char), NEW deltas \in Seq(Clauses),
         CutInto(text, cs, buf), CutsOf(buf) = {}
  PROVE  /\ Chunked(deltas) \in Chunking
         /\ CutInto(text \o FlattenSeq(deltas), cs \o Chunked(deltas).out, Chunked(deltas).buf)
         /\ CutsOf(Chunked(deltas).buf) = {}
<1> DEFINE n == Len(deltas)
           e == [buf |-> buf, out |-> << >>]
           read(m) == FlattenSeq(SubSeq(deltas, 1, m))
<1>1. deltas \in Seq(Seq(Char))
  BY ClausesAreTexts
<1>2. buf \in Seq(Char)
  BY DEF CutInto
<1> HIDE DEF Clauses
<1>3. PICK f : IsChunked(f, deltas) /\ Chunked(deltas) = f[n]
  BY <1>2, ChunkedRuns
<1>4. /\ n \in Nat /\ f[0] = e
      /\ \A k \in 0..n : k # 0 => f[k] = NextDelta(f[k - 1], deltas[k])
  <2>1. f = [k \in 0..n |-> IF k = 0 THEN e ELSE NextDelta(f[k - 1], deltas[k])]
    BY <1>3 DEF IsChunked
  <2>2. n \in Nat /\ 0 \in 0..n
    OBVIOUS
  <2> HIDE DEF n, e
  <2>3. ASSUME NEW k \in 0..n PROVE f[k] = IF k = 0 THEN e ELSE NextDelta(f[k - 1], deltas[k])
    BY <2>1
  <2> QED BY <2>2, <2>3
<1> DEFINE Good(st, m) ==
             /\ st \in Chunking
             /\ CutInto(text \o read(m), cs \o st.out, st.buf)
             /\ CutsOf(st.buf) = {}
           T == {m \in Nat : m <= n => Good(f[m], m)}
<1>5. 0 \in T
  <2>1. << >> \in Seq(Clauses) /\ cs \o << >> = cs
    OBVIOUS
  <2>2. e \in Chunking /\ e.out = << >> /\ e.buf = buf
    BY <1>2, <2>1 DEF Chunking
  <2>3. read(0) = << >> /\ text \o << >> = text
    <3>1. SubSeq(deltas, 1, 0) = << >>
      BY SubSeqEmpty
    <3>2. text \o << >> = text
      OBVIOUS
    <3> QED BY <3>1, <3>2, JoinEmpty
  <2> HIDE DEF e, read
  <2>4. Good(e, 0)
    <3> HIDE DEF CutInto
    <3> QED BY <2>1, <2>2, <2>3
  <2> HIDE DEF Good
  <2> QED BY <1>4, <2>4
<1>6. ASSUME NEW m \in Nat, m \in T PROVE m + 1 \in T
  <2> SUFFICES ASSUME m + 1 <= n PROVE Good(f[m + 1], m + 1)
    OBVIOUS
  <2>1. Good(f[m], m)
    <3> HIDE DEF Good, n
    <3> QED BY <1>4, <1>6
  <2>2. f[m + 1] = NextDelta(f[m], deltas[m + 1])
    <3>1. m + 1 \in 0..n /\ m + 1 # 0 /\ (m + 1) - 1 = m
      BY <1>4
    <3> HIDE DEF n
    <3> QED BY <1>4, <3>1
  <2>3. read(m) \in Seq(Char) /\ deltas[m + 1] \in Seq(Char)
        /\ read(m + 1) = read(m) \o deltas[m + 1]
    BY <1>1, JoinOneMore
  <2> HIDE DEF read
  <2> DEFINE st == f[m]
             d == deltas[m + 1]
  <2> HIDE DEF st, d
  <2>4. st \in Chunking /\ CutInto(text \o read(m), cs \o st.out, st.buf) /\ d \in Seq(Char)
    BY <2>1, <2>3 DEF st, d
  <2>5. NextDelta(st, d) \in Chunking
    BY <2>4, NextDeltaTypes
  <2>6. /\ CutInto((text \o read(m)) \o d, cs \o NextDelta(st, d).out, NextDelta(st, d).buf)
        /\ CutsOf(NextDelta(st, d).buf) = {}
    BY <2>4, DeltaCuts
  <2>7. (text \o read(m)) \o d = text \o read(m + 1)
    <3> DEFINE r == read(m)
    <3>1. r \in Seq(Char) /\ read(m + 1) = r \o d
      BY <2>3 DEF d
    <3> HIDE DEF r
    <3>2. r \in Seq(Char) /\ d \in Seq(Char)
      BY <2>4, <3>1
    <3>3. (text \o r) \o d = text \o (r \o d)
      BY <3>2, ConcatAssociative
    <3> QED BY <3>1, <3>3 DEF r
  <2> HIDE DEF CutInto, Chunking
  <2>8. Good(NextDelta(st, d), m + 1)
    BY <2>5, <2>6, <2>7
  <2> QED BY <2>2, <2>8 DEF st, d
<1>7. Good(f[n], n)
  <2>1. Nat \subseteq T
    <3> HIDE DEF T
    <3> QED BY <1>5, <1>6, InductionOverNat
  <2>2. n \in T /\ n \in Nat
    <3> HIDE DEF T
    <3> QED BY <1>4, <2>1
  <2> HIDE DEF Good
  <2> QED BY <2>2
<1>8. read(n) = FlattenSeq(deltas)
  BY SubSeqFull
<1> HIDE DEF CutInto, Chunking, read
<1> QED BY <1>3, <1>7, <1>8

-----------------------------------------------------------------------------
(* What Fish is sent.                                                      *)

Texts(cs) == [i \in DOMAIN cs |-> Text(cs[i])]

\* The request, as it was written, is of clauses, which are those of the turn until the
\* request is closed. When its end was written they make up all that was read.
AskedInv ==
  \E cs \in Seq(Clauses) :
    \/ asked = Texts(cs) /\ (~closed => cs = clauses)
    \/ asked = Texts(cs) \o Ending /\ llm = "done" /\ FlattenSeq(cs) = full

LEMMA TextsConcat ==
  ASSUME NEW A, NEW cs \in Seq(A), NEW ds \in Seq(A)
  PROVE  Texts(cs \o ds) = Texts(cs) \o Texts(ds)
<1> DEFINE E == {Text(c) : c \in A}
<1>1. \A c \in A : Text(c) \in E
  OBVIOUS
<1> HIDE DEF E
<1>2. /\ Texts(cs) \in Seq(E) /\ Len(Texts(cs)) = Len(cs)
      /\ \A k \in 1..Len(cs) : Texts(cs)[k] = Text(cs[k])
  BY <1>1 DEF Texts
<1>3. /\ Texts(ds) \in Seq(E) /\ Len(Texts(ds)) = Len(ds)
      /\ \A k \in 1..Len(ds) : Texts(ds)[k] = Text(ds[k])
  BY <1>1 DEF Texts
<1> DEFINE es == cs \o ds
<1>4. /\ es \in Seq(A) /\ Len(es) = Len(cs) + Len(ds)
      /\ \A k \in 1..Len(cs) + Len(ds) : es[k] = IF k <= Len(cs) THEN cs[k] ELSE ds[k - Len(cs)]
  BY ConcatProperties
<1> HIDE DEF es
<1>5. /\ Texts(es) \in Seq(E) /\ Len(Texts(es)) = Len(es)
      /\ \A k \in 1..Len(es) : Texts(es)[k] = Text(es[k])
  BY <1>1, <1>4 DEF Texts
<1> DEFINE u == Texts(es)
           s == Texts(cs)
           t == Texts(ds)
<1> HIDE DEF u, s, t
<1>6. s \in Seq(E) /\ t \in Seq(E) /\ u \in Seq(E) /\ Len(s) = Len(cs) /\ Len(t) = Len(ds)
      /\ Len(u) = Len(cs) + Len(ds) /\ Len(cs) \in Nat /\ Len(ds) \in Nat
  BY <1>2, <1>3, <1>4, <1>5 DEF s, t, u
<1>7. /\ s \o t \in Seq(E) /\ Len(s \o t) = Len(s) + Len(t)
      /\ \A k \in 1..Len(s) + Len(t) : (s \o t)[k] = IF k <= Len(s) THEN s[k] ELSE t[k - Len(s)]
  BY <1>6, ConcatProperties
<1> DEFINE v == s \o t
<1> HIDE DEF v
<1>8. ASSUME NEW k \in 1..Len(u) PROVE u[k] = v[k]
  <2>1. u[k] = Text(es[k])
    BY <1>4, <1>5, <1>6 DEF u
  <2>2. CASE k <= Len(cs)
    <3>1. es[k] = cs[k] /\ v[k] = s[k] /\ s[k] = Text(cs[k])
      BY <1>2, <1>4, <1>6, <1>7, <2>2 DEF v, s
    <3> QED BY <2>1, <3>1
  <2>3. CASE k > Len(cs)
    <3>1. k - Len(cs) \in 1..Len(ds)
      BY <1>6, <2>3
    <3>2. es[k] = ds[k - Len(cs)]
      BY <1>4, <1>6, <2>3
    <3>3. v[k] = t[k - Len(cs)]
      BY <1>6, <1>7, <2>3 DEF v
    <3>4. t[k - Len(cs)] = Text(ds[k - Len(cs)])
      BY <1>3, <3>1 DEF t
    <3> QED BY <2>1, <3>2, <3>3, <3>4
  <2> QED BY <1>6, <2>2, <2>3
<1>9. u = v
  <2>1. v \in Seq(E) /\ Len(v) = Len(u)
    BY <1>6, <1>7 DEF v
  <2> QED BY <1>6, <1>8, <2>1, SeqEqual
<1> QED BY <1>9 DEF u, v, s, t, es

\* Nothing in front and nothing behind adds nothing.
LEMMA JoinPadded ==
  ASSUME NEW cs \in Seq(Seq(Char)), NEW s \in Seq(Seq(Char)), Len(s) = Len(cs) + 3,
         s[1] = << >>, \A k \in 1..Len(cs) : s[k + 1] = cs[k],
         s[Len(cs) + 2] = << >>, s[Len(cs) + 3] = << >>
  PROVE  FlattenSeq(s) = FlattenSeq(cs)
<1> DEFINE B == Seq(Char)
           no == << >>
           n == Len(cs)
           a == <<no>>
           b == a \o cs
           c == Append(b, no)
           d == Append(c, no)
<1>1. no \in B /\ no \in Seq(Char) /\ n \in Nat
  OBVIOUS
<1>2. s \in Seq(B) /\ cs \in Seq(B)
  OBVIOUS
<1> HIDE DEF no, B
<1>3. a \in Seq(B) /\ Len(a) = 1 /\ a[1] = no
  BY <1>1
<1> HIDE DEF a
<1>4. /\ b \in Seq(B) /\ Len(b) = 1 + n
      /\ \A k \in 1..1 + n : b[k] = IF k <= 1 THEN a[k] ELSE cs[k - 1]
  <2>1. /\ b \in Seq(B) /\ Len(b) = Len(a) + Len(cs)
        /\ \A k \in 1..Len(a) + Len(cs) : b[k] = IF k <= Len(a) THEN a[k] ELSE cs[k - Len(a)]
    BY <1>2, <1>3, ConcatProperties
  <2> HIDE DEF b
  <2> QED BY <1>3, <2>1
<1> HIDE DEF b
<1>5. /\ c \in Seq(B) /\ Len(c) = n + 2 /\ c[n + 2] = no
      /\ \A k \in 1..n + 1 : c[k] = b[k]
  <2>1. /\ c \in Seq(B) /\ Len(c) = Len(b) + 1 /\ c[Len(b) + 1] = no
        /\ \A k \in 1..Len(b) : c[k] = b[k]
    BY <1>1, <1>4, AppendAt
  <2>2. Len(b) = n + 1 /\ Len(b) + 1 = n + 2
    BY <1>1, <1>4
  <2> HIDE DEF c, n
  <2> QED BY <2>1, <2>2
<1> HIDE DEF c
<1>6. /\ d \in Seq(B) /\ Len(d) = n + 3 /\ d[n + 3] = no
      /\ \A k \in 1..n + 2 : d[k] = c[k]
  <2>1. /\ d \in Seq(B) /\ Len(d) = Len(c) + 1 /\ d[Len(c) + 1] = no
        /\ \A k \in 1..Len(c) : d[k] = c[k]
    BY <1>1, <1>5, AppendAt
  <2>2. Len(c) = n + 2 /\ Len(c) + 1 = n + 3
    BY <1>1, <1>5
  <2> HIDE DEF d, n
  <2> QED BY <2>1, <2>2
<1> HIDE DEF d
<1>7. ASSUME NEW k \in 1..n + 3 PROVE s[k] = d[k]
  <2>1. CASE k = 1
    <3> HIDE DEF n, no
    <3>1. 1 \in 1..1 + n /\ 1 \in 1..n + 1 /\ 1 \in 1..n + 2
      BY <1>1
    <3>2. d[1] = c[1] /\ c[1] = b[1] /\ b[1] = a[1]
      BY <1>4, <1>5, <1>6, <3>1
    <3> QED BY <1>3, <2>1, <3>2 DEF no
  <2>2. CASE k \in 2..n + 1
    <3>1. k - 1 \in 1..n /\ (k - 1) + 1 = k
      <4>1. n \in Nat
        BY <1>1
      <4> HIDE DEF n
      <4> QED BY <4>1, <2>2
    <3>2. s[(k - 1) + 1] = cs[k - 1]
      BY <3>1
    <3> HIDE DEF n
    <3>3. b[k] = cs[k - 1]
      <4>1. k \in 1..1 + n /\ ~(k <= 1)
        BY <1>1, <2>2
      <4> QED BY <1>4, <4>1
    <3>4. c[k] = b[k] /\ d[k] = c[k]
      BY <1>1, <1>5, <1>6, <2>2
    <3> QED BY <3>1, <3>2, <3>3, <3>4
  <2>3. CASE k = n + 2
    <3> HIDE DEF n, no
    <3>1. n + 2 \in 1..n + 2
      BY <1>1
    <3>2. d[n + 2] = c[n + 2]
      BY <1>6, <3>1
    <3>3. s[n + 2] = no
      BY DEF n, no
    <3> QED BY <1>5, <2>3, <3>2, <3>3
  <2>4. CASE k = n + 3
    BY <1>1, <1>5, <1>6, <2>4 DEF no
  <2> HIDE DEF n
  <2> QED BY <1>1, <2>1, <2>2, <2>3, <2>4
<1>8. s = d
  <2>1. Len(s) = Len(d)
    BY <1>6
  <2> QED BY <1>2, <1>6, <1>7, <2>1, SeqEqual
<1>9. FlattenSeq(d) = FlattenSeq(c) \o no /\ FlattenSeq(c) = FlattenSeq(b) \o no
  BY <1>1, <1>4, <1>5, JoinAppend DEF d, c, B
<1>10. FlattenSeq(b) = FlattenSeq(a) \o FlattenSeq(cs)
  BY <1>3, JoinConcat DEF b, B
<1>11. FlattenSeq(a) = no
  BY <1>1, JoinOne DEF a
<1>12. FlattenSeq(cs) \in Seq(Char)
  BY JoinType
<1> DEFINE t == FlattenSeq(cs)
<1>13. no \o t = t /\ t \o no = t
  <2> HIDE DEF t
  <2>1. t \in Seq(Char)
    BY <1>12 DEF t
  <2> QED BY <2>1 DEF no
<1> QED BY <1>8, <1>9, <1>10, <1>11, <1>13

\* When Fish is told to stop it has been sent all that was read.
LEMMA SpeechWhole ==
  ASSUME RequestInOrder, AskedInv, FishTypeOK
  PROVE  SpeechIsComplete
<1> SUFFICES ASSUME wire # << >>, Last(wire) = Stop
             PROVE  Joined([k \in 1..Len(wire) |->
                              IF wire[k][1] = "text" THEN wire[k][2] ELSE << >>]) = full
  BY DEF SpeechIsComplete
<1> HIDE DEF Clauses, Event
<1> DEFINE n == Len(wire)
           sent == <<Start>> \o asked
<1>1. n \in Nat /\ n # 0 /\ wire[n] = Stop
  <2>1. wire \in Seq(Event \cup {Start})
    BY DEF FishTypeOK
  <2> HIDE DEF Start
  <2> QED BY <2>1 DEF Last
<1>2. Request!Begins(wire, sent)
  BY DEF RequestInOrder
<1>3. n <= Len(sent) /\ \A k \in 1..n : wire[k] = sent[k]
  BY <1>2 DEF Request!Begins
<1>4. PICK cs \in Seq(Clauses) :
        \/ asked = Texts(cs)
        \/ asked = Texts(cs) \o Ending /\ FlattenSeq(cs) = full
  BY DEF AskedInv
<1> DEFINE m == Len(cs)
           E == Event \cup {Start}
<1>5. /\ Texts(cs) \in Seq(Event) /\ Len(Texts(cs)) = m /\ m \in Nat
      /\ \A k \in 1..m : Texts(cs)[k] = Text(cs[k])
  <2>1. Texts(cs) \in Seq(Event)
    BY TextsAreEvents DEF Texts
  <2> QED BY <2>1 DEF Texts
<1>6. /\ asked \in Seq(Event)
      /\ Len(sent) = 1 + Len(asked) /\ sent[1] = Start
      /\ \A k \in 1..Len(asked) : sent[k + 1] = asked[k]
  <2>1. asked \in Seq(Event)
    BY DEF FishTypeOK
  <2>2. asked \in Seq(E) /\ Start \in E
    <3> HIDE DEF Start
    <3>1. Event \subseteq E
      OBVIOUS
    <3> HIDE DEF E
    <3> QED BY <2>1, <3>1, SeqMonotonic DEF E
  <2> HIDE DEF E, Start
  <2>3. <<Start>> \in Seq(E) /\ Len(<<Start>>) = 1 /\ <<Start>>[1] = Start
    BY <2>2
  <2> DEFINE a == <<Start>>
  <2> HIDE DEF a
  <2>4. /\ Len(a \o asked) = Len(a) + Len(asked)
        /\ \A k \in 1..Len(a) + Len(asked) :
             (a \o asked)[k] = IF k <= Len(a) THEN a[k] ELSE asked[k - Len(a)]
    BY <2>2, <2>3, ConcatProperties DEF a
  <2>5. Len(a) = 1 /\ a[1] = Start /\ sent = a \o asked /\ Len(asked) \in Nat
    BY <2>1, <2>3 DEF a
  <2> HIDE DEF sent
  <2>6. \A k \in 1..Len(asked) : sent[k + 1] = asked[k]
    <3> SUFFICES ASSUME NEW k \in 1..Len(asked) PROVE sent[k + 1] = asked[k]
      OBVIOUS
    <3>1. k + 1 \in 1..Len(a) + Len(asked) /\ ~(k + 1 <= Len(a)) /\ (k + 1) - Len(a) = k
      BY <2>5
    <3> QED BY <2>4, <2>5, <3>1
  <2>7. sent[1] = Start /\ Len(sent) = 1 + Len(asked)
    BY <2>4, <2>5
  <2> QED BY <2>1, <2>6, <2>7
<1> HIDE DEF sent
<1>7. n - 1 \in 1..Len(asked) /\ asked[n - 1] = Stop
  <2>1. Len(asked) \in Nat
    BY <1>6
  <2>2. n # 1
    <3>1. Start # Stop
      BY DEF Start, Stop
    <3> QED BY <1>1, <1>3, <1>6, <3>1
  <2>3. n - 1 \in 1..Len(asked) /\ (n - 1) + 1 = n
    <3> HIDE DEF n
    <3>1. n <= 1 + Len(asked)
      BY <1>3, <1>6
    <3> QED BY <1>1, <2>1, <2>2, <3>1
  <2>4. wire[n] = sent[n]
    BY <1>1, <1>3
  <2>5. sent[(n - 1) + 1] = asked[n - 1]
    BY <1>6, <2>3
  <2> QED BY <1>1, <2>3, <2>4, <2>5
<1>8. \A c : Text(c) # Stop
  BY DEF Text, Stop
<1>9. asked # Texts(cs)
  BY <1>5, <1>7, <1>8
<1>10. asked = Texts(cs) \o Ending /\ FlattenSeq(cs) = full
  BY <1>4, <1>9
<1>11. /\ Len(asked) = m + 2 /\ asked[m + 1] = Flush /\ asked[m + 2] = Stop
       /\ \A k \in 1..m : asked[k] = Text(cs[k])
  <2> DEFINE s == Texts(cs)
             e == Ending
  <2>1. e \in Seq(Event) /\ Len(e) = 2 /\ e[1] = Flush /\ e[2] = Stop
    BY EndingIsEvents DEF Ending
  <2> HIDE DEF s, e, m
  <2>2. s \in Seq(Event) /\ Len(s) = m /\ m \in Nat /\ asked = s \o e
        /\ \A k \in 1..m : s[k] = Text(cs[k])
    BY <1>5, <1>10 DEF s, e
  <2>3. /\ Len(s \o e) = Len(s) + Len(e)
        /\ \A k \in 1..Len(s) + Len(e) : (s \o e)[k] = IF k <= Len(s) THEN s[k] ELSE e[k - Len(s)]
    BY <2>1, <2>2, ConcatProperties
  <2>4. /\ Len(asked) = m + 2
        /\ \A k \in 1..m + 2 : asked[k] = IF k <= m THEN s[k] ELSE e[k - m]
    BY <2>1, <2>2, <2>3
  <2>5. m + 1 \in 1..m + 2 /\ ~(m + 1 <= m) /\ (m + 1) - m = 1
        /\ m + 2 \in 1..m + 2 /\ ~(m + 2 <= m) /\ (m + 2) - m = 2
    BY <2>2
  <2>6. asked[m + 1] = e[1] /\ asked[m + 2] = e[2]
    BY <2>4, <2>5
  <2>7. \A k \in 1..m : asked[k] = Text(cs[k])
    BY <2>2, <2>4
  <2> QED BY <2>1, <2>4, <2>6, <2>7
<1>12. n = m + 3
  <2>1. Flush # Stop
    BY DEF Flush, Stop
  <2>2. n - 1 # m + 1
    BY <1>7, <1>11, <2>1
  <2>3. ~(n - 1 \in 1..m)
    BY <1>7, <1>8, <1>11
  <2> HIDE DEF m, n
  <2> QED BY <1>1, <1>5, <1>7, <1>11, <2>2, <2>3
<1> DEFINE said == [k \in 1..n |-> IF wire[k][1] = "text" THEN wire[k][2] ELSE << >>]
<1>13. /\ wire[1] = Start /\ wire[m + 2] = Flush /\ wire[m + 3] = Stop
       /\ \A k \in 1..m : wire[k + 1] = Text(cs[k])
  <2> HIDE DEF m, n
  <2>1. m \in Nat /\ 1 \in 1..n /\ m + 2 \in 1..n /\ m + 3 \in 1..n
    BY <1>5, <1>12
  <2>2. wire[1] = Start
    BY <1>3, <1>6, <2>1
  <2>3. wire[m + 2] = Flush /\ wire[m + 3] = Stop
    <3>1. m + 1 \in 1..Len(asked) /\ m + 2 \in 1..Len(asked)
          /\ (m + 1) + 1 = m + 2 /\ (m + 2) + 1 = m + 3
      BY <1>11, <2>1
    <3>2. sent[m + 2] = Flush /\ sent[m + 3] = Stop
      BY <1>6, <1>11, <3>1
    <3> QED BY <1>3, <2>1, <3>2
  <2>4. ASSUME NEW k \in 1..m PROVE wire[k + 1] = Text(cs[k])
    <3>1. k \in 1..Len(asked) /\ k + 1 \in 1..n
      BY <1>11, <1>12, <2>1
    <3> QED BY <1>3, <1>6, <1>11, <3>1
  <2> QED BY <2>2, <2>3, <2>4
<1>14. /\ Start[1] # "text" /\ Flush[1] # "text" /\ Stop[1] # "text"
       /\ \A c : Text(c)[1] = "text" /\ Text(c)[2] = c
  BY DEF Start, Flush, Stop, Text
<1>15. /\ Len(said) = m + 3 /\ said[1] = << >> /\ said[m + 2] = << >> /\ said[m + 3] = << >>
       /\ \A k \in 1..m : said[k + 1] = cs[k]
       /\ \A k \in 1..n : said[k] = << >> \/ \E j \in 1..m : said[k] = cs[j]
  <2> HIDE DEF m, n
  <2>1. m \in Nat /\ n = m + 3 /\ 1 \in 1..n /\ m + 2 \in 1..n /\ m + 3 \in 1..n
    BY <1>5, <1>12
  <2>2. Len(said) = m + 3
    BY <2>1
  <2>3. said[1] = << >> /\ said[m + 2] = << >> /\ said[m + 3] = << >>
    BY <1>13, <1>14, <2>1
  <2>4. ASSUME NEW k \in 1..m PROVE said[k + 1] = cs[k]
    <3>1. k + 1 \in 1..n
      BY <2>1
    <3> QED BY <1>13, <1>14, <3>1
  <2> HIDE DEF said
  <2>5. ASSUME NEW k \in 1..n PROVE said[k] = << >> \/ \E j \in 1..m : said[k] = cs[j]
    <3>1. CASE k \in {1, m + 2, m + 3}
      BY <2>3, <3>1
    <3>2. CASE k \notin {1, m + 2, m + 3}
      <4>1. k - 1 \in 1..m /\ (k - 1) + 1 = k
        BY <2>1, <3>2
      <4> QED BY <2>4, <4>1
    <3> QED BY <3>1, <3>2
  <2> QED BY <2>2, <2>3, <2>4, <2>5
<1>16. cs \in Seq(Seq(Char))
  BY ClausesAreTexts
<1>17. said \in Seq(Seq(Char))
  <2> DEFINE B == Seq(Char)
  <2>1. << >> \in B /\ \A j \in 1..m : cs[j] \in B
    <3>1. cs \in Seq(B)
      BY <1>16
    <3>2. << >> \in B
      OBVIOUS
    <3> HIDE DEF B
    <3> QED BY <3>1, <3>2
  <2> HIDE DEF B, m
  <2>2. \A k \in 1..n : said[k] \in B
    <3> HIDE DEF said
    <3> QED BY <1>15, <2>1
  <2>3. said \in [1..n -> B]
    BY <2>2
  <2> HIDE DEF said
  <2>4. said \in Seq(B)
    BY <1>1, <2>3
  <2> QED BY <2>4 DEF B
<1> HIDE DEF said
<1>18. FlattenSeq(said) = FlattenSeq(cs)
  BY <1>15, <1>16, <1>17, JoinPadded
<1> QED BY <1>10, <1>18 DEF Joined, said

-----------------------------------------------------------------------------
(* The turn, its clauses and its request.                                  *)

\* Of a turn that lives the clauses are cut out of what was read, and once the
\* response has ended they are all of it.
ClausesInv ==
  /\ clauses \in Seq(Clauses) /\ buf \in Seq(Char) /\ full \in Seq(Char)
  /\ live => llm \in {"reading", "done"}
  /\ live /\ llm = "reading" => CutInto(full, clauses, buf) /\ CutsOf(buf) = {}
  /\ live /\ llm = "done" =>
       /\ full = FlattenSeq(clauses)
       /\ EndsOf(clauses) = CutsOf(full) \cup ({Len(full)} \ {0})

\* What else a state of the turn is.
TurnInv ==
  /\ llm \in {"reading", "done", "failed", "aborted"}
  /\ live \in BOOLEAN
  /\ Len(content) <= MaxLines
  /\ body # << >> => llm # "done"

ReplyInv == ResponseInv /\ ClausesInv /\ TurnInv /\ AskedInv

LEMMA NoTexts == Texts(<< >>) = << >>
BY DEF Texts

LEMMA ReplyBegins == Init => ReplyInv /\ FishInit
<1> SUFFICES ASSUME Init PROVE ReplyInv
  BY DEF Init
<1>1. PICK n \in 1..MaxLines, terminated \in BOOLEAN :
        content \in [1..n -> Tokens \cup {<< >>}] /\ body = BodyOf(n, terminated)
  BY DEF Init
<1>2. /\ arrived = << >> /\ llm = "reading" /\ pending = << >> /\ full = << >>
      /\ live = TRUE /\ buf = << >> /\ clauses = << >> /\ asked = << >>
  BY DEF Init, FishInit
<1>3. ResponseInv
  BY <1>1, <1>2, ResponseBegins
<1>4. << >> \in Seq(Clauses) /\ << >> \in Seq(Char)
  <2> HIDE DEF Clauses
  <2> QED OBVIOUS
<1> HIDE DEF Clauses
<1>5. ClausesInv
  <2>1. CutInto(<< >>, << >>, << >>)
    BY <1>4, CutNothing
  <2>2. CutsOf(<< >>) = {}
    BY DEF CutsOf
  <2> QED BY <1>2, <1>4, <2>1, <2>2 DEF ClausesInv
<1>6. TurnInv
  <2>1. MaxLines \in Nat
    BY ReplyTextAssumption
  <2>2. Len(content) = n
    BY <1>1, <2>1
  <2> QED BY <1>2, <2>1, <2>2 DEF TurnInv
<1>7. AskedInv
  BY <1>2, <1>4, NoTexts DEF AskedInv
<1> QED BY <1>3, <1>5, <1>6, <1>7 DEF ReplyInv

\* The clauses a chunk or the end of the response adds are written to the request.
LEMMA WritesClauses ==
  ASSUME AskedInv, clauses \in Seq(Clauses), llm = "reading", ~closed,
         NEW cs \in Seq(Clauses)
  PROVE  Texts(clauses \o cs) = asked \o Texts(cs)
<1> HIDE DEF Clauses
<1>1. asked = Texts(clauses)
  BY DEF AskedInv
<1>2. Texts(clauses \o cs) = Texts(clauses) \o Texts(cs)
  BY TextsConcat
<1> QED BY <1>1, <1>2

\* A chunk is read.
LEMMA ReadStep ==
  ASSUME ReplyInv, NEW n \in 1..Len(body), ReadChunk(n)
  PROVE  ReplyInv' /\ [FishNext]_fishVars
<1> DEFINE deltas == Deltas(Lines(pending \o SubSeq(body, 1, n)), content)
           chunk == Chunked(deltas)
<1> HIDE DEF Clauses
<1>1. /\ ResponseInv' /\ deltas \in Seq(Clauses) /\ full \in Seq(Char)
  BY ChunkReads DEF ReplyInv
<1>2. /\ llm = "reading" /\ llm' = llm /\ live' = live /\ content' = content
      /\ full' = full \o FlattenSeq(deltas)
      /\ IF live
           THEN /\ buf' = chunk.buf
                /\ clauses' = clauses \o chunk.out
                /\ PushTexts(chunk.out)
           ELSE UNCHANGED <<fishVars, buf, clauses>>
  BY DEF ReadChunk, Joined
<1> HIDE DEF deltas, chunk
<1>3. TurnInv'
  BY <1>2 DEF ReplyInv, TurnInv
<1>4. full' \in Seq(Char)
  <2>1. FlattenSeq(deltas) \in Seq(Char)
    BY <1>1, ClausesAreTexts
  <2> QED BY <1>1, <1>2, <2>1
<1>5. CASE live
  <2>1. /\ clauses \in Seq(Clauses) /\ CutInto(full, clauses, buf) /\ CutsOf(buf) = {}
    BY <1>2, <1>5 DEF ReplyInv, ClausesInv
  <2>2. /\ chunk \in Chunking
        /\ CutInto(full \o FlattenSeq(deltas), clauses \o chunk.out, chunk.buf)
        /\ CutsOf(chunk.buf) = {}
    BY <1>1, <2>1, ChunkedCuts DEF chunk
  <2>3. chunk.out \in Seq(Clauses) /\ chunk.buf \in Seq(Char)
    BY <2>2 DEF Chunking
  <2>4. clauses' \in Seq(Clauses) /\ buf' \in Seq(Char)
    <3> DEFINE out == chunk.out
    <3>1. out \in Seq(Clauses) /\ clauses' = clauses \o out /\ buf' = chunk.buf
      BY <1>2, <1>5, <2>3
    <3> HIDE DEF out
    <3>2. clauses \o out \in Seq(Clauses)
      BY <2>1, <3>1
    <3> QED BY <2>3, <3>1, <3>2
  <2>5. CutInto(full', clauses', buf') /\ CutsOf(buf') = {}
    <3> HIDE DEF CutInto
    <3> QED BY <1>2, <1>5, <2>2
  <2>6. ClausesInv'
    <3> HIDE DEF CutInto
    <3>1. CutsOf(buf)' = {} /\ CutInto(full, clauses, buf)'
      BY <2>5 DEF CutInto, CutsOf, EndsOf
    <3> QED BY <1>2, <1>4, <1>5, <2>4, <3>1 DEF ClausesInv
  <2>7. AskedInv'
    <3>1. PushTexts(chunk.out) /\ clauses' = clauses \o chunk.out
      BY <1>2, <1>5
    <3>2. asked' = (IF closed THEN asked ELSE asked \o Texts(chunk.out)) /\ closed' = closed
      BY <3>1 DEF PushTexts, Write, Texts
    <3>3. CASE closed
      <4>1. PICK cs \in Seq(Clauses) : asked = Texts(cs)
        BY <1>2 DEF ReplyInv, AskedInv
      <4>2. asked' = Texts(cs) /\ closed'
        BY <3>2, <3>3, <4>1
      <4> QED BY <4>1, <4>2 DEF AskedInv, Texts
    <3>4. CASE ~closed
      <4>1. Texts(clauses \o chunk.out) = asked \o Texts(chunk.out)
        BY <1>2, <2>1, <2>3, <3>4, WritesClauses DEF ReplyInv
      <4>2. asked' = Texts(clauses')
        BY <3>1, <3>2, <3>4, <4>1
      <4> QED BY <2>4, <4>2 DEF AskedInv, Texts
    <3> QED BY <3>3, <3>4
  <2>8. FishNext
    BY <1>2, <1>5, <2>3 DEF FishNext
  <2> QED BY <1>1, <1>3, <2>6, <2>7, <2>8 DEF ReplyInv
<1>6. CASE ~live
  <2>1. UNCHANGED <<fishVars, buf, clauses>>
    BY <1>2, <1>6
  <2>2. ClausesInv'
    BY <1>2, <1>4, <1>6, <2>1 DEF ReplyInv, ClausesInv
  <2>3. AskedInv'
    <3>1. asked' = asked /\ closed' = closed /\ clauses' = clauses
      BY <2>1 DEF fishVars
    <3>2. PICK cs \in Seq(Clauses) : asked = Texts(cs) /\ (~closed => cs = clauses)
      BY <1>2 DEF ReplyInv, AskedInv
    <3>3. asked' = Texts(cs) /\ (~closed' => cs = clauses')
      BY <3>1, <3>2
    <3> QED BY <3>2, <3>3 DEF AskedInv, Texts
  <2> QED BY <1>1, <1>3, <2>1, <2>2, <2>3 DEF ReplyInv
<1> QED BY <1>5, <1>6

\* Nothing more of the response is read.
LEMMA ResponseStays ==
  ASSUME ResponseInv, UNCHANGED <<content, body, arrived, pending, full>>
  PROVE  ResponseInv'
BY DEF ResponseInv

\* The rest of a text is one more clause, if there is any.
LEMMA FlushCuts ==
  ASSUME NEW text, NEW cs, NEW rest, CutInto(text, cs, rest), CutsOf(rest) = {}
  PROVE  /\ Flushed(rest) \in Seq(Clauses) /\ cs \o Flushed(rest) \in Seq(Clauses)
         /\ text = FlattenSeq(cs \o Flushed(rest))
         /\ EndsOf(cs \o Flushed(rest)) = CutsOf(text) \cup ({Len(text)} \ {0})
<1> DEFINE front == FlattenSeq(cs)
<1>1. /\ cs \in Seq(Clauses) /\ rest \in Seq(Char) /\ text = front \o rest
      /\ EndsOf(cs) \subseteq CutsOf(text)
  BY DEF CutInto
<1>2. front \in Seq(Char)
  BY <1>1, ClausesAreTexts
<1>3. EndsOf(cs) = CutsOf(text)
  BY CutWhole
<1>4. CASE rest = << >>
  <2> HIDE DEF Clauses
  <2>1. Flushed(rest) = << >> /\ << >> \in Seq(Clauses) /\ cs \o << >> = cs
    BY <1>1, <1>4 DEF Flushed
  <2>2. text = front
    <3> HIDE DEF front
    <3> QED BY <1>1, <1>2, <1>4
  <2>3. Len(text) = 0
    <3> SUFFICES ASSUME cs # << >> PROVE FALSE
      BY <2>2, JoinEmpty
    <3>1. Len(front) \in EndsOf(cs)
      BY <1>1, LastEnd
    <3>2. Len(text) \in CutsOf(text)
      BY <1>3, <2>2, <3>1
    <3>3. Len(text) \in Nat
      <4> HIDE DEF front
      <4> QED BY <1>2, <2>2
    <3> HIDE DEF front
    <3> QED BY <3>2, <3>3 DEF CutsOf
  <2> QED BY <1>1, <1>3, <2>1, <2>2, <2>3
<1>5. CASE rest # << >>
  <2>1. rest \in Clauses /\ Flushed(rest) = <<rest>>
    BY <1>1, <1>5 DEF Clauses, Flushed
  <2>2. cs \o <<rest>> = Append(cs, rest) /\ <<rest>> \in Seq(Clauses)
    <3> HIDE DEF Clauses
    <3> QED BY <1>1, <2>1
  <2>3. /\ Append(cs, rest) \in Seq(Clauses) /\ FlattenSeq(Append(cs, rest)) = front \o rest
        /\ EndsOf(Append(cs, rest)) = EndsOf(cs) \cup {Len(front) + Len(rest)}
    BY <1>1, <2>1, EndsOfAppend
  <2>4. Len(text) = Len(front) + Len(rest) /\ Len(text) # 0
    <3> HIDE DEF front
    <3>1. Len(front \o rest) = Len(front) + Len(rest) /\ Len(front) \in Nat /\ Len(rest) \in Nat
      BY <1>1, <1>2, ConcatProperties
    <3>2. Len(rest) # 0
      BY <1>1, <1>5
    <3> QED BY <1>1, <3>1, <3>2
  <2> HIDE DEF Clauses, front
  <2> QED BY <1>1, <1>3, <2>1, <2>2, <2>3, <2>4
<1> QED BY <1>4, <1>5

\* The response ends.
LEMMA EndStep ==
  ASSUME ReplyInv, StreamEnds
  PROVE  ReplyInv' /\ [FishNext]_fishVars
<1> DEFINE last == Flushed(buf)
<1> HIDE DEF Clauses
<1>1. /\ llm = "reading" /\ body = << >> /\ llm' = "done"
      /\ UNCHANGED <<content, body, arrived, pending, full, live>>
      /\ IF live
           THEN /\ clauses' = clauses \o last
                /\ buf' = << >>
                /\ EndInput(last)
           ELSE UNCHANGED <<fishVars, buf, clauses>>
  BY DEF StreamEnds
<1> HIDE DEF last
<1>2. ResponseInv'
  BY <1>1, ResponseStays DEF ReplyInv
<1>3. TurnInv'
  BY <1>1 DEF ReplyInv, TurnInv
<1>4. CASE live
  <2>1. clauses \in Seq(Clauses) /\ full \in Seq(Char) /\ CutInto(full, clauses, buf)
        /\ CutsOf(buf) = {}
    BY <1>1, <1>4 DEF ReplyInv, ClausesInv
  <2>2. /\ last \in Seq(Clauses) /\ clauses \o last \in Seq(Clauses)
        /\ full = FlattenSeq(clauses \o last)
        /\ EndsOf(clauses \o last) = CutsOf(full) \cup ({Len(full)} \ {0})
    BY <2>1, FlushCuts DEF last
  <2>3. << >> \in Seq(Char)
    OBVIOUS
  <2>4. ClausesInv'
    <3>1. clauses' \in Seq(Clauses) /\ buf' \in Seq(Char) /\ full' \in Seq(Char)
      BY <1>1, <1>4, <2>1, <2>2, <2>3
    <3>2. full' = FlattenSeq(clauses')
      BY <1>1, <1>4, <2>2
    <3>3. EndsOf(clauses') = CutsOf(full') \cup ({Len(full')} \ {0})
      BY <1>1, <1>4, <2>2
    <3>4. llm' = "done"
      BY <1>1
    <3> QED BY <3>1, <3>2, <3>3, <3>4 DEF ClausesInv, EndsOf, CutsOf
  <2>5. AskedInv'
    <3>1. EndInput(last) /\ clauses' = clauses \o last
      BY <1>1, <1>4
    <3>2. /\ asked' = (IF closed THEN asked ELSE asked \o (Texts(last) \o Ending))
          /\ closed' = closed
      BY <3>1 DEF EndInput, Write, Texts
    <3>3. CASE closed
      <4>1. PICK cs \in Seq(Clauses) : asked = Texts(cs)
        BY <1>1 DEF ReplyInv, AskedInv
      <4>2. asked' = Texts(cs) /\ closed'
        BY <3>2, <3>3, <4>1
      <4> QED BY <4>1, <4>2 DEF AskedInv, Texts
    <3>4. CASE ~closed
      <4>1. Texts(clauses \o last) = asked \o Texts(last)
        BY <1>1, <2>1, <2>2, <3>4, WritesClauses DEF ReplyInv
      <4>2. asked \o (Texts(last) \o Ending) = (asked \o Texts(last)) \o Ending
        <5>1. Texts(clauses) \in Seq(Event) /\ Texts(last) \in Seq(Event)
          BY <2>1, <2>2, TextsAreEvents DEF Texts
        <5>2. asked = Texts(clauses)
          BY <1>1, <3>4 DEF ReplyInv, AskedInv
        <5>3. Ending \in Seq(Event) /\ asked \in Seq(Event)
          BY <5>1, <5>2, EndingIsEvents
        <5> DEFINE s == Texts(last)
                   e == Ending
        <5>4. s \in Seq(Event) /\ e \in Seq(Event) /\ asked \in Seq(Event)
          BY <5>1, <5>3
        <5> HIDE DEF s, e, Event
        <5>5. (asked \o s) \o e = asked \o (s \o e)
          BY <5>4, ConcatAssociative
        <5> QED BY <5>5 DEF s, e
      <4>3. asked' = Texts(clauses') \o Ending
        BY <3>1, <3>2, <3>4, <4>1, <4>2
      <4>4. FlattenSeq(clauses') = full' /\ llm' = "done" /\ clauses' \in Seq(Clauses)
        BY <1>1, <1>4, <2>2
      <4> QED BY <4>3, <4>4 DEF AskedInv, Texts
    <3> QED BY <3>3, <3>4
  <2>6. FishNext
    BY <1>1, <1>4, <2>2 DEF FishNext
  <2> QED BY <1>2, <1>3, <2>4, <2>5, <2>6 DEF ReplyInv
<1>5. CASE ~live
  <2>1. UNCHANGED <<fishVars, buf, clauses>>
    BY <1>1, <1>5
  <2>2. ClausesInv'
    BY <1>1, <1>5, <2>1 DEF ReplyInv, ClausesInv
  <2>3. AskedInv'
    <3>1. asked' = asked /\ closed' = closed /\ clauses' = clauses
      BY <2>1 DEF fishVars
    <3>2. PICK cs \in Seq(Clauses) : asked = Texts(cs) /\ (~closed => cs = clauses)
      BY <1>1 DEF ReplyInv, AskedInv
    <3>3. asked' = Texts(cs) /\ (~closed' => cs = clauses')
      BY <3>1, <3>2
    <3> QED BY <3>2, <3>3 DEF AskedInv, Texts
  <2> QED BY <1>2, <1>3, <2>1, <2>2, <2>3 DEF ReplyInv
<1> QED BY <1>4, <1>5

\* What else may happen to a turn: it may die, its LLM stop and its request close, but
\* no text moves.
LEMMA OtherStep ==
  ASSUME ReplyInv, UNCHANGED <<content, body, arrived, pending, full, buf, clauses, asked>>,
         live' \in {live, FALSE}, closed => closed',
         llm' = llm \/ (llm = "reading" /\ llm' \in {"failed", "aborted"} /\ ~live')
  PROVE  ReplyInv'
<1>1. ResponseInv'
  BY ResponseStays DEF ReplyInv
<1>2. TurnInv'
  BY DEF ReplyInv, TurnInv
<1>3. ClausesInv'
  <2> HIDE DEF Clauses
  <2>1. live' => live /\ llm' = llm
    BY DEF ReplyInv, TurnInv
  <2> QED BY <2>1 DEF ReplyInv, ClausesInv, CutInto, CutsOf, EndsOf
<1>4. AskedInv'
  <2> HIDE DEF Clauses
  <2>1. PICK cs \in Seq(Clauses) :
          \/ asked = Texts(cs) /\ (~closed => cs = clauses)
          \/ asked = Texts(cs) \o Ending /\ llm = "done" /\ FlattenSeq(cs) = full
    BY DEF ReplyInv, AskedInv
  <2>2. \/ asked' = Texts(cs) /\ (~closed' => cs = clauses')
        \/ asked' = Texts(cs) \o Ending /\ llm' = "done" /\ FlattenSeq(cs) = full'
    BY <2>1
  <2> QED BY <2>1, <2>2 DEF AskedInv, Texts
<1> QED BY <1>1, <1>2, <1>3, <1>4 DEF ReplyInv

\* Every step keeps the invariant, and is a step of the request or none.
LEMMA ReplyStep ==
  ASSUME ReplyInv, [Next]_vars
  PROVE  ReplyInv' /\ [FishNext]_fishVars
<1>1. ReplyInv => live \in BOOLEAN
  BY DEF ReplyInv, TurnInv
<1>2. CASE Read
  BY <1>2, ReadStep DEF Read
<1>3. CASE StreamEnds
  BY <1>3, EndStep
<1>4. CASE StreamFails
  <2>1. /\ UNCHANGED <<content, body, arrived, pending, full, buf, clauses>>
        /\ llm = "reading" /\ llm' = "failed" /\ live' = FALSE
        /\ (Hangup \/ UNCHANGED fishVars)
    BY <1>4 DEF StreamFails
  <2>2. asked' = asked /\ (closed => closed')
    BY <2>1 DEF Hangup, CloseFish, fishVars
  <2>3. [FishNext]_fishVars
    BY <2>1 DEF FishNext
  <2> QED BY <2>1, <2>2, <2>3, OtherStep
<1>5. CASE Cancelled
  <2>1. /\ UNCHANGED <<content, body, arrived, pending, full, buf, clauses>>
        /\ live' = FALSE /\ Hangup
        /\ llm' = llm \/ (llm = "reading" /\ llm' = "aborted")
    BY <1>5 DEF Cancelled
  <2>2. asked' = asked /\ (closed => closed')
    BY <2>1 DEF Hangup, CloseFish
  <2>3. [FishNext]_fishVars
    BY <2>1 DEF FishNext
  <2> QED BY <2>1, <2>2, <2>3, OtherStep
<1>6. CASE FishConnects
  <2>1. FishOpens /\ UNCHANGED <<content, body, arrived, llm, pending, full, live, buf, clauses>>
    BY <1>6 DEF FishConnects, llmVars
  <2>2. asked' = asked /\ closed' = closed
    BY <2>1 DEF FishOpens
  <2>3. [FishNext]_fishVars
    BY <2>1 DEF FishNext
  <2> QED BY <2>1, <2>2, <2>3, OtherStep
<1>7. CASE FishEnds
  <2>1. /\ UNCHANGED <<content, body, arrived, llm, pending, full, buf, clauses>>
        /\ live' \in {live, FALSE}
        /\ FishFinishes("finished") \/ FishFinishes("failed") \/ FishFails
    BY <1>7 DEF FishEnds, llmVars
  <2>2. asked' = asked /\ (closed => closed')
    BY <2>1 DEF FishFinishes, FishFails
  <2>3. [FishNext]_fishVars
    BY <2>1 DEF FishNext
  <2> QED BY <2>1, <2>2, <2>3, OtherStep
<1>8. CASE FishLeaves
  <2>1. FishGone /\ UNCHANGED <<content, body, arrived, llm, pending, full, live, buf, clauses>>
    BY <1>8 DEF FishLeaves, llmVars
  <2>2. asked' = asked /\ closed' = closed
    BY <2>1 DEF FishGone
  <2>3. [FishNext]_fishVars
    BY <2>1 DEF FishNext
  <2> QED BY <2>1, <2>2, <2>3, OtherStep
<1>9. CASE UNCHANGED vars
  <2>1. /\ UNCHANGED <<content, body, arrived, llm, pending, full, live, buf, clauses>>
        /\ UNCHANGED fishVars
    BY <1>9 DEF vars, llmVars
  <2>2. asked' = asked /\ closed' = closed
    BY <2>1 DEF fishVars
  <2> QED BY <2>1, <2>2, OtherStep
<1> QED BY <1>2, <1>3, <1>4, <1>5, <1>6, <1>7, <1>8, <1>9 DEF Next

\* The invariant of the text path: the response is read whole, the clauses are cut out
\* of what was read, and the request is of these clauses.
THEOREM ReplyStays == Spec => []ReplyInv
<1>1. Init => ReplyInv
  BY ReplyBegins
<1>2. ReplyInv /\ [Next]_vars => ReplyInv'
  BY ReplyStep
<1> QED BY <1>1, <1>2, PTL DEF Spec

\* Whatever the text path does is a behaviour of openFishTurn, so that what holds of
\* every request holds of the reply's.
THEOREM ReplyIsRequest == Spec => FishSpec
<1>1. Init => FishInit
  BY ReplyBegins
<1>2. ReplyInv /\ [Next]_vars => [FishNext]_fishVars
  BY ReplyStep
<1> QED BY <1>1, <1>2, ReplyStays, PTL DEF Spec, FishSpec

\* However the response is cut into chunks, what was read of it is what the lines
\* carry whose newlines have arrived (streamLLM).
THEOREM StreamIsReadWhole == Spec => []StreamReadWhole
<1>1. ReplyInv => StreamReadWhole
  BY ReadWhole DEF ReplyInv
<1> QED BY <1>1, ReplyStays, PTL

LEMMA FrontIsPrefix ==
  ASSUME NEW front \in Seq(Char), NEW rest \in Seq(Char)
  PROVE  IsPrefix(front, front \o rest)
<1> DEFINE t == front \o rest
           n == Len(front)
<1>1. /\ t \in Seq(Char) /\ Len(t) = n + Len(rest) /\ n \in Nat /\ Len(rest) \in Nat
      /\ \A k \in 1..n + Len(rest) : t[k] = IF k <= n THEN front[k] ELSE rest[k - n]
  BY ConcatProperties
<1> HIDE DEF t
<1>2. n <= Len(t)
  BY <1>1
<1>3. SubSeq(t, 1, n) = front
  <2> HIDE DEF n
  <2>1. \A i \in 1..n : t[i] \in Char
    BY <1>1, <1>2
  <2>2. /\ SubSeq(t, 1, n) \in Seq(Char) /\ Len(SubSeq(t, 1, n)) = n
        /\ \A i \in 1..n : SubSeq(t, 1, n)[i] = t[i]
    BY <1>1, <1>2
  <2>3. \A i \in 1..n : SubSeq(t, 1, n)[i] = front[i]
    BY <1>1, <2>2
  <2> DEFINE u == SubSeq(t, 1, n)
  <2> HIDE DEF u
  <2>4. u \in Seq(Char) /\ Len(u) = Len(front) /\ \A i \in 1..Len(u) : u[i] = front[i]
    BY <2>2, <2>3 DEF u, n
  <2>5. u = front
    BY <2>4, SeqEqual
  <2> QED BY <2>5 DEF u
<1>4. SubSeq(front, 1, n) = front
  BY SubSeqFull
<1> QED BY <1>2, <1>3, <1>4 DEF IsPrefix, t

\* The clauses that were pushed are those of the text as a whole, however it was cut
\* into deltas and chunks (SentenceChunker, pushToFish).
THEOREM ClausesStayWhole == Spec => []ClausesAreWhole
<1>1. ReplyInv => ClausesAreWhole
  <2> SUFFICES ASSUME ReplyInv, live
               PROVE  /\ IsPrefix(Joined(clauses), full)
                      /\ << >> \notin ToSet(clauses)
                      /\ EndsOf(clauses) = CutsOf(full)
                           \cup (IF llm = "done" THEN {Len(full)} \ {0} ELSE {})
    BY DEF ClausesAreWhole
  <2>1. clauses \in Seq(Clauses) /\ FlattenSeq(clauses) \in Seq(Char)
    <3>1. clauses \in Seq(Clauses)
      BY DEF ReplyInv, ClausesInv
    <3> QED BY <3>1, ClausesAreTexts
  <2>2. << >> \notin ToSet(clauses)
    <3>1. \A i \in DOMAIN clauses : clauses[i] \in Clauses
      <4> HIDE DEF Clauses
      <4> QED BY <2>1
    <3>2. \A i \in DOMAIN clauses : clauses[i] # << >>
      BY <3>1 DEF Clauses
    <3> QED BY <3>2 DEF ToSet
  <2> HIDE DEF Clauses
  <2>3. CASE llm = "reading"
    <3>1. CutInto(full, clauses, buf) /\ CutsOf(buf) = {}
      BY <2>3 DEF ReplyInv, ClausesInv
    <3>2. full = FlattenSeq(clauses) \o buf /\ buf \in Seq(Char)
      BY <3>1 DEF CutInto
    <3>3. IsPrefix(FlattenSeq(clauses), full)
      BY <2>1, <3>2, FrontIsPrefix
    <3>4. EndsOf(clauses) = CutsOf(full)
      BY <3>1, CutWhole
    <3> QED BY <2>2, <2>3, <3>3, <3>4 DEF Joined
  <2>4. CASE llm = "done"
    <3>1. /\ full = FlattenSeq(clauses)
          /\ EndsOf(clauses) = CutsOf(full) \cup ({Len(full)} \ {0})
      BY <2>4 DEF ReplyInv, ClausesInv
    <3>2. IsPrefix(FlattenSeq(clauses), full)
      <4>1. << >> \in Seq(Char)
        OBVIOUS
      <4>2. IsPrefix(FlattenSeq(clauses), FlattenSeq(clauses) \o << >>)
        BY <2>1, <4>1, FrontIsPrefix
      <4>3. FlattenSeq(clauses) \o << >> = FlattenSeq(clauses)
        BY <2>1, ConcatEmptySeq
      <4> QED BY <3>1, <4>2, <4>3
    <3> QED BY <2>2, <2>4, <3>1, <3>2 DEF Joined
  <2> QED BY <2>3, <2>4 DEF ReplyInv, ClausesInv
<1> QED BY <1>1, ReplyStays, PTL

\* A partial line is a part of a line of the response.
LEMMA PendingTypes ==
  ASSUME ResponseInv, Len(content) <= MaxLines
  PROVE  pending \in Seq({Newline} \cup {<<i, h>> : i \in 1..MaxLines, h \in 1..2})
<1> DEFINE B == {Newline} \cup {<<i, h>> : i \in 1..MaxLines, h \in 1..2}
<1>1. PICK q \in Nat, r \in 0..2 : HasRead(arrived, q, r)
  BY ReadsRegularly DEF ResponseInv
<1>2. pending = SubSeq(Cells(q + 1), 1, r) /\ Len(arrived) = 3 * q + r
  BY <1>1 DEF HasRead, ResponseInv
<1>3. q + 1 \in Nat
  OBVIOUS
<1>4. CASE r = 0
  <2>1. pending = << >>
    BY <1>2, <1>3, <1>4, PartsOfLine
  <2> HIDE DEF B
  <2>2. << >> \in Seq(B)
    OBVIOUS
  <2> QED BY <2>1, <2>2 DEF B
<1>5. CASE r # 0
  <2>1. q + 1 \in 1..MaxLines
    <3>1. /\ Len(arrived) + Len(body) <= 3 * Len(content)
          /\ Len(body) \in Nat /\ Len(content) \in Nat
      BY DEF ResponseInv, Contents
    <3>2. MaxLines \in Nat
      BY ReplyTextAssumption
    <3> QED BY <1>2, <1>5, <3>1, <3>2
  <2> DEFINE a == <<q + 1, 1>>
             b == <<q + 1, 2>>
  <2>2. a \in B /\ b \in B
    BY <2>1
  <2>3. Cells(q + 1) = <<a, b>>
    BY DEF Cells
  <2> HIDE DEF B, a, b
  <2>4. /\ SubSeq(<<a, b>>, 1, 1) = <<a>>
        /\ SubSeq(<<a, b>>, 1, 2) = <<a, b>>
    BY <2>2, PartsOfPair
  <2>5. <<a>> \in Seq(B) /\ <<a, b>> \in Seq(B)
    BY <2>2
  <2>6. CASE r = 1
    BY <1>2, <2>3, <2>4, <2>5, <2>6 DEF B
  <2>7. CASE r = 2
    BY <1>2, <2>3, <2>4, <2>5, <2>7 DEF B
  <2> QED BY <1>5, <2>6, <2>7
<1> QED BY <1>4, <1>5

\* The types of the text path.
THEOREM ReplyTextIsTyped == Spec => []TypeOK
<1>1. ReplyInv /\ FishTypeOK => TypeOK
  <2> SUFFICES ASSUME ReplyInv, FishTypeOK PROVE TypeOK
    OBVIOUS
  <2>1. pending \in Seq({Newline} \cup {<<i, h>> : i \in 1..MaxLines, h \in 1..2})
    BY PendingTypes DEF ReplyInv, TurnInv
  <2>2. \A k \in DOMAIN clauses : clauses[k] \in Clauses
    <3> HIDE DEF Clauses
    <3> QED BY DEF ReplyInv, ClausesInv
  <2>3. /\ llm \in {"reading", "done", "failed", "aborted"} /\ live \in BOOLEAN
        /\ (body # << >> => llm # "done")
    BY DEF ReplyInv, TurnInv
  <2> HIDE DEF Clauses
  <2> QED BY <2>1, <2>2, <2>3 DEF TypeOK
<1> QED BY <1>1, ReplyStays, ReplyIsRequest, FishTypes, PTL

\* The reply's request is in order, its end is told once, and seen from Fish it is a
\* script received from its beginning (openFishTurn under #runAgentTurn).
THEOREM ReplyKeepsScript == Spec => [](RequestInOrder /\ OneVerdict) /\ KeepsScript
BY ReplyIsRequest, RequestStaysInOrder, OneVerdictOnly, FishKeepsScript, PTL

\* When Fish is told to stop it has been sent every word that was read (endInput).
THEOREM SpeechStaysComplete == Spec => []SpeechIsComplete
<1>1. ReplyInv /\ FishTypeOK /\ RequestInOrder => SpeechIsComplete
  BY SpeechWhole DEF ReplyInv
<1> QED BY <1>1, ReplyStays, ReplyIsRequest, FishTypes, RequestStaysInOrder, PTL
=============================================================================
