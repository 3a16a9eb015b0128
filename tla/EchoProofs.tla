------------------------------ MODULE EchoProofs ------------------------------
(***************************************************************************)
(* Proofs about the loudspeaker and the microphone, for every reply, every *)
(* window, quantum, delay and length of the buffers: the player of the     *)
(* page plays what Playout promises, the engine does not answer its own    *)
(* voice, and does not take a user for it.                                 *)
(*                                                                         *)
(* The loop of process() is a recursive function of the chunks it has      *)
(* looked at. Its values are found by induction over the naturals, stated  *)
(* for a set, which the library gives as the least element of a set.       *)
(***************************************************************************)
EXTENDS Echo, PlayoutProofs, SequenceTheorems, FiniteSetTheorems, WellFoundedInduction

\* Induction over the naturals, for a set: a set of naturals that is not empty has a
\* least element.
LEMMA InductionOverNat ==
  ASSUME NEW S, 0 \in S, \A n \in Nat : n \in S => n + 1 \in S
  PROVE  Nat \subseteq S
<1> DEFINE T == {n \in Nat : n \notin S}
<1> SUFFICES ASSUME T # {} PROVE FALSE
  OBVIOUS
<1>1. PICK x \in T : \A y \in T : <<y, x>> \notin OpToRel(<, Nat)
  <2>1. T \subseteq Nat
    OBVIOUS
  <2> HIDE DEF T
  <2> QED BY <2>1, NatLessThanWellFounded, WFMin
<1>2. x # 0 /\ x - 1 \in T /\ x - 1 < x
  OBVIOUS
<1> QED BY <1>1, <1>2 DEF OpToRel

\* process() before its loop.
EmptyHanded == [room |-> Quantum, out |-> <<>>, shifts |-> 0, offset |-> offset]

\* The loop of process() as the equations that define it. That there is a function
\* satisfying them is shown by induction.
LEMMA FilledUnfolds ==
  ASSUME Len(queue) \in Nat
  PROVE  /\ FilledFrom[0] = EmptyHanded
         /\ \A k \in 1..Len(queue) : FilledFrom[k] = Fill(FilledFrom[k - 1], queue[k])
<1> DEFINE Step(f, k) == IF k = 0 THEN EmptyHanded ELSE Fill(f[k - 1], queue[k])
           S == {n \in Nat : \E f : f = [k \in 0..n |-> Step(f, k)]}
<1>1. 0 \in S
  <2> DEFINE f == [k \in 0..0 |-> EmptyHanded]
  <2>1. f = [k \in 0..0 |-> Step(f, k)]
    OBVIOUS
  <2> HIDE DEF Step, f
  <2> QED BY <2>1
<1>2. ASSUME NEW n \in Nat, n \in S
      PROVE  n + 1 \in S
  <2>1. PICK f : f = [k \in 0..n |-> Step(f, k)]
    BY <1>2
  <2> DEFINE g == [k \in 0..n + 1 |-> IF k <= n THEN f[k] ELSE Fill(f[n], queue[n + 1])]
  <2>2. ASSUME NEW k \in 0..n + 1
        PROVE  g[k] = Step(g, k)
    <3>1. CASE k = n + 1
      BY <3>1
    <3>2. CASE k # n + 1 /\ k = 0
      <4>1. f[k] = Step(f, k)
        BY <2>1, <3>2
      <4> QED BY <3>2, <4>1
    <3>3. CASE k # n + 1 /\ k # 0
      <4>1. k \in 0..n /\ k - 1 \in 0..n /\ k - 1 \in 0..n + 1
        BY <3>3
      <4>2. f[k] = Step(f, k)
        <5> HIDE DEF Step
        <5> QED BY <4>1, <2>1
      <4> QED BY <3>3, <4>1, <4>2
    <3> QED BY <3>1, <3>2, <3>3
  <2>3. g = [k \in 0..n + 1 |-> Step(g, k)]
    <3> HIDE DEF Step
    <3> QED BY <2>2
  <2> HIDE DEF g, Step
  <2> QED BY <2>3
<1>3. Len(queue) \in S
  <2> HIDE DEF S
  <2> QED BY <1>1, <1>2, InductionOverNat
<1>4. FilledFrom = [k \in 0..Len(queue) |-> Step(FilledFrom, k)]
  BY <1>3 DEF FilledFrom, EmptyHanded
<1> QED BY <1>4

-----------------------------------------------------------------------------
\* The samples of the i-th chunk in the queue are First(i) to Behind(i) - 1.
First(i) == queue[i][1]
Behind(i) == queue[i][1] + queue[i][2]

\* The chunks in the queue are what has arrived and is still to be played.
QueueInv ==
  /\ queue \in Seq(Nat \X Nat) /\ offset \in Nat
  /\ \A i \in 1..Len(queue) : First(i) < Behind(i)
  /\ \A i \in 1..Len(queue) - 1 : First(i + 1) = Behind(i)
  /\ IF Len(queue) = 0 THEN offset = 0 /\ expect = arrived + 1
     ELSE /\ expect = First(1) + offset /\ expect < Behind(1)
          /\ Behind(Len(queue)) = arrived + 1

\* A chunk, and its bounds as integers.
LEMMA QueueFields ==
  ASSUME QueueInv
  PROVE  /\ Len(queue) \in Nat /\ DOMAIN queue = 1..Len(queue)
         /\ \A i \in 1..Len(queue) :
              /\ queue[i] = <<First(i), Behind(i) - First(i)>>
              /\ First(i) \in Int /\ Behind(i) \in Int /\ First(i) < Behind(i)
<1>1. queue \in Seq(Nat \X Nat)
  BY DEF QueueInv
<1>2. \A i \in 1..Len(queue) : queue[i] \in Nat \X Nat
  BY <1>1
<1>3. ASSUME NEW i \in 1..Len(queue)
      PROVE  /\ queue[i] = <<First(i), Behind(i) - First(i)>>
             /\ First(i) \in Int /\ Behind(i) \in Int
  <2>1. PICK a \in Nat, b \in Nat : queue[i] = <<a, b>>
    BY <1>2
  <2> QED BY <2>1 DEF First, Behind
<1>4. \A i \in 1..Len(queue) : First(i) < Behind(i)
  BY DEF QueueInv
<1> QED BY <1>1, <1>3, <1>4

\* Samples in the first k chunks, and how many of them fit into the quantum.
Upto(k) == IF k = 0 THEN 0 ELSE Behind(k) - expect
Fits(n) == IF n <= Quantum THEN n ELSE Quantum

\* What the loop of process() has done when it has looked at k chunks.
FilledAfter(k, st) ==
  /\ st.room = Quantum - Fits(Upto(k))
  /\ st.out = [i \in 1..Fits(Upto(k)) |-> expect + i - 1]
  /\ st.shifts \in 0..k /\ st.offset \in Nat
  /\ st.room > 0 => st.shifts = k
  /\ IF st.shifts = Len(queue) THEN st.offset = 0 /\ Upto(k) <= Quantum
     ELSE /\ First(st.shifts + 1) + st.offset = expect + Fits(Upto(k))
          /\ First(st.shifts + 1) + st.offset < Behind(st.shifts + 1)

\* How far the first k chunks reach.
LEMMA QueueEnds ==
  ASSUME QueueInv, PlayoutTypeOK
  PROVE  /\ \A k \in 0..Len(queue) : Upto(k) \in Int
         /\ \A k \in 1..Len(queue) : Upto(k) = Behind(k) - expect
         /\ Upto(Len(queue)) = arrived + 1 - expect
         /\ \A k \in 0..Len(queue) - 1 :
              Upto(k) = First(k + 1) - (IF k = 0 THEN expect - offset ELSE expect)
<1>1. expect \in Int /\ arrived \in Int
  BY DEF PlayoutTypeOK
<1>2. \A k \in 0..Len(queue) : Upto(k) \in Int
  BY <1>1, QueueFields DEF Upto
<1>3. \A k \in 1..Len(queue) : Upto(k) = Behind(k) - expect
  BY QueueFields DEF Upto
<1>4. Upto(Len(queue)) = arrived + 1 - expect
  <2>1. CASE Len(queue) = 0
    BY <1>1, <2>1 DEF Upto, QueueInv
  <2>2. CASE Len(queue) # 0
    BY <1>1, <2>2 DEF Upto, QueueInv
  <2> QED BY <2>1, <2>2
<1>5. \A k \in 0..Len(queue) - 1 :
        Upto(k) = First(k + 1) - (IF k = 0 THEN expect - offset ELSE expect)
  <2> SUFFICES ASSUME NEW k \in 0..Len(queue) - 1
               PROVE  Upto(k) = First(k + 1) - (IF k = 0 THEN expect - offset ELSE expect)
    OBVIOUS
  <2>1. Len(queue) # 0 /\ k + 1 \in 1..Len(queue) /\ First(k + 1) \in Int
    BY QueueFields
  <2>2. CASE k = 0
    <3>1. expect = First(1) + offset /\ offset \in Nat
      BY <2>1 DEF QueueInv
    <3> QED BY <3>1, <2>1, <2>2, <1>1 DEF Upto
  <2>3. CASE k # 0
    <3>1. k \in 1..Len(queue) - 1 /\ k \in 1..Len(queue)
      BY <2>1, <2>3, QueueFields
    <3>2. First(k + 1) = Behind(k)
      BY <3>1 DEF QueueInv
    <3> QED BY <3>1, <3>2, <2>3 DEF Upto
  <2> QED BY <2>2, <2>3
<1> QED BY <1>2, <1>3, <1>4, <1>5

\* The next chunk reaches further.
LEMMA QueueGrows ==
  ASSUME QueueInv, PlayoutTypeOK, NEW k \in 0..Len(queue) - 1
  PROVE  /\ Upto(k) \in Int /\ Upto(k + 1) \in Int
         /\ 0 <= Upto(k) /\ Upto(k) < Upto(k + 1)
         /\ k + 1 \in 1..Len(queue)
<1>1. expect \in Int /\ Len(queue) \in Nat /\ Len(queue) # 0
  BY QueueFields DEF PlayoutTypeOK
<1>2. expect = First(1) + offset /\ expect < Behind(1) /\ offset \in Nat
  BY <1>1 DEF QueueInv
<1>3. k + 1 \in 1..Len(queue) /\ First(k + 1) \in Int /\ Behind(k + 1) \in Int
      /\ First(k + 1) < Behind(k + 1) /\ Upto(k + 1) = Behind(k + 1) - expect
  BY <1>1, QueueFields, QueueEnds
<1>4. Upto(k) = First(k + 1) - (IF k = 0 THEN expect - offset ELSE expect)
  BY <1>1, QueueEnds
<1>5. Upto(k) < Upto(k + 1) /\ Upto(k) \in Int
  <2>1. CASE k = 0
    BY <2>1, <1>1, <1>2, <1>3, <1>4
  <2>2. CASE k # 0
    BY <2>2, <1>1, <1>3, <1>4
  <2> QED BY <2>1, <2>2
<1>6. \A n \in 1..Len(queue) : expect < Behind(n)
  <2> DEFINE S == {n \in Nat : n + 1 <= Len(queue) => expect < Behind(n + 1)}
  <2>1. 0 \in S
    BY <1>2
  <2>2. ASSUME NEW n \in Nat, n \in S PROVE n + 1 \in S
    <3> SUFFICES ASSUME n + 2 <= Len(queue) PROVE expect < Behind(n + 2)
      OBVIOUS
    <3>1. n + 1 \in 1..Len(queue) - 1 /\ n + 2 \in 1..Len(queue) /\ expect < Behind(n + 1)
          /\ (n + 1) + 1 = n + 2
      BY <2>2, <1>1
    <3>2. First(n + 2) = Behind(n + 1)
      BY <3>1 DEF QueueInv
    <3>3. First(n + 2) < Behind(n + 2) /\ First(n + 2) \in Int /\ Behind(n + 2) \in Int
      BY <3>1, QueueFields
    <3> QED BY <3>1, <3>2, <3>3, <1>1
  <2>3. Nat \subseteq S
    <3> HIDE DEF S
    <3> QED BY <2>1, <2>2, InductionOverNat
  <2> SUFFICES ASSUME NEW n \in 1..Len(queue) PROVE expect < Behind(n)
    OBVIOUS
  <2>4. n - 1 \in Nat /\ (n - 1) + 1 = n /\ n <= Len(queue)
    BY <1>1
  <2>5. n - 1 \in S
    BY <2>3, <2>4
  <2> QED BY <2>4, <2>5
<1>7. 0 <= Upto(k)
  <2>1. CASE k = 0
    BY <2>1 DEF Upto
  <2>2. CASE k # 0
    <3>1. k \in 1..Len(queue) /\ k \in 0..Len(queue)
      BY <2>2, <1>1
    <3>2. Upto(k) = Behind(k) - expect /\ expect < Behind(k) /\ Behind(k) \in Int
      BY <3>1, <1>6, QueueEnds, QueueFields
    <3> QED BY <3>2, <1>1
  <2> QED BY <2>1, <2>2
<1>8. Upto(k + 1) \in Int
  BY <1>3, <1>1
<1> QED BY <1>3, <1>5, <1>7, <1>8

\* A concatenation, element by element.
LEMMA Joined ==
  ASSUME NEW s \in Seq(Int), NEW t \in Seq(Int), NEW w, w = s \o t
  PROVE  /\ w \in Seq(Int) /\ Len(w) = Len(s) + Len(t)
         /\ \A i \in 1..Len(s) + Len(t) : w[i] = IF i <= Len(s) THEN s[i] ELSE t[i - Len(s)]
BY ConcatProperties

\* A row of numbers and the row that follows it.
LEMMA RowOf ==
  ASSUME NEW e \in Int, NEW n \in Nat, NEW m \in Nat,
         NEW s, s = [i \in 1..n |-> e + i - 1],
         NEW t, t = [i \in 1..m |-> e + n + i - 1]
  PROVE  s \o t = [i \in 1..n + m |-> e + i - 1]
<1>1. s \in Seq(Int) /\ Len(s) = n /\ t \in Seq(Int) /\ Len(t) = m
  OBVIOUS
<1> DEFINE w == s \o t
           r == [i \in 1..n + m |-> e + i - 1]
<1>2. w \in Seq(Int) /\ Len(w) = Len(s) + Len(t)
      /\ \A i \in 1..Len(s) + Len(t) : w[i] = IF i <= Len(s) THEN s[i] ELSE t[i - Len(s)]
  <2> HIDE DEF w
  <2>1. w = s \o t
    BY DEF w
  <2> QED BY <1>1, <2>1, Joined
<1>3. r \in Seq(Int) /\ Len(r) = n + m /\ \A i \in 1..n + m : r[i] = e + i - 1
  OBVIOUS
<1> HIDE DEF w, r
<1>4. \A i \in 1..n : s[i] = e + i - 1
  OBVIOUS
<1>5. \A i \in 1..m : t[i] = e + n + i - 1
  OBVIOUS
<1>6. ASSUME NEW i \in 1..n + m PROVE w[i] = r[i]
  <2>1. w[i] = IF i <= n THEN s[i] ELSE t[i - n]
    BY <1>1, <1>2
  <2>2. CASE i <= n
    BY <2>1, <2>2, <1>3, <1>4
  <2>3. CASE ~(i <= n)
    <3>1. i - n \in 1..m
      BY <2>3
    <3>2. t[i - n] = e + n + (i - n) - 1
      BY <3>1, <1>5
    <3> QED BY <2>1, <2>3, <3>2, <1>3
  <2> QED BY <2>2, <2>3
<1>7. w = r
  BY <1>1, <1>2, <1>3, <1>6, SeqEqual
<1> QED BY <1>7 DEF w, r

\* One round of the loop.
LEMMA FillStep ==
  ASSUME QueueInv, PlayoutTypeOK, NEW k \in 0..Len(queue) - 1,
         NEW st, FilledAfter(k, st)
  PROVE  FilledAfter(k + 1, Fill(st, queue[k + 1]))
<1> DEFINE new  == Fill(st, queue[k + 1])
           rest == Behind(k + 1) - First(k + 1) - st.offset
           n    == IF st.room < rest THEN st.room ELSE rest
           a    == Upto(k)
           b    == Upto(k + 1)
           f    == First(k + 1)
           l    == Behind(k + 1)
<1>1. Quantum \in Nat /\ Quantum > 0 /\ expect \in Int /\ Len(queue) \in Nat
  BY PlayoutAssumption, QueueFields DEF PlayoutTypeOK
<1>2. a \in Int /\ b \in Int /\ 0 <= a /\ a < b /\ k + 1 \in 1..Len(queue)
  BY QueueGrows
<1>3. /\ queue[k + 1][1] = f /\ queue[k + 1][2] = l - f
      /\ f \in Int /\ l \in Int
  BY <1>2, QueueFields
<1>4. b = l - expect
  BY <1>2, QueueEnds
<1>5. /\ st.room = Quantum - Fits(a) /\ st.out = [i \in 1..Fits(a) |-> expect + i - 1]
      /\ st.shifts \in 0..k /\ st.offset \in Nat
      /\ st.room > 0 => st.shifts = k
  BY DEF FilledAfter
<1>6. st.shifts # Len(queue)
  BY <1>1, <1>5
<1>7. /\ First(st.shifts + 1) + st.offset = expect + Fits(a)
      /\ First(st.shifts + 1) + st.offset < Behind(st.shifts + 1)
  BY <1>6 DEF FilledAfter
<1>8. Fits(a) \in Nat /\ Fits(b) \in Nat
  BY <1>1, <1>2 DEF Fits
<1>9. CASE st.room = 0
  <2>1. new = st
    BY <1>9 DEF Fill
  <2>2. Fits(b) = Fits(a)
    <3> HIDE DEF a, b
    <3> QED BY <1>1, <1>2, <1>5, <1>9 DEF Fits
  <2>3. st.shifts \in 0..k + 1
    BY <1>5
  <2>4. st.room = Quantum - Fits(b) /\ st.out = [i \in 1..Fits(b) |-> expect + i - 1]
    BY <2>2, <1>5
  <2>5. st.room > 0 => st.shifts = k + 1
    BY <1>9
  <2>6. First(st.shifts + 1) + st.offset = expect + Fits(b)
    BY <2>2, <1>7
  <2> HIDE DEF new
  <2>7. FilledAfter(k + 1, st)
    BY <2>3, <2>4, <2>5, <2>6, <1>5, <1>6, <1>7 DEF FilledAfter
  <2> QED BY <2>1, <2>7 DEF new
<1>10. CASE st.room # 0
  <2>1. /\ new.room = st.room - n
        /\ new.out = st.out \o [i \in 1..n |-> f + st.offset + i - 1]
        /\ new.shifts = IF n = rest THEN st.shifts + 1 ELSE st.shifts
        /\ new.offset = IF n = rest THEN 0 ELSE st.offset + n
    BY <1>3, <1>10 DEF Fill
  <2> HIDE DEF a, b, f, l, new
  <2>2. Fits(a) = a /\ a < Quantum /\ st.room = Quantum - a /\ st.shifts = k
    BY <1>1, <1>2, <1>5, <1>10 DEF Fits
  <2>3. f + st.offset = expect + a /\ rest = b - a
    <3>1. f + st.offset = expect + a
      BY <1>7, <2>2 DEF f
    <3>2. rest = l - f - st.offset
      BY DEF f, l
    <3> HIDE DEF rest, n
    <3> QED BY <3>1, <3>2, <1>1, <1>2, <1>3, <1>4, <1>5
  <2>4. n \in Nat /\ n > 0 /\ Fits(b) = a + n /\ (n = rest <=> b <= Quantum)
    BY <1>1, <1>2, <2>2, <2>3 DEF Fits
  <2> HIDE DEF n, rest
  <2>5. new.room = Quantum - Fits(b)
    BY <2>1, <2>2, <2>4, <1>1, <1>2
  <2>6. new.out = [i \in 1..Fits(b) |-> expect + i - 1]
    <3>1. [i \in 1..n |-> f + st.offset + i - 1] = [i \in 1..n |-> expect + a + i - 1]
      BY <2>3
    <3>2. a \in Nat
      BY <1>2
    <3>3. st.out = [i \in 1..a |-> expect + i - 1]
      BY <1>5, <2>2
    <3>4. st.out \o [i \in 1..n |-> expect + a + i - 1] = [i \in 1..a + n |-> expect + i - 1]
      BY <3>2, <3>3, <2>4, <1>1, RowOf
    <3> QED BY <2>1, <3>1, <3>4, <2>4
  <2>7. CASE n = rest
    <3>1. new.shifts = k + 1 /\ new.offset = 0 /\ Fits(b) = b
      BY <2>1, <2>2, <2>4, <2>7 DEF Fits
    <3>2. new.shifts \in 0..k + 1 /\ new.offset \in Nat
      BY <3>1
    <3>3. CASE k + 1 = Len(queue)
      BY <3>1, <3>2, <3>3, <2>4, <2>5, <2>6, <2>7 DEF FilledAfter, b, new
    <3>4. CASE k + 1 # Len(queue)
      <4>1. k + 1 \in 1..Len(queue) - 1 /\ (k + 1) + 1 \in 1..Len(queue)
        BY <3>4, <1>1, <1>2
      <4>2. First((k + 1) + 1) = l
        BY <4>1 DEF QueueInv, l
      <4>3. l < Behind((k + 1) + 1)
        BY <4>1, <4>2, QueueFields
      <4>4. First(new.shifts + 1) + new.offset = expect + Fits(b)
        BY <3>1, <4>2, <1>1, <1>2, <1>3, <1>4
      <4>5. First(new.shifts + 1) + new.offset < Behind(new.shifts + 1)
        BY <3>1, <4>2, <4>3, <1>3
      <4>6. new.shifts # Len(queue)
        BY <3>1, <3>4
      <4>7. new.room > 0 => new.shifts = k + 1
        BY <3>1
      <4> QED BY <3>1, <3>2, <4>4, <4>5, <4>6, <4>7, <2>5, <2>6 DEF FilledAfter, b, new
    <3> QED BY <3>3, <3>4 DEF new
  <2>8. CASE n # rest
    <3>1. new.shifts = k /\ new.offset = st.offset + n /\ new.room = 0 /\ Fits(b) = Quantum
      BY <2>1, <2>2, <2>4, <2>5, <2>8, <1>1, <1>2 DEF Fits
    <3>2. new.shifts \in 0..k + 1 /\ new.offset \in Nat /\ new.shifts # Len(queue)
      BY <3>1, <2>4, <1>1, <1>5
    <3>3. First(new.shifts + 1) + new.offset = expect + Fits(b)
      <4>1. f + st.offset + n = expect + (a + n)
        BY <2>3, <2>4, <1>1, <1>2, <1>3, <1>5
      <4>2. f + (st.offset + n) = expect + Fits(b)
        BY <4>1, <2>4, <1>1, <1>2, <1>3, <1>5
      <4> QED BY <3>1, <4>2 DEF f
    <3>4. First(new.shifts + 1) + new.offset < Behind(new.shifts + 1)
      <4>1. expect + Fits(b) < l
        BY <3>1, <2>4, <2>8, <1>1, <1>2, <1>3, <1>4
      <4> QED BY <4>1, <3>1, <3>3 DEF l
    <3> QED BY <3>1, <3>2, <3>3, <3>4, <2>5, <2>6 DEF FilledAfter, b, new
  <2> QED BY <2>7, <2>8
<1> QED BY <1>9, <1>10, <1>5, <1>1, <1>8

\* The loop of process(): what it leaves, and that it takes what Playout renders.
LEMMA FillsInOrder ==
  ASSUME QueueInv, PlayoutTypeOK
  PROVE  FilledAfter(Len(queue), Filled)
<1>1. Len(queue) \in Nat /\ Quantum \in Nat /\ Quantum > 0 /\ expect \in Int
  BY PlayoutAssumption, QueueFields DEF PlayoutTypeOK
<1> DEFINE S == {k \in Nat : k <= Len(queue) => FilledAfter(k, FilledFrom[k])}
<1>2. 0 \in S
  <2>1. FilledFrom[0] = EmptyHanded
    BY <1>1, FilledUnfolds
  <2>2. Fits(Upto(0)) = 0
    BY <1>1 DEF Fits, Upto
  <2>3. /\ EmptyHanded.room = Quantum /\ EmptyHanded.out = <<>>
        /\ EmptyHanded.shifts = 0 /\ EmptyHanded.offset = offset
    BY DEF EmptyHanded
  <2>4. EmptyHanded.out = [i \in 1..0 |-> expect + i - 1]
    BY <2>3
  <2>5. Upto(0) <= Quantum
    BY <1>1 DEF Upto
  <2>6. IF Len(queue) = 0 THEN offset = 0
        ELSE First(1) + offset = expect /\ First(1) + offset < Behind(1)
    BY DEF QueueInv
  <2>7. offset \in Nat
    BY DEF QueueInv
  <2>8. FilledAfter(0, EmptyHanded)
    <3> HIDE DEF EmptyHanded
    <3>1. CASE Len(queue) = 0
      BY <3>1, <1>1, <2>2, <2>3, <2>4, <2>6, <2>7, <2>5 DEF FilledAfter
    <3>2. CASE Len(queue) # 0
      BY <3>2, <1>1, <2>2, <2>3, <2>4, <2>6, <2>7 DEF FilledAfter
    <3> QED BY <3>1, <3>2
  <2> QED BY <2>1, <2>8
<1>3. ASSUME NEW k \in Nat, k \in S PROVE k + 1 \in S
  <2> SUFFICES ASSUME k + 1 <= Len(queue) PROVE FilledAfter(k + 1, FilledFrom[k + 1])
    OBVIOUS
  <2>1. k \in 0..Len(queue) - 1 /\ k + 1 \in 1..Len(queue) /\ (k + 1) - 1 = k /\ k <= Len(queue)
    BY <1>1
  <2>2. FilledAfter(k, FilledFrom[k])
    BY <1>3, <2>1
  <2>3. FilledFrom[k + 1] = Fill(FilledFrom[k], queue[k + 1])
    BY <1>1, <2>1, FilledUnfolds
  <2> HIDE DEF S
  <2> QED BY <2>1, <2>2, <2>3, FillStep
<1>4. Nat \subseteq S
  <2> HIDE DEF S
  <2> QED BY <1>2, <1>3, InductionOverNat
<1> QED BY <1>1, <1>4 DEF Filled

-----------------------------------------------------------------------------
(* Playback implements Playout. *)

\* What process() renders is what Playout does.
LEMMA ProcessNumbers ==
  ASSUME QueueInv, PlayoutTypeOK, Process
  PROVE  /\ Rendered \in Nat /\ Rendered = Fits(Upto(Len(queue)))
         /\ out' = [i \in 1..Rendered |-> expect + i - 1]
         /\ expect' = expect + Rendered
<1>1. Quantum \in Nat /\ Quantum > 0 /\ expect \in Int /\ arrived \in Int /\ expect <= arrived + 1
  BY PlayoutAssumption DEF PlayoutTypeOK
<1>2. Rendered = Fits(Upto(Len(queue))) /\ Rendered \in Nat
  <2>1. Upto(Len(queue)) = arrived + 1 - expect
    BY QueueEnds
  <2> QED BY <1>1, <2>1 DEF Rendered, Fits
<1>3. out' = [i \in 1..Rendered |-> expect + i - 1]
  BY <1>2, FillsInOrder DEF Process, FilledAfter
<1>4. expect' = IF out' = <<>> THEN expect ELSE Last(out') + 1
  BY DEF Process
<1>5. expect' = expect + Rendered
  <2> DEFINE r == [i \in 1..Rendered |-> expect + i - 1]
  <2>1. CASE Rendered = 0
    <3>1. r = <<>>
      BY <2>1
    <3> QED BY <1>1, <1>3, <1>4, <2>1, <3>1
  <2>2. CASE Rendered # 0
    <3>1. r # <<>> /\ Len(r) = Rendered /\ r[Rendered] = expect + Rendered - 1
      BY <1>2, <2>2
    <3>2. expect' = r[Rendered] + 1
      BY <1>3, <1>4, <3>1 DEF Last
    <3> HIDE DEF r
    <3> QED BY <1>1, <1>2, <3>1, <3>2
  <2> QED BY <2>1, <2>2
<1> QED BY <1>2, <1>3, <1>5

\* A quantum of the player is a Tick.
LEMMA ProcessIsTick ==
  ASSUME QueueInv, PlayoutTypeOK, Process
  PROVE  Tick
BY ProcessNumbers DEF Process, Tick

\* What is behind the first k elements.
LEMMA LeftOver ==
  ASSUME NEW S, NEW s \in Seq(S), NEW k \in 0..Len(s), NEW w, w = SubSeq(s, k + 1, Len(s))
  PROVE  /\ w \in Seq(S) /\ Len(w) = Len(s) - k
         /\ \A i \in 1..Len(s) - k : w[i] = s[i + k]
<1>1. Len(s) \in Nat /\ k \in Nat /\ k <= Len(s)
  OBVIOUS
<1>2. /\ w \in Seq(S) /\ Len(w) = IF k + 1 <= Len(s) THEN Len(s) - (k + 1) + 1 ELSE 0
      /\ \A i \in 1..Len(s) - (k + 1) + 1 : w[i] = s[(k + 1) + i - 1]
  <2>1. \A i \in k + 1..Len(s) : s[i] \in S
    BY <1>1
  <2> QED BY <1>1, <2>1, SubSeqProperties
<1>3. Len(s) - (k + 1) + 1 = Len(s) - k /\ \A i \in 1..Len(s) - k : (k + 1) + i - 1 = i + k
  BY <1>1
<1>4. Len(w) = Len(s) - k
  <2> DEFINE n == Len(s)
  <2>1. Len(w) = IF k + 1 <= n THEN n - (k + 1) + 1 ELSE 0
    BY <1>2
  <2> HIDE DEF n
  <2> QED BY <1>1, <2>1 DEF n
<1>5. \A i \in 1..Len(s) - k : w[i] = s[i + k]
  BY <1>2, <1>3
<1> QED BY <1>2, <1>4, <1>5

\* What is left of the queue is what is left to be played.
LEMMA ProcessKeepsQueue ==
  ASSUME QueueInv, PlayoutTypeOK, Process
  PROVE  QueueInv'
<1> DEFINE s == Filled.shifts
           L == Len(queue)
           b == Upto(Len(queue))
<1>1. /\ queue' = SubSeq(queue, s + 1, L) /\ offset' = Filled.offset
      /\ arrived' = arrived
  BY DEF Process
<1>2. expect' = expect + Fits(b)
  BY ProcessNumbers
<1>3. /\ s \in 0..L /\ Filled.offset \in Nat
      /\ s = L => Filled.offset = 0 /\ b <= Quantum
      /\ s # L => /\ First(s + 1) + Filled.offset = expect + Fits(b)
                  /\ First(s + 1) + Filled.offset < Behind(s + 1)
  BY FillsInOrder DEF FilledAfter
<1>4. /\ L \in Nat /\ expect \in Int /\ arrived \in Int /\ b = arrived + 1 - expect
      /\ Quantum \in Nat
  BY PlayoutAssumption, QueueFields, QueueEnds DEF PlayoutTypeOK
<1>5. queue \in Seq(Nat \X Nat)
  BY DEF QueueInv
<1> HIDE DEF s, L, b
<1>6. /\ queue' \in Seq(Nat \X Nat) /\ Len(queue') = L - s
      /\ \A i \in 1..L - s : queue'[i] = queue[i + s]
  <2>1. L = Len(queue)
    BY DEF L
  <2>2. queue' = SubSeq(queue, s + 1, Len(queue)) /\ s \in 0..Len(queue)
    BY <1>1, <1>3, <2>1
  <2>3. /\ queue' \in Seq(Nat \X Nat) /\ Len(queue') = Len(queue) - s
        /\ \A i \in 1..Len(queue) - s : queue'[i] = queue[i + s]
    BY <1>5, <2>2, LeftOver
  <2> QED BY <2>1, <2>3
<1>7. \A i \in 1..L - s : First(i)' = First(i + s) /\ Behind(i)' = Behind(i + s)
  BY <1>6 DEF First, Behind
<1>8. \A i \in 1..L : First(i) < Behind(i) /\ First(i) \in Int /\ Behind(i) \in Int
  BY QueueFields DEF L
<1>9. \A i \in 1..L - 1 : First(i + 1) = Behind(i)
  BY DEF QueueInv, L
<1>10. \A i \in 1..Len(queue') : First(i)' < Behind(i)'
  <2> SUFFICES ASSUME NEW i \in 1..L - s PROVE First(i)' < Behind(i)'
    BY <1>6
  <2>1. i + s \in 1..L
    BY <1>3, <1>4
  <2> QED BY <2>1, <1>7, <1>8
<1>11. \A i \in 1..Len(queue') - 1 : First(i + 1)' = Behind(i)'
  <2> SUFFICES ASSUME NEW i \in 1..(L - s) - 1 PROVE First(i + 1)' = Behind(i)'
    BY <1>6
  <2>1. i + s \in 1..L - 1 /\ i \in 1..L - s /\ i + 1 \in 1..L - s /\ (i + 1) + s = (i + s) + 1
    BY <1>3, <1>4
  <2>2. First(i + 1)' = First((i + s) + 1) /\ Behind(i)' = Behind(i + s)
    BY <2>1, <1>7
  <2> QED BY <2>1, <2>2, <1>9
<1>12. CASE s = L
  <2>1. Len(queue') = 0 /\ offset' = 0
    BY <1>1, <1>3, <1>4, <1>6, <1>12
  <2>2. expect' = arrived' + 1
    <3>1. Fits(b) = b
      BY <1>3, <1>12 DEF Fits
    <3> QED BY <3>1, <1>1, <1>2, <1>4
  <2>3. offset' \in Nat
    BY <2>1
  <2> QED BY <2>1, <2>2, <2>3, <1>6, <1>10, <1>11 DEF QueueInv
<1>13. CASE s # L
  <2>1. PICK n \in Nat : n = L - s
    BY <1>3, <1>4
  <2>2. Len(queue') # 0 /\ 1 \in 1..L - s /\ n \in 1..L - s /\ n + s = L /\ 1 + s = s + 1
        /\ Len(queue') = n
    BY <2>1, <1>3, <1>4, <1>6, <1>13
  <2>3. First(1)' = First(1 + s) /\ Behind(1)' = Behind(1 + s)
    BY <2>2, <1>7
  <2>4. Behind(n)' = Behind(n + s)
    BY <2>2, <1>7
  <2>5. First(1)' = First(s + 1) /\ Behind(1)' = Behind(s + 1) /\ Behind(n)' = Behind(L)
    BY <2>2, <2>3, <2>4
  <2>6. Behind(L) = arrived + 1
    <3>1. L # 0
      BY <1>3, <1>13
    <3> QED BY <3>1 DEF QueueInv, L
  <2>7. expect' = First(1)' + offset' /\ expect' < Behind(1)'
    BY <2>5, <1>1, <1>2, <1>3, <1>13
  <2>8. Behind(Len(queue))' = arrived' + 1
    BY <2>2, <2>5, <2>6, <1>1 DEF Behind
  <2>9. offset' \in Nat
    BY <1>1, <1>3
  <2> QED BY <2>2, <2>7, <2>8, <2>9, <1>6, <1>10, <1>11 DEF QueueInv
<1> QED BY <1>12, <1>13

\* What arrives next is the sample that has not arrived yet.
LEMMA NextArrival ==
  ASSUME PlayoutTypeOK, InOrder, Carried, wire # <<>>
  PROVE  /\ 1 \in DOMAIN wire /\ Head(wire) = wire[1]
         /\ wire[1].first \in Int /\ wire[1].len \in Int /\ 0 <= wire[1].len
         /\ wire[1].first > 0
         /\ wire[1].len > 0 => wire[1].first = arrived + 1
<1>1. wire \in Seq(Message)
  BY DEF PlayoutTypeOK
<1>2. 1 \in DOMAIN wire /\ Head(wire) = wire[1]
  BY <1>1
<1>3. wire[1].first \in Int /\ wire[1].len \in Int /\ 0 <= wire[1].len
      /\ wire[1].first > 0
  BY <1>2, MessageFields
<1>4. ASSUME wire[1].len > 0 PROVE wire[1].first = arrived + 1
  <2>1. arrived \in Int /\ sent \in Int
    BY DEF PlayoutTypeOK
  <2>2. arrived < wire[1].first /\ wire[1].first + wire[1].len <= sent + 1
    BY <1>2 DEF InOrder
  <2>3. arrived + 1 <= sent
    BY <1>3, <1>4, <2>1, <2>2
  <2>4. PICK i \in DOMAIN wire :
          wire[i].first <= arrived + 1 /\ arrived + 1 < wire[i].first + wire[i].len
    BY <2>1, <2>3 DEF Carried
  <2>5. CASE i = 1
    BY <2>1, <2>2, <2>4, <2>5, <1>3
  <2>6. CASE i # 1
    <3>1. 1 < i /\ wire[i].first \in Int
      BY <2>6, MessageFields
    <3>2. wire[1].first + wire[1].len <= wire[i].first
      BY <3>1, <1>2 DEF InOrder
    <3> QED BY <3>1, <3>2, <2>1, <2>2, <2>4, <1>3, <1>4
  <2> QED BY <2>5, <2>6
<1> QED BY <1>2, <1>3, <1>4

\* The player's onmessage is an arrival.
LEMMA ReceivesIsArrives ==
  ASSUME Receives
  PROVE  Arrives
<1>1. wire # <<>> /\ wire' = Tail(wire) /\ arrived' = Head(wire).first + Head(wire).len - 1
      /\ horizon' = horizon /\ sent' = sent /\ cut' = cut /\ out' = out
  BY DEF Receives
<1>2. expect' = IF Head(wire).len = 0 THEN Head(wire).first ELSE expect
  BY DEF Receives
<1> QED BY <1>1, <1>2 DEF Arrives

\* What the player appends to its queue follows what is there.
LEMMA ReceivesKeepsQueue ==
  ASSUME QueueInv, PlayoutTypeOK, InOrder, Carried, Receives
  PROVE  QueueInv'
<1> DEFINE f == wire[1].first
           l == wire[1].len
           L == Len(queue)
<1>1. /\ f \in Int /\ l \in Int /\ 0 <= l /\ f > 0 /\ Head(wire) = wire[1]
      /\ l > 0 => f = arrived + 1
  BY NextArrival DEF Receives
<1>2. /\ arrived' = f + l - 1
      /\ l = 0 => queue' = <<>> /\ offset' = 0 /\ expect' = f
      /\ l # 0 => queue' = Append(queue, <<f, l>>) /\ offset' = offset /\ expect' = expect
  BY <1>1 DEF Receives, OffsetAfterClear
<1> HIDE DEF f, l
<1>3. CASE l = 0
  <2>1. Len(queue') = 0 /\ queue' \in Seq(Nat \X Nat) /\ offset' \in Nat
    BY <1>2, <1>3
  <2>2. expect' = arrived' + 1
    BY <1>1, <1>2, <1>3
  <2> QED BY <2>1, <2>2, <1>2, <1>3 DEF QueueInv
<1>4. CASE l # 0
  <2>1. queue \in Seq(Nat \X Nat) /\ <<f, l>> \in Nat \X Nat /\ L \in Nat /\ arrived \in Int
    BY <1>1, <1>4 DEF QueueInv, PlayoutTypeOK
  <2>2. /\ queue' \in Seq(Nat \X Nat) /\ Len(queue') = L + 1
        /\ \A i \in 1..L : queue'[i] = queue[i]
        /\ queue'[L + 1] = <<f, l>>
    <3> DEFINE p == <<f, l>>
    <3>1. p \in Nat \X Nat /\ queue' = Append(queue, p)
      BY <2>1, <1>2, <1>4
    <3> HIDE DEF p
    <3>2. /\ queue' \in Seq(Nat \X Nat) /\ Len(queue') = L + 1
          /\ \A i \in 1..L : queue'[i] = queue[i]
          /\ queue'[L + 1] = p
      BY <2>1, <3>1
    <3> QED BY <3>2 DEF p
  <2> HIDE DEF L
  <2>3. PICK n \in Nat : n = L
    BY <2>1
  <2>4. \A i \in 1..n : First(i)' = First(i) /\ Behind(i)' = Behind(i)
    BY <2>2, <2>3 DEF First, Behind
  <2>5. First(n + 1)' = f /\ Behind(n + 1)' = f + l
    BY <2>2, <2>3 DEF First, Behind
  <2>6. \A i \in 1..n : First(i) < Behind(i)
    BY <2>3 DEF QueueInv, L
  <2>7. \A i \in 1..n - 1 : First(i + 1) = Behind(i)
    BY <2>3 DEF QueueInv, L
  <2>8. f < f + l /\ f = arrived + 1 /\ arrived' = f + l - 1
    BY <1>1, <1>2, <1>4
  <2>9. \A i \in 1..Len(queue') : First(i)' < Behind(i)'
    <3> SUFFICES ASSUME NEW i \in 1..n + 1 PROVE First(i)' < Behind(i)'
      BY <2>2, <2>3
    <3>1. CASE i = n + 1
      BY <3>1, <2>5, <2>8
    <3>2. CASE i # n + 1
      BY <3>2, <2>4, <2>6
    <3> QED BY <3>1, <3>2
  <2>10. n # 0 => Behind(n) = arrived + 1
    BY <2>3 DEF QueueInv, L
  <2>11. \A i \in 1..Len(queue') - 1 : First(i + 1)' = Behind(i)'
    <3> SUFFICES ASSUME NEW i \in 1..n PROVE First(i + 1)' = Behind(i)'
      BY <2>2, <2>3
    <3>1. CASE i = n
      <4>1. First(n + 1)' = Behind(n)'
        BY <3>1, <2>4, <2>5, <2>8, <2>10
      <4> QED BY <3>1, <4>1
    <3>2. CASE i # n
      <4>1. i \in 1..n - 1 /\ i + 1 \in 1..n
        BY <3>2
      <4> QED BY <4>1, <2>4, <2>7
    <3> QED BY <3>1, <3>2
  <2>12. Behind(Len(queue))' = arrived' + 1
    <3>1. f + l = arrived' + 1
      BY <2>8, <1>1
    <3> QED BY <3>1, <2>2, <2>3, <2>5 DEF Behind
  <2>13. expect' = First(1)' + offset' /\ expect' < Behind(1)'
    <3>1. offset' = offset /\ expect' = expect
      BY <1>2, <1>4
    <3>2. CASE n = 0
      <4>1. offset = 0 /\ expect = arrived + 1
        BY <2>3, <3>2 DEF QueueInv, L
      <4>2. First(1)' = f /\ Behind(1)' = f + l
        BY <2>5, <3>2
      <4> QED BY <4>1, <4>2, <3>1, <2>8, <1>1
    <3>3. CASE n # 0
      <4>1. 1 \in 1..n
        BY <3>3
      <4>2. expect = First(1) + offset /\ expect < Behind(1)
        BY <2>3, <3>3 DEF QueueInv, L
      <4> QED BY <4>1, <4>2, <3>1, <2>4
    <3> QED BY <3>2, <3>3
  <2>14. offset' \in Nat
    BY <1>2, <1>4 DEF QueueInv
  <2>15. Len(queue') # 0
    BY <2>1, <2>2 DEF L
  <2> QED BY <2>2, <2>9, <2>11, <2>12, <2>13, <2>14, <2>15 DEF QueueInv
<1> QED BY <1>3, <1>4

\* The invariant of the queue does not depend on the wire.
LEMMA QueueUntouched ==
  ASSUME QueueInv, UNCHANGED <<queue, offset, expect, arrived>>
  PROVE  QueueInv'
BY DEF QueueInv, First, Behind

\* The samples rendered last are samples that were sent.
OutRow == out \in Seq(1..sent) /\ Len(out) <= Quantum

\* The invariant of the path of the audio.
PlaybackInv == PlayoutInv /\ QueueInv /\ OutRow

\* The invariant of the path gives its types.
LEMMA PlaybackTyped == PlaybackInv => PlaybackTypeOK
<1> SUFFICES ASSUME PlaybackInv PROVE PlaybackTypeOK
  OBVIOUS
<1>1. PlayoutTypeOK /\ QueueInv /\ OutRow
  BY DEF PlaybackInv, PlayoutInv, WireInv
<1> QED BY <1>1 DEF PlayoutTypeOK, QueueInv, OutRow, PlaybackTypeOK

\* It holds initially.
LEMMA PlaybackInitHolds == PlaybackInit => PlaybackInv
<1> SUFFICES ASSUME PlaybackInit PROVE PlaybackInv
  OBVIOUS
<1>1. PlayoutInit /\ queue = <<>> /\ offset = 0
  BY DEF PlaybackInit
<1>2. expect = 1 /\ arrived = 0 /\ out = <<>>
  BY <1>1 DEF PlayoutInit
<1>3. QueueInv
  BY <1>1, <1>2 DEF QueueInv
<1>4. OutRow
  BY <1>2, PlayoutAssumption DEF OutRow
<1> QED BY <1>1, <1>3, <1>4, InitHolds DEF PlaybackInv

\* What an action of Echo does to the path of the audio.
PlaybackStep ==
  (\E n \in Chunks : Sends(n)) \/ Clears \/ Receives \/ Process \/ UNCHANGED playbackVars

\* Every step of the player is one that Playout promises.
LEMMA PlaybackRefines ==
  ASSUME PlaybackInv, PlaybackStep
  PROVE  [PlayoutNext]_playoutVars /\ QueueInv'
<1> USE DEF PlaybackInv, PlayoutInv, WireInv
<1>1. ASSUME NEW n \in Chunks, Sends(n) PROVE [PlayoutNext]_playoutVars /\ QueueInv'
  BY <1>1, QueueUntouched DEF Sends, SendAudio, PlayoutNext
<1>2. CASE Clears
  BY <1>2, QueueUntouched DEF Clears, SendClear, PlayoutNext
<1>3. CASE Receives
  BY <1>3, ReceivesIsArrives, ReceivesKeepsQueue DEF PlayoutNext
<1>4. CASE Process
  BY <1>4, ProcessIsTick, ProcessKeepsQueue DEF PlayoutNext
<1>5. CASE UNCHANGED playbackVars
  BY <1>5, QueueUntouched DEF playbackVars, playoutVars
<1> QED BY <1>1, <1>2, <1>3, <1>4, <1>5 DEF PlaybackStep

\* The last sample a quantum renders, and the horizon at that moment.
LEMMA Sounds ==
  ASSUME PlaybackInv, Process
  PROVE  /\ OutRow'
         /\ sent' = sent /\ cut' = cut
         /\ horizon' \in Int /\ horizon' >= horizon - Quantum
         /\ out' # <<>> => /\ Last(out') \in Int /\ 1 <= Last(out') /\ Last(out') <= sent
                           /\ cut = 1 => horizon' + Latency * Quantum + Quantum > 0
<1> USE DEF PlaybackInv, PlayoutInv, WireInv
<1>1. Tick
  BY ProcessIsTick
<1>2. /\ Quantum \in Int /\ 0 < Quantum /\ Latency * Quantum \in Int
      /\ sent \in Int /\ expect \in Int /\ 1 <= expect /\ arrived \in Int /\ arrived <= sent
      /\ horizon \in Int /\ cut \in Int
  BY PlayoutAssumption, Ages DEF PlayoutTypeOK
<1>3. /\ Rendered \in Nat /\ Rendered <= Quantum /\ expect' = expect + Rendered
      /\ expect' <= arrived + 1
      /\ horizon' \in Int /\ horizon' >= horizon - Quantum /\ sent' = sent /\ cut' = cut
  BY <1>1, TickNumbers
<1>4. out' = [i \in 1..Rendered |-> expect + i - 1]
  BY <1>1 DEF Tick
<1>5. \A i \in 1..Rendered : expect + i - 1 \in 1..sent
  BY <1>2, <1>3
<1>6. out' \in Seq(1..sent) /\ Len(out') = Rendered
  BY <1>3, <1>4, <1>5
<1>7. ASSUME out' # <<>>
      PROVE  /\ Last(out') \in Int /\ 1 <= Last(out') /\ Last(out') <= sent
             /\ cut = 1 => horizon' + Latency * Quantum + Quantum > 0
  <2>1. Rendered \in 1..Rendered
    BY <1>3, <1>6, <1>7
  <2>2. Last(out') = expect + Rendered - 1
    BY <2>1, <1>4, <1>6 DEF Last
  <2>3. ASSUME cut = 1 PROVE horizon' + Latency * Quantum + Quantum > 0
    <3>1. Remaining = sent + 1 - expect /\ Remaining > 0
      BY <2>1, <2>3, <1>2, <1>3 DEF Remaining, Larger
    <3>2. Remaining <= horizon + Latency * Quantum
      BY <3>1 DEF HorizonTracksPlayout
    <3> QED BY <3>1, <3>2, <1>2, <1>3
  <2> QED BY <2>1, <2>2, <2>3, <1>2, <1>3
<1> QED BY <1>3, <1>6, <1>7 DEF OutRow

\* It is kept by every step.
LEMMA PlaybackHolds ==
  ASSUME PlaybackInv, PlaybackStep
  PROVE  PlaybackInv'
<1>1. PlayoutInv' /\ QueueInv'
  BY PlaybackRefines, InvIsInductive DEF PlaybackInv
<1>2. OutRow'
  <2>1. CASE Process
    BY <2>1, Sounds
  <2>2. ASSUME NEW n \in Chunks, Sends(n) PROVE OutRow'
    <3>1. n \in Nat /\ sent' = sent + n /\ out' = out /\ sent \in Nat
      BY <2>2, PlayoutAssumption
         DEF Sends, SendAudio, PlaybackInv, PlayoutInv, WireInv, PlayoutTypeOK
    <3>2. 1..sent \subseteq 1..sent'
      BY <3>1
    <3> QED BY <3>1, <3>2, SeqMonotonic DEF OutRow, PlaybackInv
  <2>3. CASE Clears
    BY <2>3 DEF Clears, SendClear, OutRow, PlaybackInv
  <2>4. CASE Receives
    BY <2>4 DEF Receives, OutRow, PlaybackInv
  <2>5. CASE UNCHANGED playbackVars
    BY <2>5 DEF playbackVars, playoutVars, OutRow, PlaybackInv
  <2> QED BY <2>1, <2>2, <2>3, <2>4, <2>5 DEF PlaybackStep
<1> QED BY <1>1, <1>2 DEF PlaybackInv

\* Every action of Echo leaves the path of the audio alone or takes one of its steps.
LEMMA EchoSteps == [Next]_vars => PlaybackStep
<1> SUFFICES ASSUME [Next]_vars PROVE PlaybackStep
  OBVIOUS
<1> USE DEF PlaybackStep
<1>1. CASE Writes \/ Records \/ Finishes \/ UserSpeaks \/ UNCHANGED vars
  BY <1>1 DEF Writes, Records, Finishes, UserSpeaks, vars
<1>2. CASE Delivers \/ Plays
  BY <1>2 DEF Delivers, Plays
<1>3. CASE StartOfTurn
  BY <1>3 DEF StartOfTurn, Cut
<1>4. ASSUME NEW n \in Chunks, Speaks(n) \/ Answers(n) PROVE PlaybackStep
  BY <1>4 DEF Speaks, Answers
<1>5. ASSUME NEW e \in 0..Total, Update(e) PROVE PlaybackStep
  BY <1>5 DEF Update, Cut
<1>6. ASSUME NEW e \in 0..Total, EndOfTurnEcho(e) PROVE PlaybackStep
  BY <1>6 DEF EndOfTurnEcho
<1>7. ASSUME NEW e \in 0..Total, EndOfTurnAnswered(e) PROVE PlaybackStep
  BY <1>7 DEF EndOfTurnAnswered, Cut
<1> QED BY <1>1, <1>2, <1>3, <1>4, <1>5, <1>6, <1>7 DEF Next

-----------------------------------------------------------------------------
(* What the engine and Flux make of the audio. *)

\* TypeOK without the path of the audio.
PartTypes ==
  /\ smart \in BOOLEAN /\ turnOn \in BOOLEAN
  /\ written \in 0..Total /\ recorded \in 0..Total
  /\ lastHeard \in 0..Total /\ idle \in 0..Reaction + 1
  /\ flux \in {"idle", "talking", "answered"}
  /\ userTurnAudible \in BOOLEAN /\ bargeHeld \in BOOLEAN
  /\ first \in 0..Total /\ last \in 0..Total /\ first <= last
  /\ said \in 0..MaxSaid /\ spoilt \in BOOLEAN

\* The reply is in the history once, whole or as far as it was written when it was cut.
Recording ==
  IF turnOn THEN recorded \in {0, Total} /\ (recorded = Total => written = Total)
            ELSE recorded = written

\* No more of the reply is sent than is written, nor heard than is sent.
Voiced ==
  /\ flux # "answered" => sent <= written * WordLen
  /\ lastHeard <= written
  /\ lastHeard > 0 => sent > 0

\* The longest time from the end of the audio by the horizon to a quantum i after it.
Lag(i) == (Latency + 1 + i) * Quantum

\* While what was heard of an uncut reply can still start a user turn, the horizon is
\* not longer past than the delay of the path and the reaction of Flux.
SoundsOn ==
  lastHeard > 0 /\ idle <= Reaction /\ cut = 1 /\ flux # "answered" => horizon + Lag(idle) > 0

\* A user turn with words of the uncut reply began while the agent was audible.
Judged == flux = "talking" /\ first > 0 /\ ~spoilt => userTurnAudible

\* The invariant of the engine, and with the path of the audio that of Echo.
EngineInv == PartTypes /\ Recording /\ Voiced /\ SoundsOn /\ Judged

EchoInv == PlaybackInv /\ EngineInv

\* The types of the constants.
LEMMA EchoNumbers ==
  /\ Reply \in Seq(STRING) /\ Total \in Nat /\ Total > 0
  /\ WordLen \in Nat \ {0} /\ MaxSaid \in Nat /\ Reaction \in Nat
  /\ Quantum \in Nat \ {0} /\ Latency \in Nat /\ Grace \in Nat
<1>1. Reply \in Seq(STRING) /\ Reply # <<>>
  BY EchoAssumption
<1>2. Total \in Nat /\ Total > 0
  BY <1>1 DEF Total
<1> QED BY <1>1, <1>2, EchoAssumption, PlayoutAssumption, GraceAssumption

\* The word a sample belongs to.
LEMMA WordOf ==
  ASSUME NEW x \in Int, NEW t \in Nat, NEW w \in Nat \ {0}, 1 <= x, x <= t * w
  PROVE  (x - 1) \div w + 1 \in 1..t
<1>1. PICK q \in Int : q = (x - 1) \div w
  OBVIOUS
<1>2. q * w <= x - 1 /\ x - 1 < q * w + w
  <2>1. x - 1 \in Nat
    OBVIOUS
  <2> QED BY <2>1, <1>1
<1>3. q * w < t * w /\ q * w + w > 0
  <2>1. q * w \in Int /\ t * w \in Int
    OBVIOUS
  <2> QED BY <2>1, <1>2
<1>4. q < t
  BY <1>3
<1>5. q >= 0
  BY <1>3
<1> QED BY <1>1, <1>4, <1>5

\* A word more leaves more room for audio.
LEMMA MoreWords ==
  ASSUME NEW s \in Int, NEW a \in Nat, NEW w \in Nat, s <= a * w
  PROVE  s <= (a + 1) * w
<1>1. (a + 1) * w = a * w + w /\ a * w \in Int
  OBVIOUS
<1> QED BY <1>1

\* The arithmetic of lags.
LEMMA Lags ==
  ASSUME NEW i \in Nat
  PROVE  /\ Lag(i) \in Int
         /\ Lag(0) = Latency * Quantum + Quantum
         /\ Lag(i + 1) = Lag(i) + Quantum
         /\ i <= Reaction => Lag(i) <= Grace
<1>1. Latency \in Nat /\ Quantum \in Nat /\ Reaction \in Nat /\ Grace \in Nat
  BY EchoNumbers
<1>2. Lag(i) \in Int /\ Lag(0) = Latency * Quantum + Quantum /\ Lag(i + 1) = Lag(i) + Quantum
  BY <1>1 DEF Lag
<1>3. ASSUME i <= Reaction PROVE Lag(i) <= Grace
  <2>1. (Latency + 1 + i) * Quantum <= (Latency + 1 + Reaction) * Quantum
    BY <1>1, <1>3
  <2>2. (Latency + 1 + Reaction) * Quantum <= Grace
    BY EchoGraceAssumption
  <2>3. (Latency + 1 + i) * Quantum \in Int /\ (Latency + 1 + Reaction) * Quantum \in Int
    BY <1>1
  <2> QED BY <2>1, <2>2, <2>3, <1>1 DEF Lag
<1> QED BY <1>2, <1>3

\* EngineInv holds initially.
LEMMA EngineInit == Init => EngineInv
<1> SUFFICES ASSUME Init PROVE EngineInv
  OBVIOUS
<1>1. sent = 0
  BY DEF Init, PlaybackInit, PlayoutInit
<1>2. PartTypes
  <2>1. 0 \in 0..Total /\ Reaction + 1 \in 0..Reaction + 1 /\ 0 \in 0..MaxSaid
    BY EchoNumbers
  <2>2. /\ smart \in BOOLEAN /\ turnOn = TRUE /\ written = 0 /\ recorded = 0
        /\ lastHeard = 0 /\ idle = Reaction + 1
        /\ flux = "idle" /\ userTurnAudible = FALSE /\ bargeHeld = FALSE
        /\ first = 0 /\ last = 0 /\ said = 0 /\ spoilt = FALSE
    BY DEF Init
  <2>3. Reaction + 1 \in 0..Reaction + 1 /\ 0 <= 0 /\ FALSE \in BOOLEAN /\ TRUE \in BOOLEAN
    BY <2>1
  <2>4. /\ smart \in BOOLEAN /\ turnOn \in BOOLEAN /\ userTurnAudible \in BOOLEAN
        /\ bargeHeld \in BOOLEAN /\ spoilt \in BOOLEAN /\ flux \in {"idle", "talking", "answered"}
    BY <2>2
  <2>5. /\ written \in 0..Total /\ recorded \in 0..Total /\ lastHeard \in 0..Total
        /\ idle \in 0..Reaction + 1
        /\ first \in 0..Total /\ last \in 0..Total /\ first <= last /\ said \in 0..MaxSaid
    BY <2>1, <2>2, <2>3
  <2> QED BY <2>4, <2>5 DEF PartTypes
<1>3. Recording /\ SoundsOn /\ Judged
  BY EchoNumbers DEF Init, Recording, SoundsOn, Judged
<1>4. 0 * WordLen = 0
  BY EchoNumbers
<1>5. Voiced
  BY <1>1, <1>4 DEF Init, Voiced
<1> QED BY <1>2, <1>3, <1>5 DEF EngineInv

\* #cancelTurn records what was written.
LEMMA Cuts ==
  ASSUME PartTypes, Recording, Cut
  PROVE  /\ turnOn' = FALSE /\ written' = written
         /\ recorded' \in 0..Total /\ Recording'
         /\ sent' = sent /\ cut' = sent + 1
<1>1. turnOn' = FALSE /\ written' = written /\ recorded' = RecordedAfterCut
  BY DEF Cut
<1>2. sent' = sent /\ cut' = sent + 1
  BY DEF Cut, Clears, SendClear
<1>3. recorded' = written
  BY <1>1, EchoNumbers DEF RecordedAfterCut, Recording
<1>4. recorded' \in 0..Total
  BY <1>3 DEF PartTypes
<1> QED BY <1>1, <1>2, <1>3, <1>4 DEF Recording

\* What Voiced and SoundsOn are about may stay as it is.
LEMMA HeardBefore ==
  ASSUME EngineInv, PlaybackInv,
         written' = written, sent' = sent, UNCHANGED hearing,
         (cut' = cut /\ horizon' = horizon) \/ cut' = sent + 1,
         flux' # "answered" => flux # "answered"
  PROVE  Voiced' /\ SoundsOn'
<1>1. lastHeard' = lastHeard /\ idle' = idle
  BY DEF hearing
<1>2. Voiced'
  BY <1>1 DEF EngineInv, Voiced
<1>3. SoundsOn'
  <2>1. CASE cut' = cut /\ horizon' = horizon
    BY <2>1, <1>1 DEF EngineInv, SoundsOn, Lag
  <2>2. CASE cut' = sent + 1
    <3>1. sent \in Nat
      BY DEF PlaybackInv, PlayoutInv, WireInv, PlayoutTypeOK
    <3>2. lastHeard > 0 => cut' # 1
      BY <2>2, <3>1 DEF EngineInv, Voiced
    <3> QED BY <3>2, <1>1 DEF SoundsOn
  <2> QED BY <2>1, <2>2
<1> QED BY <1>2, <1>3

(* EngineInv, action by action. *)

\* It is kept by the LLM's deltas and by the ends of the response and the turn,
LEMMA ReplyHolds ==
  ASSUME EchoInv, Writes \/ Records \/ Finishes
  PROVE  EngineInv'
<1> USE DEF EchoInv, EngineInv
<1>1. /\ UNCHANGED <<sent, cut, horizon, smart, lastHeard, idle, flux, userTurnAudible,
                     bargeHeld, first, last, said, spoilt>>
  BY DEF Writes, Records, Finishes, playbackVars, playoutVars, hearing, userTurn
<1>2. Judged'
  BY <1>1 DEF Judged
<1>3. SoundsOn'
  BY <1>1 DEF SoundsOn, Lag
<1>4. CASE Writes
  <2>1. turnOn /\ written < Total /\ written' = written + 1 /\ UNCHANGED <<turnOn, recorded>>
    BY <1>4 DEF Writes
  <2>2. PartTypes'
    <3>1. written' \in 0..Total
      BY <2>1, EchoNumbers DEF PartTypes
    <3> QED BY <2>1, <1>1, <3>1 DEF PartTypes
  <2>3. Recording'
    BY <2>1, EchoNumbers DEF Recording
  <2>4. Voiced'
    <3>1. written \in Nat /\ sent \in Int /\ WordLen \in Nat
      BY EchoNumbers DEF PartTypes, PlaybackInv, PlayoutInv, WireInv, PlayoutTypeOK
    <3>2. flux' # "answered" => sent' <= written' * WordLen
      <4> SUFFICES ASSUME flux' # "answered" PROVE sent' <= written' * WordLen
        OBVIOUS
      <4>1. sent <= written * WordLen
        BY <1>1 DEF Voiced
      <4>2. sent <= (written + 1) * WordLen
        BY <4>1, <3>1, MoreWords
      <4> QED BY <4>2, <1>1, <2>1
    <3>3. lastHeard' <= written'
      BY <3>1, <1>1, <2>1 DEF Voiced, PartTypes
    <3> QED BY <3>2, <3>3, <1>1 DEF Voiced
  <2> QED BY <1>2, <1>3, <2>2, <2>3, <2>4
<1>5. CASE Records
  <2>1. turnOn /\ written = Total /\ recorded' = Total /\ UNCHANGED <<turnOn, written>>
    BY <1>5 DEF Records
  <2>2. PartTypes'
    <3>1. recorded' \in 0..Total
      BY <2>1, EchoNumbers
    <3> QED BY <2>1, <1>1, <3>1 DEF PartTypes
  <2>3. Recording' /\ Voiced'
    BY <2>1, <1>1 DEF Recording, Voiced
  <2> QED BY <1>2, <1>3, <2>2, <2>3
<1>6. CASE Finishes
  <2>1. turnOn /\ recorded = Total /\ turnOn' = FALSE /\ UNCHANGED <<recorded, written>>
    BY <1>6 DEF Finishes
  <2>2. PartTypes'
    BY <2>1, <1>1 DEF PartTypes
  <2>3. Recording' /\ Voiced'
    BY <2>1, <1>1 DEF Recording, Voiced
  <2> QED BY <1>2, <1>3, <2>2, <2>3
<1> QED BY <1>4, <1>5, <1>6

\* by audio that is sent and by what arrives,
LEMMA SoundHolds ==
  ASSUME EchoInv, Delivers \/ \E n \in Chunks : Speaks(n) \/ Answers(n)
  PROVE  EngineInv'
<1> USE DEF EchoInv, EngineInv
<1>1. UNCHANGED <<smart, turnOn, written, recorded, lastHeard, idle, flux, userTurnAudible,
                  bargeHeld, first, last, said, spoilt>>
  BY DEF Delivers, Speaks, Answers, writing, hearing, userTurn
<1>2. PartTypes' /\ Recording' /\ Judged'
  BY <1>1 DEF PartTypes, Recording, Judged
<1>3. horizon \in Int /\ sent \in Nat
  BY DEF PlaybackInv, PlayoutInv, WireInv, PlayoutTypeOK
<1>4. CASE Delivers
  <2>1. UNCHANGED <<sent, cut, horizon>>
    BY <1>4 DEF Delivers, Receives
  <2> QED BY <2>1, <1>1, <1>2 DEF Voiced, SoundsOn, Lag
<1>5. ASSUME NEW n \in Chunks, Speaks(n) \/ Answers(n) PROVE EngineInv'
  <2>1. n \in Nat
    BY PlayoutAssumption
  <2>2. sent' = sent + n /\ cut' = cut /\ horizon' = HorizonAfter(n)
    BY <1>5 DEF Speaks, Answers, Sends, SendAudio
  <2>3. horizon' \in Int /\ horizon' >= horizon /\ sent' >= sent /\ sent' \in Int
    BY <2>1, <2>2, <1>3 DEF HorizonAfter, Larger
  <2>4. flux # "answered" => sent' <= written * WordLen
    BY <1>5, <2>2 DEF Speaks, Answers
  <2>5. Voiced'
    BY <2>3, <2>4, <1>1, <1>3 DEF Voiced
  <2>6. SoundsOn'
    <3> SUFFICES ASSUME lastHeard > 0 /\ idle <= Reaction /\ cut = 1 /\ flux # "answered"
                 PROVE  horizon' + Lag(idle) > 0
      BY <1>1, <2>2 DEF SoundsOn, Lag
    <3>1. horizon + Lag(idle) > 0
      BY DEF SoundsOn
    <3>2. Lag(idle) \in Int
      BY Lags, EchoNumbers DEF PartTypes
    <3> QED BY <3>1, <3>2, <2>3, <1>3
  <2> QED BY <1>2, <2>5, <2>6
<1> QED BY <1>4, <1>5

\* by what the microphone hears,
LEMMA PlaysHolds ==
  ASSUME EchoInv, Plays
  PROVE  EngineInv'
<1> USE DEF EchoInv, EngineInv
<1>1. UNCHANGED <<smart, turnOn, written, recorded, flux, userTurnAudible,
                  bargeHeld, first, last, said, spoilt>>
  BY DEF Plays, writing, userTurn
<1>2. Recording' /\ Judged'
  BY <1>1 DEF Recording, Judged
<1>3. /\ sent' = sent /\ cut' = cut /\ horizon' \in Int /\ horizon' >= horizon - Quantum
      /\ out' # <<>> => /\ Last(out') \in Int /\ 1 <= Last(out') /\ Last(out') <= sent
                        /\ cut = 1 => horizon' + Latency * Quantum + Quantum > 0
  BY Sounds DEF Plays
<1>4. /\ horizon \in Int /\ sent \in Nat /\ written \in Nat /\ WordLen \in Nat \ {0}
      /\ idle \in Nat /\ Quantum \in Int /\ Reaction \in Nat /\ Total \in Nat /\ written <= Total
      /\ Latency * Quantum \in Int
  BY EchoNumbers, Ages DEF PlaybackInv, PlayoutInv, WireInv, PlayoutTypeOK, PartTypes
<1>5. CASE flux = "answered"
  <2>1. lastHeard' = lastHeard /\ idle' = idle
    BY <1>5 DEF Plays, hearing
  <2> QED BY <1>1, <1>2, <1>3, <1>5, <2>1 DEF PartTypes, Voiced, SoundsOn
<1>6. CASE flux # "answered" /\ out' = <<>>
  <2>1. lastHeard' = lastHeard /\ idle' = IF idle > Reaction THEN idle ELSE idle + 1
    BY <1>6 DEF Plays
  <2>2. idle' \in 0..Reaction + 1
    BY <2>1, <1>4 DEF PartTypes
  <2>3. PartTypes' /\ Voiced'
    BY <2>1, <2>2, <1>1, <1>3 DEF PartTypes, Voiced
  <2>4. SoundsOn'
    <3> SUFFICES ASSUME lastHeard > 0, idle' <= Reaction, cut = 1
                 PROVE  horizon' + Lag(idle') > 0
      BY <2>1, <1>3 DEF SoundsOn, Lag
    <3>1. idle <= Reaction /\ idle' = idle + 1
      BY <2>1, <1>4
    <3>2. horizon + Lag(idle) > 0
      BY <3>1, <1>6 DEF SoundsOn
    <3>3. Lag(idle') = Lag(idle) + Quantum /\ Lag(idle) \in Int
      BY <3>1, <1>4, Lags
    <3> QED BY <3>2, <3>3, <1>3, <1>4
  <2> QED BY <1>2, <2>3, <2>4
<1>7. CASE flux # "answered" /\ out' # <<>>
  <2> DEFINE w == (Last(out') - 1) \div WordLen + 1
  <2>1. lastHeard' = w /\ idle' = 0
    BY <1>7 DEF Plays
  <2>2. Last(out') \in Int /\ 1 <= Last(out') /\ Last(out') <= sent
        /\ (cut = 1 => horizon' + Latency * Quantum + Quantum > 0)
    BY <1>3, <1>7
  <2>3. sent <= written * WordLen
    BY <1>7 DEF Voiced
  <2>4. w \in 1..written
    <3>1. PICK x \in Int : x = Last(out')
      BY <2>2
    <3>2. x <= written * WordLen /\ 1 <= x
      <4>1. written * WordLen \in Int
        BY <1>4
      <4> QED BY <4>1, <3>1, <2>2, <2>3, <1>4
    <3> QED BY <3>1, <3>2, <1>4, WordOf
  <2> HIDE DEF w
  <2>5. lastHeard' \in 0..Total /\ lastHeard' <= written /\ idle' \in 0..Reaction + 1
    BY <2>1, <2>4, <1>4
  <2>6. PartTypes'
    BY <2>5, <1>1 DEF PartTypes
  <2>7. Voiced'
    BY <2>2, <2>5, <1>1, <1>3, <1>4 DEF Voiced
  <2>8. SoundsOn'
    <3> SUFFICES ASSUME cut = 1 PROVE horizon' + Lag(idle') > 0
      BY <1>3 DEF SoundsOn, Lag
    <3>1. Lag(idle') = Latency * Quantum + Quantum
      BY <2>1, Lags
    <3> QED BY <3>1, <2>2, <1>3, <1>4
  <2> QED BY <1>2, <2>6, <2>7, <2>8
<1> QED BY <1>5, <1>6, <1>7

\* by the start of a user turn and by the user's words,
LEMMA TurnHolds ==
  ASSUME EchoInv, StartOfTurn \/ UserSpeaks
  PROVE  EngineInv'
<1> USE DEF EchoInv, EngineInv
<1>1. CASE UserSpeaks
  <2>1. /\ said < MaxSaid /\ said' = said + 1 /\ flux = "talking" /\ flux' = flux
        /\ UNCHANGED <<sent, cut, horizon, smart, turnOn, written, recorded, lastHeard, idle,
                       userTurnAudible, bargeHeld, first, last, spoilt>>
    BY <1>1 DEF UserSpeaks, playbackVars, playoutVars, writing, hearing
  <2>2. said' \in 0..MaxSaid
    BY <2>1, EchoNumbers DEF PartTypes
  <2>3. PartTypes'
    BY <2>1, <2>2 DEF PartTypes
  <2>4. Recording' /\ Voiced' /\ SoundsOn' /\ Judged'
    BY <2>1 DEF Recording, Voiced, SoundsOn, Judged, Lag
  <2> QED BY <2>3, <2>4
<1>2. CASE StartOfTurn
  <2>1. /\ flux = "idle" /\ flux' = "talking" /\ smart' = smart
        /\ lastHeard' = lastHeard /\ idle' = idle /\ UNCHANGED hearing
        /\ spoilt' = (cut > 1)
        /\ userTurnAudible' = AgentAudible /\ bargeHeld' = (AgentAudible /\ smart)
        /\ IF bargeHeld' THEN UNCHANGED <<playbackVars, writing>> ELSE Cut
    BY <1>2 DEF StartOfTurn, hearing
  <2>2. \/ /\ lastHeard > 0 /\ idle <= Reaction
           /\ first' = lastHeard /\ last' = lastHeard /\ said' = 0
        \/ first' = 0 /\ last' = 0 /\ said' = 1
    BY <1>2 DEF StartOfTurn
  <2>3. /\ turnOn' \in BOOLEAN /\ written' = written /\ recorded' \in 0..Total /\ Recording'
        /\ sent' = sent /\ ((cut' = cut /\ horizon' = horizon) \/ cut' = sent + 1)
    <3>1. CASE bargeHeld'
      BY <2>1, <3>1 DEF playbackVars, playoutVars, writing, Recording, PartTypes
    <3>2. CASE ~bargeHeld'
      BY <2>1, <3>2, Cuts
    <3> QED BY <3>1, <3>2
  <2>4. Voiced' /\ SoundsOn'
    BY <2>1, <2>3, HeardBefore
  <2>5. PartTypes'
    <3>1. /\ smart' \in BOOLEAN /\ userTurnAudible' \in BOOLEAN
          /\ bargeHeld' \in BOOLEAN /\ spoilt' \in BOOLEAN
      BY <2>1 DEF PartTypes, AgentAudible
    <3>2. first' \in 0..Total /\ last' \in 0..Total /\ first' <= last' /\ said' \in 0..MaxSaid
      <4>1. 0 \in 0..Total /\ {0, 1} \subseteq 0..MaxSaid
        BY EchoNumbers, EchoAssumption
      <4>2. lastHeard \in 0..Total
        BY DEF PartTypes
      <4> QED BY <4>1, <4>2, <2>2
    <3> QED BY <2>1, <2>3, <3>1, <3>2 DEF PartTypes
  <2>6. Judged'
    <3> SUFFICES ASSUME first' > 0, ~spoilt' PROVE userTurnAudible'
      BY DEF Judged
    <3>1. lastHeard > 0 /\ idle <= Reaction
      BY <2>2
    <3>2. cut = 1
      <4>1. cut \in Int /\ 1 <= cut
        BY DEF PlaybackInv, PlayoutInv, WireInv, PlayoutTypeOK
      <4>2. ~(cut > 1)
        BY <2>1, Zenon
      <4> QED BY <4>1, <4>2
    <3>3. horizon + Lag(idle) > 0
      BY <3>1, <3>2, <2>1 DEF SoundsOn
    <3>4. Lag(idle) \in Int /\ Lag(idle) <= Grace /\ horizon \in Int /\ Grace \in Int
      <4>1. horizon \in Int /\ Grace \in Int /\ idle \in Nat
        BY EchoNumbers DEF PartTypes, PlaybackInv, PlayoutInv, WireInv, PlayoutTypeOK
      <4> QED BY <4>1, <3>1, Lags
    <3>5. AgentAudible
      BY <3>3, <3>4 DEF AgentAudible
    <3> QED BY <3>5, <2>1
  <2> QED BY <2>3, <2>4, <2>5, <2>6
<1> QED BY <1>1, <1>2

\* A transcript ends between the word it ended with before and the last one heard.
LEMMA HeardWords ==
  ASSUME EngineInv, NEW e \in 0..Total, HeardUpTo(e)
  PROVE  /\ first <= e
         /\ first # 0 => last <= e /\ e <= lastHeard
BY EchoNumbers DEF EngineInv, PartTypes, HeardUpTo

\* and by the transcripts.
LEMMA UpdateHolds ==
  ASSUME EchoInv, NEW e \in 0..Total,
         Update(e) \/ EndOfTurnEcho(e) \/ EndOfTurnAnswered(e)
  PROVE  EngineInv'
<1> USE DEF EchoInv, EngineInv
<1>1. /\ last' = e /\ HeardUpTo(e) /\ flux = "talking"
      /\ flux' \in {"idle", "talking", "answered"} /\ bargeHeld' \in BOOLEAN
      /\ UNCHANGED <<smart, lastHeard, idle, userTurnAudible, first, said, spoilt>>
      /\ UNCHANGED hearing
  <2>1. CASE Update(e)
    BY <2>1 DEF Update, hearing, PartTypes
  <2>2. CASE EndOfTurnEcho(e)
    BY <2>2 DEF EndOfTurnEcho, hearing
  <2>3. CASE EndOfTurnAnswered(e)
    <3>1. bargeHeld' \in BOOLEAN
      BY <2>3, Zenon DEF EndOfTurnAnswered
    <3> QED BY <2>3, <3>1 DEF EndOfTurnAnswered, hearing
  <2> QED BY <2>1, <2>2, <2>3
<1>2. Cut \/ UNCHANGED <<playbackVars, writing>>
  BY DEF Update, EndOfTurnEcho, EndOfTurnAnswered
<1>3. /\ turnOn' \in BOOLEAN /\ written' = written /\ recorded' \in 0..Total /\ Recording'
      /\ sent' = sent /\ ((cut' = cut /\ horizon' = horizon) \/ cut' = sent + 1)
  <2>1. CASE Cut
    BY <2>1, Cuts
  <2>2. CASE UNCHANGED <<playbackVars, writing>>
    BY <2>2 DEF playbackVars, playoutVars, writing, Recording, PartTypes
  <2> QED BY <1>2, <2>1, <2>2
<1>4. Voiced' /\ SoundsOn'
  BY <1>1, <1>3, HeardBefore
<1>5. PartTypes'
  BY <1>1, <1>3, HeardWords DEF PartTypes
<1>6. Judged'
  BY <1>1 DEF Judged
<1> QED BY <1>3, <1>4, <1>5, <1>6

\* The inductive invariant of Echo holds initially
LEMMA EchoInit == Init => EchoInv
BY PlaybackInitHolds, EngineInit DEF Init, EchoInv

\* and is kept by every step
LEMMA EchoHolds == EchoInv /\ [Next]_vars => EchoInv'
<1> SUFFICES ASSUME EchoInv, [Next]_vars PROVE EchoInv'
  OBVIOUS
<1>1. PlaybackInv'
  BY EchoSteps, PlaybackHolds DEF EchoInv
<1>2. EngineInv'
  <2>1. CASE Writes \/ Records \/ Finishes
    BY <2>1, ReplyHolds
  <2>2. CASE Delivers \/ \E n \in Chunks : Speaks(n) \/ Answers(n)
    BY <2>2, SoundHolds
  <2>3. CASE Plays
    BY <2>3, PlaysHolds
  <2>4. CASE StartOfTurn \/ UserSpeaks
    BY <2>4, TurnHolds
  <2>5. CASE \E e \in 0..Total : Update(e) \/ EndOfTurnEcho(e) \/ EndOfTurnAnswered(e)
    BY <2>5, UpdateHolds
  <2>6. CASE UNCHANGED vars
    BY <2>6 DEF vars, playbackVars, playoutVars, writing, hearing, userTurn,
       EchoInv, EngineInv, PartTypes, Recording, Voiced, SoundsOn, Judged, Lag
  <2> QED BY <2>1, <2>2, <2>3, <2>4, <2>5, <2>6 DEF Next
<1> QED BY <1>1, <1>2 DEF EchoInv

\* and so always holds.
LEMMA EchoAlways == Spec => []EchoInv
BY EchoInit, EchoHolds, PTL DEF Spec

\* Every variable of Echo keeps its type, in every reachable state: no sample is
\* rendered that was not sent, nor more than a quantum, and no word heard that was not
\* written.
THEOREM EchoIsTyped == Spec => []TypeOK
<1>1. EchoInv => TypeOK
  BY PlaybackTyped DEF EchoInv, EngineInv, PartTypes, TypeOK
<1> QED BY <1>1, EchoAlways, PTL

\* The player of the page (player-worklet.js:10-50) implements Playout: every step of
\* the queue and of process() is a step of the abstract player, or none.
THEOREM PlayerPlaysAsSent == Spec => PlaysAsSent
<1>1. Init => PlayoutInit
  BY DEF Init, PlaybackInit
<1>2. EchoInv /\ [Next]_vars => [PlayoutNext]_playoutVars
  BY EchoSteps, PlaybackRefines DEF EchoInv
<1> QED BY <1>1, <1>2, EchoAlways, PTL DEF Spec, PlayoutSpec, PlaysAsSent

\* The horizon sendAudio keeps (server.js:376-383) is when the player of the page ends,
\* within the delay of the path.
THEOREM HorizonTracksPlayer == Spec => []HorizonTracksPlayout
<1>1. EchoInv => HorizonTracksPlayout
  BY DEF EchoInv, PlaybackInv, PlayoutInv
<1> QED BY <1>1, EchoAlways, PTL

-----------------------------------------------------------------------------
(* What the engine makes of the transcript of a user turn. *)

\* A concatenation of texts, word by word.
LEMMA Strung ==
  ASSUME NEW s \in Seq(STRING), NEW t \in Seq(STRING), NEW w, w = s \o t
  PROVE  /\ w \in Seq(STRING) /\ Len(w) = Len(s) + Len(t)
         /\ \A i \in 1..Len(s) + Len(t) : w[i] = IF i <= Len(s) THEN s[i] ELSE t[i - Len(s)]
BY ConcatProperties

\* A part of a text, word by word.
LEMMA Cutting ==
  ASSUME NEW s \in Seq(STRING), NEW a \in Nat, NEW b \in Nat, 1 <= a, a <= b + 1, b <= Len(s),
         NEW w, w = SubSeq(s, a, b)
  PROVE  /\ w \in Seq(STRING) /\ Len(w) = b - a + 1
         /\ \A i \in 1..b - a + 1 : w[i] = s[a + i - 1]
<1>1. Len(s) \in Nat
  OBVIOUS
<1>2. a \in 1..Len(s) + 1 /\ b \in a - 1..Len(s)
  BY <1>1
<1> QED BY <1>2, SubSeqProperties

\* All that is remembered of the agent is words of the reply: from where the turn in
\* flight stands, or else the entry of the history.
LEMMA Remembered ==
  ASSUME PartTypes
  PROVE  /\ AgentText \in Seq(STRING)
         /\ Len(AgentText) = recorded + (IF turnOn THEN written ELSE 0)
         /\ \A i \in 1..recorded : AgentText[i] = Reply[i]
         /\ turnOn => \A i \in 1..written : AgentText[recorded + i] = Reply[i]
<1> DEFINE s == SubSeq(Reply, 1, recorded)
           t == IF turnOn THEN SubSeq(Reply, 1, written) ELSE <<>>
<1>1. /\ Reply \in Seq(STRING) /\ recorded \in Nat /\ written \in Nat
      /\ recorded <= Len(Reply) /\ written <= Len(Reply)
  BY EchoNumbers DEF PartTypes, Total
<1>2. s \in Seq(STRING) /\ Len(s) = recorded /\ \A i \in 1..recorded : s[i] = Reply[i]
  <2> HIDE DEF s
  <2>1. s = SubSeq(Reply, 1, recorded)
    BY DEF s
  <2>2. /\ s \in Seq(STRING) /\ Len(s) = recorded - 1 + 1
        /\ \A i \in 1..recorded - 1 + 1 : s[i] = Reply[1 + i - 1]
    BY <1>1, <2>1, Cutting
  <2> QED BY <1>1, <2>2
<1>3. /\ t \in Seq(STRING) /\ Len(t) = IF turnOn THEN written ELSE 0
      /\ turnOn => \A i \in 1..written : t[i] = Reply[i]
  <2>1. CASE turnOn
    <3> DEFINE u == SubSeq(Reply, 1, written)
    <3>1. u = SubSeq(Reply, 1, written) /\ t = u
      BY <2>1
    <3> HIDE DEF u, t
    <3>2. /\ u \in Seq(STRING) /\ Len(u) = written - 1 + 1
          /\ \A i \in 1..written - 1 + 1 : u[i] = Reply[1 + i - 1]
      BY <1>1, <3>1, Cutting
    <3> QED BY <1>1, <3>1, <3>2, <2>1
  <2>2. CASE ~turnOn
    BY <2>2
  <2> QED BY <2>1, <2>2
<1> DEFINE w == s \o t
<1>4. w = AgentText
  BY DEF AgentText
<1> HIDE DEF s, t
<1>5. w = s \o t
  OBVIOUS
<1> HIDE DEF w
<1>6. /\ w \in Seq(STRING) /\ Len(w) = Len(s) + Len(t)
      /\ \A i \in 1..Len(s) + Len(t) : w[i] = IF i <= Len(s) THEN s[i] ELSE t[i - Len(s)]
  BY <1>2, <1>3, <1>5, Strung
<1>7. \A i \in 1..recorded : w[i] = Reply[i]
  BY <1>1, <1>2, <1>3, <1>6
<1>8. ASSUME turnOn, NEW i \in 1..written PROVE w[recorded + i] = Reply[i]
  <2>1. /\ recorded + i \in 1..recorded + written /\ ~(recorded + i <= recorded)
        /\ (recorded + i) - recorded = i
    BY <1>1
  <2> QED BY <2>1, <1>2, <1>3, <1>6, <1>8
<1> QED BY <1>2, <1>3, <1>4, <1>6, <1>7, <1>8

\* The window on it.
Since == Larger(1, Len(AgentText) - Window + 1)

\* Each word in the window is a word of the remembered text.
LEMMA Recent ==
  ASSUME PartTypes
  PROVE  /\ Len(AgentText) \in Nat /\ Since \in Nat /\ 1 <= Since /\ Since <= Len(AgentText) + 1
         /\ RecentAgentText \in Seq(STRING)
         /\ Len(RecentAgentText) = Len(AgentText) - Since + 1
         /\ \A i \in 1..Len(RecentAgentText) : RecentAgentText[i] = AgentText[Since + i - 1]
<1>1. AgentText \in Seq(STRING) /\ Len(AgentText) \in Nat
  BY Remembered
<1>2. Window \in Nat /\ Window > 0
  BY EchoAssumption
<1>3. Since \in Nat /\ 1 <= Since /\ Since <= Len(AgentText) + 1
  BY <1>1, <1>2 DEF Since, Larger
<1>4. RecentAgentText = SubSeq(AgentText, Since, Len(AgentText))
  BY DEF RecentAgentText, Since
<1> DEFINE r == RecentAgentText
           a == AgentText
<1> HIDE DEF r, a
<1>5. /\ r \in Seq(STRING) /\ Len(r) = Len(a) - Since + 1
      /\ \A i \in 1..Len(a) - Since + 1 : r[i] = a[Since + i - 1]
  BY <1>1, <1>3, <1>4, Cutting DEF r, a
<1> QED BY <1>1, <1>3, <1>5 DEF r, a

\* The same word a number of times.
LEMMA Repeated ==
  ASSUME NEW S, NEW u \in S, NEW n \in Nat, NEW t, t = [i \in 1..n |-> u]
  PROVE  t \in Seq(S) /\ Len(t) = n /\ \A i \in 1..n : t[i] = u
OBVIOUS

\* How many words of the reply are in the transcript.
Echoed(e) == IF first = 0 THEN 0 ELSE e - first + 1

\* The transcript, word by word: the reply's words, then the user's.
LEMMA Transcribed ==
  ASSUME PartTypes, NEW e \in 0..Total, first <= e
  PROVE  /\ Echoed(e) \in Nat /\ said \in Nat
         /\ Transcript(e) \in Seq(STRING)
         /\ Len(Transcript(e)) = Echoed(e) + said
         /\ \A i \in 1..Echoed(e) : Transcript(e)[i] = Reply[first + i - 1]
         /\ \A i \in 1..said : Transcript(e)[Echoed(e) + i] = UserWord
<1> DEFINE s == IF first = 0 THEN <<>> ELSE SubSeq(Reply, first, e)
           t == [i \in 1..said |-> UserWord]
           m == Echoed(e)
<1>1. /\ Reply \in Seq(STRING) /\ first \in Nat /\ e \in Nat /\ e <= Len(Reply) /\ said \in Nat
      /\ UserWord \in STRING
  BY EchoNumbers, EchoAssumption DEF PartTypes, Total
<1>2. m \in Nat
  BY <1>1 DEF Echoed
<1>3. s \in Seq(STRING) /\ Len(s) = m /\ \A i \in 1..m : s[i] = Reply[first + i - 1]
  <2>1. CASE first = 0
    <3>1. s = <<>> /\ m = 0
      BY <2>1 DEF Echoed
    <3> HIDE DEF s, m
    <3> QED BY <3>1
  <2>2. CASE first # 0
    <3>1. s = SubSeq(Reply, first, e) /\ m = e - first + 1
      BY <2>2 DEF Echoed
    <3> HIDE DEF s, m
    <3>2. 1 <= first /\ first <= e + 1
      BY <1>1, <2>2
    <3> QED BY <3>1, <3>2, <1>1, Cutting
  <2> QED BY <2>1, <2>2
<1>4. t \in Seq(STRING) /\ Len(t) = said /\ \A i \in 1..said : t[i] = UserWord
  <2>1. t = [i \in 1..said |-> UserWord]
    OBVIOUS
  <2> HIDE DEF t
  <2>2. t \in Seq(STRING)
    BY <1>1, <2>1, Repeated, Zenon
  <2>3. said \in Nat
    BY <1>1
  <2>4. Len(t) = said /\ \A i \in 1..said : t[i] = UserWord
    BY <2>1, <2>3
  <2> QED BY <2>2, <2>4
<1> DEFINE w == s \o t
<1>5. w = Transcript(e)
  BY DEF Transcript
<1> HIDE DEF s, t, m
<1>6. w = s \o t
  OBVIOUS
<1> HIDE DEF w
<1>7. /\ w \in Seq(STRING) /\ Len(w) = Len(s) + Len(t)
      /\ \A i \in 1..Len(s) + Len(t) : w[i] = IF i <= Len(s) THEN s[i] ELSE t[i - Len(s)]
  BY <1>3, <1>4, <1>6, Strung
<1>8. \A i \in 1..m : w[i] = Reply[first + i - 1]
  BY <1>1, <1>2, <1>3, <1>4, <1>7
<1>9. ASSUME NEW i \in 1..said PROVE w[m + i] = UserWord
  <2>1. m + i \in 1..m + said /\ ~(m + i <= m) /\ (m + i) - m = i
    BY <1>1, <1>2
  <2> QED BY <2>1, <1>3, <1>4, <1>7
<1> QED BY <1>1, <1>2, <1>3, <1>4, <1>5, <1>7, <1>8, <1>9 DEF m

\* Some of the reply's words in a row, where the text has them in a row.
LEMMA FoundIn ==
  ASSUME NEW a \in Seq(STRING), NEW t \in Seq(STRING), NEW o \in Nat, o + Len(t) <= Len(a),
         \A i \in 1..Len(t) : t[i] = a[o + i]
  PROVE  Within(t, a)
<1>1. Len(a) \in Nat /\ Len(t) \in Nat
  OBVIOUS
<1> DEFINE w == SubSeq(a, o + 1, o + Len(t))
<1>2. w = SubSeq(a, o + 1, o + Len(t))
  OBVIOUS
<1> HIDE DEF w
<1>3. w \in Seq(STRING) /\ Len(w) = (o + Len(t)) - (o + 1) + 1
      /\ \A i \in 1..(o + Len(t)) - (o + 1) + 1 : w[i] = a[(o + 1) + i - 1]
  <2>1. o + 1 \in Nat /\ o + Len(t) \in Nat /\ 1 <= o + 1 /\ o + 1 <= (o + Len(t)) + 1
    BY <1>1
  <2> QED BY <1>2, <2>1, Cutting
<1>4. (o + Len(t)) - (o + 1) + 1 = Len(t) /\ \A i \in 1..Len(t) : (o + 1) + i - 1 = o + i
  BY <1>1
<1>5. Len(w) = Len(t) /\ \A i \in 1..Len(w) : w[i] = t[i]
  BY <1>3, <1>4
<1>6. w = t
  BY <1>3, <1>5, SeqEqual
<1>7. o \in 0..Len(a) - Len(t)
  BY <1>1
<1> QED BY <1>2, <1>6, <1>7 DEF Within

\* An echo of words that are all remembered is found, whatever the threshold.
LEMMA EchoIsFound ==
  ASSUME EngineInv, NEW e \in 0..Total, HeardUpTo(e), first > 0, said = 0,
         (IF turnOn THEN written ELSE recorded) - first < Window,
         NEW threshold
  PROVE  IsEchoOf(Transcript(e), RecentAgentText, threshold)
<1> DEFINE a == RecentAgentText
           t == Transcript(e)
           m == e - first + 1
           p == IF turnOn THEN recorded ELSE 0
           z == IF turnOn THEN written ELSE recorded
           l == Len(AgentText)
<1>1. PartTypes /\ Recording /\ lastHeard <= written
  BY DEF EngineInv, Voiced
<1>2. /\ first \in Nat /\ e \in Nat /\ lastHeard \in Nat /\ written \in Nat /\ recorded \in Nat
      /\ Window \in Nat /\ Window > 0
  BY <1>1, EchoAssumption, EchoNumbers DEF PartTypes
<1>3. first <= e /\ e <= lastHeard
  BY HeardWords, <1>2
<1>4. Echoed(e) = m /\ m \in Nat /\ m > 0
  BY <1>2, <1>3 DEF Echoed
<1>5. t \in Seq(STRING) /\ Len(t) = m /\ \A i \in 1..m : t[i] = Reply[first + i - 1]
  <2>1. /\ t \in Seq(STRING) /\ Len(t) = Echoed(e) + said
        /\ \A i \in 1..Echoed(e) : t[i] = Reply[first + i - 1]
    BY <1>1, <1>3, Transcribed
  <2> HIDE DEF t, m
  <2> QED BY <2>1, <1>4
<1>6. e <= z /\ z \in Nat /\ p \in Nat /\ l = p + z
  <2>1. l = recorded + (IF turnOn THEN written ELSE 0)
    BY <1>1, Remembered
  <2>2. CASE turnOn
    BY <2>1, <2>2, <1>1, <1>2, <1>3
  <2>3. CASE ~turnOn
    BY <2>1, <2>3, <1>1, <1>2, <1>3 DEF Recording
  <2> QED BY <2>2, <2>3
<1>7. \A i \in 1..z : AgentText[p + i] = Reply[i]
  <2>1. CASE turnOn
    BY <2>1, <1>1, Remembered
  <2>2. CASE ~turnOn
    <3>1. p = 0 /\ z = recorded
      BY <2>2
    <3>2. \A i \in 1..recorded : AgentText[i] = Reply[i]
      BY <1>1, Remembered
    <3> HIDE DEF p, z
    <3>3. \A i \in 1..recorded : p + i = i
      BY <3>1, <1>2
    <3> QED BY <3>1, <3>2, <3>3
  <2> QED BY <2>1, <2>2
<1>8. z - first < Window
  OBVIOUS
<1>9. /\ Since \in Nat /\ 1 <= Since /\ Since <= l + 1
      /\ a \in Seq(STRING) /\ Len(a) = l - Since + 1
      /\ \A i \in 1..Len(a) : a[i] = AgentText[Since + i - 1]
  BY <1>1, Recent
<1>10. Since <= p + first
  <2> HIDE DEF p, z, l
  <2>1. Since = Larger(1, l - Window + 1)
    BY DEF Since, l
  <2> QED BY <2>1, <1>2, <1>6, <1>8 DEF Larger
<1> HIDE DEF a, t, m, p, z, l
<1> DEFINE o == p + first - Since
<1>11. o \in Nat /\ o + m <= l - Since + 1
  BY <1>2, <1>3, <1>6, <1>9, <1>10 DEF m
<1>12. ASSUME NEW i \in 1..m PROVE t[i] = a[o + i]
  <2>1. o + i \in 1..Len(a)
    BY <1>9, <1>11, <1>4, <1>6
  <2>2. Since + (o + i) - 1 = p + (first + i - 1) /\ first + i - 1 \in 1..z
    BY <1>2, <1>3, <1>4, <1>6, <1>9 DEF m
  <2>3. a[o + i] = AgentText[p + (first + i - 1)]
    <3> HIDE DEF o
    <3> QED BY <2>1, <2>2, <1>9
  <2>4. AgentText[p + (first + i - 1)] = Reply[first + i - 1]
    BY <2>2, <1>7
  <2> QED BY <2>3, <2>4, <1>5
<1>13. o + Len(t) <= Len(a)
  BY <1>5, <1>9, <1>11
<1>14. Within(t, a)
  <2> HIDE DEF o
  <2> QED BY <1>5, <1>9, <1>11, <1>12, <1>13, FoundIn
<1>15. t # <<>> /\ a # <<>>
  <2>1. Len(a) > 0 /\ Len(t) > 0
    BY <1>4, <1>5, <1>9, <1>11, <1>6
  <2> QED BY <2>1
<1> QED BY <1>14, <1>15 DEF IsEchoOf, a, t

\* As many words of the user as of the reply, or more, are no echo.
LEMMA UserIsNoEcho ==
  ASSUME PartTypes, NEW e \in 0..Total, first <= e,
         IsEchoOf(Transcript(e), RecentAgentText, SuppressAt)
  PROVE  said < Echoed(e)
<1> DEFINE a == RecentAgentText
           t == Transcript(e)
           m == Echoed(e)
           H == {i \in 1..Len(t) - 1 : <<t[i], t[i + 1]>> \in Pairs(a)}
<1>1. /\ m \in Nat /\ said \in Nat /\ t \in Seq(STRING) /\ Len(t) = m + said
      /\ \A i \in 1..said : t[m + i] = UserWord
  BY Transcribed
<1>2. \A i \in 1..Len(a) : a[i] # UserWord
  <2> SUFFICES ASSUME NEW i \in 1..Len(a) PROVE a[i] # UserWord
    OBVIOUS
  <2>1. /\ Since \in Nat /\ 1 <= Since /\ Len(a) = Len(AgentText) - Since + 1
        /\ Len(AgentText) \in Nat /\ a[i] = AgentText[Since + i - 1]
    BY Recent
  <2> DEFINE j == Since + i - 1
  <2>2. j \in 1..Len(AgentText)
    BY <2>1
  <2>3. /\ Len(AgentText) = recorded + (IF turnOn THEN written ELSE 0)
        /\ \A k \in 1..recorded : AgentText[k] = Reply[k]
        /\ turnOn => \A k \in 1..written : AgentText[recorded + k] = Reply[k]
    BY Remembered
  <2>4. /\ recorded \in Nat /\ written \in Nat /\ recorded <= Total /\ written <= Total
    BY EchoNumbers DEF PartTypes
  <2>5. \A k \in 1..Total : Reply[k] # UserWord
    <3>1. DOMAIN Reply = 1..Total
      BY EchoNumbers DEF Total
    <3> QED BY <3>1, EchoAssumption
  <2> HIDE DEF j
  <2>6. AgentText[j] # UserWord
    <3>1. CASE j <= recorded
      <4>1. j \in 1..recorded /\ j \in 1..Total
        BY <3>1, <2>1, <2>2, <2>4, EchoNumbers
      <4> QED BY <4>1, <2>3, <2>5
    <3>2. CASE ~(j <= recorded)
      <4>1. turnOn
        BY <3>2, <2>2, <2>3, <2>4
      <4>2. j - recorded \in 1..written /\ recorded + (j - recorded) = j
        BY <4>1, <3>2, <2>2, <2>3, <2>4
      <4>3. j - recorded \in 1..Total
        BY <4>2, <2>4, EchoNumbers
      <4> QED BY <4>1, <4>2, <4>3, <2>3, <2>5
    <3> QED BY <3>1, <3>2
  <2> QED BY <2>1, <2>6 DEF j
<1>3. a \in Seq(STRING)
  BY Recent
<1>4. t # <<>> /\ (Within(t, a) \/ (Len(t) >= 2 /\ 100 * Cardinality(H) >= 60 * (Len(t) - 1)))
  <2>1. Hits(t, a) = Cardinality(H)
    BY Zenon DEF Hits
  <2>2. t # <<>> /\ (Within(t, a) \/ (Len(t) >= 2 /\ 100 * Hits(t, a) >= SuppressAt * (Len(t) - 1)))
    <3> HIDE DEF H
    <3> QED BY DEF IsEchoOf
  <2> QED BY <2>1, <2>2 DEF SuppressAt
<1>5. \A i \in H : i + 1 <= m
  <2> SUFFICES ASSUME NEW i \in H, ~(i + 1 <= m) PROVE FALSE
    OBVIOUS
  <2>1. i \in 1..Len(t) - 1 /\ <<t[i], t[i + 1]>> \in Pairs(a)
    OBVIOUS
  <2> HIDE DEF a, t, m, H
  <2>2. PICK k \in 1..Len(a) - 1 : <<t[i], t[i + 1]>> = <<a[k], a[k + 1]>>
    BY <2>1 DEF Pairs
  <2>3. t[i + 1] = a[k + 1] /\ k + 1 \in 1..Len(a)
    BY <2>2, <1>3
  <2>4. (i + 1) - m \in 1..said /\ m + ((i + 1) - m) = i + 1
    BY <2>1, <1>1
  <2>5. t[i + 1] = UserWord
    BY <2>4, <1>1
  <2> QED BY <2>3, <2>5, <1>2
<1>6. H \subseteq 1..m - 1
  <2>1. \A i \in H : i \in 1..Len(t) - 1
    OBVIOUS
  <2> HIDE DEF H, t, m
  <2> QED BY <2>1, <1>1, <1>5
<1> HIDE DEF a, t, m, H
<1>7. Cardinality(H) \in Nat /\ Cardinality(H) <= (IF m = 0 THEN 0 ELSE m - 1)
  <2>1. m - 1 \in Int /\ 1 \in Int
    BY <1>1
  <2>2. IsFiniteSet(1..m - 1) /\ Cardinality(1..m - 1) = IF 1 > m - 1 THEN 0 ELSE (m - 1) - 1 + 1
    BY <2>1, FS_Interval
  <2>3. Cardinality(H) <= Cardinality(1..m - 1) /\ IsFiniteSet(H)
    BY <1>6, <2>2, FS_Subset
  <2>4. Cardinality(H) \in Nat
    BY <2>3, FS_CardinalityType
  <2> QED BY <2>2, <2>3, <2>4, <1>1
<1>8. ASSUME said >= m PROVE FALSE
  <2>1. said \in 1..said
    <3>1. Len(t) # 0
      BY <1>1, <1>4
    <3> QED BY <3>1, <1>1, <1>8
  <2>2. t[Len(t)] = UserWord
    BY <2>1, <1>1
  <2>3. ~Within(t, a)
    <3> SUFFICES ASSUME NEW o \in 0..Len(a) - Len(t), SubSeq(a, o + 1, o + Len(t)) = t
                 PROVE  FALSE
      BY DEF Within
    <3>1. Len(t) \in Nat /\ Len(t) > 0 /\ Len(a) \in Nat
      BY <2>1, <1>1, <1>3
    <3>2. /\ o + 1 \in Nat /\ o + Len(t) \in Nat /\ 1 <= o + 1 /\ o + 1 <= (o + Len(t)) + 1
          /\ o + Len(t) <= Len(a) /\ (o + Len(t)) - (o + 1) + 1 = Len(t)
          /\ (o + 1) + Len(t) - 1 = o + Len(t)
      BY <3>1
    <3>3. \A i \in 1..(o + Len(t)) - (o + 1) + 1 : t[i] = a[(o + 1) + i - 1]
      BY <3>2, <1>3, Cutting
    <3>4. t[Len(t)] = a[o + Len(t)] /\ o + Len(t) \in 1..Len(a)
      BY <3>1, <3>2, <3>3
    <3> QED BY <3>4, <2>2, <1>2
  <2>4. Len(t) >= 2 /\ 100 * Cardinality(H) >= 60 * (Len(t) - 1)
    BY <2>3, <1>4
  <2> QED BY <2>4, <1>1, <1>7, <1>8
<1> QED BY <1>1, <1>8 DEF m

-----------------------------------------------------------------------------
\* A user who adds as many words to an echo as were heard of the reply is not taken for
\* an echo (isEchoOf, server.js:166-181, at the threshold of #isSuppressedEcho): a finished
\* user turn goes unanswered only when fewer were added. The words of the user are
\* words that the reply does not have.
THEOREM UserIsNotAnEcho == Spec => UserIsHeard
<1>1. ASSUME EchoInv, Next, flux = "talking", flux' = "idle"
      PROVE  said < (IF first = 0 THEN 0 ELSE last' - first + 1)
  <2>1. PICK e \in 0..Total : EndOfTurnEcho(e)
    BY <1>1 DEF Next, Writes, Records, Finishes, Delivers, Plays, StartOfTurn, UserSpeaks,
                Speaks, Answers, Update, EndOfTurnAnswered, userTurn
  <2>2. HeardUpTo(e) /\ SuppressedEcho(Transcript(e)) /\ last' = e
    BY <2>1 DEF EndOfTurnEcho
  <2>3. first <= e /\ PartTypes
    BY <1>1, <2>2, HeardWords DEF EchoInv, EngineInv
  <2>4. said < Echoed(e)
    BY <2>2, <2>3, UserIsNoEcho DEF SuppressedEcho
  <2> QED BY <2>2, <2>4 DEF Echoed
<1>2. EchoInv /\ [Next]_vars =>
        [flux = "talking" /\ flux' = "idle" =>
           said < (IF first = 0 THEN 0 ELSE last' - first + 1)]_vars
  BY <1>1
<1> QED BY <1>2, EchoAlways, PTL DEF Spec, UserIsHeard

\* An echo of what the engine remembers is never answered and, in smart mode, never cuts
\* the reply (#onTurnInfo, server.js:499-571), at whatever moment it is heard and however
\* the audio was delayed.
THEOREM EchoIsLeftUnanswered == Spec => RememberedEchoLeavesReplyAlone
<1>1. ASSUME EchoInv, Next, flux' # flux \/ last' # last, PureEcho, InWindow
      PROVE  LeftAlone
  <2>1. first' > 0 /\ said' = 0 /\ ~spoilt' /\ flux' # "idle"
    BY <1>1 DEF PureEcho
  <2>2. CASE StartOfTurn
    <3>1. /\ flux' = "talking" /\ smart' = smart /\ spoilt' = (cut > 1)
          /\ userTurnAudible' = AgentAudible /\ bargeHeld' = (AgentAudible /\ smart)
          /\ bargeHeld' => UNCHANGED playbackVars
      BY <2>2 DEF StartOfTurn
    <3>2. EchoInv'
      BY <1>1, EchoHolds
    <3>3. userTurnAudible'
      BY <3>1, <3>2, <2>1 DEF EchoInv, EngineInv, Judged
    <3>4. smart => cut' = cut
      BY <3>1, <3>3 DEF playbackVars, playoutVars
    <3> QED BY <3>1, <3>4 DEF LeftAlone
  <2>3. ASSUME NEW e \in 0..Total,
               Update(e) \/ EndOfTurnEcho(e) \/ EndOfTurnAnswered(e)
        PROVE  LeftAlone
    <3>1. /\ HeardUpTo(e) /\ flux = "talking"
          /\ UNCHANGED <<first, said, spoilt, userTurnAudible>>
      BY <2>3 DEF Update, EndOfTurnEcho, EndOfTurnAnswered
    <3>2. first > 0 /\ said = 0 /\ ~spoilt
      BY <3>1, <2>1
    <3>3. (IF turnOn THEN written ELSE recorded) - first < Window
      BY <1>1, <3>1 DEF InWindow
    <3>4. \A threshold : IsEchoOf(Transcript(e), RecentAgentText, threshold)
      BY <1>1, <3>1, <3>2, <3>3, EchoIsFound DEF EchoInv
    <3>5. userTurnAudible
      BY <1>1, <3>1, <3>2 DEF EchoInv, EngineInv, Judged
    <3>6. SuppressedEcho(Transcript(e))
      BY <3>4, <3>5 DEF SuppressedEcho
    <3>7. ~EndOfTurnEcho(e) /\ ~EndOfTurnAnswered(e)
      BY <3>6, <2>1 DEF EndOfTurnEcho, EndOfTurnAnswered
    <3>8. Update(e)
      BY <2>3, <3>7
    <3>9. ~BargeProved(Transcript(e), Len(Transcript(e)) >= MinWords)
      BY <3>4 DEF BargeProved
    <3>10. flux' = flux /\ UNCHANGED playbackVars
      BY <3>8, <3>9 DEF Update
    <3> QED BY <3>1, <3>10 DEF LeftAlone, playbackVars, playoutVars
  <2>4. StartOfTurn \/ \E e \in 0..Total : Update(e) \/ EndOfTurnEcho(e) \/ EndOfTurnAnswered(e)
    BY <1>1 DEF Next, Writes, Records, Finishes, Delivers, Plays, UserSpeaks, Speaks, Answers,
                userTurn
  <2> QED BY <2>2, <2>3, <2>4
<1>2. EchoInv /\ [Next]_vars =>
        [flux' # flux \/ last' # last => (PureEcho /\ InWindow => LeftAlone)]_vars
  BY <1>1
<1> QED BY <1>2, EchoAlways, PTL DEF Spec, RememberedEchoLeavesReplyAlone
=============================================================================
