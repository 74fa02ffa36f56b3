----------------------------- MODULE Induction -----------------------------
(***************************************************************************)
(* Lemmas that the proofs share.  Induction over the natural numbers is by *)
(* least counterexample, as the well-foundedness of < is a fact of the     *)
(* library; sequences that are built element by element rest on it.        *)
(***************************************************************************)
EXTENDS Integers, SequencesExt, SequenceTheorems, WellFoundedInduction, TLAPS

-----------------------------------------------------------------------------
(* Natural numbers                                                         *)

\* A nonempty set of natural numbers has a least element.
LEMMA Least ==
  ASSUME NEW T, T \subseteq Nat, T # {}
  PROVE  \E x \in T : \A y \in T : x <= y
<1>1. PICK x \in T : \A y \in T : ~(<<y, x>> \in OpToRel(<, Nat))
  BY NatLessThanWellFounded, WFMin, Zenon
<1>2. \A y \in T : ~(y < x)
  BY <1>1, Zenon DEF OpToRel
<1>. QED
  BY <1>2

\* What holds of 0 and is kept from each k - 1 to k holds up to n.
LEMMA Upto ==
  ASSUME NEW n \in Nat, NEW T, 0 \in T, \A k \in 1 .. n : k - 1 \in T => k \in T
  PROVE  \A k \in 0 .. n : k \in T
<1>. DEFINE C == {k \in 0 .. n : k \notin T}
<1>1. SUFFICES ASSUME C # {} PROVE FALSE
  OBVIOUS
<1>2. PICK k \in C : \A l \in C : k <= l
  <2>1. C \subseteq Nat
    OBVIOUS
  <2>. HIDE DEF C
  <2>. QED
    BY <1>1, <2>1, Least
<1>3. k \in 1 .. n /\ k - 1 \in 0 .. n /\ k - 1 \notin C
  BY <1>2
<1>. QED
  BY <1>2, <1>3

\* The results f[k] of the steps s[1] .. s[k], taken from x.
Iterates(n, x, s, f) ==
  f = [k \in 0 .. n |-> IF k = 0 THEN x ELSE s[k][f[k - 1]]]

\* n steps can be taken one after the other.
LEMMA IterateExists ==
  ASSUME NEW n \in Nat, NEW X, NEW x \in X, NEW s \in [1 .. n -> [X -> X]]
  PROVE  \E f \in [0 .. n -> X] : Iterates(n, x, s, f)
<1>. DEFINE T == {m \in 0 .. n : \E f \in [0 .. m -> X] : Iterates(m, x, s, f)}
<1>1. 0 \in T
  <2>. DEFINE f == [k \in 0 .. 0 |-> x]
  <2>1. f \in [0 .. 0 -> X] /\ Iterates(0, x, s, f)
    BY DEF Iterates
  <2>. QED
    BY <2>1
<1>2. ASSUME NEW m \in 1 .. n, m - 1 \in T
      PROVE  m \in T
  <2>1. PICK f \in [0 .. m - 1 -> X] : Iterates(m - 1, x, s, f)
    BY <1>2
  <2>2. m - 1 \in 0 .. m - 1 /\ s[m] \in [X -> X]
    OBVIOUS
  <2>3. f[m - 1] \in X /\ s[m][f[m - 1]] \in X
    BY <2>1, <2>2
  <2>. DEFINE g == [k \in 0 .. m |-> IF k = m THEN s[m][f[m - 1]] ELSE f[k]]
  <2>4. g \in [0 .. m -> X]
    BY <2>1, <2>3
  <2>5. ASSUME NEW k \in 0 .. m
        PROVE  g[k] = IF k = 0 THEN x ELSE s[k][g[k - 1]]
    <3>1. CASE k = m
      <4>1. k # 0 /\ k - 1 \in 0 .. m /\ k - 1 # m
        BY <3>1
      <4>2. g[k - 1] = f[k - 1]
        BY <4>1
      <4>. QED
        BY <3>1, <4>1, <4>2
    <3>2. CASE k # m
      <4>1. k \in 0 .. m - 1
        BY <3>2
      <4>2. f[k] = IF k = 0 THEN x ELSE s[k][f[k - 1]]
        BY <2>1, <4>1 DEF Iterates
      <4>3. k # 0 => k - 1 \in 0 .. m /\ k - 1 # m
        BY <4>1
      <4>. QED
        BY <3>2, <4>2, <4>3
    <3>. QED
      BY <3>1, <3>2
  <2>. HIDE DEF g
  <2>6. g = [k \in 0 .. m |-> IF k = 0 THEN x ELSE s[k][g[k - 1]]]
    BY <2>4, <2>5
  <2>7. m \in 0 .. n /\ Iterates(m, x, s, g)
    BY <2>6 DEF Iterates
  <2>. QED
    BY <2>4, <2>7
<1>. HIDE DEF T
<1>3. \A m \in 0 .. n : m \in T
  <2>1. \A m \in 1 .. n : m - 1 \in T => m \in T
    BY <1>2
  <2>. QED
    BY <1>1, <2>1, Upto
<1>4. n \in T
  BY <1>3
<1>. QED
  BY <1>4 DEF T

-----------------------------------------------------------------------------
(* Sequences                                                               *)

\* A function on 1 .. n has length n.
LEMMA LenOf ==
  ASSUME NEW n \in Nat, NEW f, f = [i \in 1 .. n |-> f[i]]
  PROVE  Len(f) = n
<1>. DEFINE S == {f[i] : i \in 1 .. n}
<1>1. f \in [1 .. n -> S]
  OBVIOUS
<1>2. f \in Seq(S)
  BY <1>1, SeqDef
<1>3. DOMAIN f = 1 .. Len(f) /\ Len(f) \in Nat
  BY <1>2, LenProperties
<1>4. DOMAIN f = 1 .. n
  BY <1>1
<1>. QED
  BY <1>3, <1>4

\* A function on 1 .. n with values in S is a sequence of S.
LEMMA FunctionIsSeq == \A n \in Int : \A S : [1 .. n -> S] \subseteq Seq(S)
<1>. SUFFICES ASSUME NEW n \in Int, NEW S, NEW f \in [1 .. n -> S] PROVE f \in Seq(S)
  OBVIOUS
<1>1. CASE n \in Nat
  BY <1>1, SeqDef
<1>2. CASE n < 0
  <2>1. f \in [1 .. 0 -> S]
    BY <1>2
  <2>2. 0 \in Nat
    OBVIOUS
  <2>. QED
    BY <2>1, <2>2, SeqDef
<1>. QED
  BY <1>1, <1>2

LEMMA ConcatAt ==
  ASSUME NEW S, NEW s \in Seq(S), NEW t \in Seq(S)
  PROVE  /\ s \o t \in Seq(S) /\ Len(s \o t) = Len(s) + Len(t)
         /\ \A k \in 1 .. Len(s) : (s \o t)[k] = s[k]
         /\ \A k \in 1 .. Len(t) : (s \o t)[Len(s) + k] = t[k]
<1>1. Len(s) \in Nat /\ Len(t) \in Nat
  BY LenProperties
<1>2. /\ s \o t \in Seq(S) /\ Len(s \o t) = Len(s) + Len(t)
      /\ \A i \in 1 .. Len(s) + Len(t) :
           (s \o t)[i] = IF i <= Len(s) THEN s[i] ELSE t[i - Len(s)]
  BY ConcatProperties
<1>3. ASSUME NEW k \in 1 .. Len(s) PROVE (s \o t)[k] = s[k]
  BY <1>1, <1>2
<1>4. ASSUME NEW k \in 1 .. Len(t) PROVE (s \o t)[Len(s) + k] = t[k]
  <2>1. Len(s) + k \in 1 .. Len(s) + Len(t) /\ ~(Len(s) + k <= Len(s))
        /\ (Len(s) + k) - Len(s) = k
    BY <1>1
  <2>. QED
    BY <1>2, <2>1
<1>. QED
  BY <1>2, <1>3, <1>4

\* The first n elements of a sequence.
Firsts(s, n) == [k \in 1 .. n |-> s[k]]

LEMMA FirstsAre ==
  ASSUME NEW S, NEW s \in Seq(S), NEW n \in 0 .. Len(s)
  PROVE  /\ Firsts(s, n) \in Seq(S) /\ Len(Firsts(s, n)) = n
         /\ \A k \in 1 .. n : Firsts(s, n)[k] = s[k]
         /\ Firsts(s, 0) = <<>> /\ Firsts(s, Len(s)) = s
         /\ n < Len(s) => Append(Firsts(s, n), s[n + 1]) = Firsts(s, n + 1)
<1>1. Len(s) \in Nat /\ s \in [1 .. Len(s) -> S] /\ \A k \in 1 .. Len(s) : s[k] \in S
  BY LenProperties, ElementOfSeq
<1>2. ASSUME NEW m \in 0 .. Len(s)
      PROVE  /\ Firsts(s, m) \in Seq(S) /\ Len(Firsts(s, m)) = m
             /\ \A k \in 1 .. m : Firsts(s, m)[k] = s[k]
  <2>1. Firsts(s, m) \in [1 .. m -> S] /\ m \in Nat /\ m \in Int
    BY <1>1 DEF Firsts
  <2>2. Firsts(s, m) \in Seq(S)
    BY <2>1, FunctionIsSeq
  <2>3. Len(Firsts(s, m)) = m
    <3>1. Firsts(s, m) = [k \in 1 .. m |-> Firsts(s, m)[k]]
      BY DEF Firsts
    <3>. QED
      BY <2>1, <3>1, LenOf
  <2>. QED
    BY <2>2, <2>3 DEF Firsts
<1>3. Firsts(s, 0) = <<>>
  <2>1. Len(Firsts(s, 0)) = 0 /\ Firsts(s, 0) \in Seq(S)
    BY <1>1, <1>2
  <2>. QED
    BY <2>1, EmptySeq
<1>4. Firsts(s, Len(s)) = s
  BY <1>1 DEF Firsts
<1>5. ASSUME n < Len(s)
      PROVE  Append(Firsts(s, n), s[n + 1]) = Firsts(s, n + 1)
  <2>1. n + 1 \in 0 .. Len(s) /\ s[n + 1] \in S /\ n \in Nat
    BY <1>1, <1>5
  <2>. DEFINE a == Append(Firsts(s, n), s[n + 1])
              b == Firsts(s, n + 1)
  <2>2. /\ a \in Seq(S) /\ Len(a) = n + 1 /\ a[n + 1] = s[n + 1]
        /\ \A k \in 1 .. n : a[k] = Firsts(s, n)[k]
    BY <1>2, <2>1, AppendProperties
  <2>3. b \in Seq(S) /\ Len(b) = n + 1 /\ \A k \in 1 .. n + 1 : b[k] = s[k]
    BY <1>2, <2>1
  <2>4. \A k \in 1 .. n + 1 : a[k] = b[k]
    <3>. HIDE DEF a, b
    <3>1. \A k \in 1 .. n + 1 : k = n + 1 \/ k \in 1 .. n
      BY <2>1
    <3>. QED
      BY <1>2, <2>2, <2>3, <3>1
  <2>. HIDE DEF a, b
  <2>5. a = b
    BY <2>2, <2>3, <2>4, SeqEqual
  <2>. QED
    BY <2>5 DEF a, b
<1>. QED
  BY <1>1, <1>2, <1>3, <1>4, <1>5

\* Where the parts of a concatenation begin and end: part g of seqs has the
\* positions off[g - 1] + 1 to off[g] of FlattenSeq(seqs).
Offsets(seqs, off) ==
  /\ off \in [0 .. Len(seqs) -> Nat] /\ off[0] = 0
  /\ \A g \in 1 .. Len(seqs) : off[g] = off[g - 1] + Len(seqs[g])

LEMMA OffsetsGrow ==
  ASSUME NEW seqs, Len(seqs) \in Nat, \A g \in 1 .. Len(seqs) : Len(seqs[g]) \in Nat,
         NEW off, Offsets(seqs, off),
         NEW g \in 0 .. Len(seqs), NEW h \in 0 .. Len(seqs), g <= h
  PROVE  off[g] <= off[h]
<1>. DEFINE n == Len(seqs)
            T == {m \in 0 .. n : \A l \in 0 .. m : off[l] <= off[m]}
<1>1. \A m \in 0 .. n : off[m] \in Nat
  BY DEF Offsets
<1>2. 0 \in T
  BY <1>1
<1>3. ASSUME NEW m \in 1 .. n, m - 1 \in T PROVE m \in T
  <2>1. off[m - 1] <= off[m]
    <3>1. m - 1 \in 0 .. n /\ off[m] = off[m - 1] + Len(seqs[m]) /\ Len(seqs[m]) \in Nat
      BY DEF Offsets
    <3>. QED
      BY <1>1, <3>1
  <2>2. \A l \in 0 .. m - 1 : off[l] <= off[m]
    BY <1>1, <1>3, <2>1
  <2>3. \A l \in 0 .. m : l = m \/ l \in 0 .. m - 1
    OBVIOUS
  <2>. QED
    BY <1>1, <2>2, <2>3
<1>. HIDE DEF T
<1>4. \A m \in 0 .. n : m \in T
  BY <1>2, <1>3, Upto
<1>. QED
  BY <1>4 DEF T

\* Every position of the concatenation is in one of its parts.
LEMMA OffsetsCover ==
  ASSUME NEW seqs, Len(seqs) \in Nat, \A g \in 1 .. Len(seqs) : Len(seqs[g]) \in Nat,
         NEW off, Offsets(seqs, off), NEW p \in 1 .. off[Len(seqs)]
  PROVE  \E g \in 1 .. Len(seqs) : p \in off[g - 1] + 1 .. off[g]
<1>. DEFINE n == Len(seqs)
            T == {m \in 0 .. n : p <= off[m]}
<1>1. \A m \in 0 .. n : off[m] \in Nat
  BY DEF Offsets
<1>2. T \subseteq Nat /\ n \in T
  BY <1>1
<1>3. PICK g \in T : \A h \in T : g <= h
  BY <1>2, Least, Zenon
<1>4. g # 0
  BY <1>1 DEF Offsets
<1>5. g - 1 \in 0 .. n /\ g - 1 \notin T
  BY <1>3, <1>4
<1>. QED
  BY <1>1, <1>3, <1>4, <1>5

\* FlattenSeq, part by part.
LEMMA FlattenRuns ==
  ASSUME NEW S, NEW seqs \in Seq(Seq(S)), Len(seqs) # 0
  PROVE  \E F \in [1 .. Len(seqs) -> Seq(S)] :
           /\ FlattenSeq(seqs) = F[Len(seqs)] /\ F[1] = seqs[1]
           /\ \A i \in 2 .. Len(seqs) : F[i] = F[i - 1] \o seqs[i]
<1>. DEFINE n == Len(seqs)
            Pass(f) == f = [i \in 1 .. n |->
                              IF i = 1 THEN seqs[i] ELSE f[i - 1] \o seqs[i]]
            F == CHOOSE f : Pass(f)
            s == [k \in 1 .. n - 1 |-> [x \in Seq(S) |-> x \o seqs[k + 1]]]
<1>1. /\ n \in Nat /\ n - 1 \in Nat /\ 1 \in 1 .. n
      /\ \A g \in 1 .. n : seqs[g] \in Seq(S)
  BY ElementOfSeq, LenProperties
<1>2. s \in [1 .. n - 1 -> [Seq(S) -> Seq(S)]]
  <2>1. ASSUME NEW k \in 1 .. n - 1, NEW x \in Seq(S)
        PROVE  x \o seqs[k + 1] \in Seq(S)
    <3>1. k + 1 \in 1 .. n
      BY <1>1
    <3>. QED
      BY <1>1, <3>1, ConcatAt
  <2>. QED
    BY <2>1
<1>3. PICK it \in [0 .. n - 1 -> Seq(S)] : Iterates(n - 1, seqs[1], s, it)
  <2>. HIDE DEF s
  <2>. QED
    BY <1>1, <1>2, IterateExists
<1>. DEFINE f0 == [i \in 1 .. n |-> it[i - 1]]
<1>4. ASSUME NEW i \in 1 .. n
      PROVE  f0[i] = IF i = 1 THEN seqs[i] ELSE f0[i - 1] \o seqs[i]
  <2>1. \A k \in 0 .. n - 1 : it[k] = IF k = 0 THEN seqs[1] ELSE s[k][it[k - 1]]
    <3>. HIDE DEF s
    <3>. QED
      BY <1>3 DEF Iterates
  <2>2. i - 1 \in 0 .. n - 1 /\ f0[i] = it[i - 1]
    BY <1>1
  <2>3. CASE i = 1
    <3>1. 0 \in 0 .. n - 1 /\ i - 1 = 0
      BY <1>1, <2>3
    <3>2. it[0] = seqs[1]
      <4>. HIDE DEF s
      <4>. QED
        BY <2>1, <3>1
    <3>. QED
      BY <2>2, <2>3, <3>1, <3>2
  <2>4. CASE i # 1
    <3>1. i - 2 \in 0 .. n - 1 /\ i - 1 \in 1 .. n - 1 /\ i - 1 \in 1 .. n
          /\ (i - 1) - 1 = i - 2 /\ (i - 1) + 1 = i /\ i - 1 # 0
      BY <1>1, <2>4
    <3>2. it[i - 2] \in Seq(S) /\ it[i - 2] = f0[i - 1]
      BY <3>1
    <3>3. s[i - 1][it[i - 2]] = it[i - 2] \o seqs[i]
      BY <3>1, <3>2
    <3>4. it[i - 1] = s[i - 1][it[i - 2]]
      <4>. HIDE DEF s
      <4>. QED
        BY <2>1, <2>2, <3>1
    <3>. QED
      BY <2>2, <2>4, <3>2, <3>3, <3>4
  <2>. QED
    BY <2>3, <2>4
<1>5. Pass(f0)
  <2>1. f0 = [i \in 1 .. n |-> f0[i]]
    OBVIOUS
  <2>. HIDE DEF f0
  <2>. QED
    BY <1>4, <2>1
<1>6. Pass(F)
  <2>. HIDE DEF f0
  <2>. QED
    BY <1>5
<1>7. FlattenSeq(seqs) = F[n]
  BY DEF FlattenSeq
<1>. HIDE DEF F, f0, s
<1>8. ASSUME NEW i \in 1 .. n
      PROVE  F[i] = IF i = 1 THEN seqs[i] ELSE F[i - 1] \o seqs[i]
  BY <1>6, Zenon
<1>9. DOMAIN F = 1 .. n /\ F = [i \in 1 .. n |-> F[i]]
  <2>1. F = [i \in 1 .. n |-> IF i = 1 THEN seqs[i] ELSE F[i - 1] \o seqs[i]]
    BY <1>6
  <2>. QED
    BY <2>1
<1>10. \A i \in 2 .. n : i \in 1 .. n /\ i # 1
  OBVIOUS
<1>. HIDE DEF Pass
<1>11. \A i \in 2 .. n : F[i] = F[i - 1] \o seqs[i]
  BY <1>8, <1>10
<1>12. F[1] = seqs[1]
  BY <1>1, <1>8
<1>. DEFINE T == {m \in 0 .. n : m > 0 => F[m] \in Seq(S)}
<1>13. ASSUME NEW m \in 1 .. n, m - 1 \in T PROVE m \in T
  <2>1. CASE m = 1
    BY <1>1, <1>12, <2>1
  <2>2. CASE m # 1
    <3>1. m \in 2 .. n /\ m - 1 > 0
      BY <1>1, <2>2
    <3>2. F[m - 1] \in Seq(S) /\ F[m] = F[m - 1] \o seqs[m] /\ seqs[m] \in Seq(S)
      BY <1>1, <1>11, <1>13, <3>1
    <3>3. F[m] \in Seq(S)
      BY <3>2, ConcatAt
    <3>. QED
      BY <1>1, <3>3
  <2>. QED
    BY <2>1, <2>2
<1>14. \A m \in 0 .. n : m \in T
  <2>1. 0 \in T
    BY <1>1
  <2>. HIDE DEF T
  <2>. QED
    BY <1>1, <1>13, <2>1, Upto
<1>15. \A m \in 1 .. n : F[m] \in Seq(S)
  BY <1>1, <1>14
<1>16. F \in [1 .. n -> Seq(S)]
  BY <1>9, <1>15
<1>. QED
  BY <1>7, <1>11, <1>12, <1>16

\* flat is the sequences of seqs one after the other; the g-th of them starts
\* after off[g - 1] elements.
EndToEnd(seqs, flat, off) ==
  /\ Offsets(seqs, off)
  /\ Len(flat) = off[Len(seqs)]
  /\ \A g \in 1 .. Len(seqs) : \A j \in 1 .. Len(seqs[g]) :
       flat[off[g - 1] + j] = seqs[g][j]

LEMMA Flattened ==
  ASSUME NEW S, NEW seqs \in Seq(Seq(S))
  PROVE  /\ FlattenSeq(seqs) \in Seq(S)
         /\ \E off : EndToEnd(seqs, FlattenSeq(seqs), off)
<1>. USE DEF EndToEnd
<1>. DEFINE n == Len(seqs)
            flat == FlattenSeq(seqs)
<1>1. /\ n \in Nat /\ DOMAIN seqs = 1 .. n
      /\ \A g \in 1 .. n : seqs[g] \in Seq(S) /\ Len(seqs[g]) \in Nat
  BY ElementOfSeq, LenProperties
<1>2. CASE n = 0
  <2>1. seqs = <<>> /\ flat = <<>>
    BY <1>2, EmptySeq DEF FlattenSeq
  <2>. DEFINE off == [k \in 0 .. 0 |-> 0]
  <2>2. off \in [0 .. n -> Nat] /\ off[0] = 0 /\ 1 .. n = {}
    BY <1>2
  <2>3. Len(flat) = 0 /\ flat \in Seq(S)
    BY <2>1, EmptySeq
  <2>. HIDE DEF off
  <2>4. Offsets(seqs, off)
    BY <2>2 DEF Offsets
  <2>. QED
    BY <1>2, <2>2, <2>3, <2>4
<1>3. CASE n # 0
  <2>1. PICK F \in [1 .. n -> Seq(S)] :
          /\ flat = F[n] /\ F[1] = seqs[1]
          /\ \A i \in 2 .. n : F[i] = F[i - 1] \o seqs[i]
    BY <1>3, FlattenRuns
  <2>2. \A i \in 1 .. n : F[i] \in Seq(S) /\ Len(F[i]) \in Nat
    BY <2>1, LenProperties
  <2>3. ASSUME NEW m \in 2 .. n
        PROVE  /\ m - 1 \in 1 .. n /\ m \in 1 .. n
               /\ Len(F[m]) = Len(F[m - 1]) + Len(seqs[m])
               /\ \A k \in 1 .. Len(F[m - 1]) : F[m][k] = F[m - 1][k]
               /\ \A k \in 1 .. Len(seqs[m]) : F[m][Len(F[m - 1]) + k] = seqs[m][k]
    <3>1. m - 1 \in 1 .. n /\ m \in 1 .. n
      BY <1>1
    <3>2. F[m - 1] \in Seq(S) /\ seqs[m] \in Seq(S) /\ F[m] = F[m - 1] \o seqs[m]
      BY <1>1, <2>1, <2>2, <3>1
    <3>. QED
      BY <3>1, <3>2, ConcatAt
  <2>. DEFINE off == [k \in 0 .. n |-> IF k = 0 THEN 0 ELSE Len(F[k])]
  <2>4. /\ off \in [0 .. n -> Nat] /\ off[0] = 0
        /\ \A k \in 1 .. n : off[k] = Len(F[k])
    BY <1>1, <2>2
  <2>. HIDE DEF off
  <2>5. Offsets(seqs, off)
    <3>1. ASSUME NEW g \in 1 .. n PROVE off[g] = off[g - 1] + Len(seqs[g])
      <4>1. CASE g = 1
        BY <1>1, <2>1, <2>4, <4>1
      <4>2. CASE g # 1
        <5>1. g \in 2 .. n
          BY <1>1, <4>2
        <5>. QED
          BY <2>3, <2>4, <5>1
      <4>. QED
        BY <4>1, <4>2
    <3>. QED
      BY <2>4, <3>1 DEF Offsets
  <2>. DEFINE U == {m \in 0 .. n : \A g \in 1 .. m : \A j \in 1 .. Len(seqs[g]) :
                      F[m][off[g - 1] + j] = seqs[g][j]}
  <2>6. ASSUME NEW m \in 1 .. n, m - 1 \in U PROVE m \in U
    <3>. HIDE DEF U
    <3>. SUFFICES ASSUME NEW g \in 1 .. m, NEW j \in 1 .. Len(seqs[g])
                  PROVE  F[m][off[g - 1] + j] = seqs[g][j]
      <4>1. m \in 0 .. n
        BY <1>1
      <4>. QED
        BY <4>1 DEF U
    <3>. USE DEF U
    <3>1. off[g - 1] \in Nat /\ g \in 1 .. n /\ j \in Nat /\ Len(seqs[g]) \in Nat
      BY <1>1, <2>4, SMTT(40)
    <3>2. CASE m = 1
      <4>1. g = 1 /\ off[g - 1] = 0 /\ F[m] = seqs[g]
        BY <1>1, <2>1, <2>4, <3>2
      <4>. QED
        BY <3>1, <4>1
    <3>3. CASE m # 1 /\ g = m
      <4>1. m \in 2 .. n
        BY <1>1, <3>3
      <4>2. m - 1 \in 1 .. n
        BY <2>3, <4>1
      <4>3. off[g - 1] = Len(F[m - 1])
        BY <2>4, <3>3, <4>2
      <4>. QED
        BY <2>3, <3>3, <4>1, <4>3
    <3>4. CASE m # 1 /\ g # m
      <4>1. m \in 2 .. n /\ g \in 1 .. m - 1
        BY <1>1, <3>4
      <4>2. m - 1 \in 1 .. n /\ F[m - 1][off[g - 1] + j] = seqs[g][j]
        BY <2>3, <2>6, <4>1
      <4>3. g \in 0 .. n /\ m - 1 \in 0 .. n /\ g <= m - 1
        BY <1>1, <4>1
      <4>4. off[g] <= off[m - 1]
        BY <1>1, <2>5, <4>3, OffsetsGrow
      <4>5. off[g] = off[g - 1] + Len(seqs[g]) /\ off[m - 1] = Len(F[m - 1])
            /\ Len(F[m - 1]) \in Nat
        BY <2>2, <2>4, <2>5, <3>1, <4>2 DEF Offsets
      <4>6. off[g - 1] + j \in 1 .. Len(F[m - 1])
        <5>1. \A a, b, c \in Nat : \A l \in 1 .. b : a + b <= c => a + l \in 1 .. c
          OBVIOUS
        <5>2. off[g - 1] + Len(seqs[g]) <= Len(F[m - 1])
          BY <4>4, <4>5
        <5>. HIDE DEF U
        <5>. QED
          BY <3>1, <4>5, <5>1, <5>2
      <4>. QED
        BY <2>3, <4>1, <4>2, <4>6
    <3>. QED
      BY <3>2, <3>3, <3>4
  <2>7. n \in U
    <3>1. 0 \in U
      BY <1>1
    <3>. HIDE DEF U
    <3>2. \A m \in 0 .. n : m \in U
      BY <1>1, <2>6, <3>1, Upto
    <3>. QED
      BY <1>1, <3>2
  <2>8. off[n] = Len(flat) /\ flat \in Seq(S)
    BY <1>1, <1>3, <2>1, <2>2, <2>4
  <2>9. \A g \in 1 .. n : \A j \in 1 .. Len(seqs[g]) : flat[off[g - 1] + j] = seqs[g][j]
    BY <2>1, <2>7
  <2>. QED
    BY <2>5, <2>8, <2>9
<1>. QED
  BY <1>2, <1>3
=============================================================================
