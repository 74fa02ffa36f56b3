------------------------ MODULE ConfigurationProofs ------------------------
(***************************************************************************)
(* Proofs about Configuration, for every set of files, of dialogs, of what *)
(* uninitialised numbers may be and of what write errors may leave.        *)
(***************************************************************************)
EXTENDS Configuration, Induction

-----------------------------------------------------------------------------
(* Fields and their values                                                 *)

\* A value before a getter has seen it.
Raw(f, v) ==
  IF f \in Bools \cup {"use_f"} THEN v \in BOOLEAN
  ELSE IF f = "filePath" THEN v \in Strings
  ELSE v \in Int

LEMMA Names ==
  /\ DOMAIN ModelBuilders \subseteq DOMAIN Builders
  /\ DOMAIN RecorderBuilders \subseteq DOMAIN Builders
  /\ "main" \notin DOMAIN Builders /\ Nobody \notin DOMAIN Builders
  /\ \A b \in DOMAIN Builders :
       Builders[b] \in {"simple", "message", "era", "nomadic", "pursue", "recorder"}
  /\ \A b \in DOMAIN RecorderBuilders : Builders[b] = "recorder"
BY DEF ModelBuilders, RecorderBuilders, Builders, Nobody

LEMMA FieldNames ==
  ASSUME NEW b \in DOMAIN Builders
  PROVE  /\ NoTag \notin Fields(Builders[b]) /\ "Info" \notin Fields(Builders[b])
         /\ DOMAIN Defaults[Builders[b]] \subseteq Fields(Builders[b])
<1>1. CASE Builders[b] = "simple"
  BY <1>1 DEF Fields, Defaults, NoTag, Uninitialised
<1>2. CASE Builders[b] = "message"
  BY <1>2 DEF Fields, Defaults, NoTag, Uninitialised
<1>3. CASE Builders[b] = "era"
  BY <1>3 DEF Fields, Defaults, NoTag, Uninitialised
<1>4. CASE Builders[b] = "nomadic"
  BY <1>4 DEF Fields, Defaults, NoTag, Uninitialised
<1>5. CASE Builders[b] = "pursue"
  BY <1>5 DEF Fields, Defaults, NoTag, Uninitialised
<1>6. CASE Builders[b] = "recorder"
  BY <1>6 DEF Fields, Defaults, NoTag, Uninitialised
<1>. QED
  BY <1>1, <1>2, <1>3, <1>4, <1>5, <1>6, Names

\* Raw, for a field of known kind.
LEMMA RawOf ==
  ASSUME NEW f, NEW v
  PROVE  /\ f \in Bools \cup {"use_f"} /\ v \in BOOLEAN => Raw(f, v)
         /\ f \notin Bools \cup {"use_f", "filePath"} /\ v \in Int => Raw(f, v)
         /\ f = "filePath" /\ v \in Strings => Raw(f, v)
BY DEF Raw, Bools

\* The texts of the module itself are texts.
LEMMA Literals ==
  /\ "" \in Strings /\ "\n" \in Strings /\ "true" \in Strings /\ "false" \in Strings
  /\ "Info" \in Strings /\ NoTag \in Strings /\ "./viewerRecorderOutput.xml" \in Strings
BY ConfigurationAssumption

LEMMA DefaultRaw ==
  ASSUME NEW b \in DOMAIN Builders, NEW f \in DOMAIN Defaults[Builders[b]]
  PROVE  Raw(f, Defaults[Builders[b]][f])
<1>. DEFINE r == Defaults[Builders[b]]
<1>1. CASE f \in {"isPhy", "isThink", "compressOutput"}
  <2>1. r[f] = FALSE
    BY <1>1, Names DEF Defaults
  <2>2. r[f] \in BOOLEAN
    BY <2>1, Zenon
  <2>3. f \in Bools \cup {"use_f"}
    BY <1>1 DEF Bools
  <2>. QED
    BY <2>2, <2>3, RawOf
<1>2. CASE f = "filePath"
  <2>1. r[f] = "./viewerRecorderOutput.xml"
    BY <1>2, Names DEF Defaults
  <2>. QED
    BY <1>2, <2>1, RawOf, Literals
<1>3. CASE f \notin {"isPhy", "isThink", "compressOutput", "filePath"}
  <2>1. r[f] \in Int
    BY <1>3, Names DEF Defaults
  <2>2. f \notin Bools \cup {"use_f", "filePath"}
    BY <1>3, Names DEF Defaults, Bools
  <2>. QED
    BY <2>1, <2>2, RawOf
<1>. QED
  BY <1>1, <1>2, <1>3

LEMMA ConvertRaw ==
  ASSUME NEW f, NEW t \in Texts
  PROVE  Raw(f, Convert(f, t))
<1>1. t.isNum \in BOOLEAN /\ t.num \in Int /\ t.word \in Strings
  BY DEF Texts
<1>2. StringToInt(t) \in Int /\ StringToFloat(t) \in Int /\ StringToBool(t) \in BOOLEAN
  BY <1>1 DEF StringToInt, StringToFloat, StringToBool, Truncated
<1>3. (StringToInt(t) = 1) \in BOOLEAN
  OBVIOUS
<1>. QED
  BY <1>1, <1>2, <1>3 DEF Convert, Raw, Ints, Bools

\* Of numbers, Below is <; what has not been given a value stays NaN.
LEMMA BelowIs ==
  /\ \A x, y \in Int : Below(x, y) <=> x < y
  /\ \A x : ~Below(x, NaN) /\ ~Below(NaN, x)
<1>1. NaN \notin Int
  BY ConfigurationAssumption
<1>. QED
  BY <1>1 DEF Below

LEMMA GetNaN ==
  ASSUME NEW f
  PROVE  Get(f, NaN) = NaN
<1>1. \A x : AtLeast(x, NaN) = NaN
  BY BelowIs DEF AtLeast
<1>2. \A x, y : Between(x, y, NaN) = NaN
  BY <1>1, BelowIs DEF Between
<1>. QED
  BY <1>1, <1>2, BelowIs DEF Get

LEMMA Clipped ==
  ASSUME NEW v \in Int
  PROVE  /\ \A x \in Int : AtLeast(x, v) \in Int /\ AtLeast(x, v) >= x
         /\ Between(0, 1000, v) \in 0 .. 1000
         /\ (IF Below(1000, v) THEN 0 ELSE AtLeast(0, v)) \in 0 .. 1000
<1>1. \A x \in Int : AtLeast(x, v) = IF v < x THEN x ELSE v
  BY BelowIs DEF AtLeast
<1>2. Below(1000, v) <=> 1000 < v
  BY BelowIs
<1>3. Between(0, 1000, v) = IF 1000 < v THEN 1000 ELSE AtLeast(0, v)
  BY <1>2 DEF Between
<1>. QED
  BY <1>1, <1>2, <1>3

LEMMA GetTyped ==
  ASSUME NEW f, NEW v, Raw(f, v)
  PROVE  TypeOf(f, Get(f, v))
<1>1. CASE f \in Bools \cup {"use_f"}
  BY <1>1 DEF Raw, TypeOf, Get, Bools, NonNegative, Fractions
<1>2. CASE f = "filePath"
  BY <1>2 DEF Raw, TypeOf, Get, Bools, NonNegative, Fractions
<1>3. CASE f \notin Bools \cup {"use_f", "filePath"}
  <2>1. v \in Int
    BY <1>3 DEF Raw
  <2>2. CASE f \in NonNegative
    BY <1>3, <2>1, <2>2, Clipped DEF TypeOf, Get, NonNegative, Fractions
  <2>3. CASE f \in Fractions
    BY <1>3, <2>1, <2>3, Clipped DEF TypeOf, Get, NonNegative, Fractions
  <2>4. CASE f = "prob"
    BY <1>3, <2>1, <2>4, Clipped DEF TypeOf, Get, NonNegative, Fractions
  <2>5. CASE f \notin NonNegative \cup Fractions \cup {"prob"}
    BY <1>3, <2>1, <2>5, Clipped DEF TypeOf, Get
  <2>. QED
    BY <2>2, <2>3, <2>4, <2>5
<1>. QED
  BY <1>1, <1>2, <1>3

\* What a builder writes is read again as it was.
LEMMA ReadAgain ==
  ASSUME NEW f, NEW v, f \notin {"use_f", "filePath"}, TypeOf(f, v)
  PROVE  Convert(f, ToText(f, v)) = v
<1>1. CASE f \in Bools
  BY <1>1 DEF TypeOf, Convert, ToText, Bools, Ints, StringToBool, Word
<1>3. CASE f \in Ints
  <2>1. v \in Int /\ f \notin Bools \cup {"use_f", "filePath"}
    BY <1>3 DEF TypeOf, Ints, Bools
  <2>2. Convert(f, ToText(f, v)) = Truncated(1000 * v)
    <3>1. ToText(f, v) = Number(1000 * v)
      BY <1>3 DEF ToText, Ints, Bools
    <3>2. Convert(f, Number(1000 * v)) = StringToInt(Number(1000 * v))
      BY <1>3 DEF Convert, Ints, Bools
    <3>3. Number(1000 * v).isNum /\ Number(1000 * v).num = 1000 * v
      BY DEF Number
    <3>. QED
      BY <3>1, <3>2, <3>3 DEF StringToInt
  <2>3. Truncated(1000 * v) = v
    <3>1. \A x \in Int : x >= 0 => (1000 * x) \div 1000 = x
      OBVIOUS
    <3>2. CASE v >= 0
      BY <2>1, <3>1, <3>2 DEF Truncated
    <3>3. CASE v < 0
      <4>1. -(1000 * v) = 1000 * (-v) /\ -v \in Int /\ -v >= 0 /\ ~(1000 * v >= 0) /\ -(-v) = v
        BY <2>1, <3>3
      <4>. QED
        BY <3>1, <4>1 DEF Truncated
    <3>. QED
      BY <2>1, <3>2, <3>3
  <2>. QED
    BY <2>2, <2>3
<1>4. CASE f \notin Bools \cup Ints \cup {"use_f", "filePath"}
  BY <1>4, ZenonT(40) DEF TypeOf, Convert, ToText, StringToFloat, Number
<1>. QED
  BY <1>1, <1>3, <1>4

LEMMA TextIs ==
  /\ \A n \in Int : Number(n) \in Texts
  /\ \A w \in Strings : Word(w) \in Texts
  /\ Blank \in Texts
<1>1. ASSUME NEW n \in Int PROVE Number(n) \in Texts
  BY <1>1, Literals, TRUE \in BOOLEAN, Zenon DEF Number, Texts
<1>2. ASSUME NEW w \in Strings PROVE Word(w) \in Texts
  BY 0 \in Int, Zenon DEF Word, Texts
<1>. QED
  BY <1>1, <1>2, Literals DEF Blank

LEMMA ToTextIs ==
  ASSUME NEW f, NEW v, f \notin {"use_f", "filePath"}, TypeOf(f, v)
  PROVE  ToText(f, v) \in Texts
<1>1. CASE f \in Bools
  <2>1. ToText(f, v) = Word("true") \/ ToText(f, v) = Word("false")
    BY <1>1 DEF ToText, Bools, Ints
  <2>. QED
    BY <2>1, TextIs, Literals
<1>2. CASE f \notin Bools
  <2>1. v \in Int
    BY <1>2 DEF TypeOf
  <2>2. ToText(f, v) = Number(1000 * v) \/ ToText(f, v) = Number(v)
    <3>1. CASE f \in Ints
      BY <3>1 DEF ToText, Ints, Bools
    <3>2. CASE f \notin Ints
      BY <1>2, <3>2 DEF ToText
    <3>. QED
      BY <3>1, <3>2
  <2>3. PICK x \in Int : ToText(f, v) = Number(x)
    BY <2>1, <2>2
  <2>. QED
    BY <2>3, TextIs
<1>. QED
  BY <1>1, <1>2

LEMMA PiecesTyped ==
  ASSUME NEW f, NEW v, f # "use_f", TypeOf(f, v)
  PROVE  Pieces(f, v) \in Seq(Texts)
<1>1. CASE f # "filePath"
  <2>1. Pieces(f, v) = <<ToText(f, v)>>
    BY <1>1 DEF Pieces
  <2>2. ToText(f, v) \in Texts
    BY <1>1, ToTextIs
  <2>. QED
    BY <2>1, <2>2
<1>2. CASE f = "filePath"
  <2>1. Pieces(f, v) = PathPieces(v) /\ v \in Strings
    BY <1>2 DEF Pieces, TypeOf, Bools
  <2>2. CASE v \in DOMAIN Markup
    <3>1. Pieces(f, v) = Markup[v].pieces
      BY <2>1, <2>2 DEF PathPieces
    <3>. QED
      BY <2>2, <3>1, ConfigurationAssumption
  <2>3. CASE v \notin DOMAIN Markup
    <3>1. Pieces(f, v) = <<>> \/ Pieces(f, v) = <<Word(v)>>
      BY <2>1, <2>3 DEF PathPieces
    <3>2. Word(v) \in Texts
      BY <2>1, TextIs
    <3>3. <<>> \in Seq(Texts) /\ <<Word(v)>> \in Seq(Texts)
      BY <3>2
    <3>. QED
      BY <3>1, <3>3
  <2>. QED
    BY <2>2, <2>3
<1>. QED
  BY <1>1, <1>2

-----------------------------------------------------------------------------
(* Sequences of what is picked from a sequence                             *)

\* f[k] is the sequence of the e[j] of those of the first k positions that are
\* in C.
Picks(n, C, e, f) ==
  f = [k \in 0 .. n |->
         IF k = 0 THEN <<>> ELSE IF k \in C THEN Append(f[k - 1], e[k]) ELSE f[k - 1]]

LEMMA PicksAt ==
  ASSUME NEW n \in Nat, NEW C, NEW e, NEW f, Picks(n, C, e, f)
  PROVE  /\ DOMAIN f = 0 .. n
         /\ f[0] = <<>>
         /\ \A k \in 1 .. n : k \in C => f[k] = Append(f[k - 1], e[k])
         /\ \A k \in 1 .. n : k \notin C => f[k] = f[k - 1]
<1>1. DOMAIN f = 0 .. n
  BY DEF Picks
<1>2. ASSUME NEW k \in 0 .. n
      PROVE  f[k] = IF k = 0 THEN <<>>
                    ELSE IF k \in C THEN Append(f[k - 1], e[k]) ELSE f[k - 1]
  BY Zenon DEF Picks
<1>3. 0 \in 0 .. n /\ \A k \in 1 .. n : k \in 0 .. n /\ k # 0
  OBVIOUS
<1>. QED
  BY <1>1, <1>2, <1>3

LEMMA PicksExist ==
  ASSUME NEW n \in Nat, NEW S, NEW C \in SUBSET (1 .. n), NEW e \in [C -> S]
  PROVE  \E f : Picks(n, C, e, f)
<1>. DEFINE s == [k \in 1 .. n |->
                    [x \in Seq(S) |-> IF k \in C THEN Append(x, e[k]) ELSE x]]
<1>1. s \in [1 .. n -> [Seq(S) -> Seq(S)]] /\ <<>> \in Seq(S)
  <2>1. ASSUME NEW k \in 1 .. n, NEW x \in Seq(S)
        PROVE  (IF k \in C THEN Append(x, e[k]) ELSE x) \in Seq(S)
    <3>1. CASE k \in C
      <4>1. e[k] \in S
        BY <3>1
      <4>. QED
        BY <3>1, <4>1, AppendProperties
    <3>. QED
      BY <3>1
  <2>. QED
    BY <2>1
<1>2. PICK f \in [0 .. n -> Seq(S)] : Iterates(n, <<>>, s, f)
  <2>. HIDE DEF s
  <2>. QED
    BY <1>1, IterateExists
<1>3. ASSUME NEW k \in 0 .. n
      PROVE  f[k] = IF k = 0 THEN <<>>
                    ELSE IF k \in C THEN Append(f[k - 1], e[k]) ELSE f[k - 1]
  <2>1. f[k] = IF k = 0 THEN <<>> ELSE s[k][f[k - 1]]
    <3>. HIDE DEF s
    <3>. QED
      BY <1>2 DEF Iterates
  <2>2. CASE k # 0
    <3>1. k \in 1 .. n /\ f[k - 1] \in Seq(S)
      BY <1>2, <2>2
    <3>2. s[k][f[k - 1]] = IF k \in C THEN Append(f[k - 1], e[k]) ELSE f[k - 1]
      BY <3>1
    <3>. HIDE DEF s
    <3>. QED
      BY <2>1, <2>2, <3>2
  <2>. QED
    BY <2>1, <2>2
<1>. HIDE DEF s
<1>4. f = [k \in 0 .. n |->
             IF k = 0 THEN <<>> ELSE IF k \in C THEN Append(f[k - 1], e[k]) ELSE f[k - 1]]
  BY <1>2, <1>3
<1>. QED
  BY <1>4, Zenon DEF Picks

LEMMA PicksTyped ==
  ASSUME NEW n \in Nat, NEW S, NEW C \in SUBSET (1 .. n), NEW e \in [C -> S],
         NEW f, Picks(n, C, e, f), NEW k \in 0 .. n
  PROVE  f[k] \in Seq(S)
<1>. DEFINE T == {m \in 0 .. n : f[m] \in Seq(S)}
<1>1. 0 \in T
  <2>1. f[0] = <<>> /\ <<>> \in Seq(S) /\ 0 \in 0 .. n
    BY PicksAt
  <2>. QED
    BY <2>1
<1>2. ASSUME NEW m \in 1 .. n, m - 1 \in T
      PROVE  m \in T
  <2>1. f[m - 1] \in Seq(S) /\ m \in 0 .. n
    BY <1>2
  <2>2. CASE m \in C
    <3>1. f[m] = Append(f[m - 1], e[m]) /\ e[m] \in S
      BY <2>2, PicksAt
    <3>2. f[m] \in Seq(S)
      BY <2>1, <3>1, AppendProperties
    <3>. QED
      BY <2>1, <3>2
  <2>3. CASE m \notin C
    BY <2>1, <2>3, PicksAt
  <2>. QED
    BY <2>2, <2>3
<1>. HIDE DEF T
<1>3. k \in T
  BY <1>1, <1>2, Upto
<1>. QED
  BY <1>3 DEF T

\* The first n picks do not depend on what comes later.
LEMMA PicksAgree ==
  ASSUME NEW n \in Nat, NEW m \in Nat, n <= m,
         NEW C, NEW D, NEW e, NEW d, NEW f, NEW g,
         Picks(n, C, e, f), Picks(m, D, d, g),
         \A k \in 1 .. n : (k \in C <=> k \in D) /\ (k \in C => e[k] = d[k])
  PROVE  f[n] = g[n]
<1>. DEFINE T == {k \in 0 .. n : f[k] = g[k]}
<1>1. 0 \in T
  BY PicksAt
<1>2. ASSUME NEW k \in 1 .. n, k - 1 \in T
      PROVE  k \in T
  <2>1. f[k - 1] = g[k - 1] /\ k \in 0 .. n /\ k \in 1 .. m
    BY <1>2
  <2>2. CASE k \in C
    <3>1. f[k] = Append(f[k - 1], e[k])
      BY <2>2, PicksAt
    <3>2. g[k] = Append(g[k - 1], d[k])
      <4>1. k \in D /\ d[k] = e[k]
        BY <2>2
      <4>2. g[k] = Append(g[k - 1], d[k])
        <5>1. \A j \in 1 .. m : j \in D => g[j] = Append(g[j - 1], d[j])
          BY PicksAt
        <5>. QED
          BY <2>1, <4>1, <5>1
      <4>. QED
        BY <4>2
    <3>. QED
      BY <2>1, <2>2, <3>1, <3>2
  <2>3. CASE k \notin C
    <3>1. f[k] = f[k - 1]
      BY <2>3, PicksAt
    <3>2. g[k] = g[k - 1]
      BY <2>1, <2>3, PicksAt
    <3>. QED
      BY <2>1, <3>1, <3>2
  <2>. QED
    BY <2>2, <2>3
<1>. HIDE DEF T
<1>3. n \in T
  <2>1. \A k \in 0 .. n : k \in T
    BY <1>1, <1>2, Upto
  <2>. QED
    BY <2>1
<1>. QED
  BY <1>3 DEF T

\* s is what is at the positions C, which come after the first o.
IsRun(C, e, o, s) ==
  /\ C = o + 1 .. o + Len(s)
  /\ \A j \in 1 .. Len(s) : e[o + j] = s[j]

\* Picking a whole run of positions gives the sequence that is there.
LEMMA PicksRun ==
  ASSUME NEW S, NEW s \in Seq(S), NEW o \in Nat, NEW n \in Nat, o + Len(s) <= n,
         NEW C, NEW e, IsRun(C, e, o, s), NEW f, Picks(n, C, e, f)
  PROVE  f[n] = s
<1>. DEFINE l == Len(s)
            m(k) == IF k <= o THEN 0 ELSE IF k <= o + l THEN k - o ELSE l
            T == {k \in 0 .. n : f[k] = Firsts(s, m(k))}
<1>0. l \in Nat /\ o + l <= n
  BY LenProperties
<1>1. 0 \in T
  <2>1. f[0] = <<>>
    BY PicksAt
  <2>2. m(0) = 0
    OBVIOUS
  <2>3. 0 \in 0 .. Len(s)
    BY <1>0
  <2>4. Firsts(s, 0) = <<>>
    BY <2>3, FirstsAre
  <2>. QED
    BY <2>1, <2>2, <2>4
<1>2. ASSUME NEW k \in 1 .. n, k - 1 \in T
      PROVE  k \in T
  <2>1. f[k - 1] = Firsts(s, m(k - 1)) /\ k \in 0 .. n
    BY <1>2
  <2>2. CASE k \in C
    <3>. DEFINE j == k - o - 1
    <3>1. k \in o + 1 .. o + l
      BY <2>2 DEF IsRun
    <3>2. /\ m(k - 1) = j /\ m(k) = j + 1 /\ j \in 0 .. l /\ j < l
          /\ j + 1 \in 1 .. l /\ o + (j + 1) = k
      BY <1>0, <3>1
    <3>. HIDE DEF j, l, m, T
    <3>3. e[k] = s[j + 1]
      BY <3>2 DEF IsRun, l
    <3>4. f[k] = Append(f[k - 1], e[k])
      BY <2>2, PicksAt
    <3>5. Append(Firsts(s, j), s[j + 1]) = Firsts(s, j + 1)
      BY <3>2, FirstsAre DEF l
    <3>6. f[k] = Firsts(s, m(k))
      BY <2>1, <3>2, <3>3, <3>4, <3>5
    <3>. QED
      BY <2>1, <3>6 DEF T
  <2>3. CASE k \notin C
    <3>1. k \notin o + 1 .. o + l
      BY <2>3 DEF IsRun
    <3>2. m(k - 1) = m(k)
      BY <1>0, <3>1
    <3>. HIDE DEF l, m, T
    <3>3. f[k] = f[k - 1]
      BY <2>3, PicksAt
    <3>. QED
      BY <2>1, <3>2, <3>3 DEF T
  <2>. QED
    BY <2>2, <2>3
<1>. HIDE DEF T
<1>3. n \in T
  <2>1. \A k \in 0 .. n : k \in T
    BY <1>1, <1>2, Upto
  <2>. QED
    BY <2>1
<1>4. f[n] = Firsts(s, m(n))
  BY <1>3 DEF T
<1>5. m(n) = l
  BY <1>0
<1>. HIDE DEF m
<1>6. l \in 0 .. l
  BY <1>0
<1>7. Firsts(s, l) = s
  BY <1>6, FirstsAre
<1>. QED
  BY <1>4, <1>5, <1>7

\* Only known names are kept, and only names that were there.
LEMMA KnownTyped ==
  ASSUME NEW S, NEW names \in Seq(S), NEW builders
  PROVE  Known(names, builders) \in Seq(S \cap DOMAIN builders)
<1>. DEFINE n == Len(names)
            C == {k \in 1 .. n : names[k] \in DOMAIN builders}
            e == [k \in C |-> names[k]]
            Pass(f) == f = [k \in 0 .. n |->
                              IF k = 0 THEN <<>>
                              ELSE IF names[k] \in DOMAIN builders
                              THEN Append(f[k - 1], names[k])
                              ELSE f[k - 1]]
            F == CHOOSE f : Pass(f)
<1>1. n \in Nat /\ C \in SUBSET (1 .. n) /\ e \in [C -> S \cap DOMAIN builders]
  BY ElementOfSeq, LenProperties
<1>2. ASSUME NEW f
      PROVE  Pass(f) <=> Picks(n, C, e, f)
  <2>1. [k \in 0 .. n |-> IF k = 0 THEN <<>>
                          ELSE IF names[k] \in DOMAIN builders
                          THEN Append(f[k - 1], names[k]) ELSE f[k - 1]]
        = [k \in 0 .. n |-> IF k = 0 THEN <<>>
                          ELSE IF k \in C THEN Append(f[k - 1], e[k]) ELSE f[k - 1]]
    BY <1>1
  <2>. HIDE DEF n, C, e
  <2>. QED
    BY <2>1, Zenon DEF Picks
<1>3. \E f : Picks(n, C, e, f)
  <2>. HIDE DEF n, C, e
  <2>. QED
    BY <1>1, PicksExist
<1>4. Pass(F)
  <2>. HIDE DEF Pass
  <2>. QED
    BY <1>2, <1>3
<1>5. Known(names, builders) = F[n]
  BY DEF Known
<1>. HIDE DEF n, C, e, F
<1>6. F[n] \in Seq(S \cap DOMAIN builders)
  <2>1. Picks(n, C, e, F) /\ n \in 0 .. n
    <3>. HIDE DEF Pass
    <3>. QED
      BY <1>1, <1>2, <1>4
  <2>. HIDE DEF Pass
  <2>. QED
    BY <1>1, <2>1, PicksTyped
<1>. QED
  BY <1>5, <1>6

-----------------------------------------------------------------------------
(* The main file                                                           *)

Positions(main, elem) == {k \in 1 .. Len(main) : main[k].elem = elem}
NamesAt(main, elem)   == [k \in Positions(main, elem) |-> main[k].name]

LEMMA ElementsAre ==
  ASSUME NEW e \in MainElements
  PROVE  /\ e.elem \in {"ConfigInfo", "SimTime", "Scenario", "ModBuilder", "RecBuilder"}
         /\ e.elem = "SimTime" => e.time \in Int \X Int \X Int
         /\ e.elem \in {"ModBuilder", "RecBuilder"} => e.name \in Strings
BY DEF MainElements

LEMMA NamesAtTyped ==
  ASSUME NEW main \in Seq(MainElements), NEW elem \in {"ModBuilder", "RecBuilder"}
  PROVE  /\ Len(main) \in Nat
         /\ Positions(main, elem) \in SUBSET (1 .. Len(main))
         /\ NamesAt(main, elem) \in [Positions(main, elem) -> Strings]
<1>1. Len(main) \in Nat /\ \A k \in 1 .. Len(main) : main[k] \in MainElements
  BY ElementOfSeq, LenProperties
<1>2. ASSUME NEW k \in Positions(main, elem) PROVE main[k].name \in Strings
  BY <1>1, ElementsAre DEF Positions
<1>. QED
  BY <1>1, <1>2 DEF Positions, NamesAt

LEMMA NamesInIs ==
  ASSUME NEW main \in Seq(MainElements), NEW elem \in {"ModBuilder", "RecBuilder"}
  PROVE  \E f : /\ Picks(Len(main), Positions(main, elem), NamesAt(main, elem), f)
                /\ NamesIn(main, elem) = f[Len(main)]
<1>. DEFINE n == Len(main)
            C == Positions(main, elem)
            e == NamesAt(main, elem)
            Pass(f) == f = [k \in 0 .. n |->
                              IF k = 0 THEN <<>>
                              ELSE IF main[k].elem = elem THEN Append(f[k - 1], main[k].name)
                              ELSE f[k - 1]]
            F == CHOOSE f : Pass(f)
<1>1. n \in Nat /\ C \in SUBSET (1 .. n) /\ e \in [C -> Strings]
  BY NamesAtTyped
<1>2. ASSUME NEW f
      PROVE  Pass(f) <=> Picks(n, C, e, f)
  <2>1. [k \in 0 .. n |-> IF k = 0 THEN <<>>
                          ELSE IF main[k].elem = elem THEN Append(f[k - 1], main[k].name)
                          ELSE f[k - 1]]
        = [k \in 0 .. n |-> IF k = 0 THEN <<>>
                          ELSE IF k \in C THEN Append(f[k - 1], e[k]) ELSE f[k - 1]]
    BY <1>1 DEF Positions, NamesAt
  <2>. HIDE DEF n, C, e
  <2>. QED
    BY <2>1, Zenon DEF Picks
<1>3. \E f : Picks(n, C, e, f)
  <2>. HIDE DEF n, C, e
  <2>. QED
    BY <1>1, PicksExist
<1>4. Pass(F)
  <2>. HIDE DEF Pass
  <2>. QED
    BY <1>2, <1>3
<1>5. NamesIn(main, elem) = F[n]
  BY DEF NamesIn
<1>. HIDE DEF n, C, e, F
<1>6. Picks(n, C, e, F)
  <2>. HIDE DEF Pass
  <2>. QED
    BY <1>2, <1>4
<1>. QED
  BY <1>5, <1>6 DEF n, C, e

\* The names of the first p elements, as the main file's parser has them.
LEMMA NamesStep ==
  ASSUME NEW main \in Seq(MainElements), NEW elem \in {"ModBuilder", "RecBuilder"},
         NEW p \in 0 .. Len(main) - 1
  PROVE  NamesIn(Firsts(main, p + 1), elem) =
           IF main[p + 1].elem = elem
           THEN Append(NamesIn(Firsts(main, p), elem), main[p + 1].name)
           ELSE NamesIn(Firsts(main, p), elem)
<1>. DEFINE a == Firsts(main, p)
            b == Firsts(main, p + 1)
<1>1. Len(main) \in Nat /\ p \in Nat /\ p + 1 \in Nat /\ p \in 0 .. Len(main)
      /\ p + 1 \in 0 .. Len(main)
  BY LenProperties
<1>2. a \in Seq(MainElements) /\ Len(a) = p /\ \A k \in 1 .. p : a[k] = main[k]
  BY <1>1, FirstsAre
<1>3. b \in Seq(MainElements) /\ Len(b) = p + 1 /\ \A k \in 1 .. p + 1 : b[k] = main[k]
  BY <1>1, FirstsAre
<1>. HIDE DEF a, b
<1>4. PICK f : Picks(p, Positions(a, elem), NamesAt(a, elem), f) /\ NamesIn(a, elem) = f[p]
  BY <1>2, NamesInIs
<1>5. PICK g : /\ Picks(p + 1, Positions(b, elem), NamesAt(b, elem), g)
               /\ NamesIn(b, elem) = g[p + 1]
  BY <1>3, NamesInIs
<1>6. ASSUME NEW k \in 1 .. p
      PROVE  /\ k \in Positions(a, elem) <=> k \in Positions(b, elem)
             /\ k \in Positions(a, elem) => NamesAt(a, elem)[k] = NamesAt(b, elem)[k]
  <2>1. k \in 1 .. p + 1 /\ a[k] = b[k]
    BY <1>1, <1>2, <1>3
  <2>2. k \in Positions(a, elem) <=> k \in Positions(b, elem)
    BY <1>2, <1>3, <2>1 DEF Positions
  <2>. QED
    BY <2>1, <2>2 DEF NamesAt
<1>7. f[p] = g[p]
  BY <1>1, <1>4, <1>5, <1>6, PicksAgree
<1>8. /\ p + 1 \in 1 .. p + 1 /\ (p + 1) - 1 = p
      /\ p + 1 \in Positions(b, elem) <=> main[p + 1].elem = elem
      /\ p + 1 \in Positions(b, elem) => NamesAt(b, elem)[p + 1] = main[p + 1].name
  BY <1>1, <1>3 DEF Positions, NamesAt
<1>9. CASE main[p + 1].elem = elem
  <2>1. g[p + 1] = Append(g[p], main[p + 1].name)
    BY <1>1, <1>5, <1>8, <1>9, PicksAt
  <2>. QED
    BY <1>4, <1>5, <1>7, <1>9, <2>1 DEF a, b
<1>10. CASE main[p + 1].elem # elem
  <2>1. g[p + 1] = g[p]
    BY <1>1, <1>5, <1>8, <1>10, PicksAt
  <2>. QED
    BY <1>4, <1>5, <1>7, <1>10, <2>1 DEF a, b
<1>. QED
  BY <1>9, <1>10

LEMMA NoNames ==
  ASSUME NEW main \in Seq(MainElements), NEW elem \in {"ModBuilder", "RecBuilder"}
  PROVE  NamesIn(Firsts(main, 0), elem) = <<>>
<1>1. 0 \in 0 .. Len(main) /\ 0 \in Nat
  BY LenProperties
<1>2. Firsts(main, 0) \in Seq(MainElements) /\ Len(Firsts(main, 0)) = 0
  BY <1>1, FirstsAre
<1>3. PICK f : /\ Picks(0, Positions(Firsts(main, 0), elem), NamesAt(Firsts(main, 0), elem), f)
               /\ NamesIn(Firsts(main, 0), elem) = f[0]
  BY <1>2, NamesInIs
<1>. DEFINE C == Positions(Firsts(main, 0), elem)
            e == NamesAt(Firsts(main, 0), elem)
<1>. HIDE DEF C, e
<1>4. f[0] = <<>>
  BY <1>1, <1>3, PicksAt DEF C, e
<1>. QED
  BY <1>3, <1>4

LEMMA NamesInTyped ==
  ASSUME NEW main \in Seq(MainElements), NEW elem \in {"ModBuilder", "RecBuilder"}
  PROVE  NamesIn(main, elem) \in Seq(Strings)
<1>1. PICK f : /\ Picks(Len(main), Positions(main, elem), NamesAt(main, elem), f)
               /\ NamesIn(main, elem) = f[Len(main)]
  BY NamesInIs
<1>. DEFINE n == Len(main)
            C == Positions(main, elem)
            e == NamesAt(main, elem)
<1>2. n \in Nat /\ n \in 0 .. n /\ C \in SUBSET (1 .. n) /\ e \in [C -> Strings]
  BY NamesAtTyped
<1>3. Picks(n, C, e, f) /\ NamesIn(main, elem) = f[n]
  BY <1>1
<1>. HIDE DEF n, C, e
<1>4. f[n] \in Seq(Strings)
  BY <1>2, <1>3, PicksTyped
<1>. QED
  BY <1>3, <1>4

LEMMA ElementsTyped ==
  /\ ConfigInfo \in MainElements /\ ScenarioElem \in MainElements
  /\ \A t \in Int \X Int \X Int : SimTime(t) \in MainElements
  /\ \A n \in Strings : ModBuilder(n) \in MainElements /\ RecBuilder(n) \in MainElements
BY DEF ConfigInfo, ScenarioElem, SimTime, ModBuilder, RecBuilder, MainElements

LEMMA ElementsAt ==
  /\ ConfigInfo.elem = "ConfigInfo" /\ ScenarioElem.elem = "Scenario"
  /\ \A t : SimTime(t).elem = "SimTime"
  /\ \A n : ModBuilder(n).elem = "ModBuilder" /\ ModBuilder(n).name = n
  /\ \A n : RecBuilder(n).elem = "RecBuilder" /\ RecBuilder(n).name = n
BY DEF ConfigInfo, ScenarioElem, SimTime, ModBuilder, RecBuilder

\* Where the elements are in the main file of a dialog.
LEMMA MainFileAt ==
  ASSUME NEW d, IsDialog(d)
  PROVE  LET m == Len(d.models)
             r == Len(d.recorders)
         IN  /\ m \in Nat /\ r \in Nat
             /\ MainFile(d) \in Seq(MainElements) /\ Len(MainFile(d)) = 3 + m + r
             /\ \A k \in 1 .. 3 : MainFile(d)[k].elem \notin {"ModBuilder", "RecBuilder"}
             /\ \A j \in 1 .. m : MainFile(d)[3 + j] = ModBuilder(d.models[j])
             /\ \A j \in 1 .. r : MainFile(d)[3 + m + j] = RecBuilder(d.recorders[j])
<1>. DEFINE m == Len(d.models)
            r == Len(d.recorders)
            A == <<ConfigInfo, SimTime(d.time), ScenarioElem>>
            B == [k \in DOMAIN d.models |-> ModBuilder(d.models[k])]
            C == [k \in DOMAIN d.recorders |-> RecBuilder(d.recorders[k])]
<1>1. /\ d.models \in Seq(Strings) /\ d.recorders \in Seq(Strings)
      /\ d.time \in Int \X Int \X Int
  BY DEF IsDialog
<1>2. m \in Nat /\ r \in Nat /\ DOMAIN d.models = 1 .. m /\ DOMAIN d.recorders = 1 .. r
  BY <1>1, LenProperties
<1>3. /\ \A k \in 1 .. m : d.models[k] \in Strings
      /\ \A k \in 1 .. r : d.recorders[k] \in Strings
  BY <1>1, ElementOfSeq
<1>4. B \in [1 .. m -> MainElements] /\ C \in [1 .. r -> MainElements]
  BY <1>2, <1>3, ElementsTyped
<1>5. B \in Seq(MainElements) /\ Len(B) = m
  <2>1. B = [k \in 1 .. m |-> B[k]]
    BY <1>2
  <2>. HIDE DEF B
  <2>. QED
    BY <1>2, <1>4, <2>1, FunctionIsSeq, LenOf
<1>6. C \in Seq(MainElements) /\ Len(C) = r
  <2>1. C = [k \in 1 .. r |-> C[k]]
    BY <1>2
  <2>. HIDE DEF C
  <2>. QED
    BY <1>2, <1>4, <2>1, FunctionIsSeq, LenOf
<1>7. A \in Seq(MainElements) /\ Len(A) = 3
      /\ A[1] = ConfigInfo /\ A[2] = SimTime(d.time) /\ A[3] = ScenarioElem
  <2>1. SimTime(d.time) \in MainElements
    BY <1>1, ElementsTyped
  <2>. QED
    BY <2>1, ElementsTyped
<1>8. /\ \A k \in 1 .. m : B[k] = ModBuilder(d.models[k])
      /\ \A k \in 1 .. r : C[k] = RecBuilder(d.recorders[k])
  BY <1>2
<1>9. \A k \in 1 .. 3 : A[k].elem \notin {"ModBuilder", "RecBuilder"}
  <2>1. \A k \in 1 .. 3 : k = 1 \/ k = 2 \/ k = 3
    OBVIOUS
  <2>. HIDE DEF A
  <2>. QED
    BY <1>7, <2>1, ElementsAt
<1>10. MainFile(d) = (A \o B) \o C
  BY DEF MainFile
<1>. HIDE DEF A, B, C, m, r
<1>11. /\ A \o B \in Seq(MainElements) /\ Len(A \o B) = 3 + m
       /\ \A k \in 1 .. 3 : (A \o B)[k] = A[k]
       /\ \A k \in 1 .. m : (A \o B)[3 + k] = B[k]
  <2>. DEFINE three == 3
  <2>1. three \in Nat /\ m \in Nat /\ A \in Seq(MainElements) /\ B \in Seq(MainElements)
        /\ Len(A) = three /\ Len(B) = m
    BY <1>2, <1>5, <1>7
  <2>. HIDE DEF three
  <2>2. /\ A \o B \in Seq(MainElements) /\ Len(A \o B) = Len(A) + Len(B)
        /\ \A k \in 1 .. Len(A) : (A \o B)[k] = A[k]
        /\ \A k \in 1 .. Len(B) : (A \o B)[Len(A) + k] = B[k]
    <3>1. A \in Seq(MainElements) /\ B \in Seq(MainElements)
      BY <2>1
    <3>2. A \o B \in Seq(MainElements) /\ Len(A \o B) = Len(A) + Len(B)
      BY <3>1, ConcatAt
    <3>3. \A k \in 1 .. Len(A) : (A \o B)[k] = A[k]
      BY <3>1, ConcatAt
    <3>4. \A k \in 1 .. Len(B) : (A \o B)[Len(A) + k] = B[k]
      BY <3>1, ConcatAt
    <3>. QED
      BY <3>2, <3>3, <3>4
  <2>3. /\ A \o B \in Seq(MainElements) /\ Len(A \o B) = three + m
        /\ \A k \in 1 .. three : (A \o B)[k] = A[k]
        /\ \A k \in 1 .. m : (A \o B)[three + k] = B[k]
    BY <2>1, <2>2, Zenon
  <2>. QED
    BY <2>3 DEF three
<1>12. 3 + m \in Nat /\ (\A k \in 1 .. 3 : k \in 1 .. 3 + m)
       /\ \A k \in 1 .. m : 3 + k \in 1 .. 3 + m
  BY <1>2
<1>13. /\ MainFile(d) \in Seq(MainElements) /\ Len(MainFile(d)) = (3 + m) + r
       /\ \A k \in 1 .. 3 + m : MainFile(d)[k] = (A \o B)[k]
       /\ \A k \in 1 .. r : MainFile(d)[(3 + m) + k] = C[k]
  <2>. DEFINE ab == A \o B
              o == 3 + m
  <2>1. o \in Nat /\ r \in Nat /\ ab \in Seq(MainElements) /\ C \in Seq(MainElements)
        /\ Len(ab) = o /\ Len(C) = r
    BY <1>2, <1>6, <1>11, <1>12
  <2>. HIDE DEF ab, o
  <2>2. /\ ab \o C \in Seq(MainElements) /\ Len(ab \o C) = Len(ab) + Len(C)
        /\ \A k \in 1 .. Len(ab) : (ab \o C)[k] = ab[k]
        /\ \A k \in 1 .. Len(C) : (ab \o C)[Len(ab) + k] = C[k]
    <3>1. ab \in Seq(MainElements) /\ C \in Seq(MainElements)
      BY <2>1
    <3>2. ab \o C \in Seq(MainElements) /\ Len(ab \o C) = Len(ab) + Len(C)
      BY <3>1, ConcatAt
    <3>3. \A k \in 1 .. Len(ab) : (ab \o C)[k] = ab[k]
      BY <3>1, ConcatAt
    <3>4. \A k \in 1 .. Len(C) : (ab \o C)[Len(ab) + k] = C[k]
      BY <3>1, ConcatAt
    <3>. QED
      BY <3>2, <3>3, <3>4
  <2>3. /\ ab \o C \in Seq(MainElements) /\ Len(ab \o C) = o + r
        /\ \A k \in 1 .. o : (ab \o C)[k] = ab[k]
        /\ \A k \in 1 .. r : (ab \o C)[o + k] = C[k]
    BY <2>1, <2>2, Zenon
  <2>. QED
    BY <1>10, <2>3 DEF ab, o
<1>. QED
  BY <1>2, <1>8, <1>9, <1>11, <1>12, <1>13 DEF m, r

LEMMA MainFileNames ==
  ASSUME NEW d, IsDialog(d)
  PROVE  /\ NamesIn(MainFile(d), "ModBuilder") = d.models
         /\ NamesIn(MainFile(d), "RecBuilder") = d.recorders
<1>. DEFINE m == Len(d.models)
            r == Len(d.recorders)
            n == Len(MainFile(d))
            x == MainFile(d)
<1>1. /\ m \in Nat /\ r \in Nat /\ n = 3 + m + r /\ x \in Seq(MainElements)
      /\ \A k \in 1 .. 3 : x[k].elem \notin {"ModBuilder", "RecBuilder"}
      /\ \A j \in 1 .. m : x[3 + j] = ModBuilder(d.models[j])
      /\ \A j \in 1 .. r : x[3 + m + j] = RecBuilder(d.recorders[j])
  BY MainFileAt
<1>2. d.models \in Seq(Strings) /\ d.recorders \in Seq(Strings)
  BY DEF IsDialog
<1>. HIDE DEF m, r, n, x
<1>0. m \in Nat /\ r \in Nat /\ n = 3 + m + r
  BY <1>1
<1>3. \A k \in 1 .. n : \/ k \in 1 .. 3
                        \/ \E j \in 1 .. m : k = 3 + j
                        \/ \E j \in 1 .. r : k = 3 + m + j
  <2>. TAKE k \in 1 .. n
  <2>1. k \in 4 .. 3 + m => k - 3 \in 1 .. m /\ k = 3 + (k - 3)
    BY <1>1
  <2>2. k \in 3 + m + 1 .. n => k - 3 - m \in 1 .. r /\ k = 3 + m + (k - 3 - m)
    BY <1>1
  <2>3. k \in 1 .. 3 \/ k \in 4 .. 3 + m \/ k \in 3 + m + 1 .. n
    BY <1>1
  <2>. QED
    BY <2>1, <2>2, <2>3
<1>4. /\ \A j \in 1 .. m : x[3 + j].elem = "ModBuilder" /\ x[3 + j].name = d.models[j]
      /\ \A j \in 1 .. r :
           x[3 + m + j].elem = "RecBuilder" /\ x[3 + m + j].name = d.recorders[j]
  BY <1>1, ElementsAt, ZenonT(40)
<1>5. /\ Positions(x, "ModBuilder") = 3 + 1 .. 3 + m
      /\ \A j \in 1 .. m : NamesAt(x, "ModBuilder")[3 + j] = d.models[j]
  <2>1. ASSUME NEW k \in 1 .. n, x[k].elem = "ModBuilder"
        PROVE  k \in 3 + 1 .. 3 + m
    <3>1. ~(k \in 1 .. 3) /\ ~(\E j \in 1 .. r : k = 3 + m + j)
      BY <1>1, <1>4, <2>1
    <3>. QED
      BY <1>1, <1>3, <3>1
  <2>2. ASSUME NEW k \in 3 + 1 .. 3 + m
        PROVE  k \in 1 .. n /\ x[k].elem = "ModBuilder"
    <3>1. k \in 1 .. n /\ k - 3 \in 1 .. m /\ 3 + (k - 3) = k
      BY <1>1
    <3>. QED
      BY <1>4, <3>1
  <2>3. Positions(x, "ModBuilder") = 3 + 1 .. 3 + m
    <3>1. Positions(x, "ModBuilder") = {k \in 1 .. n : x[k].elem = "ModBuilder"}
      BY DEF Positions, n, x
    <3>. DEFINE R == 3 + 1 .. 3 + m
    <3>. HIDE DEF R
    <3>. QED
      BY <2>1, <2>2, <3>1 DEF R
  <2>4. \A j \in 1 .. m : 3 + j \in 3 + 1 .. 3 + m
    BY <1>1
  <2>. QED
    BY <1>4, <2>3, <2>4 DEF NamesAt
<1>6. /\ Positions(x, "RecBuilder") = (3 + m) + 1 .. (3 + m) + r
      /\ \A j \in 1 .. r : NamesAt(x, "RecBuilder")[(3 + m) + j] = d.recorders[j]
  <2>1. ASSUME NEW k \in 1 .. n, x[k].elem = "RecBuilder"
        PROVE  k \in (3 + m) + 1 .. (3 + m) + r
    <3>1. ~(k \in 1 .. 3) /\ ~(\E j \in 1 .. m : k = 3 + j)
      BY <1>1, <1>4, <2>1
    <3>. QED
      BY <1>1, <1>3, <3>1
  <2>2. ASSUME NEW k \in (3 + m) + 1 .. (3 + m) + r
        PROVE  k \in 1 .. n /\ x[k].elem = "RecBuilder"
    <3>1. k \in 1 .. n /\ k - 3 - m \in 1 .. r /\ 3 + m + (k - 3 - m) = k
      BY <1>1
    <3>. QED
      BY <1>4, <3>1
  <2>3. Positions(x, "RecBuilder") = (3 + m) + 1 .. (3 + m) + r
    <3>1. Positions(x, "RecBuilder") = {k \in 1 .. n : x[k].elem = "RecBuilder"}
      BY DEF Positions, n, x
    <3>. DEFINE R == (3 + m) + 1 .. (3 + m) + r
    <3>. HIDE DEF R
    <3>. QED
      BY <2>1, <2>2, <3>1 DEF R
  <2>4. \A j \in 1 .. r : (3 + m) + j \in (3 + m) + 1 .. (3 + m) + r
    BY <1>1
  <2>. QED
    BY <1>4, <2>3, <2>4 DEF NamesAt
<1>7. NamesIn(x, "ModBuilder") = d.models
  <2>1. PICK f : /\ Picks(n, Positions(x, "ModBuilder"), NamesAt(x, "ModBuilder"), f)
                 /\ NamesIn(x, "ModBuilder") = f[n]
    BY <1>1, NamesInIs DEF n, x
  <2>. DEFINE e == NamesAt(x, "ModBuilder")
              o == 3
  <2>2. Picks(n, o + 1 .. o + m, e, f) /\ \A j \in 1 .. m : e[o + j] = d.models[j]
    BY <1>5, <2>1
  <2>3. o \in Nat /\ n \in Nat /\ o + m <= n /\ m \in Nat
    BY <1>0
  <2>4. m = Len(d.models)
    BY DEF m
  <2>. HIDE DEF e, o
  <2>. DEFINE s == d.models
              C == o + 1 .. o + m
  <2>5. s \in Seq(Strings) /\ Picks(n, C, e, f)
    BY <1>2, <2>2
  <2>6. IsRun(C, e, o, s)
    BY <2>2, <2>4 DEF IsRun
  <2>7. o + Len(s) <= n
    BY <2>3, <2>4
  <2>. HIDE DEF s, C
  <2>8. f[n] = s
    BY <2>3, <2>5, <2>6, <2>7, PicksRun
  <2>. QED
    BY <2>1, <2>8 DEF s
<1>8. NamesIn(x, "RecBuilder") = d.recorders
  <2>1. PICK f : /\ Picks(n, Positions(x, "RecBuilder"), NamesAt(x, "RecBuilder"), f)
                 /\ NamesIn(x, "RecBuilder") = f[n]
    BY <1>1, NamesInIs DEF n, x
  <2>. DEFINE e == NamesAt(x, "RecBuilder")
              o == 3 + m
  <2>2. Picks(n, o + 1 .. o + r, e, f) /\ \A j \in 1 .. r : e[o + j] = d.recorders[j]
    BY <1>6, <2>1
  <2>3. o \in Nat /\ n \in Nat /\ o + r <= n /\ r \in Nat
    BY <1>0
  <2>4. r = Len(d.recorders)
    BY DEF r
  <2>. HIDE DEF e, o
  <2>. DEFINE s == d.recorders
              C == o + 1 .. o + r
  <2>5. s \in Seq(Strings) /\ Picks(n, C, e, f)
    BY <1>2, <2>2
  <2>6. IsRun(C, e, o, s)
    BY <2>2, <2>4 DEF IsRun
  <2>7. o + Len(s) <= n
    BY <2>3, <2>4
  <2>. HIDE DEF s, C
  <2>8. f[n] = s
    BY <2>3, <2>5, <2>6, <2>7, PicksRun
  <2>. QED
    BY <2>1, <2>8 DEF s
<1>. QED
  BY <1>7, <1>8 DEF x

-----------------------------------------------------------------------------
(* The builders' files                                                     *)

LEMMA EventsAre ==
  /\ \A f \in Strings : Start(f) \in Events
  /\ \A t \in Texts : Data(t) \in Events
  /\ \A f : Start(f).tag = f
  /\ \A t : Data(t).tag = NoTag /\ Data(t).text = t
<1>1. ASSUME NEW f \in Strings PROVE Start(f) \in Events
  BY TextIs DEF Start, Events
<1>2. ASSUME NEW t \in Texts PROVE Data(t) \in Events
  BY Literals DEF Data, Events
<1>. QED
  BY <1>1, <1>2 DEF Start, Data

\* The text that is read of a field with the value v.
FirstText(f, v) == IF Pieces(f, v) = <<>> THEN Blank ELSE Pieces(f, v)[1]

LEMMA LineIs ==
  ASSUME NEW f \in Strings, NEW v, Pieces(f, v) \in Seq(Texts)
  PROVE  /\ Line(f, v) \in Seq(Events)
         /\ ~CutsOff(f, v) =>
              /\ Len(Line(f, v)) \in Nat /\ Len(Line(f, v)) >= 2
              /\ Line(f, v)[1] = Start(f) /\ Line(f, v)[2] = Data(FirstText(f, v))
              /\ \A j \in 2 .. Len(Line(f, v)) : Line(f, v)[j].tag = NoTag
<1>. DEFINE p == Pieces(f, v)
            n == Len(p)
            A == <<Start(f)>>
            B == [k \in DOMAIN p |-> Data(p[k])]
            C == <<Data(Blank)>>
            D == IF CutsOff(f, v) THEN <<>> ELSE C
<1>1. n \in Nat /\ DOMAIN p = 1 .. n /\ \A k \in 1 .. n : p[k] \in Texts
  BY ElementOfSeq, LenProperties
<1>2. A \in Seq(Events) /\ Len(A) = 1 /\ A[1] = Start(f)
  <2>1. Start(f) \in Events
    BY EventsAre
  <2>. QED
    BY <2>1
<1>3. C \in Seq(Events) /\ Len(C) = 1 /\ C[1] = Data(Blank)
  <2>1. Data(Blank) \in Events
    BY EventsAre, TextIs
  <2>. QED
    BY <2>1
<1>4. D \in Seq(Events)
  <2>1. <<>> \in Seq(Events)
    OBVIOUS
  <2>. HIDE DEF C
  <2>. QED
    BY <1>3, <2>1
<1>5. B \in Seq(Events) /\ Len(B) = n /\ \A k \in 1 .. n : B[k] = Data(p[k])
  <2>1. \A k \in 1 .. n : Data(p[k]) \in Events
    BY <1>1, EventsAre
  <2>2. B = [k \in 1 .. n |-> B[k]] /\ \A k \in 1 .. n : B[k] = Data(p[k])
    BY <1>1
  <2>. HIDE DEF B, n, p
  <2>3. B \in [1 .. n -> Events]
    BY <2>1, <2>2
  <2>. QED
    BY <1>1, <2>2, <2>3, FunctionIsSeq, LenOf
<1>6. Line(f, v) = (A \o B) \o D
  BY DEF Line
<1>7. CutsOff(f, v) \/ D = C
  OBVIOUS
<1>8. FirstText(f, v) = IF n = 0 THEN Blank ELSE p[1]
  <2>1. p = <<>> <=> n = 0
    BY EmptySeq
  <2>. HIDE DEF n
  <2>. QED
    BY <2>1 DEF FirstText
<1>. HIDE DEF A, B, C, D, n, p
<1>. DEFINE AB == A \o B
<1>9. /\ AB \in Seq(Events) /\ Len(AB) = Len(A) + Len(B)
      /\ \A k \in 1 .. Len(A) : AB[k] = A[k]
      /\ \A k \in 1 .. Len(B) : AB[Len(A) + k] = B[k]
  <2>1. A \in Seq(Events) /\ B \in Seq(Events)
    BY <1>2, <1>5
  <2>2. AB \in Seq(Events) /\ Len(AB) = Len(A) + Len(B)
    BY <2>1, ConcatAt
  <2>3. \A k \in 1 .. Len(A) : AB[k] = A[k]
    BY <2>1, ConcatAt
  <2>4. \A k \in 1 .. Len(B) : AB[Len(A) + k] = B[k]
    BY <2>1, ConcatAt
  <2>. QED
    BY <2>2, <2>3, <2>4
<1>10. Len(AB) = 1 + n /\ AB[1] = Start(f) /\ \A k \in 1 .. n : AB[1 + k] = Data(p[k])
  <2>. HIDE DEF AB
  <2>1. 1 \in 1 .. Len(A)
    BY <1>2
  <2>2. AB[1] = A[1]
    BY <1>9, <2>1
  <2>3. \A k \in 1 .. n : AB[1 + k] = B[k]
    BY <1>2, <1>5, <1>9
  <2>. QED
    BY <1>2, <1>5, <1>9, <2>2, <2>3
<1>. HIDE DEF AB
<1>11. Line(f, v) \in Seq(Events)
  <2>1. AB \o D \in Seq(Events)
    BY <1>4, <1>9, ConcatAt
  <2>. QED
    BY <1>6, <2>1 DEF AB
<1>12. ASSUME ~CutsOff(f, v)
       PROVE  /\ Len(Line(f, v)) \in Nat /\ Len(Line(f, v)) >= 2
              /\ Line(f, v)[1] = Start(f) /\ Line(f, v)[2] = Data(FirstText(f, v))
              /\ \A j \in 2 .. Len(Line(f, v)) : Line(f, v)[j].tag = NoTag
  <2>. DEFINE l == AB \o C
  <2>1. Line(f, v) = l
    BY <1>6, <1>7, <1>12 DEF AB
  <2>2. /\ Len(l) = Len(AB) + Len(C)
        /\ \A k \in 1 .. Len(AB) : l[k] = AB[k]
        /\ \A k \in 1 .. Len(C) : l[Len(AB) + k] = C[k]
    <3>1. AB \in Seq(Events) /\ C \in Seq(Events)
      BY <1>3, <1>9
    <3>2. Len(l) = Len(AB) + Len(C)
      BY <3>1, ConcatAt
    <3>3. \A k \in 1 .. Len(AB) : l[k] = AB[k]
      BY <3>1, ConcatAt
    <3>4. \A k \in 1 .. Len(C) : l[Len(AB) + k] = C[k]
      BY <3>1, ConcatAt
    <3>. QED
      BY <3>2, <3>3, <3>4
  <2>. HIDE DEF l
  <2>3. 1 \in 1 .. Len(C) /\ Len(AB) + 1 = 2 + n
    BY <1>1, <1>3, <1>10
  <2>4. l[2 + n] = Data(Blank)
    BY <1>3, <2>2, <2>3
  <2>5. \A k \in 1 .. n : 1 + k \in 1 .. Len(AB)
    BY <1>1, <1>10
  <2>6. \A k \in 1 .. n : l[1 + k] = Data(p[k])
    BY <1>10, <2>2, <2>5
  <2>7. l[1] = Start(f) /\ Len(l) = 2 + n
    BY <1>1, <1>3, <1>10, <2>2
  <2>8. l[2] = Data(FirstText(f, v))
    <3>1. CASE n = 0
      BY <1>8, <2>4, <3>1
    <3>2. CASE n # 0
      <4>1. 1 \in 1 .. n
        BY <1>1, <3>2
      <4>2. l[1 + 1] = Data(p[1])
        BY <2>6, <4>1
      <4>. QED
        BY <1>8, <3>2, <4>2
    <3>. QED
      BY <3>1, <3>2
  <2>9. ASSUME NEW j \in 2 .. Len(l) PROVE l[j].tag = NoTag
    <3>1. CASE j = 2 + n
      BY <2>4, <3>1, EventsAre
    <3>2. CASE j # 2 + n
      <4>. DEFINE k == j - 1
      <4>1. k \in 1 .. n /\ j = 1 + k
        BY <1>1, <2>7, <3>2
      <4>. HIDE DEF k
      <4>2. l[j] = Data(p[k])
        BY <2>6, <4>1
      <4>. QED
        BY <4>2, EventsAre
    <3>. QED
      BY <3>1, <3>2
  <2>10. Len(l) \in Nat /\ Len(l) >= 2
    BY <1>1, <2>7
  <2>. QED
    BY <2>1, <2>7, <2>8, <2>9, <2>10
<1>. QED
  BY <1>11, <1>12

\* A builder's file, unless a path cuts it off, gives each of the builder's fields, with
\* its text right after its tag.
LEMMA BuilderFileAt ==
  ASSUME NEW d, IsDialog(d),
         NEW b \in DOMAIN Builders, b \in ToSet(d.models \o d.recorders)
  PROVE  LET file == BuilderFile(d, b)
             text(f) == FirstText(f, d.fields[b][f])
         IN  /\ file \in Seq(Events)
             /\ ~CutBefore(d, b, Len(d.toXml[b]) + 1) =>
                  /\ \A k \in 1 .. Len(file) :
                       file[k].tag \in Fields(Builders[b]) =>
                         /\ file[k].tag \in DOMAIN d.fields[b]
                         /\ k + 1 \in 1 .. Len(file)
                         /\ file[k + 1] = Data(text(file[k].tag))
                  /\ \A f \in DOMAIN d.fields[b] : \E k \in 1 .. Len(file) : file[k].tag = f
<1>. DEFINE file == BuilderFile(d, b)
            value(f) == d.fields[b][f]
            text(f) == FirstText(f, value(f))
            xml == d.toXml[b]
            n == Len(xml)
            whole == ~CutBefore(d, b, n + 1)
            L == [k \in DOMAIN xml |->
                    IF CutBefore(d, b, k) THEN <<>> ELSE Line(xml[k], Value(d, b, k))]
            H == <<Start("Info"), Data(Blank)>>
            flat == FlattenSeq(L)
<1>1. /\ xml \in Seq(Strings) /\ DOMAIN d.fields[b] = ToSet(xml)
      /\ \A f \in DOMAIN d.fields[b] : f # "use_f" /\ TypeOf(f, value(f))
  BY DEF IsDialog
<1>2. n \in Nat /\ DOMAIN xml = 1 .. n /\ \A k \in 1 .. n : xml[k] \in Strings
  BY <1>1, ElementOfSeq, LenProperties
<1>3. /\ \A k \in 1 .. n : xml[k] \in DOMAIN d.fields[b]
      /\ \A f \in DOMAIN d.fields[b] : \E k \in 1 .. n : xml[k] = f
  BY <1>1, <1>2 DEF ToSet
<1>c. whole => \A k \in 1 .. n : ~CutBefore(d, b, k) /\ ~CutsOff(xml[k], value(xml[k]))
  <2>. DEFINE Cuts0 == {j \in 1 .. n : CutsOff(xml[j], value(xml[j]))}
  <2>1. \A k \in Nat : CutBefore(d, b, k) <=>
                        \E j \in 1 .. k - 1 : CutsOff(xml[j], value(xml[j]))
    BY DEF CutBefore, Value
  <2>2. n + 1 \in Nat /\ (n + 1) - 1 = n
    BY <1>2
  <2>3. whole => Cuts0 = {}
    BY <2>1, <2>2
  <2>4. ASSUME whole, NEW k \in 1 .. n PROVE ~CutBefore(d, b, k)
    <3>1. \A j \in 1 .. k - 1 : j \in 1 .. n
      BY <1>2
    <3>2. k \in Nat
      OBVIOUS
    <3>. HIDE DEF whole, n, xml, value
    <3>. QED
      BY <2>1, <2>3, <2>4, <3>1, <3>2
  <2>. HIDE DEF whole, xml, value
  <2>. QED
    BY <2>3, <2>4
<1>4. ASSUME NEW k \in 1 .. n
      PROVE  /\ L[k] \in Seq(Events)
             /\ whole =>
                  /\ Len(L[k]) >= 2
                  /\ L[k][1] = Start(xml[k]) /\ L[k][2] = Data(text(xml[k]))
                  /\ \A j \in 2 .. Len(L[k]) : L[k][j].tag = NoTag
  <2>. DEFINE f == xml[k]
              v == value(f)
              l == Line(f, v)
  <2>1. f \in Strings /\ f # "use_f" /\ TypeOf(f, v)
    BY <1>1, <1>2, <1>3
  <2>2. L[k] = IF CutBefore(d, b, k) THEN <<>> ELSE l
    BY <1>2 DEF Value
  <2>3. text(f) = FirstText(f, v)
    OBVIOUS
  <2>4. whole => ~CutBefore(d, b, k) /\ ~CutsOff(f, v)
    BY <1>c
  <2>. HIDE DEF f, v, L, text, whole
  <2>5. Pieces(f, v) \in Seq(Texts)
    BY <2>1, PiecesTyped
  <2>6. /\ l \in Seq(Events)
        /\ ~CutsOff(f, v) =>
             /\ Len(l) >= 2 /\ l[1] = Start(f) /\ l[2] = Data(FirstText(f, v))
             /\ \A j \in 2 .. Len(l) : l[j].tag = NoTag
    BY <2>1, <2>5, LineIs
  <2>7. <<>> \in Seq(Events)
    OBVIOUS
  <2>. HIDE DEF l
  <2>8. L[k] \in Seq(Events)
    BY <2>2, <2>6, <2>7
  <2>9. ASSUME whole
        PROVE  /\ Len(L[k]) >= 2
               /\ L[k][1] = Start(f) /\ L[k][2] = Data(text(f))
               /\ \A j \in 2 .. Len(L[k]) : L[k][j].tag = NoTag
    <3>1. L[k] = l /\ ~CutsOff(f, v)
      BY <2>2, <2>4, <2>9
    <3>. QED
      BY <2>3, <2>6, <3>1
  <2>. QED
    BY <2>8, <2>9 DEF f
<1>d. \A k \in 1 .. n : Len(L[k]) \in Nat
  <2>1. ASSUME NEW k \in 1 .. n PROVE Len(L[k]) \in Nat
    <3>1. L[k] \in Seq(Events)
      BY <1>4
    <3>. HIDE DEF L, n
    <3>. QED
      BY <3>1, LenProperties
  <2>. QED
    BY <2>1
<1>5. L \in Seq(Seq(Events)) /\ Len(L) = n
  <2>1. L = [k \in 1 .. n |-> L[k]]
    BY <1>2
  <2>. HIDE DEF L, n
  <2>2. L \in [1 .. n -> Seq(Events)]
    BY <1>4, <2>1
  <2>. QED
    BY <1>2, <2>1, <2>2, FunctionIsSeq, LenOf
<1>. HIDE DEF L, n, text, value, xml, whole
<1>. HIDE DEF flat, H, file
<1>a. flat \in Seq(Events) /\ \E off : EndToEnd(L, flat, off)
  <2>1. L \in Seq(Seq(Events))
    BY <1>5
  <2>2. FlattenSeq(L) \in Seq(Events) /\ \E off : EndToEnd(L, FlattenSeq(L), off)
    BY <2>1, Flattened
  <2>3. flat = FlattenSeq(L)
    BY DEF flat
  <2>. QED
    BY <2>2, <2>3
<1>b. PICK off : EndToEnd(L, flat, off)
  BY <1>a
<1>6. /\ Offsets(L, off) /\ flat \in Seq(Events) /\ Len(flat) = off[n]
      /\ \A g \in 1 .. n : \A j \in 1 .. Len(L[g]) : flat[off[g - 1] + j] = L[g][j]
  BY <1>5, <1>a, <1>b DEF EndToEnd
<1>7. /\ \A g \in 0 .. n : off[g] \in Nat
      /\ \A g \in 1 .. n : g - 1 \in 0 .. n /\ g \in 0 .. n /\ off[g] = off[g - 1] + Len(L[g])
      /\ n \in 0 .. n
  <2>1. /\ off \in [0 .. n -> Nat]
        /\ \A g \in 1 .. n : off[g] = off[g - 1] + Len(L[g])
    BY <1>5, <1>6 DEF Offsets
  <2>2. n \in 0 .. n /\ \A g \in 1 .. n : g - 1 \in 0 .. n /\ g \in 0 .. n
    BY <1>2
  <2>. QED
    BY <2>1, <2>2
<1>8. \A g \in 1 .. n : off[g] <= off[n]
  <2>1. ASSUME NEW g \in 1 .. n PROVE off[g] <= off[n]
    <3>1. g \in 0 .. n /\ n \in 0 .. n /\ g <= n
      BY <1>2
    <3>2. Len(L) \in Nat /\ \A h \in 1 .. Len(L) : Len(L[h]) \in Nat
      BY <1>2, <1>d, <1>5
    <3>. QED
      BY <1>5, <1>6, <3>1, <3>2, OffsetsGrow
  <2>. QED
    BY <2>1
<1>9. H \in Seq(Events) /\ Len(H) = 2 /\ H[1] = Start("Info") /\ H[2] = Data(Blank)
  <2>1. Start("Info") \in Events /\ Data(Blank) \in Events
    BY EventsAre, TextIs, Literals
  <2>. QED
    BY <2>1 DEF H
<1>10. file = H \o flat
  BY DEF BuilderFile, L, xml, H, flat, file
<1>11. /\ file \in Seq(Events) /\ Len(file) = 2 + off[n]
       /\ \A k \in 1 .. 2 : file[k] = H[k]
       /\ \A k \in 1 .. off[n] : file[2 + k] = flat[k]
  <2>. DEFINE two == 2
              m == off[n]
  <2>1. two \in Nat /\ m \in Nat /\ Len(H) = two /\ Len(flat) = m
        /\ H \in Seq(Events) /\ flat \in Seq(Events)
    BY <1>6, <1>7, <1>9
  <2>. HIDE DEF two, m
  <2>2. /\ H \o flat \in Seq(Events) /\ Len(H \o flat) = Len(H) + Len(flat)
        /\ \A k \in 1 .. Len(H) : (H \o flat)[k] = H[k]
        /\ \A k \in 1 .. Len(flat) : (H \o flat)[Len(H) + k] = flat[k]
    <3>1. H \in Seq(Events) /\ flat \in Seq(Events)
      BY <2>1
    <3>2. H \o flat \in Seq(Events) /\ Len(H \o flat) = Len(H) + Len(flat)
      BY <3>1, ConcatAt
    <3>3. \A k \in 1 .. Len(H) : (H \o flat)[k] = H[k]
      BY <3>1, ConcatAt
    <3>4. \A k \in 1 .. Len(flat) : (H \o flat)[Len(H) + k] = flat[k]
      BY <3>1, ConcatAt
    <3>. QED
      BY <3>2, <3>3, <3>4
  <2>3. /\ H \o flat \in Seq(Events) /\ Len(H \o flat) = two + m
        /\ \A k \in 1 .. two : (H \o flat)[k] = H[k]
        /\ \A k \in 1 .. m : (H \o flat)[two + k] = flat[k]
    BY <2>1, <2>2, Zenon
  <2>. QED
    BY <1>10, <2>3 DEF two, m
<1>12. ASSUME NEW g \in 1 .. n, NEW j \in 1 .. Len(L[g])
       PROVE  /\ 2 + (off[g - 1] + j) \in 1 .. Len(file)
              /\ file[2 + (off[g - 1] + j)] = L[g][j]
  <2>1. off[g - 1] + j \in 1 .. off[n]
    <3>1. /\ off[g - 1] \in Nat /\ off[g] \in Nat /\ off[n] \in Nat /\ Len(L[g]) \in Nat
          /\ off[g] = off[g - 1] + Len(L[g]) /\ off[g] <= off[n]
      BY <1>d, <1>7, <1>8
    <3>. QED
      BY <3>1
  <2>2. flat[off[g - 1] + j] = L[g][j]
    BY <1>5, <1>6
  <2>. DEFINE p == off[g - 1] + j
              m == off[n]
  <2>3. m \in Nat /\ p \in 1 .. m /\ flat[p] = L[g][j]
    BY <1>7, <2>1, <2>2
  <2>4. Len(file) = 2 + m /\ file[2 + p] = flat[p]
    BY <1>11, <2>3
  <2>. HIDE DEF p, m
  <2>5. 2 + p \in 1 .. Len(file) /\ file[2 + p] = L[g][j]
    BY <2>3, <2>4
  <2>. QED
    BY <2>5 DEF p
<1>13. ASSUME whole, NEW k \in 1 .. Len(file), file[k].tag \in Fields(Builders[b])
       PROVE  /\ file[k].tag \in DOMAIN d.fields[b]
              /\ k + 1 \in 1 .. Len(file)
              /\ file[k + 1] = Data(text(file[k].tag))
  <2>1. k # 1 /\ k # 2
    <3>1. file[1].tag = "Info" /\ file[2].tag = NoTag
      <4>1. file[1] = Start("Info") /\ file[2] = Data(Blank)
        BY <1>9, <1>11
      <4>. QED
        BY <4>1, EventsAre
    <3>. QED
      BY <1>13, <3>1, FieldNames
  <2>. DEFINE p == k - 2
  <2>2. p \in 1 .. off[n] /\ k = 2 + p
    BY <1>7, <1>11, <2>1
  <2>. HIDE DEF p
  <2>3. PICK g \in 1 .. n : p \in off[g - 1] + 1 .. off[g]
    <3>1. Len(L) \in Nat /\ \A h \in 1 .. Len(L) : Len(L[h]) \in Nat
      BY <1>2, <1>d, <1>5
    <3>. QED
      BY <1>5, <1>6, <2>2, <3>1, OffsetsCover
  <2>. DEFINE j == p - off[g - 1]
  <2>4. j \in 1 .. Len(L[g]) /\ p = off[g - 1] + j
    <3>1. /\ off[g - 1] \in Nat /\ off[g] \in Nat /\ Len(L[g]) \in Nat
          /\ off[g] = off[g - 1] + Len(L[g])
      BY <1>d, <1>7
    <3>. QED
      BY <2>3, <3>1
  <2>. HIDE DEF j
  <2>5. file[k] = L[g][j]
    BY <1>12, <2>2, <2>4
  <2>6. j = 1
    <3>1. j \in 2 .. Len(L[g]) => L[g][j].tag = NoTag
      BY <1>4, <1>13
    <3>2. j = 1 \/ j \in 2 .. Len(L[g])
      BY <1>d, <2>4
    <3>. QED
      BY <1>13, <2>5, <3>1, <3>2, FieldNames
  <2>7. file[k].tag = xml[g]
    BY <1>4, <1>13, <2>5, <2>6, EventsAre
  <2>8. k + 1 = 2 + (off[g - 1] + 2) /\ 2 \in 1 .. Len(L[g])
    <3>1. off[g - 1] \in Nat
      BY <1>7
    <3>. QED
      BY <1>4, <1>d, <1>13, <2>2, <2>4, <2>6, <3>1, SMTT(40)
  <2>9. k + 1 \in 1 .. Len(file) /\ file[k + 1] = L[g][2]
    BY <1>12, <2>8
  <2>. QED
    BY <1>3, <1>4, <1>13, <2>7, <2>9
<1>14. ASSUME whole, NEW f \in DOMAIN d.fields[b]
       PROVE  \E k \in 1 .. Len(file) : file[k].tag = f
  <2>1. PICK g \in 1 .. n : xml[g] = f
    BY <1>3
  <2>2. 1 \in 1 .. Len(L[g])
    BY <1>4, <1>d, <1>14
  <2>. DEFINE k == 2 + (off[g - 1] + 1)
  <2>3. k \in 1 .. Len(file) /\ file[k] = L[g][1]
    BY <1>12, <2>2
  <2>. HIDE DEF k
  <2>. QED
    BY <1>4, <1>14, <2>1, <2>3, EventsAre
<1>. QED
  BY <1>11, <1>13, <1>14 DEF file, text, value, whole, n, xml

-----------------------------------------------------------------------------
(* The inductive invariant                                                 *)

\* The files that a save of d writes.
Saves(d) == {"main"} \cup ToSet(d.models \o d.recorders)

Configs ==
  [configFile : BOOLEAN, time : {NoTime} \cup (Int \X Int \X Int), scenario : BOOLEAN,
   mods : Seq(Strings), recs : Seq(Strings)]

ParserTyped(b, p) ==
  /\ p.actTag \in {NoTag} \cup Fields(Builders[b])
  /\ DOMAIN p.values \subseteq Fields(Builders[b])
  /\ \A f \in DOMAIN p.values : Raw(f, p.values[f])

FilesTyped(files) ==
  \A n \in DOMAIN files :
    /\ n = "main" => files[n] \in Seq(MainElements)
    /\ n \in DOMAIN Builders => files[n] \in Seq(Events)

Typed ==
  /\ FilesTyped(disk)
  /\ dialog \in Dialogs /\ todo \in Seq(Saves(dialog))
  /\ phase \in {"off", "main", "models", "recorders", "ready", "aborted"}
  /\ pos \in Nat /\ config \in Configs
  /\ queue \in Seq(DOMAIN Builders) /\ reading \in {Nobody} \cup DOMAIN Builders
  /\ DOMAIN parsers = DOMAIN Builders
  /\ \A b \in DOMAIN Builders : ParserTyped(b, parsers[b])

\* Nothing has been loaded before loading starts.
AtRest ==
  phase = "off" =>
    /\ pos = 0 /\ config = NoConfig /\ reading = Nobody
    /\ \A b \in DOMAIN Builders : parsers[b] = Untouched
    /\ models = <<>> /\ recorders = <<>>

\* What a save has written is on the disk if nothing was lost, and stays there once
\* loading starts.
SavedSoFar ==
  /\ saved => todo = <<>>
  /\ phase # "off" => todo = <<>>
  /\ (saved \/ todo # <<>>) /\ ~lost =>
       \A n \in Saves(dialog) \ ToSet(todo) : n \in DOMAIN disk /\ disk[n] = FileOf(dialog, n)

\* The parser of the main file has the names of the elements that it has seen.
MainSoFar ==
  /\ phase \in {"main", "models", "recorders", "ready"} => "main" \in DOMAIN disk
  /\ phase = "main" =>
       /\ pos \in 0 .. Len(disk["main"])
       /\ config.mods = NamesIn(Firsts(disk["main"], pos), "ModBuilder")
       /\ config.recs = NamesIn(Firsts(disk["main"], pos), "RecBuilder")
  /\ phase \in {"models", "recorders", "ready"} =>
       config.mods = BuilderNames("ModBuilder") /\ config.recs = BuilderNames("RecBuilder")

\* A parser has a tag or a value of those fields only that are in its file.
OnlyWritten ==
  \A b \in DOMAIN Builders : \A f \in Fields(Builders[b]) :
    f \in DOMAIN parsers[b].values \/ parsers[b].actTag = f =>
      b \in DOMAIN disk /\ Tags(disk[b], f) # {}

\* The last tag of f in the file is at k, and its text comes next.
LastAt(file, f, k) ==
  /\ k \in Tags(file, f) /\ \A j \in Tags(file, f) : j <= k
  /\ k + 1 \in DOMAIN file /\ IsData(file[k + 1])

\* The parser p has that text's value, which stays.
HasRead(p, file, f, k) ==
  /\ p.actTag # f
  /\ f \in DOMAIN p.values /\ p.values[f] = Convert(f, file[k + 1].text)

\* What the parser of the file being read has so far.
ReadSoFar ==
  reading # Nobody =>
    /\ phase \in {"models", "recorders"} /\ reading \in DOMAIN disk
    /\ pos \in 0 .. Len(disk[reading])
    /\ \A f \in Fields(Builders[reading]) : \A k \in DOMAIN disk[reading] :
         LastAt(disk[reading], f, k) =>
           /\ pos = k => parsers[reading].actTag = f
           /\ pos > k => HasRead(parsers[reading], disk[reading], f, k)

\* A parser whose file has been read has the last value of each field.
Finished(b) ==
  /\ b \in DOMAIN disk
  /\ \A f \in Fields(Builders[b]) : \A k \in DOMAIN disk[b] :
       LastAt(disk[b], f, k) => HasRead(parsers[b], disk[b], f, k)

\* The files of the builders in the names are read, or will be.
Underway(names) == \A b \in ToSet(names) : b \in ToSet(queue) \cup {reading} \/ Finished(b)

AllRead ==
  /\ phase = "models" => Underway(Known(config.mods, ModelBuilders))
  /\ phase = "recorders" => Underway(Known(config.recs, RecorderBuilders))

\* What is created has the parameters of its file.
Right(m) ==
  /\ m.builder \in DOMAIN Builders /\ m.builder \in DOMAIN disk
  /\ DOMAIN m.fields = Fields(Builders[m.builder])
  /\ \A f \in DOMAIN m.fields :
       /\ \/ TypeOf(f, m.fields[f])
          \/ m.fields[f] = NaN /\ Builders[m.builder] = "message" /\ f \in Floats
       /\ Tags(disk[m.builder], f) = {} =>
            (f \in DOMAIN Defaults[Builders[m.builder]] =>
               m.fields[f] = Get(f, Defaults[Builders[m.builder]][f]))
       /\ \A k \in DOMAIN disk[m.builder] :
            LastAt(disk[m.builder], f, k) =>
              m.fields[f] = Get(f, Convert(f, disk[m.builder][k + 1].text))

AllRight(created) ==
  /\ Len(created) \in Nat /\ created = [k \in 1 .. Len(created) |-> created[k]]
  /\ \A k \in 1 .. Len(created) : Right(created[k])

CreatedRight ==
  /\ AllRight(models) /\ AllRight(recorders)
  /\ phase \in {"recorders", "ready"} =>
       NamesOf(models) = Known(BuilderNames("ModBuilder"), ModelBuilders)
  /\ phase = "ready" =>
       NamesOf(recorders) = Known(BuilderNames("RecBuilder"), RecorderBuilders)

ConfigurationInv ==
  /\ Typed /\ AtRest /\ SavedSoFar /\ MainSoFar
  /\ OnlyWritten /\ ReadSoFar /\ AllRead /\ CreatedRight

-----------------------------------------------------------------------------
(* Facts that the steps rest on                                            *)

LEMMA ToSetConcat ==
  ASSUME NEW S, NEW s \in Seq(S), NEW t \in Seq(S)
  PROVE  ToSet(s \o t) = ToSet(s) \cup ToSet(t)
<1>. DEFINE m == Len(s)
            n == Len(t)
            u == s \o t
<1>1. m \in Nat /\ n \in Nat /\ DOMAIN s = 1 .. m /\ DOMAIN t = 1 .. n
  BY LenProperties
<1>2. u \in Seq(S) /\ Len(u) = m + n
  BY ConcatAt
<1>3. /\ \A k \in 1 .. m : u[k] = s[k]
      /\ \A k \in 1 .. n : u[m + k] = t[k]
  BY ConcatAt
<1>4. DOMAIN u = 1 .. m + n
  BY <1>2, LenProperties
<1>. HIDE DEF m, n, u
<1>5. ASSUME NEW k \in 1 .. m + n PROVE u[k] \in ToSet(s) \cup ToSet(t)
  <2>1. CASE k \in 1 .. m
    BY <1>1, <1>3, <2>1 DEF ToSet
  <2>2. CASE k \notin 1 .. m
    <3>1. k - m \in 1 .. n /\ m + (k - m) = k
      BY <1>1, <2>2
    <3>. QED
      BY <1>1, <1>3, <3>1 DEF ToSet
  <2>. QED
    BY <2>1, <2>2
<1>6. \A k \in 1 .. m : k \in 1 .. m + n
  BY <1>1
<1>7. \A k \in 1 .. n : m + k \in 1 .. m + n
  BY <1>1
<1>8. ToSet(u) = {u[k] : k \in 1 .. m + n}
  BY <1>4 DEF ToSet
<1>9. ToSet(s) = {s[k] : k \in 1 .. m} /\ ToSet(t) = {t[k] : k \in 1 .. n}
  BY <1>1 DEF ToSet
<1>10. ToSet(s) \subseteq ToSet(u) /\ ToSet(t) \subseteq ToSet(u)
  BY <1>3, <1>6, <1>7, <1>8, <1>9
<1>. QED
  BY <1>5, <1>8, <1>10 DEF u

LEMMA ToSetOf ==
  ASSUME NEW S, NEW s \in Seq(S)
  PROVE  /\ ToSet(s) \subseteq S
         /\ s = <<>> => ToSet(s) = {}
         /\ s # <<>> => /\ Head(s) \in S /\ Tail(s) \in Seq(S)
                        /\ ToSet(s) = {Head(s)} \cup ToSet(Tail(s))
<1>1. Len(s) \in Nat /\ DOMAIN s = 1 .. Len(s) /\ \A k \in 1 .. Len(s) : s[k] \in S
  BY ElementOfSeq, LenProperties
<1>2. ToSet(s) \subseteq S
  BY <1>1 DEF ToSet
<1>3. ASSUME s = <<>> PROVE ToSet(s) = {}
  <2>1. Len(s) = 0
    BY <1>3
  <2>. QED
    BY <1>1, <2>1 DEF ToSet
<1>4. ASSUME s # <<>>
      PROVE  /\ Head(s) \in S /\ Tail(s) \in Seq(S)
             /\ ToSet(s) = {Head(s)} \cup ToSet(Tail(s))
  <2>. DEFINE r == Tail(s)
              n == Len(s)
  <2>1. /\ Head(s) \in S /\ Head(s) = s[1] /\ r \in Seq(S) /\ Len(r) = n - 1
        /\ \A k \in 1 .. n - 1 : r[k] = s[k + 1]
    BY <1>4, HeadTailProperties
  <2>2. n \in Nat /\ n # 0
    BY <1>1, <1>4, EmptySeq
  <2>3. DOMAIN r = 1 .. n - 1
    BY <2>1, LenProperties
  <2>. HIDE DEF r, n
  <2>4. ToSet(r) = {r[k] : k \in 1 .. n - 1}
    BY <2>3 DEF ToSet
  <2>5. ToSet(s) = {s[k] : k \in 1 .. n}
    BY <1>1 DEF ToSet, n
  <2>6. ASSUME NEW k \in 1 .. n PROVE s[k] \in {Head(s)} \cup ToSet(r)
    <3>1. CASE k = 1
      BY <2>1, <3>1
    <3>2. CASE k # 1
      <4>1. k - 1 \in 1 .. n - 1 /\ (k - 1) + 1 = k
        BY <2>2, <3>2
      <4>2. r[k - 1] = s[k]
        BY <2>1, <4>1
      <4>. QED
        BY <2>4, <4>1, <4>2
    <3>. QED
      BY <3>1, <3>2
  <2>7. 1 \in 1 .. n /\ \A k \in 1 .. n - 1 : k + 1 \in 1 .. n
    BY <2>2
  <2>8. Head(s) \in ToSet(s) /\ ToSet(r) \subseteq ToSet(s)
    BY <2>1, <2>4, <2>5, <2>7
  <2>9. ToSet(s) = {Head(s)} \cup ToSet(r)
    BY <2>5, <2>6, <2>8
  <2>. QED
    BY <2>1, <2>9 DEF r
<1>. QED
  BY <1>2, <1>3, <1>4

LEMMA SavesAre ==
  ASSUME NEW d, IsDialog(d)
  PROVE  LET todos == <<"main">> \o d.models \o d.recorders
         IN  /\ todos \in Seq(Saves(d)) /\ todos # <<>> /\ ToSet(todos) = Saves(d)
             /\ ToSet(d.models) \subseteq Saves(d) /\ ToSet(d.recorders) \subseteq Saves(d)
<1>. DEFINE S == Saves(d)
            one == <<"main">>
            x == d.models
            y == d.recorders
<1>1. x \in Seq(Strings) /\ y \in Seq(Strings)
  BY DEF IsDialog
<1>2. ToSet(x \o y) = ToSet(x) \cup ToSet(y)
  BY <1>1, ToSetConcat
<1>3. "main" \in S /\ ToSet(x) \subseteq S /\ ToSet(y) \subseteq S
      /\ S = {"main"} \cup (ToSet(x) \cup ToSet(y))
  BY <1>2 DEF Saves
<1>4. one \in Seq(S) /\ Len(one) = 1 /\ one[1] = "main" /\ DOMAIN one = 1 .. 1
  BY <1>3
<1>5. x \in Seq(S) /\ y \in Seq(S)
  <2>1. ASSUME NEW z \in Seq(Strings), ToSet(z) \subseteq S PROVE z \in Seq(S)
    <3>1. Len(z) \in Nat /\ z \in [1 .. Len(z) -> Strings] /\ DOMAIN z = 1 .. Len(z)
      BY <2>1, LenProperties
    <3>2. \A k \in 1 .. Len(z) : z[k] \in S
      BY <2>1, <3>1 DEF ToSet
    <3>3. z \in [1 .. Len(z) -> S] /\ Len(z) \in Int
      BY <3>1, <3>2
    <3>. QED
      BY <3>3, FunctionIsSeq
  <2>. QED
    BY <1>1, <1>3, <2>1
<1>6. ToSet(one) = {"main"}
  BY <1>4 DEF ToSet
<1>. HIDE DEF S, one, x, y
<1>7. one \o x \in Seq(S) /\ Len(one \o x) = Len(one) + Len(x)
  BY <1>4, <1>5, ConcatAt
<1>8. ToSet(one \o x) = {"main"} \cup ToSet(x)
  BY <1>4, <1>5, <1>6, ToSetConcat
<1>. DEFINE w == one \o x
<1>. HIDE DEF w
<1>9. w \in Seq(S) /\ Len(w) = 1 + Len(x)
  BY <1>4, <1>7 DEF w
<1>10. w \o y \in Seq(S) /\ Len(w \o y) = Len(w) + Len(y)
  <2>1. w \in Seq(S) /\ y \in Seq(S)
    BY <1>5, <1>9
  <2>. QED
    BY <2>1, ConcatAt
<1>11. ToSet(w \o y) = S
  <2>1. w \in Seq(S) /\ y \in Seq(S)
    BY <1>5, <1>9
  <2>2. ToSet(w \o y) = ToSet(w) \cup ToSet(y)
    BY <2>1, ToSetConcat
  <2>3. ToSet(w) = {"main"} \cup ToSet(x)
    BY <1>8 DEF w
  <2>. QED
    BY <1>3, <2>2, <2>3
<1>12. w \o y # <<>>
  <2>1. Len(x) \in Nat /\ Len(y) \in Nat
    BY <1>5, LenProperties
  <2>2. Len(w \o y) # 0
    BY <1>9, <1>10, <2>1
  <2>. QED
    BY <2>2
<1>. QED
  BY <1>3, <1>10, <1>11, <1>12 DEF S, w, one, x, y

LEMMA FileOfTyped ==
  ASSUME NEW d, IsDialog(d), NEW n \in Saves(d)
  PROVE  /\ n = "main" => FileOf(d, n) \in Seq(MainElements)
         /\ n \in DOMAIN Builders => FileOf(d, n) \in Seq(Events)
<1>1. CASE n = "main"
  BY <1>1, Names, MainFileAt DEF FileOf
<1>2. CASE n # "main"
  <2>1. n \in ToSet(d.models \o d.recorders) /\ FileOf(d, n) = BuilderFile(d, n)
    BY <1>2 DEF Saves, FileOf
  <2>. QED
    BY <1>2, <2>1, BuilderFileAt
<1>. QED
  BY <1>1, <1>2

LEMMA DialogsAre == \A d \in Dialogs : IsDialog(d)
BY ConfigurationAssumption

LEMMA UntouchedIs ==
  /\ Untouched.actTag = NoTag /\ DOMAIN Untouched.values = {}
  /\ \A b \in DOMAIN Builders : ParserTyped(b, Untouched)
<1>1. Untouched.actTag = NoTag /\ DOMAIN Untouched.values = {}
  BY DEF Untouched
<1>. QED
  BY <1>1 DEF ParserTyped

LEMMA UpdatedIs ==
  ASSUME NEW f, NEW x, NEW v
  PROVE  /\ DOMAIN Updated(f, x, v) = DOMAIN f \cup {x}
         /\ Updated(f, x, v)[x] = v
         /\ \A y \in DOMAIN f : y # x => Updated(f, x, v)[y] = f[y]
BY DEF Updated

LEMMA NoConfigIs ==
  /\ NoConfig \in Configs
  /\ NoConfig.mods = <<>> /\ NoConfig.recs = <<>>
<1>1. FALSE \in BOOLEAN /\ NoTime \in {NoTime} \cup (Int \X Int \X Int) /\ <<>> \in Seq(Strings)
  OBVIOUS
<1>. QED
  BY <1>1, Zenon DEF NoConfig, Configs

LEMMA NothingCreated == AllRight(<<>>)
<1>1. Len(<<>>) = 0 /\ <<>> = [k \in 1 .. 0 |-> <<>>[k]] /\ 1 .. 0 = {}
  OBVIOUS
<1>. QED
  BY <1>1 DEF AllRight

-----------------------------------------------------------------------------
(* The initial states                                                      *)

LEMMA Initial == Init => ConfigurationInv
<1>. SUFFICES ASSUME Init PROVE ConfigurationInv
  OBVIOUS
<1>1. Typed
  <2>1. FilesTyped(disk)
    BY ConfigurationAssumption DEF Init, FilesTyped
  <2>2. todo \in Seq(Saves(dialog)) /\ queue \in Seq(DOMAIN Builders)
    BY DEF Init
  <2>3. \A b \in DOMAIN Builders : ParserTyped(b, parsers[b])
    BY UntouchedIs DEF Init
  <2>5. /\ pos \in Nat /\ config \in Configs /\ reading \in {Nobody} \cup DOMAIN Builders
        /\ DOMAIN parsers = DOMAIN Builders
        /\ phase \in {"off", "main", "models", "recorders", "ready", "aborted"}
    BY NoConfigIs DEF Init
  <2>6. dialog \in Dialogs
    BY DEF Init
  <2>. QED
    BY <2>1, <2>2, <2>3, <2>5, <2>6 DEF Typed
<1>2. AtRest
  BY DEF Init, AtRest
<1>3. SavedSoFar
  BY DEF Init, SavedSoFar
<1>4. MainSoFar
  BY DEF Init, MainSoFar
<1>5. OnlyWritten
  BY UntouchedIs, FieldNames DEF Init, OnlyWritten
<1>6. ReadSoFar /\ AllRead
  BY DEF Init, ReadSoFar, AllRead
<1>7. CreatedRight
  BY NothingCreated DEF Init, CreatedRight
<1>. QED
  BY <1>1, <1>2, <1>3, <1>4, <1>5, <1>6, <1>7 DEF ConfigurationInv

-----------------------------------------------------------------------------
(* What the steps leave as it was                                          *)

\* Before loading starts there is nothing to say of what is loaded.
LEMMA RestingKept ==
  ASSUME ConfigurationInv, phase = "off",
         UNCHANGED <<phase, pos, config, queue, reading, parsers, resultVars>>
  PROVE  AtRest' /\ MainSoFar' /\ OnlyWritten' /\ ReadSoFar' /\ AllRead' /\ CreatedRight'
<1>1. AtRest
  BY DEF ConfigurationInv
<1>2. /\ phase' = "off" /\ reading' = Nobody /\ models' = <<>> /\ recorders' = <<>>
      /\ \A b \in DOMAIN Builders : parsers'[b] = Untouched
  BY <1>1 DEF AtRest, resultVars
<1>3. AtRest'
  BY <1>1 DEF AtRest, resultVars
<1>4. MainSoFar' /\ AllRead'
  BY <1>2 DEF MainSoFar, AllRead
<1>5. OnlyWritten'
  BY <1>2, UntouchedIs, FieldNames DEF OnlyWritten
<1>6. ReadSoFar'
  BY <1>2 DEF ReadSoFar
<1>7. CreatedRight'
  <2>1. AllRight(<<>>)'
    BY NothingCreated, Len(<<>>) = 0 DEF AllRight
  <2>2. AllRight(models)' /\ AllRight(recorders)'
    BY <1>2, <2>1
  <2>. QED
    BY <1>2, <2>2 DEF CreatedRight
<1>. QED
  BY <1>3, <1>4, <1>5, <1>6, <1>7

LEMMA SavedKept ==
  ASSUME SavedSoFar, todo = <<>>, UNCHANGED saverVars
  PROVE  SavedSoFar'
BY DEF SavedSoFar, saverVars

LEMMA CreatedKept ==
  ASSUME CreatedRight, UNCHANGED <<disk, models, recorders>>,
         phase' \in {"recorders", "ready"} => phase' = phase
  PROVE  CreatedRight'
<1>1. AllRight(models)' /\ AllRight(recorders)'
  BY DEF CreatedRight, AllRight, Right
<1>2. BuilderNames("ModBuilder")' = BuilderNames("ModBuilder")
      /\ BuilderNames("RecBuilder")' = BuilderNames("RecBuilder")
  BY DEF BuilderNames
<1>. QED
  BY <1>1, <1>2 DEF CreatedRight

LEMMA FileTyped ==
  ASSUME Typed, NEW n \in DOMAIN disk
  PROVE  /\ n = "main" => disk["main"] \in Seq(MainElements)
         /\ n \in DOMAIN Builders => disk[n] \in Seq(Events)
<1>1. FilesTyped(disk)
  BY DEF Typed
<1>2. /\ n = "main" => disk[n] \in Seq(MainElements)
      /\ n \in DOMAIN Builders => disk[n] \in Seq(Events)
  BY <1>1, Zenon DEF FilesTyped
<1>. QED
  BY <1>2, Zenon

LEMMA WrittenKept ==
  ASSUME OnlyWritten, UNCHANGED <<disk, parsers>>
  PROVE  OnlyWritten'
BY DEF OnlyWritten

\* Loading is given up.
LEMMA ExitKept ==
  ASSUME ConfigurationInv, Exit, todo = <<>>, reading = Nobody, UNCHANGED saverVars
  PROVE  ConfigurationInv'
<1>. USE DEF ConfigurationInv, Exit, saverVars, resultVars
<1>1. Typed'
  BY DEF Typed
<1>2. AtRest' /\ MainSoFar' /\ AllRead'
  BY DEF AtRest, MainSoFar, AllRead
<1>3. SavedSoFar'
  BY SavedKept
<1>4. OnlyWritten'
  BY WrittenKept
<1>5. ReadSoFar'
  BY DEF ReadSoFar
<1>6. CreatedRight'
  BY CreatedKept
<1>. QED
  BY <1>1, <1>2, <1>3, <1>4, <1>5, <1>6

-----------------------------------------------------------------------------
(* Saving                                                                  *)

LEMMA SaveCnfFileKept ==
  ASSUME ConfigurationInv, SaveCnfFile
  PROVE  ConfigurationInv'
<1>1. phase = "off" /\ UNCHANGED <<phase, pos, config, queue, reading, parsers, resultVars>>
  BY DEF SaveCnfFile
<1>2. AtRest' /\ MainSoFar' /\ OnlyWritten' /\ ReadSoFar' /\ AllRead' /\ CreatedRight'
  BY <1>1, RestingKept
<1>3. /\ dialog' \in Dialogs /\ IsDialog(dialog')
      /\ todo' \in Seq(Saves(dialog')) /\ ToSet(todo') = Saves(dialog')
  BY DialogsAre, SavesAre DEF SaveCnfFile
<1>4. Typed'
  <2>1. Typed
    BY DEF ConfigurationInv
  <2>2. UNCHANGED <<disk, phase, pos, config, queue, reading, parsers>>
    BY DEF SaveCnfFile
  <2>3. todo' \in Seq(Saves(dialog)')
    BY <1>3 DEF Saves
  <2>. QED
    BY <1>3, <2>1, <2>2, <2>3 DEF Typed
<1>5. SavedSoFar'
  <2>1. saved' = FALSE /\ phase' = "off"
    BY DEF SaveCnfFile
  <2>2. Saves(dialog)' \ ToSet(todo)' = {}
    BY <1>3 DEF Saves, ToSet
  <2>. QED
    BY <2>1, <2>2 DEF SavedSoFar
<1>. QED
  BY <1>2, <1>4, <1>5 DEF ConfigurationInv

\* What may be left of a file is a file.
LEMMA RemnantsTyped ==
  ASSUME NEW n, NEW file, NEW part \in Remnants(n, file)
  PROVE  /\ n = "main" /\ file \in Seq(MainElements) => part \in Seq(MainElements)
         /\ n # "main" /\ file \in Seq(Events) => part \in Seq(Events)
<1>. DEFINE C == {k \in Cuts : k < Len(file)}
            Torn == {p \in C \X {Data(t) : t \in Scraps} : IsRest(p[2], file[p[1] + 1])}
            Ends == {SubSeq(file, 1, k) : k \in C}
            More == {Append(SubSeq(file, 1, p[1]), p[2]) : p \in Torn}
<1>1. part \in Ends \/ (n # "main" /\ part \in More)
  BY DEF Remnants
<1>2. ASSUME NEW S, file \in Seq(S), NEW k \in C
      PROVE  SubSeq(file, 1, k) \in Seq(S)
  <2>1. k \in Nat /\ Len(file) \in Nat /\ k <= Len(file)
    <3>1. k \in Nat /\ k < Len(file) /\ Len(file) \in Nat
      BY <1>2, ConfigurationAssumption, LenProperties
    <3>. QED
      BY <3>1
  <2>2. \A i \in 1 .. k : file[i] \in S
    <3>1. \A i \in 1 .. k : i \in 1 .. Len(file)
      BY <2>1
    <3>. QED
      BY <1>2, <3>1, ElementOfSeq
  <2>. HIDE DEF C
  <2>. QED
    BY <2>1, <2>2, SubSeqProperties
<1>3. \A t \in Scraps : Data(t) \in Events
  BY ConfigurationAssumption, EventsAre
<1>4. CASE part \in Ends
  <2>1. PICK k \in C : part = SubSeq(file, 1, k)
    BY <1>4
  <2>. HIDE DEF C
  <2>. QED
    BY <1>2, <2>1
<1>5. CASE n # "main" /\ part \in More
  <2>. HIDE DEF C
  <2>1. PICK k \in C, t \in Scraps : part = Append(SubSeq(file, 1, k), Data(t))
    <3>1. PICK p \in Torn : part = Append(SubSeq(file, 1, p[1]), p[2])
      BY <1>5
    <3>2. p[1] \in C /\ \E t \in Scraps : p[2] = Data(t)
      OBVIOUS
    <3>. QED
      BY <3>1, <3>2
  <2>2. ASSUME file \in Seq(Events) PROVE part \in Seq(Events)
    <3>1. SubSeq(file, 1, k) \in Seq(Events) /\ Data(t) \in Events
      BY <1>2, <1>3, <2>2
    <3>. QED
      BY <2>1, <3>1, AppendProperties
  <2>. QED
    BY <1>5, <2>2
<1>. HIDE DEF Ends, More
<1>. QED
  BY <1>1, <1>4, <1>5

LEMMA WrittenIs ==
  ASSUME Typed, todo # <<>>
  PROVE  /\ \A file \in {Whole} \cup Parts : FilesTyped(Written(file))
         /\ DOMAIN Written(Whole) = DOMAIN disk \cup {Head(todo)}
         /\ Written(Whole)[Head(todo)] = FileOf(dialog, Head(todo))
         /\ \A n \in DOMAIN disk : n # Head(todo) => Written(Whole)[n] = disk[n]
         /\ Tail(todo) \in Seq(Saves(dialog))
         /\ ToSet(todo) = {Head(todo)} \cup ToSet(Tail(todo))
<1>1. /\ Head(todo) \in Saves(dialog) /\ Tail(todo) \in Seq(Saves(dialog))
      /\ ToSet(todo) = {Head(todo)} \cup ToSet(Tail(todo))
  <2>1. todo \in Seq(Saves(dialog))
    BY DEF Typed
  <2>. QED
    BY <2>1, ToSetOf
<1>2. ASSUME NEW x
      PROVE  /\ DOMAIN Written(x) = DOMAIN disk \cup {Head(todo)}
             /\ Written(x)[Head(todo)] = x
             /\ \A n \in DOMAIN disk : n # Head(todo) => Written(x)[n] = disk[n]
  <2>. DEFINE h == Head(todo)
  <2>1. Written(x) = Updated(disk, h, x)
    BY DEF Written
  <2>. HIDE DEF h
  <2>2. /\ DOMAIN Written(x) = DOMAIN disk \cup {h} /\ Written(x)[h] = x
        /\ \A n \in DOMAIN disk : n # h => Written(x)[n] = disk[n]
    BY <2>1 DEF Updated
  <2>. QED
    BY <2>2 DEF h
<1>3. IsDialog(dialog)
  BY DialogsAre DEF Typed
<1>4. /\ Head(todo) = "main" => Whole \in Seq(MainElements)
      /\ Head(todo) \in DOMAIN Builders => Whole \in Seq(Events)
  BY <1>1, <1>3, FileOfTyped DEF Whole
<1>5. ASSUME NEW x \in {Whole} \cup Parts
      PROVE  /\ Head(todo) = "main" => x \in Seq(MainElements)
             /\ Head(todo) \in DOMAIN Builders => x \in Seq(Events)
  <2>1. CASE x = Whole
    BY <1>4, <2>1
  <2>2. CASE x \in Parts
    BY <1>4, <2>2, Names, RemnantsTyped DEF Parts
  <2>. QED
    BY <2>1, <2>2
<1>6. ASSUME NEW x \in {Whole} \cup Parts PROVE FilesTyped(Written(x))
  <2>1. FilesTyped(disk)
    BY DEF Typed
  <2>. QED
    BY <1>2, <1>5, <2>1 DEF FilesTyped
<1>. QED
  BY <1>1, <1>2, <1>6 DEF Whole

LEMMA SaveFileKept ==
  ASSUME ConfigurationInv, SaveFile
  PROVE  ConfigurationInv'
<1>0. Typed /\ SavedSoFar
  BY DEF ConfigurationInv
<1>1. /\ todo # <<>> /\ todo' = Tail(todo) /\ saved' = (Tail(todo) = <<>>)
      /\ UNCHANGED <<dialog, phase, pos, config, queue, reading, parsers, resultVars>>
      /\ \/ disk' = Written(Whole) /\ lost' = lost
         \/ lost' = TRUE /\ \E part \in Parts : disk' = Written(part)
  BY DEF SaveFile
<1>2. phase = "off"
  BY <1>0, <1>1 DEF SavedSoFar
<1>3. AtRest' /\ MainSoFar' /\ OnlyWritten' /\ ReadSoFar' /\ AllRead' /\ CreatedRight'
  BY <1>1, <1>2, RestingKept
<1>4. /\ \A file \in {Whole} \cup Parts : FilesTyped(Written(file))
      /\ DOMAIN Written(Whole) = DOMAIN disk \cup {Head(todo)}
      /\ Written(Whole)[Head(todo)] = FileOf(dialog, Head(todo))
      /\ \A n \in DOMAIN disk : n # Head(todo) => Written(Whole)[n] = disk[n]
      /\ Tail(todo) \in Seq(Saves(dialog))
      /\ ToSet(todo) = {Head(todo)} \cup ToSet(Tail(todo))
  BY <1>0, <1>1, WrittenIs
<1>5. Typed'
  <2>1. FilesTyped(disk')
    BY <1>1, <1>4
  <2>. QED
    BY <1>0, <1>1, <1>4, <2>1 DEF Typed
<1>6. SavedSoFar'
  <2>. DEFINE W == Written(Whole)
  <2>1. ASSUME ~lost, NEW n \in Saves(dialog), n \notin ToSet(Tail(todo))
        PROVE  n \in DOMAIN W /\ W[n] = FileOf(dialog, n)
    <3>1. CASE n = Head(todo)
      BY <1>4, <3>1
    <3>2. CASE n # Head(todo)
      <4>1. n \in DOMAIN disk /\ disk[n] = FileOf(dialog, n)
        BY <1>0, <1>1, <1>4, <2>1, <3>2 DEF SavedSoFar
      <4>. HIDE DEF W
      <4>. QED
        BY <1>4, <3>2, <4>1 DEF W
    <3>. QED
      BY <3>1, <3>2
  <2>. HIDE DEF W
  <2>2. ~lost' => ~lost /\ disk' = W
    BY <1>1 DEF W
  <2>3. ASSUME ~lost', NEW n \in Saves(dialog)' \ ToSet(todo)'
        PROVE  n \in DOMAIN disk' /\ disk'[n] = FileOf(dialog, n)'
    <3>1. n \in Saves(dialog) /\ n \notin ToSet(Tail(todo))
      BY <1>1, <2>3 DEF Saves, ToSet
    <3>2. n \in DOMAIN W /\ W[n] = FileOf(dialog, n)
      BY <2>1, <2>2, <2>3, <3>1
    <3>3. FileOf(dialog, n)' = FileOf(dialog, n)
      BY <1>1
    <3>. QED
      BY <2>2, <2>3, <3>2, <3>3
  <2>4. saved' => todo' = <<>>
    BY <1>1
  <2>5. phase' = "off"
    BY <1>1, <1>2
  <2>. QED
    BY <2>3, <2>4, <2>5 DEF SavedSoFar
<1>. QED
  BY <1>3, <1>5, <1>6 DEF ConfigurationInv

LEMMA SaveFailsKept ==
  ASSUME ConfigurationInv, SaveFails
  PROVE  ConfigurationInv'
<1>0. Typed /\ SavedSoFar
  BY DEF ConfigurationInv
<1>1. /\ todo # <<>> /\ todo' = <<>>
      /\ disk' = disk \/ \E file \in {Whole} \cup Parts : disk' = Written(file)
      /\ UNCHANGED <<dialog, saved, lost, phase, pos, config, queue, reading, parsers,
                     resultVars>>
  BY DEF SaveFails
<1>2. phase = "off" /\ ~saved
  BY <1>0, <1>1 DEF SavedSoFar
<1>3. AtRest' /\ MainSoFar' /\ OnlyWritten' /\ ReadSoFar' /\ AllRead' /\ CreatedRight'
  BY <1>1, <1>2, RestingKept
<1>4. FilesTyped(disk')
  BY <1>0, <1>1, WrittenIs DEF Typed
<1>5. Typed'
  BY <1>0, <1>1, <1>4 DEF Typed
<1>6. SavedSoFar'
  BY <1>1, <1>2 DEF SavedSoFar
<1>. QED
  BY <1>3, <1>5, <1>6 DEF ConfigurationInv

-----------------------------------------------------------------------------
(* The main file is read                                                   *)

LEMMA OpenMainKept ==
  ASSUME ConfigurationInv, OpenMain
  PROVE  ConfigurationInv'
<1>1. phase = "off" /\ todo = <<>> /\ UNCHANGED saverVars
  BY DEF OpenMain
<1>2. Typed /\ AtRest /\ SavedSoFar /\ OnlyWritten /\ CreatedRight
  BY DEF ConfigurationInv
<1>3. pos = 0 /\ config = NoConfig /\ reading = Nobody
  BY <1>1, <1>2 DEF AtRest
<1>4. CASE Exit
  BY <1>1, <1>3, <1>4, ExitKept
<1>5. CASE /\ "main" \in DOMAIN disk /\ phase' = "main"
           /\ UNCHANGED <<pos, config, queue, reading, parsers, resultVars>>
  <2>1. UNCHANGED <<disk, dialog, todo, saved, models, recorders>>
    BY <1>1, <1>5 DEF saverVars, resultVars
  <2>2. Typed'
    BY <1>2, <1>5, <2>1 DEF Typed
  <2>3. AtRest' /\ AllRead'
    BY <1>5 DEF AtRest, AllRead
  <2>4. SavedSoFar'
    BY <1>1, <1>2, SavedKept
  <2>5. MainSoFar'
    <3>1. disk["main"] \in Seq(MainElements)
      BY <1>2, <1>5, FileTyped
    <3>2. NamesIn(Firsts(disk["main"], 0), "ModBuilder") = <<>>
          /\ NamesIn(Firsts(disk["main"], 0), "RecBuilder") = <<>>
      BY <3>1, NoNames
    <3>3. 0 \in 0 .. Len(disk["main"])
      BY <3>1, LenProperties
    <3>4. /\ pos' \in 0 .. Len(disk["main"])
          /\ config'.mods = NamesIn(Firsts(disk["main"], pos'), "ModBuilder")
          /\ config'.recs = NamesIn(Firsts(disk["main"], pos'), "RecBuilder")
      BY <1>3, <1>5, <3>2, <3>3, NoConfigIs
    <3>. QED
      BY <1>5, <2>1, <3>4 DEF MainSoFar
  <2>6. OnlyWritten'
    BY <1>2, <1>5, <2>1, WrittenKept
  <2>7. ReadSoFar'
    BY <1>3, <1>5 DEF ReadSoFar
  <2>8. CreatedRight'
    BY <1>2, <1>5, <2>1, CreatedKept
  <2>. QED
    BY <2>2, <2>3, <2>4, <2>5, <2>6, <2>7, <2>8 DEF ConfigurationInv
<1>. QED
  BY <1>4, <1>5 DEF OpenMain

LEMMA ParseMainIs ==
  ASSUME NEW c \in Configs, NEW e \in MainElements
  PROVE  /\ ParseMain(c, e) \in Configs
         /\ ParseMain(c, e).mods = IF e.elem = "ModBuilder" THEN Append(c.mods, e.name)
                                   ELSE c.mods
         /\ ParseMain(c, e).recs = IF e.elem = "RecBuilder" THEN Append(c.recs, e.name)
                                   ELSE c.recs
<1>1. CASE e.elem = "ConfigInfo"
  <2>1. ParseMain(c, e) = [c EXCEPT !.configFile = TRUE]
    BY <1>1 DEF ParseMain
  <2>. QED
    BY <1>1, <2>1 DEF Configs
<1>2. CASE e.elem = "SimTime"
  <2>1. ParseMain(c, e) = [c EXCEPT !.time = e.time]
    BY <1>2 DEF ParseMain
  <2>. QED
    BY <1>2, <2>1, ElementsAre DEF Configs
<1>3. CASE e.elem = "Scenario"
  <2>1. ParseMain(c, e) = [c EXCEPT !.scenario = TRUE]
    BY <1>3 DEF ParseMain
  <2>. QED
    BY <1>3, <2>1 DEF Configs
<1>4. CASE e.elem = "ModBuilder"
  <2>. DEFINE x == Append(c.mods, e.name)
  <2>1. ParseMain(c, e) = [c EXCEPT !.mods = x]
    BY <1>4 DEF ParseMain
  <2>2. x \in Seq(Strings)
    BY <1>4, ElementsAre, AppendProperties DEF Configs
  <2>. HIDE DEF x
  <2>3. [c EXCEPT !.mods = x] \in Configs /\ [c EXCEPT !.mods = x].mods = x
        /\ [c EXCEPT !.mods = x].recs = c.recs
    BY <2>2 DEF Configs
  <2>. QED
    BY <1>4, <2>1, <2>3 DEF x
<1>5. CASE e.elem = "RecBuilder"
  <2>. DEFINE x == Append(c.recs, e.name)
  <2>1. ParseMain(c, e) = [c EXCEPT !.recs = x]
    BY <1>5 DEF ParseMain
  <2>2. x \in Seq(Strings)
    BY <1>5, ElementsAre, AppendProperties DEF Configs
  <2>. HIDE DEF x
  <2>3. [c EXCEPT !.recs = x] \in Configs /\ [c EXCEPT !.recs = x].recs = x
        /\ [c EXCEPT !.recs = x].mods = c.mods
    BY <2>2 DEF Configs
  <2>. QED
    BY <1>5, <2>1, <2>3 DEF x
<1>. QED
  BY <1>1, <1>2, <1>3, <1>4, <1>5, ElementsAre

LEMMA MainElementKept ==
  ASSUME ConfigurationInv, MainElement
  PROVE  ConfigurationInv'
<1>. DEFINE main == disk["main"]
            e == main[pos + 1]
<1>1. /\ phase = "main" /\ pos < Len(main) /\ pos' = pos + 1 /\ config' = ParseMain(config, e)
      /\ UNCHANGED <<saverVars, phase, queue, reading, parsers, resultVars>>
  BY DEF MainElement
<1>2. /\ Typed /\ AtRest /\ SavedSoFar /\ MainSoFar /\ OnlyWritten /\ ReadSoFar /\ AllRead
      /\ CreatedRight
  BY DEF ConfigurationInv
<1>3. UNCHANGED <<disk, dialog, todo, saved, models, recorders>>
  BY <1>1 DEF saverVars, resultVars
<1>4. /\ "main" \in DOMAIN disk /\ main \in Seq(MainElements) /\ Len(main) \in Nat
      /\ pos \in 0 .. Len(main) - 1 /\ pos + 1 \in 1 .. Len(main) /\ e \in MainElements
  <2>1. "main" \in DOMAIN disk /\ main \in Seq(MainElements)
    <3>1. "main" \in DOMAIN disk
      BY <1>1, <1>2 DEF MainSoFar
    <3>. QED
      BY <1>2, <3>1, FileTyped
  <2>2. Len(main) \in Nat
    BY <2>1, LenProperties
  <2>3. pos \in Nat
    BY <1>2 DEF Typed
  <2>4. pos \in 0 .. Len(main) - 1 /\ pos + 1 \in 1 .. Len(main)
    BY <1>1, <2>2, <2>3
  <2>5. e \in MainElements
    BY <2>1, <2>4, ElementOfSeq
  <2>. QED
    BY <2>1, <2>2, <2>4, <2>5
<1>. HIDE DEF main, e
<1>5. /\ config' \in Configs
      /\ config'.mods = IF e.elem = "ModBuilder" THEN Append(config.mods, e.name) ELSE config.mods
      /\ config'.recs = IF e.elem = "RecBuilder" THEN Append(config.recs, e.name) ELSE config.recs
  <2>1. config \in Configs
    BY <1>2 DEF Typed
  <2>. QED
    BY <1>1, <1>4, <2>1, ParseMainIs
<1>6. Typed'
  <2>1. pos' \in Nat
    BY <1>1, <1>4
  <2>. QED
    BY <1>1, <1>2, <1>3, <1>5, <2>1 DEF Typed
<1>7. AtRest' /\ AllRead'
  BY <1>1 DEF AtRest, AllRead
<1>8. SavedSoFar'
  BY <1>1, <1>2, SavedKept DEF SavedSoFar
<1>9. MainSoFar'
  <2>1. /\ config.mods = NamesIn(Firsts(main, pos), "ModBuilder")
        /\ config.recs = NamesIn(Firsts(main, pos), "RecBuilder")
    BY <1>1, <1>2 DEF MainSoFar, main
  <2>2. config'.mods = NamesIn(Firsts(main, pos + 1), "ModBuilder")
    BY <1>4, <1>5, <2>1, NamesStep DEF e
  <2>3. config'.recs = NamesIn(Firsts(main, pos + 1), "RecBuilder")
    BY <1>4, <1>5, <2>1, NamesStep DEF e
  <2>4. pos + 1 \in 0 .. Len(main)
    BY <1>4
  <2>5. /\ "main" \in DOMAIN disk' /\ pos' \in 0 .. Len(disk'["main"])
        /\ config'.mods = NamesIn(Firsts(disk'["main"], pos'), "ModBuilder")
        /\ config'.recs = NamesIn(Firsts(disk'["main"], pos'), "RecBuilder")
    BY <1>1, <1>3, <1>4, <2>2, <2>3, <2>4 DEF main
  <2>. QED
    BY <1>1, <2>5 DEF MainSoFar
<1>10. OnlyWritten'
  BY <1>1, <1>2, <1>3, WrittenKept
<1>11. ReadSoFar'
  BY <1>1, <1>2 DEF ReadSoFar
<1>12. CreatedRight'
  BY <1>1, <1>2, <1>3, CreatedKept
<1>. QED
  BY <1>6, <1>7, <1>8, <1>9, <1>10, <1>11, <1>12 DEF ConfigurationInv

LEMMA SeqSubset ==
  ASSUME NEW S, NEW T, S \subseteq T, NEW s \in Seq(S)
  PROVE  s \in Seq(T)
<1>1. Len(s) \in Nat /\ s \in [1 .. Len(s) -> S]
  BY LenProperties
<1>2. s \in [1 .. Len(s) -> T] /\ Len(s) \in Int
  BY <1>1
<1>. QED
  BY <1>2, FunctionIsSeq

\* Known names are builders.
LEMMA KnownBuilders ==
  ASSUME NEW names \in Seq(Strings), NEW builders, DOMAIN builders \subseteq DOMAIN Builders
  PROVE  /\ Known(names, builders) \in Seq(DOMAIN Builders)
         /\ ToSet(Known(names, builders)) \subseteq DOMAIN builders
         /\ ToSet(Known(names, builders)) \subseteq DOMAIN Builders
         /\ Nobody \notin ToSet(Known(names, builders))
<1>. DEFINE x == Known(names, builders)
            S == Strings \cap DOMAIN builders
<1>1. x \in Seq(S)
  BY KnownTyped
<1>. HIDE DEF x
<1>2. x \in Seq(DOMAIN Builders)
  BY <1>1, SeqSubset
<1>3. ToSet(x) \subseteq S
  BY <1>1, ToSetOf
<1>. QED
  BY <1>2, <1>3, Names DEF x

LEMMA MainParsedKept ==
  ASSUME ConfigurationInv, MainParsed
  PROVE  ConfigurationInv'
<1>1. phase = "main" /\ pos = Len(disk["main"]) /\ UNCHANGED saverVars
  BY DEF MainParsed
<1>2. /\ Typed /\ AtRest /\ SavedSoFar /\ MainSoFar /\ OnlyWritten /\ ReadSoFar /\ AllRead
      /\ CreatedRight
  BY DEF ConfigurationInv
<1>3. todo = <<>> /\ reading = Nobody
  BY <1>1, <1>2 DEF SavedSoFar, ReadSoFar
<1>4. CASE Exit
  BY <1>1, <1>3, <1>4, ExitKept
<1>5. CASE /\ phase' = "models" /\ queue' = Known(config.mods, ModelBuilders)
           /\ UNCHANGED <<pos, config, reading, parsers, resultVars>>
  <2>1. UNCHANGED <<disk, dialog, todo, saved, models, recorders>>
    BY <1>1, <1>5 DEF saverVars, resultVars
  <2>2. config.mods \in Seq(Strings)
    BY <1>2 DEF Typed, Configs
  <2>3. queue' \in Seq(DOMAIN Builders)
    BY <1>5, <2>2, KnownBuilders, Names
  <2>4. Typed'
    BY <1>2, <1>5, <2>1, <2>3 DEF Typed
  <2>5. AtRest'
    BY <1>5 DEF AtRest
  <2>6. AllRead'
    <3>1. \A b \in ToSet(Known(config'.mods, ModelBuilders)) : b \in ToSet(queue')
      BY <1>5
    <3>2. Underway(Known(config.mods, ModelBuilders))'
      BY <3>1 DEF Underway, ToSet
    <3>. QED
      BY <1>5, <3>2 DEF AllRead
  <2>7. SavedSoFar'
    BY <1>1, <1>2, <1>3, SavedKept
  <2>8. MainSoFar'
    <3>1. "main" \in DOMAIN disk
      BY <1>1, <1>2 DEF MainSoFar
    <3>2. disk["main"] \in Seq(MainElements)
      BY <1>2, <3>1, FileTyped
    <3>3. Firsts(disk["main"], pos) = disk["main"]
      <4>1. Len(disk["main"]) \in 0 .. Len(disk["main"])
        BY <3>2, LenProperties
      <4>. QED
        BY <1>1, <3>2, <4>1, FirstsAre
    <3>4. config.mods = NamesIn(disk["main"], "ModBuilder")
          /\ config.recs = NamesIn(disk["main"], "RecBuilder")
      BY <1>1, <1>2, <3>3 DEF MainSoFar
    <3>5. config'.mods = BuilderNames("ModBuilder")' /\ config'.recs = BuilderNames("RecBuilder")'
      BY <1>5, <2>1, <3>4 DEF BuilderNames
    <3>. QED
      BY <1>5, <2>1, <3>1, <3>5 DEF MainSoFar
  <2>9. OnlyWritten'
    BY <1>2, <1>5, <2>1, WrittenKept
  <2>10. ReadSoFar'
    BY <1>3, <1>5 DEF ReadSoFar
  <2>11. CreatedRight'
    BY <1>2, <1>5, <2>1, CreatedKept
  <2>. QED
    BY <2>4, <2>5, <2>6, <2>7, <2>8, <2>9, <2>10, <2>11 DEF ConfigurationInv
<1>. QED
  BY <1>4, <1>5 DEF MainParsed

-----------------------------------------------------------------------------
(* The builders' files are read                                            *)

\* The names whose files are read in a phase are builders'.
LEMMA UnderwayNames ==
  ASSUME Typed
  PROVE  /\ config.mods \in Seq(Strings) /\ config.recs \in Seq(Strings)
         /\ ToSet(Known(config.mods, ModelBuilders)) \subseteq DOMAIN Builders
         /\ ToSet(Known(config.recs, RecorderBuilders)) \subseteq DOMAIN Builders
         /\ Known(config.mods, ModelBuilders) \in Seq(DOMAIN Builders)
         /\ Known(config.recs, RecorderBuilders) \in Seq(DOMAIN Builders)
<1>1. config.mods \in Seq(Strings) /\ config.recs \in Seq(Strings)
  BY DEF Typed, Configs
<1>2. DOMAIN ModelBuilders \subseteq DOMAIN Builders
      /\ DOMAIN RecorderBuilders \subseteq DOMAIN Builders
  BY Names
<1>. QED
  BY <1>1, <1>2, KnownBuilders

\* What is still true of the names underway when the builders of the queue go on.
LEMMA UnderwayKept ==
  ASSUME UNCHANGED <<phase, config>>, AllRead, Typed,
         \A b \in DOMAIN Builders :
           b \in ToSet(queue) \cup {reading} \/ Finished(b) =>
             b \in ToSet(queue') \cup {reading'} \/ Finished(b)'
  PROVE  AllRead'
<1>1. ASSUME NEW names, ToSet(names) \subseteq DOMAIN Builders, Underway(names)
      PROVE  \A b \in ToSet(names) : b \in ToSet(queue') \cup {reading'} \/ Finished(b)'
  BY <1>1 DEF Underway
<1>2. phase' = "models" => Underway(Known(config.mods, ModelBuilders))'
  <2>. DEFINE names == Known(config.mods, ModelBuilders)
  <2>1. ASSUME phase' = "models"
        PROVE  \A b \in ToSet(names) : b \in ToSet(queue') \cup {reading'} \/ Finished(b)'
    BY <1>1, <2>1, UnderwayNames DEF AllRead
  <2>2. Known(config'.mods, ModelBuilders) = names
    OBVIOUS
  <2>. HIDE DEF names
  <2>. QED
    BY <2>1, <2>2 DEF Underway, ToSet
<1>3. phase' = "recorders" => Underway(Known(config.recs, RecorderBuilders))'
  <2>. DEFINE names == Known(config.recs, RecorderBuilders)
  <2>1. ASSUME phase' = "recorders"
        PROVE  \A b \in ToSet(names) : b \in ToSet(queue') \cup {reading'} \/ Finished(b)'
    BY <1>1, <2>1, UnderwayNames DEF AllRead
  <2>2. Known(config'.recs, RecorderBuilders) = names
    OBVIOUS
  <2>. HIDE DEF names
  <2>. QED
    BY <2>1, <2>2 DEF Underway, ToSet
<1>. QED
  BY <1>2, <1>3 DEF AllRead

LEMMA FinishedKept ==
  ASSUME NEW b, Finished(b), disk' = disk, parsers'[b] = parsers[b]
  PROVE  Finished(b)'
BY DEF Finished

LEMMA MainKept ==
  ASSUME MainSoFar, UNCHANGED <<disk, config>>, phase # "main", phase' # "main",
         phase' \in {"models", "recorders", "ready"} => phase \in {"models", "recorders", "ready"}
  PROVE  MainSoFar'
BY DEF MainSoFar, BuilderNames

LEMMA OpenBuilderKept ==
  ASSUME ConfigurationInv, OpenBuilder
  PROVE  ConfigurationInv'
<1>1. /\ phase \in {"models", "recorders"} /\ reading = Nobody /\ queue # <<>>
      /\ UNCHANGED saverVars
  BY DEF OpenBuilder
<1>2. /\ Typed /\ AtRest /\ SavedSoFar /\ MainSoFar /\ OnlyWritten /\ ReadSoFar /\ AllRead
      /\ CreatedRight
  BY DEF ConfigurationInv
<1>3. todo = <<>>
  BY <1>1, <1>2 DEF SavedSoFar
<1>4. CASE Exit
  BY <1>1, <1>3, <1>4, ExitKept
<1>5. CASE /\ Head(queue) \in DOMAIN disk
           /\ reading' = Head(queue) /\ queue' = Tail(queue) /\ pos' = 0
           /\ UNCHANGED <<phase, config, parsers, resultVars>>
  <2>1. UNCHANGED <<disk, dialog, todo, saved, models, recorders>>
    BY <1>1, <1>5 DEF saverVars, resultVars
  <2>2. /\ Head(queue) \in DOMAIN Builders /\ Tail(queue) \in Seq(DOMAIN Builders)
        /\ ToSet(queue) = {Head(queue)} \cup ToSet(Tail(queue))
    <3>1. queue \in Seq(DOMAIN Builders)
      BY <1>2 DEF Typed
    <3>. QED
      BY <1>1, <3>1, ToSetOf
  <2>3. Typed'
    <3>1. pos' \in Nat
      BY <1>5
    <3>. QED
      BY <1>2, <1>5, <2>1, <2>2, <3>1 DEF Typed
  <2>4. AtRest'
    BY <1>1, <1>5 DEF AtRest
  <2>5. SavedSoFar'
    BY <1>1, <1>2, <1>3, SavedKept
  <2>6. MainSoFar'
    BY <1>1, <1>2, <1>5, <2>1, MainKept
  <2>7. OnlyWritten'
    BY <1>2, <1>5, <2>1, WrittenKept
  <2>8. ReadSoFar'
    <3>. DEFINE b == Head(queue)
    <3>1. b \in DOMAIN disk /\ disk[b] \in Seq(Events)
      BY <1>2, <1>5, <2>2, FileTyped
    <3>2. DOMAIN disk[b] = 1 .. Len(disk[b]) /\ Len(disk[b]) \in Nat
      BY <3>1, LenProperties
    <3>. HIDE DEF b
    <3>3. \A k \in DOMAIN disk[b] : ~(0 = k) /\ ~(0 > k)
      BY <3>2
    <3>4. 0 \in 0 .. Len(disk[b])
      BY <3>2
    <3>5. reading' = b /\ pos' = 0 /\ disk' = disk /\ phase' \in {"models", "recorders"}
      BY <1>1, <1>5, <2>1 DEF b
    <3>. QED
      BY <3>1, <3>3, <3>4, <3>5 DEF ReadSoFar
  <2>9. AllRead'
    <3>1. ASSUME NEW c \in DOMAIN Builders, c \in ToSet(queue) \cup {reading} \/ Finished(c)
          PROVE  c \in ToSet(queue') \cup {reading'} \/ Finished(c)'
      <4>1. c # reading
        BY <1>1, Names
      <4>2. CASE c \in ToSet(queue)
        <5>1. c = Head(queue) \/ c \in ToSet(Tail(queue))
          BY <2>2, <4>2
        <5>2. ToSet(queue') = ToSet(Tail(queue))
          BY <1>5
        <5>. QED
          BY <1>5, <5>1, <5>2
      <4>3. CASE Finished(c)
        BY <1>5, <2>1, <4>3, FinishedKept
      <4>. QED
        BY <3>1, <4>1, <4>2, <4>3
    <3>. QED
      BY <1>2, <1>5, <3>1, UnderwayKept
  <2>10. CreatedRight'
    BY <1>2, <1>5, <2>1, CreatedKept
  <2>. QED
    BY <2>3, <2>4, <2>5, <2>6, <2>7, <2>8, <2>9, <2>10 DEF ConfigurationInv
<1>. QED
  BY <1>4, <1>5 DEF OpenBuilder

LEMMA BuilderParsedKept ==
  ASSUME ConfigurationInv, BuilderParsed
  PROVE  ConfigurationInv'
<1>1. /\ reading # Nobody /\ pos = Len(disk[reading]) /\ reading' = Nobody
      /\ UNCHANGED <<saverVars, phase, pos, config, queue, parsers, resultVars>>
  BY DEF BuilderParsed
<1>2. /\ Typed /\ AtRest /\ SavedSoFar /\ MainSoFar /\ OnlyWritten /\ ReadSoFar /\ AllRead
      /\ CreatedRight
  BY DEF ConfigurationInv
<1>3. UNCHANGED <<disk, dialog, todo, saved, models, recorders>>
  BY <1>1 DEF saverVars, resultVars
<1>4. phase \in {"models", "recorders"} /\ reading \in DOMAIN disk
  BY <1>1, <1>2 DEF ReadSoFar
<1>5. todo = <<>>
  BY <1>2, <1>4 DEF SavedSoFar
<1>6. Typed'
  BY <1>1, <1>2, <1>3 DEF Typed
<1>7. AtRest'
  BY <1>1, <1>4 DEF AtRest
<1>8. SavedSoFar'
  BY <1>1, <1>2, <1>5, SavedKept
<1>9. MainSoFar'
  BY <1>1, <1>2, <1>3, <1>4, MainKept
<1>10. OnlyWritten'
  BY <1>1, <1>2, <1>3, WrittenKept
<1>11. ReadSoFar'
  BY <1>1 DEF ReadSoFar
<1>12. Finished(reading)
  <2>1. reading \in DOMAIN Builders
    BY <1>1, <1>2 DEF Typed
  <2>2. disk[reading] \in Seq(Events)
    BY <1>2, <1>4, <2>1, FileTyped
  <2>3. Len(disk[reading]) \in Nat /\ DOMAIN disk[reading] = 1 .. Len(disk[reading])
    BY <2>2, LenProperties
  <2>4. ASSUME NEW f \in Fields(Builders[reading]), NEW k \in DOMAIN disk[reading],
               LastAt(disk[reading], f, k)
        PROVE  HasRead(parsers[reading], disk[reading], f, k)
    <3>1. k + 1 \in DOMAIN disk[reading]
      BY <2>4 DEF LastAt
    <3>2. pos > k
      BY <1>1, <2>3, <3>1
    <3>. QED
      BY <1>1, <1>2, <2>4, <3>2 DEF ReadSoFar
  <2>. QED
    BY <1>4, <2>4 DEF Finished
<1>13. AllRead'
  <2>1. ASSUME NEW c \in DOMAIN Builders, c \in ToSet(queue) \cup {reading} \/ Finished(c)
        PROVE  c \in ToSet(queue') \cup {reading'} \/ Finished(c)'
    <3>1. CASE c \in ToSet(queue)
      <4>1. ToSet(queue') = ToSet(queue)
        BY <1>1
      <4>. QED
        BY <3>1, <4>1
    <3>2. CASE c = reading \/ Finished(c)
      <4>1. Finished(c)
        BY <1>12, <3>2
      <4>2. Finished(c)'
        BY <1>1, <1>3, <4>1, FinishedKept
      <4>. QED
        BY <4>2
    <3>. QED
      BY <2>1, <3>1, <3>2
  <2>. QED
    BY <1>1, <1>2, <2>1, UnderwayKept
<1>14. CreatedRight'
  BY <1>1, <1>2, <1>3, CreatedKept
<1>. QED
  BY <1>6, <1>7, <1>8, <1>9, <1>10, <1>11, <1>13, <1>14 DEF ConfigurationInv

\* The parser p of builder b after the element e.
Heard(b, p, e) ==
  IF IsData(e) THEN OnCharacterData(p, e.text) ELSE OnStartElement(b, p, e.tag)

LEMMA HeardIs ==
  ASSUME NEW b \in DOMAIN Builders, NEW p, ParserTyped(b, p), NEW e \in Events
  PROVE  /\ ParserTyped(b, Heard(b, p, e))
         /\ e.tag \in Fields(Builders[b]) =>
              Heard(b, p, e).actTag = e.tag /\ Heard(b, p, e).values = p.values
         /\ e.tag \notin Fields(Builders[b]) /\ ~IsData(e) => Heard(b, p, e) = p
         /\ IsData(e) /\ p.actTag = NoTag => Heard(b, p, e) = p
         /\ IsData(e) /\ p.actTag # NoTag =>
              /\ Heard(b, p, e).actTag = NoTag
              /\ DOMAIN Heard(b, p, e).values = DOMAIN p.values \cup {p.actTag}
              /\ Heard(b, p, e).values[p.actTag] = Convert(p.actTag, e.text)
              /\ \A f \in DOMAIN p.values : f # p.actTag => Heard(b, p, e).values[f] = p.values[f]
<1>. DEFINE h == Heard(b, p, e)
            F == Fields(Builders[b])
<1>1. e.text \in Texts
  BY DEF Events
<1>2. NoTag \notin F
  BY FieldNames
<1>3. CASE IsData(e)
  <2>1. e.tag \notin F
    BY <1>2, <1>3 DEF IsData
  <2>2. h = OnCharacterData(p, e.text)
    BY <1>3 DEF Heard
  <2>3. CASE p.actTag = NoTag
    <3>1. h = p
      BY <2>2, <2>3 DEF OnCharacterData
    <3>. HIDE DEF h, F
    <3>. QED
      BY <1>3, <2>1, <2>3, <3>1 DEF h, F
  <2>4. CASE p.actTag # NoTag
    <3>. DEFINE a == p.actTag
                x == Convert(a, e.text)
                w == p.values
                v == Updated(w, a, x)
    <3>1. h = [actTag |-> NoTag, values |-> v]
      BY <2>2, <2>4 DEF OnCharacterData
    <3>2. a \in F
      BY <2>4 DEF ParserTyped
    <3>3. Raw(a, x)
      BY <1>1, ConvertRaw
    <3>. HIDE DEF a, x, h, F, w
    <3>4. /\ DOMAIN v = DOMAIN w \cup {a} /\ v[a] = x
          /\ \A f \in DOMAIN w : f # a => v[f] = w[f]
      BY DEF Updated
    <3>. USE DEF w
    <3>. HIDE DEF v
    <3>5. h.actTag = NoTag /\ h.values = v
      BY <3>1
    <3>6. DOMAIN p.values \subseteq F /\ \A f \in DOMAIN p.values : Raw(f, p.values[f])
      BY DEF ParserTyped, F
    <3>7. \A f \in DOMAIN v : Raw(f, v[f])
      <4>1. ASSUME NEW f \in DOMAIN v PROVE Raw(f, v[f])
        <5>1. CASE f = a
          BY <3>3, <3>4, <5>1
        <5>2. CASE f # a
          <6>1. f \in DOMAIN p.values /\ v[f] = p.values[f]
            BY <3>4, <5>2
          <6>. QED
            BY <3>6, <6>1
        <5>. QED
          BY <5>1, <5>2
      <4>. QED
        BY <4>1
    <3>8. ParserTyped(b, h)
      BY <3>2, <3>4, <3>5, <3>6, <3>7 DEF ParserTyped, F
    <3>9. /\ DOMAIN h.values = DOMAIN p.values \cup {a} /\ h.values[a] = x
          /\ \A f \in DOMAIN p.values : f # a => h.values[f] = p.values[f]
      BY <3>4, <3>5
    <3>. QED
      BY <1>3, <2>1, <2>4, <3>5, <3>8, <3>9 DEF h, F, a, x
  <2>. QED
    BY <2>3, <2>4
<1>4. CASE ~IsData(e)
  <2>1. h = OnStartElement(b, p, e.tag)
    BY <1>4 DEF Heard
  <2>2. CASE e.tag \in F
    <3>1. h = [actTag |-> e.tag, values |-> p.values]
      BY <2>1, <2>2 DEF OnStartElement
    <3>. HIDE DEF h, F
    <3>2. h.actTag = e.tag /\ h.values = p.values
      BY <3>1
    <3>3. ParserTyped(b, h)
      BY <2>2, <3>2 DEF ParserTyped, F
    <3>. QED
      BY <1>4, <2>2, <3>2, <3>3 DEF h, F
  <2>3. CASE e.tag \notin F
    <3>1. h = p
      BY <2>1, <2>3 DEF OnStartElement
    <3>. HIDE DEF h, F
    <3>. QED
      BY <1>4, <2>3, <3>1 DEF h, F
  <2>. QED
    BY <2>2, <2>3
<1>. QED
  BY <1>3, <1>4

LEMMA BuilderElementKept ==
  ASSUME ConfigurationInv, BuilderElement
  PROVE  ConfigurationInv'
<1>. DEFINE b == reading
            file == disk[b]
            q == pos + 1
            e == file[q]
            old == parsers[b]
            new == Heard(b, old, e)
            F == Fields(Builders[b])
<1>1. /\ b # Nobody /\ pos < Len(file) /\ pos' = q
      /\ parsers' = [parsers EXCEPT ![b] = new]
      /\ UNCHANGED <<saverVars, phase, config, queue, reading, resultVars>>
  BY DEF BuilderElement, Heard
<1>2. /\ Typed /\ AtRest /\ SavedSoFar /\ MainSoFar /\ OnlyWritten /\ ReadSoFar /\ AllRead
      /\ CreatedRight
  BY DEF ConfigurationInv
<1>3. UNCHANGED <<disk, dialog, todo, saved, models, recorders>>
  BY <1>1 DEF saverVars, resultVars
<1>4. phase \in {"models", "recorders"} /\ b \in DOMAIN disk
  BY <1>1, <1>2 DEF ReadSoFar
<1>5. todo = <<>>
  BY <1>2, <1>4 DEF SavedSoFar
<1>6. b \in DOMAIN Builders
  BY <1>1, <1>2 DEF Typed
<1>7. file \in Seq(Events)
  BY <1>2, <1>4, <1>6, FileTyped
<1>8. /\ Len(file) \in Nat /\ DOMAIN file = 1 .. Len(file) /\ pos \in Nat
      /\ q \in 1 .. Len(file) /\ q = pos + 1 /\ e \in Events
  <2>1. Len(file) \in Nat /\ DOMAIN file = 1 .. Len(file)
    BY <1>7, LenProperties
  <2>2. pos \in Nat
    BY <1>2 DEF Typed
  <2>3. q \in 1 .. Len(file)
    BY <1>1, <2>1, <2>2
  <2>4. e \in Events
    BY <1>7, <2>3, ElementOfSeq
  <2>. QED
    BY <2>1, <2>2, <2>3, <2>4
<1>9. /\ DOMAIN parsers' = DOMAIN Builders /\ parsers'[b] = new
      /\ \A c \in DOMAIN Builders : c # b => parsers'[c] = parsers[c]
  <2>1. DOMAIN parsers = DOMAIN Builders
    BY <1>2 DEF Typed
  <2>. HIDE DEF new, b
  <2>. QED
    BY <1>1, <1>6, <2>1
<1>10. ParserTyped(b, old)
  BY <1>2, <1>6 DEF Typed
<1>. HIDE DEF new, old, e, q, F
<1>11. NoTag \notin F
  BY <1>6, FieldNames DEF F
<1>12. /\ ParserTyped(b, new)
       /\ e.tag \in F => new.actTag = e.tag /\ new.values = old.values
       /\ e.tag \notin F /\ ~IsData(e) => new = old
       /\ IsData(e) /\ old.actTag = NoTag => new = old
  BY <1>6, <1>8, <1>10, HeardIs DEF new, F
<1>13. IsData(e) /\ old.actTag # NoTag =>
         /\ new.actTag = NoTag
         /\ DOMAIN new.values = DOMAIN old.values \cup {old.actTag}
         /\ new.values[old.actTag] = Convert(old.actTag, e.text)
         /\ \A f \in DOMAIN old.values : f # old.actTag => new.values[f] = old.values[f]
  BY <1>6, <1>8, <1>10, HeardIs DEF new
<1>14. Typed'
  <2>1. pos' \in Nat
    BY <1>1, <1>8
  <2>2. \A c \in DOMAIN Builders : ParserTyped(c, parsers'[c])
    BY <1>2, <1>9, <1>12 DEF Typed
  <2>. HIDE DEF b
  <2>. QED
    BY <1>1, <1>2, <1>3, <1>9, <2>1, <2>2 DEF Typed
<1>15. AtRest'
  BY <1>1, <1>4 DEF AtRest
<1>16. SavedSoFar'
  BY <1>1, <1>2, <1>5, SavedKept
<1>17. MainSoFar'
  BY <1>1, <1>2, <1>3, <1>4, MainKept
<1>18. OnlyWritten'
  <2>1. ASSUME NEW c \in DOMAIN Builders, NEW f \in Fields(Builders[c]),
               f \in DOMAIN parsers'[c].values \/ parsers'[c].actTag = f
        PROVE  c \in DOMAIN disk /\ Tags(disk[c], f) # {}
    <3>1. CASE c # b
      BY <1>2, <1>9, <2>1, <3>1 DEF OnlyWritten
    <3>2. CASE c = b
      <4>1. f \in F /\ (f \in DOMAIN new.values \/ new.actTag = f)
        BY <1>9, <2>1, <3>2 DEF F
      <4>2. f \in DOMAIN old.values \/ old.actTag = f \/ e.tag = f
        BY <1>11, <1>12, <1>13, <4>1
      <4>3. CASE f \in DOMAIN old.values \/ old.actTag = f
        BY <1>2, <1>6, <3>2, <4>1, <4>3 DEF OnlyWritten, F, old
      <4>4. CASE e.tag = f
        <5>1. q \in Tags(file, f)
          BY <1>8, <4>4 DEF Tags, e
        <5>. QED
          BY <1>4, <3>2, <5>1
      <4>. QED
        BY <4>2, <4>3, <4>4
    <3>. QED
      BY <3>1, <3>2
  <2>. QED
    BY <1>3, <2>1 DEF OnlyWritten
<1>19. ReadSoFar'
  <2>1. ASSUME NEW f \in F, NEW k \in DOMAIN file, LastAt(file, f, k)
        PROVE  /\ q = k => new.actTag = f
               /\ q > k => HasRead(new, file, f, k)
    <3>1. /\ k \in 1 .. Len(file) /\ file[k].tag = f /\ k + 1 \in DOMAIN file
          /\ IsData(file[k + 1]) /\ \A j \in Tags(file, f) : j <= k
      BY <1>8, <2>1 DEF LastAt, Tags
    <3>2. /\ pos = k => old.actTag = f
          /\ pos > k => HasRead(old, file, f, k)
      BY <1>1, <1>2, <2>1 DEF ReadSoFar, F, old
    <3>3. CASE q = k
      <4>1. e.tag = f
        BY <3>1, <3>3 DEF e
      <4>2. new.actTag = f
        BY <1>12, <4>1
      <4>. QED
        BY <1>8, <3>1, <3>3, <4>2
    <3>4. CASE q = k + 1
      <4>1. pos = k /\ IsData(e) /\ e.text = file[k + 1].text /\ q # k
        BY <1>8, <3>1, <3>4 DEF e
      <4>2. old.actTag = f /\ f # NoTag
        BY <1>11, <3>2, <4>1
      <4>3. HasRead(new, file, f, k)
        BY <1>13, <4>1, <4>2 DEF HasRead
      <4>. QED
        BY <4>1, <4>3
    <3>5. CASE q > k + 1
      <4>1. pos > k /\ q > k /\ q # k
        BY <1>8, <3>1, <3>5
      <4>2. HasRead(old, file, f, k)
        BY <3>2, <4>1
      <4>3. e.tag # f
        <5>1. q \notin Tags(file, f)
          BY <1>8, <3>1, <4>1
        <5>. QED
          BY <1>8, <5>1 DEF Tags, e
      <4>4. HasRead(new, file, f, k)
        <5>1. CASE new = old
          BY <4>2, <5>1
        <5>2. CASE e.tag \in F
          BY <1>12, <4>2, <4>3, <5>2 DEF HasRead
        <5>3. CASE IsData(e) /\ old.actTag # NoTag
          <6>1. old.actTag # f /\ f \in DOMAIN old.values
                /\ old.values[f] = Convert(f, file[k + 1].text)
            BY <4>2 DEF HasRead
          <6>2. new.actTag # f /\ f \in DOMAIN new.values /\ new.values[f] = old.values[f]
            BY <1>11, <1>13, <5>3, <6>1
          <6>. QED
            BY <6>1, <6>2 DEF HasRead
        <5>. QED
          BY <1>12, <5>1, <5>2, <5>3
      <4>. QED
        BY <4>1, <4>4
    <3>6. CASE q < k
      BY <1>8, <3>1, <3>6
    <3>. QED
      BY <1>8, <3>1, <3>3, <3>4, <3>5, <3>6
  <2>2. q \in 0 .. Len(file)
    BY <1>8
  <2>. QED
    BY <1>1, <1>3, <1>4, <1>9, <2>1, <2>2 DEF ReadSoFar, F
<1>20. AllRead'
  <2>1. ASSUME NEW c \in DOMAIN Builders, c \in ToSet(queue) \cup {reading} \/ Finished(c)
        PROVE  c \in ToSet(queue') \cup {reading'} \/ Finished(c)'
    <3>1. ToSet(queue') = ToSet(queue) /\ reading' = reading
      BY <1>1
    <3>2. CASE c # reading /\ Finished(c)
      BY <1>3, <1>9, <3>2, FinishedKept
    <3>. QED
      BY <2>1, <3>1, <3>2
  <2>. QED
    BY <1>1, <1>2, <2>1, UnderwayKept
<1>21. CreatedRight'
  BY <1>1, <1>2, <1>3, CreatedKept
<1>. QED
  BY <1>14, <1>15, <1>16, <1>17, <1>18, <1>19, <1>20, <1>21 DEF ConfigurationInv

-----------------------------------------------------------------------------
(* Creating models and recorders                                           *)

LEMMA UnsetIs ==
  ASSUME NEW b \in DOMAIN Builders, NEW values, NEW f \in Unset(b, values)
  PROVE  /\ f \in Uninitialised /\ f \notin Bools \cup {"filePath"}
         /\ Builders[b] = "message" /\ b \notin DOMAIN RecorderBuilders
<1>1. f \in Fields(Builders[b]) /\ f \notin DOMAIN Defaults[Builders[b]]
  BY DEF Unset
<1>2. Builders[b] = "message" /\ f \in Uninitialised
  BY <1>1 DEF Fields
<1>3. f \notin Bools \cup {"filePath"}
  BY <1>2 DEF Uninitialised, Bools
<1>4. b \notin DOMAIN RecorderBuilders
  <2>1. "message" # "recorder"
    OBVIOUS
  <2>. QED
    BY <1>2, <2>1, Names
<1>. QED
  BY <1>2, <1>3, <1>4

\* What an uninitialised field may hold.
MayHold(f, v) == v \in Int \/ (v = NaN /\ f \in Floats)

\* What is created of a builder whose file has been read.
LEMMA ParametersRight ==
  ASSUME Typed, OnlyWritten, NEW b \in DOMAIN Builders, Finished(b), NEW garbage,
         \A f \in Unset(b, parsers[b].values) : MayHold(f, garbage[b, f]),
         NEW m, m.builder = b, m.fields = Parameters(b, parsers[b].values, garbage)
  PROVE  Right(m)
<1>. DEFINE F == Fields(Builders[b])
            D == Defaults[Builders[b]]
            v == parsers[b].values
            U == Unset(b, v)
            Field(f) == CASE f \in DOMAIN v -> v[f]
                          [] f \in U -> IF f = "use_f" THEN garbage[b, f] # 0 ELSE garbage[b, f]
                          [] OTHER -> D[f]
<1>1. m.fields = [f \in F |-> Get(f, Field(f))]
  BY DEF Parameters
<1>2. DOMAIN v \subseteq F /\ \A f \in DOMAIN v : Raw(f, v[f])
  BY DEF Typed, ParserTyped
<1>3. U = F \ (DOMAIN v \cup DOMAIN D)
  BY DEF Unset
<1>4. \A f \in DOMAIN v : Field(f) = v[f]
  BY <1>3
<1>5. \A f \in U : Field(f) = IF f = "use_f" THEN garbage[b, f] # 0 ELSE garbage[b, f]
  BY <1>3
<1>6. \A f \in F \ DOMAIN v : f \in DOMAIN D => Field(f) = D[f]
  BY <1>3
<1>7. ASSUME NEW f \in F
      PROVE  \/ Raw(f, Field(f))
             \/ Field(f) = NaN /\ Builders[b] = "message" /\ f \in Floats
  <2>1. CASE f \in DOMAIN v
    BY <1>2, <1>4, <2>1
  <2>2. CASE f \in U
    <3>. DEFINE g == garbage[b, f]
    <3>1. MayHold(f, g)
      BY <2>2
    <3>2. f \notin Bools \cup {"filePath"} /\ Builders[b] = "message"
      BY <2>2, UnsetIs
    <3>3. Field(f) = IF f = "use_f" THEN g # 0 ELSE g
      BY <1>5, <2>2
    <3>. HIDE DEF g, Field, U
    <3>4. CASE f = "use_f"
      <4>1. Field(f) = (g # 0)
        BY <3>3, <3>4
      <4>2. Field(f) \in BOOLEAN
        BY <4>1
      <4>. QED
        BY <3>4, <4>2 DEF Raw
    <3>5. CASE f # "use_f" /\ g \in Int
      BY <3>2, <3>3, <3>5 DEF Raw
    <3>6. CASE f # "use_f" /\ g = NaN /\ f \in Floats
      BY <3>2, <3>3, <3>6
    <3>. QED
      BY <3>1, <3>4, <3>5, <3>6 DEF MayHold
  <2>3. CASE f \in F \ DOMAIN v /\ f \in DOMAIN D
    <3>1. Field(f) = D[f] /\ Raw(f, D[f])
      BY <1>6, <2>3, DefaultRaw
    <3>. QED
      BY <3>1
  <2>. QED
    BY <1>3, <2>1, <2>2, <2>3
<1>. HIDE DEF Field
<1>8. DOMAIN m.fields = F /\ \A f \in F : m.fields[f] = Get(f, Field(f))
  BY <1>1
<1>9. b \in DOMAIN disk
  BY DEF Finished
<1>10. ASSUME NEW f \in F
       PROVE  \/ TypeOf(f, m.fields[f])
              \/ m.fields[f] = NaN /\ Builders[b] = "message" /\ f \in Floats
  BY <1>7, <1>8, GetTyped, GetNaN
<1>11. ASSUME NEW f \in F, Tags(disk[b], f) = {}, f \in DOMAIN D
       PROVE  m.fields[f] = Get(f, D[f])
  <2>1. f \notin DOMAIN v
    BY <1>11 DEF OnlyWritten
  <2>. QED
    BY <1>6, <1>8, <1>11, <2>1
<1>12. ASSUME NEW f \in F, NEW k \in DOMAIN disk[b], LastAt(disk[b], f, k)
       PROVE  m.fields[f] = Get(f, Convert(f, disk[b][k + 1].text))
  <2>1. f \in DOMAIN v /\ v[f] = Convert(f, disk[b][k + 1].text)
    BY <1>12 DEF Finished, HasRead
  <2>. QED
    BY <1>4, <1>8, <2>1
<1>. HIDE DEF F, D
<1>. QED
  BY <1>8, <1>9, <1>10, <1>11, <1>12 DEF Right, F, D

LEMMA CreatedIs ==
  ASSUME Typed, OnlyWritten, NEW names \in Seq(DOMAIN Builders),
         \A b \in ToSet(names) : Finished(b), NEW garbage,
         \A b \in ToSet(names) : \A f \in Unset(b, parsers[b].values) :
           MayHold(f, garbage[b, f])
  PROVE  AllRight(Created(names, garbage)) /\ NamesOf(Created(names, garbage)) = names
<1>. DEFINE n == Len(names)
            made == Created(names, garbage)
            Made(k) == [builder |-> names[k],
                        fields  |-> Parameters(names[k], parsers[names[k]].values, garbage)]
<1>1. n \in Nat /\ DOMAIN names = 1 .. n /\ names = [k \in 1 .. n |-> names[k]]
  BY LenProperties
<1>2. \A k \in 1 .. n : names[k] \in DOMAIN Builders /\ names[k] \in ToSet(names)
  BY <1>1, ElementOfSeq DEF ToSet
<1>3. made = [k \in 1 .. n |-> Made(k)]
  BY <1>1 DEF Created
<1>. HIDE DEF n, made
<1>4. DOMAIN made = 1 .. n /\ \A k \in 1 .. n : made[k] = Made(k)
  BY <1>3
<1>5. ASSUME NEW k \in 1 .. n PROVE Right(made[k]) /\ made[k].builder = names[k]
  <2>. DEFINE m == made[k]
              b == names[k]
  <2>1. m.builder = b /\ m.fields = Parameters(b, parsers[b].values, garbage)
    <3>. DEFINE x == Parameters(b, parsers[b].values, garbage)
    <3>1. m = [builder |-> b, fields |-> x]
      BY <1>4
    <3>. HIDE DEF x, m, b
    <3>2. m.builder = b /\ m.fields = x
      BY <3>1
    <3>. QED
      BY <3>2 DEF x
  <2>2. b \in DOMAIN Builders /\ b \in ToSet(names)
    BY <1>2
  <2>. HIDE DEF m, b
  <2>3. Finished(b) /\ \A f \in Unset(b, parsers[b].values) : MayHold(f, garbage[b, f])
    BY <2>2
  <2>4. Right(m)
    BY <2>1, <2>2, <2>3, ParametersRight
  <2>. QED
    BY <2>1, <2>4 DEF m, b
<1>6. Len(made) = n /\ made = [k \in 1 .. n |-> made[k]]
  <2>1. made = [k \in 1 .. n |-> made[k]] /\ made \in [1 .. n -> {made[k] : k \in 1 .. n}]
    BY <1>3
  <2>2. Len(made) = n
    BY <1>1, <2>1, LenOf
  <2>. QED
    BY <2>1, <2>2
<1>7. AllRight(made)
  BY <1>1, <1>5, <1>6 DEF AllRight
<1>8. NamesOf(made) = names
  <2>1. NamesOf(made) = [k \in 1 .. n |-> made[k].builder]
    BY <1>4 DEF NamesOf
  <2>2. [k \in 1 .. n |-> made[k].builder] = [k \in 1 .. n |-> names[k]]
    BY <1>5
  <2>. QED
    BY <1>1, <2>1, <2>2
<1>. QED
  BY <1>7, <1>8 DEF made

\* Once the queue is empty, every file of the names underway has been read.
LEMMA AllFinished ==
  ASSUME Typed, NEW names, ToSet(names) \subseteq DOMAIN Builders, Underway(names),
         reading = Nobody, queue = <<>>
  PROVE  \A b \in ToSet(names) : Finished(b)
<1>1. ToSet(queue) = {}
  BY ToSetOf DEF Typed
<1>. QED
  BY <1>1, Names DEF Underway

LEMMA GetModelsKept ==
  ASSUME ConfigurationInv, GetModels
  PROVE  ConfigurationInv'
<1>. DEFINE names == Known(config.mods, ModelBuilders)
            recs == Known(config.recs, RecorderBuilders)
            Free(b) == Unset(b, parsers[b].values)
            unset == UNION {{b} \X Free(b) : b \in ToSet(names)}
<1>1. /\ phase = "models" /\ reading = Nobody /\ queue = <<>>
      /\ \E garbage \in [unset -> Garbage \cup {NaN}] :
           /\ \A u \in unset : garbage[u] = NaN => u[2] \in Floats
           /\ models' = Created(names, garbage)
      /\ phase' = "recorders" /\ queue' = recs
      /\ UNCHANGED <<saverVars, pos, config, reading, parsers, recorders>>
  BY DEF GetModels
<1>2. /\ Typed /\ AtRest /\ SavedSoFar /\ MainSoFar /\ OnlyWritten /\ ReadSoFar /\ AllRead
      /\ CreatedRight
  BY DEF ConfigurationInv
<1>3. UNCHANGED <<disk, dialog, todo, saved>> /\ recorders' = recorders
  BY <1>1 DEF saverVars
<1>4. /\ names \in Seq(DOMAIN Builders) /\ ToSet(names) \subseteq DOMAIN Builders
      /\ recs \in Seq(DOMAIN Builders) /\ ToSet(recs) \subseteq DOMAIN Builders
  BY <1>2, UnderwayNames
<1>5. PICK garbage \in [unset -> Garbage \cup {NaN}] :
        /\ \A u \in unset : garbage[u] = NaN => u[2] \in Floats
        /\ models' = Created(names, garbage)
  BY <1>1
<1>6. \A b \in ToSet(names) : Finished(b)
  <2>1. Underway(names)
    BY <1>1, <1>2 DEF AllRead
  <2>. HIDE DEF names
  <2>. QED
    BY <1>1, <1>2, <1>4, <2>1, AllFinished
<1>7. \A b \in ToSet(names) : \A f \in Free(b) : MayHold(f, garbage[b, f])
  <2>1. ASSUME NEW b \in ToSet(names), NEW f \in Free(b) PROVE MayHold(f, garbage[b, f])
    <3>. DEFINE u == <<b, f>>
    <3>1. u \in unset
      <4>. HIDE DEF names, Free
      <4>. QED
        BY <2>1
    <3>2. garbage[u] \in Garbage \cup {NaN} /\ (garbage[u] = NaN => u[2] \in Floats)
      <4>. HIDE DEF unset, u
      <4>. QED
        BY <1>5, <3>1
    <3>3. u[2] = f /\ garbage[u] = garbage[b, f]
      OBVIOUS
    <3>4. garbage[u] \in Int \/ garbage[u] = NaN
      BY <3>2, ConfigurationAssumption
    <3>. HIDE DEF u
    <3>. QED
      BY <3>2, <3>3, <3>4 DEF MayHold
  <2>. QED
    BY <2>1
<1>8. AllRight(models') /\ NamesOf(models') = names
  <2>. HIDE DEF names
  <2>. QED
    BY <1>2, <1>4, <1>5, <1>6, <1>7, CreatedIs
<1>. HIDE DEF unset
<1>9. Typed'
  BY <1>1, <1>2, <1>3, <1>4 DEF Typed
<1>10. AtRest'
  BY <1>1 DEF AtRest
<1>11. SavedSoFar'
  <2>1. todo = <<>>
    BY <1>1, <1>2 DEF SavedSoFar
  <2>. QED
    BY <1>1, <1>2, <2>1, SavedKept
<1>12. MainSoFar'
  BY <1>1, <1>2, <1>3, MainKept
<1>13. OnlyWritten'
  BY <1>1, <1>2, <1>3, WrittenKept
<1>14. ReadSoFar'
  BY <1>1 DEF ReadSoFar
<1>15. AllRead'
  <2>1. queue' = Known(config'.recs, RecorderBuilders)
    BY <1>1
  <2>2. \A b \in ToSet(Known(config'.recs, RecorderBuilders)) : b \in ToSet(queue')
    BY <2>1
  <2>. QED
    BY <1>1, <2>2 DEF AllRead, Underway, ToSet
<1>16. CreatedRight'
  <2>1. config.mods = BuilderNames("ModBuilder")
    BY <1>1, <1>2 DEF MainSoFar
  <2>2. NamesOf(models') = Known(BuilderNames("ModBuilder")', ModelBuilders)
    BY <1>3, <1>8, <2>1 DEF BuilderNames
  <2>3. AllRight(models)' /\ AllRight(recorders)'
    BY <1>2, <1>3, <1>8 DEF CreatedRight, AllRight, Right
  <2>4. NamesOf(models)' = NamesOf(models')
    BY DEF NamesOf
  <2>. QED
    BY <1>1, <2>2, <2>3, <2>4 DEF CreatedRight
<1>. QED
  BY <1>9, <1>10, <1>11, <1>12, <1>13, <1>14, <1>15, <1>16 DEF ConfigurationInv

LEMMA GetRecordersKept ==
  ASSUME ConfigurationInv, GetRecorders
  PROVE  ConfigurationInv'
<1>. DEFINE names == Known(config.recs, RecorderBuilders)
<1>1. /\ phase = "recorders" /\ reading = Nobody /\ queue = <<>>
      /\ recorders' = Created(names, <<>>) /\ phase' = "ready"
      /\ UNCHANGED <<saverVars, pos, config, queue, reading, parsers, models>>
  BY DEF GetRecorders
<1>2. /\ Typed /\ AtRest /\ SavedSoFar /\ MainSoFar /\ OnlyWritten /\ ReadSoFar /\ AllRead
      /\ CreatedRight
  BY DEF ConfigurationInv
<1>3. UNCHANGED <<disk, dialog, todo, saved>> /\ models' = models
  BY <1>1 DEF saverVars
<1>4. /\ names \in Seq(DOMAIN Builders) /\ ToSet(names) \subseteq DOMAIN Builders
      /\ ToSet(names) \subseteq DOMAIN RecorderBuilders
  <2>1. config.recs \in Seq(Strings) /\ DOMAIN RecorderBuilders \subseteq DOMAIN Builders
    BY <1>2, UnderwayNames, Names
  <2>. QED
    BY <1>2, <2>1, UnderwayNames, KnownBuilders
<1>5. \A b \in ToSet(names) : Finished(b)
  <2>1. Underway(names)
    BY <1>1, <1>2 DEF AllRead
  <2>. HIDE DEF names
  <2>. QED
    BY <1>1, <1>2, <1>4, <2>1, AllFinished
<1>6. AllRight(recorders') /\ NamesOf(recorders') = names
  <2>. DEFINE garbage == <<>>
  <2>1. \A b \in ToSet(names) : \A f \in Unset(b, parsers[b].values) :
          MayHold(f, garbage[b, f])
    <3>. HIDE DEF names
    <3>. QED
      BY <1>4, UnsetIs
  <2>2. recorders' = Created(names, garbage)
    BY <1>1
  <2>. HIDE DEF names, garbage
  <2>. QED
    BY <1>2, <1>4, <1>5, <2>1, <2>2, CreatedIs
<1>7. Typed'
  BY <1>1, <1>2, <1>3 DEF Typed
<1>8. AtRest' /\ AllRead'
  BY <1>1 DEF AtRest, AllRead
<1>9. SavedSoFar'
  <2>1. todo = <<>>
    BY <1>1, <1>2 DEF SavedSoFar
  <2>. QED
    BY <1>1, <1>2, <2>1, SavedKept
<1>10. MainSoFar'
  BY <1>1, <1>2, <1>3, MainKept
<1>11. OnlyWritten'
  BY <1>1, <1>2, <1>3, WrittenKept
<1>12. ReadSoFar'
  BY <1>1 DEF ReadSoFar
<1>13. CreatedRight'
  <2>1. config.recs = BuilderNames("RecBuilder")
    BY <1>1, <1>2 DEF MainSoFar
  <2>2. NamesOf(recorders') = Known(BuilderNames("RecBuilder")', RecorderBuilders)
    BY <1>3, <1>6, <2>1 DEF BuilderNames
  <2>3. AllRight(models)' /\ AllRight(recorders)'
    BY <1>2, <1>3, <1>6 DEF CreatedRight, AllRight, Right
  <2>4. NamesOf(recorders)' = NamesOf(recorders')
    BY DEF NamesOf
  <2>5. NamesOf(models)' = Known(BuilderNames("ModBuilder")', ModelBuilders)
    BY <1>1, <1>2, <1>3 DEF CreatedRight, NamesOf, BuilderNames
  <2>. QED
    BY <1>1, <2>2, <2>3, <2>4, <2>5 DEF CreatedRight
<1>. QED
  BY <1>7, <1>8, <1>9, <1>10, <1>11, <1>12, <1>13 DEF ConfigurationInv

-----------------------------------------------------------------------------
(* The theorems                                                            *)

LEMMA StepKept == ConfigurationInv /\ [Next]_vars => ConfigurationInv'
<1>. SUFFICES ASSUME ConfigurationInv, [Next]_vars PROVE ConfigurationInv'
  OBVIOUS
<1>1. CASE SaveCnfFile
  BY <1>1, SaveCnfFileKept
<1>2. CASE SaveFile
  BY <1>2, SaveFileKept
<1>3. CASE SaveFails
  BY <1>3, SaveFailsKept
<1>4. CASE OpenMain
  BY <1>4, OpenMainKept
<1>5. CASE MainElement
  BY <1>5, MainElementKept
<1>6. CASE MainParsed
  BY <1>6, MainParsedKept
<1>7. CASE OpenBuilder
  BY <1>7, OpenBuilderKept
<1>8. CASE BuilderElement
  BY <1>8, BuilderElementKept
<1>9. CASE BuilderParsed
  BY <1>9, BuilderParsedKept
<1>10. CASE GetModels
  BY <1>10, GetModelsKept
<1>11. CASE GetRecorders
  BY <1>11, GetRecordersKept
<1>12. CASE UNCHANGED vars
  <2>1. UNCHANGED <<disk, dialog, todo, saved, lost, phase, pos, config, queue, reading, parsers,
                    models, recorders>>
    BY <1>12 DEF vars, saverVars, resultVars
  <2>2. /\ Typed /\ AtRest /\ SavedSoFar /\ MainSoFar /\ OnlyWritten /\ ReadSoFar /\ AllRead
        /\ CreatedRight
    BY DEF ConfigurationInv
  <2>3. Typed' /\ AtRest'
    BY <2>1, <2>2 DEF Typed, AtRest
  <2>4. SavedSoFar'
    BY <2>1, <2>2 DEF SavedSoFar
  <2>5. MainSoFar'
    BY <2>1, <2>2 DEF MainSoFar, BuilderNames
  <2>6. OnlyWritten'
    BY <2>1, <2>2, WrittenKept
  <2>7. ReadSoFar'
    BY <2>1, <2>2 DEF ReadSoFar
  <2>8. AllRead'
    <3>1. \A b \in DOMAIN Builders : Finished(b) => Finished(b)'
      BY <2>1, FinishedKept
    <3>2. \A b \in DOMAIN Builders :
            b \in ToSet(queue) \cup {reading} \/ Finished(b) =>
              b \in ToSet(queue') \cup {reading'} \/ Finished(b)'
      BY <2>1, <3>1
    <3>. QED
      BY <2>1, <2>2, <3>2, UnderwayKept
  <2>9. CreatedRight'
    BY <2>1, <2>2, CreatedKept
  <2>. QED
    BY <2>3, <2>4, <2>5, <2>6, <2>7, <2>8, <2>9 DEF ConfigurationInv
<1>. QED
  BY <1>1, <1>2, <1>3, <1>4, <1>5, <1>6, <1>7, <1>8, <1>9, <1>10, <1>11, <1>12 DEF Next, Load

\* The invariant that the theorems below rest on.
THEOREM InvAlways == Spec => []ConfigurationInv
<1>. QED
  BY Initial, StepKept, PTL DEF Spec

\* What is created is one of the models or one of the recorders.
LEMMA CreatedAre ==
  ASSUME NEW x, NEW y, AllRight(x), AllRight(y), NEW m \in ToSet(x \o y)
  PROVE  Right(m) /\ m.builder \in ToSet(NamesOf(x)) \cup ToSet(NamesOf(y))
<1>. DEFINE S == {x[k] : k \in 1 .. Len(x)} \cup {y[k] : k \in 1 .. Len(y)}
<1>1. /\ Len(x) \in Nat /\ x = [k \in 1 .. Len(x) |-> x[k]]
      /\ \A k \in 1 .. Len(x) : Right(x[k])
  BY DEF AllRight
<1>2. /\ Len(y) \in Nat /\ y = [k \in 1 .. Len(y) |-> y[k]]
      /\ \A k \in 1 .. Len(y) : Right(y[k])
  BY DEF AllRight
<1>3. x \in [1 .. Len(x) -> S] /\ y \in [1 .. Len(y) -> S]
  BY <1>1, <1>2
<1>4. x \in Seq(S) /\ y \in Seq(S)
  <2>. HIDE DEF S
  <2>. QED
    BY <1>1, <1>2, <1>3, FunctionIsSeq
<1>5. DOMAIN x = 1 .. Len(x) /\ DOMAIN y = 1 .. Len(y)
  BY <1>1, <1>2
<1>6. m \in ToSet(x) \cup ToSet(y)
  <2>. HIDE DEF S
  <2>. QED
    BY <1>4, ToSetConcat
<1>7. CASE m \in ToSet(x)
  <2>1. PICK k \in 1 .. Len(x) : m = x[k]
    BY <1>5, <1>7 DEF ToSet
  <2>2. DOMAIN NamesOf(x) = 1 .. Len(x) /\ NamesOf(x)[k] = m.builder
    BY <1>5, <2>1 DEF NamesOf
  <2>. QED
    BY <1>1, <2>1, <2>2 DEF ToSet
<1>8. CASE m \in ToSet(y)
  <2>1. PICK k \in 1 .. Len(y) : m = y[k]
    BY <1>5, <1>8 DEF ToSet
  <2>2. DOMAIN NamesOf(y) = 1 .. Len(y) /\ NamesOf(y)[k] = m.builder
    BY <1>5, <2>1 DEF NamesOf
  <2>. QED
    BY <1>2, <2>1, <2>2 DEF ToSet
<1>. QED
  BY <1>6, <1>7, <1>8

\* The last of the tags of a field.
LEMMA LastTag ==
  ASSUME NEW file \in Seq(Events), NEW f, Tags(file, f) # {}
  PROVE  /\ Max(Tags(file, f)) \in Tags(file, f)
         /\ \A j \in Tags(file, f) : j <= Max(Tags(file, f))
<1>. DEFINE S == Tags(file, f)
            n == Len(file)
            Down == {n - j : j \in S}
<1>1. n \in Nat /\ S \subseteq 1 .. n
  BY LenProperties DEF Tags
<1>. HIDE DEF S, n
<1>2. Down \subseteq Nat /\ Down # {}
  BY <1>1 DEF S
<1>3. PICK l \in Down : \A i \in Down : l <= i
  <2>. HIDE DEF Down
  <2>. QED
    BY <1>2, Least
<1>4. PICK k \in S : l = n - k
  BY <1>3
<1>5. \A j \in S : k >= j
  <2>1. ASSUME NEW j \in S PROVE k >= j
    <3>1. n - j \in Down
      OBVIOUS
    <3>2. n - k <= n - j
      BY <1>3, <1>4, <3>1
    <3>3. j \in Int /\ k \in Int
      BY <1>1
    <3>. HIDE DEF Down
    <3>. QED
      BY <1>1, <3>2, <3>3
  <2>. QED
    BY <2>1
<1>6. \E x \in S : \A y \in S : x >= y
  BY <1>4, <1>5
<1>7. Max(S) \in S /\ \A y \in S : Max(S) >= y
  BY <1>6, Zenon DEF Max
<1>8. \A y \in S : y <= Max(S)
  BY <1>1, <1>7
<1>. QED
  BY <1>7, <1>8 DEF S

\* In a plain file the last tag of a field comes before its text.
LEMMA LastPlain ==
  ASSUME NEW b \in DOMAIN Builders, NEW file \in Seq(Events), NEW f \in Fields(Builders[b]),
         Tags(file, f) # {}, Plain(file, b)
  PROVE  /\ Max(Tags(file, f)) \in DOMAIN file /\ LastAt(file, f, Max(Tags(file, f)))
         /\ file[Max(Tags(file, f)) + 1].text \in Texts
<1>. DEFINE k == Max(Tags(file, f))
<1>1. k \in Tags(file, f) /\ \A j \in Tags(file, f) : j <= k
  BY LastTag
<1>. HIDE DEF k
<1>2. k \in DOMAIN file /\ file[k].tag = f
  BY <1>1 DEF Tags
<1>3. k + 1 \in DOMAIN file /\ IsData(file[k + 1])
  BY <1>2 DEF Plain
<1>4. LastAt(file, f, k)
  BY <1>1, <1>3 DEF LastAt
<1>5. file[k + 1] \in Events
  BY <1>3, ElementOfSeq, LenProperties
<1>6. file[k + 1].text \in Texts
  BY <1>5 DEF Events
<1>. QED
  BY <1>2, <1>4, <1>6 DEF k

\* Every variable has its type (the type invariant): a parser's tag and values are of
\* its own fields, whatever the file has, and what the getters of ModelParser.h and
\* its subclasses return for a created model is in the range that the models rely on,
\* even if the file gives another value, or none and the number is uninitialised;
\* only a float of MessageModelParser that the file does not give may be NaN.
THEOREM TypesAreRight == Spec => []TypeOK
<1>1. ConfigurationInv => TypeOK
  <2>. SUFFICES ASSUME ConfigurationInv PROVE TypeOK
    OBVIOUS
  <2>1. Typed /\ SavedSoFar /\ CreatedRight
    BY DEF ConfigurationInv
  <2>2. /\ phase \in {"off", "main", "models", "recorders", "ready", "aborted"}
        /\ reading \in {Nobody} \cup DOMAIN Builders
        /\ \A b \in DOMAIN Builders :
             /\ parsers[b].actTag \in {NoTag} \cup Fields(Builders[b])
             /\ DOMAIN parsers[b].values \subseteq Fields(Builders[b])
    BY <2>1 DEF Typed, ParserTyped
  <2>3. saved => todo = <<>>
    BY <2>1 DEF SavedSoFar
  <2>4. ASSUME NEW m \in ToSet(models \o recorders)
        PROVE  DOMAIN m.fields = Fields(Builders[m.builder])
    <3>1. Right(m)
      BY <2>1, CreatedAre DEF CreatedRight
    <3>. QED
      BY <3>1 DEF Right
  <2>5. ASSUME NEW m \in ToSet(models \o recorders), NEW f \in DOMAIN m.fields
        PROVE  TypeOf(f, m.fields[f]) \/ (m.fields[f] = NaN /\ MayBeNaN(m.builder, f))
    <3>. DEFINE b == m.builder
                file == disk[b]
                k == Max(Tags(file, f))
    <3>1. Right(m)
      BY <2>1, CreatedAre DEF CreatedRight
    <3>2. b \in DOMAIN Builders /\ b \in DOMAIN disk /\ f \in Fields(Builders[b])
      BY <3>1 DEF Right
    <3>3. \/ TypeOf(f, m.fields[f])
          \/ m.fields[f] = NaN /\ Builders[b] = "message" /\ f \in Floats
      BY <3>1 DEF Right
    <3>4. ASSUME Tags(file, f) # {}, Plain(file, b)
          PROVE  TypeOf(f, m.fields[f])
      <4>1. file \in Seq(Events)
        BY <2>1, <3>2, FileTyped
      <4>2. k \in DOMAIN file /\ LastAt(file, f, k) /\ file[k + 1].text \in Texts
        <5>. HIDE DEF file, b
        <5>. QED
          BY <3>2, <3>4, <4>1, LastPlain
      <4>. HIDE DEF k
      <4>3. m.fields[f] = Get(f, Convert(f, file[k + 1].text))
        BY <3>1, <4>2 DEF Right
      <4>. QED
        BY <4>2, <4>3, ConvertRaw, GetTyped
    <3>. QED
      BY <3>3, <3>4 DEF MayBeNaN
  <2>. QED
    BY <2>2, <2>3, <2>4, <2>5 DEF TypeOK
<1>. QED
  BY <1>1, InvAlways, PTL

\* Of a path its first text is read, everything else as it was written.
LEMMA ReadBack ==
  ASSUME NEW f, NEW v, f # "use_f", TypeOf(f, v), Get(f, v) = v
  PROVE  Get(f, Convert(f, FirstText(f, v))) = IF f = "filePath" THEN Loaded(v) ELSE v
<1>1. CASE f = "filePath"
  <2>1. \A t : Convert(f, t) = t.word
    BY <1>1 DEF Convert, Ints, Bools
  <2>2. \A x : Get(f, x) = x
    BY <1>1, ZenonT(40) DEF Get, NonNegative, Fractions
  <2>3. FirstText(f, v) = IF PathPieces(v) = <<>> THEN Blank ELSE PathPieces(v)[1]
    BY <1>1 DEF FirstText, Pieces
  <2>4. Blank.word = "\n" /\ Word(v).word = v
    BY DEF Blank, Word
  <2>5. FirstText(f, v).word = Loaded(v)
    <3>1. CASE v \in DOMAIN Markup
      <4>. DEFINE p == Markup[v].pieces
      <4>1. PathPieces(v) = p
        BY <3>1 DEF PathPieces
      <4>2. Loaded(v) = IF p # <<>> THEN Head(p).word ELSE "\n"
        BY <3>1 DEF Loaded
      <4>3. p \in Seq(Texts) /\ (p # <<>> => Head(p) = p[1])
        <5>1. p \in Seq(Texts)
          BY <3>1, ConfigurationAssumption
        <5>. HIDE DEF p
        <5>. QED
          BY <5>1
      <4>. HIDE DEF p
      <4>. QED
        BY <2>3, <2>4, <4>1, <4>2, <4>3
    <3>2. CASE v \notin DOMAIN Markup /\ v = ""
      BY <2>3, <2>4, <3>2 DEF PathPieces, Loaded
    <3>3. CASE v \notin DOMAIN Markup /\ v # ""
      <4>1. PathPieces(v) = <<Word(v)>>
        BY <3>3 DEF PathPieces
      <4>2. PathPieces(v) # <<>> /\ PathPieces(v)[1] = Word(v)
        BY <4>1
      <4>3. Loaded(v) = v
        BY <3>3 DEF Loaded
      <4>. QED
        BY <2>3, <2>4, <4>2, <4>3
    <3>. QED
      BY <3>1, <3>2, <3>3
  <2>. QED
    BY <1>1, <2>1, <2>2, <2>5
<1>2. CASE f # "filePath"
  <2>1. FirstText(f, v) = ToText(f, v)
    <3>1. Pieces(f, v) = <<ToText(f, v)>>
      BY <1>2 DEF Pieces
    <3>2. Pieces(f, v) # <<>> /\ Pieces(f, v)[1] = ToText(f, v)
      BY <3>1
    <3>. QED
      BY <3>2 DEF FirstText
  <2>2. Convert(f, ToText(f, v)) = v
    BY <1>2, ReadAgain
  <2>. QED
    BY <1>2, <2>1, <2>2
<1>. QED
  BY <1>1, <1>2

\* What is simulated is what the files say: setModelBuilders and the parsers' events
\* keep, for each name of the main file that is known, the last value of every field
\* of that builder's own file, and a field that is not in the file has its default.
THEOREM WhatIsWrittenIsLoaded == Spec => []WrittenIsLoaded
<1>1. ConfigurationInv => WrittenIsLoaded
  <2>. SUFFICES ASSUME ConfigurationInv, phase = "ready" PROVE WrittenIsLoaded
    BY DEF WrittenIsLoaded
  <2>1. Typed /\ CreatedRight
    BY DEF ConfigurationInv
  <2>2. /\ NamesOf(models) = Known(BuilderNames("ModBuilder"), ModelBuilders)
        /\ NamesOf(recorders) = Known(BuilderNames("RecBuilder"), RecorderBuilders)
    BY <2>1 DEF CreatedRight
  <2>3. ASSUME NEW m \in ToSet(models \o recorders), NEW f \in Fields(Builders[m.builder])
        PROVE  LET b    == m.builder
                   file == disk[b]
               IN  IF Tags(file, f) = {}
                   THEN f \in DOMAIN Defaults[Builders[b]] =>
                          m.fields[f] = Get(f, Defaults[Builders[b]][f])
                   ELSE Plain(file, b) =>
                          m.fields[f] = Get(f, Convert(f, file[Max(Tags(file, f)) + 1].text))
    <3>. DEFINE b == m.builder
                file == disk[b]
                T == Tags(file, f)
                k == Max(T)
    <3>1. Right(m)
      BY <2>1, CreatedAre DEF CreatedRight
    <3>2. /\ b \in DOMAIN Builders /\ b \in DOMAIN disk
          /\ f \in DOMAIN m.fields /\ f \in Fields(Builders[b])
      BY <3>1 DEF Right
    <3>3. CASE T = {}
      BY <3>1, <3>2, <3>3 DEF Right
    <3>4. ASSUME T # {}, Plain(file, b)
          PROVE  m.fields[f] = Get(f, Convert(f, file[k + 1].text))
      <4>1. file \in Seq(Events)
        BY <2>1, <3>2, FileTyped
      <4>2. k \in DOMAIN file /\ LastAt(file, f, k)
        <5>. HIDE DEF file, b
        <5>. QED
          BY <3>2, <3>4, <4>1, LastPlain
      <4>. HIDE DEF k
      <4>. QED
        BY <3>1, <3>2, <4>2 DEF Right
    <3>. HIDE DEF T, k
    <3>5. CASE T = {}
      BY <3>3, <3>5 DEF T
    <3>6. CASE T # {}
      BY <3>4, <3>6 DEF T, k
    <3>. QED
      BY <3>5, <3>6
  <2>4. \A m \in ToSet(models \o recorders) :
         LET b    == m.builder
             file == disk[b]
         IN  \A f \in Fields(Builders[b]) :
               IF Tags(file, f) = {}
               THEN f \in DOMAIN Defaults[Builders[b]] =>
                      m.fields[f] = Get(f, Defaults[Builders[b]][f])
               ELSE Plain(file, b) =>
                      m.fields[f] = Get(f, Convert(f, file[Max(Tags(file, f)) + 1].text))
    BY <2>3
  <2>. QED
    BY <2>2, <2>4 DEF WrittenIsLoaded
<1>. QED
  BY <1>1, InvAlways, PTL

\* After SimSaver's saveCnfFile went through and no write error was kept from it,
\* createSimulation has the models and recorders of the dialog, with the values of the
\* dialog, whatever failed before; only a path may be cut short, and nothing is said of
\* a builder whose path cuts its file off.
THEOREM WhatIsSavedIsLoaded == Spec => []SavedIsLoaded
<1>1. ConfigurationInv => SavedIsLoaded
  <2>. SUFFICES ASSUME ConfigurationInv, phase = "ready", saved, ~lost PROVE SavedIsLoaded
    BY DEF SavedIsLoaded
  <2>. DEFINE d == dialog
  <2>1. Typed /\ SavedSoFar /\ CreatedRight
    BY DEF ConfigurationInv
  <2>2. IsDialog(d)
    BY <2>1, DialogsAre DEF Typed
  <2>3. \A n \in Saves(d) : n \in DOMAIN disk /\ disk[n] = FileOf(d, n)
    <3>1. todo = <<>>
      BY <2>1 DEF SavedSoFar
    <3>2. ToSet(todo) = {}
      BY <2>1, <3>1, ToSetOf DEF Typed
    <3>. QED
      BY <2>1, <3>2 DEF SavedSoFar
  <2>4. disk["main"] = MainFile(d)
    BY <2>3 DEF Saves, FileOf
  <2>5. BuilderNames("ModBuilder") = d.models /\ BuilderNames("RecBuilder") = d.recorders
    BY <2>2, <2>4, MainFileNames DEF BuilderNames
  <2>6. /\ NamesOf(models) = Known(d.models, ModelBuilders)
        /\ NamesOf(recorders) = Known(d.recorders, RecorderBuilders)
    BY <2>1, <2>5 DEF CreatedRight
  <2>7. ASSUME NEW m \in ToSet(models \o recorders),
               ~CutBefore(d, m.builder, Len(d.toXml[m.builder]) + 1),
               NEW f \in DOMAIN d.fields[m.builder]
        PROVE  m.fields[f] = IF f = "filePath" THEN Loaded(d.fields[m.builder][f])
                             ELSE d.fields[m.builder][f]
    <3>. DEFINE b == m.builder
                v == d.fields[b][f]
                file == BuilderFile(d, b)
                T == Tags(file, f)
                k == Max(T)
                both == d.models \o d.recorders
    <3>1. Right(m) /\ b \in ToSet(NamesOf(models)) \cup ToSet(NamesOf(recorders))
      BY <2>1, CreatedAre DEF CreatedRight
    <3>2. b \in DOMAIN Builders
      BY <3>1 DEF Right
    <3>3. b \in ToSet(both)
      <4>1. d.models \in Seq(Strings) /\ d.recorders \in Seq(Strings)
        BY <2>2 DEF IsDialog
      <4>2. ASSUME NEW x \in Seq(Strings), NEW builders
            PROVE  ToSet(Known(x, builders)) \subseteq ToSet(x)
        <5>1. x \in Seq(ToSet(x))
          <6>1. x \in [1 .. Len(x) -> ToSet(x)] /\ Len(x) \in Int
            <7>1. Len(x) \in Nat /\ DOMAIN x = 1 .. Len(x) /\ x \in [1 .. Len(x) -> Strings]
              BY LenProperties
            <7>. QED
              BY <7>1 DEF ToSet
          <6>. QED
            BY <6>1, FunctionIsSeq
        <5>2. Known(x, builders) \in Seq(ToSet(x) \cap DOMAIN builders)
          BY <5>1, KnownTyped
        <5>3. ToSet(Known(x, builders)) \subseteq ToSet(x) \cap DOMAIN builders
          BY <5>2, ToSetOf
        <5>. QED
          BY <5>3
      <4>3. b \in ToSet(d.models) \cup ToSet(d.recorders)
        BY <2>6, <3>1, <4>1, <4>2
      <4>4. ToSet(both) = ToSet(d.models) \cup ToSet(d.recorders)
        <5>. HIDE DEF d
        <5>. QED
          BY <4>1, ToSetConcat
      <4>. QED
        BY <4>3, <4>4
    <3>4. b # "main" /\ b \in Saves(d)
      BY <3>2, <3>3, Names DEF Saves
    <3>5. disk[b] = file
      BY <2>3, <3>4 DEF FileOf
    <3>6. f # "use_f" /\ TypeOf(f, v) /\ Get(f, v) = v /\ f \in Fields(Builders[b])
      BY <2>2, <3>2, <3>3 DEF IsDialog
    <3>. DEFINE text == FirstText(f, v)
    <3>7. /\ file \in Seq(Events)
          /\ \A j \in 1 .. Len(file) :
               file[j].tag = f => j + 1 \in 1 .. Len(file) /\ file[j + 1] = Data(text)
          /\ \E j \in 1 .. Len(file) : file[j].tag = f
      <4>1. ~CutBefore(d, b, Len(d.toXml[b]) + 1)
        BY <2>7
      <4>. HIDE DEF d
      <4>. QED
        BY <2>2, <3>2, <3>3, <3>6, <4>1, BuilderFileAt
    <3>. HIDE DEF file, text
    <3>8. DOMAIN file = 1 .. Len(file)
      BY <3>7, LenProperties
    <3>9. k \in T /\ \A j \in T : j <= k
      <4>1. T # {}
        BY <3>7, <3>8 DEF Tags
      <4>. QED
        BY <3>7, <4>1, LastTag
    <3>. HIDE DEF k
    <3>10. k \in 1 .. Len(file) /\ file[k].tag = f
      BY <3>8, <3>9 DEF Tags
    <3>11. k + 1 \in DOMAIN file /\ file[k + 1] = Data(text)
      BY <3>7, <3>8, <3>10
    <3>12. IsData(file[k + 1]) /\ file[k + 1].text = text
      BY <3>11, EventsAre DEF IsData
    <3>13. LastAt(file, f, k)
      BY <3>9, <3>11, <3>12 DEF LastAt
    <3>14. m.fields[f] = Get(f, Convert(f, text))
      BY <3>1, <3>5, <3>6, <3>8, <3>10, <3>12, <3>13 DEF Right
    <3>. HIDE DEF v
    <3>15. Get(f, Convert(f, text)) = IF f = "filePath" THEN Loaded(v) ELSE v
      BY <3>6, ReadBack DEF text
    <3>. QED
      BY <3>14, <3>15 DEF v
  <2>. QED
    BY <2>6, <2>7 DEF SavedIsLoaded
<1>. QED
  BY <1>1, InvAlways, PTL
=============================================================================
