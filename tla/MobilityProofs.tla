--------------------------- MODULE MobilityProofs ---------------------------
(***************************************************************************)
(* Proofs about Mobility, for every model, number of nodes, speed, pause,  *)
(* scenario and number of timesteps allowed by MobilityAssumption.         *)
(***************************************************************************)
EXTENDS Mobility, Induction

Points == Int \X Int

\* What a node can run into.
Obstacles == [shape : {"rect", "circle", "node"}, p : Points, w : Nat, h : Nat, r : Nat]

\* The state of collisionDetection's loop; 101 is "no contact yet".
Hits == [pos : Points, t : 0 .. 101]

NodeFields == {"kind", "pos", "v", "collided", "pause", "localTime", "target",
               "spot", "type"}

\* What every branch of every think method keeps true of a node.
NodeOK(n) ==
  /\ DOMAIN n = NodeFields
  /\ n.kind \in Kinds
  /\ n.pos \in Points /\ n.v \in Points /\ n.target \in Points
  /\ n.pause \in BOOLEAN /\ n.collided \in BOOLEAN
  /\ n.type \in 1 .. 3
  /\ n.spot \in 0 .. Len(HotSpots)
  /\ n.kind \in {"HotSpot", "Era"} /\ ~n.pause => n.spot # None

IsNodes(f) ==
  /\ Len(f) \in Nat \ {0}
  /\ f = [i \in 1 .. Len(f) |-> f[i]]
  /\ \A i \in 1 .. Len(f) : NodeOK(f[i])

IsReference(r) ==
  /\ DOMAIN r = {"pos", "target", "pause", "localTime", "colorTime"}
  /\ r.pos \in Points /\ r.target \in Points /\ r.colorTime \in Nat

\* The inductive invariant: a timestep is only under way while the run is not
\* over.
Inv ==
  /\ model \in Models
  /\ phase \in {"models", "think", "move"}
  /\ loop \in 0 .. Loops[model]
  /\ phase # "models" => loop < Loops[model]
  /\ turn \in 1 .. Len(nodes)
  /\ IsNodes(nodes)
  /\ IsReference(reference)

-----------------------------------------------------------------------------
(* The plane                                                               *)

LEMMA SquaresGrow ==
  ASSUME NEW a \in Nat, NEW b \in Nat, a * a < b * b
  PROVE  a < b
<1>1. ASSUME b <= a PROVE b * b <= a * a
  <2>1. \A c \in Nat : b * b <= (b + c) * (b + c)
    OBVIOUS
  <2>2. a - b \in Nat /\ a = b + (a - b)
    BY <1>1
  <2>. QED
    BY <2>1, <2>2
<1>. QED
  BY <1>1

\* The length of a vector exists: the integer square root of its square, which
\* neither coordinate exceeds.
LEMMA LengthOK ==
  ASSUME NEW d \in Points
  PROVE  /\ Length(d) \in Nat /\ (d # Zero => Length(d) # 0)
         /\ Abs(d[1]) <= Length(d) /\ Abs(d[2]) <= Length(d)
         /\ Dot(d, d) < (Length(d) + 1) * (Length(d) + 1)
<1>. DEFINE x == Abs(d[1])
            y == Abs(d[2])
            lo == IF x > y THEN x ELSE y
            sq == x * x + y * y
            T == {n \in Nat : sq < (n + 1) * (n + 1)}
<1>1. /\ x \in Nat /\ y \in Nat /\ lo \in Nat
      /\ x <= lo /\ y <= lo
      /\ d # Zero => lo # 0
  BY DEF Points, Abs, Zero
<1>2. Dot(d, d) = sq
  <2>1. d[1] \in Int /\ d[2] \in Int
    BY DEF Points
  <2>2. \A a \in Int : a * a = Abs(a) * Abs(a)
    BY DEF Abs
  <2>. QED
    BY <2>1, <2>2 DEF Dot
<1>3. Length(d) = CHOOSE n \in lo .. x + y : n * n <= sq /\ sq < (n + 1) * (n + 1)
  BY <1>2 DEF Length
<1>. HIDE DEF x, y
<1>4. sq \in Nat /\ sq \in T
  <2>1. sq \in Nat
    BY <1>1
  <2>2. \A a \in Nat : a < (a + 1) * (a + 1)
    OBVIOUS
  <2>. QED
    BY <2>1, <2>2
<1>5. PICK n \in T : \A m \in T : n <= m
  <2>1. T \subseteq Nat /\ T # {}
    BY <1>4
  <2>. QED
    BY <2>1, Least
<1>6. n \in Nat /\ sq < (n + 1) * (n + 1)
  BY <1>5
<1>7. n * n <= sq
  <2>1. CASE n = 0
    BY <1>4, <2>1
  <2>2. CASE n # 0
    <3>1. n - 1 \in Nat /\ n - 1 \notin T /\ (n - 1) + 1 = n
      BY <1>5, <1>6, <2>2
    <3>2. ~(sq < n * n)
      BY <3>1
    <3>. QED
      BY <1>4, <1>6, <3>2
  <2>. QED
    BY <2>1, <2>2
<1>8. lo <= n
  <2>1. lo * lo <= sq
    BY <1>1
  <2>2. lo * lo < (n + 1) * (n + 1)
    BY <1>1, <1>4, <1>6, <2>1
  <2>3. lo < n + 1
    BY <1>1, <1>6, <2>2, SquaresGrow
  <2>. QED
    BY <1>1, <1>6, <2>3
<1>9. n <= x + y
  <2>1. \A a, b \in Nat : a * a + b * b < (a + b + 1) * (a + b + 1)
    OBVIOUS
  <2>2. n * n < (x + y + 1) * (x + y + 1)
    BY <1>1, <1>4, <1>6, <1>7, <2>1
  <2>3. n < x + y + 1
    BY <1>1, <1>6, <2>2, SquaresGrow
  <2>. QED
    BY <1>1, <1>6, <2>3
<1>10. n \in lo .. x + y
  BY <1>1, <1>6, <1>8, <1>9
<1>11. Length(d) \in lo .. x + y
       /\ sq < (Length(d) + 1) * (Length(d) + 1)
  BY <1>3, <1>6, <1>7, <1>10
<1>12. Length(d) \in Nat /\ (d # Zero => Length(d) # 0)
       /\ x <= Length(d) /\ y <= Length(d)
  BY <1>1, <1>11
<1>. QED
  BY <1>2, <1>11, <1>12 DEF x, y

LEMMA RoundedOK ==
  ASSUME NEW a \in Int, NEW b \in Nat \ {0}
  PROVE  Rounded(a, b) \in Int
<1>1. \A c \in Int, e \in Nat \ {0} : c \div e \in Int
  OBVIOUS
<1>2. 2 * a + b \in Int /\ 2 * b \in Nat \ {0} /\ -(2 * a + b) \in Int
  OBVIOUS
<1>. QED
  BY <1>1, <1>2 DEF Rounded

LEMMA PlusMinusOK ==
  ASSUME NEW p \in Points, NEW q \in Points
  PROVE  /\ Plus(p, q) \in Points /\ Minus(p, q) \in Points
         /\ p[1] \in Int /\ p[2] \in Int
BY DEF Points, Plus, Minus

LEMMA AlongOK ==
  ASSUME NEW d \in Points, NEW s \in Int
  PROVE  Along(d, s) \in Points
<1>1. CASE d = Zero
  BY <1>1 DEF Along, Zero, Points
<1>2. CASE d # Zero
  <2>1. Length(d) \in Nat \ {0}
    BY <1>2, LengthOK
  <2>2. d[1] * s \in Int /\ d[2] * s \in Int
    <3>1. d[1] \in Int /\ d[2] \in Int
      BY DEF Points
    <3>. QED
      BY <3>1
  <2>3. Rounded(d[1] * s, Length(d)) \in Int /\ Rounded(d[2] * s, Length(d)) \in Int
    BY <2>1, <2>2, RoundedOK
  <2>. QED
    BY <1>2, <2>3 DEF Along, Points
<1>. QED
  BY <1>1, <1>2

LEMMA MovedOK ==
  ASSUME NEW p \in Points, NEW v \in Points, NEW percent \in Int
  PROVE  Moved(p, v, percent) \in Points
<1>1. p[1] \in Int /\ p[2] \in Int /\ v[1] \in Int /\ v[2] \in Int
  BY DEF Points
<1>2. 100 * p[1] + percent * v[1] \in Int /\ 100 * p[2] + percent * v[2] \in Int
  BY <1>1
<1>3. 100 \in Nat \ {0}
  OBVIOUS
<1>. QED
  BY <1>2, <1>3, RoundedOK DEF Moved, Points

\* A distance is the same both ways.
LEMMA NearSymmetric ==
  ASSUME NEW p \in Points, NEW q \in Points, NEW r
  PROVE  Near(p, q, r) <=> Near(q, p, r)
<1>1. p[1] \in Int /\ p[2] \in Int /\ q[1] \in Int /\ q[2] \in Int
  BY DEF Points
<1>2. \A a, b \in Int : (a - b) * (a - b) = (b - a) * (b - a)
  OBVIOUS
<1>3. Dot(Minus(p, q), Minus(p, q)) = Dot(Minus(q, p), Minus(q, p))
  BY <1>1, <1>2 DEF Dot, Minus
<1>. QED
  BY <1>3 DEF Near

-----------------------------------------------------------------------------
(* Obstacles                                                               *)

LEMMA PushedOK ==
  ASSUME NEW b \in Obstacles, NEW pos \in Points, NEW radius \in Nat
  PROVE  Pushed(b, pos, radius) \in Points
<1>. DEFINE q == Minus(pos, b.p)
            l == radius + Clearance
<1>1. b.p \in Points /\ l \in Int
  BY DEF Obstacles, Clearance
<1>2. q \in Points
  BY <1>1, PlusMinusOK
<1>3. CalcShift(b, pos, l) \in Points
  <2>. HIDE DEF l
  <2>. QED
    BY <1>1 DEF CalcShift, Points, DefaultVector
<1>4. Along(q, l) \in Points
  BY <1>1, <1>2, AlongOK
<1>5. Plus(pos, CalcShift(b, pos, l)) \in Points /\ Plus(pos, Along(q, l)) \in Points
  BY <1>3, <1>4, PlusMinusOK
<1>. QED
  BY <1>5 DEF Pushed

LEMMA HundredthsOK ==
  ASSUME NEW a \in Int, NEW c \in Nat \ {0}
  PROVE  Hundredths(<<a, c>>) \in Int
<1>1. \A e \in Int : e \div c \in Int
  OBVIOUS
<1>2. (-100 * a) \div c \in Int
  BY <1>1
<1>. QED
  BY <1>2 DEF Hundredths

LEMMA EntersOK ==
  ASSUME NEW o \in Int, NEW d \in Int \ {0}, NEW size \in Int
  PROVE  Hundredths(Enters(o, d, size)) \in Int
<1>1. CASE d >= 0
  BY <1>1, HundredthsOK DEF Enters
<1>2. CASE d < 0
  <2>1. -d \in Nat \ {0} /\ o - size \in Int /\ Enters(o, d, size) = <<o - size, -d>>
    BY <1>2 DEF Enters
  <2>. QED
    BY <2>1, HundredthsOK
<1>. QED
  BY <1>1, <1>2

LEMMA RectContactOK ==
  ASSUME NEW b \in Obstacles, NEW pos \in Points, NEW v \in Points, NEW radius \in Nat
  PROVE  RectContact(b, pos, v, radius) \in Int
<1>. DEFINE o    == Plus(Minus(pos, b.p), <<radius, radius>>)
            size == <<b.w + 2 * radius, b.h + 2 * radius>>
<1>1. b.p \in Points /\ <<radius, radius>> \in Points /\ size \in Points
  BY DEF Obstacles, Points
<1>2. o \in Points
  BY <1>1, PlusMinusOK
<1>3. /\ o[1] \in Int /\ o[2] \in Int /\ size[1] \in Int /\ size[2] \in Int
      /\ v[1] \in Int /\ v[2] \in Int
      /\ v = <<v[1], v[2]>>
  BY <1>1, <1>2 DEF Points
<1>. HIDE DEF o, size
<1>4. CASE v = Zero
  BY <1>4 DEF RectContact
<1>5. CASE v # Zero /\ v[1] = 0
  <2>1. v[2] # 0
    BY <1>3, <1>5 DEF Zero
  <2>2. Hundredths(Enters(o[2], v[2], size[2])) \in Int
    BY <1>3, <2>1, EntersOK
  <2>3. StraightIntersect(o, v, size, 2, 1) \in Int
    BY <2>2 DEF StraightIntersect
  <2>. QED
    BY <1>5, <2>3 DEF RectContact, o, size
<1>6. CASE v # Zero /\ v[1] # 0 /\ v[2] = 0
  <2>2. Hundredths(Enters(o[1], v[1], size[1])) \in Int
    BY <1>3, <1>6, EntersOK
  <2>3. StraightIntersect(o, v, size, 1, 2) \in Int
    BY <2>2 DEF StraightIntersect
  <2>. QED
    BY <1>6, <2>3 DEF RectContact, o, size
<1>7. CASE v # Zero /\ v[1] # 0 /\ v[2] # 0
  <2>1. /\ Hundredths(Enters(o[1], v[1], size[1])) \in Int
        /\ Hundredths(Enters(o[2], v[2], size[2])) \in Int
    BY <1>3, <1>7, EntersOK
  <2>2. RayBoxInternalIntersect(o, v, size) \in Int
    BY <2>1 DEF RayBoxInternalIntersect
  <2>. QED
    BY <1>7, <2>2 DEF RectContact, o, size
<1>. QED
  BY <1>4, <1>5, <1>6, <1>7

LEMMA CircleContactOK ==
  ASSUME NEW b, NEW pos, NEW v, NEW radius
  PROVE  CircleContact(b, pos, v, radius) \in Int
<1>. DEFINE d == Minus(pos, b.p)
            r == b.r + radius
            At(k) == LET e == Moved(d, v, k) IN Dot(e, e)
            reached == IF Dot(d, d) > r * r
                       THEN {k \in 0 .. 101 : At(k) <= r * r}
                       ELSE {k \in 0 .. 101 : At(-k) >= r * r}
            free == v = Zero \/ Dot(v, d) > 0 \/ reached = {}
<1>1. reached \subseteq Nat
  <2>1. 0 .. 101 \subseteq Nat
    OBVIOUS
  <2>. QED
    BY <2>1, Zenon
<1>2. CircleContact(b, pos, v, radius) =
        IF free THEN -1 ELSE CHOOSE k \in reached : \A l \in reached : k <= l
  BY DEF CircleContact
<1>3. ~free => reached # {}
  BY Zenon
<1>. HIDE DEF reached, free
<1>4. ~free => (CHOOSE k \in reached : \A l \in reached : k <= l) \in reached
  BY <1>1, <1>3, Least
<1>5. CASE free
  BY <1>2, <1>5
<1>6. CASE ~free
  <2>1. CircleContact(b, pos, v, radius) \in reached
    BY <1>2, <1>4, <1>6, Zenon
  <2>2. CircleContact(b, pos, v, radius) \in Nat
    BY <1>1, <2>1, Zenon
  <2>. QED
    BY <2>2
<1>. QED
  BY <1>5, <1>6

\* One turn of collisionDetection's loop keeps a place and a part of the velocity.
LEMMA MeetOK ==
  ASSUME NEW m \in Hits, NEW b \in Obstacles, NEW v \in Points, NEW radius \in Nat
  PROVE  Meet(m, b, v, radius) \in Hits
<1>. DEFINE pos == Pushed(b, m.pos, radius)
            t   == Contact(b, pos, v, radius)
<1>1. m.pos \in Points /\ m.t \in 0 .. 101
  BY DEF Hits
<1>2. pos \in Points
  BY <1>1, PushedOK
<1>. HIDE DEF pos
<1>3. t \in Int
  BY <1>2, RectContactOK, CircleContactOK DEF Contact
<1>. HIDE DEF t
<1>4. (IF 0 <= t /\ t <= 100 /\ t < m.t THEN t ELSE m.t) \in 0 .. 101
  BY <1>1, <1>3
<1>. QED
  BY <1>2, <1>4 DEF Meet, Hits, pos, t

-----------------------------------------------------------------------------
(* Nodes                                                                   *)

\* Replacing one node by another keeps a sequence of nodes.
LEMMA NodesExcept ==
  ASSUME NEW f, IsNodes(f), NEW i \in 1 .. Len(f), NEW n, NodeOK(n)
  PROVE  IsNodes([f EXCEPT ![i] = n]) /\ Len([f EXCEPT ![i] = n]) = Len(f)
<1>. DEFINE g == [f EXCEPT ![i] = n]
<1>1. Len(f) \in Nat \ {0} /\ DOMAIN f = 1 .. Len(f)
  BY DEF IsNodes
<1>2. g = [k \in 1 .. Len(f) |-> IF k = i THEN n ELSE f[k]]
  BY <1>1
<1>3. g = [k \in 1 .. Len(f) |-> g[k]]
  BY <1>2
<1>4. Len(g) = Len(f)
  BY <1>1, <1>3, LenOf
<1>5. \A k \in 1 .. Len(f) : NodeOK(g[k])
  BY <1>2 DEF IsNodes
<1>. HIDE DEF g
<1>6. IsNodes(g) /\ Len(g) = Len(f)
  BY <1>1, <1>3, <1>4, <1>5 DEF IsNodes
<1>. QED
  BY <1>6 DEF g

\* A node that is created.
LEMMA NewNodeOK ==
  ASSUME NEW kind \in Kinds, NEW p \in Points
  PROVE  NodeOK(NewNode(kind, p))
<1>1. Len(HotSpots) \in Nat
  BY MobilityAssumption, LenProperties
<1>2. Zero \in Points
  BY DEF Zero, Points
<1>. QED
  BY <1>1, <1>2 DEF NodeOK, NewNode, NodeFields, None

\* A sequence of new nodes.
LEMMA NewNodes ==
  ASSUME NEW n \in Nat \ {0}, NEW f, f = [k \in 1 .. n |-> f[k]],
         \A k \in 1 .. n : NodeOK(f[k])
  PROVE  IsNodes(f)
BY LenOf DEF IsNodes

\* Giving the roles changes nothing but the type of the nodes.
LEMMA RolesOK ==
  ASSUME NEW ns, IsNodes(ns)
  PROVE  IsNodes(RoleAssignament(ns)) /\ Len(RoleAssignament(ns)) = Len(ns)
<1>. DEFINE I  == GenerateIndMaximalSet(ns, 1 .. Len(ns))
            V  == (1 .. Len(ns)) \ I
            I1 == IF IsIndMaximal(ns, V) THEN {} ELSE GenerateIndMaximalSet(ns, V)
            g  == [k \in 1 .. Len(ns) |->
                     [ns[k] EXCEPT !.type = IF k \in I THEN 1
                                            ELSE IF k \in I1 THEN 2 ELSE 3]]
<1>1. g = RoleAssignament(ns)
  BY DEF RoleAssignament
<1>. HIDE DEF I, V, I1
<1>2. ASSUME NEW k \in 1 .. Len(ns)
      PROVE  NodeOK(g[k])
  <2>1. NodeOK(ns[k])
    BY DEF IsNodes
  <2>2. g[k] = [ns[k] EXCEPT !.type = g[k].type] /\ g[k].type \in 1 .. 3
    BY <2>1 DEF NodeOK, NodeFields
  <2>. HIDE DEF g
  <2>. QED
    BY <2>1, <2>2 DEF NodeOK, NodeFields
<1>3. Len(ns) \in Nat \ {0} /\ g = [k \in 1 .. Len(ns) |-> g[k]]
  BY DEF IsNodes
<1>. HIDE DEF g
<1>. QED
  BY <1>1, <1>2, <1>3, NewNodes, LenOf

-----------------------------------------------------------------------------
(* The roles                                                               *)

\* I is what GenerateIndMaximalSet promises of the nodes of S up to k.
Chosen(ns, S, k, I) ==
  /\ I \subseteq S \cap (1 .. k)
  /\ Independent(ns, I)
  /\ \A i \in S \cap (1 .. k) : i \in I \/ \E j \in I : IsVisible(ns, j, i)

\* The greedy pass takes a maximal set of nodes that do not see each other.
LEMMA GenerateOK ==
  ASSUME NEW ns, IsNodes(ns), NEW S \in SUBSET (1 .. Len(ns))
  PROVE  Chosen(ns, S, Len(ns), GenerateIndMaximalSet(ns, S))
<1>. DEFINE n == Len(ns)
            X == SUBSET (1 .. n)
            s == [k \in 1 .. n |-> [I \in X |-> Take(ns, S, I, k)]]
            Pass(f) == f = [k \in 0 .. n |-> IF k = 0 THEN {}
                                             ELSE Take(ns, S, f[k - 1], k)]
<1>1. n \in Nat
  BY DEF IsNodes
<1>. HIDE DEF n
<1>2. \A k \in 1 .. n, I \in X : Take(ns, S, I, k) \in X
  BY DEF Take
<1>3. PICK f \in [0 .. n -> X] : Pass(f)
  <2>1. s \in [1 .. n -> [X -> X]] /\ {} \in X
    BY <1>2
  <2>2. PICK f \in [0 .. n -> X] : Iterates(n, {}, s, f)
    <3>. HIDE DEF s, X
    <3>. QED
      BY <1>1, <2>1, IterateExists
  <2>3. ASSUME NEW k \in 0 .. n
        PROVE  f[k] = IF k = 0 THEN {} ELSE Take(ns, S, f[k - 1], k)
    <3>1. f[k] = IF k = 0 THEN {} ELSE s[k][f[k - 1]]
      <4>. HIDE DEF s
      <4>. QED
        BY <2>2 DEF Iterates
    <3>2. k # 0 => k \in 1 .. n /\ f[k - 1] \in X
      BY <1>1
    <3>. QED
      BY <3>1, <3>2
  <2>. QED
    BY <2>3
<1>. DEFINE F == CHOOSE h : Pass(h)
<1>4. Pass(F)
  BY <1>3
<1>5. GenerateIndMaximalSet(ns, S) = F[n]
  BY DEF GenerateIndMaximalSet, n
<1>. HIDE DEF F
<1>. DEFINE T == {k \in 0 .. n : Chosen(ns, S, k, F[k])}
<1>6. 0 \in T
  <2>1. F[0] = {} /\ 1 .. 0 = {}
    BY <1>1, <1>4
  <2>. QED
    BY <1>1, <2>1 DEF Chosen, Independent
<1>7. ASSUME NEW k \in 1 .. n, k - 1 \in T
      PROVE  k \in T
  <2>. DEFINE I == F[k - 1]
  <2>1. Chosen(ns, S, k - 1, I)
    BY <1>7
  <2>2. F[k] = Take(ns, S, I, k)
    <3>1. k \in 0 .. n /\ k # 0
      BY <1>1
    <3>. HIDE DEF T
    <3>2. F[k] = IF k = 0 THEN {} ELSE Take(ns, S, F[k - 1], k)
      BY <1>4, <3>1, Zenon
    <3>. QED
      BY <3>1, <3>2
  <2>. HIDE DEF I
  <2>3. 1 .. k = (1 .. k - 1) \cup {k} /\ k \in Nat /\ k \notin 1 .. k - 1
    BY <1>1
  <2>4. CASE k \in S /\ \A j \in I : ~IsVisible(ns, j, k)
    <3>1. F[k] = I \cup {k}
      BY <2>2, <2>4 DEF Take
    <3>2. \A j \in I : ~IsVisible(ns, k, j)
      <4>1. ASSUME NEW j \in I
            PROVE  IsVisible(ns, j, k) <=> IsVisible(ns, k, j)
        <5>1. j \in 1 .. n /\ k \in 1 .. n
          BY <1>1, <2>1 DEF Chosen
        <5>2. ns[j].pos \in Points /\ ns[k].pos \in Points
          BY <5>1 DEF IsNodes, NodeOK, n
        <5>. QED
          BY <5>2, NearSymmetric DEF IsVisible
      <4>. QED
        BY <2>4, <4>1
    <3>3. Independent(ns, F[k])
      BY <2>1, <2>4, <3>1, <3>2 DEF Chosen, Independent
    <3>4. Chosen(ns, S, k, F[k])
      BY <2>1, <2>3, <2>4, <3>1, <3>3 DEF Chosen
    <3>. QED
      BY <3>4
  <2>5. CASE ~(k \in S /\ \A j \in I : ~IsVisible(ns, j, k))
    <3>1. F[k] = I
      BY <2>2, <2>5 DEF Take
    <3>2. Chosen(ns, S, k, F[k])
      BY <2>1, <2>3, <2>5, <3>1 DEF Chosen
    <3>. QED
      BY <3>2
  <2>. QED
    BY <2>4, <2>5
<1>. HIDE DEF T
<1>8. \A k \in 0 .. n : k \in T
  <2>1. \A k \in 1 .. n : k - 1 \in T => k \in T
    BY <1>7
  <2>. QED
    BY <1>1, <1>6, <2>1, Upto
<1>9. n \in T
  BY <1>1, <1>8
<1>. QED
  BY <1>5, <1>9 DEF T, n

\* The roles given are right, whatever number of nodes there is.
LEMMA RolesGiven ==
  ASSUME NEW ns, IsNodes(ns)
  PROVE  RolesRight(RoleAssignament(ns))
<1>. DEFINE n  == Len(ns)
            N  == 1 .. n
            I  == GenerateIndMaximalSet(ns, N)
            V  == N \ I
            I1 == IF IsIndMaximal(ns, V) THEN {} ELSE GenerateIndMaximalSet(ns, V)
            g  == [k \in N |-> [ns[k] EXCEPT !.type = IF k \in I THEN 1
                                                      ELSE IF k \in I1 THEN 2 ELSE 3]]
<1>1. g = RoleAssignament(ns)
  BY DEF RoleAssignament
<1>2. I \subseteq N /\ MaximalIndependent(ns, I, N)
  BY GenerateOK DEF Chosen, MaximalIndependent
<1>3. IF Independent(ns, V) THEN I1 = {}
                            ELSE I1 \subseteq V /\ MaximalIndependent(ns, I1, V)
  <2>. DEFINE G == GenerateIndMaximalSet(ns, V)
  <2>1. G \subseteq V /\ MaximalIndependent(ns, G, V)
    <3>1. V \in SUBSET N /\ V \cap N = V
      OBVIOUS
    <3>2. Chosen(ns, V, n, G)
      BY <3>1, GenerateOK
    <3>. HIDE DEF V, G
    <3>. QED
      BY <3>1, <3>2 DEF Chosen, MaximalIndependent
  <2>2. IsIndMaximal(ns, V) <=> V # {} /\ Independent(ns, V)
    BY DEF IsIndMaximal, Independent
  <2>. HIDE DEF V, G
  <2>3. I1 = IF IsIndMaximal(ns, V) THEN {} ELSE G
    BY DEF G
  <2>. HIDE DEF I1
  <2>. QED
    BY <2>1, <2>2, <2>3
<1>4. ASSUME NEW k \in N
      PROVE  /\ g[k].pos = ns[k].pos
             /\ g[k].type = IF k \in I THEN 1 ELSE IF k \in I1 THEN 2 ELSE 3
  <2>1. DOMAIN ns[k] = NodeFields
    BY DEF IsNodes, NodeOK
  <2>. HIDE DEF I, I1
  <2>. QED
    BY <2>1 DEF NodeFields
<1>5. DOMAIN g = N
  OBVIOUS
<1>. HIDE DEF g, I, I1, N
<1>6. I1 \subseteq V
  BY <1>3
<1>7. Role(g, 1) = I /\ Role(g, 2) = I1 /\ Role(g, 2) \cup Role(g, 3) = V
  BY <1>2, <1>4, <1>5, <1>6 DEF Role
<1>8. \A j, k \in N : IsVisible(g, j, k) <=> IsVisible(ns, j, k)
  BY <1>4 DEF IsVisible
<1>9. \A S \in SUBSET N : Independent(g, S) <=> Independent(ns, S)
  BY <1>8 DEF Independent
<1>10. \A S, all \in SUBSET N :
         MaximalIndependent(g, S, all) <=> MaximalIndependent(ns, S, all)
  BY <1>8, <1>9 DEF MaximalIndependent
<1>11. I \in SUBSET N /\ I1 \in SUBSET N /\ V \in SUBSET N /\ N \in SUBSET N
  BY <1>2, <1>6
<1>. HIDE DEF V
<1>12. MaximalIndependent(g, I, N)
  BY <1>2, <1>10, <1>11
<1>13. IF Independent(g, V) THEN I1 = {} ELSE MaximalIndependent(g, I1, V)
  BY <1>3, <1>9, <1>10, <1>11
<1>14. RolesRight(g)
  BY <1>5, <1>7, <1>12, <1>13 DEF RolesRight
<1>. QED
  BY <1>1, <1>14

-----------------------------------------------------------------------------
(* Initial states                                                          *)

\* The nodes every model sets up.
LEMMA SetupOK ==
  ASSUME NEW m \in Models, NEW ns \in SetupNodes(m)
  PROVE  IsNodes(ns)
<1>1. m \in Kinds /\ NumNodes[m] \in Nat \ {0}
  BY MobilityAssumption
<1>2. ASSUME NEW kind \in Models
      PROVE  IsNodes(Diagonal(kind)) /\ Len(Diagonal(kind)) = NumNodes[kind]
  <2>. DEFINE p(k) == <<1000 * (4 + k), 1000 * (4 + k)>>
              d    == [k \in 1 .. NumNodes[kind] |-> NewNode(kind, p(k))]
  <2>1. kind \in Kinds /\ NumNodes[kind] \in Nat \ {0} /\ d = Diagonal(kind)
    BY MobilityAssumption DEF Diagonal
  <2>2. ASSUME NEW k \in 1 .. NumNodes[kind]
        PROVE  NodeOK(d[k])
    <3>1. p(k) \in Points
      BY <2>1 DEF Points
    <3>2. NodeOK(NewNode(kind, p(k)))
      BY <2>1, <3>1, NewNodeOK
    <3>. QED
      BY <3>2
  <2>3. d = [k \in 1 .. NumNodes[kind] |-> d[k]]
    OBVIOUS
  <2>. HIDE DEF d
  <2>. QED
    BY <2>1, <2>2, <2>3, NewNodes, LenOf
<1>3. CASE m = "RandomWalk"
  <2>. DEFINE full == NumNodes["RandomWalk"] \div GroupSize
              rows == IF full = 0 THEN 1 ELSE full
              p(k) == <<1000 * (((k - 1) % GroupSize) + 25),
                        1000 * (((k - 1) \div GroupSize) + 25)>>
              n    == rows * GroupSize
              d    == [k \in 1 .. n |-> NewNode("RandomWalk", p(k))]
  <2>1. ns = d
    BY <1>3 DEF SetupNodes, Rows
  <2>2. GroupSize \in Nat \ {0} /\ full \in Nat
    <3>1. NumNodes["RandomWalk"] \in Nat /\ GroupSize \in Nat \ {0}
      BY <1>1, <1>3, MobilityAssumption
    <3>2. \A a \in Nat, b \in Nat \ {0} : a \div b \in Nat
      OBVIOUS
    <3>. QED
      BY <3>1, <3>2
  <2>3. n \in Nat \ {0}
    <3>1. \A a, b \in Nat \ {0} : a * b \in Nat \ {0}
      OBVIOUS
    <3>2. rows \in Nat \ {0}
      BY <2>2
    <3>. HIDE DEF rows
    <3>. QED
      BY <2>2, <3>1, <3>2
  <2>4. ASSUME NEW k \in 1 .. n
        PROVE  NodeOK(d[k])
    <3>1. k - 1 \in Nat
      BY <2>3
    <3>2. (k - 1) % GroupSize \in Int /\ (k - 1) \div GroupSize \in Int
      <4>1. \A a \in Nat, b \in Nat \ {0} : a % b \in Int /\ a \div b \in Int
        OBVIOUS
      <4>. QED
        BY <2>2, <3>1, <4>1
    <3>3. p(k) \in Points
      BY <3>2 DEF Points
    <3>4. NodeOK(NewNode("RandomWalk", p(k)))
      BY <3>3, NewNodeOK DEF Kinds, WalkKinds
    <3>. HIDE DEF n
    <3>. QED
      BY <3>4
  <2>5. d = [k \in 1 .. n |-> d[k]]
    OBVIOUS
  <2>. HIDE DEF d, n
  <2>. QED
    BY <2>1, <2>3, <2>4, <2>5, NewNodes
<1>4. CASE m = "Pursue"
  <2>. DEFINE a == NewNode("PursueTarget", <<15000, 10000>>)
              d == Diagonal("Pursue")
              S == {a} \cup {d[k] : k \in 1 .. Len(d)}
              s == <<a>> \o d
  <2>1. ns = s /\ IsNodes(d)
    BY <1>2, <1>4 DEF SetupNodes
  <2>2. NodeOK(a)
    BY NewNodeOK DEF Kinds, WaypointKinds, Points
  <2>3. \A e \in S : NodeOK(e)
    BY <2>1, <2>2 DEF IsNodes
  <2>4. <<a>> \in Seq(S) /\ Len(<<a>>) = 1
    OBVIOUS
  <2>5. d \in Seq(S) /\ Len(d) \in Nat
    <3>. HIDE DEF d
    <3>1. d \in [1 .. Len(d) -> S] /\ Len(d) \in Nat
      BY <2>1 DEF IsNodes
    <3>. QED
      BY <3>1, SeqDef
  <2>. HIDE DEF S, a, d
  <2>6. s \in Seq(S) /\ Len(s) = 1 + Len(d)
    BY <2>4, <2>5, ConcatProperties
  <2>. HIDE DEF s
  <2>7. s \in [1 .. Len(s) -> S]
    BY <2>6, LenProperties
  <2>. QED
    BY <2>1, <2>3, <2>5, <2>6, <2>7 DEF IsNodes
<1>5. CASE m \in {"RandomWalkMessage", "RandomWaypointMessage"}
  <2>1. PICK f \in [1 .. NumNodes[m] -> Places] :
          ns = [k \in 1 .. NumNodes[m] |-> NewNode(m, f[k])]
    BY <1>5 DEF SetupNodes
  <2>2. \A k \in 1 .. NumNodes[m] : f[k] \in Points
    <3>1. Places \subseteq Points
      BY MobilityAssumption DEF Points
    <3>. QED
      BY <3>1
  <2>4. \A k \in 1 .. NumNodes[m] : NodeOK(ns[k])
    BY <1>1, <2>1, <2>2, NewNodeOK
  <2>3. ns = [k \in 1 .. NumNodes[m] |-> ns[k]]
    BY <2>1
  <2>. QED
    BY <1>1, <2>3, <2>4, NewNodes
<1>6. CASE m \notin {"RandomWalk", "Pursue", "RandomWalkMessage", "RandomWaypointMessage"}
  BY <1>2, <1>6 DEF SetupNodes
<1>. QED
  BY <1>3, <1>4, <1>5, <1>6

\* The diagonal's nodes, where they are.
LEMMA DiagonalAt ==
  ASSUME NEW kind \in Models, NEW k \in 1 .. NumNodes[kind]
  PROVE  /\ DOMAIN Diagonal(kind) = 1 .. NumNodes[kind]
         /\ Diagonal(kind)[k].pos[1] = 1000 * (4 + k)
         /\ Diagonal(kind)[k].pos[2] = 1000 * (4 + k)
BY DEF Diagonal, NewNode

\* On the diagonal the comparison of y with xMin does no harm, whatever the
\* number of nodes.
LEMMA MiddleOK ==
  ASSUME NEW kind \in Models
  PROVE  /\ MiddlePoint(Diagonal(kind)) \in Points
         /\ Centre(Diagonal(kind), MiddlePoint(Diagonal(kind)))
<1>. DEFINE ns == Diagonal(kind)
            n  == Len(ns)
            at(k) == 1000 * (4 + k)
            last(k) == IF k = 0 THEN at(1) ELSE at(k)
            box(k) == [xMin |-> at(1), xMax |-> last(k), yMin |-> at(1), yMax |-> last(k)]
            first == ns[1].pos
            Pass(f) == f = [k \in 0 .. n |->
                              IF k = 0 THEN [xMin |-> first[1], xMax |-> first[1],
                                             yMin |-> first[2], yMax |-> first[2]]
                              ELSE Grow(f[k - 1], ns[k].pos)]
            B == CHOOSE f : Pass(f)
            mid == (at(1) + at(n)) \div 2
<1>1. n \in Nat \ {0} /\ n = NumNodes[kind]
  <2>1. NumNodes[kind] \in Nat \ {0}
    BY MobilityAssumption
  <2>2. ns = [k \in 1 .. NumNodes[kind] |-> ns[k]]
    BY DEF Diagonal
  <2>. HIDE DEF ns
  <2>. QED
    BY <2>1, <2>2, LenOf
<1>2. /\ DOMAIN ns = 1 .. n
      /\ \A k \in 1 .. n : ns[k].pos[1] = at(k) /\ ns[k].pos[2] = at(k)
  <2>1. 1 \in 1 .. n
    BY <1>1
  <2>. QED
    BY <1>1, <2>1, DiagonalAt
<1>3. MiddlePoint(ns) = <<(B[n].xMin + B[n].xMax) \div 2, (B[n].yMin + B[n].yMax) \div 2>>
  BY DEF MiddlePoint
<1>. HIDE DEF ns, n
<1>4. ASSUME NEW k \in 1 .. n
      PROVE  box(k) = Grow(box(k - 1), ns[k].pos)
  <2>1. ns[k].pos[1] = at(k) /\ ns[k].pos[2] = at(k) /\ k \in Nat \ {0}
    BY <1>1, <1>2
  <2>2. /\ at(1) \in Nat /\ at(k) \in Nat /\ last(k - 1) \in Nat
        /\ at(1) <= at(k) /\ last(k) = at(k)
        /\ (k = 1 => last(k - 1) = at(k)) /\ (k # 1 => last(k - 1) < at(k))
    BY <2>1
  <2>. HIDE DEF at, last
  <2>. QED
    BY <2>1, <2>2 DEF Grow
<1>5. \E f : Pass(f)
  <2>. DEFINE f == [k \in 0 .. n |-> box(k)]
  <2>1. ASSUME NEW k \in 0 .. n
        PROVE  f[k] = IF k = 0 THEN [xMin |-> first[1], xMax |-> first[1],
                                     yMin |-> first[2], yMax |-> first[2]]
                      ELSE Grow(f[k - 1], ns[k].pos)
    <3>1. CASE k = 0
      <4>1. first[1] = at(1) /\ first[2] = at(1)
        BY <1>1, <1>2
      <4>. HIDE DEF first
      <4>. QED
        BY <3>1, <4>1
    <3>2. CASE k # 0
      <4>1. k \in 1 .. n /\ k - 1 \in 0 .. n
        BY <1>1, <3>2
      <4>2. f[k] = box(k) /\ f[k - 1] = box(k - 1)
        BY <4>1
      <4>. HIDE DEF f, box, first
      <4>. QED
        BY <1>4, <3>2, <4>1, <4>2
    <3>. QED
      BY <3>1, <3>2
  <2>2. f = [k \in 0 .. n |-> f[k]]
    OBVIOUS
  <2>. HIDE DEF f, first
  <2>3. Pass(f)
    BY <2>1, <2>2
  <2>. QED
    BY <2>3
<1>6. Pass(B)
  BY <1>5
<1>7. \A k \in 0 .. n : B[k] = box(k)
  <2>. DEFINE T == {k \in 0 .. n : B[k] = box(k)}
  <2>. HIDE DEF B
  <2>1. 0 \in T
    <3>1. 0 \in 0 .. n /\ 1 \in 1 .. n
      BY <1>1
    <3>2. first[1] = at(1) /\ first[2] = at(1)
      BY <1>2, <3>1
    <3>. HIDE DEF first
    <3>3. B[0] = box(0)
      BY <1>6, <3>1, <3>2
    <3>. QED
      BY <3>1, <3>3
  <2>2. ASSUME NEW k \in 1 .. n, k - 1 \in T
        PROVE  k \in T
    <3>1. k \in 0 .. n /\ k # 0
      BY <1>1
    <3>2. B[k - 1] = box(k - 1)
      BY <2>2
    <3>. HIDE DEF T, box, first
    <3>3. B[k] = Grow(B[k - 1], ns[k].pos)
      BY <1>6, <3>1
    <3>. QED
      BY <1>4, <3>1, <3>2, <3>3 DEF T
  <2>. HIDE DEF T, box
  <2>3. \A k \in 1 .. n : k - 1 \in T => k \in T
    BY <2>2
  <2>4. \A k \in 0 .. n : k \in T
    BY <1>1, <2>1, <2>3, Upto
  <2>. QED
    BY <2>4 DEF T
<1>. HIDE DEF B
<1>8. MiddlePoint(ns) = <<mid, mid>> /\ mid \in Int
  <2>1. n \in 0 .. n /\ n # 0
    BY <1>1
  <2>2. B[n] = box(n)
    BY <1>7, <2>1
  <2>3. /\ B[n].xMin = at(1) /\ B[n].xMax = at(n)
        /\ B[n].yMin = at(1) /\ B[n].yMax = at(n)
    BY <2>1, <2>2
  <2>4. \A a \in Int : a \div 2 \in Int
    OBVIOUS
  <2>5. at(1) + at(n) \in Int
    BY <1>1
  <2>. HIDE DEF at
  <2>. QED
    BY <1>3, <2>3, <2>4, <2>5
<1>. HIDE DEF mid
<1>9. Centre(ns, <<mid, mid>>)
  <2>1. 1 \in 1 .. n /\ n \in 1 .. n
    BY <1>1
  <2>2. \A k \in 1 .. n : at(1) <= at(k) /\ at(k) <= at(n)
    BY <1>1
  <2>3. ASSUME NEW axis \in 1 .. 2
        PROVE  /\ <<mid, mid>>[axis] = mid
               /\ \A k \in 1 .. n : ns[k].pos[axis] = at(k)
    <3>. HIDE DEF at
    <3>1. axis = 1 \/ axis = 2
      OBVIOUS
    <3>. QED
      BY <1>2, <3>1
  <2>. HIDE DEF at
  <2>. QED
    BY <1>2, <2>1, <2>2, <2>3 DEF Centre, mid
<1>. QED
  BY <1>8, <1>9 DEF Points, ns

LEMMA InitInv == Init => Inv
<1>. SUFFICES ASSUME Init PROVE Inv
  OBVIOUS
<1>1. PICK ns \in SetupNodes(model) :
        /\ nodes = IF model = "Era" THEN RoleAssignament(ns) ELSE ns
        /\ reference = [pos |-> IF model \in {"Era", "Nomadic"}
                                THEN MiddlePoint(ns) ELSE Zero,
                        target |-> Zero, pause |-> TRUE, localTime |-> 0,
                        colorTime |-> 0]
  BY DEF Init
<1>2. model \in Models /\ phase = "models" /\ turn = 1 /\ loop = 0
  BY DEF Init
<1>3. IsNodes(nodes)
  BY <1>1, <1>2, SetupOK, RolesOK
<1>4. Loops[model] \in Nat
  BY <1>2, MobilityAssumption
<1>5. IsReference(reference)
  <2>1. model \in {"Era", "Nomadic"} => ns = Diagonal(model)
    BY <1>1 DEF SetupNodes
  <2>2. reference.pos \in Points /\ Zero \in Points
    <3>1. Zero \in Points
      BY DEF Zero, Points
    <3>. QED
      BY <1>1, <1>2, <2>1, <3>1, MiddleOK
  <2>. QED
    BY <1>1, <2>2 DEF IsReference
<1>. QED
  BY <1>2, <1>3, <1>4, <1>5 DEF Inv, IsNodes

-----------------------------------------------------------------------------
(* Steps                                                                   *)

\* The next turn is a node's, and the phase changes after the last node.
LEMMA NextTurnOK ==
  ASSUME NEW next, turn \in 1 .. Len(nodes), Len(nodes) \in Nat \ {0},
         Len(nodes') = Len(nodes), NextTurn(next)
  PROVE  turn' \in 1 .. Len(nodes') /\ phase' \in {phase, next}
BY DEF NextTurn

\* Advancing the local time of a node changes nothing else of it.
LEMMA TimeOK ==
  ASSUME NEW n, NodeOK(n), NEW t
  PROVE  NodeOK([n EXCEPT !.localTime = t])
BY DEF NodeOK, NodeFields

\* A node that thinks and stays in order keeps the invariant.
LEMMA ThinksInv ==
  ASSUME Inv, phase = "think", NEW n, NodeOK(n), Thinks(n)
  PROVE  Inv'
<1>. DEFINE t == IF n.kind \in FollowKinds THEN n.localTime ELSE n.localTime + 1
            m == [n EXCEPT !.localTime = t]
<1>1. nodes' = [nodes EXCEPT ![turn] = m]
  BY DEF Thinks, NodeOK, NodeFields
<1>2. NodeOK(m)
  BY TimeOK
<1>. HIDE DEF m
<1>3. IsNodes(nodes') /\ Len(nodes') = Len(nodes)
  BY <1>1, <1>2, NodesExcept DEF Inv
<1>4. NextTurn("move") /\ UNCHANGED <<model, reference, loop>>
  BY DEF Thinks
<1>5. turn' \in 1 .. Len(nodes') /\ phase' \in {phase, "move"}
  BY <1>3, <1>4, NextTurnOK DEF Inv, IsNodes
<1>. QED
  BY <1>3, <1>4, <1>5 DEF Inv

\* A step towards a target is a vector of integers.
LEMMA StepOK ==
  ASSUME NEW p \in Points, NEW target \in Points, NEW l \in Int
  PROVE  Step(p, target, l) \in Points
<1>1. Minus(target, p) \in Points
  BY PlusMinusOK
<1>. QED
  BY <1>1, AlongOK DEF Step

LEMMA RefMovesOK ==
  ASSUME NEW r, IsReference(r), NEW q \in RefMoves(r)
  PROVE  IsReference(q) /\ q.colorTime = r.colorTime
<1>1. PICK l \in Draws(RefMin, RefMax) :
        LET p == Plus(r.pos, Step(r.pos, r.target, l))
            arrived == Near(p, r.target, 1000)
        IN  q = [r EXCEPT !.pos = p, !.pause = @ \/ arrived,
                          !.localTime = (IF arrived THEN 0 ELSE @) + 1]
  BY DEF RefMoves
<1>. DEFINE p == Plus(r.pos, Step(r.pos, r.target, l))
            arrived == Near(p, r.target, 1000)
<1>2. l \in Int
  BY MobilityAssumption DEF Draws
<1>3. p \in Points
  BY <1>2, StepOK, PlusMinusOK DEF IsReference
<1>4. q = [r EXCEPT !.pos = p, !.pause = @ \/ arrived,
                    !.localTime = (IF arrived THEN 0 ELSE @) + 1]
  BY <1>1
<1>. HIDE DEF p, arrived
<1>. QED
  BY <1>3, <1>4 DEF IsReference

\* The reference point's walk keeps it on the grid and off the colouring's clock.
LEMMA ReferenceOK ==
  ASSUME NEW r, IsReference(r), NEW q \in MoveReferencePoint(r)
  PROVE  IsReference(q) /\ q.colorTime = r.colorTime
<1>1. CASE ~r.pause
  BY <1>1, RefMovesOK DEF MoveReferencePoint
<1>2. CASE r.pause /\ r.localTime > RefPause
  <2>1. PICK t \in Targets : q \in RefMoves([r EXCEPT !.pause = FALSE, !.target = t])
    BY <1>2 DEF MoveReferencePoint
  <2>. DEFINE r1 == [r EXCEPT !.pause = FALSE, !.target = t]
  <2>2. t \in Points
    BY MobilityAssumption DEF Points
  <2>3. IsReference(r1) /\ r1.colorTime = r.colorTime
    BY <2>2 DEF IsReference
  <2>. HIDE DEF r1
  <2>. QED
    BY <2>1, <2>3, RefMovesOK DEF r1
<1>3. CASE r.pause /\ ~(r.localTime > RefPause)
  <2>1. q = [r EXCEPT !.localTime = @ + 1]
    BY <1>3 DEF MoveReferencePoint
  <2>. QED
    BY <2>1 DEF IsReference
<1>. QED
  BY <1>1, <1>2, <1>3

\* The colouring's clock is at one when the roles have been given in this step,
\* and never again at zero.
LEMMA EraThinkOK ==
  ASSUME Inv, EraThink
  PROVE  /\ IsReference(reference') /\ reference'.colorTime # 0
         /\ reference'.colorTime = 1 =>
              \/ reference.colorTime = 0 /\ nodes' = nodes
              \/ nodes' = RoleAssignament(nodes)
<1>. DEFINE due == reference.colorTime > ColorInterval
            c == (IF due THEN 0 ELSE reference.colorTime) + 1
            r == [reference EXCEPT !.colorTime = c]
<1>1. IsReference(reference) /\ reference.colorTime \in Nat
  BY DEF Inv, IsReference
<1>2. reference' \in MoveReferencePoint(r)
  BY <1>1 DEF EraThink, IsReference
<1>3. c \in Nat \ {0} /\ (c = 1 => due \/ reference.colorTime = 0)
  BY <1>1
<1>4. nodes' = IF due THEN RoleAssignament(nodes) ELSE nodes
  BY DEF EraThink
<1>. HIDE DEF c, due
<1>5. IsReference(r) /\ r.colorTime = c
  BY <1>1, <1>3 DEF IsReference
<1>. HIDE DEF r
<1>6. IsReference(reference') /\ reference'.colorTime = c
  BY <1>2, <1>5, ReferenceOK
<1>. QED
  BY <1>3, <1>4, <1>6

\* The models' thinking changes at most the roles.
LEMMA ThinkModelsInv ==
  ASSUME Inv, ThinkModels
  PROVE  Inv'
<1>1. IsNodes(nodes') /\ Len(nodes') = Len(nodes)
  BY RolesOK DEF Inv, ThinkModels, EraThink, NomadicThink
<1>2. phase = "models" /\ phase' = "think" /\ loop < Loops[model]
      /\ UNCHANGED <<model, turn, loop>>
  BY DEF ThinkModels
<1>3. IsReference(reference')
  BY EraThinkOK, ReferenceOK DEF Inv, ThinkModels, NomadicThink
<1>. QED
  BY <1>1, <1>2, <1>3 DEF Inv

\* What a node draws.
LEMMA DrawsOK ==
  ASSUME NEW n, NodeOK(n)
  PROVE  SpeedRange(n) \subseteq Nat /\ RandomVector(n) \subseteq Points
<1>1. VMin[n.kind] \in Nat /\ VMax[n.kind] \in Nat
  BY MobilityAssumption DEF NodeOK
<1>2. SpeedRange(n) \subseteq Nat
  BY <1>1 DEF SpeedRange, Draws
<1>3. Signed(SpeedRange(n)) \subseteq Int
  BY <1>2 DEF Signed
<1>. QED
  BY <1>2, <1>3 DEF RandomVector, Points

\* The node moveToTarget leaves: it may have come to a pause, never out of one.
LEMMA MoveToTargetOK ==
  ASSUME NEW n, NodeOK(n), NEW target \in Points, NEW m \in MoveToTarget(n, target)
  PROVE  NodeOK(m)
<1>1. PICK s \in SpeedRange(n) :
        LET v == Step(n.pos, target, s)
            arrived == Near(Plus(n.pos, v), target, Radius[n.kind])
        IN  m = [n EXCEPT !.v = v, !.pause = @ \/ arrived,
                          !.localTime = IF arrived THEN 0 ELSE @]
  BY DEF MoveToTarget
<1>. DEFINE v == Step(n.pos, target, s)
            arrived == Near(Plus(n.pos, v), target, Radius[n.kind])
<1>2. /\ DOMAIN m = NodeFields
      /\ m.kind = n.kind /\ m.collided = n.collided /\ m.type = n.type
      /\ m.spot = n.spot /\ m.pos = n.pos /\ m.target = n.target
      /\ m.v = v
      /\ m.pause = (n.pause \/ arrived)
  <2>. HIDE DEF v, arrived
  <2>1. m = [n EXCEPT !.v = v, !.pause = @ \/ arrived,
                      !.localTime = IF arrived THEN 0 ELSE @]
    BY <1>1 DEF v, arrived
  <2>. QED
    BY <2>1 DEF NodeOK, NodeFields
<1>3. m.pause \in BOOLEAN /\ (~m.pause => ~n.pause)
  <2>. HIDE DEF arrived
  <2>. QED
    BY <1>2
<1>4. v \in Points
  <2>1. s \in Int /\ n.pos \in Points
    BY DrawsOK DEF NodeOK
  <2>. QED
    BY <2>1, StepOK
<1>. HIDE DEF v, arrived
<1>. QED
  BY <1>2, <1>3, <1>4 DEF NodeOK

\* The spot a node sets off to is one of the scenario's.
LEMMA NextSpotOK ==
  ASSUME NEW n, NodeOK(n), NEW next \in NextSpot(n)
  PROVE  next \in 1 .. Len(HotSpots)
<1>1. Len(HotSpots) \in Nat
  BY MobilityAssumption, LenProperties
<1>2. CASE n.spot = None
  BY <1>2 DEF NextSpot, NearestSpot
<1>3. CASE n.spot # None
  <2>1. next = HotSpots[n.spot].next /\ next # None
    BY <1>3 DEF NextSpot
  <2>2. n.spot \in 1 .. Len(HotSpots)
    BY <1>1, <1>3 DEF NodeOK, None
  <2>3. next \in 0 .. Len(HotSpots)
    BY <2>1, <2>2, MobilityAssumption
  <2>. QED
    BY <1>1, <2>1, <2>3 DEF None
<1>. QED
  BY <1>2, <1>3

LEMMA ZeroOK == Zero \in Points
BY DEF Zero, Points

LEMMA SpotOK ==
  ASSUME NEW h \in 1 .. Len(HotSpots)
  PROVE  HotSpots[h].p \in Points
<1>1. HotSpots \in Seq([p : Points, next : Nat])
  BY MobilityAssumption DEF Points
<1>2. HotSpots[h] \in [p : Points, next : Nat]
  BY <1>1, ElementOfSeq
<1>. QED
  BY <1>2

\* Whatever a node does when it thinks, it stays in order.
LEMMA ThinkInv ==
  ASSUME Inv,
         Bounce \/ NewHeading \/ KeepHeading \/ Follow \/ Rest \/ SetOff
           \/ SetOffToSpot \/ DeadEnd \/ Walk \/ WalkToSpot
  PROVE  Inv'
<1>. DEFINE n == nodes[turn]
<1>1. NodeOK(n)
  BY DEF Inv, IsNodes
<1>2. phase = "think"
  BY DEF Bounce, NewHeading, KeepHeading, Follow, Rest, SetOff, SetOffToSpot,
         DeadEnd, Walk, WalkToSpot, Thinking
<1>3. ASSUME NEW u \in Points PROVE NodeOK([n EXCEPT !.v = u])
  <2>. HIDE DEF n
  <2>. QED
    BY <1>1 DEF NodeOK, NodeFields
<1>4. ASSUME NEW u \in Points PROVE NodeOK([n EXCEPT !.v = u, !.localTime = 0])
  <2>. HIDE DEF n
  <2>. QED
    BY <1>1 DEF NodeOK, NodeFields
<1>5. CASE Bounce
  BY <1>1, <1>2, <1>3, <1>5, DrawsOK, ThinksInv DEF Bounce
<1>6. CASE NewHeading
  BY <1>1, <1>2, <1>4, <1>6, DrawsOK, ThinksInv DEF NewHeading
<1>7. CASE KeepHeading
  BY <1>1, <1>2, <1>7, ThinksInv DEF KeepHeading
<1>8. CASE Follow
  <2>. DEFINE ref == IF model = "Pursue" THEN nodes[1].pos ELSE reference.pos
              Blend(s, u, axis) ==
                Rounded(AlphaPercent * Along(Minus(ref, n.pos), s)[axis]
                          + (100 - AlphaPercent) * Rounded(s * u[axis], 1000), 100)
  <2>1. PICK s \in SpeedRange(n), u \in RandomVector(n) :
          Thinks([n EXCEPT !.v = <<Blend(s, u, 1), Blend(s, u, 2)>>])
    BY <1>8 DEF Follow
  <2>2. ref \in Points /\ n.pos \in Points
    <3>1. 1 \in 1 .. Len(nodes) /\ reference.pos \in Points
      BY DEF Inv, IsNodes, IsReference
    <3>. QED
      BY <1>1, <3>1 DEF Inv, IsNodes, NodeOK
  <2>. DEFINE a == Along(Minus(ref, n.pos), s)
  <2>3. s \in Int /\ u \in Points
    BY <1>1, DrawsOK
  <2>4. a \in Points
    <3>1. Minus(ref, n.pos) \in Points
      BY <2>2, PlusMinusOK
    <3>. QED
      BY <2>3, <3>1, AlongOK
  <2>5. ASSUME NEW axis \in 1 .. 2
        PROVE  Blend(s, u, axis) \in Int
    <3>. HIDE DEF a
    <3>1. a[axis] \in Int /\ u[axis] \in Int
      BY <2>3, <2>4 DEF Points
    <3>2. 100 \in Nat \ {0} /\ 1000 \in Nat \ {0}
      OBVIOUS
    <3>3. s * u[axis] \in Int
      BY <2>3, <3>1
    <3>4. Rounded(s * u[axis], 1000) \in Int
      BY <3>2, <3>3, RoundedOK
    <3>5. AlphaPercent \in Int
      BY MobilityAssumption
    <3>6. AlphaPercent * a[axis] + (100 - AlphaPercent) * Rounded(s * u[axis], 1000) \in Int
      BY <3>1, <3>4, <3>5
    <3>. QED
      BY <3>2, <3>6, RoundedOK DEF a
  <2>6. <<Blend(s, u, 1), Blend(s, u, 2)>> \in Points
    BY <2>5 DEF Points
  <2>. QED
    BY <1>2, <1>3, <2>1, <2>6, ThinksInv
<1>9. CASE Rest
  BY <1>2, <1>3, <1>9, ZeroOK, ThinksInv DEF Rest
<1>10. CASE SetOff
  <2>1. PICK t \in Targets :
          \E m \in MoveToTarget([n EXCEPT !.pause = FALSE, !.target = t], t) : Thinks(m)
    BY <1>10 DEF SetOff
  <2>2. n.kind \notin {"HotSpot", "Era"}
    BY <1>10 DEF SetOff, Thinking, Behaviour, WaypointKinds
  <2>3. t \in Points
    BY MobilityAssumption DEF Points
  <2>4. NodeOK([n EXCEPT !.pause = FALSE, !.target = t])
    <3>. HIDE DEF n
    <3>. QED
      BY <1>1, <2>2, <2>3 DEF NodeOK, NodeFields
  <2>. QED
    BY <1>2, <2>1, <2>3, <2>4, MoveToTargetOK, ThinksInv
<1>11. CASE SetOffToSpot
  <2>1. PICK next \in NextSpot(n) :
          \E m \in MoveToTarget([n EXCEPT !.pause = FALSE, !.spot = next],
                                HotSpots[next].p) : Thinks(m)
    BY <1>11 DEF SetOffToSpot
  <2>2. next \in 1 .. Len(HotSpots) /\ Len(HotSpots) \in Nat
    BY <1>1, NextSpotOK, MobilityAssumption, LenProperties
  <2>3. NodeOK([n EXCEPT !.pause = FALSE, !.spot = next])
    <3>. HIDE DEF n
    <3>. QED
      BY <1>1, <2>2 DEF NodeOK, NodeFields, None
  <2>. QED
    BY <1>2, <2>1, <2>2, <2>3, SpotOK, MoveToTargetOK, ThinksInv
<1>12. CASE DeadEnd
  <2>1. n.pause /\ Thinks([n EXCEPT !.spot = None])
    BY <1>12 DEF DeadEnd, PauseOver
  <2>2. NodeOK([n EXCEPT !.spot = None])
    <3>1. Len(HotSpots) \in Nat
      BY MobilityAssumption, LenProperties
    <3>. DEFINE m == [n EXCEPT !.spot = None]
    <3>. HIDE DEF n
    <3>2. /\ DOMAIN m = NodeFields /\ m.spot = 0
          /\ m.pos = n.pos /\ m.v = n.v /\ m.target = n.target
          /\ m.kind = n.kind /\ m.type = n.type
          /\ m.pause = n.pause /\ m.collided = n.collided
      BY <1>1 DEF NodeOK, NodeFields, None
    <3>. HIDE DEF m
    <3>3. NodeOK(m)
      BY <1>1, <2>1, <3>1, <3>2 DEF NodeOK
    <3>. QED
      BY <3>3 DEF m
  <2>. QED
    BY <1>2, <2>1, <2>2, ThinksInv
<1>13. CASE Walk
  BY <1>1, <1>2, <1>13, MoveToTargetOK, ThinksInv DEF Walk, NodeOK
<1>14. CASE WalkToSpot
  <2>1. PICK m \in MoveToTarget(n, HotSpots[n.spot].p) : Thinks(m)
    BY <1>14 DEF WalkToSpot
  <2>2. n.kind \in {"HotSpot", "Era"} /\ ~n.pause
    BY <1>1, <1>14 DEF WalkToSpot, UnderWay, Thinking, Behaviour
  <2>3. n.spot \in 1 .. Len(HotSpots) /\ Len(HotSpots) \in Nat
    BY <1>1, <2>2, MobilityAssumption, LenProperties, SMTT(40) DEF NodeOK, None
  <2>. QED
    BY <1>1, <1>2, <2>1, <2>3, SpotOK, MoveToTargetOK, ThinksInv
<1>. QED
  BY <1>5, <1>6, <1>7, <1>8, <1>9, <1>10, <1>11, <1>12, <1>13, <1>14

-----------------------------------------------------------------------------
(* The physics                                                             *)

\* The other nodes are discs.
LEMMA OtherNodesOK ==
  ASSUME NEW ns, Len(ns) \in Nat, NEW i \in 1 .. Len(ns), NEW S,
         \A k \in 1 .. Len(ns) : NodeDisc(ns[k].pos, Radius[ns[k].kind]) \in S
  PROVE  OtherNodes(ns, i) \in Seq(S)
<1>. DEFINE disc(k) == NodeDisc(ns[k].pos, Radius[ns[k].kind])
            below == [k \in 1 .. i - 1 |-> disc(k)]
            above == [k \in 1 .. Len(ns) - i |-> disc(i + k)]
<1>1. \A k \in 1 .. Len(ns) : disc(k) \in S
  OBVIOUS
<1>2. OtherNodes(ns, i) = below \o above
  BY DEF OtherNodes
<1>. HIDE DEF disc
<1>3. below \in Seq(S)
  <2>1. \A k \in 1 .. i - 1 : k \in 1 .. Len(ns)
    OBVIOUS
  <2>2. below \in [1 .. i - 1 -> S] /\ i - 1 \in Int
    BY <1>1, <2>1
  <2>. HIDE DEF below
  <2>. QED
    BY <2>2, FunctionIsSeq
<1>4. above \in Seq(S)
  <2>1. \A k \in 1 .. Len(ns) - i : i + k \in 1 .. Len(ns)
    OBVIOUS
  <2>2. above \in [1 .. Len(ns) - i -> S] /\ Len(ns) - i \in Int
    BY <1>1, <2>1
  <2>. HIDE DEF above
  <2>. QED
    BY <2>2, FunctionIsSeq
<1>. HIDE DEF below, above
<1>. QED
  BY <1>2, <1>3, <1>4, ConcatProperties

\* A building.
LEMMA BuildingOK ==
  ASSUME NEW i \in 1 .. Len(Buildings)
  PROVE  Buildings[i] \in Obstacles /\ Buildings[i].shape \in {"rect", "circle"}
<1>. DEFINE B == [shape : {"rect", "circle"}, p : Int \X Int, w : Nat, h : Nat, r : Nat]
<1>1. Buildings \in Seq(B)
  BY MobilityAssumption
<1>2. Buildings[i] \in B
  <2>. HIDE DEF B
  <2>. QED
    BY <1>1, ElementOfSeq
<1>. QED
  BY <1>2 DEF Obstacles, Points

LEMMA BuildingsOK ==
  ASSUME NEW S, \A i \in 1 .. Len(Buildings) : Buildings[i] \in S
  PROVE  Buildings \in Seq(S)
<1>. DEFINE B == [shape : {"rect", "circle"}, p : Int \X Int, w : Nat, h : Nat, r : Nat]
<1>1. Buildings \in Seq(B)
  BY MobilityAssumption
<1>. HIDE DEF B
<1>2. Len(Buildings) \in Nat /\ Buildings \in [1 .. Len(Buildings) -> B]
  BY <1>1, LenProperties
<1>3. Buildings \in [1 .. Len(Buildings) -> S]
  BY <1>2
<1>. QED
  BY <1>2, <1>3, FunctionIsSeq

LEMMA WallsOK == Walls \in Seq(Obstacles) /\ Len(Walls) = 4
<1>1. \A x, y \in Int, w, h \in Nat : Rect(<<x, y>>, w, h) \in Obstacles
  BY DEF Rect, Obstacles, Points
<1>2. /\ Width \in Int /\ Height \in Int /\ 0 \in Int /\ -2000 \in Int
      /\ Width + 2000 \in Nat /\ Height + 2000 \in Nat /\ 2000 \in Nat
  <2>1. Width \in Nat /\ Height \in Nat
    BY MobilityAssumption
  <2>. QED
    BY <2>1
<1>3. /\ Rect(<<0, -2000>>, Width + 2000, 2000) \in Obstacles
      /\ Rect(<<Width, 0>>, 2000, Height + 2000) \in Obstacles
      /\ Rect(<<-2000, Height>>, Width + 2000, 2000) \in Obstacles
      /\ Rect(<<-2000, -2000>>, 2000, Height + 2000) \in Obstacles
  BY <1>1, <1>2
<1>4. Walls \in Seq(Obstacles)
  BY <1>3 DEF Walls
<1>5. Len(Walls) = 4
  BY DEF Walls
<1>. QED
  BY <1>4, <1>5

\* What a node can run into is an obstacle with a place and a size.
LEMMA ObjectsOK ==
  ASSUME NEW ns, IsNodes(ns), NEW i \in 1 .. Len(ns)
  PROVE  Objects(ns, i) \in Seq(Obstacles)
<1>1. Len(ns) \in Nat
  BY DEF IsNodes
<1>2. ASSUME NEW k \in 1 .. Len(ns)
      PROVE  NodeDisc(ns[k].pos, Radius[ns[k].kind]) \in Obstacles
  <2>1. ns[k].pos \in Points /\ ns[k].kind \in Kinds
    BY DEF IsNodes, NodeOK
  <2>2. Radius[ns[k].kind] \in Nat
    BY <2>1, MobilityAssumption
  <2>. QED
    BY <2>1, <2>2 DEF NodeDisc, Obstacles
<1>3. OtherNodes(ns, i) \in Seq(Obstacles)
  BY <1>1, <1>2, OtherNodesOK
<1>4. Buildings \in Seq(Obstacles)
  BY BuildingOK, BuildingsOK
<1>5. <<>> \in Seq(Obstacles)
  OBVIOUS
<1>. QED
  BY <1>3, <1>4, <1>5, WallsOK, ConcatProperties DEF Objects

\* The part of its velocity that collisionDetection lets a node travel.
Part(t) == IF t = 101 THEN 100 ELSE IF t > 1 THEN t - 1 ELSE 0

\* H is what collisionDetection knows after each of the objects.
Course(n, objects, H) ==
  /\ H[0] = [pos |-> n.pos, t |-> 101]
  /\ \A k \in 1 .. Len(objects) :
       H[k] = Meet(H[k - 1], objects[k], n.v, Radius[n.kind])
  /\ LET m == H[Len(objects)]
     IN  Collide(n, objects) = [n EXCEPT !.pos = Moved(m.pos, n.v, Part(m.t)),
                                         !.collided = m.t <= 100]

\* The loop of collisionDetection over the objects.
LEMMA CourseExists ==
  ASSUME NEW n, NodeOK(n), NEW objects \in Seq(Obstacles)
  PROVE  \E H \in [0 .. Len(objects) -> Hits] : Course(n, objects, H)
<1>. DEFINE c == Len(objects)
            x == [pos |-> n.pos, t |-> 101]
            s == [k \in 1 .. c |->
                    [m \in Hits |-> Meet(m, objects[k], n.v, Radius[n.kind])]]
            Pass(f) == f = [k \in 0 .. c |-> IF k = 0 THEN [pos |-> n.pos, t |-> 101]
                              ELSE Meet(f[k - 1], objects[k], n.v, Radius[n.kind])]
            H == CHOOSE f : Pass(f)
<1>1. c \in Nat
  BY LenProperties
<1>2. n.pos \in Points /\ n.v \in Points /\ Radius[n.kind] \in Nat
  BY MobilityAssumption DEF NodeOK
<1>3. ASSUME NEW k \in 1 .. c, NEW m \in Hits
      PROVE  Meet(m, objects[k], n.v, Radius[n.kind]) \in Hits
  <2>1. objects[k] \in Obstacles
    BY ElementOfSeq
  <2>. QED
    BY <1>2, <2>1, MeetOK
<1>. HIDE DEF c
<1>4. PICK f \in [0 .. c -> Hits] : Pass(f)
  <2>1. s \in [1 .. c -> [Hits -> Hits]]
    BY <1>3
  <2>2. x \in Hits
    BY <1>2 DEF Hits
  <2>3. PICK f \in [0 .. c -> Hits] : Iterates(c, x, s, f)
    <3>. HIDE DEF s, x
    <3>. QED
      BY <1>1, <2>1, <2>2, IterateExists
  <2>4. ASSUME NEW k \in 0 .. c
        PROVE  f[k] = IF k = 0 THEN [pos |-> n.pos, t |-> 101]
                      ELSE Meet(f[k - 1], objects[k], n.v, Radius[n.kind])
    <3>1. f[k] = IF k = 0 THEN x ELSE s[k][f[k - 1]]
      <4>. HIDE DEF s, x
      <4>. QED
        BY <2>3 DEF Iterates
    <3>2. k # 0 => k \in 1 .. c /\ f[k - 1] \in Hits
      BY <1>1
    <3>3. k # 0 => s[k][f[k - 1]] = Meet(f[k - 1], objects[k], n.v, Radius[n.kind])
      BY <3>2
    <3>. HIDE DEF s
    <3>. QED
      BY <3>1, <3>3
  <2>. QED
    BY <2>4
<1>5. Pass(H)
  BY <1>4
<1>6. Collide(n, objects) =
        [n EXCEPT !.pos = Moved(H[c].pos, n.v, Part(H[c].t)), !.collided = H[c].t <= 100]
  BY DEF Collide, Part, c
<1>. HIDE DEF H
<1>7. ASSUME NEW k \in 0 .. c
      PROVE  H[k] = IF k = 0 THEN x
                    ELSE Meet(H[k - 1], objects[k], n.v, Radius[n.kind])
  BY <1>5, Zenon
<1>8. H[0] = x /\ \A k \in 1 .. c : H[k] = Meet(H[k - 1], objects[k], n.v, Radius[n.kind])
  <2>1. 0 \in 0 .. c /\ \A k \in 1 .. c : k \in 0 .. c /\ k # 0
    BY <1>1
  <2>. QED
    BY <1>7, <2>1, Zenon
<1>9. \A k \in 0 .. c : H[k] \in Hits
  <2>. DEFINE T == {k \in 0 .. c : H[k] \in Hits}
  <2>1. x \in Hits
    BY <1>2 DEF Hits
  <2>2. 0 \in T
    BY <1>1, <1>8, <2>1
  <2>3. ASSUME NEW k \in 1 .. c, k - 1 \in T
        PROVE  k \in T
    <3>1. k \in 0 .. c
      BY <1>1
    <3>. QED
      BY <1>3, <1>8, <2>3, <3>1
  <2>. HIDE DEF T
  <2>4. \A k \in 1 .. c : k - 1 \in T => k \in T
    BY <2>3
  <2>5. \A k \in 0 .. c : k \in T
    BY <1>1, <2>2, <2>4, Upto
  <2>. QED
    BY <2>5 DEF T
<1>10. H = [k \in 0 .. c |-> H[k]]
  <2>1. H = [k \in 0 .. c |-> IF k = 0 THEN [pos |-> n.pos, t |-> 101]
                              ELSE Meet(H[k - 1], objects[k], n.v, Radius[n.kind])]
    BY <1>5
  <2>. QED
    BY <2>1
<1>11. H \in [0 .. c -> Hits]
  BY <1>9, <1>10
<1>12. Course(n, objects, H)
  BY <1>6, <1>8, Zenon DEF Course, c
<1>. QED
  BY <1>11, <1>12 DEF c

LEMMA PartOK == \A t \in 0 .. 101 : Part(t) \in Int
BY DEF Part

\* Whatever the obstacles, a node ends its move on the grid.
LEMMA CollideOK ==
  ASSUME NEW n, NodeOK(n), NEW objects \in Seq(Obstacles)
  PROVE  NodeOK(Collide(n, objects))
<1>1. PICK H \in [0 .. Len(objects) -> Hits] : Course(n, objects, H)
  BY CourseExists
<1>. DEFINE m == H[Len(objects)]
            p == Moved(m.pos, n.v, Part(m.t))
            b == m.t <= 100
<1>2. m \in Hits
  <2>1. Len(objects) \in 0 .. Len(objects)
    BY LenProperties
  <2>. QED
    BY <2>1
<1>3. m.pos \in Points /\ Part(m.t) \in Int /\ n.v \in Points
  <2>. HIDE DEF m
  <2>. QED
    BY <1>2, PartOK DEF Hits, NodeOK
<1>4. p \in Points
  <2>. HIDE DEF m
  <2>. QED
    BY <1>3, MovedOK
<1>5. Collide(n, objects) = [n EXCEPT !.pos = p, !.collided = b] /\ b \in BOOLEAN
  BY <1>1 DEF Course
<1>. HIDE DEF m, p, b
<1>. QED
  BY <1>4, <1>5 DEF NodeOK, NodeFields

\* The border nudges a node by a millimetre at most.
LEMMA BorderOK ==
  ASSUME NEW n, NodeOK(n)
  PROVE  NodeOK(BorderCollision(n))
<1>. DEFINE Nudged(x) == IF x <= Radius[n.kind] THEN x + 1 ELSE x
            p == <<Nudged(n.pos[1]), Nudged(n.pos[2])>>
            m == [n EXCEPT !.pos = p]
<1>1. p \in Points
  BY DEF NodeOK, Points
<1>2. BorderCollision(n) = IF Bounded THEN m ELSE n
  BY DEF BorderCollision, NodeOK, NodeFields
<1>. HIDE DEF p
<1>3. NodeOK(m)
  BY <1>1 DEF NodeOK, NodeFields
<1>. QED
  BY <1>2, <1>3

\* The physics moves a node and sets its collision flag, nothing else.
LEMMA MoveNodeInv ==
  ASSUME Inv, MoveNode
  PROVE  Inv'
<1>. DEFINE n == nodes[turn]
            c == Collide(n, Objects(nodes, turn))
            m == BorderCollision(c)
<1>1. NodeOK(n) /\ turn \in 1 .. Len(nodes) /\ Len(nodes) \in Nat \ {0}
  BY DEF Inv, IsNodes
<1>2. NodeOK(c)
  BY <1>1, ObjectsOK, CollideOK DEF Inv
<1>3. NodeOK(m)
  BY <1>2, BorderOK
<1>4. nodes' = [nodes EXCEPT ![turn] = m]
  BY <1>1 DEF MoveNode
<1>. HIDE DEF m
<1>5. IsNodes(nodes') /\ Len(nodes') = Len(nodes)
  BY <1>1, <1>3, <1>4, NodesExcept DEF Inv
<1>6. turn' \in 1 .. Len(nodes') /\ phase' \in {phase, "models"}
  BY <1>1, <1>5, NextTurnOK DEF MoveNode
<1>7. turn = Len(nodes) => phase' = "models"
  BY <1>1 DEF MoveNode, NextTurn
<1>8. /\ phase = "move" /\ UNCHANGED <<model, reference>>
      /\ loop' = IF turn = Len(nodes) THEN loop + 1 ELSE loop
  BY DEF MoveNode
<1>9. Loops[model] \in Nat
  BY MobilityAssumption DEF Inv
<1>. QED
  BY <1>5, <1>6, <1>7, <1>8, <1>9 DEF Inv

LEMMA NextInv == Inv /\ [Next]_vars => Inv'
<1>. SUFFICES ASSUME Inv, [Next]_vars PROVE Inv'
  OBVIOUS
<1>1. CASE UNCHANGED vars
  BY <1>1 DEF vars, Inv, IsNodes, NodeOK, IsReference
<1>2. CASE Next
  BY <1>2, ThinkModelsInv, ThinkInv, MoveNodeInv DEF Next
<1>. QED
  BY <1>1, <1>2

-----------------------------------------------------------------------------
(* Roles and reference point over a run                                    *)

\* Beyond the property: the colouring's clock is at zero before the first
\* timestep only, when the roles of the setup hold.
RolesInv ==
  model = "Era" =>
    /\ reference.colorTime = 0 => phase = "models" /\ RolesRight(nodes)
    /\ phase = "think" /\ turn = 1 /\ reference.colorTime = 1 => RolesRight(nodes)

\* Giving the roles moves no node, and so no centre.
LEMMA RolesKeepCentre ==
  ASSUME NEW ns, IsNodes(ns), NEW p, Centre(ns, p)
  PROVE  Centre(RoleAssignament(ns), p)
<1>. DEFINE g == RoleAssignament(ns)
<1>1. DOMAIN g = 1 .. Len(ns) /\ DOMAIN ns = 1 .. Len(ns)
  BY DEF RoleAssignament, IsNodes
<1>2. ASSUME NEW k \in 1 .. Len(ns)
      PROVE  g[k].pos = ns[k].pos
  <2>1. \E r : g[k] = [ns[k] EXCEPT !.type = r]
    BY DEF RoleAssignament
  <2>. HIDE DEF g
  <2>. QED
    BY <2>1 DEF IsNodes, NodeOK, NodeFields
<1>. HIDE DEF g
<1>3. Centre(g, p)
  BY <1>1, <1>2, SMTT(40) DEF Centre
<1>. QED
  BY <1>3 DEF g

LEMMA InitRoles == Init => RolesInv /\ MiddleIsCentre
<1>. SUFFICES ASSUME Init PROVE RolesInv /\ MiddleIsCentre
  OBVIOUS
<1>1. PICK ns \in SetupNodes(model) :
        /\ nodes = IF model = "Era" THEN RoleAssignament(ns) ELSE ns
        /\ reference = [pos |-> IF model \in {"Era", "Nomadic"}
                                THEN MiddlePoint(ns) ELSE Zero,
                        target |-> Zero, pause |-> TRUE, localTime |-> 0,
                        colorTime |-> 0]
  BY DEF Init
<1>2. model \in Models /\ phase = "models" /\ IsNodes(ns)
  BY SetupOK DEF Init
<1>3. RolesInv
  BY <1>1, <1>2, RolesGiven DEF RolesInv
<1>4. ASSUME model \in {"Era", "Nomadic"}
      PROVE  Centre(nodes, reference.pos)
  <2>1. ns = Diagonal(model)
    BY <1>1, <1>4 DEF SetupNodes
  <2>2. reference.pos = MiddlePoint(ns)
    BY <1>1, <1>4
  <2>3. Centre(ns, reference.pos)
    BY <1>2, <2>1, <2>2, MiddleOK
  <2>. QED
    BY <1>1, <1>2, <2>3, RolesKeepCentre
<1>. QED
  BY <1>3, <1>4 DEF MiddleIsCentre

\* What a node's thinking leaves alone.
LEMMA ThinkFrame ==
  ASSUME Bounce \/ NewHeading \/ KeepHeading \/ Follow \/ Rest \/ SetOff
           \/ SetOffToSpot \/ DeadEnd \/ Walk \/ WalkToSpot
  PROVE  /\ phase = "think" /\ UNCHANGED <<model, reference, loop>>
         /\ NextTurn("move")
<1>1. phase = "think"
  BY DEF Bounce, NewHeading, KeepHeading, Follow, Rest, SetOff, SetOffToSpot,
         DeadEnd, Walk, WalkToSpot, Thinking
<1>2. UNCHANGED <<model, reference, loop>> /\ NextTurn("move")
  <2>1. CASE Bounce
    BY <2>1 DEF Bounce, Thinks
  <2>2. CASE NewHeading
    BY <2>2 DEF NewHeading, Thinks
  <2>3. CASE KeepHeading
    BY <2>3 DEF KeepHeading, Thinks
  <2>4. CASE Follow
    BY <2>4, ZenonT(40) DEF Follow, Thinks
  <2>5. CASE Rest
    BY <2>5 DEF Rest, Thinks
  <2>6. CASE SetOff
    BY <2>6 DEF SetOff, Thinks
  <2>7. CASE SetOffToSpot
    BY <2>7 DEF SetOffToSpot, Thinks
  <2>8. CASE DeadEnd
    BY <2>8 DEF DeadEnd, Thinks
  <2>9. CASE Walk
    BY <2>9 DEF Walk, Thinks
  <2>10. CASE WalkToSpot
    BY <2>10 DEF WalkToSpot, Thinks
  <2>. QED
    BY <2>1, <2>2, <2>3, <2>4, <2>5, <2>6, <2>7, <2>8, <2>9, <2>10
<1>. QED
  BY <1>1, <1>2

LEMMA NextRoles == Inv /\ RolesInv /\ [Next]_vars => RolesInv'
<1>. SUFFICES ASSUME Inv, RolesInv, [Next]_vars, model' = "Era" PROVE
       /\ reference'.colorTime = 0 => phase' = "models" /\ RolesRight(nodes')
       /\ phase' = "think" /\ turn' = 1 /\ reference'.colorTime = 1 => RolesRight(nodes')
  BY DEF RolesInv, RolesRight, MaximalIndependent, Independent, Role, IsVisible
<1>1. CASE UNCHANGED vars
  BY <1>1 DEF vars, RolesInv
<1>2. CASE ThinkModels
  <2>1. EraThink /\ model = "Era"
    BY <1>2 DEF ThinkModels
  <2>2. reference'.colorTime = 1 => RolesRight(nodes')
    BY <2>1, EraThinkOK, RolesGiven DEF RolesInv, Inv
  <2>. QED
    BY <2>1, <2>2, EraThinkOK
<1>3. CASE Bounce \/ NewHeading \/ KeepHeading \/ Follow \/ Rest \/ SetOff
             \/ SetOffToSpot \/ DeadEnd \/ Walk \/ WalkToSpot
  <2>1. /\ phase = "think" /\ UNCHANGED <<model, reference, loop>>
        /\ phase' = "move" \/ turn' = turn + 1
    BY <1>3, ThinkFrame DEF NextTurn
  <2>2. turn \in Nat \ {0}
    BY DEF Inv, IsNodes
  <2>. QED
    BY <2>1, <2>2 DEF RolesInv
<1>4. CASE MoveNode
  BY <1>4 DEF MoveNode, NextTurn, RolesInv
<1>. QED
  BY <1>1, <1>2, <1>3, <1>4 DEF Next

LEMMA NextMiddle == Inv /\ MiddleIsCentre /\ [Next]_vars => MiddleIsCentre'
<1>. SUFFICES ASSUME Inv, MiddleIsCentre, [Next]_vars PROVE MiddleIsCentre'
  OBVIOUS
<1>1. CASE UNCHANGED vars
  BY <1>1 DEF vars, MiddleIsCentre, Centre
<1>2. CASE ThinkModels
  BY <1>2 DEF ThinkModels, MiddleIsCentre
<1>3. CASE Bounce \/ NewHeading \/ KeepHeading \/ Follow \/ Rest \/ SetOff
             \/ SetOffToSpot \/ DeadEnd \/ Walk \/ WalkToSpot
  <2>1. phase' \in {"think", "move"}
    BY <1>3, ThinkFrame DEF NextTurn
  <2>. QED
    BY <2>1 DEF MiddleIsCentre
<1>4. CASE MoveNode
  <2>1. turn \in 1 .. Len(nodes) /\ Len(nodes) \in Nat /\ loop \in Nat
    BY MobilityAssumption DEF Inv, IsNodes
  <2>2. phase' = "models" => loop' = loop + 1
    BY <1>4, <2>1 DEF MoveNode, NextTurn
  <2>. QED
    BY <2>1, <2>2 DEF MiddleIsCentre
<1>. QED
  BY <1>1, <1>2, <1>3, <1>4 DEF Next

-----------------------------------------------------------------------------
(* Whole numbers                                                           *)

LEMMA DivBounds ==
  ASSUME NEW x \in Int, NEW d \in Nat \ {0}
  PROVE  /\ x \div d \in Int
         /\ d * (x \div d) <= x /\ x < d * (x \div d) + d
OBVIOUS

LEMMA MultLess ==
  ASSUME NEW x \in Int, NEW y \in Int, NEW d \in Nat \ {0}, d * x < d * y + d
  PROVE  x <= y
<1>1. ASSUME y + 1 <= x PROVE d * y + d <= d * x
  <2>1. x - (y + 1) \in Nat
    BY <1>1
  <2>2. d * (x - (y + 1)) \in Nat
    BY <2>1
  <2>. QED
    BY <2>2
<1>. QED
  BY <1>1

\* Rounding stays between the whole numbers on either side of zero that the
\* quotient stays between.
LEMMA RoundedBounds ==
  ASSUME NEW a \in Int, NEW b \in Nat \ {0}, NEW c \in Nat
  PROVE  /\ a <= c * b => Rounded(a, b) <= c
         /\ -(c * b) <= a => -c <= Rounded(a, b)
<1>. DEFINE twice == 2 * a + b
            d == 2 * b
<1>1. twice \in Int /\ -twice \in Int /\ d \in Nat \ {0}
  OBVIOUS
<1>2. CASE twice >= 0
  <2>1. Rounded(a, b) = twice \div d
    BY <1>2 DEF Rounded
  <2>2. PICK q \in Int : q = twice \div d /\ d * q <= twice /\ twice < d * q + d
    BY <1>1, DivBounds
  <2>3. -1 < q
    <3>1. d * 0 < d * q + d
      BY <1>1, <1>2, <2>2
    <3>. HIDE DEF d, twice
    <3>. QED
      BY <1>1, <2>2, <3>1, MultLess
  <2>4. ASSUME a <= c * b PROVE q <= c
    <3>1. d * q < d * c + d
      BY <2>2, <2>4
    <3>. HIDE DEF d, twice
    <3>. QED
      BY <1>1, <2>2, <3>1, MultLess
  <2>. QED
    BY <2>1, <2>2, <2>3, <2>4
<1>3. CASE twice < 0
  <2>1. Rounded(a, b) = -((-twice) \div d)
    BY <1>3 DEF Rounded
  <2>2. PICK q \in Int : q = (-twice) \div d /\ d * q <= -twice /\ -twice < d * q + d
    BY <1>1, DivBounds
  <2>3. -1 < q
    <3>1. d * 0 < d * q + d
      BY <1>1, <1>3, <2>2
    <3>. HIDE DEF d, twice
    <3>. QED
      BY <1>1, <2>2, <3>1, MultLess
  <2>4. ASSUME -(c * b) <= a PROVE q <= c
    <3>1. d * q < d * c + d
      BY <2>2, <2>4
    <3>. HIDE DEF d, twice
    <3>. QED
      BY <1>1, <2>2, <3>1, MultLess
  <2>. QED
    BY <2>1, <2>2, <2>3, <2>4
<1>. QED
  BY <1>1, <1>2, <1>3

LEMMA Products ==
  ASSUME NEW x \in Int, NEW y \in Int, NEW d \in Nat, x <= y
  PROVE  d * x <= d * y
<1>1. y - x \in Nat
  OBVIOUS
<1>2. d * (y - x) \in Nat
  BY <1>1
<1>. QED
  BY <1>2

-----------------------------------------------------------------------------
(* The contact with a rectangle                                            *)

\* An interval entered at n / d before k and left at l / e after k is entered
\* before it is left.
LEMMA EntersBeforeLeaves ==
  ASSUME NEW n \in Int, NEW d \in Nat \ {0}, NEW l \in Int, NEW e \in Nat \ {0}, NEW k \in Nat,
         100 * n <= k * d, k * e <= 100 * l
  PROVE  n * e <= l * d
<1>1. e * (100 * n) <= e * (k * d)
  <2>. DEFINE x == 100 * n
              y == k * d
  <2>1. x \in Int /\ y \in Int /\ x <= y
    OBVIOUS
  <2>. HIDE DEF x, y
  <2>2. e * x <= e * y
    BY <2>1, Products
  <2>. QED
    BY <2>2 DEF x, y
<1>2. d * (k * e) <= d * (100 * l)
  <2>. DEFINE x == k * e
              y == 100 * l
  <2>1. x \in Int /\ y \in Int /\ x <= y
    OBVIOUS
  <2>. HIDE DEF x, y
  <2>2. d * x <= d * y
    BY <2>1, Products
  <2>. QED
    BY <2>2 DEF x, y
<1>3. e * (k * d) = d * (k * e)
  OBVIOUS
<1>4. e * (100 * n) = 100 * (n * e) /\ d * (100 * l) = 100 * (l * d)
  OBVIOUS
<1>. DEFINE a == n * e
            b == l * d
<1>5. a \in Int /\ b \in Int
  OBVIOUS
<1>6. 100 * a <= 100 * b
  BY <1>1, <1>2, <1>3, <1>4
<1>. HIDE DEF a, b
<1>7. a <= b
  BY <1>5, <1>6
<1>. QED
  BY <1>7 DEF a, b

\* A fraction below k hundredths is one of them.
LEMMA HundredthsBounds ==
  ASSUME NEW n \in Nat, NEW d \in Nat \ {0}, NEW k \in Nat, 100 * n <= k * d
  PROVE  0 <= Hundredths(<<n, d>>) /\ Hundredths(<<n, d>>) <= k
<1>. DEFINE x == -100 * n
<1>1. x \in Int /\ x <= 0 /\ -(k * d) <= x
  OBVIOUS
<1>2. Hundredths(<<n, d>>) = -(x \div d)
  BY DEF Hundredths
<1>3. PICK q \in Int : q = x \div d /\ d * q <= x /\ x < d * q + d
  BY <1>1, DivBounds
<1>. HIDE DEF x
<1>4. q <= 0
  <2>1. d * q < d * 0 + d
    BY <1>1, <1>3
  <2>. QED
    BY <2>1, MultLess
<1>5. -k <= q
  <2>1. d * (-k) <= x
    BY <1>1
  <2>2. d * (-k) < d * q + d
    BY <1>1, <1>3, <2>1
  <2>. QED
    BY <2>2, MultLess
<1>. QED
  BY <1>2, <1>3, <1>4, <1>5

\* The coordinate, in hundredths, after k hundredths of the velocity d.
After100(o, d, k) == 100 * o + k * d

\* The interval 0 .. size is entered at n / e and left at l / e, before and after
\* k hundredths.
Crossed(o, d, size, k, n, l, e) ==
  /\ Enters(o, d, size) = <<n, e>> /\ Leaves(o, d, size) = <<l, e>>
  /\ 100 * n <= k * e /\ k * e <= 100 * l
  /\ o < 0 \/ o > size => n \in Nat

\* A coordinate that is in the interval after k hundredths crosses it around k.
LEMMA AxisCrossed ==
  ASSUME NEW o \in Int, NEW d \in Int \ {0}, NEW size \in Nat, NEW k \in Nat,
         0 <= After100(o, d, k), After100(o, d, k) <= 100 * size
  PROVE  \E n, l \in Int, e \in Nat \ {0} : Crossed(o, d, size, k, n, l, e)
<1>. USE DEF Crossed
<1>1. CASE d > 0
  <2>1. Enters(o, d, size) = <<-o, d>> /\ Leaves(o, d, size) = <<size - o, d>>
    BY <1>1 DEF Enters, Leaves
  <2>2. k * d \in Nat
    BY <1>1
  <2>3. /\ -o \in Int /\ size - o \in Int /\ d \in Nat \ {0}
        /\ 100 * (-o) <= k * d /\ k * d <= 100 * (size - o)
        /\ o < 0 \/ o > size => -o \in Nat
    BY <1>1, <2>2 DEF After100
  <2>. QED
    BY <2>1, <2>3
<1>2. CASE d < 0
  <2>1. Enters(o, d, size) = <<o - size, -d>> /\ Leaves(o, d, size) = <<o, -d>>
    BY <1>2 DEF Enters, Leaves
  <2>2. k * (-d) \in Nat /\ k * d = -(k * (-d))
    BY <1>2
  <2>3. /\ o - size \in Int /\ o \in Int /\ -d \in Nat \ {0}
        /\ 100 * (o - size) <= k * (-d) /\ k * (-d) <= 100 * o
        /\ o < 0 \/ o > size => o - size \in Nat
    BY <1>2, <2>2 DEF After100
  <2>. QED
    BY <2>1, <2>3
<1>. QED
  BY <1>1, <1>2

\* A ray from outside the box that is in it after k hundredths of v meets it
\* by then.
LEMMA BoxMet ==
  ASSUME NEW o \in Points, NEW v \in Points, NEW size \in Nat \X Nat, NEW k \in Nat,
         v[1] # 0, v[2] # 0,
         0 <= After100(o[1], v[1], k), After100(o[1], v[1], k) <= 100 * size[1],
         0 <= After100(o[2], v[2], k), After100(o[2], v[2], k) <= 100 * size[2],
         o[1] < 0 \/ o[1] > size[1] \/ o[2] < 0 \/ o[2] > size[2]
  PROVE  /\ 0 <= RayBoxInternalIntersect(o, v, size)
         /\ RayBoxInternalIntersect(o, v, size) <= k
<1>1. /\ o[1] \in Int /\ o[2] \in Int /\ v[1] \in Int \ {0} /\ v[2] \in Int \ {0}
      /\ size[1] \in Nat /\ size[2] \in Nat
  BY DEF Points
<1>x. PICK n, l \in Int, e \in Nat \ {0} : Crossed(o[1], v[1], size[1], k, n, l, e)
  BY <1>1, AxisCrossed
<1>2. /\ Enters(o[1], v[1], size[1]) = <<n, e>> /\ Leaves(o[1], v[1], size[1]) = <<l, e>>
      /\ 100 * n <= k * e /\ k * e <= 100 * l
      /\ o[1] < 0 \/ o[1] > size[1] => n \in Nat
  BY <1>x DEF Crossed
<1>y. PICK m, r \in Int, f \in Nat \ {0} : Crossed(o[2], v[2], size[2], k, m, r, f)
  BY <1>1, AxisCrossed
<1>3. /\ Enters(o[2], v[2], size[2]) = <<m, f>> /\ Leaves(o[2], v[2], size[2]) = <<r, f>>
      /\ 100 * m <= k * f /\ k * f <= 100 * r
      /\ o[2] < 0 \/ o[2] > size[2] => m \in Nat
  BY <1>y DEF Crossed
<1>4. n * f <= r * e /\ m * e <= l * f
  BY <1>2, <1>3, EntersBeforeLeaves
<1>5. n \in Nat \/ m \in Nat
  BY <1>2, <1>3
<1>. DEFINE A == n * f
            B == m * e
            C == r * e
            D == l * f
<1>6. A \in Int /\ B \in Int /\ C \in Int /\ D \in Int /\ ~(A > C) /\ ~(B > D)
  BY <1>4
<1>7. B > A => m \in Nat
  <2>1. ASSUME n \in Nat PROVE A >= 0
    BY <2>1
  <2>2. ASSUME m < 0 PROVE B < 0
    <3>1. -m \in Nat \ {0}
      BY <2>2
    <3>2. (-m) * e > 0
      BY <3>1
    <3>. QED
      BY <3>2
  <2>. HIDE DEF A, B
  <2>. QED
    BY <1>5, <1>6, <2>1, <2>2
<1>8. ~(B > A) => n \in Nat
  <2>1. ASSUME m \in Nat PROVE B >= 0
    BY <2>1
  <2>2. ASSUME n < 0 PROVE A < 0
    <3>1. -n \in Nat \ {0}
      BY <2>2
    <3>2. (-n) * f > 0
      BY <3>1
    <3>. QED
      BY <3>2
  <2>. HIDE DEF A, B
  <2>. QED
    BY <1>5, <1>6, <2>1, <2>2
<1>9. RayBoxInternalIntersect(o, v, size) =
        IF A > C \/ B > D THEN -1 ELSE Hundredths(IF B > A THEN <<m, f>> ELSE <<n, e>>)
  BY <1>2, <1>3 DEF RayBoxInternalIntersect, After
<1>. HIDE DEF A, B, C, D
<1>10. CASE B > A
  <2>1. 0 <= Hundredths(<<m, f>>) /\ Hundredths(<<m, f>>) <= k
    BY <1>3, <1>7, <1>10, HundredthsBounds
  <2>. QED
    BY <1>6, <1>9, <1>10, <2>1
<1>11. CASE ~(B > A)
  <2>1. 0 <= Hundredths(<<n, e>>) /\ Hundredths(<<n, e>>) <= k
    BY <1>2, <1>8, <1>11, HundredthsBounds
  <2>. QED
    BY <1>6, <1>9, <1>11, <2>1
<1>. QED
  BY <1>10, <1>11

\* The centre, after k hundredths of v, is in the rectangle grown by the radius.
InGrown(b, pos, v, radius, k) ==
  /\ -(100 * radius) <= After100(pos[1] - b.p[1], v[1], k)
  /\ After100(pos[1] - b.p[1], v[1], k) <= 100 * (b.w + radius)
  /\ -(100 * radius) <= After100(pos[2] - b.p[2], v[2], k)
  /\ After100(pos[2] - b.p[2], v[2], k) <= 100 * (b.h + radius)

\* A node that does not touch a rectangle, and would be in touch with it after
\* k hundredths of its velocity, is told of a contact by then.
LEMMA RectReached ==
  ASSUME NEW b \in Obstacles, NEW pos \in Points, NEW v \in Points, NEW radius \in Nat,
         NEW k \in Nat, ~RectOverlap(b, pos, radius), InGrown(b, pos, v, radius, k)
  PROVE  0 <= RectContact(b, pos, v, radius) /\ RectContact(b, pos, v, radius) <= k
<1>. DEFINE o    == Plus(Minus(pos, b.p), <<radius, radius>>)
            size == <<b.w + 2 * radius, b.h + 2 * radius>>
<1>1. /\ b.p[1] \in Int /\ b.p[2] \in Int /\ pos[1] \in Int /\ pos[2] \in Int
      /\ b.w \in Nat /\ b.h \in Nat /\ v[1] \in Int /\ v[2] \in Int /\ v = <<v[1], v[2]>>
  BY DEF Obstacles, Points
<1>2. /\ o \in Points /\ size \in Nat \X Nat
      /\ o[1] = (pos[1] - b.p[1]) + radius /\ o[2] = (pos[2] - b.p[2]) + radius
      /\ size[1] = b.w + 2 * radius /\ size[2] = b.h + 2 * radius
  BY <1>1 DEF Plus, Minus, Points
<1>3. \A x \in Int, r \in Nat, d \in Int :
        After100(x + r, d, k) = After100(x, d, k) + 100 * r
  BY DEF After100
<1>4. /\ 0 <= After100(o[1], v[1], k) /\ After100(o[1], v[1], k) <= 100 * size[1]
      /\ 0 <= After100(o[2], v[2], k) /\ After100(o[2], v[2], k) <= 100 * size[2]
  <2>1. \A x, d \in Int : After100(x, d, k) \in Int
    BY DEF After100
  <2>. DEFINE x == pos[1] - b.p[1]
              y == pos[2] - b.p[2]
  <2>2. x \in Int /\ y \in Int
    BY <1>1
  <2>3. /\ After100(o[1], v[1], k) = After100(x, v[1], k) + 100 * radius
        /\ After100(o[2], v[2], k) = After100(y, v[2], k) + 100 * radius
    BY <1>1, <1>2, <1>3, <2>2
  <2>4. After100(x, v[1], k) \in Int /\ After100(y, v[2], k) \in Int
    BY <1>1, <2>1, <2>2
  <2>5. /\ -(100 * radius) <= After100(x, v[1], k)
        /\ After100(x, v[1], k) <= 100 * (b.w + radius)
        /\ -(100 * radius) <= After100(y, v[2], k)
        /\ After100(y, v[2], k) <= 100 * (b.h + radius)
    BY DEF InGrown
  <2>. HIDE DEF x, y, o, size
  <2>. QED
    BY <1>1, <1>2, <2>3, <2>4, <2>5
<1>5. o[1] < 0 \/ o[1] > size[1] \/ o[2] < 0 \/ o[2] > size[2]
  <2>1. RectOverlap(b, pos, radius) <=>
          /\ -radius <= pos[1] - b.p[1] /\ pos[1] - b.p[1] <= b.w + radius
          /\ -radius <= pos[2] - b.p[2] /\ pos[2] - b.p[2] <= b.h + radius
    BY DEF RectOverlap, Minus
  <2>. HIDE DEF o, size
  <2>. QED
    BY <1>1, <1>2, <2>1
<1>6. RectContact(b, pos, v, radius) =
        IF v = Zero THEN -1
        ELSE IF v[1] = 0 THEN StraightIntersect(o, v, size, 2, 1)
        ELSE IF v[2] = 0 THEN StraightIntersect(o, v, size, 1, 2)
        ELSE RayBoxInternalIntersect(o, v, size)
  BY DEF RectContact
<1>7. \A x \in Int : After100(x, 0, k) = 100 * x
  BY DEF After100
<1>. HIDE DEF o, size
<1>8. o[1] \in Int /\ o[2] \in Int /\ size[1] \in Nat /\ size[2] \in Nat
  BY <1>2 DEF Points
<1>9. CASE v = Zero
  <2>1. v[1] = 0 /\ v[2] = 0
    BY <1>9 DEF Zero
  <2>. QED
    BY <1>4, <1>5, <1>7, <1>8, <2>1
<1>10. CASE v # Zero /\ v[1] = 0
  <2>1. v[2] \in Int \ {0}
    BY <1>1, <1>10 DEF Zero
  <2>2. 0 <= o[1] /\ o[1] <= size[1]
    BY <1>4, <1>7, <1>8, <1>10
  <2>a. PICK n, l \in Int, e \in Nat \ {0} : Crossed(o[2], v[2], size[2], k, n, l, e)
    BY <1>4, <1>8, <2>1, AxisCrossed
  <2>3. /\ Enters(o[2], v[2], size[2]) = <<n, e>>
        /\ 100 * n <= k * e
        /\ o[2] < 0 \/ o[2] > size[2] => n \in Nat
    BY <2>a DEF Crossed
  <2>4. 0 <= Hundredths(<<n, e>>) /\ Hundredths(<<n, e>>) <= k
    BY <1>5, <1>8, <2>2, <2>3, HundredthsBounds
  <2>. QED
    BY <1>6, <1>10, <2>2, <2>3, <2>4 DEF StraightIntersect
<1>11. CASE v # Zero /\ v[1] # 0 /\ v[2] = 0
  <2>1. v[1] \in Int \ {0}
    BY <1>1, <1>11
  <2>2. 0 <= o[2] /\ o[2] <= size[2]
    BY <1>4, <1>7, <1>8, <1>11
  <2>a. PICK n, l \in Int, e \in Nat \ {0} : Crossed(o[1], v[1], size[1], k, n, l, e)
    BY <1>4, <1>8, <2>1, AxisCrossed
  <2>3. /\ Enters(o[1], v[1], size[1]) = <<n, e>>
        /\ 100 * n <= k * e
        /\ o[1] < 0 \/ o[1] > size[1] => n \in Nat
    BY <2>a DEF Crossed
  <2>4. 0 <= Hundredths(<<n, e>>) /\ Hundredths(<<n, e>>) <= k
    BY <1>5, <1>8, <2>2, <2>3, HundredthsBounds
  <2>. QED
    BY <1>6, <1>11, <2>2, <2>3, <2>4 DEF StraightIntersect
<1>12. CASE v # Zero /\ v[1] # 0 /\ v[2] # 0
  BY <1>2, <1>4, <1>5, <1>6, <1>12, BoxMet
<1>. QED
  BY <1>9, <1>10, <1>11, <1>12

-----------------------------------------------------------------------------
(* The walls                                                               *)

\* The arithmetic of the four walls.  A node is at <<x0, y0>> in a scenario of w
\* by h, and at <<x2, y1>>, <<x2, y3>> and <<x4, y3>> after the upper, the right,
\* the lower and the left wall have pushed it.  A hundredth of its velocity
\* later than inside, at <<a, b>> hundredths of a millimetre, it is inside or in
\* one of the walls, seen from where that wall left it.
LEMMA InsideOrInWall ==
  ASSUME NEW w \in Nat, NEW h \in Nat, NEW r \in Nat, NEW M \in Nat,
         10 <= r, M <= 100000, M + 6 * r + 30 <= w, M + 6 * r + 30 <= h,
         NEW x0 \in 0 .. w, NEW y0 \in 0 .. h,
         NEW x2 \in Int, NEW x4 \in Int, NEW y1 \in Int, NEW y3 \in Int,
         y1 = IF y0 <= r THEN y0 + r + 10 ELSE y0,
         x2 = IF x0 >= w - r THEN x0 - r - 10 ELSE x0,
         y3 = IF y1 >= h - r THEN y1 - r - 10 ELSE y1,
         x4 = IF x2 <= r THEN x2 + r + 10 ELSE x2,
         NEW a \in Int, NEW b \in Int,
         -(100 * M) <= a - 100 * x4, a - 100 * x4 <= 100 * M,
         -(100 * M) <= b - 100 * y3, b - 100 * y3 <= 100 * M,
         -100000 <= a, a <= 100 * w + 100000,
         -100000 <= b, b <= 100 * h + 100000
  PROVE  \/ 0 <= a /\ a <= 100 * w /\ 0 <= b /\ b <= 100 * h
         \/ /\ -(100 * r) <= a - 100 * x4 + 100 * x0
            /\ a - 100 * x4 + 100 * x0 <= 100 * (w + 2000 + r)
            /\ -(100 * r) <= b - 100 * y3 + 100 * y1 + 200000
            /\ b - 100 * y3 + 100 * y1 + 200000 <= 100 * (2000 + r)
         \/ /\ -(100 * r) <= a - 100 * x4 + 100 * x2 - 100 * w
            /\ a - 100 * x4 + 100 * x2 - 100 * w <= 100 * (2000 + r)
            /\ -(100 * r) <= b - 100 * y3 + 100 * y1
            /\ b - 100 * y3 + 100 * y1 <= 100 * (h + 2000 + r)
         \/ /\ -(100 * r) <= a - 100 * x4 + 100 * x2 + 200000
            /\ a - 100 * x4 + 100 * x2 + 200000 <= 100 * (w + 2000 + r)
            /\ -(100 * r) <= b - 100 * h
            /\ b - 100 * h <= 100 * (2000 + r)
         \/ /\ -(100 * r) <= a + 200000
            /\ a + 200000 <= 100 * (2000 + r)
            /\ -(100 * r) <= b + 200000
            /\ b + 200000 <= 100 * (h + 2000 + r)
<1>1. CASE a < 0
  BY <1>1
<1>2. CASE a > 100 * w
  BY <1>2
<1>3. CASE 0 <= a /\ a <= 100 * w /\ b < 0
  BY <1>3
<1>4. CASE 0 <= a /\ a <= 100 * w /\ b > 100 * h
  BY <1>4
<1>. QED
  BY <1>1, <1>2, <1>3, <1>4

\* The walls of a scenario of w by h.
TopWall(w, h)    == Rect(<<0, -2000>>, w + 2000, 2000)
RightWall(w, h)  == Rect(<<w, 0>>, 2000, h + 2000)
BottomWall(w, h) == Rect(<<-2000, h>>, w + 2000, 2000)
LeftWall(w, h)   == Rect(<<-2000, -2000>>, 2000, h + 2000)

\* What the four walls make of a coordinate of a node that they push.
TopPush(y, r)       == IF y <= r THEN y + r + 10 ELSE y
RightPush(x, w, r)  == IF x >= w - r THEN x - r - 10 ELSE x
BottomPush(y, h, r) == IF y >= h - r THEN y - r - 10 ELSE y
LeftPush(x, r)      == IF x <= r THEN x + r + 10 ELSE x

\* When a rectangle pushes a node at <<x, y>>, and where to.
LEMMA PushTest ==
  ASSUME NEW x \in Int, NEW y \in Int, NEW r \in Nat
  PROVE  \A c, d, e, f \in Int :
           Pushed(Rect(<<c, d>>, e, f), <<x, y>>, r) =
             IF -r <= x - c /\ x - c <= e + r /\ -r <= y - d /\ y - d <= f + r
             THEN Plus(<<x, y>>, CalcShift(Rect(<<c, d>>, e, f), <<x, y>>, r + 10))
             ELSE <<x, y>>
BY DEF Pushed, NodeOverlap, RectOverlap, Rect, Minus, Clearance

\* Where a rectangle's push takes it: outside, to a side; inside, a metre along y.
ShiftedBy(x, y, r) ==
  \A c, d, e, f \in Int :
    Plus(<<x, y>>, CalcShift(Rect(<<c, d>>, e, f), <<x, y>>, r + 10)) =
      IF y - d >= f THEN <<x + 0, y + (r + 10)>>
      ELSE IF y - d <= 0 THEN <<x + 0, y + (-(r + 10))>>
      ELSE IF x - c >= e THEN <<x + (r + 10), y + 0>>
      ELSE IF x - c <= 0 THEN <<x + (-(r + 10)), y + 0>>
      ELSE <<x + 0, y + 1000>>

LEMMA PushShift ==
  ASSUME NEW x \in Int, NEW y \in Int, NEW r \in Nat
  PROVE  ShiftedBy(x, y, r)
BY DEF ShiftedBy, CalcShift, Rect, Minus, Plus, DefaultVector

\* A wall pushes a node across its own border only: what is left of the corners
\* has been cleared by the wall before.
LEMMA TopPushes ==
  ASSUME NEW w \in Nat, NEW h \in Nat, NEW r \in Nat, 10 <= r, 6 * r + 30 <= w, 6 * r + 30 <= h,
         NEW x \in Int, NEW y \in Int, 0 <= x, x <= w, 0 <= y, y <= h
  PROVE  Pushed(TopWall(w, h), <<x, y>>, r) = <<x, TopPush(y, r)>>
<1>1. \A c, d, e, f \in Int :
        Pushed(Rect(<<c, d>>, e, f), <<x, y>>, r) =
          IF -r <= x - c /\ x - c <= e + r /\ -r <= y - d /\ y - d <= f + r
          THEN Plus(<<x, y>>, CalcShift(Rect(<<c, d>>, e, f), <<x, y>>, r + 10))
          ELSE <<x, y>>
  BY PushTest
<1>2. ShiftedBy(x, y, r)
  BY PushShift
<1>. DEFINE q == Plus(<<x, y>>, CalcShift(TopWall(w, h), <<x, y>>, r + 10))
<1>3. /\ 0 \in Int /\ -2000 \in Int /\ w + 2000 \in Int /\ 2000 \in Int
  OBVIOUS
<1>4. Pushed(TopWall(w, h), <<x, y>>, r) =
        IF /\ -r <= x - (0) /\ x - (0) <= (w + 2000) + r
           /\ -r <= y - (-2000) /\ y - (-2000) <= (2000) + r
        THEN q ELSE <<x, y>>
  BY <1>1, <1>3 DEF TopWall
<1>5. q = IF y - (-2000) >= (2000) THEN <<x + 0, y + (r + 10)>>
          ELSE IF y - (-2000) <= 0 THEN <<x + 0, y + (-(r + 10))>>
          ELSE IF x - (0) >= (w + 2000) THEN <<x + (r + 10), y + 0>>
          ELSE IF x - (0) <= 0 THEN <<x + (-(r + 10)), y + 0>>
          ELSE <<x + 0, y + 1000>>
  BY <1>2, <1>3 DEF ShiftedBy, TopWall
<1>. HIDE DEF q
<1>. QED
  BY <1>4, <1>5 DEF TopPush

LEMMA RightPushes ==
  ASSUME NEW w \in Nat, NEW h \in Nat, NEW r \in Nat, 10 <= r, 6 * r + 30 <= w, 6 * r + 30 <= h,
         NEW x \in Int, NEW y \in Int, 0 <= x, x <= w, 0 <= y, y <= h, r < y
  PROVE  Pushed(RightWall(w, h), <<x, y>>, r) = <<RightPush(x, w, r), y>>
<1>1. \A c, d, e, f \in Int :
        Pushed(Rect(<<c, d>>, e, f), <<x, y>>, r) =
          IF -r <= x - c /\ x - c <= e + r /\ -r <= y - d /\ y - d <= f + r
          THEN Plus(<<x, y>>, CalcShift(Rect(<<c, d>>, e, f), <<x, y>>, r + 10))
          ELSE <<x, y>>
  BY PushTest
<1>2. ShiftedBy(x, y, r)
  BY PushShift
<1>. DEFINE q == Plus(<<x, y>>, CalcShift(RightWall(w, h), <<x, y>>, r + 10))
<1>3. /\ w \in Int /\ 0 \in Int /\ 2000 \in Int /\ h + 2000 \in Int
  OBVIOUS
<1>4. Pushed(RightWall(w, h), <<x, y>>, r) =
        IF /\ -r <= x - (w) /\ x - (w) <= (2000) + r
           /\ -r <= y - (0) /\ y - (0) <= (h + 2000) + r
        THEN q ELSE <<x, y>>
  BY <1>1, <1>3 DEF RightWall
<1>5. q = IF y - (0) >= (h + 2000) THEN <<x + 0, y + (r + 10)>>
          ELSE IF y - (0) <= 0 THEN <<x + 0, y + (-(r + 10))>>
          ELSE IF x - (w) >= (2000) THEN <<x + (r + 10), y + 0>>
          ELSE IF x - (w) <= 0 THEN <<x + (-(r + 10)), y + 0>>
          ELSE <<x + 0, y + 1000>>
  BY <1>2, <1>3 DEF ShiftedBy, RightWall
<1>. HIDE DEF q
<1>. QED
  BY <1>4, <1>5 DEF RightPush

LEMMA BottomPushes ==
  ASSUME NEW w \in Nat, NEW h \in Nat, NEW r \in Nat, 10 <= r, 6 * r + 30 <= w, 6 * r + 30 <= h,
         NEW x \in Int, NEW y \in Int, 0 <= x, x <= w, 0 <= y, y <= h
  PROVE  Pushed(BottomWall(w, h), <<x, y>>, r) = <<x, BottomPush(y, h, r)>>
<1>1. \A c, d, e, f \in Int :
        Pushed(Rect(<<c, d>>, e, f), <<x, y>>, r) =
          IF -r <= x - c /\ x - c <= e + r /\ -r <= y - d /\ y - d <= f + r
          THEN Plus(<<x, y>>, CalcShift(Rect(<<c, d>>, e, f), <<x, y>>, r + 10))
          ELSE <<x, y>>
  BY PushTest
<1>2. ShiftedBy(x, y, r)
  BY PushShift
<1>. DEFINE q == Plus(<<x, y>>, CalcShift(BottomWall(w, h), <<x, y>>, r + 10))
<1>3. /\ -2000 \in Int /\ h \in Int /\ w + 2000 \in Int /\ 2000 \in Int
  OBVIOUS
<1>4. Pushed(BottomWall(w, h), <<x, y>>, r) =
        IF /\ -r <= x - (-2000) /\ x - (-2000) <= (w + 2000) + r
           /\ -r <= y - (h) /\ y - (h) <= (2000) + r
        THEN q ELSE <<x, y>>
  BY <1>1, <1>3 DEF BottomWall
<1>5. q = IF y - (h) >= (2000) THEN <<x + 0, y + (r + 10)>>
          ELSE IF y - (h) <= 0 THEN <<x + 0, y + (-(r + 10))>>
          ELSE IF x - (-2000) >= (w + 2000) THEN <<x + (r + 10), y + 0>>
          ELSE IF x - (-2000) <= 0 THEN <<x + (-(r + 10)), y + 0>>
          ELSE <<x + 0, y + 1000>>
  BY <1>2, <1>3 DEF ShiftedBy, BottomWall
<1>. HIDE DEF q
<1>. QED
  BY <1>4, <1>5 DEF BottomPush

LEMMA LeftPushes ==
  ASSUME NEW w \in Nat, NEW h \in Nat, NEW r \in Nat, 10 <= r, 6 * r + 30 <= w, 6 * r + 30 <= h,
         NEW x \in Int, NEW y \in Int, 0 <= x, x <= w, 0 <= y, y <= h, y < h - r
  PROVE  Pushed(LeftWall(w, h), <<x, y>>, r) = <<LeftPush(x, r), y>>
<1>1. \A c, d, e, f \in Int :
        Pushed(Rect(<<c, d>>, e, f), <<x, y>>, r) =
          IF -r <= x - c /\ x - c <= e + r /\ -r <= y - d /\ y - d <= f + r
          THEN Plus(<<x, y>>, CalcShift(Rect(<<c, d>>, e, f), <<x, y>>, r + 10))
          ELSE <<x, y>>
  BY PushTest
<1>2. ShiftedBy(x, y, r)
  BY PushShift
<1>. DEFINE q == Plus(<<x, y>>, CalcShift(LeftWall(w, h), <<x, y>>, r + 10))
<1>3. /\ -2000 \in Int /\ -2000 \in Int /\ 2000 \in Int /\ h + 2000 \in Int
  OBVIOUS
<1>4. Pushed(LeftWall(w, h), <<x, y>>, r) =
        IF /\ -r <= x - (-2000) /\ x - (-2000) <= (2000) + r
           /\ -r <= y - (-2000) /\ y - (-2000) <= (h + 2000) + r
        THEN q ELSE <<x, y>>
  BY <1>1, <1>3 DEF LeftWall
<1>5. q = IF y - (-2000) >= (h + 2000) THEN <<x + 0, y + (r + 10)>>
          ELSE IF y - (-2000) <= 0 THEN <<x + 0, y + (-(r + 10))>>
          ELSE IF x - (-2000) >= (2000) THEN <<x + (r + 10), y + 0>>
          ELSE IF x - (-2000) <= 0 THEN <<x + (-(r + 10)), y + 0>>
          ELSE <<x + 0, y + 1000>>
  BY <1>2, <1>3 DEF ShiftedBy, LeftWall
<1>. HIDE DEF q
<1>. QED
  BY <1>4, <1>5 DEF LeftPush

\* A contact with b within k hundredths is one that the hit m knows of.
Knows(m, b, v, r) == \A k \in 0 .. 100 : InGrown(b, m.pos, v, r, k) => m.t <= k

\* One turn of collisionDetection's loop: the push and the contact are kept.
LEMMA MeetReached ==
  ASSUME NEW m \in Hits, NEW b \in Obstacles, b.shape = "rect", NEW v \in Points,
         NEW r \in Nat, NEW pos, pos = Pushed(b, m.pos, r), ~RectOverlap(b, pos, r),
         NEW n, n = Meet(m, b, v, r)
  PROVE  /\ n \in Hits /\ n.pos = pos /\ n.t <= m.t
         /\ Knows(n, b, v, r)
<1>. DEFINE t == RectContact(b, pos, v, r)
            u == IF 0 <= t /\ t <= 100 /\ t < m.t THEN t ELSE m.t
<1>1. m.pos \in Points /\ m.t \in 0 .. 101
  BY DEF Hits
<1>2. pos \in Points
  BY <1>1, PushedOK
<1>3. n = [pos |-> pos, t |-> u]
  BY DEF Meet, Contact
<1>4. t \in Int
  BY <1>2, RectContactOK
<1>5. \A k \in 0 .. 100 : InGrown(b, pos, v, r, k) => 0 <= t /\ t <= k
  BY <1>2, RectReached
<1>. HIDE DEF t
<1>6. u \in 0 .. 101 /\ u <= m.t /\ \A k \in 0 .. 100 : 0 <= t /\ t <= k => u <= k
  BY <1>1, <1>4
<1>. HIDE DEF u
<1>7. n \in Hits /\ n.pos = pos /\ n.t = u
  BY <1>2, <1>3, <1>6 DEF Hits
<1>. QED
  BY <1>5, <1>6, <1>7 DEF Knows

\* A hundredth of a slow vector is slower still.
LEMMA HundredthsOfSlow ==
  ASSUME NEW M \in Nat, NEW d \in Int, -M <= d, d <= M, NEW k \in 1 .. 100
  PROVE  k * d \in Int /\ -(100 * M) <= k * d /\ k * d <= 100 * M
<1>1. k \in Nat /\ 100 - k \in Nat /\ k * d \in Int /\ k * M \in Int
  OBVIOUS
<1>2. k * d <= k * M /\ k * (-d) <= k * M
  BY <1>1, Products
<1>3. (100 - k) * M >= 0
  BY <1>1
<1>4. k * (-d) = -(k * d) /\ (100 - k) * M = 100 * M - k * M
  OBVIOUS
<1>. DEFINE x == k * d
            y == k * M
            z == (100 - k) * M
<1>5. x \in Int /\ y \in Int /\ z \in Int
  OBVIOUS
<1>. HIDE DEF x, y, z
<1>6. x <= y /\ -x <= y /\ z >= 0 /\ z = 100 * M - y
  BY <1>2, <1>3, <1>4 DEF x, y, z
<1>7. -(100 * M) <= x /\ x <= 100 * M
  BY <1>5, <1>6
<1>. QED
  BY <1>5, <1>7 DEF x

\* InGrown, with the products named.
LEMMA InGrownAt ==
  ASSUME NEW b, NEW pos, NEW v, NEW r, NEW k \in Int, NEW da, NEW db,
         b.p[1] \in Int, b.p[2] \in Int, pos[1] \in Int, pos[2] \in Int,
         v[1] \in Int, v[2] \in Int, da = k * v[1], db = k * v[2]
  PROVE  InGrown(b, pos, v, r, k) <=>
           /\ -(100 * r) <= 100 * pos[1] - 100 * b.p[1] + da
           /\ 100 * pos[1] - 100 * b.p[1] + da <= 100 * (b.w + r)
           /\ -(100 * r) <= 100 * pos[2] - 100 * b.p[2] + db
           /\ 100 * pos[2] - 100 * b.p[2] + db <= 100 * (b.h + r)
<1>1. /\ After100(pos[1] - b.p[1], v[1], k) = 100 * pos[1] - 100 * b.p[1] + da
      /\ After100(pos[2] - b.p[2], v[2], k) = 100 * pos[2] - 100 * b.p[2] + db
  BY SMT DEF After100
<1>. QED
  BY <1>1 DEF InGrown

LEMMA LastIsLeast ==
  ASSUME NEW t1 \in Int, NEW t2 \in Int, NEW t3 \in Int, NEW t4 \in Int, NEW k \in Int,
         t2 <= t1, t3 <= t2, t4 <= t3, t1 <= k \/ t2 <= k \/ t3 <= k \/ t4 <= k
  PROVE  t4 <= k
OBVIOUS

\* The rectangle b pushes a node clear of itself, from p to q: one turn from the
\* hit m to the hit n.
Clears(b, p, q, m, n, v, r) ==
  /\ b \in Obstacles /\ b.shape = "rect"
  /\ q = Pushed(b, p, r) /\ ~RectOverlap(b, q, r)
  /\ n = Meet(m, b, v, r)

\* The hit m has the node at p.
HitAt(m, p) == m \in Hits /\ m.pos = p

LEMMA ClearsReached ==
  ASSUME NEW v \in Points, NEW r \in Nat, NEW m, NEW b, NEW p, HitAt(m, p), NEW q,
         NEW n, Clears(b, p, q, m, n, v, r)
  PROVE  HitAt(n, q) /\ n.t <= m.t /\ Knows(n, b, v, r)
<1>1. /\ m \in Hits /\ b \in Obstacles /\ b.shape = "rect"
      /\ q = Pushed(b, m.pos, r) /\ ~RectOverlap(b, q, r)
      /\ n = Meet(m, b, v, r)
  BY DEF Clears, HitAt
<1>2. /\ n \in Hits /\ n.pos = q /\ n.t <= m.t
      /\ Knows(n, b, v, r)
  BY <1>1, MeetReached
<1>. QED
  BY <1>2 DEF HitAt

LEMMA HitTimes ==
  ASSUME NEW m, NEW p, HitAt(m, p)
  PROVE  m.pos = p /\ m.t \in 0 .. 101 /\ m.t \in Int
BY DEF HitAt, Hits

LEMMA KnowsContact ==
  ASSUME NEW m, NEW p, HitAt(m, p), NEW b, NEW v, NEW r, Knows(m, b, v, r),
         NEW k \in 0 .. 100, InGrown(b, p, v, r, k)
  PROVE  m.t <= k
BY DEF HitAt, Knows

\* Slower than M along each axis.
Slow(M, v) == v[1] \in -M .. M /\ v[2] \in -M .. M

LEMMA RoundedWithin ==
  ASSUME NEW x \in Int, NEW c \in Nat, 0 <= x, x <= 100 * c
  PROVE  /\ 0 <= Rounded(x, 100) /\ Rounded(x, 100) <= c
         /\ Rounded(x, 100) \in Int
<1>1. Rounded(x, 100) \in Int
  BY RoundedOK
<1>2. x <= c * 100 => Rounded(x, 100) <= c
  BY RoundedBounds
<1>3. -(0 * 100) <= x => -0 <= Rounded(x, 100)
  BY RoundedBounds
<1>. QED
  BY <1>1, <1>2, <1>3

\* In a hundredth of a step at M a node does not cross half of a wall.
Steady(M) == M <= 100000

\* Whatever it has met before, the four walls keep a node inside.
LEMMA WallsHold ==
  ASSUME NEW M \in Nat, NEW r \in Nat, 10 <= r, Steady(M),
         M + 6 * r + 30 <= Width, M + 6 * r + 30 <= Height,
         NEW v \in Points, Slow(M, v),
         NEW m0 \in Hits, Inside(m0.pos),
         NEW m1, m1 = Meet(m0, Walls[1], v, r),
         NEW m2, m2 = Meet(m1, Walls[2], v, r),
         NEW m3, m3 = Meet(m2, Walls[3], v, r),
         NEW m4, m4 = Meet(m3, Walls[4], v, r)
  PROVE  Inside(Moved(m4.pos, v, Part(m4.t)))
<1>. DEFINE w == Width
            h == Height
            x0 == m0.pos[1]
            y0 == m0.pos[2]
            y1 == TopPush(y0, r)
            x2 == RightPush(x0, w, r)
            y3 == BottomPush(y1, h, r)
            x4 == LeftPush(x2, r)
            p1 == <<x0, y1>>
            p2 == <<x2, y1>>
            p3 == <<x2, y3>>
            p4 == <<x4, y3>>
            top    == TopWall(w, h)
            right  == RightWall(w, h)
            bottom == BottomWall(w, h)
            left   == LeftWall(w, h)
<1>1. Walls[1] = top /\ Walls[2] = right /\ Walls[3] = bottom /\ Walls[4] = left
  BY DEF Walls, TopWall, RightWall, BottomWall, LeftWall
<1>2. /\ w \in Nat /\ h \in Nat /\ 6 * r + 30 <= w /\ 6 * r + 30 <= h
      /\ M + 6 * r + 30 <= w /\ M + 6 * r + 30 <= h
  <2>1. Width \in Nat /\ Height \in Nat
    BY MobilityAssumption
  <2>. QED
    BY <2>1
<1>3. /\ x0 \in Int /\ y0 \in Int /\ 0 <= x0 /\ x0 <= w /\ 0 <= y0 /\ y0 <= h
      /\ m0.pos = <<x0, y0>>
  <2>1. m0.pos \in Points
    BY DEF Hits
  <2>. QED
    BY <1>2, <2>1 DEF Inside, Points
<1>4. /\ v = <<v[1], v[2]>> /\ v[1] \in Int /\ v[2] \in Int
      /\ -M <= v[1] /\ v[1] <= M /\ -M <= v[2] /\ v[2] <= M
  BY DEF Points, Slow
<1>. HIDE DEF w, h, x0, y0
<1>5. /\ top \in Obstacles /\ right \in Obstacles /\ bottom \in Obstacles /\ left \in Obstacles
      /\ top.shape = "rect" /\ right.shape = "rect" /\ bottom.shape = "rect"
      /\ left.shape = "rect"
  BY <1>2 DEF Rect, Obstacles, Points, TopWall, RightWall, BottomWall, LeftWall
<1>. HIDE DEF y1, x2, y3, x4
<1>6. /\ y1 \in Int /\ r < y1 /\ y1 <= h
      /\ x2 \in Int /\ 0 <= x2 /\ x2 < w - r
      /\ y3 \in Int /\ 0 <= y3 /\ y3 < h - r
      /\ x4 \in Int /\ r < x4 /\ x4 <= w
  <2>1. y1 \in Int /\ r < y1 /\ y1 <= h
    BY <1>2, <1>3 DEF y1, TopPush
  <2>2. x2 \in Int /\ 0 <= x2 /\ x2 < w - r
    BY <1>2, <1>3 DEF x2, RightPush
  <2>3. y3 \in Int /\ 0 <= y3 /\ y3 < h - r
    BY <1>2, <2>1 DEF y3, BottomPush
  <2>4. x4 \in Int /\ r < x4 /\ x4 <= w
    BY <1>2, <2>2 DEF x4, LeftPush
  <2>. QED
    BY <2>1, <2>2, <2>3, <2>4
<1>7. /\ p1 \in Points /\ p2 \in Points /\ p3 \in Points /\ p4 \in Points
      /\ p1[1] = x0 /\ p1[2] = y1 /\ p2[1] = x2 /\ p2[2] = y1
      /\ p3[1] = x2 /\ p3[2] = y3 /\ p4[1] = x4 /\ p4[2] = y3
  BY <1>3, <1>6 DEF Points
<1>8. /\ Pushed(top, m0.pos, r) = p1 /\ Pushed(right, p1, r) = p2
      /\ Pushed(bottom, p2, r) = p3 /\ Pushed(left, p3, r) = p4
  <2>1. Pushed(top, <<x0, y0>>, r) = <<x0, TopPush(y0, r)>>
    BY <1>2, <1>3, TopPushes
  <2>2. Pushed(right, <<x0, y1>>, r) = <<RightPush(x0, w, r), y1>>
    <3>1. 0 <= y1
      BY <1>6
    <3>. QED
      BY <1>2, <1>3, <1>6, <3>1, RightPushes
  <2>3. Pushed(bottom, <<x2, y1>>, r) = <<x2, BottomPush(y1, h, r)>>
    <3>1. 0 <= y1 /\ x2 <= w
      BY <1>2, <1>6
    <3>. QED
      BY <1>2, <1>6, <3>1, BottomPushes
  <2>4. Pushed(left, <<x2, y3>>, r) = <<LeftPush(x2, r), y3>>
    <3>1. x2 <= w /\ y3 <= h
      BY <1>2, <1>6
    <3>. QED
      BY <1>2, <1>6, <3>1, LeftPushes
  <2>. QED
    BY <1>3, <2>1, <2>2, <2>3, <2>4 DEF y1, x2, y3, x4
<1>. HIDE DEF p1, p2, p3, p4
<1>9. /\ ~RectOverlap(top, p1, r) /\ ~RectOverlap(right, p2, r)
      /\ ~RectOverlap(bottom, p3, r) /\ ~RectOverlap(left, p4, r)
  BY <1>2, <1>3, <1>6, <1>7
     DEF RectOverlap, Rect, Minus, TopWall, RightWall, BottomWall, LeftWall
<1>. DEFINE In(k) == \/ InGrown(top, p1, v, r, k) \/ InGrown(right, p2, v, r, k)
                     \/ InGrown(bottom, p3, v, r, k) \/ InGrown(left, p4, v, r, k)
<1>. HIDE DEF top, right, bottom, left
<1>b. /\ m1 = Meet(m0, top, v, r) /\ m2 = Meet(m1, right, v, r)
      /\ m3 = Meet(m2, bottom, v, r) /\ m4 = Meet(m3, left, v, r)
  BY <1>1
<1>10. /\ m4.pos = p4 /\ m4.t \in 0 .. 101
       /\ \A k \in 0 .. 100 : In(k) => m4.t <= k
  <2>. DEFINE p0 == m0.pos
  <2>1. /\ Clears(top, p0, p1, m0, m1, v, r) /\ Clears(right, p1, p2, m1, m2, v, r)
        /\ Clears(bottom, p2, p3, m2, m3, v, r) /\ Clears(left, p3, p4, m3, m4, v, r)
    BY <1>b, <1>5, <1>8, <1>9 DEF Clears
  <2>2. HitAt(m0, p0)
    BY DEF HitAt
  <2>. HIDE DEF p0
  <2>3. HitAt(m1, p1) /\ m1.t <= m0.t /\ Knows(m1, top, v, r)
    BY <2>1, <2>2, ClearsReached
  <2>4. HitAt(m2, p2) /\ m2.t <= m1.t /\ Knows(m2, right, v, r)
    BY <2>1, <2>3, ClearsReached
  <2>5. HitAt(m3, p3) /\ m3.t <= m2.t /\ Knows(m3, bottom, v, r)
    BY <2>1, <2>4, ClearsReached
  <2>6. HitAt(m4, p4) /\ m4.t <= m3.t /\ Knows(m4, left, v, r)
    BY <2>1, <2>5, ClearsReached
  <2>7. /\ m1.t \in Int /\ m2.t \in Int /\ m3.t \in Int
        /\ m4.t \in Int /\ m4.t \in 0 .. 101 /\ m4.pos = p4
    BY <2>3, <2>4, <2>5, <2>6, HitTimes
  <2>8. ASSUME NEW k \in 0 .. 100, In(k) PROVE m4.t <= k
    <3>1. k \in Int
      OBVIOUS
    <3>2. InGrown(top, p1, v, r, k) => m1.t <= k
      BY <2>3, KnowsContact
    <3>3. InGrown(right, p2, v, r, k) => m2.t <= k
      BY <2>4, KnowsContact
    <3>4. InGrown(bottom, p3, v, r, k) => m3.t <= k
      BY <2>5, KnowsContact
    <3>5. InGrown(left, p4, v, r, k) => m4.t <= k
      BY <2>6, KnowsContact
    <3>6. m1.t <= k \/ m2.t <= k \/ m3.t <= k \/ m4.t <= k
      BY <2>8, <3>2, <3>3, <3>4, <3>5
    <3>. QED
      BY <2>4, <2>5, <2>6, <2>7, <3>1, <3>6, LastIsLeast
  <2>. HIDE DEF In
  <2>9. \A k \in 0 .. 100 : In(k) => m4.t <= k
    BY <2>8
  <2>. QED
    BY <2>7, <2>9 DEF In
<1>d. \A k \in 0 .. 100 : k < m4.t => ~In(k)
  <2>. HIDE DEF In
  <2>1. \A k \in 0 .. 100 : In(k) => m4.t <= k
    BY <1>10 DEF In
  <2>2. m4.t \in Int /\ \A k \in 0 .. 100 : k \in Int
    BY <1>10
  <2>3. \A x, y \in Int : x < y => ~(y <= x)
    OBVIOUS
  <2>. QED
    BY <2>1, <2>2, <2>3
<1>. DEFINE a(k) == After100(x4, v[1], k)
            b(k) == After100(y3, v[2], k)
            Ok(k) == 0 <= a(k) /\ a(k) <= 100 * w /\ 0 <= b(k) /\ b(k) <= 100 * h
            part == Part(m4.t)
<1>11. part \in 0 .. 100 /\ \A k \in 1 .. part : k \in 0 .. 100 /\ k < m4.t
  BY <1>10 DEF Part
<1>12. \A k \in 0 .. 100 : a(k) \in Int /\ b(k) \in Int
  BY <1>4, <1>6 DEF After100
<1>c. /\ y1 = IF y0 <= r THEN y0 + r + 10 ELSE y0
      /\ x2 = IF x0 >= w - r THEN x0 - r - 10 ELSE x0
      /\ y3 = IF y1 >= h - r THEN y1 - r - 10 ELSE y1
      /\ x4 = IF x2 <= r THEN x2 + r + 10 ELSE x2
  BY DEF y1, x2, y3, x4, TopPush, RightPush, BottomPush, LeftPush
<1>13. ASSUME NEW k \in 1 .. 100, Ok(k - 1) PROVE Ok(k) \/ In(k)
  <2>. DEFINE A  == a(k)
              B  == b(k)
              da == k * v[1]
              db == k * v[2]
  <2>1. /\ da \in Int /\ -(100 * M) <= da /\ da <= 100 * M
        /\ db \in Int /\ -(100 * M) <= db /\ db <= 100 * M
    BY <1>4, HundredthsOfSlow
  <2>2. /\ A = 100 * x4 + da /\ B = 100 * y3 + db
        /\ a(k - 1) = A - v[1] /\ b(k - 1) = B - v[2]
    BY <1>4, <1>6 DEF After100
  <2>3. /\ 0 <= A - v[1] /\ A - v[1] <= 100 * w
        /\ 0 <= B - v[2] /\ B - v[2] <= 100 * h
    BY <1>13, <2>2
  <2>d. da = k * v[1] /\ db = k * v[2]
    OBVIOUS
  <2>6. Ok(k) <=> 0 <= A /\ A <= 100 * w /\ 0 <= B /\ B <= 100 * h
    OBVIOUS
  <2>. HIDE DEF A, B, da, db, a, b, Ok, In
  <2>7. /\ A \in Int /\ B \in Int
        /\ -(100 * M) <= A - 100 * x4 /\ A - 100 * x4 <= 100 * M
        /\ -(100 * M) <= B - 100 * y3 /\ B - 100 * y3 <= 100 * M
        /\ -100000 <= A /\ A <= 100 * w + 100000
        /\ -100000 <= B /\ B <= 100 * h + 100000
    BY <1>2, <1>4, <1>6, <2>1, <2>2, <2>3 DEF Steady
  <2>8. \/ 0 <= A /\ A <= 100 * w /\ 0 <= B /\ B <= 100 * h
        \/ /\ -(100 * r) <= A - 100 * x4 + 100 * x0
           /\ A - 100 * x4 + 100 * x0 <= 100 * (w + 2000 + r)
           /\ -(100 * r) <= B - 100 * y3 + 100 * y1 + 200000
           /\ B - 100 * y3 + 100 * y1 + 200000 <= 100 * (2000 + r)
        \/ /\ -(100 * r) <= A - 100 * x4 + 100 * x2 - 100 * w
           /\ A - 100 * x4 + 100 * x2 - 100 * w <= 100 * (2000 + r)
           /\ -(100 * r) <= B - 100 * y3 + 100 * y1
           /\ B - 100 * y3 + 100 * y1 <= 100 * (h + 2000 + r)
        \/ /\ -(100 * r) <= A - 100 * x4 + 100 * x2 + 200000
           /\ A - 100 * x4 + 100 * x2 + 200000 <= 100 * (w + 2000 + r)
           /\ -(100 * r) <= B - 100 * h
           /\ B - 100 * h <= 100 * (2000 + r)
        \/ /\ -(100 * r) <= A + 200000
           /\ A + 200000 <= 100 * (2000 + r)
           /\ -(100 * r) <= B + 200000
           /\ B + 200000 <= 100 * (h + 2000 + r)
    <3>1. x0 \in 0 .. w /\ y0 \in 0 .. h
      BY <1>2, <1>3
    <3>. QED
      BY <1>2, <1>6, <1>c, <2>7, <3>1, InsideOrInWall DEF Steady
  <2>9. /\ top.p[1] = 0 /\ top.p[2] = -2000 /\ top.w = w + 2000 /\ top.h = 2000
        /\ right.p[1] = w /\ right.p[2] = 0 /\ right.w = 2000 /\ right.h = h + 2000
        /\ bottom.p[1] = -2000 /\ bottom.p[2] = h /\ bottom.w = w + 2000 /\ bottom.h = 2000
        /\ left.p[1] = -2000 /\ left.p[2] = -2000 /\ left.w = 2000 /\ left.h = h + 2000
    BY DEF top, right, bottom, left, TopWall, RightWall, BottomWall, LeftWall, Rect
  <2>t. InGrown(top, p1, v, r, k) <=>
          /\ -(100 * r) <= 100 * x0 - 100 * 0 + da
          /\ 100 * x0 - 100 * 0 + da <= 100 * (w + 2000 + r)
          /\ -(100 * r) <= 100 * y1 - 100 * (-2000) + db
          /\ 100 * y1 - 100 * (-2000) + db <= 100 * (2000 + r)
    <3>1. top.p[1] \in Int /\ top.p[2] \in Int /\ p1[1] \in Int /\ p1[2] \in Int
      BY <1>2, <1>3, <1>6, <1>7, <2>9, SMT
    <3>2. InGrown(top, p1, v, r, k) <=>
            /\ -(100 * r) <= 100 * p1[1] - 100 * top.p[1] + da
            /\ 100 * p1[1] - 100 * top.p[1] + da <= 100 * (top.w + r)
            /\ -(100 * r) <= 100 * p1[2] - 100 * top.p[2] + db
            /\ 100 * p1[2] - 100 * top.p[2] + db <= 100 * (top.h + r)
      BY <1>4, <2>d, <3>1, InGrownAt, SMT
    <3>. QED
      BY <1>7, <2>9, <3>2, SMT
  <2>u. InGrown(right, p2, v, r, k) <=>
          /\ -(100 * r) <= 100 * x2 - 100 * w + da
          /\ 100 * x2 - 100 * w + da <= 100 * (2000 + r)
          /\ -(100 * r) <= 100 * y1 - 100 * 0 + db
          /\ 100 * y1 - 100 * 0 + db <= 100 * (h + 2000 + r)
    <3>1. right.p[1] \in Int /\ right.p[2] \in Int /\ p2[1] \in Int /\ p2[2] \in Int
      BY <1>2, <1>3, <1>6, <1>7, <2>9, SMT
    <3>2. InGrown(right, p2, v, r, k) <=>
            /\ -(100 * r) <= 100 * p2[1] - 100 * right.p[1] + da
            /\ 100 * p2[1] - 100 * right.p[1] + da <= 100 * (right.w + r)
            /\ -(100 * r) <= 100 * p2[2] - 100 * right.p[2] + db
            /\ 100 * p2[2] - 100 * right.p[2] + db <= 100 * (right.h + r)
      BY <1>4, <2>d, <3>1, InGrownAt, SMT
    <3>. QED
      BY <1>7, <2>9, <3>2, SMT
  <2>f. InGrown(bottom, p3, v, r, k) <=>
          /\ -(100 * r) <= 100 * x2 - 100 * (-2000) + da
          /\ 100 * x2 - 100 * (-2000) + da <= 100 * (w + 2000 + r)
          /\ -(100 * r) <= 100 * y3 - 100 * h + db
          /\ 100 * y3 - 100 * h + db <= 100 * (2000 + r)
    <3>1. bottom.p[1] \in Int /\ bottom.p[2] \in Int /\ p3[1] \in Int /\ p3[2] \in Int
      BY <1>2, <1>3, <1>6, <1>7, <2>9, SMT
    <3>2. InGrown(bottom, p3, v, r, k) <=>
            /\ -(100 * r) <= 100 * p3[1] - 100 * bottom.p[1] + da
            /\ 100 * p3[1] - 100 * bottom.p[1] + da <= 100 * (bottom.w + r)
            /\ -(100 * r) <= 100 * p3[2] - 100 * bottom.p[2] + db
            /\ 100 * p3[2] - 100 * bottom.p[2] + db <= 100 * (bottom.h + r)
      BY <1>4, <2>d, <3>1, InGrownAt, SMT
    <3>. QED
      BY <1>7, <2>9, <3>2, SMT
  <2>g. InGrown(left, p4, v, r, k) <=>
          /\ -(100 * r) <= 100 * x4 - 100 * (-2000) + da
          /\ 100 * x4 - 100 * (-2000) + da <= 100 * (2000 + r)
          /\ -(100 * r) <= 100 * y3 - 100 * (-2000) + db
          /\ 100 * y3 - 100 * (-2000) + db <= 100 * (h + 2000 + r)
    <3>1. left.p[1] \in Int /\ left.p[2] \in Int /\ p4[1] \in Int /\ p4[2] \in Int
      BY <1>2, <1>3, <1>6, <1>7, <2>9, SMT
    <3>2. InGrown(left, p4, v, r, k) <=>
            /\ -(100 * r) <= 100 * p4[1] - 100 * left.p[1] + da
            /\ 100 * p4[1] - 100 * left.p[1] + da <= 100 * (left.w + r)
            /\ -(100 * r) <= 100 * p4[2] - 100 * left.p[2] + db
            /\ 100 * p4[2] - 100 * left.p[2] + db <= 100 * (left.h + r)
      BY <1>4, <2>d, <3>1, InGrownAt, SMT
    <3>. QED
      BY <1>7, <2>9, <3>2, SMT
  <2>12. \/ Ok(k) \/ InGrown(top, p1, v, r, k) \/ InGrown(right, p2, v, r, k)
         \/ InGrown(bottom, p3, v, r, k) \/ InGrown(left, p4, v, r, k)
    BY <1>2, <1>3, <1>6, <2>1, <2>2, <2>6, <2>7, <2>8,
       <2>t, <2>u, <2>f, <2>g, SMT
  <2>. QED
    BY <2>12 DEF In
<1>14. \A k \in 0 .. part : Ok(k)
  <2>1. Ok(0)
    <3>1. a(0) = 100 * x4 /\ b(0) = 100 * y3
      BY <1>4, <1>6 DEF After100
    <3>. HIDE DEF a, b
    <3>. QED
      BY <1>2, <1>6, <3>1
  <2>2. ASSUME NEW k \in 1 .. part, Ok(k - 1) PROVE Ok(k)
    <3>1. k \in 1 .. 100 /\ k \in 0 .. 100 /\ k < m4.t
      BY <1>11
    <3>2. ~In(k)
      <4>. HIDE DEF In
      <4>. QED
        BY <1>d, <3>1
    <3>. HIDE DEF In, Ok
    <3>. QED
      BY <1>13, <2>2, <3>1, <3>2
  <2>. DEFINE T == {k \in 0 .. part : Ok(k)}
  <2>. HIDE DEF Ok, part
  <2>3. 0 \in T
    BY <1>11, <2>1
  <2>4. \A k \in 1 .. part : k - 1 \in T => k \in T
    BY <1>11, <2>2
  <2>5. part \in Nat
    BY <1>11
  <2>. HIDE DEF T
  <2>6. \A k \in 0 .. part : k \in T
    BY <2>3, <2>4, <2>5, Upto
  <2>. QED
    BY <2>6 DEF T
<1>15. Ok(part) /\ part \in Int
  <2>1. part \in Int /\ part \in 0 .. part
    BY <1>11
  <2>. HIDE DEF Ok, part
  <2>. QED
    BY <1>14, <2>1, SMTT(40)
<1>. HIDE DEF part
<1>16. Moved(m4.pos, v, part) = <<Rounded(a(part), 100), Rounded(b(part), 100)>>
  BY <1>10 DEF Moved, After100, p4
<1>17. a(part) \in Int /\ b(part) \in Int
  BY <1>11, <1>12
<1>. HIDE DEF a, b
<1>18. /\ 0 <= Rounded(a(part), 100) /\ Rounded(a(part), 100) <= w
       /\ 0 <= Rounded(b(part), 100) /\ Rounded(b(part), 100) <= h
       /\ Rounded(a(part), 100) \in Int /\ Rounded(b(part), 100) \in Int
  <2>1. 0 <= a(part) /\ a(part) <= 100 * w /\ 0 <= b(part) /\ b(part) <= 100 * h
    BY <1>15
  <2>2. w \in Nat /\ h \in Nat
    BY <1>2
  <2>. QED
    BY <1>17, <2>1, <2>2, RoundedWithin
<1>19. Inside(<<Rounded(a(part), 100), Rounded(b(part), 100)>>)
  BY <1>2, <1>18 DEF Inside, w, h
<1>. QED
  BY <1>16, <1>19 DEF part

-----------------------------------------------------------------------------
(* Vectors of a bounded length                                             *)

LEMMA RootOfSquares ==
  ASSUME NEW a \in Int, NEW b \in Int, NEW r \in Nat, a * a + b * b <= r * r
  PROVE  -r <= a /\ a <= r
<1>1. Abs(a) \in Nat /\ (Abs(a) <= r => -r <= a /\ a <= r)
  BY DEF Abs
<1>2. a * a = Abs(a) * Abs(a)
  BY DEF Abs
<1>3. b * b >= 0 /\ a * a \in Int /\ b * b \in Int /\ r * r \in Int
  OBVIOUS
<1>4. ~(r * r < Abs(a) * Abs(a))
  <2>. DEFINE A == a * a
              B == b * b
              C == r * r
  <2>1. A \in Int /\ B \in Int /\ C \in Int /\ B >= 0 /\ A + B <= C
    BY <1>3
  <2>. HIDE DEF A, B, C
  <2>2. ~(C < A)
    BY <2>1
  <2>. QED
    BY <1>2, <2>2 DEF A, C
<1>5. Abs(a) <= r
  <2>1. ASSUME r + 1 <= Abs(a) PROVE r * r < Abs(a) * Abs(a)
    <3>1. r * r < (r + 1) * (r + 1)
      OBVIOUS
    <3>2. (r + 1) * (r + 1) <= (r + 1) * Abs(a)
      BY <1>1, <2>1, Products
    <3>3. Abs(a) * (r + 1) <= Abs(a) * Abs(a)
      BY <1>1, <2>1, Products
    <3>4. (r + 1) * Abs(a) = Abs(a) * (r + 1)
      BY <1>1
    <3>. DEFINE A == Abs(a) * Abs(a)
                B == (r + 1) * Abs(a)
                C == (r + 1) * (r + 1)
                D == r * r
    <3>5. A \in Int /\ B \in Int /\ C \in Int /\ D \in Int
      BY <1>1
    <3>6. D < C /\ C <= B /\ B <= A
      BY <3>1, <3>2, <3>3, <3>4
    <3>. HIDE DEF A, B, C, D
    <3>7. D < A
      BY <3>5, <3>6
    <3>. QED
      BY <3>7 DEF A, D
  <2>. QED
    BY <1>1, <1>4, <2>1
<1>. QED
  BY <1>1, <1>5

\* A point within r of another is within r along each axis.
\* Points that are near each other are near along each axis.
LEMMA NearAxes ==
  ASSUME NEW p \in Points, NEW q \in Points, NEW r \in Nat, Near(p, q, r)
  PROVE  Slow(r, Minus(p, q))
<1>. DEFINE a == p[1] - q[1]
            b == p[2] - q[2]
<1>1. a \in Int /\ b \in Int
  BY DEF Points
<1>2. Minus(p, q) = <<a, b>>
  BY DEF Minus
<1>3. a * a + b * b <= r * r
  BY DEF Near, Dot, Minus
<1>. HIDE DEF a, b
<1>4. b * b + a * a <= r * r
  BY <1>1, <1>3
<1>5. -r <= a /\ a <= r /\ -r <= b /\ b <= r
  BY <1>1, <1>3, <1>4, RootOfSquares
<1>. QED
  BY <1>1, <1>2, <1>5 DEF Slow

\* x lies on the way from 0 to a.
OnWay(x, a) == IF a >= 0 THEN x \in 0 .. a ELSE x \in a .. 0

\* One coordinate of a vector of length n, scaled to the length s.
LEMMA ScaledAxis ==
  ASSUME NEW a \in Int, NEW n \in Nat \ {0}, NEW s \in Nat, Abs(a) <= n
  PROVE  /\ Rounded(a * s, n) \in -s .. s
         /\ s <= n => OnWay(Rounded(a * s, n), a)
<1>1. -n <= a /\ a <= n /\ a * s \in Int
  BY DEF Abs
<1>2. s * a <= s * n /\ s * (-n) <= s * a
  BY <1>1, Products
<1>3. a * s <= s * n /\ -(s * n) <= a * s
  BY <1>1, <1>2
<1>4. Rounded(a * s, n) <= s /\ -s <= Rounded(a * s, n) /\ Rounded(a * s, n) \in Int
  BY <1>1, <1>3, RoundedBounds, RoundedOK
<1>5. ASSUME s <= n, a >= 0 PROVE Rounded(a * s, n) \in 0 .. a
  <2>1. a \in Nat /\ a * s <= a * n
    BY <1>5, Products
  <2>2. a * s >= 0
    BY <1>5
  <2>3. -(0 * n) <= a * s
    BY <2>2
  <2>4. Rounded(a * s, n) <= a /\ -0 <= Rounded(a * s, n)
    BY <1>1, <2>1, <2>3, RoundedBounds
  <2>. QED
    BY <1>4, <2>1, <2>4
<1>6. ASSUME s <= n, a < 0 PROVE Rounded(a * s, n) \in a .. 0
  <2>. DEFINE c == -a
  <2>1. c \in Nat /\ c * s <= c * n
    BY <1>6, Products
  <2>2. a * s = -(c * s) /\ c * s >= 0
    BY <1>6
  <2>3. -(c * n) <= a * s /\ a * s <= 0 * n
    <3>. DEFINE x == c * s
                y == c * n
                z == a * s
    <3>1. x \in Int /\ y \in Int /\ z \in Int
      BY <2>1
    <3>2. x <= y /\ z = -x /\ x >= 0
      BY <2>1, <2>2
    <3>. HIDE DEF x, y, z
    <3>3. -y <= z /\ z <= 0
      BY <3>1, <3>2
    <3>. QED
      BY <3>3 DEF y, z
  <2>4. Rounded(a * s, n) <= 0 /\ -c <= Rounded(a * s, n)
    <3>. HIDE DEF c
    <3>. QED
      BY <1>1, <2>1, <2>3, RoundedBounds
  <2>. QED
    BY <1>4, <2>1, <2>4
<1>. QED
  BY <1>4, <1>5, <1>6 DEF OnWay

\* A vector of length s: no longer than s along an axis, nor than the way it is
\* taken from when that is longer than s.
LEMMA AlongBounds ==
  ASSUME NEW d \in Points, NEW s \in Nat
  PROVE  /\ Along(d, s) \in Points /\ Slow(s, Along(d, s))
         /\ ~(Dot(d, d) <= s * s) =>
              OnWay(Along(d, s)[1], d[1]) /\ OnWay(Along(d, s)[2], d[2])
<1>1. d[1] \in Int /\ d[2] \in Int /\ Along(d, s) \in Points
  <2>1. s \in Int
    OBVIOUS
  <2>2. Along(d, s) \in Points
    BY <2>1, AlongOK
  <2>. QED
    BY <2>2 DEF Points
<1>2. CASE d = Zero
  <2>1. Along(d, s) = <<0, 0>> /\ d[1] = 0 /\ d[2] = 0
    BY <1>2 DEF Along, Zero
  <2>2. 0 \in -s .. s /\ OnWay(0, 0)
    BY DEF OnWay
  <2>. QED
    BY <1>1, <2>1, <2>2 DEF Slow
<1>3. CASE d # Zero
  <2>. DEFINE n == Length(d)
  <2>1. /\ n \in Nat \ {0} /\ Abs(d[1]) <= n /\ Abs(d[2]) <= n
        /\ Dot(d, d) < (n + 1) * (n + 1)
    BY <1>3, LengthOK
  <2>2. Along(d, s) = <<Rounded(d[1] * s, n), Rounded(d[2] * s, n)>>
    BY <1>3 DEF Along
  <2>. HIDE DEF n
  <2>3. ~(Dot(d, d) <= s * s) => s <= n
    <3>. DEFINE D == Dot(d, d)
                S == s * s
                N == (n + 1) * (n + 1)
    <3>1. D \in Int /\ S \in Int /\ N \in Int /\ D < N
      BY <1>1, <2>1 DEF Dot
    <3>. HIDE DEF D, S, N
    <3>2. ~(D <= S) => S < N
      BY <3>1
    <3>3. S < N => s < n + 1
      BY <2>1, SquaresGrow DEF S, N
    <3>. QED
      BY <2>1, <3>2, <3>3 DEF D, S
  <2>4. /\ Rounded(d[1] * s, n) \in -s .. s /\ Rounded(d[2] * s, n) \in -s .. s
        /\ s <= n => OnWay(Rounded(d[1] * s, n), d[1]) /\ OnWay(Rounded(d[2] * s, n), d[2])
    BY <1>1, <2>1, ScaledAxis
  <2>. QED
    BY <1>1, <2>2, <2>3, <2>4 DEF Slow
<1>. QED
  BY <1>2, <1>3

\* A step towards the target is no longer than s along an axis, and ends between
\* the point and the target.
LEMMA StepBounds ==
  ASSUME NEW p \in Points, NEW target \in Points, NEW s \in Nat
  PROVE  /\ Step(p, target, s) \in Points /\ Slow(s, Step(p, target, s))
         /\ Inside(p) /\ Inside(target) => Inside(Plus(p, Step(p, target, s)))
<1>. DEFINE to == Minus(target, p)
            e  == Step(p, target, s)
<1>1. /\ p[1] \in Int /\ p[2] \in Int /\ target[1] \in Int /\ target[2] \in Int
      /\ to \in Points /\ to[1] = target[1] - p[1] /\ to[2] = target[2] - p[2]
  BY DEF Points, Minus
<1>2. Width \in Nat /\ Height \in Nat
  BY MobilityAssumption
<1>3. e \in Points /\ Slow(s, e) /\ OnWay(e[1], to[1]) /\ OnWay(e[2], to[2])
  <2>1. CASE Near(target, p, s)
    <3>1. e = to
      BY <2>1 DEF Step
    <3>2. Slow(s, to)
      BY <2>1, NearAxes
    <3>3. \A a \in Int : OnWay(a, a)
      BY DEF OnWay
    <3>. HIDE DEF to, e
    <3>. QED
      BY <1>1, <3>1, <3>2, <3>3
  <2>2. CASE ~Near(target, p, s)
    <3>1. e = Along(to, s) /\ ~(Dot(to, to) <= s * s)
      BY <2>2 DEF Step, Near
    <3>. HIDE DEF to, e
    <3>. QED
      BY <1>1, <3>1, AlongBounds
  <2>. QED
    BY <2>1, <2>2
<1>. HIDE DEF to, e
<1>4. \A x, a, d \in Int, n \in Nat :
        x \in 0 .. n /\ x + a \in 0 .. n /\ OnWay(d, a) => x + d \in 0 .. n
  BY DEF OnWay
<1>5. ASSUME Inside(p), Inside(target) PROVE Inside(Plus(p, e))
  <2>1. p[1] + to[1] = target[1] /\ p[2] + to[2] = target[2]
    BY <1>1
  <2>2. e[1] \in Int /\ e[2] \in Int /\ to[1] \in Int /\ to[2] \in Int
    BY <1>1, <1>3 DEF Points
  <2>3. p[1] + e[1] \in 0 .. Width /\ p[2] + e[2] \in 0 .. Height
    BY <1>1, <1>2, <1>3, <1>4, <1>5, <2>1, <2>2, ZenonT(40) DEF Inside
  <2>. QED
    BY <2>3 DEF Inside, Plus
<1>. QED
  BY <1>3, <1>5 DEF e

-----------------------------------------------------------------------------
(* Roomy scenarios                                                         *)

\* What Roomy says of one kind of node.
LEMMA RoomyKind ==
  ASSUME NEW M \in Nat, Roomy(M), NEW k \in Kinds
  PROVE  /\ 10 <= Radius[k] /\ M <= 100000
         /\ VMin[k] \in Nat /\ VMax[k] \in Nat /\ Radius[k] \in Nat
         /\ VMin[k] + VMax[k] <= M
         /\ k \in FollowKinds \cup {"Era"} =>
              (VMin[k] + VMax[k]) * (VMin[k] + VMax[k]) <= 1000 * M
         /\ M + 6 * Radius[k] + 30 <= Width /\ M + 6 * Radius[k] + 30 <= Height
<1>1. VMin[k] \in Nat /\ VMax[k] \in Nat /\ Radius[k] \in Nat
  BY MobilityAssumption
<1>2. Width \in Nat /\ Height \in Nat
  BY MobilityAssumption
<1>3. /\ M <= 100000 /\ 10 <= Radius[k] /\ VMin[k] + VMax[k] <= M
      /\ k \in FollowKinds \cup {"Era"} =>
           (VMin[k] + VMax[k]) * (VMin[k] + VMax[k]) <= 1000 * M
      /\ M + 3 * (2 * Radius[k] + 10) <= Width /\ M + 3 * (2 * Radius[k] + 10) <= Height
  BY DEF Roomy, Clearance
<1>. QED
  BY <1>1, <1>2, <1>3

\* What it says of a building.
LEMMA RoomyBuilding ==
  ASSUME NEW M \in Nat, Roomy(M), NEW k \in Kinds, NEW i \in 1 .. Len(Buildings)
  PROVE  Apart(Buildings[i], 2 * Radius[k] + Clearance)
<1>1. DOMAIN Buildings = 1 .. Len(Buildings)
  BY MobilityAssumption, LenProperties
<1>2. \A j \in DOMAIN Buildings : Apart(Buildings[j], 2 * Radius[k] + Clearance)
  BY DEF Roomy
<1>. QED
  BY <1>1, <1>2, Zenon

\* At a point that is not inside the rectangle, CalcShift moves along one axis.
LEMMA CalcShiftSlow ==
  ASSUME NEW b \in Obstacles, NEW pos \in Points, NEW s \in Nat,
         b.shape = "rect", ~PointInside(b, pos)
  PROVE  CalcShift(b, pos, s) \in Points /\ Slow(s, CalcShift(b, pos, s))
<1>1. CalcShift(b, pos, s) \in {<<0, s>>, <<0, -s>>, <<s, 0>>, <<-s, 0>>}
  <2>1. b.p \in Points /\ b.w \in Nat /\ b.h \in Nat
    BY DEF Obstacles
  <2>2. ~(/\ 0 < pos[1] - b.p[1] /\ pos[1] - b.p[1] < b.w
          /\ 0 < pos[2] - b.p[2] /\ pos[2] - b.p[2] < b.h)
    BY DEF PointInside, Minus
  <2>. QED
    BY <2>1, <2>2 DEF CalcShift, Minus, Points
<1>2. 0 \in Int /\ s \in Int /\ -s \in Int /\ 0 \in -s .. s /\ s \in -s .. s /\ -s \in -s .. s
  OBVIOUS
<1>. QED
  BY <1>1, <1>2 DEF Points, Slow

\* x is within reach of a building from p to q, and moved by s at most.
LEMMA ShiftStays ==
  ASSUME NEW r \in Nat, NEW p \in Int, NEW q \in Int, NEW size \in Nat,
         2 * r + 10 <= p, q <= size - (2 * r + 10),
         NEW x \in Int, p - r <= x, x <= q + r, NEW e \in -(r + 10) .. (r + 10)
  PROVE  x + e \in 0 .. size
OBVIOUS

\* A building pushes no node out of a roomy scenario.
LEMMA PushStays ==
  ASSUME NEW b \in Obstacles, b.shape \in {"rect", "circle"}, NEW r \in Nat,
         Apart(b, 2 * r + Clearance), NEW pos \in Points, Inside(pos)
  PROVE  Inside(Pushed(b, pos, r))
<1>. DEFINE x == pos[1]
            y == pos[2]
            px == b.p[1]
            py == b.p[2]
            qx == px + b.w + b.r
            qy == py + b.h + b.r
            s == r + 10
            away == 2 * r + 10
<1>1. /\ x \in Int /\ y \in Int /\ px \in Int /\ py \in Int /\ b.p \in Points
      /\ b.w \in Nat /\ b.h \in Nat /\ b.r \in Nat /\ qx \in Int /\ qy \in Int
      /\ Width \in Nat /\ Height \in Nat /\ s \in Nat
  BY MobilityAssumption DEF Obstacles, Points
<1>2. /\ away <= px - b.r /\ qx <= Width - away
      /\ away <= py - b.r /\ qy <= Height - away
  BY DEF Apart, Clearance
<1>3. ASSUME NodeOverlap(b, pos, r)
      PROVE  px - b.r - r <= x /\ x <= qx + r /\ py - b.r - r <= y /\ y <= qy + r
  <2>1. CASE b.shape = "rect"
    <3>1. -r <= x - px /\ x - px <= b.w + r /\ -r <= y - py /\ y - py <= b.h + r
      BY <1>3, <2>1 DEF NodeOverlap, RectOverlap, Minus
    <3>. HIDE DEF x, y, px, py
    <3>. QED
      BY <1>1, <3>1
  <2>2. CASE b.shape # "rect"
    <3>1. Near(b.p, pos, b.r + r) /\ b.r + r \in Nat
      BY <1>1, <1>3, <2>2 DEF NodeOverlap, CircleOverlap
    <3>2. Slow(b.r + r, Minus(b.p, pos))
      BY <1>1, <3>1, NearAxes
    <3>3. px - x \in -(b.r + r) .. (b.r + r) /\ py - y \in -(b.r + r) .. (b.r + r)
      BY <3>2 DEF Slow, Minus
    <3>. HIDE DEF x, y, px, py
    <3>. QED
      BY <1>1, <3>3
  <2>. QED
    BY <2>1, <2>2
<1>4. ASSUME NodeOverlap(b, pos, r), b.shape # "rect" \/ ~PointInside(b, pos)
      PROVE  \E e \in Points : Slow(s, e) /\ Pushed(b, pos, r) = Plus(pos, e)
  <2>1. CASE b.shape = "rect" /\ ~PointInside(b, pos)
    <3>1. Pushed(b, pos, r) = Plus(pos, CalcShift(b, pos, s))
      BY <1>4, <2>1 DEF Pushed, Clearance
    <3>. QED
      BY <1>1, <2>1, <3>1, CalcShiftSlow
  <2>2. CASE b.shape # "rect"
    <3>1. Pushed(b, pos, r) = Plus(pos, Along(Minus(pos, b.p), s))
      BY <1>4, <2>2 DEF Pushed, Clearance
    <3>2. Minus(pos, b.p) \in Points
      BY <1>1, PlusMinusOK
    <3>. HIDE DEF s
    <3>3. Along(Minus(pos, b.p), s) \in Points /\ Slow(s, Along(Minus(pos, b.p), s))
      BY <1>1, <3>2, AlongBounds
    <3>. QED
      BY <3>1, <3>3
  <2>. QED
    BY <1>4, <2>1, <2>2
<1>5. CASE NodeOverlap(b, pos, r) /\ (b.shape # "rect" \/ ~PointInside(b, pos))
  <2>1. PICK e \in Points : Slow(s, e) /\ Pushed(b, pos, r) = Plus(pos, e)
    BY <1>4, <1>5
  <2>2. px - b.r - r <= x /\ x <= qx + r /\ py - b.r - r <= y /\ y <= qy + r
    BY <1>3, <1>5
  <2>3. e[1] \in -s .. s /\ e[2] \in -s .. s
    BY <2>1 DEF Slow
  <2>4. Plus(pos, e) = <<x + e[1], y + e[2]>>
    BY DEF Plus
  <2>5. px - b.r \in Int /\ py - b.r \in Int
    BY <1>1
  <2>. HIDE DEF x, y, px, py, qx, qy
  <2>6. x + e[1] \in 0 .. Width
    BY <1>1, <1>2, <2>2, <2>3, <2>5, ShiftStays
  <2>7. y + e[2] \in 0 .. Height
    BY <1>1, <1>2, <2>2, <2>3, <2>5, ShiftStays
  <2>. QED
    BY <2>1, <2>4, <2>6, <2>7 DEF Inside
<1>6. CASE NodeOverlap(b, pos, r) /\ b.shape = "rect" /\ PointInside(b, pos)
  <2>1. 0 < x - px /\ x - px < b.w /\ 0 < y - py /\ y - py < b.h
    BY <1>6 DEF PointInside, Minus
  <2>2. Pushed(b, pos, r) = <<x, y + 1000>>
    <3>1. CalcShift(b, pos, s) = DefaultVector
      BY <1>1, <2>1 DEF CalcShift, Minus
    <3>2. Pushed(b, pos, r) = Plus(pos, DefaultVector)
      BY <1>6, <3>1 DEF Pushed, Clearance
    <3>3. x + 0 = x
      BY <1>1
    <3>. QED
      BY <3>2, <3>3 DEF Plus, DefaultVector
  <2>3. py + b.h <= Height - 1000
    BY <1>6 DEF Apart, DefaultVector
  <2>4. x \in 0 .. Width /\ y \in 0 .. Height
    BY DEF Inside
  <2>5. y + 1000 \in 0 .. Height
    <3>. HIDE DEF x, y, py
    <3>. QED
      BY <1>1, <2>1, <2>3, <2>4
  <2>. QED
    BY <2>2, <2>4, <2>5 DEF Inside
<1>7. CASE ~NodeOverlap(b, pos, r)
  BY <1>7 DEF Pushed
<1>. QED
  BY <1>5, <1>6, <1>7

-----------------------------------------------------------------------------
(* A move in a roomy scenario                                              *)

\* An obstacle that pushes no node of radius r out of the scenario.
Harmless(r) ==
  {b \in Obstacles :
     \/ b.shape = "node"
     \/ b.shape \in {"rect", "circle"} /\ Apart(b, 2 * r + Clearance)}

\* The first c objects are harmless, the walls are the last ones.
WallsLast(objects, c, r) ==
  /\ Len(objects) = c + 4
  /\ \A k \in 1 .. c : objects[k] \in Harmless(r)
  /\ \A k \in 1 .. 4 : objects[c + k] = Walls[k]

\* What a node can run into in a roomy scenario.
LEMMA RoomyObjects ==
  ASSUME NEW M \in Nat, Roomy(M), Bounded, NEW ns, IsNodes(ns), NEW i \in 1 .. Len(ns),
         NEW kind \in Kinds
  PROVE  \E c \in Nat : WallsLast(Objects(ns, i), c, Radius[kind])
<1>. DEFINE S == Harmless(Radius[kind])
            front == (IF model \in Physical THEN OtherNodes(ns, i) ELSE <<>>) \o Buildings
<1>1. Len(ns) \in Nat
  BY DEF IsNodes
<1>2. ASSUME NEW k \in 1 .. Len(ns)
      PROVE  NodeDisc(ns[k].pos, Radius[ns[k].kind]) \in S
  <2>1. ns[k].pos \in Points /\ ns[k].kind \in Kinds
    BY DEF IsNodes, NodeOK
  <2>2. Radius[ns[k].kind] \in Nat
    BY <2>1, MobilityAssumption
  <2>. QED
    BY <2>1, <2>2 DEF NodeDisc, Obstacles, Harmless
<1>3. \A k \in 1 .. Len(Buildings) : Buildings[k] \in S
  BY RoomyBuilding, BuildingOK DEF Harmless
<1>. HIDE DEF S
<1>4. OtherNodes(ns, i) \in Seq(S) /\ Buildings \in Seq(S) /\ <<>> \in Seq(S)
  BY <1>1, <1>2, <1>3, OtherNodesOK, BuildingsOK
<1>5. front \in Seq(S)
  BY <1>4, ConcatProperties
<1>6. Objects(ns, i) = front \o Walls
  BY DEF Objects
<1>. HIDE DEF front
<1>. DEFINE c == Len(front)
<1>7. c \in Nat /\ \A k \in 1 .. c : front[k] \in S
  BY <1>5, LenProperties, ElementOfSeq
<1>8. front \in Seq(Obstacles)
  <2>1. S \subseteq Obstacles
    BY DEF S, Harmless
  <2>2. front \in [1 .. c -> Obstacles] /\ c \in Int
    <3>1. front \in [1 .. c -> S]
      BY <1>5, LenProperties
    <3>. QED
      BY <1>7, <2>1, <3>1
  <2>. QED
    BY <2>2, FunctionIsSeq
<1>9. /\ Len(front \o Walls) = c + 4
      /\ \A k \in 1 .. c : (front \o Walls)[k] = front[k]
      /\ \A k \in 1 .. 4 : (front \o Walls)[c + k] = Walls[k]
  <2>1. /\ Len(front \o Walls) = c + Len(Walls)
        /\ \A k \in 1 .. c : (front \o Walls)[k] = front[k]
        /\ \A k \in 1 .. Len(Walls) : (front \o Walls)[c + k] = Walls[k]
    <3>1. Walls \in Seq(Obstacles)
      BY WallsOK
    <3>. QED
      BY <1>8, <3>1, ConcatAt
  <2>. QED
    BY <2>1, WallsOK
<1>. HIDE DEF c
<1>10. WallsLast(Objects(ns, i), c, Radius[kind])
  BY <1>6, <1>7, <1>9, Zenon DEF WallsLast, S
<1>. QED
  BY <1>7, <1>10

\* A node that has met harmless objects only is inside.
LEMMA HarmlessMet ==
  ASSUME NEW m \in Hits, Inside(m.pos), NEW r \in Nat, NEW b \in Harmless(r), NEW v
  PROVE  Inside(Meet(m, b, v, r).pos)
<1>1. Meet(m, b, v, r).pos = Pushed(b, m.pos, r)
  BY DEF Meet
<1>2. m.pos \in Points /\ b \in Obstacles
  BY DEF Hits, Harmless
<1>3. CASE b.shape = "node"
  BY <1>1, <1>3 DEF Pushed
<1>4. CASE b.shape # "node"
  <2>1. b.shape \in {"rect", "circle"} /\ Apart(b, 2 * r + Clearance)
    BY <1>4 DEF Harmless
  <2>. QED
    BY <1>1, <1>2, <2>1, PushStays
<1>. QED
  BY <1>3, <1>4

\* Whatever is in its way, a node that starts inside ends its move inside.
LEMMA CollideStays ==
  ASSUME NEW M \in Nat, Roomy(M), NEW n, NodeOK(n), Inside(n.pos), Slow(M, n.v),
         NEW objects \in Seq(Obstacles), NEW c \in Nat,
         WallsLast(objects, c, Radius[n.kind])
  PROVE  Inside(Collide(n, objects).pos)
<1>. DEFINE r == Radius[n.kind]
            v == n.v
<1>1. PICK H \in [0 .. Len(objects) -> Hits] : Course(n, objects, H)
  BY CourseExists
<1>2. Len(objects) = c + 4 /\ H \in [0 .. c + 4 -> Hits]
  BY <1>1 DEF WallsLast
<1>3. n.kind \in Kinds /\ n.pos \in Points /\ v \in Points /\ Slow(M, v)
  BY DEF NodeOK
<1>4. /\ r \in Nat /\ 10 <= r /\ M <= 100000
      /\ M + 6 * r + 30 <= Width /\ M + 6 * r + 30 <= Height
  BY <1>3, RoomyKind
<1>5. /\ H[0] = [pos |-> n.pos, t |-> 101]
      /\ \A k \in 1 .. c + 4 : H[k] = Meet(H[k - 1], objects[k], v, r)
  BY <1>1, <1>2, Zenon DEF Course
<1>. HIDE DEF r, v
<1>6. Inside(H[c].pos)
  <2>. DEFINE T == {k \in 0 .. c : Inside(H[k].pos)}
  <2>1. 0 \in T
    BY <1>5
  <2>2. ASSUME NEW k \in 1 .. c, k - 1 \in T PROVE k \in T
    <3>1. k \in 1 .. c + 4 /\ k - 1 \in 0 .. c + 4 /\ k \in 0 .. c
      OBVIOUS
    <3>2. H[k - 1] \in Hits /\ Inside(H[k - 1].pos) /\ objects[k] \in Harmless(r)
      BY <1>2, <2>2, <3>1 DEF WallsLast, r
    <3>3. Inside(Meet(H[k - 1], objects[k], v, r).pos)
      BY <1>4, <3>2, HarmlessMet
    <3>. QED
      BY <1>5, <3>1, <3>3
  <2>. HIDE DEF T
  <2>3. \A k \in 1 .. c : k - 1 \in T => k \in T
    BY <2>2
  <2>4. \A k \in 0 .. c : k \in T
    BY <2>1, <2>3, Upto
  <2>. QED
    BY <2>4 DEF T
<1>7. /\ H[c + 1] = Meet(H[c], Walls[1], v, r)
      /\ H[c + 2] = Meet(H[c + 1], Walls[2], v, r)
      /\ H[c + 3] = Meet(H[c + 2], Walls[3], v, r)
      /\ H[c + 4] = Meet(H[c + 3], Walls[4], v, r)
  <2>1. ASSUME NEW k \in 1 .. c + 4, NEW j, k - 1 = j, NEW w, objects[k] = w
        PROVE  H[k] = Meet(H[j], w, v, r)
    BY <1>5, <2>1
  <2>2. H[c + 1] = Meet(H[c], Walls[1], v, r)
    <3>1. c + 1 \in 1 .. c + 4 /\ (c + 1) - 1 = c
      OBVIOUS
    <3>2. objects[c + 1] = Walls[1]
      BY DEF WallsLast
    <3>. QED
      BY <2>1, <3>1, <3>2, Zenon
  <2>3. H[c + 2] = Meet(H[c + 1], Walls[2], v, r)
    <3>1. c + 2 \in 1 .. c + 4 /\ (c + 2) - 1 = c + 1
      OBVIOUS
    <3>2. objects[c + 2] = Walls[2]
      BY DEF WallsLast
    <3>. QED
      BY <2>1, <3>1, <3>2, Zenon
  <2>4. H[c + 3] = Meet(H[c + 2], Walls[3], v, r)
    <3>1. c + 3 \in 1 .. c + 4 /\ (c + 3) - 1 = c + 2
      OBVIOUS
    <3>2. objects[c + 3] = Walls[3]
      BY DEF WallsLast
    <3>. QED
      BY <2>1, <3>1, <3>2, Zenon
  <2>5. H[c + 4] = Meet(H[c + 3], Walls[4], v, r)
    <3>1. c + 4 \in 1 .. c + 4 /\ (c + 4) - 1 = c + 3
      OBVIOUS
    <3>2. objects[c + 4] = Walls[4]
      BY DEF WallsLast
    <3>. QED
      BY <2>1, <3>1, <3>2, Zenon
  <2>. QED
    BY <2>2, <2>3, <2>4, <2>5
<1>8. H[c] \in Hits
  BY <1>2
<1>9. Inside(Moved(H[c + 4].pos, v, Part(H[c + 4].t)))
  <2>. DEFINE m0 == H[c]
              m1 == H[c + 1]
              m2 == H[c + 2]
              m3 == H[c + 3]
              m4 == H[c + 4]
  <2>1. /\ m1 = Meet(m0, Walls[1], v, r) /\ m2 = Meet(m1, Walls[2], v, r)
        /\ m3 = Meet(m2, Walls[3], v, r) /\ m4 = Meet(m3, Walls[4], v, r)
        /\ m0 \in Hits /\ Inside(m0.pos)
    BY <1>6, <1>7, <1>8
  <2>. HIDE DEF m0, m1, m2, m3, m4
  <2>s. Steady(M)
    BY <1>4 DEF Steady
  <2>2. Inside(Moved(m4.pos, v, Part(m4.t)))
    BY <1>3, <1>4, <2>1, <2>s, WallsHold, SMT
  <2>. QED
    BY <2>2 DEF m4
<1>. DEFINE p == Moved(H[c + 4].pos, v, Part(H[c + 4].t))
            b == H[c + 4].t <= 100
<1>10. Collide(n, objects) = [n EXCEPT !.pos = p, !.collided = b]
  BY <1>1, <1>2, Zenon DEF Course, v
<1>. HIDE DEF p, b
<1>11. Collide(n, objects).pos = p
  BY <1>10 DEF NodeOK, NodeFields
<1>. QED
  BY <1>9, <1>11 DEF p

\* The border's nudge stays inside.
LEMMA BorderStays ==
  ASSUME NEW M \in Nat, Roomy(M), NEW n, NodeOK(n), Inside(n.pos)
  PROVE  Inside(BorderCollision(n).pos)
<1>. DEFINE r == Radius[n.kind]
            Nudged(x) == IF x <= r THEN x + 1 ELSE x
            p == <<Nudged(n.pos[1]), Nudged(n.pos[2])>>
<1>1. n.kind \in Kinds /\ n.pos \in Points
  BY DEF NodeOK
<1>2. r \in Nat /\ M + 6 * r + 30 <= Width /\ M + 6 * r + 30 <= Height
  BY <1>1, RoomyKind
<1>3. Width \in Nat /\ Height \in Nat
  BY MobilityAssumption
<1>4. BorderCollision(n).pos = IF Bounded THEN p ELSE n.pos
  <2>1. BorderCollision(n) = IF Bounded THEN [n EXCEPT !.pos = p] ELSE n
    BY DEF BorderCollision, NodeOK, NodeFields
  <2>. HIDE DEF p
  <2>. QED
    BY <2>1 DEF NodeOK, NodeFields
<1>. HIDE DEF r
<1>5. \A x, size \in Nat : r + 1 <= size /\ x <= size => Nudged(x) \in 0 .. size
  BY <1>2
<1>6. Inside(p)
  <2>1. /\ n.pos[1] \in Nat /\ n.pos[1] <= Width /\ n.pos[2] \in Nat /\ n.pos[2] <= Height
    BY <1>3 DEF Inside
  <2>2. r + 1 <= Width /\ r + 1 <= Height
    BY <1>2, <1>3
  <2>. HIDE DEF Nudged
  <2>. QED
    BY <1>3, <1>5, <2>1, <2>2 DEF Inside
<1>. QED
  BY <1>4, <1>6

-----------------------------------------------------------------------------
(* Thinking in a roomy scenario                                            *)

\* The greatest speed a node draws.
Top(kind) == VMin[kind] + VMax[kind]

\* What is slower than s is slower than M.
LEMMA SlowerStill ==
  ASSUME NEW s \in Nat, NEW M \in Nat, s <= M, NEW v \in Points, Slow(s, v)
  PROVE  Slow(M, v)
BY DEF Slow, Points

\* No draw is greater.
LEMMA DrawsSlow ==
  ASSUME NEW n, NodeOK(n)
  PROVE  /\ Top(n.kind) \in Nat
         /\ \A s \in SpeedRange(n) : s \in 0 .. Top(n.kind)
         /\ \A u \in RandomVector(n) : u \in Points /\ Slow(Top(n.kind), u)
<1>. DEFINE t == Top(n.kind)
<1>1. VMin[n.kind] \in Nat /\ VMax[n.kind] \in Nat
  BY MobilityAssumption DEF NodeOK
<1>2. t \in Nat /\ VMin[n.kind] <= t /\ VMax[n.kind] <= t
      /\ VMax[n.kind] + VMin[n.kind] = t
  BY <1>1 DEF Top
<1>3. \A s \in SpeedRange(n) : s \in 0 .. t
  BY <1>1, <1>2 DEF SpeedRange, Draws
<1>. HIDE DEF t
<1>4. \A u \in Signed(SpeedRange(n)) : u \in -t .. t
  BY <1>2, <1>3 DEF Signed
<1>5. \A u \in RandomVector(n) : u \in Points /\ Slow(t, u)
  <2>1. \A a, b \in -t .. t : <<a, b>> \in Points /\ Slow(t, <<a, b>>)
    BY <1>2 DEF Points, Slow
  <2>. QED
    BY <1>4, <2>1 DEF RandomVector
<1>. QED
  BY <1>2, <1>3, <1>5 DEF t

\* alpha percent of a, the rest of b.
Mean(alpha, a, b) == Rounded(alpha * a + (100 - alpha) * b, 100)

\* A mean of two speeds is no greater than both.
LEMMA MeanBounds ==
  ASSUME NEW alpha \in 0 .. 100, NEW M \in Nat, NEW a \in -M .. M, NEW b \in -M .. M
  PROVE  Mean(alpha, a, b) \in -M .. M
<1>. DEFINE beta == 100 - alpha
            x == alpha * a + beta * b
<1>1. /\ alpha \in Nat /\ beta \in Nat /\ a \in Int /\ b \in Int /\ M \in Int /\ -M \in Int
      /\ -M <= a /\ a <= M /\ -M <= b /\ b <= M
  OBVIOUS
<1>2. alpha * M + beta * M = M * 100
  OBVIOUS
<1>3. alpha * (-M) + beta * (-M) = -(M * 100)
  OBVIOUS
<1>. HIDE DEF beta
<1>4. alpha * a <= alpha * M /\ alpha * (-M) <= alpha * a
  BY <1>1, Products
<1>5. beta * b <= beta * M /\ beta * (-M) <= beta * b
  BY <1>1, Products
<1>6. /\ alpha * a \in Int /\ beta * b \in Int /\ alpha * M \in Int /\ beta * M \in Int
      /\ alpha * (-M) \in Int /\ beta * (-M) \in Int /\ M * 100 \in Int
  BY <1>1
<1>7. x \in Int /\ x <= M * 100 /\ -(M * 100) <= x
  BY <1>2, <1>3, <1>4, <1>5, <1>6
<1>. HIDE DEF x
<1>8. 100 \in Nat \ {0}
  OBVIOUS
<1>9. Rounded(x, 100) \in Int /\ Rounded(x, 100) <= M /\ -M <= Rounded(x, 100)
  BY <1>7, <1>8, RoundedOK, RoundedBounds
<1>10. Rounded(x, 100) \in -M .. M
  BY <1>9
<1>. QED
  BY <1>10 DEF x, beta, Mean

\* The random vector of a node that follows is drawn in units of the speed.
LEMMA SpeedDrawnTwice ==
  ASSUME NEW t \in Nat, NEW M \in Nat, t * t <= 1000 * M, NEW s \in 0 .. t, NEW u \in -t .. t
  PROVE  Rounded(s * u, 1000) \in -M .. M
<1>1. s \in Nat /\ u \in Int /\ t \in Int /\ -t \in Int /\ s <= t /\ -t <= u /\ u <= t
  OBVIOUS
<1>2. s * u <= s * t /\ s * (-t) <= s * u /\ t * s <= t * t
  BY <1>1, Products
<1>3. s * u \in Int /\ s * t \in Int /\ t * t \in Int /\ s * t = t * s /\ s * (-t) = -(s * t)
  BY <1>1
<1>4. s * u <= M * 1000 /\ -(M * 1000) <= s * u
  <2>. DEFINE x == s * u
              y == s * t
              z == t * t
              w == s * (-t)
  <2>1. x <= y /\ w <= x /\ y <= z /\ w = -y /\ x \in Int /\ y \in Int /\ z \in Int
    BY <1>2, <1>3
  <2>2. z <= 1000 * M
    OBVIOUS
  <2>. HIDE DEF x, y, z, w
  <2>3. x <= M * 1000 /\ -(M * 1000) <= x
    BY <2>1, <2>2
  <2>. QED
    BY <2>3 DEF x
<1>5. 1000 \in Nat \ {0}
  OBVIOUS
<1>6. /\ Rounded(s * u, 1000) \in Int
      /\ Rounded(s * u, 1000) <= M /\ -M <= Rounded(s * u, 1000)
  BY <1>3, <1>4, <1>5, RoundedOK, RoundedBounds
<1>. QED
  BY <1>6

\* A way to a target is as slow as the speed drawn, and moves nothing yet.
LEMMA ToTargetSlow ==
  ASSUME NEW M \in Nat, NEW n, NodeOK(n), Top(n.kind) <= M,
         NEW target \in Points, NEW m \in MoveToTarget(n, target)
  PROVE  m.pos = n.pos /\ Slow(M, m.v)
<1>1. PICK s \in SpeedRange(n) :
        LET v == Step(n.pos, target, s)
            arrived == Near(Plus(n.pos, v), target, Radius[n.kind])
        IN  m = [n EXCEPT !.v = v, !.pause = @ \/ arrived,
                          !.localTime = IF arrived THEN 0 ELSE @]
  BY DEF MoveToTarget
<1>. DEFINE v == Step(n.pos, target, s)
            arrived == Near(Plus(n.pos, v), target, Radius[n.kind])
<1>2. m.pos = n.pos /\ m.v = v
  <2>. HIDE DEF v, arrived
  <2>1. m = [n EXCEPT !.v = v, !.pause = @ \/ arrived,
                      !.localTime = IF arrived THEN 0 ELSE @]
    BY <1>1 DEF v, arrived
  <2>. QED
    BY <2>1 DEF NodeOK, NodeFields
<1>3. s \in Nat /\ s <= M /\ n.pos \in Points
  BY DrawsSlow DEF NodeOK
<1>4. v \in Points /\ Slow(s, v)
  BY <1>3, StepBounds
<1>. HIDE DEF v
<1>. QED
  BY <1>2, <1>3, <1>4, SlowerStill

\* Slower than M and, if the scenario is bounded, inside.
Held(M, n) == (Bounded => Inside(n.pos)) /\ Slow(M, n.v)

\* The inductive invariant: no speed is greater than M, which is why the nodes stay
\* in a bounded scenario and the reference point in any.
HeldInv(M) ==
  /\ Inside(reference.pos) /\ Inside(reference.target)
  /\ \A i \in 1 .. Len(nodes) : Held(M, nodes[i])

\* Replacing the node whose turn it is by one that is held.
LEMMA HeldExcept ==
  ASSUME NEW M \in Nat, Inv, HeldInv(M), NEW n, Held(M, n),
         nodes' = [nodes EXCEPT ![turn] = n]
  PROVE  Len(nodes') = Len(nodes) /\ \A i \in 1 .. Len(nodes') : Held(M, nodes'[i])
<1>1. DOMAIN nodes = 1 .. Len(nodes) /\ Len(nodes) \in Nat
  BY DEF Inv, IsNodes
<1>2. nodes' = [i \in 1 .. Len(nodes) |-> IF i = turn THEN n ELSE nodes[i]]
  BY <1>1
<1>3. nodes' = [i \in 1 .. Len(nodes) |-> nodes'[i]]
  BY <1>2
<1>4. Len(nodes') = Len(nodes)
  BY <1>1, <1>3, LenOf
<1>5. \A i \in 1 .. Len(nodes) : Held(M, nodes'[i])
  BY <1>2 DEF HeldInv
<1>. QED
  BY <1>4, <1>5

\* A node that thinks changes its velocity only.
LEMMA ThinksHeld ==
  ASSUME NEW M \in Nat, Inv, HeldInv(M), NEW n, NodeOK(n),
         n.pos = nodes[turn].pos, Slow(M, n.v), Thinks(n)
  PROVE  HeldInv(M)'
<1>. DEFINE t == IF n.kind \in FollowKinds THEN n.localTime ELSE n.localTime + 1
            m == [n EXCEPT !.localTime = t]
<1>1. nodes' = [nodes EXCEPT ![turn] = m] /\ reference' = reference
  BY DEF Thinks, NodeOK, NodeFields
<1>2. m.pos = n.pos /\ m.v = n.v
  BY DEF NodeOK, NodeFields
<1>. HIDE DEF m
<1>3. turn \in 1 .. Len(nodes)
  BY DEF Inv
<1>4. Held(M, m)
  BY <1>2, <1>3 DEF HeldInv, Held
<1>5. \A i \in 1 .. Len(nodes') : Held(M, nodes'[i])
  BY <1>1, <1>4, HeldExcept
<1>. QED
  BY <1>1, <1>5 DEF HeldInv, Inside, Held, Slow

\* What a node's speeds allow in a roomy scenario.
LEMMA RoomyNode ==
  ASSUME NEW M \in Nat, Roomy(M), NEW n, NodeOK(n)
  PROVE  /\ Top(n.kind) \in Nat /\ Top(n.kind) <= M
         /\ Behaviour(n) = "follow" => Top(n.kind) * Top(n.kind) <= 1000 * M
         /\ \A u \in RandomVector(n) : u \in Points /\ Slow(M, u)
<1>1. n.kind \in Kinds
  BY DEF NodeOK
<1>2. Top(n.kind) \in Nat /\ Top(n.kind) <= M
  BY <1>1, RoomyKind, DrawsSlow DEF Top
<1>3. Behaviour(n) = "follow" => n.kind \in FollowKinds \cup {"Era"}
  BY <1>1 DEF Behaviour, Kinds
<1>4. Behaviour(n) = "follow" => Top(n.kind) * Top(n.kind) <= 1000 * M
  BY <1>1, <1>3, RoomyKind DEF Top
<1>5. \A u \in RandomVector(n) : u \in Points /\ Slow(M, u)
  BY <1>2, DrawsSlow, SlowerStill
<1>. QED
  BY <1>2, <1>4, <1>5

\* Whatever a node does when it thinks, it is no faster than M.
LEMMA ThinkHeld ==
  ASSUME NEW M \in Nat, Roomy(M), Inv, HeldInv(M),
         Bounce \/ NewHeading \/ KeepHeading \/ Follow \/ Rest \/ SetOff
           \/ SetOffToSpot \/ DeadEnd \/ Walk \/ WalkToSpot
  PROVE  HeldInv(M)'
<1>. DEFINE n == nodes[turn]
<1>1. NodeOK(n) /\ Held(M, n) /\ n.pos \in Points /\ n.target \in Points
  BY DEF Inv, IsNodes, HeldInv, NodeOK
<1>2. /\ Top(n.kind) \in Nat /\ Top(n.kind) <= M
      /\ \A u \in RandomVector(n) : u \in Points /\ Slow(M, u)
  BY <1>1, RoomyNode
<1>3. ASSUME NEW u \in Points
      PROVE  /\ NodeOK([n EXCEPT !.v = u])
             /\ [n EXCEPT !.v = u].pos = n.pos /\ [n EXCEPT !.v = u].v = u
  <2>. HIDE DEF n
  <2>. QED
    BY <1>1 DEF NodeOK, NodeFields
<1>4. ASSUME NEW u \in Points
      PROVE  /\ NodeOK([n EXCEPT !.v = u, !.localTime = 0])
             /\ [n EXCEPT !.v = u, !.localTime = 0].pos = n.pos
             /\ [n EXCEPT !.v = u, !.localTime = 0].v = u
  <2>. HIDE DEF n
  <2>. QED
    BY <1>1 DEF NodeOK, NodeFields
<1>5. CASE Bounce
  <2>1. PICK u \in RandomVector(n) : Thinks([n EXCEPT !.v = u])
    BY <1>5 DEF Bounce
  <2>. HIDE DEF n
  <2>2. u \in Points /\ Slow(M, u)
    BY <1>2, <2>1
  <2>. QED
    BY <1>3, <2>1, <2>2, ThinksHeld DEF n
<1>6. CASE NewHeading
  <2>1. PICK u \in RandomVector(n) : Thinks([n EXCEPT !.v = u, !.localTime = 0])
    BY <1>6 DEF NewHeading
  <2>. HIDE DEF n
  <2>2. u \in Points /\ Slow(M, u)
    BY <1>2, <2>1
  <2>. QED
    BY <1>4, <2>1, <2>2, ThinksHeld DEF n
<1>7. CASE KeepHeading
  BY <1>1, <1>7, ThinksHeld DEF KeepHeading, Held
<1>8. CASE Follow
  <2>. DEFINE ref == IF model = "Pursue" THEN nodes[1].pos ELSE reference.pos
              Blend(s, u, axis) ==
                Rounded(AlphaPercent * Along(Minus(ref, n.pos), s)[axis]
                          + (100 - AlphaPercent) * Rounded(s * u[axis], 1000), 100)
  <2>1. PICK s \in SpeedRange(n), u \in RandomVector(n) :
          Thinks([n EXCEPT !.v = <<Blend(s, u, 1), Blend(s, u, 2)>>])
    BY <1>8 DEF Follow
  <2>2. Minus(ref, n.pos) \in Points
    <3>1. 1 \in 1 .. Len(nodes) /\ reference.pos \in Points
      BY DEF Inv, IsNodes, IsReference
    <3>2. ref \in Points
      BY <3>1 DEF Inv, IsNodes, NodeOK
    <3>. HIDE DEF ref, n
    <3>. QED
      BY <1>1, <3>2, PlusMinusOK
  <2>3. Top(n.kind) * Top(n.kind) <= 1000 * M
    BY <1>1, <1>8, RoomyNode DEF Follow, Thinking
  <2>. DEFINE a == Along(Minus(ref, n.pos), s)
              t == Top(n.kind)
  <2>4. s \in 0 .. t /\ u[1] \in -t .. t /\ u[2] \in -t .. t
    BY <1>1, <2>1, DrawsSlow DEF Slow
  <2>5. a[1] \in -M .. M /\ a[2] \in -M .. M
    <3>1. s \in Nat /\ s <= M
      BY <1>2, <2>4
    <3>2. a \in Points /\ Slow(s, a)
      <4>. HIDE DEF ref, n
      <4>. QED
        BY <2>2, <3>1, AlongBounds
    <3>3. Slow(M, a)
      <4>. HIDE DEF a
      <4>. QED
        BY <3>1, <3>2, SlowerStill
    <3>. QED
      BY <3>3 DEF Slow
  <2>6. ASSUME NEW axis \in 1 .. 2
        PROVE  Blend(s, u, axis) \in -M .. M
    <3>. DEFINE x == a[axis]
                w == u[axis]
                y == Rounded(s * w, 1000)
    <3>1. w \in -t .. t /\ x \in -M .. M
      BY <2>4, <2>5
    <3>2. t \in Nat /\ t * t <= 1000 * M
      BY <1>2, <2>3
    <3>3. s \in 0 .. t
      BY <2>4
    <3>4. AlphaPercent \in 0 .. 100
      BY MobilityAssumption
    <3>. HIDE DEF a, t, w, x
    <3>5. y \in -M .. M
      BY <3>1, <3>2, <3>3, SpeedDrawnTwice, SMT
    <3>. HIDE DEF y
    <3>6. Mean(AlphaPercent, x, y) \in -M .. M
      BY <3>1, <3>4, <3>5, MeanBounds
    <3>. QED
      BY <3>6 DEF Mean, a, w, x, y
  <2>. HIDE DEF Blend
  <2>7. Blend(s, u, 1) \in -M .. M /\ Blend(s, u, 2) \in -M .. M
    BY <2>6
  <2>8. /\ <<Blend(s, u, 1), Blend(s, u, 2)>> \in Points
        /\ Slow(M, <<Blend(s, u, 1), Blend(s, u, 2)>>)
    BY <2>7 DEF Points, Slow
  <2>9. /\ NodeOK([n EXCEPT !.v = <<Blend(s, u, 1), Blend(s, u, 2)>>])
        /\ [n EXCEPT !.v = <<Blend(s, u, 1), Blend(s, u, 2)>>].pos = n.pos
        /\ [n EXCEPT !.v = <<Blend(s, u, 1), Blend(s, u, 2)>>].v
             = <<Blend(s, u, 1), Blend(s, u, 2)>>
    BY <1>3, <2>8
  <2>. DEFINE m == [n EXCEPT !.v = <<Blend(s, u, 1), Blend(s, u, 2)>>]
  <2>10. NodeOK(m) /\ m.pos = nodes[turn].pos /\ Slow(M, m.v) /\ Thinks(m)
    BY <2>1, <2>8, <2>9
  <2>. HIDE DEF m
  <2>. QED
    BY <2>10, ThinksHeld
<1>9. CASE Rest
  <2>1. Thinks([n EXCEPT !.v = Zero])
    BY <1>9 DEF Rest
  <2>2. Zero \in Points /\ Slow(M, Zero)
    BY ZeroOK DEF Zero, Slow
  <2>. QED
    BY <1>3, <2>1, <2>2, ThinksHeld
<1>10. CASE SetOff
  <2>1. PICK t \in Targets : \E m \in MoveToTarget([n EXCEPT !.pause = FALSE, !.target = t], t) :
                               Thinks(m)
    BY <1>10 DEF SetOff
  <2>. DEFINE o == [n EXCEPT !.pause = FALSE, !.target = t]
  <2>2. PICK m \in MoveToTarget(o, t) : Thinks(m)
    BY <2>1
  <2>3. t \in Points
    BY MobilityAssumption DEF Points
  <2>4. NodeOK(o) /\ o.pos = n.pos /\ o.kind = n.kind
    <3>1. n.kind \in WaypointKinds
      BY <1>1, <1>10 DEF SetOff, Thinking, Behaviour
    <3>. HIDE DEF n
    <3>. QED
      BY <1>1, <2>3, <3>1 DEF NodeOK, NodeFields, WaypointKinds
  <2>. HIDE DEF o, n
  <2>5. NodeOK(m) /\ m.pos = n.pos /\ Slow(M, m.v)
    BY <1>2, <2>2, <2>3, <2>4, MoveToTargetOK, ToTargetSlow
  <2>. QED
    BY <2>2, <2>5, ThinksHeld DEF n
<1>11. CASE SetOffToSpot
  <2>1. PICK next \in NextSpot(n) :
          \E m \in MoveToTarget([n EXCEPT !.pause = FALSE, !.spot = next], HotSpots[next].p) :
            Thinks(m)
    BY <1>11 DEF SetOffToSpot
  <2>. DEFINE o == [n EXCEPT !.pause = FALSE, !.spot = next]
              t == HotSpots[next].p
  <2>2. PICK m \in MoveToTarget(o, t) : Thinks(m)
    BY <2>1
  <2>. HIDE DEF n
  <2>3. next \in 1 .. Len(HotSpots) /\ t \in Points
    BY <1>1, <2>1, NextSpotOK, SpotOK
  <2>4. NodeOK(o) /\ o.pos = n.pos /\ o.kind = n.kind
    <3>1. next \in 0 .. Len(HotSpots) /\ next # None
      BY <2>3 DEF None
    <3>. QED
      BY <1>1, <3>1 DEF NodeOK, NodeFields
  <2>. HIDE DEF o, t
  <2>5. NodeOK(m) /\ m.pos = n.pos /\ Slow(M, m.v)
    BY <1>2, <2>2, <2>3, <2>4, MoveToTargetOK, ToTargetSlow
  <2>. QED
    BY <2>2, <2>5, ThinksHeld DEF n
<1>12. CASE DeadEnd
  <2>. DEFINE o == [n EXCEPT !.spot = None]
  <2>1. Thinks(o) /\ n.pause
    BY <1>12 DEF DeadEnd, PauseOver
  <2>2. NodeOK(o) /\ o.pos = n.pos /\ o.v = n.v
    <3>1. 0 \in 0 .. Len(HotSpots)
      BY MobilityAssumption, LenProperties
    <3>. HIDE DEF n
    <3>. QED
      BY <1>1, <2>1, <3>1 DEF NodeOK, NodeFields, None
  <2>. HIDE DEF o
  <2>. QED
    BY <1>1, <2>1, <2>2, ThinksHeld DEF Held
<1>13. CASE Walk
  <2>1. PICK m \in MoveToTarget(n, n.target) : Thinks(m)
    BY <1>13 DEF Walk
  <2>. HIDE DEF n
  <2>2. NodeOK(m) /\ m.pos = n.pos /\ Slow(M, m.v)
    BY <1>1, <1>2, <2>1, MoveToTargetOK, ToTargetSlow
  <2>. QED
    BY <2>1, <2>2, ThinksHeld DEF n
<1>14. CASE WalkToSpot
  <2>. DEFINE t == HotSpots[n.spot].p
  <2>1. PICK m \in MoveToTarget(n, t) : Thinks(m)
    BY <1>14 DEF WalkToSpot
  <2>2. n.kind \in {"HotSpot", "Era"} /\ ~n.pause
    BY <1>1, <1>14 DEF WalkToSpot, Thinking, UnderWay, Behaviour
  <2>. HIDE DEF n
  <2>3. n.spot \in 1 .. Len(HotSpots)
    <3>1. n.spot \in 0 .. Len(HotSpots) /\ n.spot # None
      BY <1>1, <2>2 DEF NodeOK
    <3>. QED
      BY <3>1, MobilityAssumption, LenProperties DEF None
  <2>4. t \in Points
    BY <2>3, SpotOK
  <2>. HIDE DEF t
  <2>5. NodeOK(m) /\ m.pos = n.pos /\ Slow(M, m.v)
    BY <1>1, <1>2, <2>1, <2>4, MoveToTargetOK, ToTargetSlow
  <2>. QED
    BY <2>1, <2>5, ThinksHeld DEF n
<1>. QED
  BY <1>5, <1>6, <1>7, <1>8, <1>9, <1>10, <1>11, <1>12, <1>13, <1>14

-----------------------------------------------------------------------------
(* The reference point in a roomy scenario                                 *)

\* One step of the reference point ends inside.
LEMMA RefMovesInside ==
  ASSUME NEW r, IsReference(r), Inside(r.pos), Inside(r.target), NEW q \in RefMoves(r)
  PROVE  Inside(q.pos) /\ Inside(q.target)
<1>1. PICK l \in Draws(RefMin, RefMax) :
        LET p == Plus(r.pos, Step(r.pos, r.target, l))
            arrived == Near(p, r.target, 1000)
        IN  q = [r EXCEPT !.pos = p, !.pause = @ \/ arrived,
                          !.localTime = (IF arrived THEN 0 ELSE @) + 1]
  BY DEF RefMoves
<1>. DEFINE p == Plus(r.pos, Step(r.pos, r.target, l))
            arrived == Near(p, r.target, 1000)
<1>2. l \in Nat
  BY MobilityAssumption DEF Draws
<1>3. Inside(p)
  BY <1>2, StepBounds DEF IsReference
<1>4. q = [r EXCEPT !.pos = p, !.pause = @ \/ arrived,
                    !.localTime = (IF arrived THEN 0 ELSE @) + 1]
  BY <1>1
<1>. HIDE DEF p, arrived
<1>5. q.pos = p /\ q.target = r.target
  BY <1>4 DEF IsReference
<1>. QED
  BY <1>3, <1>5

\* The reference point and its target stay inside.
LEMMA ReferenceInside ==
  ASSUME NEW r, IsReference(r), Inside(r.pos), Inside(r.target),
         NEW q \in MoveReferencePoint(r)
  PROVE  Inside(q.pos) /\ Inside(q.target)
<1>1. CASE ~r.pause
  BY <1>1, RefMovesInside DEF MoveReferencePoint
<1>2. CASE r.pause /\ r.localTime > RefPause
  <2>1. PICK t \in Targets : q \in RefMoves([r EXCEPT !.pause = FALSE, !.target = t])
    BY <1>2 DEF MoveReferencePoint
  <2>. DEFINE r1 == [r EXCEPT !.pause = FALSE, !.target = t]
  <2>2. t \in Points /\ Inside(t)
    BY MobilityAssumption DEF Points, Inside
  <2>3. IsReference(r1) /\ r1.pos = r.pos /\ r1.target = t
    BY <2>2 DEF IsReference
  <2>4. q \in RefMoves(r1)
    BY <2>1
  <2>. HIDE DEF r1
  <2>. QED
    BY <2>2, <2>3, <2>4, RefMovesInside
<1>3. CASE r.pause /\ ~(r.localTime > RefPause)
  <2>1. q = [r EXCEPT !.localTime = @ + 1]
    BY <1>3 DEF MoveReferencePoint
  <2>2. q.pos = r.pos /\ q.target = r.target
    BY <2>1 DEF IsReference
  <2>. QED
    BY <2>2
<1>. QED
  BY <1>1, <1>2, <1>3

\* Giving the roles moves no node.
LEMMA RolesMoveNothing ==
  ASSUME NEW ns, IsNodes(ns)
  PROVE  \A k \in 1 .. Len(ns) : /\ RoleAssignament(ns)[k].pos = ns[k].pos
                                 /\ RoleAssignament(ns)[k].v = ns[k].v
<1>. SUFFICES ASSUME NEW k \in 1 .. Len(ns)
              PROVE  /\ RoleAssignament(ns)[k].pos = ns[k].pos
                     /\ RoleAssignament(ns)[k].v = ns[k].v
  OBVIOUS
<1>. DEFINE e == RoleAssignament(ns)[k]
<1>1. \E r : e = [ns[k] EXCEPT !.type = r]
  BY DEF RoleAssignament
<1>. HIDE DEF e
<1>2. e.pos = ns[k].pos /\ e.v = ns[k].v
  BY <1>1 DEF IsNodes, NodeOK, NodeFields
<1>. QED
  BY <1>2 DEF e

LEMMA ThinkModelsHeld ==
  ASSUME NEW M \in Nat, Inv, HeldInv(M), ThinkModels
  PROVE  HeldInv(M)'
<1>1. IsReference(reference) /\ IsNodes(nodes)
  BY DEF Inv
<1>2. nodes' \in {nodes, RoleAssignament(nodes)}
  BY DEF ThinkModels, EraThink, NomadicThink
<1>3. \A i \in 1 .. Len(nodes') : Held(M, nodes'[i])
  BY <1>1, <1>2, RolesOK, RolesMoveNothing DEF HeldInv, Held
<1>4. Inside(reference'.pos) /\ Inside(reference'.target)
  <2>1. CASE EraThink
    <3>. DEFINE c == (IF reference.colorTime > ColorInterval THEN 0
                      ELSE reference.colorTime) + 1
                r == [reference EXCEPT !.colorTime = c]
    <3>1. reference' \in MoveReferencePoint(r)
      BY <1>1, <2>1 DEF EraThink, IsReference
    <3>2. c \in Nat
      BY <1>1 DEF IsReference
    <3>. HIDE DEF c
    <3>3. IsReference(r) /\ r.pos = reference.pos /\ r.target = reference.target
      BY <1>1, <3>2 DEF IsReference
    <3>. HIDE DEF r
    <3>. QED
      BY <3>1, <3>3, ReferenceInside DEF HeldInv
  <2>2. CASE NomadicThink
    BY <1>1, <2>2, ReferenceInside DEF HeldInv, NomadicThink
  <2>3. CASE UNCHANGED reference
    BY <2>3 DEF HeldInv
  <2>. QED
    BY <2>1, <2>2, <2>3 DEF ThinkModels
<1>. QED
  BY <1>3, <1>4 DEF HeldInv, Inside, Held, Slow

LEMMA MoveNodeHeld ==
  ASSUME NEW M \in Nat, Roomy(M), Inv, HeldInv(M), MoveNode
  PROVE  HeldInv(M)'
<1>. DEFINE n == nodes[turn]
            objects == Objects(nodes, turn)
            c == Collide(n, objects)
            m == BorderCollision(c)
<1>1. NodeOK(n) /\ (Bounded => Inside(n.pos)) /\ Slow(M, n.v) /\ IsNodes(nodes)
      /\ turn \in 1 .. Len(nodes)
  BY DEF Inv, IsNodes, HeldInv, Held
<1>2. nodes' = [nodes EXCEPT ![turn] = m] /\ reference' = reference
  BY <1>1 DEF MoveNode, IsNodes
<1>3. objects \in Seq(Obstacles)
  BY <1>1, ObjectsOK
<1>. HIDE DEF n
<1>4. n.kind \in Kinds
  BY <1>1 DEF NodeOK
<1>5. Bounded => \E k \in Nat : WallsLast(objects, k, Radius[n.kind])
  BY <1>1, <1>4, RoomyObjects
<1>. HIDE DEF objects
<1>6. NodeOK(c) /\ (Bounded => Inside(c.pos)) /\ c.v = n.v
  <2>1. NodeOK(c)
    BY <1>1, <1>3, CollideOK
  <2>2. Bounded => Inside(c.pos)
    BY <1>1, <1>3, <1>5, CollideStays
  <2>3. \E p, b : c = [n EXCEPT !.pos = p, !.collided = b]
    BY DEF Collide
  <2>. HIDE DEF c
  <2>4. c.v = n.v
    BY <1>1, <2>3 DEF NodeOK, NodeFields
  <2>. QED
    BY <2>1, <2>2, <2>4
<1>. HIDE DEF c
<1>7. Bounded => Inside(m.pos)
  BY <1>6, BorderStays
<1>8. m.v = c.v
  <2>1. m = c \/ \E p : m = [c EXCEPT !.pos = p]
    BY DEF BorderCollision
  <2>. HIDE DEF m
  <2>. QED
    BY <1>6, <2>1 DEF NodeOK, NodeFields
<1>. HIDE DEF m
<1>9. Held(M, m)
  BY <1>1, <1>6, <1>7, <1>8 DEF Held
<1>10. \A i \in 1 .. Len(nodes') : Held(M, nodes'[i])
  BY <1>2, <1>9, HeldExcept
<1>. QED
  BY <1>2, <1>10 DEF HeldInv, Inside, Held, Slow

LEMMA NextHeld ==
  ASSUME NEW M \in Nat, Roomy(M), Inv, HeldInv(M), [Next]_vars
  PROVE  HeldInv(M)'
<1>1. CASE UNCHANGED vars
  BY <1>1 DEF vars, HeldInv, Held, Inside, Slow
<1>2. CASE Next
  BY <1>2, ThinkModelsHeld, ThinkHeld, MoveNodeHeld DEF Next
<1>. QED
  BY <1>1, <1>2

\* The nodes are set up at rest.
LEMMA SetupAtRest ==
  ASSUME NEW m \in Models, NEW ns \in SetupNodes(m), NEW i \in 1 .. Len(ns)
  PROVE  ns[i].v = Zero
<1>1. DOMAIN ns = 1 .. Len(ns) /\ Len(ns) \in Nat
  BY SetupOK DEF IsNodes
<1>2. ASSUME NEW kind PROVE \A k \in DOMAIN Diagonal(kind) : Diagonal(kind)[k].v = Zero
  BY DEF Diagonal, NewNode
<1>3. CASE m = "RandomWalk"
  <2>1. ns = Rows
    BY <1>3 DEF SetupNodes
  <2>2. \A k \in DOMAIN Rows : Rows[k].v = Zero
    BY DEF Rows, NewNode
  <2>. QED
    BY <1>1, <2>1, <2>2
<1>4. CASE m = "Pursue"
  <2>. DEFINE a == NewNode("PursueTarget", <<15000, 10000>>)
              d == Diagonal("Pursue")
              S == {e \in {a} \cup {d[k] : k \in DOMAIN d} : e.v = Zero}
  <2>1. ns = <<a>> \o d
    BY <1>4 DEF SetupNodes
  <2>2. a \in S
    BY DEF NewNode
  <2>3. d \in [1 .. NumNodes["Pursue"] -> S] /\ NumNodes["Pursue"] \in Int
    <3>1. DOMAIN d = 1 .. NumNodes["Pursue"] /\ d = [k \in DOMAIN d |-> d[k]]
      BY DEF Diagonal
    <3>2. \A k \in DOMAIN d : d[k] \in S
      BY <1>2
    <3>3. NumNodes["Pursue"] \in Int
      BY <1>4, MobilityAssumption
    <3>. HIDE DEF d, S
    <3>. QED
      BY <3>1, <3>2, <3>3
  <2>4. \A e \in S : e.v = Zero
    OBVIOUS
  <2>. HIDE DEF a, d, S
  <2>5. <<a>> \in Seq(S) /\ d \in Seq(S)
    BY <2>2, <2>3, FunctionIsSeq
  <2>6. ns \in Seq(S)
    BY <2>1, <2>5, ConcatProperties
  <2>7. ns[i] \in S
    BY <2>6, ElementOfSeq
  <2>. QED
    BY <2>4, <2>7
<1>5. CASE m \in {"RandomWalkMessage", "RandomWaypointMessage"}
  <2>1. PICK f \in [1 .. NumNodes[m] -> Places] :
          ns = [k \in 1 .. NumNodes[m] |-> NewNode(m, f[k])]
    BY <1>5 DEF SetupNodes
  <2>. QED
    BY <1>1, <2>1 DEF NewNode
<1>6. CASE m \notin {"RandomWalk", "Pursue", "RandomWalkMessage", "RandomWaypointMessage"}
  <2>1. ns = Diagonal(m)
    BY <1>6 DEF SetupNodes
  <2>. QED
    BY <1>1, <1>2, <2>1
<1>. QED
  BY <1>3, <1>4, <1>5, <1>6

\* The centre of nodes that are inside is inside.
LEMMA CentreInside ==
  ASSUME NEW ns, IsNodes(ns), \A i \in DOMAIN ns : Inside(ns[i].pos), NEW p, Centre(ns, p)
  PROVE  Inside(p)
<1>1. Width \in Nat /\ Height \in Nat
  BY MobilityAssumption
<1>2. \A size \in Nat : \A a, b \in 0 .. size : (a + b) \div 2 \in 0 .. size
  OBVIOUS
<1>3. PICK i, j \in DOMAIN ns : p[1] = (ns[i].pos[1] + ns[j].pos[1]) \div 2
  BY DEF Centre
<1>4. PICK k, l \in DOMAIN ns : p[2] = (ns[k].pos[2] + ns[l].pos[2]) \div 2
  BY DEF Centre
<1>5. /\ ns[i].pos[1] \in 0 .. Width /\ ns[j].pos[1] \in 0 .. Width
      /\ ns[k].pos[2] \in 0 .. Height /\ ns[l].pos[2] \in 0 .. Height
  BY DEF Inside
<1>. QED
  BY <1>1, <1>2, <1>3, <1>4, <1>5 DEF Inside

LEMMA InitHeld ==
  ASSUME NEW M \in Nat, Roomy(M), Init
  PROVE  HeldInv(M)
<1>1. PICK ns \in SetupNodes(model) :
        /\ nodes = IF model = "Era" THEN RoleAssignament(ns) ELSE ns
        /\ reference = [pos |-> IF model \in {"Era", "Nomadic"}
                                THEN MiddlePoint(ns) ELSE Zero,
                        target |-> Zero, pause |-> TRUE, localTime |-> 0,
                        colorTime |-> 0]
  BY DEF Init
<1>2. model \in Models /\ IsNodes(ns)
  BY SetupOK DEF Init
<1>3. DOMAIN ns = 1 .. Len(ns)
  BY <1>2 DEF IsNodes
<1>4. \A i \in DOMAIN ns : Inside(ns[i].pos)
  BY <1>2 DEF Roomy
<1>5. Slow(M, Zero) /\ Inside(Zero)
  BY MobilityAssumption DEF Slow, Inside, Zero
<1>6. \A i \in 1 .. Len(ns) : Held(M, ns[i])
  BY <1>2, <1>3, <1>4, <1>5, SetupAtRest DEF Held
<1>7. \A i \in 1 .. Len(nodes) : Held(M, nodes[i])
  BY <1>1, <1>2, <1>6, RolesOK, RolesMoveNothing DEF Held
<1>8. Inside(reference.pos)
  <2>1. CASE model \in {"Era", "Nomadic"}
    <3>1. ns = Diagonal(model)
      BY <1>1, <2>1 DEF SetupNodes
    <3>2. reference.pos = MiddlePoint(ns)
      BY <1>1, <2>1
    <3>3. Centre(ns, reference.pos)
      BY <1>2, <3>1, <3>2, MiddleOK
    <3>. QED
      BY <1>2, <1>4, <3>3, CentreInside
  <2>2. CASE model \notin {"Era", "Nomadic"}
    BY <1>1, <1>5, <2>2
  <2>. QED
    BY <2>1, <2>2
<1>9. Inside(reference.target)
  BY <1>1, <1>5
<1>. QED
  BY <1>7, <1>8, <1>9 DEF HeldInv

-----------------------------------------------------------------------------
(* The way of a node                                                       *)

\* Hundredths are rounded by no more than a half down, or one and a half up.
LEMMA RoundedNear ==
  ASSUME NEW a \in Int
  PROVE  /\ Rounded(a, 100) \in Int
         /\ a - 50 <= 100 * Rounded(a, 100) /\ 100 * Rounded(a, 100) <= a + 150
<1>. DEFINE twice == 2 * a + 100
<1>1. twice \in Int /\ -twice \in Int /\ 200 \in Nat \ {0} /\ 2 * 100 = 200
  OBVIOUS
<1>2. CASE twice >= 0
  <2>1. Rounded(a, 100) = twice \div 200
    BY <1>1, <1>2, SMT DEF Rounded
  <2>2. PICK q \in Int : q = twice \div 200 /\ 200 * q <= twice /\ twice < 200 * q + 200
    BY <1>1, DivBounds, SMT
  <2>. QED
    BY <2>1, <2>2, SMT
<1>3. CASE twice < 0
  <2>1. Rounded(a, 100) = -((-twice) \div 200)
    BY <1>1, <1>3, SMT DEF Rounded
  <2>2. PICK q \in Int : q = (-twice) \div 200 /\ 200 * q <= -twice /\ -twice < 200 * q + 200
    BY <1>1, DivBounds, SMT
  <2>. QED
    BY <2>1, <2>2, SMT
<1>. QED
  BY <1>1, <1>2, <1>3, SMT

\* d is the part of the velocity v, in hundredths, but for the rounding.
Travels(d, part, v) ==
  d \in Int /\ part * v - 100 <= 100 * d /\ 100 * d <= part * v + 300

\* y is what v travels in k hundredths, but for what M is in one hundredth, and the
\* rounding.
Abreast(M, v, k, y) ==
  /\ y \in Int /\ k * v \in Int
  /\ -(M + 300) <= 100 * y - k * v /\ 100 * y - k * v <= M + 300

\* On a way of d along an axis, which is a part of the velocity v in hundredths
\* but for the rounding, the j-th tenth is where v takes a node in k hundredths, but
\* for what it travels in one hundredth.
LEMMA TenthOfWay ==
  ASSUME NEW M \in Nat, NEW part \in 0 .. 100, NEW j \in 0 .. 10,
         NEW v \in Int, -M <= v, v <= M,
         NEW d, Travels(d, part, v)
  PROVE  /\ (j * part) \div 10 \in 0 .. part
         /\ Abreast(M, v, (j * part) \div 10, (j * d) \div 10)
<1>. DEFINE k == (j * part) \div 10
            y == (j * d) \div 10
            P == j * part
            D == j * d
            X == part * v
            w == 100 * d - X
            f == P - 10 * k
            V == k * v
<1>1. /\ part \in Nat /\ part <= 100 /\ j \in Nat /\ j <= 10
      /\ P \in Nat /\ D \in Int /\ X \in Int /\ w \in Int /\ 10 \in Nat \ {0}
      /\ d \in Int
  BY DEF Travels
<1>2. k \in Int /\ 10 * k <= P /\ P < 10 * k + 10
  BY <1>1, DivBounds
<1>3. y \in Int /\ 10 * y <= D /\ D < 10 * y + 10
  BY <1>1, DivBounds
<1>4. P <= 10 * part
  <2>1. part * j <= part * 10
    BY <1>1, Products
  <2>. QED
    BY <2>1
<1>5. k \in 0 .. part
  <2>. HIDE DEF k, P
  <2>. QED
    BY <1>1, <1>2, <1>4
<1>6. f \in 0 .. 9
  <2>. HIDE DEF k, P
  <2>. QED
    BY <1>1, <1>2
<1>7. -1000 <= j * w /\ j * w <= 3000 /\ j * w \in Int
  <2>1. j * w <= j * 300 /\ j * (-100) <= j * w
    <3>1. w <= 300 /\ -100 <= w
      BY <1>1 DEF Travels
    <3>. HIDE DEF w
    <3>. QED
      BY <1>1, <3>1, Products
  <2>2. j * w \in Int
    BY <1>1
  <2>. DEFINE z == j * w
  <2>. HIDE DEF w, z
  <2>3. z <= j * 300 /\ j * (-100) <= z /\ z \in Int
    BY <2>1, <2>2 DEF z
  <2>. QED
    BY <1>1, <2>3 DEF z
<1>8. f * v \in Int /\ -(9 * M) <= f * v /\ f * v <= 9 * M
  <2>. HIDE DEF f
  <2>1. f \in Nat /\ 9 - f \in Nat
    BY <1>6
  <2>2. f * v <= f * M /\ f * (-v) <= f * M
    BY <2>1, Products
  <2>3. M * f <= M * 9
    BY <1>6, Products
  <2>4. f * (-v) = -(f * v) /\ M * f = f * M /\ f * v \in Int /\ f * M \in Int
    BY <2>1
  <2>. DEFINE a == f * v
              c == f * M
  <2>5. a <= c /\ -a <= c /\ c <= M * 9 /\ a \in Int /\ c \in Int
    BY <2>2, <2>3, <2>4
  <2>. HIDE DEF a, c
  <2>6. -(9 * M) <= a /\ a <= 9 * M
    BY <2>5
  <2>. QED
    BY <2>4, <2>6 DEF a
<1>9. V \in Int /\ 100 * D = j * X + j * w /\ 10 * V = j * X - f * v
  <2>1. \A a, b, c, e \in Int : 100 * (a * b) = a * (c * e) + a * (100 * b - c * e)
    BY SMT
  <2>2. \A a, b, c, e \in Int : 10 * (a * e) = b * (c * e) - (b * c - 10 * a) * e
    BY SMT
  <2>3. k \in Int
    BY <1>2
  <2>. HIDE DEF k
  <2>. QED
    BY <1>1, <2>1, <2>2, <2>3, SMT
<1>. DEFINE jw == j * w
            fv == f * v
            jX == j * X
<1>10. jX \in Int
  BY <1>1
<1>11. /\ jw \in Int /\ -1000 <= jw /\ jw <= 3000
       /\ fv \in Int /\ -(9 * M) <= fv /\ fv <= 9 * M
       /\ 100 * D = jX + jw /\ 10 * V = jX - fv
  BY <1>7, <1>8, <1>9
<1>12. V \in Int
  BY <1>9
<1>. HIDE DEF jw, fv, jX, D, V, y
<1>13. -(M + 300) <= 100 * y - V /\ 100 * y - V <= M + 300
  BY <1>1, <1>3, <1>10, <1>11, <1>12, SMT
<1>. QED
  BY <1>3, <1>5, <1>12, <1>13 DEF V, y, Abreast

\* A vector no longer than b and one no longer than r are together no longer than
\* b + r.
LEMMA Triangle ==
  ASSUME NEW f1 \in Int, NEW f2 \in Int, NEW g1 \in Int, NEW g2 \in Int,
         NEW b \in Nat, NEW r \in Nat,
         f1 * f1 + f2 * f2 <= b * b, g1 * g1 + g2 * g2 <= r * r
  PROVE  (f1 + g1) * (f1 + g1) + (f2 + g2) * (f2 + g2) <= (b + r) * (b + r)
<1>. DEFINE F == f1 * f1 + f2 * f2
            G == g1 * g1 + g2 * g2
            s == f1 * g1 + f2 * g2
            c == f1 * g2 - f2 * g1
            B == b * b
            R == r * r
            m == b * r
<1>1. F \in Nat /\ G \in Nat /\ s \in Int /\ c \in Int /\ B \in Nat /\ R \in Nat /\ m \in Nat
  <2>1. \A x \in Int : x * x \in Nat
    BY SMT
  <2>2. \A x, y \in Nat : x + y \in Nat
    OBVIOUS
  <2>. QED
    BY <2>1, <2>2, SMT
<1>2. s * s + c * c = F * G
  BY SMT
<1>3. c * c >= 0
  BY <1>1
<1>4. B * R = m * m
  BY SMT
<1>5. F <= B /\ G <= R
  OBVIOUS
<1>6. (f1 + g1) * (f1 + g1) + (f2 + g2) * (f2 + g2) = F + 2 * s + G
  BY SMT
<1>7. (b + r) * (b + r) = B + 2 * m + R
  BY SMT
<1>. HIDE DEF F, G, s, c, B, R, m
<1>8. F * G <= B * R
  <2>1. F * G <= F * R
    BY <1>1, <1>5, Products
  <2>2. R * F <= R * B
    BY <1>1, <1>5, Products
  <2>3. R * F = F * R /\ R * B = B * R /\ F * G \in Int /\ F * R \in Int /\ B * R \in Int
    BY <1>1
  <2>. QED
    BY <2>1, <2>2, <2>3
<1>9. s * s <= m * m
  <2>1. s * s \in Int /\ c * c \in Int /\ m * m \in Int /\ F * G \in Int
    BY <1>1
  <2>. QED
    BY <1>2, <1>3, <1>4, <1>8, <2>1
<1>10. s <= m
  <2>1. ASSUME m < s PROVE m * m < s * s
    <3>1. s \in Nat /\ s - m \in Nat \ {0}
      BY <1>1, <2>1
    <3>2. m * m <= m * s
      BY <1>1, <2>1, Products
    <3>3. s * (s - m) > 0
      BY <1>1, <3>1
    <3>4. s * (s - m) = s * s - m * s /\ m * s \in Int /\ s * s \in Int /\ m * m \in Int
      BY <1>1
    <3>. QED
      BY <3>2, <3>3, <3>4
  <2>2. s * s \in Int /\ m * m \in Int
    BY <1>1
  <2>. QED
    BY <1>1, <1>9, <2>1, <2>2
<1>. QED
  BY <1>1, <1>5, <1>6, <1>7, <1>10

\* The point (x, y) is within a circle of radius R about the origin.
Within(R, x, y) == x * x + y * y <= R * R

\* Outside a circle about the origin of radius R, a node that comes into it after
\* k hundredths of its velocity moves towards the centre.
LEMMA MovesCloser ==
  ASSUME NEW d1 \in Int, NEW d2 \in Int, NEW v1 \in Int, NEW v2 \in Int,
         NEW k \in Nat, NEW R \in Nat, ~Within(R, d1, d2),
         NEW Z, Z = 100 * R, Within(Z, After100(d1, v1, k), After100(d2, v2, k))
  PROVE  v1 * d1 + v2 * d2 < 0 /\ k # 0
<1>. DEFINE D == d1 * d1 + d2 * d2
            S == v1 * d1 + v2 * d2
            V == v1 * v1 + v2 * v2
            Q == R * R
            c == k * k
<1>1. /\ D \in Int /\ S \in Int /\ V \in Nat /\ Q \in Int /\ c \in Nat /\ Q < D
  <2>1. \A x \in Int : x * x \in Nat
    BY SMT
  <2>2. \A x, y \in Nat : x + y \in Nat
    OBVIOUS
  <2>3. D \in Int /\ S \in Int /\ Q \in Int /\ V \in Nat /\ c \in Nat
    BY <2>1, <2>2, SMT
  <2>4. ~(D <= Q)
    BY DEF Within
  <2>. QED
    BY <2>3, <2>4, SMT
<1>2. (100 * d1 + k * v1) * (100 * d1 + k * v1)
        + (100 * d2 + k * v2) * (100 * d2 + k * v2)
      = 10000 * D + 200 * (k * S) + c * V
  BY SMT
<1>3. (100 * R) * (100 * R) = 10000 * Q
  BY SMT
<1>. HIDE DEF D, S, V, Q, c
<1>4. 10000 * D + 200 * (k * S) + c * V <= 10000 * Q
  <2>1. (100 * d1 + k * v1) * (100 * d1 + k * v1)
          + (100 * d2 + k * v2) * (100 * d2 + k * v2) <= (100 * R) * (100 * R)
    BY DEF Within, After100
  <2>. QED
    BY <1>2, <1>3, <2>1
<1>5. k * S \in Int /\ c * V \in Nat /\ (S >= 0 => k * S >= 0) /\ (k = 0 => k * S = 0)
  BY <1>1
<1>. DEFINE x == k * S
            y == c * V
<1>6. x \in Int /\ y \in Nat /\ (S >= 0 => x >= 0) /\ (k = 0 => x = 0)
  BY <1>5
<1>7. 10000 * D + 200 * x + y <= 10000 * Q
  BY <1>4
<1>. HIDE DEF x, y
<1>8. S < 0 /\ k # 0
  BY <1>1, <1>6, <1>7, SMT
<1>. QED
  BY <1>8 DEF S

\* A node that moves towards a circle it does not touch is told of a contact by the
\* hundredth k after which it would touch it.
LEMMA CircleReached ==
  ASSUME NEW b, NEW pos, NEW v, NEW radius, NEW k \in 0 .. 101,
         NEW d, d = Minus(pos, b.p), NEW R, R = b.r + radius,
         ~(Dot(d, d) <= R * R), Dot(d, d) \in Int, R * R \in Int,
         Dot(v, d) \in Int, Dot(v, d) < 0, v # Zero,
         NEW e, e = Moved(d, v, k), Dot(e, e) <= R * R
  PROVE  0 <= CircleContact(b, pos, v, radius) /\ CircleContact(b, pos, v, radius) <= k
<1>. DEFINE At(l) == LET f == Moved(d, v, l) IN Dot(f, f)
            reached == {l \in 0 .. 101 : At(l) <= R * R}
            first == CHOOSE l \in reached : \A m \in reached : l <= m
<1>1. k \in reached
  OBVIOUS
<1>2. reached \subseteq Nat
  <2>1. 0 .. 101 \subseteq Nat
    OBVIOUS
  <2>. QED
    BY <2>1, Zenon
<1>3. Dot(d, d) > R * R /\ ~(Dot(v, d) > 0)
  <2>1. \A x, y \in Int : ~(x <= y) => x > y
    OBVIOUS
  <2>2. \A x \in Int : x < 0 => ~(x > 0)
    OBVIOUS
  <2>. QED
    BY <2>1, <2>2
<1>4. CircleContact(b, pos, v, radius) =
        IF v = Zero \/ Dot(v, d) > 0 \/ reached = {} THEN -1 ELSE first
  BY <1>3 DEF CircleContact
<1>. HIDE DEF reached
<1>5. first \in reached /\ \A m \in reached : first <= m
  BY <1>1, <1>2, Least, Zenon
<1>. HIDE DEF first
<1>6. CircleContact(b, pos, v, radius) = first
  BY <1>1, <1>3, <1>4
<1>. QED
  BY <1>1, <1>2, <1>5, <1>6

-----------------------------------------------------------------------------
(* Obstacles on a node's way                                               *)

\* What M is in a hundredth of a step is less than half of the radius r, the rounding
\* included.
HalfRadius(M, r) == M + 500 <= 50 * r

\* p is where v takes a node from pos in k hundredths, or nearly so.
Passes(M, pos, v, k, p) ==
  /\ p \in Points
  /\ Abreast(M, v[1], k, p[1] - pos[1])
  /\ Abreast(M, v[2], k, p[2] - pos[2])

\* y is where part hundredths of v end from x, nudged by a millimetre at most.
EndsOn(x, v, part, y) ==
  y \in Int /\ y - Rounded(100 * x + part * v, 100) \in {0, 1}

EndsAt(pos, v, part, q) ==
  /\ q = <<q[1], q[2]>>
  /\ EndsOn(pos[1], v[1], part, q[1]) /\ EndsOn(pos[2], v[2], part, q[2])

LEMMA EndOfWay ==
  ASSUME NEW x \in Int, NEW v \in Int, NEW part \in 0 .. 100, NEW y, EndsOn(x, v, part, y)
  PROVE  Travels(y - x, part, v)
<1>. DEFINE X == part * v
            a == 100 * x + X
            R == Rounded(a, 100)
<1>1. X \in Int /\ a \in Int
  OBVIOUS
<1>2. R \in Int /\ a - 50 <= 100 * R /\ 100 * R <= a + 150
  BY <1>1, RoundedNear
<1>3. y \in Int /\ y - R \in {0, 1} /\ a = 100 * x + X
  BY DEF EndsOn
<1>. HIDE DEF R, a, X
<1>4. y - x \in Int /\ X - 100 <= 100 * (y - x) /\ 100 * (y - x) <= X + 300
  BY <1>1, <1>2, <1>3
<1>. QED
  BY <1>4 DEF X, Travels

LEMMA WayPassed ==
  ASSUME NEW M \in Nat, NEW v \in Points, Slow(M, v), NEW pos \in Points,
         NEW part \in 0 .. 100, NEW q, EndsAt(pos, v, part, q), NEW p \in Way(pos, q)
  PROVE  \E k \in 0 .. part : Passes(M, pos, v, k, p)
<1>1. /\ v[1] \in Int /\ v[2] \in Int /\ pos[1] \in Int /\ pos[2] \in Int
      /\ -M <= v[1] /\ v[1] <= M /\ -M <= v[2] /\ v[2] <= M
  BY DEF Points, Slow
<1>. DEFINE d1 == q[1] - pos[1]
            d2 == q[2] - pos[2]
<1>2. EndsOn(pos[1], v[1], part, q[1]) /\ EndsOn(pos[2], v[2], part, q[2])
  BY DEF EndsAt
<1>3. Travels(d1, part, v[1]) /\ Travels(d2, part, v[2])
  BY <1>1, <1>2, EndOfWay
<1>4. PICK j \in 0 .. 10 : p = Plus(pos, <<(j * d1) \div 10, (j * d2) \div 10>>)
  BY DEF Way
<1>. DEFINE k  == (j * part) \div 10
            y1 == (j * d1) \div 10
            y2 == (j * d2) \div 10
<1>. HIDE DEF d1, d2
<1>5. k \in 0 .. part /\ Abreast(M, v[1], k, y1)
  BY <1>1, <1>3, TenthOfWay
<1>6. Abreast(M, v[2], k, y2)
  BY <1>1, <1>3, TenthOfWay
<1>. HIDE DEF k, y1, y2
<1>7. p = <<pos[1] + y1, pos[2] + y2>>
  BY <1>4 DEF Plus, y1, y2
<1>8. p \in Points /\ p[1] - pos[1] = y1 /\ p[2] - pos[2] = y2
  <2>1. y1 \in Int /\ y2 \in Int
    BY <1>5, <1>6 DEF Abreast
  <2>. QED
    BY <1>1, <1>7, <2>1 DEF Points
<1>9. Passes(M, pos, v, k, p)
  BY <1>5, <1>6, <1>8 DEF Passes
<1>. QED
  BY <1>5, <1>9

\* The centre passes the inside of a rectangle only if the node touches it.
LEMMA RectPassed ==
  ASSUME NEW M \in Nat, NEW r \in Nat, HalfRadius(M, r), NEW v \in Points,
         NEW pos \in Points, NEW b \in Obstacles, b.shape = "rect",
         NEW k \in Nat, NEW p, Passes(M, pos, v, k, p), PointInside(b, p)
  PROVE  InGrown(b, pos, v, r, k)
<1>1. /\ b.p[1] \in Int /\ b.p[2] \in Int /\ pos[1] \in Int /\ pos[2] \in Int
      /\ b.w \in Nat /\ b.h \in Nat /\ v[1] \in Int /\ v[2] \in Int
      /\ p[1] \in Int /\ p[2] \in Int
  BY DEF Obstacles, Points, Passes
<1>2. /\ 0 < p[1] - b.p[1] /\ p[1] - b.p[1] < b.w
      /\ 0 < p[2] - b.p[2] /\ p[2] - b.p[2] < b.h
  BY DEF PointInside, Minus
<1>. DEFINE x == k * v[1]
            y == k * v[2]
<1>3. x \in Int /\ y \in Int
  BY <1>1
<1>4. /\ -(M + 300) <= 100 * (p[1] - pos[1]) - x /\ 100 * (p[1] - pos[1]) - x <= M + 300
      /\ -(M + 300) <= 100 * (p[2] - pos[2]) - y /\ 100 * (p[2] - pos[2]) - y <= M + 300
  BY DEF Passes, Abreast
<1>5. InGrown(b, pos, v, r, k) <=>
        /\ -(100 * r) <= 100 * (pos[1] - b.p[1]) + x
        /\ 100 * (pos[1] - b.p[1]) + x <= 100 * (b.w + r)
        /\ -(100 * r) <= 100 * (pos[2] - b.p[2]) + y
        /\ 100 * (pos[2] - b.p[2]) + y <= 100 * (b.h + r)
  BY DEF InGrown, After100
<1>. HIDE DEF x, y
<1>. QED
  BY <1>1, <1>2, <1>3, <1>4, <1>5, SMT DEF HalfRadius

LEMMA TouchedAtOnce ==
  ASSUME NEW b \in Obstacles, NEW pos \in Points, NEW v \in Points, NEW r \in Nat,
         InGrown(b, pos, v, r, 0)
  PROVE  RectOverlap(b, pos, r)
<1>1. /\ b.p[1] \in Int /\ b.p[2] \in Int /\ pos[1] \in Int /\ pos[2] \in Int
      /\ b.w \in Nat /\ b.h \in Nat /\ v[1] \in Int /\ v[2] \in Int
  BY DEF Obstacles, Points
<1>2. \A x, d \in Int : After100(x, d, 0) = 100 * x
  BY DEF After100
<1>3. /\ After100(pos[1] - b.p[1], v[1], 0) = 100 * (pos[1] - b.p[1])
      /\ After100(pos[2] - b.p[2], v[2], 0) = 100 * (pos[2] - b.p[2])
  BY <1>1, <1>2
<1>. QED
  BY <1>1, <1>3 DEF InGrown, RectOverlap, Minus

\* The coordinate a, in hundredths, is less than half of r away from f, and so it
\* is when it is rounded.
CloseBy(r, a, f) ==
  /\ \E g \in Int : a = 100 * f + g /\ -(100 * r) <= 2 * g /\ 2 * g <= 100 * r
  /\ \E g \in Int : Rounded(a, 100) = f + g /\ -r <= 2 * g /\ 2 * g <= r

\* Along one axis: d from the centre of a circle v takes a node close to the point
\* abreast of it, f from the centre.
LEMMA AxisPassed ==
  ASSUME NEW M \in Nat, NEW r \in Nat, HalfRadius(M, r), NEW v \in Int, NEW k \in Nat,
         NEW y, Abreast(M, v, k, y), NEW d \in Int, NEW f \in Int, d + y = f
  PROVE  CloseBy(r, 100 * d + k * v, f)
<1>. DEFINE X == k * v
            a == 100 * d + X
            R == Rounded(a, 100)
            g == a - 100 * f
            h == R - f
<1>1. X \in Int /\ a \in Int /\ g \in Int
  OBVIOUS
<1>2. R \in Int /\ a - 50 <= 100 * R /\ 100 * R <= a + 150
  BY <1>1, RoundedNear
<1>3. y \in Int /\ -(M + 300) <= 100 * y - X /\ 100 * y - X <= M + 300
  BY DEF Abreast
<1>4. a = 100 * d + X /\ a = 100 * f + g /\ R = f + h
  BY <1>1, <1>2
<1>5. h \in Int
  BY <1>2
<1>6. -(100 * r) <= 2 * g /\ 2 * g <= 100 * r /\ -r <= 2 * h /\ 2 * h <= r
  <2>. HIDE DEF X, a, R, g, h
  <2>. QED
    BY <1>1, <1>2, <1>3, <1>4, <1>5, SMT DEF HalfRadius
<1>. HIDE DEF g, h, R
<1>7. R = Rounded(a, 100)
  BY DEF R
<1>. HIDE DEF a
<1>8. CloseBy(r, a, f)
  BY <1>1, <1>4, <1>5, <1>6, <1>7 DEF CloseBy
<1>. QED
  BY <1>8 DEF a

LEMMA SmallSquares ==
  ASSUME NEW g \in Int, NEW h \in Int, NEW r \in Nat, -r <= 2 * g, 2 * g <= r,
         -r <= 2 * h, 2 * h <= r
  PROVE  g * g + h * h <= r * r
<1>1. ASSUME NEW x \in Int, -r <= 2 * x, 2 * x <= r
      PROVE  4 * (x * x) <= r * r
  <2>1. r - 2 * x \in Nat /\ r + 2 * x \in Nat
    BY <1>1
  <2>2. (r - 2 * x) * (r + 2 * x) >= 0
    BY <2>1
  <2>3. (r - 2 * x) * (r + 2 * x) = r * r - 4 * (x * x)
    BY SMT
  <2>4. x * x \in Int /\ r * r \in Int
    OBVIOUS
  <2>. QED
    BY <2>2, <2>3, <2>4
<1>2. 4 * (g * g) <= r * r /\ 4 * (h * h) <= r * r
  BY <1>1
<1>3. g * g \in Int /\ h * h \in Int /\ r * r \in Nat
  OBVIOUS
<1>. DEFINE x == g * g
            y == h * h
            z == r * r
<1>4. x \in Int /\ y \in Int /\ z \in Nat /\ 4 * x <= z /\ 4 * y <= z
  BY <1>2, <1>3
<1>. HIDE DEF x, y, z
<1>5. x + y <= z
  BY <1>4
<1>. QED
  BY <1>5 DEF x, y, z

\* The centre passes the inside of a circle only if the node touches it, and is told
\* so.
LEMMA CirclePassed ==
  ASSUME NEW M \in Nat, NEW r \in Nat, HalfRadius(M, r), NEW v \in Points,
         NEW pos \in Points, NEW b \in Obstacles, ~CircleOverlap(b, pos, r),
         NEW k \in 0 .. 100, NEW p, Passes(M, pos, v, k, p),
         b.shape # "rect", PointInside(b, p)
  PROVE  /\ k # 0 /\ 0 <= CircleContact(b, pos, v, r)
         /\ CircleContact(b, pos, v, r) <= k
<1>. DEFINE d  == Minus(pos, b.p)
            d1 == pos[1] - b.p[1]
            d2 == pos[2] - b.p[2]
            f1 == p[1] - b.p[1]
            f2 == p[2] - b.p[2]
            e  == Moved(d, v, k)
            R  == b.r + r
<1>1. /\ b.p[1] \in Int /\ b.p[2] \in Int /\ pos[1] \in Int /\ pos[2] \in Int
      /\ b.r \in Nat /\ v[1] \in Int /\ v[2] \in Int /\ v = <<v[1], v[2]>>
      /\ p[1] \in Int /\ p[2] \in Int /\ b.p \in Points
  BY DEF Obstacles, Points, Passes
<1>2. /\ d1 \in Int /\ d2 \in Int /\ f1 \in Int /\ f2 \in Int /\ R \in Nat /\ k \in Nat
      /\ d = <<d1, d2>>
  BY <1>1 DEF Minus
<1>3. ~(d1 * d1 + d2 * d2 <= R * R)
  <2>1. ~Near(pos, b.p, R)
    BY <1>1, NearSymmetric DEF CircleOverlap
  <2>. QED
    BY <2>1 DEF Near, Dot, Minus
<1>4. f1 * f1 + f2 * f2 <= b.r * b.r
  <2>1. f1 * f1 + f2 * f2 < b.r * b.r
    BY DEF PointInside, Dot, Minus
  <2>2. f1 * f1 + f2 * f2 \in Int /\ b.r * b.r \in Int
    BY <1>1, <1>2
  <2>. QED
    BY <2>1, <2>2
<1>5. Abreast(M, v[1], k, p[1] - pos[1]) /\ Abreast(M, v[2], k, p[2] - pos[2])
  BY DEF Passes
<1>6. CloseBy(r, 100 * d1 + k * v[1], f1)
  <2>1. d1 + (p[1] - pos[1]) = f1
    BY <1>1
  <2>. HIDE DEF d1, f1
  <2>. QED
    BY <1>1, <1>2, <1>5, <2>1, AxisPassed
<1>7. CloseBy(r, 100 * d2 + k * v[2], f2)
  <2>1. d2 + (p[2] - pos[2]) = f2
    BY <1>1
  <2>. HIDE DEF d2, f2
  <2>. QED
    BY <1>1, <1>2, <1>5, <2>1, AxisPassed
<1>8. e[1] = Rounded(100 * d1 + k * v[1], 100) /\ e[2] = Rounded(100 * d2 + k * v[2], 100)
  BY <1>2 DEF Moved
<1>. HIDE DEF d, d1, d2, f1, f2, e, R
<1>9. Dot(v, d) < 0 /\ k # 0
  <2>1. PICK g1 \in Int : /\ 100 * d1 + k * v[1] = 100 * f1 + g1
                          /\ -(100 * r) <= 2 * g1 /\ 2 * g1 <= 100 * r
    BY <1>6 DEF CloseBy
  <2>2. PICK g2 \in Int : /\ 100 * d2 + k * v[2] = 100 * f2 + g2
                          /\ -(100 * r) <= 2 * g2 /\ 2 * g2 <= 100 * r
    BY <1>7 DEF CloseBy
  <2>3. g1 * g1 + g2 * g2 <= (100 * r) * (100 * r)
    <3>1. 100 * r \in Nat
      OBVIOUS
    <3>. QED
      BY <2>1, <2>2, <3>1, SmallSquares
  <2>4. (100 * f1) * (100 * f1) + (100 * f2) * (100 * f2) <= (100 * b.r) * (100 * b.r)
    <3>1. \A x, y, z \in Int : x * x + y * y <= z * z =>
            (100 * x) * (100 * x) + (100 * y) * (100 * y) <= (100 * z) * (100 * z)
      BY SMT
    <3>2. f1 * f1 + f2 * f2 <= b.r * b.r /\ b.r \in Int
      BY <1>1, <1>4
    <3>. QED
      BY <1>2, <3>1, <3>2, Zenon
  <2>5. (100 * f1 + g1) * (100 * f1 + g1) + (100 * f2 + g2) * (100 * f2 + g2)
          <= (100 * b.r + 100 * r) * (100 * b.r + 100 * r)
    <3>. DEFINE x == 100 * f1
                y == 100 * f2
                z == 100 * b.r
                w == 100 * r
    <3>1. x \in Int /\ y \in Int /\ z \in Nat /\ w \in Nat
      BY <1>1, <1>2
    <3>2. x * x + y * y <= z * z /\ g1 * g1 + g2 * g2 <= w * w
      BY <2>3, <2>4
    <3>. HIDE DEF x, y, z, w
    <3>3. (x + g1) * (x + g1) + (y + g2) * (y + g2) <= (z + w) * (z + w)
      BY <3>1, <3>2, Triangle
    <3>. QED
      BY <3>3 DEF x, y, z, w
  <2>6. 100 * b.r + 100 * r = 100 * R
    BY <1>1 DEF R
  <2>. DEFINE x == After100(d1, v[1], k)
              y == After100(d2, v[2], k)
              s == 100 * f1 + g1
              t == 100 * f2 + g2
              w == 100 * b.r + 100 * r
              Z == 100 * R
  <2>7. Within(Z, x, y)
    <3>1. x = s /\ y = t /\ w = Z /\ s * s + t * t <= w * w
      BY <2>1, <2>2, <2>5, <2>6 DEF After100
    <3>. HIDE DEF x, y, s, t, w, Z
    <3>. QED
      BY <3>1 DEF Within
  <2>a. ~Within(R, d1, d2)
    BY <1>3 DEF Within
  <2>z. Z = 100 * R
    OBVIOUS
  <2>. HIDE DEF Z
  <2>8. v[1] * d1 + v[2] * d2 < 0 /\ k # 0
    BY <1>1, <1>2, <2>7, <2>a, <2>z, MovesCloser
  <2>. QED
    BY <1>2, <2>8 DEF Dot
<1>10. Dot(e, e) <= R * R
  <2>1. PICK g1 \in Int : e[1] = f1 + g1 /\ -r <= 2 * g1 /\ 2 * g1 <= r
    BY <1>6, <1>8 DEF CloseBy
  <2>2. PICK g2 \in Int : e[2] = f2 + g2 /\ -r <= 2 * g2 /\ 2 * g2 <= r
    BY <1>7, <1>8 DEF CloseBy
  <2>3. g1 * g1 + g2 * g2 <= r * r
    BY <2>1, <2>2, SmallSquares
  <2>4. (f1 + g1) * (f1 + g1) + (f2 + g2) * (f2 + g2) <= (b.r + r) * (b.r + r)
    BY <1>1, <1>2, <1>4, <2>3, Triangle
  <2>. QED
    BY <2>1, <2>2, <2>4 DEF Dot, R
<1>11. v # Zero
  <2>1. v[1] * d1 + v[2] * d2 < 0
    BY <1>2, <1>9 DEF Dot
  <2>2. v[1] = 0 /\ v[2] = 0 => v[1] * d1 + v[2] * d2 = 0
    BY <1>2
  <2>. QED
    BY <2>1, <2>2 DEF Zero
<1>12. /\ ~(Dot(d, d) <= R * R) /\ Dot(d, d) \in Int /\ R * R \in Int /\ Dot(v, d) \in Int
  BY <1>1, <1>2, <1>3 DEF Dot
<1>13. d = Minus(pos, b.p) /\ R = b.r + r /\ e = Moved(d, v, k) /\ k \in 0 .. 101
  BY DEF d, R, e
<1>14. 0 <= CircleContact(b, pos, v, r) /\ CircleContact(b, pos, v, r) <= k
  BY <1>9, <1>10, <1>11, <1>12, <1>13, CircleReached
<1>. QED
  BY <1>9, <1>14

\* The part t that a node may travel takes the contact c into account.
Told(t, c) == 0 <= c /\ c <= 100 => t <= c

LEMMA NearestKept ==
  ASSUME NEW s \in 0 .. 101, NEW c \in Int, NEW u,
         u = IF 0 <= c /\ c <= 100 /\ c < s THEN c ELSE s
  PROVE  Told(u, c) /\ \A e \in Int : Told(s, e) => Told(u, e)
BY DEF Told

LEMMA StopsBefore ==
  ASSUME NEW t \in 0 .. 101, NEW c \in Int, Told(t, c), 0 <= c, NEW k \in 0 .. Part(t),
         c <= k
  PROVE  k = 0
BY DEF Told, Part

\* On its way to where it stops, a node does not pass through the obstacle b.
LEMMA ObstacleNotPassed ==
  ASSUME NEW M \in Nat, NEW r \in Nat, HalfRadius(M, r), NEW v \in Points, Slow(M, v),
         NEW pos \in Points, NEW b \in Obstacles, ~NodeOverlap(b, pos, r),
         NEW t \in 0 .. 101, Told(t, Contact(b, pos, v, r)),
         NEW q, EndsAt(pos, v, Part(t), q), NEW p \in Way(pos, q)
  PROVE  ~PointInside(b, p)
<1>1. Part(t) \in 0 .. 100
  BY DEF Part
<1>2. PICK k \in 0 .. Part(t) : Passes(M, pos, v, k, p)
  BY <1>1, WayPassed
<1>3. k \in Nat /\ k \in 0 .. 100
  BY <1>1
<1>4. Contact(b, pos, v, r) \in Int
  BY RectContactOK, CircleContactOK DEF Contact
<1>5. CASE b.shape = "rect"
  <2>1. SUFFICES ASSUME PointInside(b, p) PROVE FALSE
    OBVIOUS
  <2>2. InGrown(b, pos, v, r, k)
    BY <1>2, <1>3, <1>5, <2>1, RectPassed
  <2>3. ~RectOverlap(b, pos, r) /\ Contact(b, pos, v, r) = RectContact(b, pos, v, r)
    BY <1>5 DEF NodeOverlap, Contact
  <2>4. 0 <= Contact(b, pos, v, r) /\ Contact(b, pos, v, r) <= k
    BY <1>3, <2>2, <2>3, RectReached
  <2>5. k = 0
    BY <1>4, <2>4, StopsBefore
  <2>6. RectOverlap(b, pos, r)
    BY <2>2, <2>5, TouchedAtOnce
  <2>. QED
    BY <2>3, <2>6
<1>6. CASE b.shape # "rect"
  <2>1. SUFFICES ASSUME PointInside(b, p) PROVE FALSE
    OBVIOUS
  <2>2. ~CircleOverlap(b, pos, r) /\ Contact(b, pos, v, r) = CircleContact(b, pos, v, r)
    BY <1>6 DEF NodeOverlap, Contact
  <2>3. /\ k # 0 /\ 0 <= CircleContact(b, pos, v, r)
        /\ CircleContact(b, pos, v, r) <= k
    BY <1>2, <1>3, <1>6, <2>1, <2>2, CirclePassed
  <2>4. k = 0
    BY <1>4, <2>2, <2>3, StopsBefore
  <2>. QED
    BY <2>3, <2>4
<1>. QED
  BY <1>5, <1>6

\* Nothing pushes a node that touches nothing, so it travels from where it is, no
\* further than any contact lets it.
LEMMA NothingPushes ==
  ASSUME NEW n, NodeOK(n), NEW objects \in Seq(Obstacles),
         \A k \in 1 .. Len(objects) : ~NodeOverlap(objects[k], n.pos, Radius[n.kind])
  PROVE  \E t \in 0 .. 101 :
           /\ Collide(n, objects).pos = Moved(n.pos, n.v, Part(t))
           /\ \A k \in 1 .. Len(objects) :
                Told(t, Contact(objects[k], n.pos, n.v, Radius[n.kind]))
<1>. DEFINE c == Len(objects)
            r == Radius[n.kind]
            C(k) == Contact(objects[k], n.pos, n.v, r)
<1>1. PICK H \in [0 .. c -> Hits] : Course(n, objects, H)
  BY CourseExists
<1>2. c \in Nat
  BY LenProperties
<1>3. n.pos \in Points /\ n.v \in Points /\ r \in Nat
  BY MobilityAssumption DEF NodeOK
<1>4. H[0] = [pos |-> n.pos, t |-> 101]
      /\ \A k \in 1 .. c : H[k] = Meet(H[k - 1], objects[k], n.v, r)
  BY <1>1 DEF Course
<1>5. \A k \in 1 .. c : objects[k] \in Obstacles
  BY ElementOfSeq
<1>6. \A k \in 1 .. c : C(k) \in Int
  BY <1>3, <1>5, RectContactOK, CircleContactOK DEF Contact
<1>7. \A k \in 1 .. c : ~NodeOverlap(objects[k], n.pos, r)
  OBVIOUS
<1>. DEFINE Good(k) == /\ H[k].pos = n.pos
                       /\ \A l \in 1 .. k : Told(H[k].t, C(l))
            T == {k \in 0 .. c : Good(k)}
<1>8. 0 \in T
  BY <1>2, <1>4
<1>9. ASSUME NEW k \in 1 .. c, Good(k - 1)
      PROVE  Good(k)
  <2>. DEFINE m == H[k - 1]
  <2>1. m \in Hits /\ k - 1 \in 0 .. c
    BY <1>2
  <2>2. Pushed(objects[k], n.pos, r) = n.pos
    BY <1>7 DEF Pushed
  <2>3. H[k] = [pos |-> n.pos,
                t |-> IF 0 <= C(k) /\ C(k) <= 100 /\ C(k) < m.t THEN C(k) ELSE m.t]
    BY <1>4, <1>9, <2>2 DEF Meet
  <2>4. m.t \in 0 .. 101 /\ C(k) \in Int
    BY <1>6, <2>1 DEF Hits
  <2>5. \A l \in 1 .. k - 1 : Told(m.t, C(l)) /\ C(l) \in Int
    BY <1>2, <1>6, <1>9
  <2>. DEFINE u == H[k].t
  <2>6. u = IF 0 <= C(k) /\ C(k) <= 100 /\ C(k) < m.t THEN C(k) ELSE m.t
    BY <2>3
  <2>7. H[k].pos = n.pos
    BY <2>3
  <2>. HIDE DEF m, u, C
  <2>8. Told(u, C(k)) /\ \A e \in Int : Told(m.t, e) => Told(u, e)
    BY <2>4, <2>6, NearestKept
  <2>9. \A l \in 1 .. k - 1 : Told(u, C(l))
    BY <2>5, <2>8
  <2>10. \A l \in 1 .. k : Told(u, C(l))
    <3>1. \A l \in 1 .. k : l = k \/ l \in 1 .. k - 1
      OBVIOUS
    <3>. QED
      BY <2>8, <2>9, <3>1
  <2>. QED
    BY <2>7, <2>10 DEF u
<1>. HIDE DEF Good
<1>10. \A k \in 1 .. c : k - 1 \in T => k \in T
  BY <1>2, <1>9
<1>. HIDE DEF T
<1>11. c \in T
  <2>1. \A k \in 0 .. c : k \in T
    BY <1>2, <1>8, <1>10, Upto
  <2>2. c \in 0 .. c
    BY <1>2
  <2>. QED
    BY <2>1, <2>2
<1>12. Good(c)
  BY <1>11 DEF T
<1>. DEFINE t == H[c].t
<1>13. t \in 0 .. 101
  <2>1. H[c] \in Hits
    BY <1>2
  <2>. QED
    BY <2>1 DEF Hits
<1>14. Collide(n, objects).pos = Moved(H[c].pos, n.v, Part(t))
  <2>. DEFINE p == Moved(H[c].pos, n.v, Part(t))
              b == H[c].t <= 100
  <2>1. Collide(n, objects) = [n EXCEPT !.pos = p, !.collided = b]
    BY <1>1 DEF Course
  <2>. HIDE DEF p, b
  <2>. QED
    BY <2>1 DEF NodeOK, NodeFields, p
<1>15. Collide(n, objects).pos = Moved(n.pos, n.v, Part(t))
  BY <1>12, <1>14 DEF Good
<1>16. \A k \in 1 .. c : Told(t, C(k))
  BY <1>12 DEF Good
<1>. QED
  BY <1>13, <1>15, <1>16

\* The border nudges a node by a millimetre at most.
LEMMA NudgedWay ==
  ASSUME NEW n, NodeOK(n), NEW pos \in Points, NEW v \in Points, NEW part \in 0 .. 100,
         n.pos = Moved(pos, v, part)
  PROVE  EndsAt(pos, v, part, BorderCollision(n).pos)
<1>. DEFINE Nudged(x) == IF Bounded /\ x <= Radius[n.kind] THEN x + 1 ELSE x
            p == <<Nudged(n.pos[1]), Nudged(n.pos[2])>>
<1>1. n.pos[1] \in Int /\ n.pos[2] \in Int
  BY DEF NodeOK, Points
<1>2. BorderCollision(n).pos = p
  <2>1. n.pos = <<n.pos[1], n.pos[2]>>
    BY DEF NodeOK, Points
  <2>2. BorderCollision(n).pos = n.pos \/ Bounded
    BY DEF BorderCollision
  <2>3. Bounded => BorderCollision(n) = [n EXCEPT !.pos = p]
    BY DEF BorderCollision
  <2>4. ~Bounded => p = n.pos
    BY <2>1
  <2>. HIDE DEF p
  <2>. QED
    BY <2>2, <2>3, <2>4 DEF NodeOK, NodeFields, BorderCollision
<1>3. \A x \in Int : Nudged(x) \in Int /\ Nudged(x) - x \in {0, 1}
  OBVIOUS
<1>4. /\ n.pos[1] = Rounded(100 * pos[1] + part * v[1], 100)
      /\ n.pos[2] = Rounded(100 * pos[2] + part * v[2], 100)
  BY DEF Moved
<1>. HIDE DEF Nudged
<1>5. p[1] = Nudged(n.pos[1]) /\ p[2] = Nudged(n.pos[2]) /\ p = <<p[1], p[2]>>
  OBVIOUS
<1>6. /\ p[1] \in Int /\ p[1] - n.pos[1] \in {0, 1}
      /\ p[2] \in Int /\ p[2] - n.pos[2] \in {0, 1}
  BY <1>1, <1>3, <1>5
<1>. HIDE DEF p
<1>7. EndsAt(pos, v, part, p)
  BY <1>4, <1>5, <1>6 DEF EndsAt, EndsOn
<1>. QED
  BY <1>2, <1>7

\* A node that moves does so clear of every obstacle.
LEMMA MovesClearOf ==
  ASSUME NEW M \in Nat, Unhurried(M), Inv, HeldInv(M), MoveNode,
         ~Touching(nodes, turn)
  PROVE  \A k \in DOMAIN Objects(nodes, turn) :
           \A p \in Way(nodes[turn].pos, nodes'[turn].pos) :
             ~PointInside(Objects(nodes, turn)[k], p)
<1>. DEFINE n == nodes[turn]
            objects == Objects(nodes, turn)
            c == Collide(n, objects)
            m == BorderCollision(c)
            r == Radius[n.kind]
<1>1. /\ NodeOK(n) /\ Slow(M, n.v) /\ IsNodes(nodes) /\ turn \in 1 .. Len(nodes)
      /\ turn \in DOMAIN nodes
  BY DEF Inv, IsNodes, HeldInv, Held
<1>2. nodes'[turn] = m
  BY <1>1 DEF MoveNode
<1>3. objects \in Seq(Obstacles)
  BY <1>1, ObjectsOK
<1>4. DOMAIN objects = 1 .. Len(objects)
  BY <1>3, LenProperties
<1>5. \A k \in 1 .. Len(objects) : ~NodeOverlap(objects[k], n.pos, r)
  BY <1>4 DEF Touching
<1>. HIDE DEF n, objects
<1>6. PICK t \in 0 .. 101 :
        /\ c.pos = Moved(n.pos, n.v, Part(t))
        /\ \A k \in 1 .. Len(objects) : Told(t, Contact(objects[k], n.pos, n.v, r))
  BY <1>1, <1>3, <1>5, NothingPushes
<1>7. NodeOK(c)
  BY <1>1, <1>3, CollideOK
<1>8. n.pos \in Points /\ n.v \in Points /\ n.kind \in Kinds
  BY <1>1 DEF NodeOK
<1>9. r \in Nat /\ HalfRadius(M, r)
  BY <1>8, MobilityAssumption DEF Unhurried, HalfRadius
<1>10. Part(t) \in 0 .. 100
  BY DEF Part
<1>. HIDE DEF c
<1>11. EndsAt(n.pos, n.v, Part(t), m.pos)
  BY <1>6, <1>7, <1>8, <1>10, NudgedWay
<1>. HIDE DEF m, r
<1>12. ASSUME NEW k \in 1 .. Len(objects), NEW p \in Way(n.pos, m.pos)
       PROVE  ~PointInside(objects[k], p)
  <2>1. objects[k] \in Obstacles
    BY <1>3, ElementOfSeq
  <2>2. ~NodeOverlap(objects[k], n.pos, r) /\ Told(t, Contact(objects[k], n.pos, n.v, r))
    BY <1>5, <1>6
  <2>. QED
    BY <1>1, <1>8, <1>9, <1>11, <2>1, <2>2, ObstacleNotPassed
<1>. QED
  BY <1>2, <1>4, <1>12 DEF n, objects

-----------------------------------------------------------------------------
(* Theorems                                                                *)

THEOREM InvHolds == Spec => []Inv
BY InitInv, NextInv, PTL DEF Spec

\* Every variable of the moving nodes keeps its type.
THEOREM TypeCorrect == Spec => []TypeOK
<1>1. Inv => TypeOK
  <2>. SUFFICES ASSUME Inv PROVE TypeOK
    OBVIOUS
  <2>1. DOMAIN nodes = 1 .. Len(nodes)
    BY DEF Inv, IsNodes
  <2>. QED
    BY <2>1 DEF Inv, IsNodes, NodeOK, TypeOK
<1>. QED
  BY <1>1, InvHolds, PTL

\* No sequence of bounces, pauses, dead ends and changes of role makes a node
\* dereference a hot spot it does not have.
THEOREM SpotAlwaysKnown == Spec => []SpotKnown
<1>1. Inv => SpotKnown
  <2>. SUFFICES ASSUME Inv PROVE SpotKnown
    OBVIOUS
  <2>1. DOMAIN nodes = 1 .. Len(nodes)
    BY DEF Inv, IsNodes
  <2>. QED
    BY <2>1 DEF Inv, IsNodes, NodeOK, SpotKnown
<1>. QED
  BY <1>1, InvHolds, PTL

\* Whatever the number of nodes and wherever they have moved: the roles given by
\* RoleAssignament make two maximal sets of nodes that do not see each other.
THEOREM RolesAlwaysIndependent == Spec => []RolesIndependent
<1>1. RolesInv => RolesIndependent
  BY DEF RolesInv, RolesIndependent
<1>. QED
  BY <1>1, InvHolds, InitRoles, NextRoles, PTL DEF Spec

\* With any number of nodes middlePoint's comparison of y with xMin does no harm
\* on the diagonal.
THEOREM MiddleAlwaysCentre == Spec => []MiddleIsCentre
BY InvHolds, InitRoles, NextMiddle, PTL DEF Spec

\* In every roomy scenario, whatever the number of nodes, the buildings in their
\* way and the speeds they draw, no sequence of pushes, bounces and nudges takes a
\* node or the reference point out of a bounded scenario.
THEOREM NeverLeaves ==
  ASSUME NEW M \in Nat, Roomy(M)
  PROVE  Spec => []InScenario
<1>1. Inv /\ HeldInv(M) => InScenario
  <2>. SUFFICES ASSUME Inv, HeldInv(M) PROVE InScenario
    OBVIOUS
  <2>1. DOMAIN nodes = 1 .. Len(nodes)
    BY DEF Inv, IsNodes
  <2>. QED
    BY <2>1 DEF HeldInv, Held, InScenario
<1>2. Init => HeldInv(M)
  BY InitHeld
<1>3. Inv /\ HeldInv(M) /\ [Next]_vars => HeldInv(M)'
  BY NextHeld
<1>. QED
  BY <1>1, <1>2, <1>3, InvHolds, PTL DEF Spec

\* In every roomy scenario, as long as no node travels half of its radius in
\* a hundredth of a step: however many obstacles lie ahead, a node that touches
\* nothing does not pass through any of them.
THEOREM NeverTunnels ==
  ASSUME NEW M \in Nat, Roomy(M), Unhurried(M)
  PROVE  Spec => NoTunnelling
<1>1. Inv /\ HeldInv(M) /\ [Next]_vars => [\A i \in DOMAIN nodes : MovesClear(i)]_vars
  <2>. SUFFICES ASSUME Inv, HeldInv(M), Next
                PROVE  \A i \in DOMAIN nodes : MovesClear(i)
    OBVIOUS
  <2>1. CASE MoveNode
    BY <2>1, MovesClearOf DEF MovesClear
  <2>2. CASE ~MoveNode
    <3>1. phase # "move"
      BY <2>2 DEF Next, ThinkModels, Bounce, NewHeading, KeepHeading, Follow, Rest,
         SetOff, SetOffToSpot, DeadEnd, Walk, WalkToSpot, Thinking
    <3>. QED
      BY <3>1 DEF MovesClear
  <2>. QED
    BY <2>1, <2>2
<1>2. Init => HeldInv(M)
  BY InitHeld
<1>3. Inv /\ HeldInv(M) /\ [Next]_vars => HeldInv(M)'
  BY NextHeld
<1>. QED
  BY <1>1, <1>2, <1>3, InvHolds, PTL DEF Spec, NoTunnelling
=============================================================================
