------------------------------- MODULE Plane -------------------------------
(***************************************************************************)
(* The plane of a scenario, in millimetres: a node's position is rounded   *)
(* to the millimetre after every move (Node::roundMM), so points are pairs *)
(* of integers.  Vectors are kept to the millimetre as well.               *)
(***************************************************************************)
EXTENDS Integers

Zero == <<0, 0>>

\* A vector as its default constructor leaves it: a metre along y.
DefaultVector == <<0, 1000>>

Plus(p, d) == <<p[1] + d[1], p[2] + d[2]>>

Minus(p, q) == <<p[1] - q[1], p[2] - q[2]>>

Dot(d, e) == d[1] * e[1] + d[2] * e[2]

\* Point2D::distance(p, q) <= r.
Near(p, q, r) == LET d == Minus(p, q) IN Dot(d, d) <= r * r

Abs(x) == IF x < 0 THEN -x ELSE x

\* The length of a vector, to the millimetre below.
Length(d) ==
  LET x == Abs(d[1])
      y == Abs(d[2])
  IN  CHOOSE n \in (IF x > y THEN x ELSE y) .. x + y :
        n * n <= Dot(d, d) /\ Dot(d, d) < (n + 1) * (n + 1)

\* a / b to the nearest integer, as the code rounds: (int)(x + 0.5) cuts
\* towards zero.
Rounded(a, b) ==
  LET twice == 2 * a + b
  IN  IF twice >= 0 THEN twice \div (2 * b) ELSE -((-twice) \div (2 * b))

\* unitVector() (or normalize()) followed by a product: the vector of length
\* s along d, the zero vector along a zero vector.
Along(d, s) ==
  IF d = Zero THEN Zero
  ELSE LET n == Length(d) IN <<Rounded(d[1] * s, n), Rounded(d[2] * s, n)>>

\* Node::setPosition(v * percent / 100): the point is moved, then rounded.
Moved(p, v, percent) ==
  <<Rounded(100 * p[1] + percent * v[1], 100),
    Rounded(100 * p[2] + percent * v[2], 100)>>
=============================================================================
