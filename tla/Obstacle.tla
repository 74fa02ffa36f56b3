------------------------------ MODULE Obstacle ------------------------------
(***************************************************************************)
(* What a moving node can run into: the rectangles and circles of the      *)
(* scenario (ScenRectangle, ScenCircle) and, when a model is physical, the *)
(* other nodes (Node::intersect).  Each answers with the part t of the     *)
(* node's velocity that can be travelled before contact, and a building    *)
(* first pushes out a node that already touches it.                        *)
(*                                                                         *)
(* t is kept in hundredths, rounded up: the engine compares it with 0, 1   *)
(* and 0.01 and steps back by 0.01.  -1 is "no contact".  Rectangles are   *)
(* not rotated.                                                            *)
(***************************************************************************)
EXTENDS Plane

Clearance == 10   \* the 0.01 added to the radius when a node is pushed out

Rect(p, w, h) == [shape |-> "rect", p |-> p, w |-> w, h |-> h, r |-> 0]

Circle(p, r) == [shape |-> "circle", p |-> p, w |-> 0, h |-> 0, r |-> r]

NodeDisc(p, r) == [shape |-> "node", p |-> p, w |-> 0, h |-> 0, r |-> r]

RectOverlap(b, pos, radius) ==
  LET q == Minus(pos, b.p)
  IN  /\ -radius <= q[1] /\ q[1] <= b.w + radius
      /\ -radius <= q[2] /\ q[2] <= b.h + radius

CircleOverlap(b, pos, radius) == Near(b.p, pos, b.r + radius)

NodeOverlap(b, pos, radius) ==
  IF b.shape = "rect" THEN RectOverlap(b, pos, radius)
                      ELSE CircleOverlap(b, pos, radius)

\* The centre is strictly inside.
PointInside(b, pos) ==
  LET q == Minus(pos, b.p)
  IN  IF b.shape = "rect"
      THEN 0 < q[1] /\ q[1] < b.w /\ 0 < q[2] /\ q[2] < b.h
      ELSE Dot(q, q) < b.r * b.r

FaultyCalcShift(b, pos, length) ==
  LET q == Minus(pos, b.p)
  IN  IF q[2] >= b.h \/ q[2] <= 0 THEN <<0, length>>
      ELSE IF q[1] >= b.w THEN <<length, 0>>
      ELSE IF q[1] <= 0 THEN <<-length, 0>>
      ELSE DefaultVector

\* The sides are tried in the order x, y: a later side replaces an earlier
\* one.  At a point strictly inside, none is: shift is as it was constructed.
CalcShift(b, pos, length) ==
  LET q == Minus(pos, b.p)
  IN  IF q[2] >= b.h THEN <<0, length>>
      ELSE IF q[2] <= 0 THEN <<0, -length>>
      ELSE IF q[1] >= b.w THEN <<length, 0>>
      ELSE IF q[1] <= 0 THEN <<-length, 0>>
      ELSE DefaultVector

Pushed(b, pos, radius) ==
  IF b.shape = "node" \/ ~NodeOverlap(b, pos, radius) THEN pos
  ELSE IF b.shape = "rect"
  THEN Plus(pos, CalcShift(b, pos, radius + Clearance))
  ELSE Plus(pos, Along(Minus(pos, b.p), radius + Clearance))

\* The fraction <<numerator, denominator>> of the velocity d at which a
\* coordinate o enters, or leaves, the interval 0 .. size.
Enters(o, d, size) == IF d >= 0 THEN <<-o, d>> ELSE <<o - size, -d>>

Leaves(o, d, size) == IF d >= 0 THEN <<size - o, d>> ELSE <<o, -d>>

After(f, g) == f[1] * g[2] > g[1] * f[2]

Hundredths(f) == IF f[1] < 0 THEN -1 ELSE -((-100 * f[1]) \div f[2])

\* A ray that is parallel to an axis.
StraightIntersect(o, v, size, axis, other) ==
  IF 0 <= o[other] /\ o[other] <= size[other]
  THEN Hundredths(Enters(o[axis], v[axis], size[axis]))
  ELSE -1

RayBoxInternalIntersect(o, v, size) ==
  LET inX  == Enters(o[1], v[1], size[1])
      inY  == Enters(o[2], v[2], size[2])
      outX == Leaves(o[1], v[1], size[1])
      outY == Leaves(o[2], v[2], size[2])
  IN  IF After(inX, outY) \/ After(inY, outX) THEN -1
      ELSE Hundredths(IF After(inY, inX) THEN inY ELSE inX)

\* The rectangle grown by the radius, against the path of the centre.
RectContact(b, pos, v, radius) ==
  LET o    == Plus(Minus(pos, b.p), <<radius, radius>>)
      size == <<b.w + 2 * radius, b.h + 2 * radius>>
  IN  IF v = Zero THEN -1
      ELSE IF v[1] = 0 THEN StraightIntersect(o, v, size, 2, 1)
      ELSE IF v[2] = 0 THEN StraightIntersect(o, v, size, 1, 2)
      ELSE RayBoxInternalIntersect(o, v, size)

\* The smaller root of the quadratic in t, without its sign (fabs): from
\* inside the circle it is the way back to the rim.
CircleContact(b, pos, v, radius) ==
  LET d == Minus(pos, b.p)
      r == b.r + radius
      At(k) == LET e == Moved(d, v, k) IN Dot(e, e)
      reached == IF Dot(d, d) > r * r
                 THEN {k \in 0 .. 101 : At(k) <= r * r}
                 ELSE {k \in 0 .. 101 : At(-k) >= r * r}
  IN  IF v = Zero \/ Dot(v, d) > 0 \/ reached = {} THEN -1
      ELSE CHOOSE k \in reached : \A l \in reached : k <= l

Contact(b, pos, v, radius) ==
  IF b.shape = "rect" THEN RectContact(b, pos, v, radius)
                      ELSE CircleContact(b, pos, v, radius)

FaultyMeet(m, b, v, radius) ==
  LET pos == Pushed(b, m.pos, radius)
      t   == Contact(b, pos, v, radius)
  IN  [pos |-> pos, t |-> IF 0 <= t /\ t <= 100 THEN t ELSE m.t]

(***************************************************************************)
(* One turn of PhysicEngine::collisionDetection's loop: obstacle b against *)
(* the node at m.pos.  The push is kept, and so is the nearest contact so  *)
(* far, which was computed where the node stood then.                      *)
(***************************************************************************)
Meet(m, b, v, radius) ==
  LET pos == Pushed(b, m.pos, radius)
      t   == Contact(b, pos, v, radius)
  IN  [pos |-> pos, t |-> IF 0 <= t /\ t <= 100 /\ t < m.t THEN t ELSE m.t]
=============================================================================
