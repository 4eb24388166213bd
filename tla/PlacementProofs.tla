--------------------------- MODULE PlacementProofs ---------------------------
(***************************************************************************)
(* What Placement promises of the boxes, for walls and columns of any      *)
(* size, in any direction, shifted by anything.  The corners of a wall are *)
(* computed in four ways; the lemmas below bring three of them to one set  *)
(* of points, half a thickness to either side of both ends of the axis.    *)
(***************************************************************************)
EXTENDS Placement, TLAPS

-----------------------------------------------------------------------------
(* The corners of a wall, and the ways of computing them.                  *)

\* Turned by a right angle a vector is square to what it was, and as long.
LEMMA Across ==
    ASSUME NEW t \in Int, NEW n \in Int, NEW a \in Int, NEW b \in Int,
           n * n = a * a + b * b
    PROVE  /\ (t * b) * a + (-(t * a)) * b = 0
           /\ (t * b) * (t * b) + (-(t * a)) * (-(t * a)) = (t * n) * (t * n)
  <1>1. (t * b) * a + (-(t * a)) * b = 0
    OBVIOUS
  <1>2. (t * b) * (t * b) + (-(t * a)) * (-(t * a)) = (t * t) * (a * a + b * b)
    OBVIOUS
  <1>3. (t * n) * (t * n) = (t * t) * (n * n)
    OBVIOUS
  <1> QED BY <1>1, <1>2, <1>3

\* The numbers that a wall is made of; its ends are a length of the axis apart.
LEMMA WallFacts ==
    ASSUME NEW w \in WallSpecs, Lengths(w) # {}
    PROVE  /\ Dx(w) \in Int /\ Dy(w) \in Int /\ w.thickness \in Int
           /\ Length(w) \in Nat
           /\ Length(w) * Length(w) = Dx(w) * Dx(w) + Dy(w) * Dy(w)
           /\ Start(w) = <<Start(w)[1], Start(w)[2]>>
           /\ Start(w)[1] \in Int /\ Start(w)[2] \in Int
           /\ End(w) = <<Start(w)[1] + 2 * Length(w) * Dx(w),
                        Start(w)[2] + 2 * Length(w) * Dy(w)>>
  <1>1. Dx(w) \in Int /\ Dy(w) \in Int /\ w.thickness \in Int
    BY DEF WallSpecs, Point, Sizes, Dx, Dy
  <1>2. Length(w) \in Lengths(w)
    BY DEF Length
  <1>3. Dx(w) * Dx(w) + Dy(w) * Dy(w) \in Int
    BY <1>1
  <1>4. /\ Length(w) \in Nat
        /\ Length(w) * Length(w) = Dx(w) * Dx(w) + Dy(w) * Dy(w)
    BY <1>2, <1>3 DEF Lengths
  <1> DEFINE n == Length(w)
  <1>5. /\ w.start[1] \in Int /\ w.start[2] \in Int
        /\ w.end[1] \in Int /\ w.end[2] \in Int
    BY DEF WallSpecs, Point
  <1> HIDE DEF n
  <1>6. /\ Start(w) = <<2 * n * w.start[1], 2 * n * w.start[2]>>
        /\ End(w) = <<2 * n * w.end[1], 2 * n * w.end[2]>>
    BY DEF Start, End, n
  <1>7. n \in Nat
    BY <1>4 DEF n
  <1>8. /\ 2 * n * w.end[1] = 2 * n * w.start[1] + 2 * n * Dx(w)
        /\ 2 * n * w.end[2] = 2 * n * w.start[2] + 2 * n * Dy(w)
    BY <1>5, <1>7 DEF Dx, Dy
  <1>9. 2 * n * w.start[1] \in Int /\ 2 * n * w.start[2] \in Int
    BY <1>5, <1>7
  <1>10. /\ Start(w) = <<Start(w)[1], Start(w)[2]>>
         /\ Start(w)[1] \in Int /\ Start(w)[2] \in Int
    BY <1>6, <1>9
  <1>11. End(w) = <<Start(w)[1] + 2 * n * Dx(w), Start(w)[2] + 2 * n * Dy(w)>>
    BY <1>6, <1>8
  <1> QED BY <1>1, <1>4, <1>10, <1>11 DEF n

\* The corners of a wall: half a thickness to either side of both ends.
Corners(w) ==
    LET x == Start(w)[1]
        y == Start(w)[2]
        p == w.thickness * Dy(w)
        q == w.thickness * Dx(w)
        u == 2 * Length(w) * Dx(w)
        v == 2 * Length(w) * Dy(w)
    IN  {<<x + p, y - q>>, <<x - p, y + q>>,
         <<x + u + p, y + v - q>>, <<x + u - p, y + v + q>>}

\* Attempt 1.
LEMMA AxisPlacementCorners ==
    ASSUME NEW w \in WallSpecs, Lengths(w) # {}
    PROVE  AxisPlacement(w) = Corners(w)
  <1> DEFINE x == Start(w)[1]
             y == Start(w)[2]
             p == w.thickness * Dy(w)
             q == w.thickness * Dx(w)
             u == 2 * Length(w) * Dx(w)
             v == 2 * Length(w) * Dy(w)
  <1>1. /\ x \in Int /\ y \in Int /\ p \in Int /\ q \in Int
        /\ u \in Int /\ v \in Int
    BY WallFacts
  <1>2. -2 * w.thickness * Dy(w) = -(2 * p) /\ 2 * w.thickness * Dx(w) = 2 * q
    BY WallFacts
  <1>3. AxisPlacement(w) = Aligned(<<x + p, y - q>>, <<u, v>>, <<-(2 * p), 2 * q>>)
    BY <1>2 DEF AxisPlacement
  <1>4. Corners(w) = {<<x + p, y - q>>, <<x - p, y + q>>,
                      <<x + u + p, y + v - q>>, <<x + u - p, y + v + q>>}
    BY DEF Corners
  <1> HIDE DEF x, y, p, q, u, v
  <1>5. Aligned(<<x + p, y - q>>, <<u, v>>, <<-(2 * p), 2 * q>>)
        = {<<x + p + i * u + j * (-(2 * p)), y - q + i * v + j * (2 * q)>> :
              i, j \in {0, 1}}
    BY DEF Aligned
  <1>6. {<<x + p + i * u + j * (-(2 * p)), y - q + i * v + j * (2 * q)>> :
              i, j \in {0, 1}}
        = {<<x + p + 0 * u + 0 * (-(2 * p)), y - q + 0 * v + 0 * (2 * q)>>,
           <<x + p + 0 * u + 1 * (-(2 * p)), y - q + 0 * v + 1 * (2 * q)>>,
           <<x + p + 1 * u + 0 * (-(2 * p)), y - q + 1 * v + 0 * (2 * q)>>,
           <<x + p + 1 * u + 1 * (-(2 * p)), y - q + 1 * v + 1 * (2 * q)>>}
    OBVIOUS
  <1>7. /\ x + p + 0 * u + 0 * (-(2 * p)) = x + p
        /\ y - q + 0 * v + 0 * (2 * q) = y - q
        /\ x + p + 0 * u + 1 * (-(2 * p)) = x - p
        /\ y - q + 0 * v + 1 * (2 * q) = y + q
        /\ x + p + 1 * u + 0 * (-(2 * p)) = x + u + p
        /\ y - q + 1 * v + 0 * (2 * q) = y + v - q
        /\ x + p + 1 * u + 1 * (-(2 * p)) = x + u - p
        /\ y - q + 1 * v + 1 * (2 * q) = y + v + q
    BY <1>1
  <1> QED BY <1>3, <1>4, <1>5, <1>6, <1>7

\* Attempt 3.
LEMMA TurnedBoxCorners ==
    ASSUME NEW w \in WallSpecs, Lengths(w) # {}
    PROVE  TurnedBox(w) = Corners(w)
  <1> DEFINE x == Start(w)[1]
             y == Start(w)[2]
             p == w.thickness * Dy(w)
             q == w.thickness * Dx(w)
             u == 2 * Length(w) * Dx(w)
             v == 2 * Length(w) * Dy(w)
             n == 2 * Length(w)
             t == w.thickness
             a == Dx(w)
             b == Dy(w)
  <1>1. /\ x \in Int /\ y \in Int /\ p \in Int /\ q \in Int
        /\ u \in Int /\ v \in Int
    BY WallFacts
  <1>2. n \in Int /\ t \in Int /\ a \in Int /\ b \in Int
    BY WallFacts
  <1>3. Corners(w) = {<<x + p, y - q>>, <<x - p, y + q>>,
                      <<x + u + p, y + v - q>>, <<x + u - p, y + v + q>>}
    BY DEF Corners
  <1>4. TurnedBox(w) =
          Move(Rotate(Move(Cuboid(n, 2 * t), <<0, -t>>), a, b), Start(w))
    BY DEF TurnedBox
  <1>5. p = t * b /\ q = t * a /\ u = n * a /\ v = n * b
    OBVIOUS
  <1>6. Start(w) = <<x, y>>
    BY WallFacts
  <1> HIDE DEF x, y, p, q, u, v, n, t, a, b
  <1>7. Move(Cuboid(n, 2 * t), <<0, -t>>)
          = {<<0, -t>>, <<0, t>>, <<n, -t>>, <<n, t>>}
    <2>1. Cuboid(n, 2 * t) = {<<0, 0>>, <<0, 2 * t>>, <<n, 0>>, <<n, 2 * t>>}
      BY DEF Cuboid
    <2> DEFINE m == -t
    <2>2. m \in Int /\ m = -t
      BY <1>2
    <2> HIDE DEF m
    <2>3. Move({<<0, 0>>, <<0, 2 * t>>, <<n, 0>>, <<n, 2 * t>>}, <<0, m>>)
            = {<<0, m>>, <<0, 2 * t + m>>, <<n, m>>, <<n, 2 * t + m>>}
      BY <1>2, <2>2 DEF Move
    <2>4. 2 * t + m = t
      BY <1>2, <2>2
    <2> QED BY <2>1, <2>2, <2>3, <2>4
  <1>8. Rotate({<<0, -t>>, <<0, t>>, <<n, -t>>, <<n, t>>}, a, b)
          = {<<p, -q>>, <<-p, q>>, <<u + p, v - q>>, <<u - p, v + q>>}
    <2>1. Rotate({<<0, -t>>, <<0, t>>, <<n, -t>>, <<n, t>>}, a, b)
            = {<<0 * a - (-t) * b, 0 * b + (-t) * a>>,
               <<0 * a - t * b, 0 * b + t * a>>,
               <<n * a - (-t) * b, n * b + (-t) * a>>,
               <<n * a - t * b, n * b + t * a>>}
      BY DEF Rotate
    <2>2. /\ 0 * a - (-t) * b = p /\ 0 * b + (-t) * a = -q
          /\ 0 * a - t * b = -p /\ 0 * b + t * a = q
          /\ n * a - (-t) * b = u + p /\ n * b + (-t) * a = v - q
          /\ n * a - t * b = u - p /\ n * b + t * a = v + q
      BY <1>2, <1>5
    <2> QED BY <2>1, <2>2
  <1>9. Move({<<p, -q>>, <<-p, q>>, <<u + p, v - q>>, <<u - p, v + q>>},
             <<x, y>>)
          = {<<x + p, y - q>>, <<x - p, y + q>>,
             <<x + u + p, y + v - q>>, <<x + u - p, y + v + q>>}
    <2>1. Move({<<p, -q>>, <<-p, q>>, <<u + p, v - q>>, <<u - p, v + q>>},
               <<x, y>>)
            = {<<p + x, -q + y>>, <<-p + x, q + y>>,
               <<u + p + x, v - q + y>>, <<u - p + x, v + q + y>>}
      BY DEF Move
    <2>2. /\ p + x = x + p /\ -q + y = y - q /\ -p + x = x - p /\ q + y = y + q
          /\ u + p + x = x + u + p /\ v - q + y = y + v - q
          /\ u - p + x = x + u - p /\ v + q + y = y + v + q
      BY <1>1
    <2> QED BY <2>1, <2>2
  <1> QED BY <1>3, <1>4, <1>6, <1>7, <1>8, <1>9

\* Attempt 2 is made of the same corners.
LEMMA BoundingBoxCorners ==
    ASSUME NEW w \in WallSpecs, Lengths(w) # {}
    PROVE  BoundingBox(w) = Extent(Corners(w))
  <1> DEFINE x == Start(w)[1]
             y == Start(w)[2]
             p == w.thickness * Dy(w)
             q == w.thickness * Dx(w)
             u == 2 * Length(w) * Dx(w)
             v == 2 * Length(w) * Dy(w)
             t == w.thickness
             a == Dx(w)
             b == Dy(w)
  <1>1. /\ x \in Int /\ y \in Int /\ p \in Int /\ q \in Int
        /\ u \in Int /\ v \in Int /\ t \in Int /\ a \in Int /\ b \in Int
    BY WallFacts
  <1>2. Start(w) = <<x, y>> /\ End(w) = <<x + u, y + v>>
    BY WallFacts
  <1>3. p = t * b /\ q = t * a
    OBVIOUS
  <1>4. Corners(w) = {<<x + p, y - q>>, <<x - p, y + q>>,
                      <<x + u + p, y + v - q>>, <<x + u - p, y + v + q>>}
    BY DEF Corners
  <1>5. BoundingBox(w) =
          Extent({<<c[1] - s * t * b, c[2] + s * t * a>> :
                    c \in {Start(w), End(w)}, s \in {-1, 1}})
    BY DEF BoundingBox
  <1> HIDE DEF x, y, p, q, u, v, t, a, b
  <1>6. /\ (-1) * t * b = -p /\ (-1) * t * a = -q
        /\ 1 * t * b = p /\ 1 * t * a = q
    BY <1>1, <1>3
  <1>7. {<<c[1] - s * t * b, c[2] + s * t * a>> :
            c \in {Start(w), End(w)}, s \in {-1, 1}}
        = {<<x + p, y - q>>, <<x - p, y + q>>,
           <<x + u + p, y + v - q>>, <<x + u - p, y + v + q>>}
    <2> DEFINE P(c, s) == <<c[1] - s * t * b, c[2] + s * t * a>>
    <2>1. {P(c, s) : c \in {Start(w), End(w)}, s \in {-1, 1}}
          = {P(Start(w), -1), P(Start(w), 1), P(End(w), -1), P(End(w), 1)}
      <3> HIDE DEF P
      <3> QED OBVIOUS
    <2>2. /\ P(Start(w), -1) = <<x + p, y - q>>
          /\ P(Start(w), 1) = <<x - p, y + q>>
      BY <1>1, <1>2, <1>6
    <2>3. /\ P(End(w), -1) = <<x + u + p, y + v - q>>
          /\ P(End(w), 1) = <<x + u - p, y + v + q>>
      BY <1>1, <1>2, <1>6
    <2> QED BY <2>1, <2>2, <2>3
  <1> QED BY <1>4, <1>5, <1>7

\* The extrema of four numbers are among them.
LEMMA Extrema ==
    ASSUME NEW S, \E a, b, c, d \in Int : S = {a, b, c, d}
    PROVE  /\ Min(S) \in S /\ \A x \in S : Min(S) <= x
           /\ Max(S) \in S /\ \A x \in S : Max(S) >= x
  <1> PICK a, b, c, d \in Int : S = {a, b, c, d}
    OBVIOUS
  <1>1. \E x \in S : \A y \in S : x <= y
    OBVIOUS
  <1>2. \E x \in S : \A y \in S : x >= y
    OBVIOUS
  <1> QED BY <1>1, <1>2 DEF Min, Max

\* Two numbers are their extrema.
LEMMA ExtremaOfTwo ==
    ASSUME NEW a \in Int, NEW b \in Int
    PROVE  {Min({a, b}), Max({a, b})} = {a, b}
  <1> DEFINE S == {a, b}
  <1>1. \E i, j, k, l \in Int : S = {i, j, k, l}
    OBVIOUS
  <1> HIDE DEF S
  <1>2. /\ Min(S) \in S /\ \A x \in S : Min(S) <= x
        /\ Max(S) \in S /\ \A x \in S : Max(S) >= x
    BY <1>1, Extrema
  <1>3. S = {a, b}
    BY DEF S
  <1>4. CASE a <= b
    <2>1. Min(S) = a /\ Max(S) = b
      BY <1>2, <1>3, <1>4
    <2> QED BY <1>3, <2>1
  <1>5. CASE b <= a
    <2>1. Min(S) = b /\ Max(S) = a
      BY <1>2, <1>3, <1>5
    <2> QED BY <1>3, <2>1
  <1> QED BY <1>4, <1>5

\* The numbers that the corners are made of.
LEMMA CornerNumbers ==
    ASSUME NEW w \in WallSpecs, Lengths(w) # {}
    PROVE  /\ Start(w)[1] \in Int /\ Start(w)[2] \in Int
           /\ w.thickness * Dy(w) \in Int /\ w.thickness * Dx(w) \in Int
           /\ 2 * Length(w) * Dx(w) \in Int /\ 2 * Length(w) * Dy(w) \in Int
           /\ w.thickness * 0 = 0 /\ 2 * Length(w) * 0 = 0
  BY WallFacts

\* A wall parallel to an axis fills its bounding box.
LEMMA ParallelCorners ==
    ASSUME NEW w \in WallSpecs, Lengths(w) # {}, Dx(w) = 0 \/ Dy(w) = 0
    PROVE  Extent(Corners(w)) = Corners(w)
  <1> DEFINE x == Start(w)[1]
             y == Start(w)[2]
             p == w.thickness * Dy(w)
             q == w.thickness * Dx(w)
             u == 2 * Length(w) * Dx(w)
             v == 2 * Length(w) * Dy(w)
  <1>1. /\ x \in Int /\ y \in Int /\ p \in Int /\ q \in Int
        /\ u \in Int /\ v \in Int
    BY CornerNumbers
  <1>2. (q = 0 /\ u = 0) \/ (p = 0 /\ v = 0)
    <2>1. /\ w.thickness * 0 = 0 /\ 2 * Length(w) * 0 = 0
      BY CornerNumbers
    <2> QED BY <2>1
  <1>3. Corners(w) = {<<x + p, y - q>>, <<x - p, y + q>>,
                      <<x + u + p, y + v - q>>, <<x + u - p, y + v + q>>}
    BY DEF Corners
  <1> HIDE DEF x, y, p, q, u, v
  <1>4. \E X1, X2, Y1, Y2 \in Int :
          Corners(w) = {<<X1, Y1>>, <<X2, Y1>>, <<X1, Y2>>, <<X2, Y2>>}
    <2>1. CASE q = 0 /\ u = 0
      <3>1. /\ x + u + p = x + p /\ x + u - p = x - p /\ y - q = y
            /\ y + q = y /\ y + v - q = y + v /\ y + v + q = y + v
        BY <1>1, <2>1
      <3>2. Corners(w) = {<<x + p, y>>, <<x - p, y>>,
                          <<x + p, y + v>>, <<x - p, y + v>>}
        BY <1>3, <3>1
      <3>3. /\ x + p \in Int /\ x - p \in Int /\ y + v \in Int
        BY <1>1
      <3> QED BY <1>1, <3>2, <3>3
    <2>2. CASE p = 0 /\ v = 0
      <3>1. /\ x + p = x /\ x - p = x /\ x + u + p = x + u
            /\ x + u - p = x + u /\ y + v - q = y - q /\ y + v + q = y + q
        BY <1>1, <2>2
      <3>2. Corners(w) = {<<x, y - q>>, <<x + u, y - q>>,
                          <<x, y + q>>, <<x + u, y + q>>}
        BY <1>3, <3>1
      <3>3. /\ x + u \in Int /\ y - q \in Int /\ y + q \in Int
        BY <1>1
      <3> QED BY <1>1, <3>2, <3>3
    <2> QED BY <1>2, <2>1, <2>2
  <1>5. PICK X1, X2, Y1, Y2 \in Int :
          Corners(w) = {<<X1, Y1>>, <<X2, Y1>>, <<X1, Y2>>, <<X2, Y2>>}
    BY <1>4
  <1>6. /\ {c[1] : c \in Corners(w)} = {X1, X2}
        /\ {c[2] : c \in Corners(w)} = {Y1, Y2}
    BY <1>5
  <1>7. Extent(Corners(w)) = {X1, X2} \X {Y1, Y2}
    BY <1>6, ExtremaOfTwo DEF Extent
  <1>8. {X1, X2} \X {Y1, Y2} = {<<X1, Y1>>, <<X2, Y1>>, <<X1, Y2>>, <<X2, Y2>>}
    OBVIOUS
  <1> QED BY <1>5, <1>7, <1>8

\* The corners lie around the axis.
LEMMA CornersAroundAxis ==
    ASSUME NEW w \in WallSpecs, Lengths(w) # {}
    PROVE  AroundAxis(w, Corners(w))
  <1> DEFINE x == Start(w)[1]
             y == Start(w)[2]
             p == w.thickness * Dy(w)
             q == w.thickness * Dx(w)
             u == 2 * Length(w) * Dx(w)
             v == 2 * Length(w) * Dy(w)
             across == w.thickness * Length(w)
             a == Dx(w)
             b == Dy(w)
  <1>1. /\ x \in Int /\ y \in Int /\ p \in Int /\ q \in Int
        /\ u \in Int /\ v \in Int /\ a \in Int /\ b \in Int
    BY WallFacts
  <1>2. Start(w) = <<x, y>> /\ End(w) = <<x + u, y + v>>
    BY WallFacts
  <1>3. /\ p * a + (-q) * b = 0
        /\ p * p + (-q) * (-q) = across * across
    BY WallFacts, Across
  <1>4. Corners(w) = {<<x + p, y - q>>, <<x - p, y + q>>,
                      <<x + u + p, y + v - q>>, <<x + u - p, y + v + q>>}
    BY DEF Corners
  <1> HIDE DEF x, y, p, q, u, v, across, a, b
  <1>5. ASSUME NEW e1 \in Int, NEW e2 \in Int,
               <<e1 + p, e2 - q>> \in Corners(w),
               <<e1 - p, e2 + q>> \in Corners(w)
        PROVE  \E c, d \in Corners(w) :
                 /\ (c[1] - e1) * a + (c[2] - e2) * b = 0
                 /\ (c[1] - e1) * (c[1] - e1) + (c[2] - e2) * (c[2] - e2)
                      = across * across
                 /\ d = <<e1 - (c[1] - e1), e2 - (c[2] - e2)>>
    <2> DEFINE c == <<e1 + p, e2 - q>>
               d == <<e1 - p, e2 + q>>
    <2>1. c[1] - e1 = p /\ c[2] - e2 = -q
      BY <1>1
    <2>2. e1 - p = e1 - p /\ e2 - (-q) = e2 + q
      BY <1>1
    <2>3. c \in Corners(w) /\ d \in Corners(w)
      BY <1>5
    <2>4. d = <<e1 - (c[1] - e1), e2 - (c[2] - e2)>>
      BY <2>1, <2>2
    <2> HIDE DEF c, d
    <2>5. /\ (c[1] - e1) * a + (c[2] - e2) * b = 0
          /\ (c[1] - e1) * (c[1] - e1) + (c[2] - e2) * (c[2] - e2)
               = across * across
      BY <1>3, <2>1
    <2> QED BY <2>3, <2>4, <2>5
  <1>6. ASSUME NEW e \in {Start(w), End(w)}
        PROVE  /\ e = <<e[1], e[2]>> /\ e[1] \in Int /\ e[2] \in Int
               /\ <<e[1] + p, e[2] - q>> \in Corners(w)
               /\ <<e[1] - p, e[2] + q>> \in Corners(w)
    BY <1>1, <1>2, <1>4, <1>6
  <1>7. ASSUME NEW e \in {Start(w), End(w)}
        PROVE  \E c, d \in Corners(w) :
                 /\ (c[1] - e[1]) * a + (c[2] - e[2]) * b = 0
                 /\ (c[1] - e[1]) * (c[1] - e[1])
                      + (c[2] - e[2]) * (c[2] - e[2]) = across * across
                 /\ d = <<e[1] - (c[1] - e[1]), e[2] - (c[2] - e[2])>>
    BY <1>5, <1>6, <1>7
  <1> QED BY <1>7 DEF AroundAxis, across, a, b

-----------------------------------------------------------------------------
(* Specs, and the same specs shifted.                                      *)

\* The specs that the model accepts: a wall that climbs may be among them.
GoodWalls == {w \in WallSpecs : Lengths(w) # {} /\ Valid(w)}
GoodSpecs == ColumnSpecs \cup GoodWalls

\* The three exact ways put a column in the same place.
LEMMA ColumnBoxes ==
    ASSUME NEW c \in ColumnSpecs, NEW way \in 1..3
    PROVE  ColumnBox(c, way) = ColumnBox(c, 2)
  <1> DEFINE x == LowCorner(c)[1]
             y == LowCorner(c)[2]
             l == 2 * c.width
             d == 2 * c.depth
  <1>1. /\ x \in Int /\ y \in Int /\ l \in Int /\ d \in Int
        /\ LowCorner(c) = <<x, y>> /\ HighCorner(c) = <<x + l, y + d>>
    BY DEF LowCorner, HighCorner, ColumnSpecs, Point, Sizes
  <1> DEFINE B == {<<x, y>>, <<x, y + d>>, <<x + l, y>>, <<x + l, y + d>>}
  <1>2. ColumnBox(c, 1) = Aligned(<<x, y>>, <<l, 0>>, <<0, d>>)
    BY <1>1 DEF ColumnBox
  <1>3. ColumnBox(c, 2) = {x, x + l} \X {y, y + d}
    BY <1>1 DEF ColumnBox
  <1>4. ColumnBox(c, 3) = Move(Cuboid(l, d), <<x, y>>)
    BY <1>1 DEF ColumnBox
  <1> HIDE DEF x, y, l, d
  <1>5. {x, x + l} \X {y, y + d} = B
    OBVIOUS
  <1>6. Aligned(<<x, y>>, <<l, 0>>, <<0, d>>) = B
    <2>1. Aligned(<<x, y>>, <<l, 0>>, <<0, d>>)
            = {<<x + i * l + j * 0, y + i * 0 + j * d>> : i, j \in {0, 1}}
      BY DEF Aligned
    <2>2. {<<x + i * l + j * 0, y + i * 0 + j * d>> : i, j \in {0, 1}}
            = {<<x + 0 * l + 0 * 0, y + 0 * 0 + 0 * d>>,
               <<x + 0 * l + 1 * 0, y + 0 * 0 + 1 * d>>,
               <<x + 1 * l + 0 * 0, y + 1 * 0 + 0 * d>>,
               <<x + 1 * l + 1 * 0, y + 1 * 0 + 1 * d>>}
      OBVIOUS
    <2>3. /\ x + 0 * l + 0 * 0 = x /\ x + 0 * l + 1 * 0 = x
          /\ x + 1 * l + 0 * 0 = x + l /\ x + 1 * l + 1 * 0 = x + l
          /\ y + 0 * 0 + 0 * d = y /\ y + 1 * 0 + 0 * d = y
          /\ y + 0 * 0 + 1 * d = y + d /\ y + 1 * 0 + 1 * d = y + d
      BY <1>1
    <2> QED BY <2>1, <2>2, <2>3
  <1>7. Move(Cuboid(l, d), <<x, y>>) = B
    <2>1. Cuboid(l, d) = {<<0, 0>>, <<0, d>>, <<l, 0>>, <<l, d>>}
      BY DEF Cuboid
    <2>2. Move({<<0, 0>>, <<0, d>>, <<l, 0>>, <<l, d>>}, <<x, y>>)
            = {<<x, y>>, <<x, d + y>>, <<l + x, y>>, <<l + x, d + y>>}
      BY <1>1 DEF Move
    <2>3. d + y = y + d /\ l + x = x + l
      BY <1>1
    <2> QED BY <2>1, <2>2, <2>3
  <1> QED BY <1>2, <1>3, <1>4, <1>5, <1>6, <1>7

\* A column and its shifted copy.
LEMMA ColumnShifted ==
    ASSUME NEW c \in ColumnSpecs, NEW by \in Int \X Int
    PROVE  ColumnBox(OffsetSpec(c, by), 2)
             = Move(ColumnBox(c, 2), <<2 * by[1], 2 * by[2]>>)
  <1> DEFINE x == LowCorner(c)[1]
             y == LowCorner(c)[2]
             l == 2 * c.width
             d == 2 * c.depth
             m == 2 * by[1]
             n == 2 * by[2]
             e == OffsetSpec(c, by)
  <1>1. /\ x \in Int /\ y \in Int /\ l \in Int /\ d \in Int
        /\ m \in Int /\ n \in Int
        /\ LowCorner(c) = <<x, y>> /\ HighCorner(c) = <<x + l, y + d>>
    BY DEF LowCorner, HighCorner, ColumnSpecs, Point, Sizes
  <1>2. /\ e.width = c.width /\ e.depth = c.depth
        /\ e.base[1] = c.base[1] + by[1] /\ e.base[2] = c.base[2] + by[2]
    BY DEF OffsetSpec, ShiftPoint, ColumnSpecs, Point
  <1>3. /\ LowCorner(e) = <<x + m, y + n>>
        /\ HighCorner(e) = <<x + m + l, y + n + d>>
    <2>1. /\ c.base[1] \in Int /\ c.base[2] \in Int
          /\ c.width \in Int /\ c.depth \in Int
          /\ by[1] \in Int /\ by[2] \in Int
      BY DEF ColumnSpecs, Point, Sizes
    <2>2. x = 2 * c.base[1] - c.width /\ y = 2 * c.base[2] - c.depth
      BY DEF LowCorner
    <2>3. /\ 2 * (c.base[1] + by[1]) - c.width = x + m
          /\ 2 * (c.base[2] + by[2]) - c.depth = y + n
          /\ 2 * (c.base[1] + by[1]) + c.width = x + m + l
          /\ 2 * (c.base[2] + by[2]) + c.depth = y + n + d
      BY <2>1, <2>2
    <2> QED BY <1>2, <2>3 DEF LowCorner, HighCorner
  <1>4. ColumnBox(c, 2) = {x, x + l} \X {y, y + d}
    BY <1>1 DEF ColumnBox
  <1>5. ColumnBox(e, 2) = {x + m, x + m + l} \X {y + n, y + n + d}
    BY <1>3 DEF ColumnBox
  <1> HIDE DEF x, y, l, d, m, n, e
  <1>6. {x, x + l} \X {y, y + d}
          = {<<x, y>>, <<x, y + d>>, <<x + l, y>>, <<x + l, y + d>>}
    OBVIOUS
  <1>7. {x + m, x + m + l} \X {y + n, y + n + d}
          = {<<x + m, y + n>>, <<x + m, y + n + d>>,
             <<x + m + l, y + n>>, <<x + m + l, y + n + d>>}
    OBVIOUS
  <1>8. Move({<<x, y>>, <<x, y + d>>, <<x + l, y>>, <<x + l, y + d>>},
             <<m, n>>)
          = {<<x + m, y + n>>, <<x + m, y + d + n>>,
             <<x + l + m, y + n>>, <<x + l + m, y + d + n>>}
    BY <1>1 DEF Move
  <1>9. y + d + n = y + n + d /\ x + l + m = x + m + l
    BY <1>1
  <1>10. Move(ColumnBox(c, 2), <<m, n>>) = ColumnBox(e, 2)
    BY <1>4, <1>5, <1>6, <1>7, <1>8, <1>9
  <1> QED BY <1>10 DEF m, n, e

\* A shifted wall has the same direction and length.
LEMMA WallOffset ==
    ASSUME NEW w \in WallSpecs, NEW by \in Int \X Int
    PROVE  LET e == OffsetSpec(w, by) IN
           /\ e \in WallSpecs /\ e.thickness = w.thickness
           /\ Dx(e) = Dx(w) /\ Dy(e) = Dy(w) /\ Dz(e) = Dz(w)
           /\ Lengths(e) = Lengths(w)
           /\ Length(e) = Length(w) /\ (Valid(e) <=> Valid(w))
           /\ e.start[1] = w.start[1] + by[1]
           /\ e.start[2] = w.start[2] + by[2]
  <1> DEFINE e == OffsetSpec(w, by)
  <1>1. /\ w.start \in Point /\ w.end \in Point /\ w.kind = "wall"
        /\ by[1] \in Int /\ by[2] \in Int
    BY DEF WallSpecs
  <1>2. e = [w EXCEPT !.start = ShiftPoint(@, by), !.end = ShiftPoint(@, by)]
    BY <1>1 DEF OffsetSpec
  <1>3. /\ e \in WallSpecs /\ e.thickness = w.thickness
        /\ e.start = <<w.start[1] + by[1], w.start[2] + by[2], w.start[3]>>
        /\ e.end = <<w.end[1] + by[1], w.end[2] + by[2], w.end[3]>>
    <2>1. /\ ShiftPoint(w.start, by) \in Point
          /\ ShiftPoint(w.end, by) \in Point
      BY <1>1 DEF ShiftPoint, Point
    <2>2. /\ e \in WallSpecs /\ e.thickness = w.thickness
          /\ e.start = ShiftPoint(w.start, by) /\ e.end = ShiftPoint(w.end, by)
      BY <1>2, <2>1 DEF WallSpecs
    <2> QED BY <2>2 DEF ShiftPoint
  <1>4. Dx(e) = Dx(w) /\ Dy(e) = Dy(w) /\ Dz(e) = Dz(w)
    BY <1>1, <1>3 DEF Dx, Dy, Dz, Point
  <1>5. Lengths(e) = Lengths(w) /\ Length(e) = Length(w)
    BY <1>4 DEF Lengths, Length
  <1>6. Valid(e) <=> Valid(w)
    BY <1>4 DEF Valid
  <1> QED BY <1>3, <1>4, <1>5, <1>6

\* A wall and its shifted copy.
LEMMA WallShifted ==
    ASSUME NEW w \in WallSpecs, Lengths(w) # {}, NEW by \in Int \X Int
    PROVE  Corners(OffsetSpec(w, by))
             = Move(Corners(w), <<2 * Length(w) * by[1], 2 * Length(w) * by[2]>>)
  <1> DEFINE x == Start(w)[1]
             y == Start(w)[2]
             p == w.thickness * Dy(w)
             q == w.thickness * Dx(w)
             u == 2 * Length(w) * Dx(w)
             v == 2 * Length(w) * Dy(w)
             m == 2 * Length(w) * by[1]
             n == 2 * Length(w) * by[2]
             e == OffsetSpec(w, by)
  <1>1. /\ x \in Int /\ y \in Int /\ p \in Int /\ q \in Int
        /\ u \in Int /\ v \in Int
    BY CornerNumbers
  <1>2. m \in Int /\ n \in Int /\ Start(e)[1] = x + m /\ Start(e)[2] = y + n
    <2>1. /\ Length(w) \in Int /\ by[1] \in Int /\ by[2] \in Int
          /\ w.start[1] \in Int /\ w.start[2] \in Int
      BY WallFacts DEF WallSpecs, Point
    <2>2. /\ Start(e)[1] = 2 * Length(w) * (w.start[1] + by[1])
          /\ Start(e)[2] = 2 * Length(w) * (w.start[2] + by[2])
      BY WallOffset DEF Start
    <2>3. /\ x = 2 * Length(w) * w.start[1] /\ y = 2 * Length(w) * w.start[2]
      BY DEF Start
    <2> QED BY <2>1, <2>2, <2>3
  <1>3. Corners(w) = {<<x + p, y - q>>, <<x - p, y + q>>,
                      <<x + u + p, y + v - q>>, <<x + u - p, y + v + q>>}
    BY DEF Corners
  <1>4. Corners(e) = {<<x + m + p, y + n - q>>, <<x + m - p, y + n + q>>,
                      <<x + m + u + p, y + n + v - q>>,
                      <<x + m + u - p, y + n + v + q>>}
    <2>1. /\ e.thickness = w.thickness /\ Dx(e) = Dx(w) /\ Dy(e) = Dy(w)
          /\ Length(e) = Length(w)
      BY WallOffset
    <2>2. /\ e.thickness * Dy(e) = p /\ e.thickness * Dx(e) = q
          /\ 2 * Length(e) * Dx(e) = u /\ 2 * Length(e) * Dy(e) = v
      BY <2>1
    <2> HIDE DEF e, p, q, u, v, m, n, x, y
    <2> DEFINE f == Start(e)[1]
               g == Start(e)[2]
               p1 == e.thickness * Dy(e)
               q1 == e.thickness * Dx(e)
               u1 == 2 * Length(e) * Dx(e)
               v1 == 2 * Length(e) * Dy(e)
    <2>3. Corners(e) = {<<f + p1, g - q1>>, <<f - p1, g + q1>>,
                        <<f + u1 + p1, g + v1 - q1>>,
                        <<f + u1 - p1, g + v1 + q1>>}
      BY DEF Corners
    <2>4. /\ f = x + m /\ g = y + n
          /\ p1 = p /\ q1 = q /\ u1 = u /\ v1 = v
      BY <1>2, <2>2
    <2> HIDE DEF f, g, p1, q1, u1, v1
    <2> QED BY <1>1, <1>2, <2>3, <2>4
  <1> HIDE DEF x, y, p, q, u, v, m, n, e
  <1>5. Move({<<x + p, y - q>>, <<x - p, y + q>>,
              <<x + u + p, y + v - q>>, <<x + u - p, y + v + q>>}, <<m, n>>)
          = {<<x + p + m, y - q + n>>, <<x - p + m, y + q + n>>,
             <<x + u + p + m, y + v - q + n>>, <<x + u - p + m, y + v + q + n>>}
    BY DEF Move
  <1>6. /\ x + p + m = x + m + p /\ y - q + n = y + n - q
        /\ x - p + m = x + m - p /\ y + q + n = y + n + q
        /\ x + u + p + m = x + m + u + p /\ y + v - q + n = y + n + v - q
        /\ x + u - p + m = x + m + u - p /\ y + v + q + n = y + n + v + q
    BY <1>1, <1>2
  <1>7. Corners(e) = Move(Corners(w), <<m, n>>)
    BY <1>3, <1>4, <1>5, <1>6
  <1> QED BY <1>7 DEF m, n, e

\* The least and the greatest of shifted numbers.
LEMMA ExtremaShifted ==
    ASSUME NEW k \in Int, NEW S, NEW T,
           \E a, b, c, d \in Int :
               S = {a, b, c, d} /\ T = {a + k, b + k, c + k, d + k}
    PROVE  Min(T) = Min(S) + k /\ Max(T) = Max(S) + k
  <1> PICK a, b, c, d \in Int :
        S = {a, b, c, d} /\ T = {a + k, b + k, c + k, d + k}
    OBVIOUS
  <1>1. /\ Min(S) \in S /\ \A x \in S : Min(S) <= x
        /\ Max(S) \in S /\ \A x \in S : Max(S) >= x
    BY Extrema
  <1>2. \E i, j, l, m \in Int : T = {i, j, l, m}
    <2>1. a + k \in Int /\ b + k \in Int /\ c + k \in Int /\ d + k \in Int
      OBVIOUS
    <2> QED BY <2>1
  <1>3. /\ Min(T) \in T /\ \A x \in T : Min(T) <= x
        /\ Max(T) \in T /\ \A x \in T : Max(T) >= x
    BY <1>2, Extrema
  <1>4. S \subseteq Int /\ T \subseteq Int
    OBVIOUS
  <1>5. \A x \in S : x + k \in T
    OBVIOUS
  <1>6. \A x \in T : x - k \in S
    OBVIOUS
  <1>7. Min(T) = Min(S) + k /\ Max(T) = Max(S) + k
    <2>1. /\ Min(S) \in Int /\ Max(S) \in Int
          /\ Min(T) \in Int /\ Max(T) \in Int
      BY <1>1, <1>3, <1>4
    <2>2. Min(T) <= Min(S) + k /\ Max(S) + k <= Max(T)
      BY <1>1, <1>3, <1>5
    <2>3. Min(S) <= Min(T) - k /\ Max(T) - k <= Max(S)
      BY <1>1, <1>3, <1>6
    <2> QED BY <2>1, <2>2, <2>3
  <1> QED BY <1>7

\* The coordinates of four points.
LEMMA Coordinates ==
    ASSUME NEW a, NEW b, NEW c, NEW d
    PROVE  /\ {e[1] : e \in {a, b, c, d}} = {a[1], b[1], c[1], d[1]}
           /\ {e[2] : e \in {a, b, c, d}} = {a[2], b[2], c[2], d[2]}
  OBVIOUS

\* The box around four points moves with them.
LEMMA ExtentShifted ==
    ASSUME NEW a \in Int \X Int, NEW b \in Int \X Int,
           NEW c \in Int \X Int, NEW d \in Int \X Int,
           NEW m \in Int, NEW n \in Int
    PROVE  Extent(Move({a, b, c, d}, <<m, n>>))
             = Move(Extent({a, b, c, d}), <<m, n>>)
  <1> DEFINE S == {a, b, c, d}
             X == {a[1], b[1], c[1], d[1]}
             Y == {a[2], b[2], c[2], d[2]}
             U == {a[1] + m, b[1] + m, c[1] + m, d[1] + m}
             V == {a[2] + n, b[2] + n, c[2] + n, d[2] + n}
             M == {<<a[1] + m, a[2] + n>>, <<b[1] + m, b[2] + n>>,
                   <<c[1] + m, c[2] + n>>, <<d[1] + m, d[2] + n>>}
  <1>1. /\ {e[1] : e \in S} = X /\ {e[2] : e \in S} = Y
    BY Coordinates
  <1>2. Move(S, <<m, n>>) = M
    BY DEF Move
  <1>3. /\ {e[1] : e \in M} = U /\ {e[2] : e \in M} = V
    OBVIOUS
  <1>4. Min(U) = Min(X) + m /\ Max(U) = Max(X) + m
    <2>1. \E i, j, k, l \in Int :
            X = {i, j, k, l} /\ U = {i + m, j + m, k + m, l + m}
      OBVIOUS
    <2> HIDE DEF X, U
    <2> QED BY <2>1, ExtremaShifted
  <1>5. Min(V) = Min(Y) + n /\ Max(V) = Max(Y) + n
    <2>1. \E i, j, k, l \in Int :
            Y = {i, j, k, l} /\ V = {i + n, j + n, k + n, l + n}
      OBVIOUS
    <2> HIDE DEF Y, V
    <2> QED BY <2>1, ExtremaShifted
  <1> HIDE DEF S, M, X, Y, U, V
  <1>6. Extent(S) = {Min(X), Max(X)} \X {Min(Y), Max(Y)}
    BY <1>1 DEF Extent
  <1>7. Extent(M) = {Min(U), Max(U)} \X {Min(V), Max(V)}
    BY <1>3 DEF Extent
  <1>8. {Min(X), Max(X)} \X {Min(Y), Max(Y)}
          = {<<Min(X), Min(Y)>>, <<Min(X), Max(Y)>>,
             <<Max(X), Min(Y)>>, <<Max(X), Max(Y)>>}
    OBVIOUS
  <1>9. Move({<<Min(X), Min(Y)>>, <<Min(X), Max(Y)>>,
              <<Max(X), Min(Y)>>, <<Max(X), Max(Y)>>}, <<m, n>>)
          = {Min(X) + m, Max(X) + m} \X {Min(Y) + n, Max(Y) + n}
    BY DEF Move
  <1> QED BY <1>2, <1>4, <1>5, <1>6, <1>7, <1>8, <1>9 DEF S

\* A shifted spec is one of the same kind.
LEMMA OffsetGood ==
    ASSUME NEW s \in GoodSpecs, NEW by \in Int \X Int
    PROVE  OffsetSpec(s, by) \in GoodSpecs /\ OffsetSpec(s, by).kind = s.kind
  <1>1. CASE s \in GoodWalls
    <2>1. s \in WallSpecs /\ Lengths(s) # {} /\ Valid(s) /\ s.kind = "wall"
      BY <1>1 DEF GoodWalls, WallSpecs
    <2>2. OffsetSpec(s, by) \in GoodWalls
      BY <2>1, WallOffset DEF GoodWalls
    <2> QED BY <2>1, <2>2 DEF GoodSpecs, GoodWalls, WallSpecs
  <1>2. CASE s \in ColumnSpecs
    <2>1. s.kind = "column" /\ ShiftPoint(s.base, by) \in Point
      BY <1>2 DEF ColumnSpecs, ShiftPoint, Point
    <2>2. OffsetSpec(s, by) = [s EXCEPT !.base = ShiftPoint(s.base, by)]
      BY <2>1 DEF OffsetSpec
    <2>3. OffsetSpec(s, by) \in ColumnSpecs
      BY <1>2, <2>1, <2>2 DEF ColumnSpecs
    <2> QED BY <2>1, <2>3 DEF GoodSpecs, ColumnSpecs
  <1> QED BY <1>1, <1>2 DEF GoodSpecs

\* A shift by nothing, and one shift after the other.
LEMMA Offsets ==
    ASSUME NEW s \in GoodSpecs, NEW a \in Int \X Int, NEW b \in Int \X Int
    PROVE  /\ OffsetSpec(s, <<0, 0>>) = s
           /\ OffsetSpec(OffsetSpec(s, a), b)
                = OffsetSpec(s, <<a[1] + b[1], a[2] + b[2]>>)
  <1>1. ASSUME NEW p \in Point
        PROVE  /\ ShiftPoint(p, <<0, 0>>) = p
               /\ ShiftPoint(ShiftPoint(p, a), b)
                    = ShiftPoint(p, <<a[1] + b[1], a[2] + b[2]>>)
    BY DEF ShiftPoint, Point
  <1>2. CASE s \in GoodWalls
    <2>1. /\ s \in WallSpecs /\ s.kind = "wall"
          /\ s.start \in Point /\ s.end \in Point
      BY <1>2 DEF GoodWalls, WallSpecs
    <2>2. ASSUME NEW by
          PROVE  OffsetSpec(s, by) =
                   [kind |-> "wall", start |-> ShiftPoint(s.start, by),
                    end |-> ShiftPoint(s.end, by), thickness |-> s.thickness,
                    axis_offset |-> s.axis_offset]
      BY <2>1 DEF OffsetSpec, WallSpecs
    <2>3. OffsetSpec(OffsetSpec(s, a), b) =
            [kind |-> "wall", start |-> ShiftPoint(ShiftPoint(s.start, a), b),
             end |-> ShiftPoint(ShiftPoint(s.end, a), b),
             thickness |-> s.thickness, axis_offset |-> s.axis_offset]
      BY <2>2 DEF OffsetSpec
    <2>4. s = [kind |-> "wall", start |-> s.start, end |-> s.end,
               thickness |-> s.thickness, axis_offset |-> s.axis_offset]
      BY <2>1 DEF WallSpecs
    <2>5. OffsetSpec(s, <<0, 0>>) = s
      BY <1>1, <2>1, <2>2, <2>4
    <2> QED BY <1>1, <2>1, <2>2, <2>3, <2>5
  <1>3. CASE s \in ColumnSpecs
    <2>1. s.kind = "column" /\ s.base \in Point
      BY <1>3 DEF ColumnSpecs
    <2>2. ASSUME NEW by
          PROVE  OffsetSpec(s, by) =
                   [kind |-> "column", base |-> ShiftPoint(s.base, by),
                    width |-> s.width, depth |-> s.depth]
      BY <1>3, <2>1 DEF OffsetSpec, ColumnSpecs
    <2>3. OffsetSpec(OffsetSpec(s, a), b) =
            [kind |-> "column", base |-> ShiftPoint(ShiftPoint(s.base, a), b),
             width |-> s.width, depth |-> s.depth]
      BY <2>2 DEF OffsetSpec
    <2>4. s = [kind |-> "column", base |-> s.base, width |-> s.width,
               depth |-> s.depth]
      BY <1>3 DEF ColumnSpecs
    <2>5. OffsetSpec(s, <<0, 0>>) = s
      BY <1>1, <2>1, <2>2, <2>4
    <2> QED BY <1>1, <2>1, <2>2, <2>3, <2>5
  <1> QED BY <1>2, <1>3 DEF GoodSpecs

\* From one shift of a spec to the other.
LEMMA OffsetBetween ==
    ASSUME NEW s \in GoodSpecs, NEW a \in Int \X Int, NEW b \in Int \X Int
    PROVE  LET by == <<b[1] - a[1], b[2] - a[2]>> IN
           /\ by \in Int \X Int
           /\ OffsetSpec(s, b) = OffsetSpec(OffsetSpec(s, a), by)
  <1> DEFINE by == <<b[1] - a[1], b[2] - a[2]>>
  <1>1. by \in Int \X Int
    OBVIOUS
  <1>2. <<a[1] + by[1], a[2] + by[2]>> = b
    <2>1. a[1] + (b[1] - a[1]) = b[1] /\ a[2] + (b[2] - a[2]) = b[2]
      OBVIOUS
    <2> QED BY <2>1
  <1> HIDE DEF by
  <1>3. OffsetSpec(OffsetSpec(s, a), by)
          = OffsetSpec(s, <<a[1] + by[1], a[2] + by[2]>>)
    BY <1>1, Offsets
  <1>4. OffsetSpec(s, b) = OffsetSpec(OffsetSpec(s, a), by)
    BY <1>2, <1>3
  <1> QED BY <1>1, <1>4 DEF by

-----------------------------------------------------------------------------
(* The invariant: one spec, shifted again and again, and its boxes.        *)

\* What can become of a spec.
Entries ==
    {[spec |-> k[1], way |-> k[2], box |-> BoxOf(k[1], k[2]), asked |-> k[3]] :
        k \in GoodSpecs \X (TooShort..Failed) \X (Int \X Int)}

\* What was built, and what is built next, is s shifted by what was asked.
CopiesOf(s) ==
    /\ spec = OffsetSpec(s, asked)
    /\ \A i \in 1..Len(built) : built[i].spec = OffsetSpec(s, built[i].asked)

\* A spec that no way was tried for is a wall that is too short in the plan.
IInv ==
    /\ attempt \in 0..4 /\ asked \in Int \X Int
    /\ built \in Seq(Entries)
    /\ \E s \in GoodSpecs : CopiesOf(s)
    /\ \A i \in 1..Len(built) :
          built[i].way = TooShort =>
              built[i].spec.kind = "wall" /\ ~Buildable(built[i].spec)

\* Nothing was built.
LEMMA InitOK == Init => IInv
  <1> SUFFICES ASSUME Init PROVE IInv
    OBVIOUS
  <1>1. spec \in GoodSpecs
    BY WallsAssumption, ColumnsAssumption
    DEF Init, Specs, GoodSpecs, GoodWalls
  <1>2. asked = <<0, 0>> /\ asked \in Int \X Int /\ built = <<>> /\ attempt = 1
    BY DEF Init
  <1>3. CopiesOf(spec)
    BY <1>1, <1>2, Offsets DEF CopiesOf
  <1>4. built \in Seq(Entries)
    BY <1>2
  <1> QED BY <1>1, <1>2, <1>3, <1>4 DEF IInv

\* What becomes of a spec is written down with the spec.
LEMMA DoneOK ==
    ASSUME IInv, NEW way \in TooShort..Failed, Done(way),
           way = TooShort => Raises
    PROVE  IInv'
  <1> USE DEF IInv
  <1> PICK s \in GoodSpecs : CopiesOf(s)
    OBVIOUS
  <1> DEFINE e == [spec |-> spec, way |-> way, box |-> BoxOf(spec, way),
                   asked |-> asked]
  <1>1. spec \in GoodSpecs
    BY OffsetGood DEF CopiesOf
  <1>2. e \in Entries
    <2> DEFINE k == <<spec, way, asked>>
    <2>1. k \in GoodSpecs \X (TooShort..Failed) \X (Int \X Int)
      BY <1>1
    <2>2. e = [spec |-> k[1], way |-> k[2], box |-> BoxOf(k[1], k[2]),
               asked |-> k[3]]
      OBVIOUS
    <2> HIDE DEF k, e
    <2> QED BY <2>1, <2>2 DEF Entries
  <1>3. /\ built' = Append(built, e) /\ attempt' = 0
        /\ spec' = spec /\ asked' = asked
    BY DEF Done
  <1>4. /\ e.spec = OffsetSpec(s, e.asked)
        /\ e.way = TooShort => e.spec.kind = "wall" /\ ~Buildable(e.spec)
    BY DEF CopiesOf, Raises
  <1> HIDE DEF e
  <1>5. /\ built' \in Seq(Entries) /\ Len(built') = Len(built) + 1
        /\ built'[Len(built) + 1] = e
        /\ \A i \in 1..Len(built) : built'[i] = built[i]
    BY <1>2, <1>3
  <1>6. CopiesOf(s)'
    BY <1>3, <1>4, <1>5 DEF CopiesOf
  <1>7. ASSUME NEW i \in 1..Len(built'), built'[i].way = TooShort
        PROVE  built'[i].spec.kind = "wall" /\ ~Buildable(built'[i].spec)
    <2>1. i \in 1..Len(built) \/ i = Len(built) + 1
      BY <1>5
    <2> QED BY <1>4, <1>5, <1>7, <2>1
  <1> QED BY <1>3, <1>5, <1>6, <1>7

\* Every step keeps the invariant.
LEMMA NextOK == ASSUME IInv, [Next]_vars PROVE IInv'
  <1> PICK s \in GoodSpecs : CopiesOf(s)
    BY DEF IInv
  <1>1. CASE Drop
    BY <1>1, DoneOK DEF Drop, TooShort, Failed
  <1>2. CASE TryNext
    BY <1>2 DEF TryNext, CopiesOf, IInv
  <1>3. CASE Place \/ BuildFails
    BY <1>3, DoneOK DEF Place, BuildFails, TooShort, Failed
  <1> USE DEF IInv
  <1>4. ASSUME NEW by \in Shifts, Copy(by) PROVE IInv'
    <2>1. by \in Int \X Int
      BY ShiftsAssumption
    <2>2. /\ spec' = OffsetSpec(spec, by) /\ built' = built /\ attempt' = 1
          /\ asked' = <<asked[1] + by[1], asked[2] + by[2]>>
      BY <1>4 DEF Copy
    <2>3. CopiesOf(s)'
      BY <2>1, <2>2, Offsets DEF CopiesOf
    <2>4. asked' \in Int \X Int
      BY <2>1, <2>2
    <2> QED BY <2>2, <2>3, <2>4
  <1>5. CASE UNCHANGED vars
    BY <1>5 DEF vars, CopiesOf
  <1> QED BY <1>1, <1>2, <1>3, <1>4, <1>5 DEF Next

\* The invariant holds of every state that is reached.
LEMMA Inductive == Spec => []IInv
  BY InitOK, NextOK, PTL DEF Spec

-----------------------------------------------------------------------------
(* The boxes that the ways make, of one spec and of its copies.            *)

\* The box that the exact ways make, and the one that the second way makes.
TrueBox(s) == IF s.kind = "wall" THEN Corners(s) ELSE ColumnBox(s, 2)
WideBox(s) == IF s.kind = "wall" THEN Extent(Corners(s)) ELSE ColumnBox(s, 2)

\* What an exact way builds, and the way that is exact for some specs only.
LEMMA BoxOfEntry ==
    ASSUME NEW e \in Entries
    PROVE  /\ e.spec \in GoodSpecs /\ e.asked \in Int \X Int
           /\ Exact(e) => e.box = TrueBox(e.spec)
           /\ e.way = 2 => e.box = WideBox(e.spec)
  <1>1. /\ e.spec \in GoodSpecs /\ e.asked \in Int \X Int
        /\ e.way \in 0..5
        /\ e.box = BoxOf(e.spec, e.way)
    BY DEF Entries, TooShort, Failed
  <1>2. Exact(e) \/ e.way = 2 => e.way \in {1, 2, 3}
    <2>1. e.way = 0 => ~Exact(e)
      BY DEF Exact, TooShort, Failed
    <2>2. e.way = 4 => ~Exact(e)
      BY DEF Exact, TooShort, Failed
    <2>3. e.way = 5 => ~Exact(e)
      BY DEF Exact, TooShort, Failed
    <2> QED BY <1>1, <2>1, <2>2, <2>3
  <1>3. CASE e.spec \in GoodWalls
    <2>1. e.spec \in WallSpecs /\ Lengths(e.spec) # {} /\ e.spec.kind = "wall"
      BY <1>3 DEF GoodWalls, WallSpecs
    <2>2. e.way \in {1, 2, 3} => e.box = WallBox(e.spec, e.way)
      BY <1>1, <2>1 DEF BoxOf, TooShort, Failed
    <2>3. e.way \in {1, 3} => e.box = Corners(e.spec)
      BY <2>1, <2>2, AxisPlacementCorners, TurnedBoxCorners DEF WallBox
    <2>4. e.way = 2 => e.box = Extent(Corners(e.spec))
      BY <2>1, <2>2, BoundingBoxCorners DEF WallBox
    <2>5. (e.way = 2 /\ Exact(e)) => e.box = Corners(e.spec)
      <3>1. (e.way = 2 /\ Exact(e)) => Dx(e.spec) = 0 \/ Dy(e.spec) = 0
        BY <2>1 DEF Exact, TooShort, Failed
      <3> QED BY <2>1, <2>4, <3>1, ParallelCorners
    <2> QED BY <1>1, <1>2, <2>1, <2>3, <2>4, <2>5 DEF TrueBox, WideBox
  <1>4. CASE e.spec \in ColumnSpecs
    <2>1. /\ e.spec.kind = "column"
          /\ e.way \in {1, 2, 3} => e.box = ColumnBox(e.spec, e.way)
      BY <1>1, <1>4 DEF ColumnSpecs, BoxOf, TooShort, Failed
    <2>2. e.way \in {1, 2, 3} => e.box = ColumnBox(e.spec, 2)
      BY <1>4, <2>1, ColumnBoxes
    <2> QED BY <1>1, <1>2, <2>1, <2>2 DEF TrueBox, WideBox
  <1> QED BY <1>1, <1>3, <1>4 DEF GoodSpecs

\* Both move with their spec.
LEMMA BoxesShifted ==
    ASSUME NEW s \in GoodSpecs, NEW by \in Int \X Int
    PROVE  LET d == <<Unit(s) * by[1], Unit(s) * by[2]>> IN
           /\ TrueBox(OffsetSpec(s, by)) = Move(TrueBox(s), d)
           /\ WideBox(OffsetSpec(s, by)) = Move(WideBox(s), d)
  <1> DEFINE d == <<Unit(s) * by[1], Unit(s) * by[2]>>
             t == OffsetSpec(s, by)
  <1>1. t.kind = s.kind
    BY OffsetGood
  <1>2. CASE s \in GoodWalls
    <2>1. s \in WallSpecs /\ Lengths(s) # {} /\ s.kind = "wall"
      BY <1>2 DEF GoodWalls, WallSpecs
    <2>2. d = <<2 * Length(s) * by[1], 2 * Length(s) * by[2]>>
      BY <2>1 DEF Unit
    <2>3. Corners(t) = Move(Corners(s), d)
      BY <2>1, <2>2, WallShifted
    <2>4. Extent(Move(Corners(s), d)) = Move(Extent(Corners(s)), d)
      <3> DEFINE x == Start(s)[1]
                 y == Start(s)[2]
                 p == s.thickness * Dy(s)
                 q == s.thickness * Dx(s)
                 u == 2 * Length(s) * Dx(s)
                 v == 2 * Length(s) * Dy(s)
                 m == 2 * Length(s) * by[1]
                 n == 2 * Length(s) * by[2]
      <3>1. /\ x \in Int /\ y \in Int /\ p \in Int /\ q \in Int
            /\ u \in Int /\ v \in Int
        BY <2>1, CornerNumbers
      <3>2. m \in Int /\ n \in Int
        BY <2>1, WallFacts
      <3>3. Corners(s) = {<<x + p, y - q>>, <<x - p, y + q>>,
                          <<x + u + p, y + v - q>>, <<x + u - p, y + v + q>>}
        BY DEF Corners
      <3>4. d = <<m, n>>
        BY <2>2
      <3> HIDE DEF x, y, p, q, u, v, m, n, d
      <3> DEFINE c1 == <<x + p, y - q>>
                 c2 == <<x - p, y + q>>
                 c3 == <<x + u + p, y + v - q>>
                 c4 == <<x + u - p, y + v + q>>
      <3>5. /\ c1 \in Int \X Int /\ c2 \in Int \X Int
            /\ c3 \in Int \X Int /\ c4 \in Int \X Int
        BY <3>1
      <3>6. Corners(s) = {c1, c2, c3, c4}
        BY <3>3
      <3> HIDE DEF c1, c2, c3, c4
      <3>7. Extent(Move({c1, c2, c3, c4}, <<m, n>>))
              = Move(Extent({c1, c2, c3, c4}), <<m, n>>)
        BY <3>2, <3>5, ExtentShifted
      <3> QED BY <3>4, <3>6, <3>7
    <2> QED BY <1>1, <2>1, <2>3, <2>4 DEF TrueBox, WideBox
  <1>3. CASE s \in ColumnSpecs
    <2>1. s.kind = "column"
      BY <1>3 DEF ColumnSpecs
    <2>2. d = <<2 * by[1], 2 * by[2]>>
      BY <2>1 DEF Unit
    <2>3. ColumnBox(t, 2) = Move(ColumnBox(s, 2), d)
      BY <1>3, <2>2, ColumnShifted
    <2> QED BY <1>1, <2>1, <2>3 DEF TrueBox, WideBox
  <1> QED BY <1>2, <1>3 DEF GoodSpecs

-----------------------------------------------------------------------------
(* The theorems.                                                           *)

\* A wall that is too short in the plan and long enough in space climbs.
LEMMA ShortWallsClimb ==
    ASSUME NEW w \in GoodWalls, ~Buildable(w)
    PROVE  Dz(w) # 0
  <1> DEFINE n == Length(w)
  <1>1. /\ w \in WallSpecs /\ Valid(w)
        /\ n \in Nat /\ n * n = Dx(w) * Dx(w) + Dy(w) * Dy(w)
        /\ Dx(w) \in Int /\ Dy(w) \in Int
    BY WallFacts DEF GoodWalls
  <1>2. n < Mm /\ Mm \in Nat
    BY <1>1, UnitsAssumption DEF Buildable
  <1>3. SUFFICES ASSUME Dz(w) = 0 PROVE FALSE
    OBVIOUS
  <1>4. Mm * Mm <= n * n
    <2>1. Mm * Mm <= Dx(w) * Dx(w) + Dy(w) * Dy(w) + 0 * 0
      BY <1>1, <1>3 DEF Valid
    <2> HIDE DEF n
    <2> QED BY <1>1, <2>1
  <1> HIDE DEF n
  <1>5. n * n < Mm * Mm
    <2>1. n * n <= n * Mm /\ n * Mm < Mm * Mm
      BY <1>1, <1>2
    <2>2. n * n \in Int /\ n * Mm \in Int /\ Mm * Mm \in Int
      BY <1>1, <1>2
    <2> QED BY <2>1, <2>2
  <1>6. n * n \in Int /\ Mm * Mm \in Int
    BY <1>1, <1>2
  <1> QED BY <1>4, <1>5, <1>6

\* Whatever the numbers are: each exact way of placing a box puts a wall around
\* its axis and a column around its base, and what is too short to be built is
\* a wall that climbs.
THEOREM BuiltInPlace == Spec => []BuiltAroundAxis
  <1>1. ASSUME IInv PROVE BuiltAroundAxis
    <2> USE <1>1
    <2>1. ASSUME NEW i \in 1..Len(built), Exact(built[i])
          PROVE  LET e == built[i] IN
                 IF e.spec.kind = "wall" THEN AroundAxis(e.spec, e.box)
                                         ELSE AroundBase(e.spec, e.box)
      <3> DEFINE e == built[i]
      <3>1. e \in Entries
        BY DEF IInv
      <3>2. e.spec \in GoodSpecs /\ e.box = TrueBox(e.spec)
        BY <2>1, <3>1, BoxOfEntry
      <3>3. CASE e.spec \in GoodWalls
        BY <3>2, <3>3, CornersAroundAxis DEF TrueBox, GoodWalls, WallSpecs
      <3>4. CASE e.spec \in ColumnSpecs
        BY <3>2, <3>4 DEF TrueBox, ColumnSpecs, AroundBase
      <3> QED BY <3>2, <3>3, <3>4 DEF GoodSpecs
    <2>2. ASSUME NEW i \in 1..Len(built), built[i].way = TooShort
          PROVE  built[i].spec.kind = "wall" /\ Dz(built[i].spec) # 0
      <3>1. built[i] \in Entries
        BY DEF IInv
      <3>2. /\ built[i].spec \in GoodSpecs
            /\ built[i].spec.kind = "wall" /\ ~Buildable(built[i].spec)
        BY <2>2, <3>1, BoxOfEntry DEF IInv
      <3>3. built[i].spec \in GoodWalls
        BY <3>2 DEF GoodSpecs, ColumnSpecs
      <3> QED BY <3>2, <3>3, ShortWallsClimb
    <2> QED BY <2>1, <2>2 DEF BuiltAroundAxis
  <1> QED BY <1>1, Inductive, PTL

\* Copies, and copies of copies, are the same box moved by what was asked for,
\* whatever ways of placing them were found.
THEOREM CopiesMoveTheBox == Spec => []CopiesAreShifted
  <1>1. ASSUME IInv PROVE CopiesAreShifted
    <2> PICK s \in GoodSpecs : CopiesOf(s)
      BY <1>1 DEF IInv
    <2> SUFFICES ASSUME NEW i \in 1..Len(built), NEW j \in 1..Len(built),
                        \/ Exact(built[i]) /\ Exact(built[j])
                        \/ built[i].way = 2 /\ built[j].way = 2
                 PROVE  LET e == built[i]
                            f == built[j]
                            unit == Unit(e.spec)
                        IN f.box = Move(e.box,
                                 <<unit * (f.asked[1] - e.asked[1]),
                                   unit * (f.asked[2] - e.asked[2])>>)
      BY DEF CopiesAreShifted
    <2> DEFINE e == built[i]
               f == built[j]
               by == <<f.asked[1] - e.asked[1], f.asked[2] - e.asked[2]>>
    <2>1. e \in Entries /\ f \in Entries
      BY <1>1 DEF IInv
    <2>2. /\ e.spec \in GoodSpecs /\ e.asked \in Int \X Int
          /\ f.asked \in Int \X Int
      BY <2>1, BoxOfEntry
    <2>3. e.spec = OffsetSpec(s, e.asked) /\ f.spec = OffsetSpec(s, f.asked)
      BY DEF CopiesOf
    <2>4. by \in Int \X Int /\ f.spec = OffsetSpec(e.spec, by)
      <3> DEFINE a == e.asked
                 b == f.asked
      <3>1. by = <<b[1] - a[1], b[2] - a[2]>>
        OBVIOUS
      <3>2. /\ a \in Int \X Int /\ b \in Int \X Int
            /\ e.spec = OffsetSpec(s, a) /\ f.spec = OffsetSpec(s, b)
        BY <2>2, <2>3
      <3> HIDE DEF e, f, a, b, by
      <3> QED BY <3>1, <3>2, OffsetBetween
    <2>6. /\ TrueBox(f.spec) = Move(TrueBox(e.spec),
                            <<Unit(e.spec) * by[1], Unit(e.spec) * by[2]>>)
          /\ WideBox(f.spec) = Move(WideBox(e.spec),
                            <<Unit(e.spec) * by[1], Unit(e.spec) * by[2]>>)
      BY <2>2, <2>4, BoxesShifted
    <2>7. \/ e.box = TrueBox(e.spec) /\ f.box = TrueBox(f.spec)
          \/ e.box = WideBox(e.spec) /\ f.box = WideBox(f.spec)
      BY <2>1, BoxOfEntry
    <2> QED BY <2>6, <2>7
  <1> QED BY <1>1, Inductive, PTL
==============================================================================
