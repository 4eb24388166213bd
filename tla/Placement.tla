----------------------------- MODULE Placement -----------------------------
(***************************************************************************)
(* Where build_wall_element and build_column_element put the box of a spec *)
(* (handlers/geometry.py), and where offset_spec (element_cache.py) makes  *)
(* them put its copies.  Allplan's API differs between versions: the       *)
(* builders try three ways of placing a box, one after the other, until    *)
(* one does not raise.                                                     *)
(*                                                                         *)
(* Coordinates are whole multiples of a fraction of a millimetre and the   *)
(* plan length of a wall is a whole number n of these, so that everything  *)
(* but halves and n-ths is exact: boxes of walls are given in units of     *)
(* 1 / 2n, those of columns in halves.  Left out are the rounding of       *)
(* floats, layers, and heights: every box stands on the z of the first     *)
(* point of its spec and is height_mm high.                                *)
(***************************************************************************)
EXTENDS Integers, Sequences, FiniteSetsExt

CONSTANTS
    Walls,     \* arguments of create_wall
    Columns,   \* ColumnSpecs
    Shifts,    \* distances of two grid lines, as <<dx, dy>>
    Mm,        \* units in a millimetre
    MaxExtent, \* _MAX_EXTENT_MM, in units
    MaxBuilt   \* bound: an element and its copies

Point == Int \X Int \X Int
Sizes == 1..MaxExtent

Dx(w) == w.end[1] - w.start[1]
Dy(w) == w.end[2] - w.start[2]
Dz(w) == w.end[3] - w.start[3]

\* The length of w in the plan, if it is a whole number.
Lengths(w) ==
    LET square == Dx(w) * Dx(w) + Dy(w) * Dy(w)
    IN  {n \in 0..square : n * n = square}

WallSpecs ==
    [kind : {"wall"}, start : Point, end : Point, thickness : Sizes,
     axis_offset : Int]
ColumnSpecs == [kind : {"column"}, base : Point, width : Sizes, depth : Sizes]

ASSUME UnitsAssumption == Mm \in Nat \ {0} /\ MaxExtent \in Nat
ASSUME WallsAssumption == \A w \in Walls : w \in WallSpecs /\ Lengths(w) # {}
ASSUME ColumnsAssumption == \A c \in Columns : c \in ColumnSpecs
ASSUME ShiftsAssumption == \A by \in Shifts : by \in Int \X Int

-----------------------------------------------------------------------------
(* Allplan's geometry: a box is its corners in the plan.                   *)

Cuboid(length, width) == {0, length} \X {0, width}

Move(box, by) == {<<c[1] + by[1], c[2] + by[2]>> : c \in box}

\* Around the origin, by the angle of the vector <<dx, dy>>, into units that
\* are finer by its length.
Rotate(box, dx, dy) ==
    {<<c[1] * dx - c[2] * dy, c[1] * dy + c[2] * dx>> : c \in box}

\* AxisPlacement3D: a box that begins in origin, its first edge is alongX and
\* its second alongY.
Aligned(origin, alongX, alongY) ==
    {<<origin[1] + i * alongX[1] + j * alongY[1],
       origin[2] + i * alongX[2] + j * alongY[2]>> : i, j \in {0, 1}}

\* The 2-point form, around the given corners.
Extent(box) ==
    LET xs == {c[1] : c \in box}
        ys == {c[2] : c \in box}
    IN  {Min(xs), Max(xs)} \X {Min(ys), Max(ys)}

-----------------------------------------------------------------------------
(* Walls.                                                                  *)

Length(w) == CHOOSE n \in Lengths(w) : TRUE

\* Ends at least 1 mm apart, in space, and not too far.
Valid(w) ==
    LET square == Dx(w) * Dx(w) + Dy(w) * Dy(w) + Dz(w) * Dz(w)
    IN  Mm * Mm <= square /\ square <= MaxExtent * MaxExtent

\* The builder raises for a wall less than 1 mm long in the plan.
Buildable(w) == Length(w) >= Mm

Start(w) == <<2 * Length(w) * w.start[1], 2 * Length(w) * w.start[2]>>
End(w) == <<2 * Length(w) * w.end[1], 2 * Length(w) * w.end[2]>>

\* Mutant: the wall lies to one side of its axis.
AxisPlacementAside(w) ==
    Aligned(Start(w),
            <<2 * Length(w) * Dx(w), 2 * Length(w) * Dy(w)>>,
            <<-2 * w.thickness * Dy(w), 2 * w.thickness * Dx(w)>>)

\* Attempt 1: the origin is half a thickness to the right of the start.
AxisPlacement(w) ==
    Aligned(<<Start(w)[1] + w.thickness * Dy(w),
              Start(w)[2] - w.thickness * Dx(w)>>,
            <<2 * Length(w) * Dx(w), 2 * Length(w) * Dy(w)>>,
            <<-2 * w.thickness * Dy(w), 2 * w.thickness * Dx(w)>>)

\* Attempt 2: the box parallel to the axes around the four corners.
BoundingBox(w) ==
    Extent({<<p[1] - s * w.thickness * Dy(w), p[2] + s * w.thickness * Dx(w)>> :
                p \in {Start(w), End(w)}, s \in {-1, 1}})

\* Attempt 3: a box at the origin, centred, turned and moved.
TurnedBox(w) ==
    Move(Rotate(Move(Cuboid(2 * Length(w), 2 * w.thickness),
                     <<0, -w.thickness>>),
                Dx(w), Dy(w)),
         Start(w))

WallBox(w, way) ==
    CASE way = 1 -> AxisPlacement(w)
      [] way = 2 -> BoundingBox(w)
      [] way = 3 -> TurnedBox(w)
      [] way = 4 -> Cuboid(2 * Length(w) * Length(w), 2 * Length(w) * w.thickness)

-----------------------------------------------------------------------------
(* Columns, in halves.                                                     *)

LowCorner(c) == <<2 * c.base[1] - c.width, 2 * c.base[2] - c.depth>>
HighCorner(c) == <<2 * c.base[1] + c.width, 2 * c.base[2] + c.depth>>

ColumnBox(c, way) ==
    CASE way = 1 -> Aligned(LowCorner(c), <<2 * c.width, 0>>, <<0, 2 * c.depth>>)
      [] way = 2 -> {LowCorner(c)[1], HighCorner(c)[1]}
                        \X {LowCorner(c)[2], HighCorner(c)[2]}
      [] way = 3 -> Move(Cuboid(2 * c.width, 2 * c.depth), LowCorner(c))
      [] way = 4 -> Cuboid(2 * c.width, 2 * c.depth)

-----------------------------------------------------------------------------
(* offset_spec, between two lines of a grid, where dz is 0.                *)

\* Mutant: dx for both.
ShiftPointTwice(p, by) == <<p[1] + by[1], p[2] + by[1], p[3]>>

ShiftPoint(p, by) == <<p[1] + by[1], p[2] + by[2], p[3]>>

OffsetSpec(s, by) ==
    IF s.kind = "wall"
    THEN [s EXCEPT !.start = ShiftPoint(@, by), !.end = ShiftPoint(@, by)]
    ELSE [s EXCEPT !.base = ShiftPoint(@, by)]

-----------------------------------------------------------------------------
(* An element and its copies are built one after the other.                *)

VARIABLES
    spec,     \* the spec built last, or next
    attempt,  \* the way that is tried next; 4: no way is left; 0: done
    built,    \* what became of every spec
    asked     \* history: by how much spec was to be shifted in all

vars == <<spec, attempt, built, asked>>

\* What became of a spec, but for the way in which its box was placed.
TooShort == 0
Failed == 5

Specs == Columns \cup {w \in Walls : Valid(w)}

Init == spec \in Specs /\ attempt = 1 /\ built = <<>> /\ asked = <<0, 0>>

Raises == spec.kind = "wall" /\ ~Buildable(spec)

\* No corners: nothing was built.
BoxOf(s, way) ==
    IF way \in {TooShort, Failed} THEN {}
    ELSE IF s.kind = "wall" THEN WallBox(s, way) ELSE ColumnBox(s, way)

Done(way) ==
    /\ built' = Append(built, [spec |-> spec, way |-> way,
                               box |-> BoxOf(spec, way), asked |-> asked])
    /\ attempt' = 0
    /\ UNCHANGED <<spec, asked>>

\* _insert_pending logs the error and goes on with the next spec.
Drop == attempt = 1 /\ Raises /\ Done(TooShort)

\* This version of Allplan lacks a class or function of this way.
TryNext ==
    /\ attempt \in 1..3 /\ ~Raises
    /\ attempt' = attempt + 1
    /\ UNCHANGED <<spec, built, asked>>

Place == attempt \in 1..4 /\ ~Raises /\ Done(attempt)

\* After the last way CreateCuboid raises again, or after any of them Allplan
\* has no ModelElement3D: _insert_pending drops this spec, too.
BuildFails == attempt \in 1..4 /\ ~Raises /\ Done(Failed)

\* copy_to_grid_position, of the element or of its last copy, whatever became
\* of it.
Copy(by) ==
    /\ attempt = 0 /\ Len(built) < MaxBuilt
    /\ spec' = OffsetSpec(spec, by)
    /\ asked' = <<asked[1] + by[1], asked[2] + by[2]>>
    /\ attempt' = 1
    /\ UNCHANGED built

Next ==
    \/ Drop \/ TryNext \/ Place \/ BuildFails
    \/ \E by \in Shifts : Copy(by)

Spec == Init /\ [][Next]_vars

-----------------------------------------------------------------------------
TypeOK ==
    /\ spec \in WallSpecs \cup ColumnSpecs
    /\ spec.kind = "wall" => Lengths(spec) # {}
    /\ attempt \in 0..4 /\ asked \in Int \X Int
    /\ \A i \in 1..Len(built) :
          /\ built[i].spec \in WallSpecs \cup ColumnSpecs
          /\ built[i].way \in TooShort..Failed /\ built[i].asked \in Int \X Int
          /\ built[i].box \in SUBSET (Int \X Int)

\* At either end of the axis of w two corners of the box face each other, half
\* a thickness away and square to the axis.
AroundAxis(w, box) ==
    \A p \in {Start(w), End(w)} : \E c, d \in box :
        LET x == c[1] - p[1]
            y == c[2] - p[2]
            across == w.thickness * Length(w)
        IN  /\ x * Dx(w) + y * Dy(w) = 0
            /\ x * x + y * y = across * across
            /\ d = <<p[1] - x, p[2] - y>>

AroundBase(c, box) == box = ColumnBox(c, 2)

\* The bounding box of a wall that is not parallel to an axis is too large.
Exact(e) ==
    CASE e.way \in {1, 3} -> TRUE
      [] e.way = 2 -> \/ e.spec.kind = "column"
                      \/ Dx(e.spec) = 0 \/ Dy(e.spec) = 0
      [] e.way \in {TooShort, 4, Failed} -> FALSE

\* Whichever of its ways of placing a box works, a wall is built around its
\* axis, whatever axis_offset it was given, and a column around its base.  What
\* no version of Allplan builds is a wall that climbs or stands upright: its
\* ends are apart in space, which is what the tool checks, and not in the plan,
\* which is what the builder needs.
BuiltAroundAxis ==
    \A i \in 1..Len(built) :
        LET e == built[i] IN
        /\ Exact(e) => IF e.spec.kind = "wall" THEN AroundAxis(e.spec, e.box)
                                               ELSE AroundBase(e.spec, e.box)
        /\ e.way = TooShort => (e.spec.kind = "wall" /\ Dz(e.spec) # 0)

Unit(s) == IF s.kind = "wall" THEN 2 * Length(s) ELSE 2

\* An element and its copies, and the copies of these, are the same box, moved
\* by the distances that were asked for, also when they were placed in different
\* ways.
CopiesAreShifted ==
    \A i, j \in 1..Len(built) :
        LET e == built[i]
            f == built[j]
            unit == Unit(e.spec)
        IN  (Exact(e) /\ Exact(f)) \/ (e.way = 2 /\ f.way = 2)
                => f.box = Move(e.box, <<unit * (f.asked[1] - e.asked[1]),
                                         unit * (f.asked[2] - e.asked[2])>>)
=============================================================================
