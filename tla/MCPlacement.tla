---------------------------- MODULE MCPlacement ----------------------------
(* Small instances of Placement for TLC. *)
EXTENDS Placement

\* All directions of up to 5 in which the length is a whole number, level and
\* sloping; and upright.
Directions ==
    {v \in (-5..5) \X (-5..5) \X {0, 2} :
        \E n \in 0..7 : n * n = v[1] * v[1] + v[2] * v[2]}

MCWalls ==
    {[kind |-> "wall", start |-> p,
      end |-> <<p[1] + v[1], p[2] + v[2], p[3] + v[3]>>, thickness |-> t,
      axis_offset |-> o] :
        p \in {<<0, 0, 0>>, <<-7, 4, 3>>}, v \in Directions, t \in {1, 2},
        o \in {0, 3}}

MCColumns ==
    [kind : {"column"}, base : {<<0, 0, 0>>, <<-7, 4, 3>>}, width : {1, 2},
     depth : {1, 4}]

MCShifts == {<<6, 0>>, <<-3, 5>>}
=============================================================================
