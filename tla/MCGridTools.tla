---------------------------- MODULE MCGridTools ----------------------------
(* Small instances of GridTools for TLC. *)
EXTENDS GridTools, TLC

CONSTANTS s1, s2, g1, g2

\* Grids are told apart by their identity only.
MCSymmetry == Permutations({g1, g2})
=============================================================================
