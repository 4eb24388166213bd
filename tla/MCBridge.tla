------------------------------ MODULE MCBridge ------------------------------
(* Small instances of Bridge for TLC. *)
EXTENDS Bridge, TLC

CONSTANTS k1, k2, q1, l1, l2

\* Clients, and links, are told apart by their identity only.
MCSymmetry == Permutations({k1, k2}) \cup Permutations({l1, l2})
=============================================================================
