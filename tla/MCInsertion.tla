---------------------------- MODULE MCInsertion ----------------------------
(* Small instances of Insertion for TLC. *)
EXTENDS Insertion

CONSTANTS w1, w2, a1
=============================================================================
