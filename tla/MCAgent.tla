------------------------------ MODULE MCAgent ------------------------------
(* Small instances of Agent for TLC. *)
EXTENDS Agent, TLC

CONSTANTS c1, c2, r1, r2, main, bg

\* A deadline_ms of 0 is late one tick after the frame was read.
MCTimeout == [r \in Requests |-> IF r = r2 THEN 1 ELSE 0]

MCAllOutcomes == AllOutcomes
MCOutcomes == {"ok", "unencodable"}

\* The specification tells neither connections nor pumps apart.
MCSymmetry == Permutations({c1, c2}) \cup Permutations({main, bg})
=============================================================================
