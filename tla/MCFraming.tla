----------------------------- MODULE MCFraming -----------------------------
(* Small instances of Framing for TLC. *)
EXTENDS Framing

CONSTANTS handler, heartbeat, short, long, huge

\* huge is longer than the reader takes.
MCSize == (short :> 1) @@ (long :> 3) @@ (huge :> 4)
=============================================================================
