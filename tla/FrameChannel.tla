---------------------------- MODULE FrameChannel ----------------------------
(***************************************************************************)
(* What one direction of a connection promises to whoever reads it: the    *)
(* frames it yields are the first of those that were sent, in the order    *)
(* they were sent, each whole and each once; it may end at any time.       *)
(***************************************************************************)
EXTENDS Sequences, Naturals

CONSTANT Frames

VARIABLES
    sent,  \* frames in the order their senders began with them
    got,   \* frames the reader has yielded
    over   \* the reader yields no more

vars == <<sent, got, over>>

Init == sent = <<>> /\ got = <<>> /\ over = FALSE

Send(f) ==
    /\ sent' = Append(sent, f)
    /\ UNCHANGED <<got, over>>

Yield ==
    /\ ~over /\ Len(got) < Len(sent)
    /\ got' = Append(got, sent[Len(got) + 1])
    /\ UNCHANGED <<sent, over>>

End ==
    /\ over' = TRUE
    /\ UNCHANGED <<sent, got>>

Next == (\E f \in Frames : Send(f)) \/ Yield \/ End

Spec == Init /\ [][Next]_vars
=============================================================================
