--------------------------- MODULE RequestService ---------------------------
(***************************************************************************)
(* What the agent promises of one request, whatever threads and queues     *)
(* serve it: it is refused, or accepted and then either expires unrun or   *)
(* is run exactly once; at most one response says so, and the only         *)
(* response that may come before the outcome is known is a Timeout.        *)
(***************************************************************************)
EXTENDS Sequences

CONSTANTS Requests, Outcomes

VARIABLES
    st,       \* st[r]: how far the agent is with r
    told      \* told[r]: the codes of the responses to r

vars == <<st, told>>

Code(o) ==
    CASE o = "ok" -> "ok"
      [] o \in {"expired", "timedout"} -> "Timeout"
      [] OTHER -> "AllplanApiError"

Init ==
    /\ st = [r \in Requests |-> "new"]
    /\ told = [r \in Requests |-> <<>>]

Becomes(r, s) == st' = [st EXCEPT ![r] = s]
Tell(r, code) == told[r] = <<>> /\ told' = [told EXCEPT ![r] = <<code>>]

Accept(r) == st[r] = "new" /\ Becomes(r, "accepted") /\ UNCHANGED told

Refuse(r) ==
    /\ st[r] = "new" /\ Becomes(r, "refused")
    /\ Tell(r, "Internal") \/ UNCHANGED told

Run(r) == st[r] = "accepted" /\ Becomes(r, "running") /\ UNCHANGED told

Expire(r) == st[r] = "accepted" /\ Becomes(r, "expired") /\ UNCHANGED told

Finish(r, o) == st[r] = "running" /\ Becomes(r, o) /\ UNCHANGED told

Answer(r) ==
    /\ st[r] \in Outcomes \cup {"expired"}
    /\ Tell(r, Code(st[r]))
    /\ UNCHANGED st

GiveUp(r) ==
    /\ st[r] \in {"accepted", "running"}
    /\ Tell(r, "Timeout")
    /\ UNCHANGED st

Next ==
    \E r \in Requests :
        \/ Accept(r) \/ Refuse(r) \/ Run(r) \/ Expire(r)
        \/ \E o \in Outcomes : Finish(r, o)
        \/ Answer(r) \/ GiveUp(r)

Spec == Init /\ [][Next]_vars
=============================================================================
