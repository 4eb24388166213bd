---------------------------- MODULE CallService ----------------------------
(***************************************************************************)
(* What call() promises of one command, whatever happens to connections,   *)
(* locks and futures: the command is written at most once, the agent runs  *)
(* it at most once, and the caller is told one thing, for good.  A result  *)
(* is told only of a command that was run, a full queue only of one that   *)
(* was written, was not run and never is, and a timeout only of one that   *)
(* was written; what is refused is never written, and after the caller was *)
(* told nothing is written any more.  Else a command that was written may  *)
(* be run later, whatever its caller was told.                             *)
(***************************************************************************)
EXTENDS Naturals

CONSTANTS Calls

VARIABLES
    sent,     \* sent[k]: how often k's command was written
    ran,      \* ran[k]: how often the agent ran it
    told      \* told[k]: what its caller got, or "none"

vars == <<sent, ran, told>>

Init ==
    /\ sent = [k \in Calls |-> 0] /\ ran = [k \in Calls |-> 0]
    /\ told = [k \in Calls |-> "none"]

Writes(k) == sent[k] = 0 /\ sent' = [sent EXCEPT ![k] = 1]
Tell(k, what) == told[k] = "none" /\ told' = [told EXCEPT ![k] = what]

Refuse(k) == sent[k] = 0 /\ Tell(k, "InvalidArgs") /\ UNCHANGED <<sent, ran>>

Write(k) == told[k] = "none" /\ Writes(k) /\ UNCHANGED <<ran, told>>

Run(k) ==
    /\ sent[k] = 1 /\ ran[k] = 0 /\ told[k] # "QueueFull"
    /\ ran' = [ran EXCEPT ![k] = 1]
    /\ UNCHANGED <<sent, told>>

Respond(k) == ran[k] = 1 /\ Tell(k, "result") /\ UNCHANGED <<sent, ran>>

Reject(k) ==
    /\ sent[k] = 1 /\ ran[k] = 0
    /\ Tell(k, "QueueFull")
    /\ UNCHANGED <<sent, ran>>

TimeOut(k) == sent[k] = 1 /\ Tell(k, "Timeout") /\ UNCHANGED <<sent, ran>>

\* What is being written when the connection or the caller goes may get through.
Abandon(k) ==
    /\ Tell(k, "AgentDisconnected") \/ Tell(k, "Cancelled")
    /\ Writes(k) \/ UNCHANGED sent
    /\ UNCHANGED ran

Next ==
    \E k \in Calls :
        \/ Refuse(k) \/ Write(k) \/ Run(k)
        \/ Respond(k) \/ Reject(k) \/ TimeOut(k) \/ Abandon(k)

Spec == Init /\ [][Next]_vars
=============================================================================
