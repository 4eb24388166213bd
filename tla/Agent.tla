------------------------------- MODULE Agent -------------------------------
(***************************************************************************)
(* The request path inside the Allplan process: one handler thread per     *)
(* client connection (listener.py), the bounded CommandQueue               *)
(* (command_queue.py) and the threads that call pump_once (main_loop.py):  *)
(* Allplan's main thread, driven by the QTimer, notify_fn and the mouse    *)
(* callbacks, and the background pump that AllplanMcpBridge starts.        *)
(*                                                                         *)
(* A request is one frame a client writes.  Time passes in ticks; every    *)
(* timer counts up from the event that started it and saturates one tick   *)
(* after it can matter, so no bound on time is needed.                     *)
(***************************************************************************)
EXTENDS Naturals, Sequences

CONSTANTS
    Conns,      \* client connections, each with its own handler thread
    Requests,   \* request frames, each written at most once
    Pumps,      \* threads that call pump_once
    QueueMax,   \* CommandQueue's maxsize
    BatchMax,   \* pump_once's max_items
    Timeout,    \* Timeout[r]: deadline_ms of r, in ticks
    Grace,      \* what the handler waits beyond the deadline (1.0 s)
    Outcomes,   \* how a handler function may end
    Ack,        \* the client's {"ack": true} frame, which has no id
    NoReq       \* the handler thread serves no request

AllOutcomes == {"ok", "unencodable", "failed", "timedout"}
Codes == {"ok", "Internal", "Timeout", "AllplanApiError"}
Settled == AllOutcomes \cup {"expired"}

ASSUME SizesAssumption == QueueMax \in Nat \ {0} /\ BatchMax \in Nat \ {0}
ASSUME TimesAssumption == Timeout \in [Requests -> Nat] /\ Grace \in Nat \ {0}
ASSUME NamesAssumption == NoReq \notin Requests /\ Ack \notin Requests
ASSUME OutcomesAssumption == Outcomes \subseteq AllOutcomes

VARIABLES
    sent,     \* requests some client has written
    wire,     \* wire[c]: frames written on c that its handler has not read
    open,     \* open[c]: the client has not hung up
    hpc,      \* hpc[c]: where the handler thread of c is
    cur,      \* cur[c]: the request the handler of c serves
    waited,   \* waited[c]: ticks spent in fut.result
    age,      \* age[r]: ticks since the handler computed r's deadline
    fut,      \* fut[r]: the state of r's Future
    queue,    \* CommandQueue._q
    pc,       \* pc[p]: where the pump_once call of p is
    batch,    \* batch[p]: commands p drained and has not finished
    late,     \* late[p]: commands of the batch that `now` put past deadline
    ran,      \* ran[r]: how often a handler function was started for r
    reply     \* reply[r]: codes of the response frames for r that were sent

connVars == <<sent, wire, open, hpc, cur, waited, reply>>
pumpVars == <<pc, batch, late, ran>>
vars == <<sent, wire, open, hpc, cur, waited, age, fut, queue, pc, batch,
          late, ran, reply>>

Elems(s) == {s[i] : i \in 1..Len(s)}

Init ==
    /\ sent = {}
    /\ wire = [c \in Conns |-> <<Ack>>]
    /\ open = [c \in Conns |-> TRUE]
    /\ hpc = [c \in Conns |-> "reading"]
    /\ cur = [c \in Conns |-> NoReq]
    /\ waited = [c \in Conns |-> 0]
    /\ age = [r \in Requests |-> 0]
    /\ fut = [r \in Requests |-> "none"]
    /\ queue = <<>>
    /\ pc = [p \in Pumps |-> "draining"]
    /\ batch = [p \in Pumps |-> <<>>]
    /\ late = [p \in Pumps |-> {}]
    /\ ran = [r \in Requests |-> 0]
    /\ reply = [r \in Requests |-> <<>>]

-----------------------------------------------------------------------------
(* The client's side of a connection.                                      *)

Send(c, r) ==
    /\ open[c] /\ r \notin sent
    /\ sent' = sent \cup {r}
    /\ wire' = [wire EXCEPT ![c] = Append(@, r)]
    /\ UNCHANGED <<open, hpc, cur, waited, reply, age, fut, queue, pumpVars>>

HangUp(c) ==
    /\ open[c]
    /\ open' = [open EXCEPT ![c] = FALSE]
    /\ UNCHANGED <<sent, wire, hpc, cur, waited, reply, age, fut, queue,
                   pumpVars>>

-----------------------------------------------------------------------------
(* The handler thread of connection c: _handle_connection.                 *)

\* A frame without a string id and cmd is dropped without an answer.
SkipFrame(c) ==
    /\ hpc[c] = "reading" /\ wire[c] # <<>> /\ Head(wire[c]) = Ack
    /\ wire' = [wire EXCEPT ![c] = Tail(@)]
    /\ UNCHANGED <<sent, open, hpc, cur, waited, reply, age, fut, queue,
                   pumpVars>>

\* The deadline counts from this read, not from the client's write.
ReadFrame(c) ==
    /\ hpc[c] = "reading" /\ wire[c] # <<>> /\ Head(wire[c]) # Ack
    /\ cur' = [cur EXCEPT ![c] = Head(wire[c])]
    /\ wire' = [wire EXCEPT ![c] = Tail(@)]
    /\ hpc' = [hpc EXCEPT ![c] = "read"]
    /\ fut' = [fut EXCEPT ![Head(wire[c])] = "pending"]
    /\ age' = [age EXCEPT ![Head(wire[c])] = 0]
    /\ UNCHANGED <<sent, open, waited, reply, queue, pumpVars>>

\* The buffered frames are read before the end of the stream is seen.
EndOfStream(c) ==
    /\ hpc[c] = "reading" /\ wire[c] = <<>> /\ ~open[c]
    /\ hpc' = [hpc EXCEPT ![c] = "ended"]
    /\ UNCHANGED <<sent, wire, open, cur, waited, reply, age, fut, queue,
                   pumpVars>>

Enqueue(c) ==
    /\ hpc[c] = "read" /\ Len(queue) < QueueMax
    /\ queue' = Append(queue, cur[c])
    /\ hpc' = [hpc EXCEPT ![c] = "waiting"]
    /\ waited' = [waited EXCEPT ![c] = 0]
    /\ UNCHANGED <<sent, wire, open, cur, reply, age, fut, pumpVars>>

\* To a client that hung up a send is lost or fails; a failed send closes the
\* connection, and the frames still buffered on it are never read.
Respond(c, code) ==
    /\ cur' = [cur EXCEPT ![c] = NoReq]
    /\ IF open[c]
       THEN /\ reply' = [reply EXCEPT ![cur[c]] = Append(@, code)]
            /\ hpc' = [hpc EXCEPT ![c] = "reading"]
       ELSE /\ reply' = reply
            /\ hpc' \in {[hpc EXCEPT ![c] = s] : s \in {"reading", "ended"}}
    /\ UNCHANGED <<sent, wire, open, waited>>

\* Mutant: the command is put in the queue although the client is told not.
RejectFullButKeep(c) ==
    /\ hpc[c] = "read" /\ Len(queue) >= QueueMax
    /\ queue' = Append(queue, cur[c])
    /\ Respond(c, "Internal")
    /\ UNCHANGED <<age, fut, pumpVars>>

RejectFull(c) ==
    /\ hpc[c] = "read" /\ Len(queue) >= QueueMax
    /\ fut' = [fut EXCEPT ![cur[c]] = "dropped"]
    /\ Respond(c, "Internal")
    /\ UNCHANGED <<age, queue, pumpVars>>

CodeOf == [f \in Settled |->
             CASE f = "ok" -> "ok"
               [] f \in {"expired", "timedout"} -> "Timeout"
               [] OTHER -> "AllplanApiError"]

AnswerResult(c) ==
    /\ hpc[c] = "waiting" /\ fut[cur[c]] \in Settled
    /\ Respond(c, CodeOf[fut[cur[c]]])
    /\ UNCHANGED <<age, fut, queue, pumpVars>>

\* Mutants: fut.result waits without the extra second; without a timeout;
\* the handler goes on waiting for the result after it sent the Timeout.
GiveUpAtDeadline(c) ==
    /\ hpc[c] = "waiting" /\ fut[cur[c]] = "pending"
    /\ waited[c] >= Timeout[cur[c]]
    /\ Respond(c, "Timeout")
    /\ UNCHANGED <<age, fut, queue, pumpVars>>

GiveUpNever(c) == FALSE /\ UNCHANGED vars

GiveUpAndWaitOn(c) ==
    /\ hpc[c] = "waiting" /\ fut[cur[c]] = "pending" /\ open[c]
    /\ waited[c] >= Timeout[cur[c]] + Grace
    /\ reply' = [reply EXCEPT ![cur[c]] = Append(@, "Timeout")]
    /\ waited' = [waited EXCEPT ![c] = 0]
    /\ UNCHANGED <<sent, wire, open, hpc, cur, age, fut, queue, pumpVars>>

\* The command stays wherever it is: in the queue, in a batch or running.
GiveUp(c) ==
    /\ hpc[c] = "waiting" /\ fut[cur[c]] = "pending"
    /\ waited[c] >= Timeout[cur[c]] + Grace
    /\ Respond(c, "Timeout")
    /\ UNCHANGED <<age, fut, queue, pumpVars>>

-----------------------------------------------------------------------------
(* A call of pump_once on thread p.                                        *)

\* Mutant: the command is copied and not removed.
GetCopy(p) ==
    /\ pc[p] = "draining" /\ Len(batch[p]) < BatchMax /\ queue # <<>>
    /\ batch' = [batch EXCEPT ![p] = Append(@, Head(queue))]
    /\ UNCHANGED <<connVars, age, fut, queue, pc, late, ran>>

Get(p) ==
    /\ pc[p] = "draining" /\ Len(batch[p]) < BatchMax /\ queue # <<>>
    /\ batch' = [batch EXCEPT ![p] = Append(@, Head(queue))]
    /\ queue' = Tail(queue)
    /\ UNCHANGED <<connVars, age, fut, pc, late, ran>>

\* Mutant: get in place of get_nowait, which waits for a full batch.
StopDrainingFull(p) ==
    /\ pc[p] = "draining" /\ Len(batch[p]) = BatchMax
    /\ pc' = [pc EXCEPT ![p] = "drained"]
    /\ UNCHANGED <<connVars, age, fut, queue, batch, late, ran>>

\* An empty drain ends the call at once, which changes nothing.
StopDraining(p) ==
    /\ pc[p] = "draining" /\ batch[p] # <<>>
    /\ queue = <<>> \/ Len(batch[p]) = BatchMax
    /\ pc' = [pc EXCEPT ![p] = "drained"]
    /\ UNCHANGED <<connVars, age, fut, queue, batch, late, ran>>

\* One clock reading decides the deadline check of the whole batch.
ReadClock(p) ==
    /\ pc[p] = "drained"
    /\ late' = [late EXCEPT
                  ![p] = {r \in Elems(batch[p]) : age[r] > Timeout[r]}]
    /\ pc' = [pc EXCEPT ![p] = "looping"]
    /\ UNCHANGED <<connVars, age, fut, queue, batch, ran>>

\* Mutant: the loop does not end with the batch.
NextCommandForever(p) ==
    /\ batch' = [batch EXCEPT ![p] = Tail(@)]
    /\ pc' = [pc EXCEPT ![p] = "looping"]
    /\ late' = [late EXCEPT ![p] = @ \ {Head(batch[p])}]

NextCommand(p) ==
    /\ batch' = [batch EXCEPT ![p] = Tail(@)]
    /\ pc' = [pc EXCEPT ![p] = IF Len(batch[p]) = 1 THEN "draining"
                                                    ELSE "looping"]
    /\ late' = [late EXCEPT ![p] = @ \ {Head(batch[p])}]

Settle(r, f) ==
    fut' = IF fut[r] = "pending" THEN [fut EXCEPT ![r] = f] ELSE fut

Expire(p) ==
    /\ pc[p] = "looping" /\ Head(batch[p]) \in late[p]
    /\ Settle(Head(batch[p]), "expired")
    /\ NextCommand(p)
    /\ UNCHANGED <<connVars, age, queue, ran>>

StartHandler(p) ==
    /\ pc[p] = "looping" /\ Head(batch[p]) \notin late[p]
    /\ ran' = [ran EXCEPT ![Head(batch[p])] = @ + 1]
    /\ pc' = [pc EXCEPT ![p] = "running"]
    /\ UNCHANGED <<connVars, age, fut, queue, batch, late>>

\* Mutant: the command is retried and its future set without asking done().
FinishHandlerRetry(p, o) ==
    /\ pc[p] = "running"
    /\ fut' = [fut EXCEPT ![Head(batch[p])] = o]
    /\ pc' = [pc EXCEPT ![p] = "looping"]
    /\ UNCHANGED <<connVars, age, queue, batch, late, ran>>

FinishHandler(p, o) ==
    /\ pc[p] = "running"
    /\ Settle(Head(batch[p]), o)
    /\ NextCommand(p)
    /\ UNCHANGED <<connVars, age, queue, ran>>

-----------------------------------------------------------------------------
(* A tick of time.monotonic.                                               *)

Ages(r) == fut[r] # "none" /\ age[r] <= Timeout[r]
Waits(c) == hpc[c] = "waiting" /\ waited[c] < Timeout[cur[c]] + Grace

Tick ==
    /\ (\E r \in Requests : Ages(r)) \/ (\E c \in Conns : Waits(c))
    /\ age' = [r \in Requests |-> IF Ages(r) THEN age[r] + 1 ELSE age[r]]
    /\ waited' = [c \in Conns |-> IF Waits(c) THEN waited[c] + 1
                                              ELSE waited[c]]
    /\ UNCHANGED <<sent, wire, open, hpc, cur, reply, fut, queue, pumpVars>>

-----------------------------------------------------------------------------
ClientStep(c) == HangUp(c) \/ \E r \in Requests : Send(c, r)

HandlerStep(c) ==
    \/ SkipFrame(c) \/ ReadFrame(c) \/ EndOfStream(c)
    \/ Enqueue(c) \/ RejectFull(c) \/ AnswerResult(c) \/ GiveUp(c)

PumpStep(p) ==
    \/ Get(p) \/ StopDraining(p) \/ ReadClock(p)
    \/ Expire(p) \/ StartHandler(p)
    \/ \E o \in Outcomes : FinishHandler(p, o)

Next ==
    \/ \E c \in Conns : ClientStep(c) \/ HandlerStep(c)
    \/ \E p \in Pumps : PumpStep(p)
    \/ Tick

Spec == Init /\ [][Next]_vars

\* Handler threads are scheduled and time passes; nothing is assumed of the
\* pumps, which a modal dialog or a hanging handler function may block.
ListenerFairness ==
    WF_vars(Tick) /\ \A c \in Conns : WF_vars(HandlerStep(c))

ListenerSpec == Spec /\ ListenerFairness

\* Pump p is called again and again and the functions it calls return.
PumpFairness(p) == WF_vars(PumpStep(p))

-----------------------------------------------------------------------------
TypeOK ==
    /\ sent \subseteq Requests
    /\ wire \in [Conns -> Seq(Requests \cup {Ack})]
    /\ open \in [Conns -> BOOLEAN]
    /\ hpc \in [Conns -> {"reading", "read", "waiting", "ended"}]
    /\ cur \in [Conns -> Requests \cup {NoReq}]
    /\ \A c \in Conns : hpc[c] \in {"read", "waiting"} => cur[c] # NoReq
    /\ waited \in [Conns -> Nat]
    /\ age \in [Requests -> Nat]
    /\ fut \in [Requests -> {"none", "pending", "dropped"} \cup Settled]
    /\ queue \in Seq(Requests)
    /\ pc \in [Pumps -> {"draining", "drained", "looping", "running"}]
    /\ batch \in [Pumps -> Seq(Requests)]
    /\ \A p \in Pumps : pc[p] # "draining" => batch[p] # <<>>
    /\ late \in [Pumps -> SUBSET Requests]
    /\ ran \in [Requests -> Nat]
    /\ reply \in [Requests -> Seq(Codes)]

\* The elements of s are pairwise different.
Inj(s) == \A i, j \in 1..Len(s) : s[i] = s[j] => i = j

\* Every unread frame is on one connection, once, and still untouched.
FramesOK ==
    /\ \A r \in Requests : r \notin sent => fut[r] = "none"
    /\ \A c \in Conns :
          /\ Inj(wire[c])
          /\ \A r \in Requests : r \in Elems(wire[c]) =>
                /\ r \in sent /\ fut[r] = "none"
                /\ \A d \in Conns : r \in Elems(wire[d]) => d = c

\* A request is served by one handler thread, which has not answered it; until
\* it is enqueued nobody else knows of it.
HandlersOK ==
    \A c \in Conns :
        /\ hpc[c] \in {"reading", "ended"} => cur[c] = NoReq
        /\ cur[c] # NoReq =>
              /\ fut[cur[c]] \in {"pending"} \cup Settled
              /\ reply[cur[c]] = <<>>
              /\ \A d \in Conns : cur[d] = cur[c] => d = c
        /\ hpc[c] = "read" =>
              /\ fut[cur[c]] = "pending" /\ ran[cur[c]] = 0
              /\ cur[c] \notin Elems(queue)
              /\ \A p \in Pumps : cur[c] \notin Elems(batch[p])

\* A command in the queue is there once, in no batch, unsettled and not run.
QueueOK ==
    /\ Inj(queue)
    /\ \A r \in Requests : r \in Elems(queue) =>
          /\ fut[r] = "pending" /\ ran[r] = 0
          /\ \A p \in Pumps : r \notin Elems(batch[p])

\* A command in a batch is in one batch, once, unsettled, and was started only
\* if it is the one its pump is running.
BatchesOK ==
    \A p \in Pumps :
        /\ Inj(batch[p])
        /\ \A r \in Requests : r \in Elems(batch[p]) =>
              /\ fut[r] = "pending"
              /\ \A q \in Pumps : r \in Elems(batch[q]) => q = p
              /\ ran[r] = IF pc[p] = "running" /\ r = Head(batch[p])
                          THEN 1 ELSE 0

\* The state of a future tells whether the handler function was started.
FuturesOK ==
    \A r \in Requests :
        /\ fut[r] \in {"none", "dropped", "expired"} => ran[r] = 0
        /\ fut[r] \in AllOutcomes => ran[r] = 1
        /\ ran[r] <= 1
        /\ fut[r] = "none" => reply[r] = <<>>

\* The one response there may be agrees with the future.
ResponsesOK ==
    \A r \in Requests :
        /\ reply[r] = <<>> \/ \E code \in Codes : reply[r] = <<code>>
        /\ reply[r] = <<"ok">> => fut[r] = "ok"
        /\ reply[r] = <<"AllplanApiError">> =>
              fut[r] \in {"failed", "unencodable"}
        /\ reply[r] = <<"Internal">> => fut[r] = "dropped"

\* Every command is in exactly one place on its way from the wire to its
\* response, and its future, its start and its response agree with that place:
\* the inductive invariant behind the properties below.
OnePlace ==
    FramesOK /\ HandlersOK /\ QueueOK /\ BatchesOK /\ FuturesOK /\ ResponsesOK

\* pump_once on two threads and a listener that gives up never make a command
\* run twice, whatever the interleaving of drains.
AtMostOnce == \A r \in Requests : ran[r] <= 1

\* What the client is told about its request is true: an "ok" means the handler
\* function ran and returned, an AllplanApiError that it ran, and Internal (the
\* queue was full) that it never runs; and it is told once.
RepliesAreTrue ==
    \A r \in Requests :
        /\ Len(reply[r]) <= 1
        /\ reply[r] = <<"ok">> => fut[r] = "ok" /\ ran[r] = 1
        /\ reply[r] = <<"AllplanApiError">> =>
              fut[r] \in {"failed", "unencodable"} /\ ran[r] = 1
        /\ reply[r] = <<"Internal">> => ran[r] = 0 /\ r \notin Elems(queue)

\* A command the pump expired was not run: the Timeout set by pump_once, unlike
\* the one the listener sends when it gives up, says that nothing happened.
ExpiredNeverRan == \A r \in Requests : fut[r] = "expired" => ran[r] = 0

\* A future is settled once: the outcome a client could read never changes.
SettledForGood ==
    [][\A r \in Requests : fut[r] \in Settled => fut'[r] = fut[r]]_vars

\* A command still in the queue when its client was told Timeout is dead: the
\* second the listener waits beyond the deadline makes pump_once see it late.
DeadInQueue ==
    \A r \in Requests :
        []((reply[r] = <<"Timeout">> /\ r \in Elems(queue)) => [](ran[r] = 0))

\* However long the pumps are blocked, the handler thread of an open connection
\* goes on to the next frame: the request it serves is answered or dropped.
EveryRequestAnswered ==
    \A c \in Conns, r \in Requests : (cur[c] = r) ~> (cur[c] # r)

\* As long as one pump keeps being called, every command that was enqueued is
\* settled, those whose listener gave up included.
QueueDrains ==
    \A p \in Pumps : PumpFairness(p) =>
        \A r \in Requests :
            (r \in Elems(queue) \cup Elems(batch[p]))
                ~> (fut[r] \in Settled \/ \E q \in Pumps \ {p} :
                       r \in Elems(batch[q]))

\* How far the agent is with r, as RequestService sees it.
Stage(r) ==
    IF fut[r] \in Settled THEN fut[r]
    ELSE IF fut[r] = "dropped" THEN "refused"
    ELSE IF \E p \in Pumps : pc[p] = "running" /\ r = Head(batch[p])
         THEN "running"
    ELSE IF r \in Elems(queue) \/ \E p \in Pumps : r \in Elems(batch[p])
         THEN "accepted" ELSE "new"

Service == INSTANCE RequestService
               WITH st <- [r \in Requests |-> Stage(r)], told <- reply

\* The agent with its threads, queue and clock implements RequestService.
ImplementsService == Service!Spec

\* docs/ipc-protocol.md:81: a Timeout response says that the deadline elapsed
\* before the command ran.
TimeoutMeansNotRun ==
    \A r \in Requests : reply[r] = <<"Timeout">> => ran[r] = 0
=============================================================================
