----------------------------- MODULE IpcClient -----------------------------
(***************************************************************************)
(* The IPC client of the MCP server (ipc/client.py over ipc/tcp.py): the   *)
(* tasks of one asyncio event loop.  An action is what a task does between *)
(* two awaits, so what it read before an await may be stale after it.      *)
(*                                                                         *)
(* Tasks: one per call(), the reader of each connection, start() or the    *)
(* reconnect loop, and stop().  A link is one TCP connection; links are    *)
(* numbered in the order they are made and 0 stands for None.  The agent   *)
(* is reduced to what the client can see of it: it comes and goes, and it  *)
(* answers a frame on the link it came on, after running the command,      *)
(* without running it, or before.                                          *)
(***************************************************************************)
EXTENDS Naturals, SequencesExt, FiniteSets

CONSTANTS
    Calls,      \* invocations of call()
    MaxLinks    \* bound: how many connections are made in all

ASSUME LinksAssumption == MaxLinks \in Nat \ {0}

Links == 1..MaxLinks

VARIABLES
    started,    \* start() has returned
    running,    \* self._running
    transport,  \* self._transport: its link, or 0 for None
    closed,     \* links whose stream close() set to None
    last,       \* links made so far
    up,         \* links that work
    agentUp,    \* the bridge accepts connections
    readers,    \* links with a reader task
    cancelled,  \* readers stop() cancelled
    sleeping,   \* reconnect loops in anyio.sleep
    connecting, \* tasks in _connect_once
    crashed,    \* an exception other than TransportError left _connect_once
    stopping,   \* the link stop() is closing, or 0
    call,       \* call[k]: where the call is
    via,        \* via[k]: the link its frame is being sent on, or 0
    lock,       \* _send_lock: the holder, then the waiters in order
    pending,    \* calls with an entry in self._pending
    fut,        \* fut[k]: what its future was resolved with
    outcome,    \* outcome[k]: what call() returned or raised
    frames,     \* <<k, g>>: the agent has k's frame from link g to run
    late,       \* calls answered with Timeout that may still be run
    answers,    \* <<k, g, o>>: the response o to k travels on link g
    sends,      \* sends[k]: how often k's frame was written
    ran         \* ran[k]: how often the agent ran k

flagVars == <<started, running, stopping>>
netVars == <<agentUp, up, last, closed>>
readVars == <<transport, readers, cancelled>>
loopVars == <<sleeping, connecting, crashed>>
connVars == <<flagVars, netVars, readVars, loopVars>>
callVars == <<call, via, lock, outcome, sends>>
futVars == <<pending, fut>>
agentVars == <<frames, late, answers, ran>>
vars == <<connVars, callVars, futVars, agentVars>>

\* start() is in its first _connect_once.
Init ==
    /\ started = FALSE /\ running = TRUE /\ stopping = 0
    /\ agentUp \in BOOLEAN /\ up = {} /\ last = 0 /\ closed = {}
    /\ transport = 0 /\ readers = {} /\ cancelled = {}
    /\ sleeping = 0 /\ connecting = 1 /\ crashed = FALSE
    /\ call = [k \in Calls |-> "idle"] /\ via = [k \in Calls |-> 0]
    /\ lock = <<>> /\ pending = {} /\ fut = [k \in Calls |-> "none"]
    /\ outcome = [k \in Calls |-> "none"]
    /\ frames = {} /\ late = {} /\ answers = {}
    /\ sends = [k \in Calls |-> 0] /\ ran = [k \in Calls |-> 0]

IsConnected == transport # 0 /\ transport \notin closed

InProgress(k) == call[k] \in {"lock", "sending", "waiting"}

\* What the agent answers: the value or error of the handler function, that
\* its queue is full, or that the deadline is over.
Responses == {"result", "QueueFull", "Timeout"}

-----------------------------------------------------------------------------
(* call()                                                                  *)

End(k, o) ==
    /\ call' = [call EXCEPT ![k] = "done"]
    /\ outcome' = [outcome EXCEPT ![k] = o]

\* Not connected, or the arguments are larger than max_arg_bytes.
Refuse(k) ==
    /\ call[k] = "idle"
    /\ started
    /\ \/ ~IsConnected /\ End(k, "AgentDisconnected")
       \/ IsConnected /\ End(k, "InvalidArgs")
    /\ UNCHANGED <<connVars, futVars, agentVars, via, lock, sends>>

\* A free lock is taken without an await.
Begin(k) ==
    /\ started /\ call[k] = "idle" /\ IsConnected
    /\ pending' = pending \cup {k}
    /\ lock' = Append(lock, k)
    /\ IF lock = <<>>
       THEN /\ call' = [call EXCEPT ![k] = "sending"]
            /\ via' = [via EXCEPT ![k] = transport]
       ELSE /\ call' = [call EXCEPT ![k] = "lock"] /\ via' = via
    /\ UNCHANGED <<connVars, fut, outcome, sends, agentVars>>

\* self._transport is read again once the lock is held: it may be another
\* connection than the one is_connected was asked of, or None.
AcquireLock(k) ==
    /\ call[k] = "lock" /\ lock[1] = k
    /\ IF transport = 0
       THEN /\ End(k, "AgentDisconnected")
            /\ lock' = Tail(lock) /\ pending' = pending \ {k}
            /\ via' = via
       ELSE /\ call' = [call EXCEPT ![k] = "sending"]
            /\ via' = [via EXCEPT ![k] = transport]
            /\ UNCHANGED <<outcome, lock, pending>>
    /\ UNCHANGED <<connVars, fut, sends, agentVars>>

\* What was written to a link that broke may or may not have arrived.
Written(k) ==
    /\ sends' = [sends EXCEPT ![k] = @ + 1]
    /\ \/ frames' = frames \cup {<<k, via[k]>>}
       \/ via[k] \notin up /\ frames' = frames

SendOk(k) ==
    /\ call[k] = "sending"
    /\ Written(k)
    /\ call' = [call EXCEPT ![k] = "waiting"]
    /\ lock' = Tail(lock) /\ via' = [via EXCEPT ![k] = 0]
    /\ UNCHANGED <<connVars, futVars, outcome, late, answers, ran>>

\* Mutants: a failed send is tried again on the next connection; it starts a
\* reconnect loop, as the reader of the broken link does.
SendFailsRetry(k) ==
    /\ call[k] = "sending" /\ via[k] \notin up
    /\ Written(k)
    /\ call' = [call EXCEPT ![k] = "lock"]
    /\ UNCHANGED <<connVars, futVars, via, lock, outcome, late, answers, ran>>

SendFailsReconnect(k) ==
    /\ call[k] = "sending" /\ via[k] \notin up
    /\ Written(k)
    /\ End(k, "AgentDisconnected")
    /\ lock' = Tail(lock) /\ pending' = pending \ {k}
    /\ sleeping' = sleeping + 1
    /\ UNCHANGED <<flagVars, netVars, readVars, connecting, crashed, fut, via,
                   late, answers, ran>>

\* The stream is broken or closed.
SendFails(k) ==
    /\ call[k] = "sending" /\ via[k] \notin up
    /\ Written(k)
    /\ End(k, "AgentDisconnected")
    /\ lock' = Tail(lock) /\ pending' = pending \ {k}
    /\ via' = [via EXCEPT ![k] = 0]
    /\ UNCHANGED <<connVars, fut, late, answers, ran>>

\* Mutant: the entry of a call that times out stays in _pending.
TimeOutKeepEntry(k) ==
    /\ call[k] = "waiting"
    /\ End(k, "Timeout")
    /\ UNCHANGED <<connVars, futVars, via, lock, sends, agentVars>>

\* Mutant: the shielded future is awaited without wait_for.
TimeOutNever(k) == FALSE /\ UNCHANGED vars /\ k \in Calls

\* wait_for may time out although the future was just resolved.
TimeOut(k) ==
    /\ call[k] = "waiting"
    /\ End(k, "Timeout")
    /\ pending' = pending \ {k}
    /\ UNCHANGED <<connVars, fut, via, lock, sends, agentVars>>

Return(k) ==
    /\ call[k] = "waiting" /\ fut[k] # "none"
    /\ End(k, fut[k])
    /\ UNCHANGED <<connVars, futVars, via, lock, sends, agentVars>>

\* The caller of call() is cancelled: no except clause runs, the entry in
\* _pending stays.  What was being written is in the socket's buffer.
Cancel(k) ==
    /\ InProgress(k)
    /\ End(k, "Cancelled")
    /\ IF call[k] = "waiting"
       THEN UNCHANGED lock
       ELSE \E i \in 1..Len(lock) : lock[i] = k /\ lock' = RemoveAt(lock, i)
    /\ IF call[k] = "sending" THEN Written(k)
                              ELSE UNCHANGED <<sends, frames>>
    /\ via' = [via EXCEPT ![k] = 0]
    /\ UNCHANGED <<connVars, futVars, late, answers, ran>>

CallStep(k) ==
    \/ Refuse(k) \/ Begin(k) \/ AcquireLock(k) \/ SendOk(k) \/ SendFails(k)
    \/ TimeOut(k) \/ Return(k) \/ Cancel(k)

-----------------------------------------------------------------------------
(* The reader task of link g, and what it does to the pending calls.       *)

\* Mutant: responses are matched with the pending calls by order.
ReceiveInOrder(g) ==
    \E k \in Calls, o \in Responses :
        /\ g \in readers \ cancelled /\ <<k, g, o>> \in answers
        /\ answers' = answers \ {<<k, g, o>>}
        /\ \E j \in pending :
              /\ pending' = pending \ {j}
              /\ fut' = [fut EXCEPT ![j] = o]
        /\ UNCHANGED <<connVars, callVars, frames, late, ran>>

\* _dispatch: a response nobody waits for any more is dropped.
Receive(g) ==
    \E k \in Calls, o \in Responses :
        /\ g \in readers \ cancelled /\ <<k, g, o>> \in answers
        /\ answers' = answers \ {<<k, g, o>>}
        /\ pending' = pending \ {k}
        /\ fut' = IF k \in pending /\ fut[k] = "none"
                  THEN [fut EXCEPT ![k] = o] ELSE fut
        /\ UNCHANGED <<connVars, callVars, frames, late, ran>>

FailAllPending ==
    /\ fut' = [k \in Calls |-> IF k \in pending /\ fut[k] = "none"
                               THEN "AgentDisconnected" ELSE fut[k]]
    /\ pending' = {}

\* Mutant: the calls in flight are forgotten.
ReaderEndsSilently(g) ==
    /\ g \in readers /\ (g \notin up \/ g \in cancelled \/ g \in closed)
    /\ readers' = readers \ {g} /\ transport' = 0
    /\ sleeping' = IF running THEN sleeping + 1 ELSE sleeping
    /\ UNCHANGED <<flagVars, netVars, cancelled, connecting, crashed, callVars,
                   futVars, agentVars>>

\* _on_disconnect, when the stream ends or the reader is cancelled.
Disconnect(g) ==
    /\ readers' = readers \ {g} /\ transport' = 0
    /\ FailAllPending
    /\ sleeping' = IF running THEN sleeping + 1 ELSE sleeping
    /\ UNCHANGED <<flagVars, netVars, cancelled, connecting, crashed, callVars,
                   agentVars>>

\* Mutant: only start() connects.
ReaderEndsForGood(g) ==
    /\ g \in readers /\ (g \notin up \/ g \in cancelled \/ g \in closed)
    /\ readers' = readers \ {g} /\ transport' = 0
    /\ FailAllPending
    /\ UNCHANGED <<flagVars, netVars, cancelled, loopVars, callVars, agentVars>>

ReaderEnds(g) ==
    /\ g \in readers /\ (g \notin up \/ g \in cancelled \/ g \in closed)
    /\ Disconnect(g)

\* A frame that is not JSON, or too long, ends decode_stream although the link
\* works: nobody closes the stream, and the agent goes on serving it.
BadFrame(g) ==
    /\ g \in readers \ cancelled /\ g \in up
    /\ Disconnect(g)

-----------------------------------------------------------------------------
(* start() and the reconnect loop.                                         *)

\* Mutant: a loop that is not asleep is woken.
WakeAnyway ==
    /\ sleeping' = sleeping - 1 /\ connecting' = connecting + 1
    /\ UNCHANGED <<flagVars, netVars, readVars, crashed, callVars, futVars,
                   agentVars>>

\* After the sleep the loop connects without looking at _running again.
Wake ==
    /\ sleeping > 0
    /\ sleeping' = sleeping - 1 /\ connecting' = connecting + 1
    /\ UNCHANGED <<flagVars, netVars, readVars, crashed, callVars, futVars,
                   agentVars>>

ConnectOk ==
    /\ connecting > 0 /\ agentUp /\ last < MaxLinks
    /\ connecting' = connecting - 1 /\ started' = TRUE
    /\ last' = last + 1 /\ transport' = last + 1
    /\ up' = up \cup {last + 1} /\ readers' = readers \cup {last + 1}
    /\ UNCHANGED <<running, stopping, cancelled, agentUp, closed, sleeping,
                   crashed, callVars, futVars, agentVars>>

\* Mutant: start() and the loop do not try again.
ConnectFailsForGood ==
    /\ connecting > 0 /\ ~agentUp
    /\ connecting' = connecting - 1 /\ started' = TRUE
    /\ UNCHANGED <<netVars, readVars, running, stopping, sleeping, crashed,
                   callVars, futVars, agentVars>>

\* TransportError: refused, no hello within 5 s, or the wrong token.
ConnectFails ==
    /\ connecting > 0 /\ ~agentUp
    /\ connecting' = connecting - 1 /\ started' = TRUE
    /\ sleeping' = IF running /\ ~IsConnected THEN sleeping + 1 ELSE sleeping
    /\ UNCHANGED <<netVars, readVars, running, stopping, crashed, callVars,
                   futVars, agentVars>>

\* The link is reset between the hello and the ack: send raises an error that
\* is no TransportError, and the loop's task dies of it; out of start() it ends
\* the server, which serves no call then.
ConnectCrashes ==
    /\ connecting > 0 /\ ~agentUp
    /\ connecting' = connecting - 1 /\ crashed' = TRUE
    /\ UNCHANGED <<flagVars, netVars, readVars, sleeping, callVars, futVars,
                   agentVars>>

-----------------------------------------------------------------------------
(* stop(): up to the await of close(), and after it.                       *)

Stop ==
    /\ started /\ running
    /\ running' = FALSE
    /\ cancelled' = cancelled \cup {g \in readers : g = last}
    /\ FailAllPending
    /\ stopping' = transport
    /\ UNCHANGED <<netVars, loopVars, started, transport, readers, callVars,
                   agentVars>>

CloseDone ==
    /\ stopping # 0
    /\ closed' = closed \cup {stopping} /\ up' = up \ {stopping}
    /\ stopping' = 0
    /\ UNCHANGED <<readVars, loopVars, started, running, agentUp, last,
                   callVars, futVars, agentVars>>

-----------------------------------------------------------------------------
(* The agent and the network.                                              *)

\* The bridge stops, or Allplan ends: every link goes down with it.
AgentGoes ==
    /\ agentUp
    /\ agentUp' = FALSE /\ up' = {}
    /\ UNCHANGED <<flagVars, readVars, loopVars, last, closed, callVars,
                   futVars, agentVars>>

AgentComes ==
    /\ ~agentUp
    /\ agentUp' = TRUE
    /\ UNCHANGED <<flagVars, readVars, loopVars, up, last, closed, callVars,
                   futVars, agentVars>>

\* A frame is read even when its link is gone, and answered when it is not.
Answer(k, g, o) ==
    /\ <<k, g>> \in frames
    /\ frames' = frames \ {<<k, g>>}
    /\ answers' = IF g \in up THEN answers \cup {<<k, g, o>>} ELSE answers
    /\ UNCHANGED <<connVars, callVars, futVars>>

AgentRuns(k, g) ==
    /\ Answer(k, g, "result")
    /\ ran' = [ran EXCEPT ![k] = @ + 1]
    /\ late' = late

\* The queue is full; the client gets the code Internal.
AgentRejects(k, g) == Answer(k, g, "QueueFull") /\ UNCHANGED <<late, ran>>

\* pump_once found the command expired, which is then never run, or the
\* handler thread waited long enough.
AgentGivesUp(k, g) ==
    /\ Answer(k, g, "Timeout")
    /\ late' = late \cup {k}
    /\ ran' = ran

\* The command was in a batch, or already running, when the thread gave up.
AgentRunsLate(k) ==
    /\ k \in late
    /\ late' = late \ {k}
    /\ ran' = [ran EXCEPT ![k] = @ + 1]
    /\ UNCHANGED <<connVars, callVars, futVars, frames, answers>>

-----------------------------------------------------------------------------
ReaderStep(g) == Receive(g) \/ ReaderEnds(g) \/ BadFrame(g)
LoopStep == Wake \/ ConnectOk \/ ConnectFails \/ ConnectCrashes
AgentStep ==
    \/ AgentGoes \/ AgentComes
    \/ \E k \in Calls, g \in Links :
          AgentRuns(k, g) \/ AgentRejects(k, g) \/ AgentGivesUp(k, g)
    \/ \E k \in Calls : AgentRunsLate(k)

Next ==
    \/ \E k \in Calls : CallStep(k)
    \/ \E g \in Links : ReaderStep(g)
    \/ LoopStep
    \/ Stop \/ CloseDone
    \/ AgentStep

Spec == Init /\ [][Next]_vars

\* The event loop runs what is ready: a free lock is taken, a send on a broken
\* link raises, a timer fires.  A send on a link that works need not end: it has
\* no timeout, and the agent may not read.
CallFairness(k) ==
    WF_vars(AcquireLock(k) \/ SendFails(k) \/ TimeOut(k) \/ Return(k))

\* An ended stream is seen, a sleep is over, an attempt to connect ends in one
\* way or another, close() returns.  Calls need not be made or be cancelled,
\* frames need not be run or answered, and the agent need never come up.
Fairness ==
    /\ \A k \in Calls : CallFairness(k)
    /\ WF_vars(\E g \in Links : ReaderEnds(g))
    /\ WF_vars(LoopStep) /\ WF_vars(CloseDone)

FairSpec == Spec /\ Fairness

-----------------------------------------------------------------------------
Outcomes ==
    Responses \cup {"none", "AgentDisconnected", "InvalidArgs", "Cancelled"}

TypeOK ==
    /\ started \in BOOLEAN /\ running \in BOOLEAN
    /\ agentUp \in BOOLEAN /\ crashed \in BOOLEAN
    /\ transport \in 0..MaxLinks /\ last \in 0..MaxLinks
    /\ stopping \in 0..MaxLinks
    /\ closed \subseteq Links /\ up \subseteq Links
    /\ readers \subseteq Links /\ cancelled \subseteq Links
    /\ sleeping \in Nat /\ connecting \in Nat
    /\ call \in [Calls -> {"idle", "lock", "sending", "waiting", "done"}]
    /\ via \in [Calls -> 0..MaxLinks]
    /\ lock \in Seq(Calls)
    /\ pending \subseteq Calls
    /\ fut \in [Calls -> Responses \cup {"none", "AgentDisconnected"}]
    /\ outcome \in [Calls -> Outcomes]
    /\ frames \subseteq Calls \X Links /\ late \subseteq Calls
    /\ answers \subseteq Calls \X Links \X Responses
    /\ sends \in [Calls -> Nat] /\ ran \in [Calls -> Nat]

\* There is one connection or one task making one, never two of either: no
\* disconnect, stop or restart starts a second reader or reconnect loop.
OneConnection ==
    Cardinality(readers) + sleeping + connecting <= 1

\* While a call waits, whoever will wake it is there: its entry is in _pending,
\* and a reader that will resolve it or fail it is running.
NobodyStranded ==
    /\ \A k \in Calls :
          call[k] = "waiting" => k \in pending \/ fut[k] # "none"
    /\ pending # {} => readers # {}

\* _pending holds no entry of a call that returned; only those of cancelled
\* calls stay until the connection ends.
NoLeftovers ==
    \A k \in pending : InProgress(k) \/ outcome[k] = "Cancelled"

\* A frame is written at most once, on whatever connection there is when the
\* lock is free, so that reconnecting never repeats a command.
SentAtMostOnce == \A k \in Calls : sends[k] <= 1 /\ ran[k] <= 1

\* A response is given to the call it answers: a call that returns a result was
\* run, and one that was told the queue is full was not and never will be.
ResponsesAreReal ==
    \A k \in Calls :
        /\ outcome[k] = "result" => ran[k] = 1
        /\ outcome[k] = "QueueFull" =>
              /\ ran[k] = 0 /\ k \notin late
              /\ \A g \in Links : <<k, g>> \notin frames

Service == INSTANCE CallService WITH sent <- sends, told <- outcome

\* The client with its connections, its lock and its futures does for every
\* call() what CallService says, and nothing else.
ImplementsCalls == Service!Spec

\* A client that is not connected is trying to be, unless the exception that
\* _connect_once lets through has ended its task.
TryingUnlessCrashed ==
    running /\ transport = 0 /\ ~crashed => sleeping + connecting > 0

\* client.py:53: "Auto-reconnects with exponential backoff".
AlwaysReconnecting ==
    started /\ running /\ transport = 0 => sleeping + connecting > 0

\* Every send ends, or its link breaks.  The code does not bound it.
SendsEnd == \A k \in Calls : []<>(call[k] # "sending" \/ via[k] \notin up)

\* A call() that was sent does not wait for ever, whatever happens to links and
\* agent; and no call is in progress for ever, the lock handed on to the last in
\* line, if no send blocks for ever on a link that works.
EveryCallEnds ==
    /\ \A k \in Calls : []<>(call[k] # "waiting")
    /\ SendsEnd => \A k \in Calls : []<>~InProgress(k)

\* However often its connection is lost, a client that is not connected tries
\* again and again, and while the agent is up for good and connections are left
\* to be made it gets connected again, unless it was stopped or its loop died.
Reconnects ==
    /\ []<>(IsConnected \/ connecting > 0 \/ ~running \/ crashed)
    /\ <>[]agentUp =>
          []<>(IsConnected \/ ~running \/ crashed \/ last = MaxLinks)
=============================================================================
