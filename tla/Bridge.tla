------------------------------- MODULE Bridge -------------------------------
(***************************************************************************)
(* The life of the bridge inside Allplan (AllplanMcpBridge.py): bridges    *)
(* are started and stopped on the main thread while listener threads,      *)
(* handler threads, background pumps and MCP servers go on.                *)
(*                                                                         *)
(* Bridges are numbered in the order start_bridge makes them; a bridge     *)
(* stands for its queue, its listener, its token, its timer and its pump.  *)
(* 0 stands for None.  A link is a TCP connection; once it is closed and   *)
(* nobody refers to it, its name serves for another one.                   *)
(* What happens to a command between queue and response is in Agent.       *)
(***************************************************************************)
EXTENDS Naturals, FiniteSets

CONSTANTS
    Clients,    \* MCP server processes
    Requests,   \* request frames, each sent at most once
    Links,      \* bound: connections there are at a time
    NoLink,     \* None
    MaxStarts   \* bound: how many bridges are made in all

ASSUME StartsAssumption == MaxStarts \in Nat \ {0}
ASSUME LinksAssumption == NoLink \notin Links

Bridges == 1..MaxStarts

VARIABLES
    main,      \* where the main thread is: idle, or inside start or stop
    started,   \* _started
    cur,       \* the bridge of _queue and _listener
    made,      \* bridges made so far
    token,     \* the bridge whose token is in the token file
    timer,     \* the bridge whose queue the QTimer pumps
    listener,  \* listener[b]: where the TcpListenerThread of b is
    held,      \* held[b]: the link accept() returned and nobody tracks yet
    bound,     \* bridges whose listening socket is open
    stopEvent, \* bridges whose _stop_event is set
    notify,    \* bridges whose queue has a notify_fn
    posted,    \* bridges with a QTimer.singleShot call to come
    bg,        \* bg[b]: where the background pump of b is
    link,      \* link[l]: its state
    to,        \* to[l]: the bridge it was made to, 0 when it is closed
    tracked,   \* links in some _active_conns
    client,    \* client[k]: where the client is
    mine,      \* mine[k]: the link of the client
    secret,    \* secret[k]: the token the client read last
    req,       \* req[r]: how far the request is
    at         \* at[r]: the bridge whose handler thread read it

mainVars == <<main, started, cur, made, token, timer>>
threadVars == <<listener, held, bound, stopEvent, notify, bg>>
linkVars == <<link, to, tracked>>
clientVars == <<client, mine, secret>>
reqVars == <<req, at, posted>>
vars == <<mainVars, threadVars, linkVars, clientVars, reqVars>>

Init ==
    /\ main = "idle" /\ started = FALSE
    /\ cur = 0 /\ made = 0 /\ token = 0 /\ timer = 0
    /\ listener = [b \in Bridges |-> "none"]
    /\ held = [b \in Bridges |-> NoLink]
    /\ bound = {} /\ stopEvent = {} /\ notify = {} /\ posted = {}
    /\ bg = [b \in Bridges |-> "none"]
    /\ link = [l \in Links |-> "closed"]
    /\ to = [l \in Links |-> 0]
    /\ tracked = {}
    /\ client = [k \in Clients |-> "down"]
    /\ mine = [k \in Clients |-> NoLink]
    /\ secret = [k \in Clients |-> 0]
    /\ req = [r \in Requests |-> "new"]
    /\ at = [r \in Requests |-> 0]

-----------------------------------------------------------------------------
Close(S) ==
    /\ link' = [l \in Links |-> IF l \in S THEN "closed" ELSE link[l]]
    /\ to' = [l \in Links |-> IF l \in S THEN 0 ELSE to[l]]

(* start_bridge, on the main thread.                                       *)

\* A bridge that is started already is left alone.
MakeQueue ==
    /\ main = "idle" /\ ~started /\ made < MaxStarts
    /\ made' = made + 1 /\ cur' = made + 1
    /\ main' = "made"
    /\ UNCHANGED <<started, token, timer, threadVars, linkVars, clientVars,
                   reqVars>>

WriteToken ==
    /\ main = "made"
    /\ token' = cur
    /\ main' = "written"
    /\ UNCHANGED <<started, cur, made, timer, threadVars, linkVars, clientVars,
                   reqVars>>

\* The token file cannot be written: _queue keeps the queue nobody serves.
StartFails ==
    /\ main = "made"
    /\ main' = "idle"
    /\ UNCHANGED <<started, cur, made, token, timer, threadVars, linkVars,
                   clientVars, reqVars>>

\* Mutant: the listener is started before the token is written.
StartListenerFirst ==
    /\ main = "made" /\ listener[cur] = "none"
    /\ listener' = [listener EXCEPT ![cur] = "binding"]
    /\ UNCHANGED <<mainVars, held, bound, stopEvent, notify, bg, linkVars,
                   clientVars, reqVars>>

StartListener ==
    /\ main = "written"
    /\ listener' = [listener EXCEPT ![cur] = "binding"]
    /\ main' = "listening"
    /\ UNCHANGED <<started, cur, made, token, timer, held, bound, stopEvent,
                   notify, bg, linkVars, clientVars, reqVars>>

\* Without Qt there is neither a timer nor a notify_fn.
WireQt ==
    /\ main = "listening"
    /\ \/ timer' = cur /\ notify' = notify \cup {cur}
       \/ UNCHANGED <<timer, notify>>
    /\ main' = "wired"
    /\ UNCHANGED <<started, cur, made, token, listener, held, bound, stopEvent,
                   bg, linkVars, clientVars, reqVars>>

\* Mutant: _started is set after the background pump was started.
MarkStartedLast ==
    /\ \/ main = "wired" /\ main' = "marked" /\ UNCHANGED started
       \/ /\ main = "idle" /\ cur # 0 /\ bg[cur] # "none"
          /\ started' = TRUE /\ UNCHANGED main
    /\ UNCHANGED <<cur, made, token, timer, threadVars, linkVars, clientVars,
                   reqVars>>

MarkStarted ==
    /\ main = "wired"
    /\ started' = TRUE
    /\ main' = "marked"
    /\ UNCHANGED <<cur, made, token, timer, threadVars, linkVars, clientVars,
                   reqVars>>

StartPump ==
    /\ main = "marked"
    /\ bg' = [bg EXCEPT ![cur] = "checking"]
    /\ main' = "idle"
    /\ UNCHANGED <<started, cur, made, token, timer, listener, held, bound,
                   stopEvent, notify, linkVars, clientVars, reqVars>>

-----------------------------------------------------------------------------
(* stop_bridge, on the main thread.                                        *)

StopTimer ==
    /\ main = "idle" /\ started
    /\ timer' = 0
    /\ main' = "stopping"
    /\ UNCHANGED <<started, cur, made, token, threadVars, linkVars, clientVars,
                   reqVars>>

SetStopEvent ==
    /\ main = "stopping"
    /\ stopEvent' = stopEvent \cup {cur}
    /\ main' = "signalled"
    /\ UNCHANGED <<started, cur, made, token, timer, listener, held, bound,
                   notify, bg, linkVars, clientVars, reqVars>>

\* Closing a listening socket resets the connections nobody accepted.
Backlog(b) == {l \in Links : link[l] = "backlog" /\ to[l] = b}

CloseServer ==
    /\ main = "signalled"
    /\ bound' = bound \ {cur}
    /\ Close(Backlog(cur))
    /\ main' = "unbound"
    /\ UNCHANGED <<started, cur, made, token, timer, listener, held, stopEvent,
                   notify, bg, tracked, clientVars, reqVars>>

TrackedBy(b) == {l \in tracked : to[l] = b}

\* Mutant: _active_conns is cleared and nothing is closed.
ForgetLinks ==
    /\ main = "unbound"
    /\ tracked' = tracked \ TrackedBy(cur)
    /\ main' = "closed"
    /\ UNCHANGED <<started, cur, made, token, timer, threadVars, link, to,
                   clientVars, reqVars>>

\* Under _conns_lock, so in one step.
CloseLinks ==
    /\ main = "unbound"
    /\ Close(TrackedBy(cur))
    /\ tracked' = tracked \ TrackedBy(cur)
    /\ main' = "closed"
    /\ UNCHANGED <<started, cur, made, token, timer, threadVars, clientVars,
                   reqVars>>

\* The queue is dropped with the commands in it.
ForgetBridge ==
    /\ main = "closed"
    /\ cur' = 0 /\ started' = FALSE
    /\ main' = "idle"
    /\ UNCHANGED <<made, token, timer, threadVars, linkVars, clientVars,
                   reqVars>>

-----------------------------------------------------------------------------
(* The TcpListenerThread of bridge b.                                      *)

\* A stop() that came before _server was assigned has not closed the socket.
Bind(b) ==
    /\ listener[b] = "binding"
    /\ listener' = [listener EXCEPT ![b] = "checking"]
    /\ bound' = bound \cup {b}
    /\ UNCHANGED <<mainVars, held, stopEvent, notify, bg, linkVars, clientVars,
                   reqVars>>

\* The port is taken: the thread dies of the exception, nobody is told.
BindFails(b) ==
    /\ listener[b] = "binding"
    /\ listener' = [listener EXCEPT ![b] = "ended"]
    /\ UNCHANGED <<mainVars, held, bound, stopEvent, notify, bg, linkVars,
                   clientVars, reqVars>>

CheckStop(b) ==
    /\ listener[b] = "checking" /\ b \notin stopEvent
    /\ listener' = [listener EXCEPT ![b] = "accepting"]
    /\ UNCHANGED <<mainVars, held, bound, stopEvent, notify, bg, linkVars,
                   clientVars, reqVars>>

\* A thread inside accept() may still return a link after the event is set.
Accept(b, l) ==
    /\ listener[b] = "accepting" /\ b \in bound
    /\ l \in Backlog(b)
    /\ listener' = [listener EXCEPT ![b] = "accepted"]
    /\ held' = [held EXCEPT ![b] = l]
    /\ link' = [link EXCEPT ![l] = "accepted"]
    /\ UNCHANGED <<mainVars, bound, stopEvent, notify, bg, to, tracked,
                   clientVars, reqVars>>

\* Mutant: the `continue` after accept() timed out is missing.
TrackAfterTimeout(b) ==
    /\ listener[b] \in {"accepting", "accepted"}
    /\ listener' = [listener EXCEPT ![b] = "checking"]
    /\ held' = [held EXCEPT ![b] = NoLink]
    /\ link' = [l \in Links |-> IF l = held[b] THEN "open" ELSE link[l]]
    /\ tracked' = tracked \cup {held[b]}
    /\ UNCHANGED <<mainVars, bound, stopEvent, notify, bg, to, clientVars,
                   reqVars>>

\* The handler thread of the link starts with the hello.  A client that is
\* gone is noticed by its first recv.
Track(b) ==
    /\ listener[b] = "accepted"
    /\ listener' = [listener EXCEPT ![b] = "checking"]
    /\ held' = [held EXCEPT ![b] = NoLink]
    /\ IF link[held[b]] = "accepted"
       THEN /\ link' = [link EXCEPT ![held[b]] = "open"]
            /\ tracked' = tracked \cup {held[b]}
       ELSE UNCHANGED <<link, tracked>>
    /\ UNCHANGED <<mainVars, bound, stopEvent, notify, bg, to, clientVars,
                   reqVars>>

EndListener(b) ==
    /\ listener' = [listener EXCEPT ![b] = "ended"]
    /\ bound' = bound \ {b}
    /\ Close(Backlog(b))
    /\ UNCHANGED <<mainVars, held, stopEvent, notify, bg, tracked,
                   clientVars, reqVars>>

\* The loop condition is false, or accept() raises or times out.
ListenerEnds(b) ==
    /\ listener[b] \in {"checking", "accepting"} /\ b \in stopEvent
    /\ EndListener(b)

\* accept() raises in a bridge that goes on, say for want of descriptors: the
\* thread closes its socket and ends, and nobody is told.
ListenerBreaks(b) ==
    /\ listener[b] = "accepting" /\ b \notin stopEvent
    /\ EndListener(b)

-----------------------------------------------------------------------------
(* Commands: the handler thread of a link, and whoever pumps a queue.      *)

\* The client writes a frame and the handler thread reads it; a frame that is
\* lost with its link changes nothing here.
Send(k, r) ==
    /\ client[k] = "up" /\ link[mine[k]] = "open" /\ req[r] = "new"
    /\ req' = [req EXCEPT ![r] = "read"]
    /\ at' = [at EXCEPT ![r] = to[mine[k]]]
    /\ UNCHANGED <<mainVars, threadVars, linkVars, clientVars, posted>>

\* Although its link may have been closed, and its bridge stopped, meanwhile.
Enqueue(r) ==
    /\ req[r] = "read"
    /\ req' = [req EXCEPT ![r] = "queued"]
    /\ posted' = posted \cup ({at[r]} \cap notify)
    /\ UNCHANGED <<mainVars, threadVars, linkVars, clientVars, at>>

\* pump_once on the queue of b, in one step.
Pump(b) ==
    req' = [r \in Requests |-> IF req[r] = "queued" /\ at[r] = b
                               THEN "run" ELSE req[r]]

\* The timer, a posted call, or a mouse or preview callback; a posted call
\* pumps its queue even when the bridge was stopped before it came.
MainPumps(b) ==
    /\ main = "idle" /\ (timer = b \/ cur = b \/ b \in posted)
    /\ Pump(b)
    /\ posted' = posted \ {b}
    /\ UNCHANGED <<mainVars, threadVars, linkVars, clientVars, at>>

\* Mutant: the background pump leaves the queue to the QTimer when there is one.
PumpChecksTimer(b) ==
    /\ bg[b] = "checking"
    /\ bg' = [bg EXCEPT ![b] = IF started /\ timer # b THEN "pumping"
                                                     ELSE "ended"]
    /\ UNCHANGED <<mainVars, listener, held, bound, stopEvent, notify,
                   linkVars, clientVars, reqVars>>

\* _started is a global of the module: the pump of a stopped bridge goes on
\* when another one was started within its 200 ms of sleep.
PumpChecks(b) ==
    /\ bg[b] = "checking"
    /\ bg' = [bg EXCEPT ![b] = IF started THEN "pumping" ELSE "ended"]
    /\ UNCHANGED <<mainVars, listener, held, bound, stopEvent, notify,
                   linkVars, clientVars, reqVars>>

PumpRuns(b) ==
    /\ bg[b] = "pumping"
    /\ Pump(b)
    /\ bg' = [bg EXCEPT ![b] = "checking"]
    /\ UNCHANGED <<mainVars, listener, held, bound, stopEvent, notify,
                   linkVars, clientVars, at, posted>>

-----------------------------------------------------------------------------
(* The MCP servers, as far as the bridge sees them (see IpcClient).        *)

\* Mutant: the token is read once, when the server starts.
ReadTokenOnce(k) ==
    /\ client[k] = "down"
    /\ client' = [client EXCEPT ![k] = "connecting"]
    /\ secret' = [secret EXCEPT ![k] = IF @ = 0 THEN token ELSE @]
    /\ UNCHANGED <<mainVars, threadVars, linkVars, mine, reqVars>>

\* _tcp_factory, before every attempt.
ReadToken(k) ==
    /\ client[k] = "down"
    /\ client' = [client EXCEPT ![k] = "connecting"]
    /\ secret' = [secret EXCEPT ![k] = token]
    /\ UNCHANGED <<mainVars, threadVars, linkVars, mine, reqVars>>

FreeLinks ==
    {l \in Links : /\ link[l] = "closed"
                   /\ \A k \in Clients : mine[k] # l
                   /\ \A b \in Bridges : held[b] # l}

Connect(k, b) ==
    /\ client[k] = "connecting" /\ b \in bound
    /\ \E l \in FreeLinks :
          /\ link' = [link EXCEPT ![l] = "backlog"]
          /\ to' = [to EXCEPT ![l] = b]
          /\ mine' = [mine EXCEPT ![k] = l]
    /\ client' = [client EXCEPT ![k] = "greeting"]
    /\ UNCHANGED <<mainVars, threadVars, tracked, secret, reqVars>>

ConnectRefused(k) ==
    /\ client[k] = "connecting" /\ bound = {}
    /\ client' = [client EXCEPT ![k] = "down"]
    /\ UNCHANGED <<mainVars, threadVars, linkVars, mine, secret, reqVars>>

\* The handler thread reads the end of the stream and stops being tracked.
DropAnd(k, next) ==
    /\ client' = [client EXCEPT ![k] = next]
    /\ mine' = [mine EXCEPT ![k] = NoLink]
    /\ Close({mine[k]})
    /\ tracked' = tracked \ {mine[k]}
    /\ UNCHANGED <<mainVars, threadVars, secret, reqVars>>

Drop(k) == DropAnd(k, "down")

GoOn(k, next) ==
    /\ client' = [client EXCEPT ![k] = next]
    /\ UNCHANGED <<mainVars, threadVars, linkVars, mine, secret, reqVars>>

Hello(k) ==
    /\ client[k] = "greeting" /\ link[mine[k]] = "open"
    /\ IF secret[k] = to[mine[k]] THEN GoOn(k, "acking") ELSE Drop(k)

NoHello(k) ==
    /\ client[k] = "greeting" /\ link[mine[k]] = "closed"
    /\ Drop(k)

\* No hello within 5 s.
HelloTimesOut(k) ==
    /\ client[k] = "greeting" /\ link[mine[k]] \in {"backlog", "accepted"}
    /\ Drop(k)

\* What is sent on a link that was just closed may still be taken for sent.
Ack(k) == client[k] = "acking" /\ GoOn(k, "up")

\* The bridge was stopped between hello and ack: the error of the send is no
\* TransportError and ends the reconnect loop for good.
AckFails(k) ==
    /\ client[k] = "acking" /\ link[mine[k]] = "closed"
    /\ DropAnd(k, "crashed")

\* The reader task sees the end of the stream.
Disconnected(k) ==
    /\ client[k] = "up" /\ link[mine[k]] = "closed"
    /\ Drop(k)

HangUp(k) == client[k] = "up" /\ link[mine[k]] = "open" /\ Drop(k)

-----------------------------------------------------------------------------
StartStep ==
    \/ MakeQueue \/ WriteToken \/ StartFails \/ StartListener \/ WireQt
    \/ MarkStarted \/ StartPump

StopStep ==
    StopTimer \/ SetStopEvent \/ CloseServer \/ CloseLinks \/ ForgetBridge

ListenerStep(b) ==
    \/ Bind(b) \/ BindFails(b) \/ CheckStop(b) \/ Track(b)
    \/ ListenerEnds(b) \/ ListenerBreaks(b)
    \/ \E l \in Links : Accept(b, l)

BgStep(b) == PumpChecks(b) \/ PumpRuns(b)

ClientStep(k) ==
    \/ ReadToken(k) \/ ConnectRefused(k) \/ \E b \in Bridges : Connect(k, b)
    \/ Hello(k) \/ NoHello(k) \/ Ack(k) \/ AckFails(k) \/ Disconnected(k)

Next ==
    \/ StartStep \/ StopStep
    \/ \E b \in Bridges : ListenerStep(b) \/ BgStep(b) \/ MainPumps(b)
    \/ \E r \in Requests : Enqueue(r)
    \/ \E k \in Clients :
          \/ ClientStep(k) \/ HelloTimesOut(k) \/ HangUp(k)
          \/ \E r \in Requests : Send(k, r)

Spec == Init /\ [][Next]_vars

\* Threads and clients are scheduled.  The main thread need not start, stop or
\* pump anything, and clients need not send or hang up.
Fairness ==
    /\ \A b \in Bridges :
          /\ WF_vars(Bind(b)) /\ WF_vars(CheckStop(b)) /\ WF_vars(Track(b))
          /\ WF_vars(\E l \in Links : Accept(b, l))
          /\ WF_vars(ListenerEnds(b))
          /\ WF_vars(BgStep(b))
    /\ \A r \in Requests : WF_vars(Enqueue(r))
    /\ \A k \in Clients : WF_vars(ClientStep(k))

FairSpec == Spec /\ Fairness

-----------------------------------------------------------------------------
TypeOK ==
    /\ main \in {"idle", "made", "written", "listening", "wired", "marked",
                 "stopping", "signalled", "unbound", "closed"}
    /\ started \in BOOLEAN
    /\ cur \in 0..MaxStarts /\ made \in 0..MaxStarts
    /\ token \in 0..MaxStarts /\ timer \in 0..MaxStarts
    /\ listener \in [Bridges -> {"none", "binding", "checking", "accepting",
                                 "accepted", "ended"}]
    /\ held \in [Bridges -> Links \cup {NoLink}]
    /\ bound \subseteq Bridges /\ stopEvent \subseteq Bridges
    /\ notify \subseteq Bridges /\ posted \subseteq Bridges
    /\ bg \in [Bridges -> {"none", "checking", "pumping", "ended"}]
    /\ link \in [Links -> {"closed", "backlog", "accepted", "open"}]
    /\ to \in [Links -> 0..MaxStarts]
    /\ tracked \subseteq Links
    /\ client \in [Clients -> {"down", "connecting", "greeting", "acking", "up",
                              "crashed"}]
    /\ mine \in [Clients -> Links \cup {NoLink}]
    /\ secret \in [Clients -> 0..MaxStarts]
    /\ req \in [Requests -> {"new", "read", "queued", "run"}]
    /\ at \in [Requests -> 0..MaxStarts]

\* stop_bridge is through with the links of b.
Stopped(b) == b \in stopEvent /\ ~(cur = b /\ main \in {"signalled", "unbound"})

\* A listener that may go on accepting is the one of the current bridge, and
\* the token in the file is its own, however starts, stops and the steps of the
\* listener threads interleave.
OneFreshListener ==
    \A b \in bound :
        b \notin stopEvent => b = cur /\ token = b

\* When no start or stop is going on, the queue of a started bridge has a
\* background pump: no restart, however quick, leaves it without one.
QueueHasAPump ==
    started /\ main = "idle" => bg[cur] \in {"checking", "pumping"}

\* Of the connections of a stopped bridge at most the one its listener had in
\* its hands when stop_bridge closed the others goes on.
AtMostOneLinkSurvives ==
    \A b \in Bridges :
        Stopped(b) => Cardinality({l \in Links : to[l] = b /\
                                   link[l] \in {"accepted", "open"}}) <= 1

\* A command in the queue of a bridge that is not stopped is run.
QueuedIsRun ==
    \A r \in Requests :
        (req[r] = "queued" /\ at[r] = cur /\ started /\ main = "idle")
            ~> (req[r] = "run" \/ at[r] \in stopEvent)

Surviving(l) == link[l] = "open" /\ Stopped(to[l])

\* When a bridge is up for good and sends its hello in time, every client gets
\* connected to it, again and again, unless its link survived a stop or its
\* reconnect loop died of a stop between hello and ack.
ClientsComeBack ==
    \A k \in Clients :
        (<>[](cur \in bound) /\ <>[][~HelloTimesOut(k)]_vars) =>
            []<>(\/ client[k] = "up" /\ to[mine[k]] = cur
                 \/ mine[k] # NoLink /\ Surviving(mine[k])
                 \/ client[k] = "crashed")
=============================================================================
