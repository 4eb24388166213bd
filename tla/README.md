# allplan-mcp-bridge in TLA+

allplan-mcp-bridge lets an MCP client drive the CAD program Allplan. Two
processes take part. The **MCP server** (`src/src/allplan_mcp_server`) runs an
asyncio event loop, offers tools and turns each into a command. The **agent**
(`src/src/allplan_agent`) runs inside Allplan: threads read commands from TCP
connections into a bounded queue, and other threads (Allplan's main thread and
a background pump) take them out and run them against Allplan's Python API.

```
 MCP server process(es)                    Allplan process
 ----------------------                    --------------------------------------------
 tool -> IpcClient.call  == TCP, 127.0.0.1 ==> handler thread, one per connection
         reader task     <=================        | CommandQueue.enqueue  ^ fut.result
         reconnect loop                            v                       |
                                           CommandQueue  --- pump_once --> dispatch -> handler function
         token file  <--- start_bridge ---         |   (QTimer, notify_fn,     |  undo_bracket
                                                   |    mouse callback,        v  Allplan API
                                                   |    background pump)   _pending_specs
                                                   |                           | flush, on a mouse callback
                                             TcpListenerThread             BaseElements.CreateElements
```

Paths below are relative to `src/src/` unless they begin with `docs/`.

## Inventory

| Component | State | Operations | Module |
|---|---|---|---|
| Handler threads (`listener.py`, `_handle_connection`) | the request being served, its deadline | read a frame, enqueue or reject it, wait, answer or give up | `Agent` |
| `CommandQueue` (`command_queue.py`) | a bounded FIFO of commands with futures | `enqueue`, `drain` | `Agent` |
| Pumps (`main_loop.py`, `dispatcher.py`) | the drained batch, one clock reading | drain, expire, run a handler function, settle the future | `Agent` |
| `TcpListenerThread` (`listener.py`) | `_server`, `_active_conns`, `_stop_event` | bind, accept, track, stop | `Bridge` |
| Bridge lifecycle (`AllplanMcpBridge.py`) | `_started`, `_queue`, `_listener`, `_timer`, the token file | `start_bridge`, `stop_bridge`, background pump, callbacks that pump | `Bridge` |
| Pending elements (`handlers/_allplan.py`, `AllplanMcpBridge.py`) | `_pending_specs`, one list per load of the modules | `queue_spec`, `flush_pending_specs`, `_insert_pending` | `Insertion` |
| Interactors (`AllplanMcpBridge.py`) | `_coord_input`, which interactors live | `create_interactor`, `on_cancel_function` | `Insertion` |
| Builders of walls and columns (`handlers/geometry.py`), `offset_spec` (`element_cache.py`) | none | three ways of placing a box; shifting a spec | `Placement` |
| Undo bracket (`safety.py`, the handlers that change the document) | the open bracket | begin, commit, roll back | `Insertion` |
| `IpcClient` (`ipc/client.py`, `ipc/tcp.py`) | `_transport`, `_pending`, `_send_lock`, `_running`, reader, reconnect loop | `start`, `call`, `stop`, reading, reconnecting | `IpcClient`, `CallService` |
| Framing (`ipc/framing.py`, `_send_frame` and `_recv_frame` of `listener.py`) | the bytes received so far | write in pieces, receive in pieces, decode | `Framing`, `FrameChannel` |
| Grid tools, `grid_store.py`, `element_cache.py` (`tools/grid.py`, `tools/geometry.py`) | `grids.json`, shared by all server processes; `_cache` of each process | `define_grid`, `delete_grid`, `copy_to_grid_position`, `create_*`, `move_element`, `delete_element` | `GridTools` |
| `metrics.py` | a ring of latencies | record, percentiles | not modelled |
| Named pipe, `pythonpart_entry.py`, IFC handlers, models, configuration, scripts | | | not modelled, see below |

How they interact: `IpcClient.call` and a handler thread exchange frames; a
handler thread and the pumps share the queue and, per command, one future; the
main thread starts and stops listener threads and background pumps and never
joins them; the token file connects `start_bridge` with the transport factory of
the MCP server; handler functions on any pump thread and the mouse callback
share `_pending_specs`; the modules of the agent are purged from `sys.modules`
and loaded again by every start.

What is hard in it:

* **Two pumps, one queue, one future.** The main thread and the background pump
  drain concurrently, and the handler thread may stop waiting at any moment. A
  command must be run at most once and answered at most once, and what the
  answer says must be true.
* **Deadlines.** The pump looks at the clock once per batch, the handler thread
  waits one second longer than the deadline. Which commands may still run after
  their client was told `Timeout`?
* **Start and stop against threads nobody joins.** A stopped listener may be
  anywhere between `bind` and `_active_conns.append`; an old background pump
  wakes up after a new bridge was started and finds `_started` true.
* **Awaits.** What `call`, the reader, the reconnect loop and `stop` read before an
  await may be stale after it, and calls may be cancelled at any of them.
* **One file, several processes.** `grids.json` is loaded, changed and saved without a
  lock between processes, and saving empties the file first.
* **Work acknowledged before it is done.** Walls and columns are only queued when
  the client gets its answer; a mouse callback inserts them later.
* **Two writers on one socket.** The handler thread and the heartbeat thread of a
  connection call `sendall` without a lock; a frame larger than the send buffer can
  have the other thread's bytes in its middle.
* **Interactors that overlap.** Cancelling an interactor stops the bridge, whichever
  interactor started it.
* **Ways that must agree.** A box is placed in the first of three ways that does not
  raise; an element and its copies may meet different ones.
* **The main-thread law** of `docs/threading-model.md:5` and the background pump
  that runs handler functions off the main thread, where there is no undo bracket.

What makes each component correct is stated by the properties in the section on
the runs.

## Modules and how they correspond to the code

### Agent, RequestService

`Agent` is the request path. `Conns` are connections with one handler thread each;
`Requests` are frames, each written at most once; `Pumps` are the threads that
call `pump_once` (the main thread, whether through the QTimer, `notify_fn` or a
mouse callback, is one of them, the background pump another).

| Code | Model |
|---|---|
| the loop of `_handle_connection` | `hpc[c]`: `reading`, `read`, `waiting`, `ended`; actions `SkipFrame`, `ReadFrame`, `EndOfStream`, `Enqueue`, `RejectFull`, `AnswerResult`, `GiveUp` |
| `cmd.future` | `fut[r]`: `none`, `pending`, `dropped`, or how it was settled |
| `CommandQueue.enqueue`, `drain` | `Enqueue`/`RejectFull`, `Get` and `StopDraining` (one `get_nowait` each, so that two drains interleave) |
| `pump_once` after the drain | `ReadClock`, `Expire`, `StartHandler`, `FinishHandler` |
| `time.monotonic`, `fut.result(timeout=...)` | `age`, `waited` and `Tick` |

Time is a tick shared by all timers. Every timer counts from the event that
starts it and stops one tick after it can matter, so that the state space is
finite without a bound on time. A handler function ends `ok`, with a result
that cannot be encoded as JSON, with an error, or with its own timeout. The
first frame on a connection is the client's `{"ack": true}`, which the loop skips.

`RequestService` is the abstract specification of one request: it is refused, or
accepted and then expires unrun or is run once; one answer at most, and only
`Timeout` may come before the outcome. `Agent!ImplementsService` maps the threads
and the queue to it (`Stage`).

Left out: heartbeat frames and the bytes of frames (see `Framing`), and a nested event loop in a
handler function through which Qt would call `pump_once` again on the same
thread. Responses to a client that hung up are lost or fail. The loop also ends with
frames unread (a frame that is too long or not JSON, a `deadline_ms` that is no
number, a stop); `EndOfStream` comes after the frames, and what is never read is
never run.

### Framing, FrameChannel

One direction of a connection, byte by byte. A byte is the i-th of the encoding
of a frame; `out[w]` is what `sendall` of thread `w` still has to write, `wire`
what is on its way. `Header` is the length of a length prefix, 4 in the code. `Write` gives the socket as many bytes as fit, `Receive` is one
`recv` of the loops in `_receive_exactly` and `_recv_exactly`, `ReadLength` and
`ReadPayload` are what `decode_stream` and `_recv_frame` do with a whole header and a
whole text, and `Break` cuts the stream anywhere. A length made of bytes of two
frames may be any number, a text made of bytes of two frames is not JSON: no
JSON text holds the NUL bytes that every length begins with.

`FrameChannel` is the promise: what the reader yields is a prefix of what was sent,
whole frames in order, none twice, until it ends. It holds in spite of the two
writers, since the reader ends at the first frame that was mixed up; what does
not hold then is `Delivered`, which excepts it (`torn`). What a reader that ended
means to the client is `BadFrame` and `ReaderEnds` of `IpcClient`.

### IpcClient, CallService

One action is what a task of the event loop does between two awaits. `call[k]`
says at which await an invocation of `call` is (`lock`, `sending`, `waiting`);
`lock` is the FIFO queue of the `asyncio.Lock` `_send_lock`; `readers`, `sleeping` and `connecting` count the
tasks that own or make a connection; `transport` is `self._transport`, and a link
in `closed` is one whose stream was set to `None`. The agent is external here: it
comes and goes and reads frames; it runs a command and answers with what came of it
(`AgentRuns`), answers that its queue is full (`AgentRejects`), or answers `Timeout`
(`AgentGivesUp`) and may still run the command later (`AgentRunsLate`), each on the
link the frame came on. `ConnectCrashes`
is an exception that leaves `_connect_once` because only `TransportError` is
caught: the ack is sent outside every `try` of `tcp.py`. The loop does not look
at `_running` after its sleep, and neither does the model.

A cancelled call leaves `lock` from wherever it stands in it (`RemoveAt`): a waiter
in the middle, or the holder, whose place the next call then takes.

`CallService` is the abstract specification of one `call()`: its command is written at
most once and run at most once, and the caller is told one thing for good, a
result only if the command was run, a full queue only if it was not and never will
be, a timeout of either side only if it was written; after that nothing is written. A written command may be run at any time, also after
the caller was told something else. `IpcClient!ImplementsCalls` maps the tasks,
connections, the lock and the futures to it.

### Bridge

`start_bridge` and `stop_bridge` are cut into the steps other threads can see:
make the queue, write the token, start the listener, wire Qt, set `_started`,
start the pump; stop the timer, set the event, close the server, close the
tracked connections, forget the bridge. Bridges are numbered, and `cur`, `token`,
`timer` hold numbers; `listener[b]` and `bg[b]` are the threads of bridge `b`. A
link is `backlog`, then `accepted` (returned by `accept()`, held by the thread),
then `open` (tracked, handler thread started), then `closed`, after which its
name is used again. The clients read the token, connect, wait for the hello, and
start over. Between the hello (`Hello`) and the client's ack (`Ack`) the bridge may be
stopped: then the ack may raise, and the task that reconnects dies of it (`AckFails`,
`crashed`). An error of `accept()` ends the listener of a bridge that runs on
(`ListenerBreaks`). Closing a listening socket resets its backlog and makes a blocked
`accept()` raise, which is what Windows does. The client's write and the handler
thread's read of a frame are one step here (`Send`); what happens in between is
in `Agent`. A client that drops its link and the handler thread that then
removes it from `_active_conns` are one step as well.

### Insertion

What commands do to the document. `Creates` are commands whose handler function
only queues a spec; `Changes` call the Allplan API twice (as `set_attributes` does
per attribute), inside `undo_bracket`. Thread 0 is the main thread, thread `b` the
background pump of start `b`. `Flush`, `Build`, `CreateElements` and `GiveUp` are
`_insert_pending`. Allplan's bracket is external: a rollback takes back what was
changed since the bracket began, changes by other threads included. A bracket may
also not be there to roll back, its rollback may raise, which is only logged, and
so may its commit (`CommitFails`): then what was changed stays, and the command is
in the history variable `stuck`. A bracket whose rollback or commit raised is taken
to be closed, and a `BeginUndoBracket` that raises is a command that fails before its
first change. `exposed` is a history variable: changes a
background pump made while the main thread had a bracket open, which a failure
on the main thread takes back although they are answered ok.

`CreateInteractor` is `create_interactor`: it starts the bridge, which loads the
modules anew unless the bridge is started, and sets `_coord_input`.
`OnCancelFunction` resets `_coord_input` and stops the bridge. Allplan may make an
interactor before it cancels the one before it (`overlap`): then the second one's
bridge is stopped by the first one's cancellation. `pending[b]` is the
`_pending_specs` of the modules loaded by start `b`; a new start leaves it behind.
`queued` and `dropped` are history variables. `Held(0)` is what was flushed: the specs
still to be built, the elements built and those in the document, in the order
the callback takes them through; `Held(b)` is `pending[b]`. `SpecsKept` says that what was queued is
what is held or dropped, each spec once.

### Placement

The boxes of walls and columns in the plan, as sets of corners. Coordinates are whole
numbers, `Mm` of them to the millimetre, and the length of a wall is a whole number `n`,
so that all three
ways of placing its box (`AxisPlacement`, `BoundingBox`, `TurnedBox`) can be computed
exactly, in units of 1/2n: the code divides by `n` to make a direction of length
1 and rotates by an angle, the model multiplies by `n` and rotates by a vector. The
fourth is the fallback, a box at the origin. `TryNext` is a way that raises in
the Allplan at hand; `BuildFails` is the fallback that raises again, or an Allplan
that has no `ModelElement3D`, and drops the spec as a wall that is too short is dropped
(`Drop`). `Copy` is `copy_to_grid_position` on what was copied or created last, with
`offset_spec`. A wall's `axis_offset` is in its spec and the builder does not look at it.
Left out: rounding, and heights (every box stands on the z of the first point of its
spec).

### GridTools

`saving[s]` says where a server process is in `save_grids`: it has loaded and
changed its dict, or it has opened, and so emptied, the file. Nothing else of the
same process runs in between (there is no `await`), other processes do. `file` is
`torn` when a process wrote less than another one had written since the file
was emptied. `copy[s]` holds the locals of a `copy_to_grid_position` that awaits a
call; define, delete and create calls of the same server come in between.
A call and its answer are one step: between the two nobody else knows the new
uuid. A grid is the distance of the two lines named in a copy, an element a
position. What a call leaves in Allplan is a queued spec (`queue`), answered or not;
`InsertPending` is the mouse callback, which takes all of them and inserts some. A
box that no way can place, which Allplan then has at the origin, counts as not
inserted here (see `Placement`). `from` is a history variable: of which element a new
one is a copy, and by how much its call was to shift it, kept also when the call
failed or its server restarted. `Displace` is `move_element` or `delete_element`, of any
server: no cache hears of either, and `place` is 0 from then on. `book` and
`clash` are history variables: the grids had all updates been atomic (`update` is what a
save in progress adds to them), and whether updates overlapped or a save was cut
short. The list of skipped uuids in the tool's answer is left out.

## What the runs check

`CHECK_DEADLOCK FALSE` everywhere but in `grids`: these systems may really stop.
Clients hang up, a reader ends, every request, call or command of the finite set
is done, the bridge is stopped and not started again. A server of `GridTools` can
always be restarted, and deadlock is checked there.

| Run | Question | Instance |
|---|---|---|
| `agent_safety` | Is every command in one place (`OnePlace`), run at most once (`AtMostOnce`), answered once and truthfully (`RepliesAreTrue`), settled once (`SettledForGood`), and does the agent implement `RequestService` (`ImplementsService`)? | 2 connections, 2 requests with deadlines 0 and 1, 2 pumps, queue of 1, batches of 2; connections and pumps symmetric; 86 000 states |
| `agent_liveness` | Is every request answered while the pumps are blocked (`EveryRequestAnswered`)? Is a command that is still queued when its client gave up dead (`DeadInQueue`)? Does one live pump drain the queue (`QueueDrains`)? | 1 connection, 2 requests; 9 000 states |
| `agent_timeout` | *violated:* a `Timeout` means the command did not run | as above, queue of 2 |
| `client` | One reader or loop at a time (`OneConnection`), nobody left waiting (`NobodyStranded`), no stale entries (`NoLeftovers`), nothing sent twice (`SentAtMostOnce`), somebody tries to connect (`TryingUnlessCrashed`), is every caller told one true thing (`ImplementsCalls`), does every call end (`EveryCallEnds`), does a client that lost its connection get another (`Reconnects`)? | 2 calls, 2 links; 531 000 states |
| `client_reconnect` | *violated:* the client always reconnects | as above |
| `bridge_safety` | One listener accepts and its token is in the file (`OneFreshListener`), every started bridge has a pump (`QueueHasAPump`), a stop leaves at most one connection (`AtMostOneLinkSurvives`) | 2 clients, 2 links, 2 starts; clients and links symmetric; 876 000 states |
| `bridge_liveness` | What is queued is run (`QueuedIsRun`), clients come back after restarts (`ClientsComeBack`) | 1 client, 1 link, 1 request, 2 starts; 345 000 states |
| `insertion` | No spec lost or inserted twice (`SpecsKept`), order kept (`InsertedInOrder`), a change that fails on the main thread leaves nothing if Allplan could roll it back (`FailedOnMainLeavesNothing`), one answered ok stays (`OkIsKept`), a live interactor has its bridge and `_coord_input` (`ActiveHasContext`), pending specs settle (`PendingSettles`) | 2 creates, 1 change, 2 starts, 3 interactors; 989 000 states |
| `insertion_failed` | *violated:* a failed command leaves nothing in the document | 1 create, 1 change |
| `grids` | Grids are lost only when updates overlap or a save is cut short (`KeptUnlessClash`); every copy, also of a copy and by a call that failed, lies by its call's distance from its original (`OneDistance`) | 2 servers, one of which creates and copies; 2 grids with distances 1 or 2, 3 elements, the first created and the others copies, one of which may be displaced, copies of up to 2; grids symmetric; 1.9 million states |
| `framing` | Does the reader yield a prefix of what was sent, in whole frames (`ImplementsChannel`), and all of it when nothing interferes (`Delivered`)? | 2 writers, texts of 1, 3 and 4 bytes under a limit of 3, a network of 3 bytes; 22 000 states |
| `placement` | Are walls built around their axis and columns around their base, whichever way works, and is only a wall that climbs too short to be built (`BuiltAroundAxis`)? Are copies of copies the same box, moved (`CopiesAreShifted`)? | walls in all directions of up to 5 with a whole length, level, sloping and upright, with and without an axis offset; 2 units to the millimetre; 8 columns, 2 shifts, an element and 2 copies; 296 000 states |

### The bounds, and why they are enough

* A queue of one place and two requests make the queue full, and a batch of two
  makes one clock reading decide for a command that is run later. Two
  connections make both handler threads compete for the last place; two pumps
  make every interleaving of two drains. Deadlines 0 and 1 give one command that
  is late at once and one that becomes late while the other runs. The theorems
  of `AgentProofs` hold without any of these bounds.
* `MaxStarts = 2` gives a stopped bridge next to a running one, which is all that
  the threads of one bridge can see of another; three bridges alive at once need
  a thread that sleeps through two restarts, and nothing in the code refers to
  the last bridge but one.
* `Links` of the bridge are a pool from which closed connections return, so that
  clients reconnect without limit. `MaxLinks` of the client counts connections;
  two make one break while a call waits for the lock and goes on with the next.
  `Reconnects` excepts the state where all are used up, so that what the run shows is
  one reconnection after a loss, after any number of failed attempts; that there is
  always a task that tries is proved for any number (`KeepsTrying`).
* Two calls make one hold the send lock while the other waits; two creates make one
  flushed while the other is queued, before and after a restart. Three interactors
  in two starts give one that overlaps an older one and one that does not.
* A header of two bytes (of the code's four; `FramingProofs` is about any number) and frames longer than what the
  network holds make every split possible: inside a header, between header and
  text, inside a text. The longest text is above the limit and the second longest
  exactly at it.
* Directions of up to 5 hold both axes, either way, and slanted walls (3-4-5) in
  every quadrant. `PlacementProofs` needs no bound.
* Two server processes are enough for their saves to overlap in every order. Three
  elements allow one original copied twice by one call, and the copy of a copy;
  displacing the second, an original or a copy, is enough to make a cache stale. That
  only the first is created (`MaxCreated`) keeps the run small; `GridProofs` needs none
  of these bounds.
* `agent_liveness` runs with one connection: what a second one could add, a queue
  that is full, the first also meets after it gave up on its earlier request.

### The fairness, and why the code justifies it

* `ListenerFairness`: time passes and handler threads are scheduled. Nothing is
  assumed of the pumps, since a modal dialog or a hanging handler function may
  block them; `EveryRequestAnswered` holds all the same because `fut.result` has a
  timeout. `QueueDrains` assumes of one pump what `_bg_pump`'s loop does: it is
  called every 200 ms and the functions it calls return.
* Client: the event loop runs what is ready. A free lock is taken, a send on a broken
  link raises, timers fire, an ended stream is seen, a sleep is over. A send on a link
  that works need not end: it has no timeout, and the agent may not read. So
  `EveryCallEnds` says without any assumption that no call waits for its response for
  ever, and that calls end only where every send does (`SendsEnd`). Frames need not
  be answered and the agent need never come back; `Reconnects` speaks of runs in which
  it does.
* Bridge: threads and clients are scheduled. The main thread need not pump or go on
  starting and stopping, so that `QueuedIsRun` rests on the background pump alone.
  `ClientsComeBack` assumes that from some point on a bridge stays up and says its
  hello within the client's 5 s, and excepts clients whose ack failed.
* Insertion: handler functions on the main thread return, and while an interactor
  lives the user goes on moving the mouse, which is what calls `process_mouse_msg`.
  Background threads are not assumed to run, and interactors need not be made.
* Framing: a reader reads until it ends, and a blocked `sendall` goes on when there is
  room. Frames need not be sent and the connection may break.

## Where the code and its documents disagree

Found by a run that expects the violation:

1. `agent_timeout`. `docs/ipc-protocol.md:81` says of `Timeout` that the deadline
   elapsed before the command ran. The handler thread sends it when `fut.result`
   timed out, while the command may be running, and a command may be started after
   its deadline because the batch is judged by one clock reading. What does hold is
   that an expired command never ran (`ExpiredWasNotRun`) and `DeadInQueue`.
2. `client_reconnect`. `ipc/client.py:53` promises reconnecting. An exception other than
   `TransportError` out of `connect()` (the ack's `send`, the read of the token, a hello
   that is not an object) ends the reconnect loop for good. `TryingUnlessCrashed`
   is what holds.
3. `insertion_failed`. `docs/threat-model.md:128` says that every change is rolled back
   on an exception. The background pump runs handler functions off the main thread, against
   `docs/threading-model.md:5`, and there `undo_bracket` does nothing.
   `FailedOnMainLeavesNothing` is what holds, and `OkIsKept` says when the main
   thread's rollback takes back a success of the background pump.

Met while modelling, where a property states what holds instead:

* `listener.py:297` says that `stop()` closes the active connections. One that
  `accept()` has returned and the loop has not tracked yet survives, and its client
  stays connected to a queue nobody may pump. `AtMostOneLinkSurvives` and
  `ClientsComeBack` are what holds.
* `docs/architecture.md:92` shows `CreateElements` before the response. The response
  is sent when the spec is queued; the wall may be dropped later (`SpecsKept`).
* A wall whose ends are less than 1 mm apart in the plan, and not at one height, passes the check of `models/geometry.py:97`,
  is acknowledged, and is dropped when it is built, because the builder wants a
  length in the plan (`handlers/geometry.py:185`). `BuiltAroundAxis` says that no
  other wall is too short; any spec is dropped when Allplan's own functions raise in
  the last way, too (`BuildFails`). A sloping wall is built level, on the z of its start.
* `docs/tool-catalog.md:21` documents `axis_offset_mm` of `create_wall`. The builder does
  not use it: a wall is built around the line from its start to its end whatever
  offset was asked for, which is what `BuiltAroundAxis` says.
* `docs/threat-model.md:129` says that rollback is called on an exception. It is, on the
  main thread and if Allplan has it, and one that raises is logged and forgotten:
  `FailedOnMainLeavesNothing` excepts these commands (`stuck`).
* The 2-point form makes a wall that is not parallel to an axis as large as its
  bounding box (the code says so in a warning), and when no way works the box is
  inserted at the origin and counted as inserted (`Exact` excepts both).

## What is proved

The theorems hold for every value of the constants: any sets of connections,
requests, pumps, calls, clients, servers and commands, any sizes, deadlines and
bounds. They rest on the `ASSUME`s of the module they are about, which say what the
constants are (a queue holds at least one command, deadlines are naturals,
"no request" is not a request, a frame has at least one byte of length and one of
text, walls have integer coordinates) and which TLC
evaluates in every run.

| Theorem | Statement | Strengthening |
|---|---|---|
| `AgentProofs`: `TypeCorrect`, `CommandsInOnePlace`, `RunAtMostOnce`, `ToldTheTruthOnce`, `ExpiredWasNotRun` | `Spec => []` `TypeOK`, `OnePlace`, `AtMostOnce`, `RepliesAreTrue`, `ExpiredNeverRan` | `OnePlace` |
| `AgentProofs`: `FuturesSettleOnce` | `Spec => SettledForGood` | `OnePlace` |
| `AgentProofs`: `TimedOutInQueueIsDead` | `Spec => DeadInQueue` | `OnePlace`, `TimersOK`, `AnsweredLate` |
| `AgentRefinement`: `AgentServes` | `Spec => ImplementsService` | `OnePlace`, `PendingIsSomewhere` |
| `IpcClientProofs`: `TypeCorrect`, `NeverTwoConnections`, `SomebodyAnswers`, `EntriesAreRemoved`, `NoCommandRepeated`, `AnsweredTruly`, `KeepsTrying` | `Spec => []` `TypeOK`, `OneConnection`, `NobodyStranded`, `NoLeftovers`, `SentAtMostOnce`, `ResponsesAreReal`, `TryingUnlessCrashed` | `ConnOK`, `PendingOK`, `SentOK`, `ViaOK`, `AnsweredOK`, `RestTypes` |
| `IpcClientProofs`: `OneCallSends` | two calls never write at the same time | `LockOK` |
| `IpcClientProofs`: `ClientServes` | `Spec => ImplementsCalls` | the above, `ToldOK` |
| `BridgeProofs`: `TypeCorrect`, `ListenerIsFresh`, `PumpIsThere`, `StopClosesLinks` | `Spec => []` `TypeOK`, `OneFreshListener`, `QueueHasAPump`, `AtMostOneLinkSurvives` | `MainOK`, `ListenersOK`, `PumpOK`, `AcceptOK`, `LinksOK`, `SurvivorOK`, `MineOK` |
| `InsertionProofs`: `NoSpecIsLost`, `InsertionKeepsOrder` | `Spec => []` `SpecsKept`, `InsertedInOrder` | `LineInv` |
| `InsertionProofs`: `TypeCorrect`, `FailureOnMainIsUndone`, `AnsweredIsKept`, `InteractorHasContext` | `Spec => []` `TypeOK`, `FailedOnMainLeavesNothing`, `OkIsKept`, `ActiveHasContext` | `CommandsOK`, `DocumentOK`, `InteractorsOK` |
| `GridProofs`: `TypeCorrect`, `GridsAreKept`, `CopiesKeepDistance` | `Spec => []` `TypeOK`, `KeptUnlessClash`, `OneDistance` | `FileOK`, `ElementsOK` |
| `PlacementProofs`: `BuiltInPlace`, `CopiesMoveTheBox` | `Spec => []` `BuiltAroundAxis`, `CopiesAreShifted` | `CopiesOf` |
| `FramingProofs`: `TypeCorrect`, `YieldsInOrder`, `ChannelImplemented` | `Spec => []` `TypeOK`, `GotIsPrefix`; `Spec => ImplementsChannel` | `InStep`, `OutOfStep`, `RestsOfFrames`, `FramesApart`, `SentOnce` |

None of the invariants is inductive by itself; why each needs its strengthening:

* **Agent.** `AtMostOnce` cannot exclude that a command is in two batches, from which
  two pumps would start it. `OnePlace` says that a command is on the wire of one
  connection, or held by one handler thread that has not enqueued it, or once in
  the queue, or once in one batch, or done, and that its future, its start and
  its response agree with that place. `agent_safety` checks `OnePlace` too.
  The refinement takes the initial states to an initial state and each action
  to one step of the service or none; `StageIs` says which stage a command has
  by its place, and `PendingIsSomewhere` that a future which is pending has not lost
  its command, without which giving up on it would not be a step of the service.
  `DeadInQueue` looks ahead: whatever takes a timed-out command out of the queue
  later finds it expired. `AnsweredLate` says that it is past its deadline once its
  handler gave up, which needs `TimersOK`: the command has aged by at least what its
  handler waited. Since the clock does not go back, it stays late.
* **IpcClient.** That there is one reader or one task that connects (`ConnOK`) needs
  that a transport has its reader and nobody sleeps meanwhile. That no call is
  stranded needs `PendingOK`: a call in progress has its entry or its result, and
  entries exist only next to a transport, since whoever takes the transport away
  settles them all. `SentOK` ties frames on all links to the calls that wrote them.
  `LockOK` says that the send lock's line is exactly the calls that send or wait for
  it, each once, with the sender first: so what a send takes off the line at its end
  is its own place, and a call cancelled in the line takes off only itself. `ToldOK`
  adds what a caller can be told by the stage of its call, which makes every step of the
  client a step of `CallService` or none.
* **Bridge.** `ListenersOK` relates each listener thread that was not told to stop to
  the step the main thread is at. That one link at most survives a stop is
  `SurvivorOK`: it is the one the thread holds between `accept()` and tracking, and
  `AcceptOK` says that the thread gets no other.
* **Insertion.** `DocumentOK` says what the open bracket holds: all that the main
  thread's command did, and otherwise only what is `exposed`. `LineInv`
  puts the specs of one start into one line: those in the document, then those in
  the callback's hands, then those in the list. Each stands there once, in the order
  in which they were queued (`Earlier`), unless it was given up; a spec can
  neither leave the line unseen nor pass another.
* **GridTools.** The file equals the book only when nobody is in a save, so the
  dict in each process's hands has to be followed (`ImageIsCurrent`). A copy is made of
  what a cache says, long before either element is inserted: so `CacheFits` and
  `CopiesFit` speak of where an element is or will be (`At`), and what is remembered or
  asked for must have been queued (`UnmadeUnknown`, `CallsOK`), lest a new uuid be known
  before it exists.
* **Framing.** As long as every length the reader took was that of a frame, the bytes
  it has not used yet are in step (`InStep`): those of one frame in order, from the one the
  reader expects, and the first bytes of frames in the order of `sent`. Once it has
  taken bytes of two frames for a length, it is out of step for good (`OutOfStep`):
  a stretch of the stream which begins with a byte of a length is not a text, so nothing
  is yielded any more. That a length read in step has its bytes in order is an
  induction over their number, for any size of the header: `InductionOnSet`
  gets it from the library's theorem that `<` on the naturals is
  well-founded, and `BytesBefore` is its use.
* **Placement.** The invariant says only that every box was built from one spec
  shifted by what was asked. The rest is geometry: three lemmas bring the three
  ways to one set of four points (`AxisPlacementCorners`, `TurnedBoxCorners`, and
  `ParallelCorners` for walls parallel to an axis), `CornersAroundAxis` shows that they lie
  where the wall should be, and `WallShifted` and `ColumnShifted` that they move with it.

The strengthenings were checked by TLC on the instances of the runs before they
were proved, except that of `Placement`, which speaks of infinite sets.

Only model-checked: liveness (`EveryRequestAnswered`, `QueueDrains`, `EveryCallEnds`,
`Reconnects`, `QueuedIsRun`, `ClientsComeBack`, `PendingSettles`, `Delivered`), which rests on
fairness and so on `ENABLED`, neither of which the prover treats. Every invariant and
every other temporal property of the runs that pass is proved.

## Not modelled, and why

* **Named pipe** (`listener.py`, `ipc/named_pipe.py`): the client side uses
  `anyio.connect_unix`, which does not open a Windows pipe, so no client gets
  through it; TCP is the default.
* **`pythonpart_entry.py`**: the same lifecycle without token, background pump and
  `notify_fn`; `scripts/install_pythonpart.py` installs `AllplanMcpBridge.py`.
* **`undo`, `redo`, `save_document`, IFC import and export**: one call of Allplan
  each; what it does is Allplan's.
* **Heartbeat timing**: a heartbeat is recorded by the client and never missed. That
  the heartbeat thread writes into the handler thread's frames is in `Framing`.
* **`metrics.py`**: counters and a window of latencies under one lock, which no other
  part reads; the index of a percentile is a pure function, which the unit tests
  cover.
* **`get_element`, `list_grids`, `get_grid_lines` and the other tools that only read**:
  they keep nothing.
* **Path checks, configuration, logging, scripts, and the models other than those
  of walls and columns**: declarative, pure, or run by hand.

## Plan

Done, in this order: `Agent` with `RequestService` and `AgentProofs`, `IpcClient`,
`Bridge`, `Insertion` with interactors, `GridTools` with displaced elements,
`Framing` with `FrameChannel`, `Placement`; then the proofs of the table above, the
last of them those of `IpcClient`'s `CallService`, of `Framing`, and of the order of
`Insertion`.

What could come next:

1. A composition of `IpcClient` and `Agent` over links that break, for the question
   which commands may have run when `call` raises. Both sides are modelled and each
   implements an abstract specification (`CallService`, `RequestService`); the
   composition can be stated over those two, whose product is small.
2. The grid tools' book as an abstract specification that `GridTools` implements.
