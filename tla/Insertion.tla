----------------------------- MODULE Insertion -----------------------------
(***************************************************************************)
(* What commands do to the Allplan document: handler functions on the main *)
(* thread and on background pumps (handlers/, safety.py), and the mouse    *)
(* callback that inserts the walls and columns whose specs the handlers    *)
(* only queued (AllplanMcpBridge.py, handlers/_allplan.py).                *)
(*                                                                         *)
(* Allplan makes an interactor when the user starts the PythonPart, and    *)
(* cancels it later, perhaps after it made the next one.  Every start of   *)
(* the bridge loads the modules anew, so that _allplan's _pending_specs    *)
(* and _coord_input exist once per start.  Thread 0 is Allplan's main      *)
(* thread, thread b the background pump of the b-th start, which may       *)
(* outlive its bridge (see Bridge).  Allplan's undo bracket is modelled by *)
(* what it is for: a rollback takes back what was changed since it began,  *)
(* if Allplan has one and it works.                                        *)
(***************************************************************************)
EXTENDS Naturals, SequencesExt

CONSTANTS
    Creates,    \* create_wall and create_column commands, and their specs
    Changes,    \* commands that change the document in two parts
    None,       \* no command
    MaxStarts,       \* bound: how often the bridge is started
    MaxInteractors   \* bound: interactors made in all

ASSUME StartsAssumption ==
    MaxStarts \in Nat \ {0} /\ MaxInteractors \in Nat \ {0}
ASSUME CommandsAssumption ==
    Creates \cap Changes = {} /\ None \notin Creates \cup Changes

Commands == Creates \cup Changes
Main == 0
Starts == 1..MaxStarts
Interactors == 1..MaxInteractors
Threads == {Main} \cup Starts
Parts == {1, 2}

VARIABLES
    started,   \* _started
    current,   \* the start whose modules sys.modules holds
    coord,     \* _coord_input in those modules: whose, or 0
    newest,    \* the interactor made last
    live,      \* interactors that are not cancelled
    overlap,   \* history: one of them met an older one
    busy,      \* busy[t]: the command whose handler function t runs
    thread,    \* thread[c]: the thread that was given c
    code,      \* code[c]: the start whose modules run c
    part,      \* part[c]: parts of c that are done
    told,      \* told[c]: what c's future was set to
    document,  \* <<c, i>>: part i of change c is in the document
    bracket,   \* changes since BeginUndoBracket
    exposed,   \* history: what other threads changed while it was open
    stuck,     \* history: failed on the main thread and not rolled back
    pending,   \* pending[b]: _pending_specs of the b-th start
    queued,    \* creates in the order their specs were queued
    callback,  \* where _insert_pending is
    specs,     \* the flushed specs it has not built
    elements,  \* the elements it has built
    inserted,  \* elements in the document, in order
    dropped    \* specs that _insert_pending gave up

bridgeVars == <<started, current, coord, newest, live, overlap>>
documentVars == <<document, bracket, exposed, stuck>>
commandVars == <<busy, thread, code, part, told>>
callbackVars == <<callback, specs, elements, inserted, dropped>>
vars == <<bridgeVars, commandVars, documentVars, pending, queued,
          callbackVars>>

Init ==
    /\ started = TRUE /\ current = 1
    /\ coord = 1 /\ newest = 1 /\ live = {1} /\ overlap = FALSE
    /\ busy = [t \in Threads |-> None]
    /\ thread = [c \in Commands |-> Main]
    /\ code = [c \in Commands |-> 0]
    /\ part = [c \in Commands |-> 0]
    /\ told = [c \in Commands |-> "nothing"]
    /\ document = {} /\ bracket = {} /\ exposed = {} /\ stuck = {}
    /\ pending = [b \in Starts |-> <<>>]
    /\ queued = <<>>
    /\ callback = "idle" /\ specs = <<>> /\ elements = <<>>
    /\ inserted = <<>> /\ dropped = {}

MainIsFree == busy[Main] = None /\ callback = "idle"

Made(c) ==
    /\ newest' = newest + 1
    /\ live' = live \cup {newest + 1}
    /\ overlap' = (live # {})
    /\ started' = TRUE
    /\ coord' = c
    /\ UNCHANGED <<commandVars, documentVars, pending, queued, callbackVars>>

\* Mutant: set_coord_input of the modules that start_bridge purges.
CreateInteractorStale ==
    /\ MainIsFree /\ newest < MaxInteractors
    /\ \/ started /\ Made(newest + 1) /\ UNCHANGED current
       \/ /\ ~started /\ current < MaxStarts
          /\ current' = current + 1
          /\ Made(0)

\* create_interactor: start_bridge, which does nothing when the bridge is
\* started and else purges sys.modules, then set_coord_input.  The specs that
\* no callback flushed stay behind.
CreateInteractor ==
    /\ MainIsFree /\ newest < MaxInteractors
    /\ IF started THEN UNCHANGED current
                  ELSE current < MaxStarts /\ current' = current + 1
    /\ Made(newest + 1)

\* set_coord_input(None) and stop_bridge, whoever started the bridge.
OnCancelFunction(i) ==
    /\ MainIsFree /\ i \in live
    /\ live' = live \ {i}
    /\ coord' = 0 /\ started' = FALSE
    /\ UNCHANGED <<current, newest, overlap, commandVars, documentVars, pending,
                   queued, callbackVars>>

-----------------------------------------------------------------------------
(* A command on thread t, inside undo_bracket.                             *)

\* The main thread also pumps the queue of an earlier start, when a
\* QTimer.singleShot call was posted for it.
Begin(t, c, b) ==
    /\ b <= current /\ IF t = Main THEN MainIsFree ELSE t = b /\ busy[t] = None
    /\ code[c] = 0
    /\ busy' = [busy EXCEPT ![t] = c]
    /\ thread' = [thread EXCEPT ![c] = t]
    /\ code' = [code EXCEPT ![c] = b]
    /\ bracket' = IF t = Main THEN {} ELSE bracket
    /\ UNCHANGED <<bridgeVars, part, told, document, exposed, stuck, pending,
                   queued, callbackVars>>

\* Mutant: the spec is put in front.
QueueSpecFirst(t) ==
    LET c == busy[t] IN
    /\ c \in Creates /\ part[c] = 0
    /\ pending' = [pending EXCEPT ![code[c]] = <<c>> \o @]
    /\ queued' = Append(queued, c)
    /\ part' = [part EXCEPT ![c] = 2]
    /\ UNCHANGED <<bridgeVars, busy, thread, code, told, documentVars,
                   callbackVars>>

\* queue_spec, under _pending_lock; no call of the Allplan API.
QueueSpec(t) ==
    LET c == busy[t] IN
    /\ c \in Creates /\ part[c] = 0
    /\ pending' = [pending EXCEPT ![code[c]] = Append(@, c)]
    /\ queued' = Append(queued, c)
    /\ part' = [part EXCEPT ![c] = 2]
    /\ UNCHANGED <<bridgeVars, busy, thread, code, told, documentVars,
                   callbackVars>>

\* Mutant: the last part is not the last.
ChangeOnceMore(t) ==
    LET c == busy[t] IN
    /\ c \in Changes /\ part[c] <= 2
    /\ part' = [part EXCEPT ![c] = @ + 1]
    /\ UNCHANGED <<bridgeVars, busy, thread, code, told, documentVars,
                   pending, queued, callbackVars>>

\* One call of the Allplan API, such as one set_attribute of several.  What a
\* background pump changes while a bracket is open falls into that bracket.
Change(t) ==
    LET c == busy[t] IN
    /\ c \in Changes /\ part[c] < 2
    /\ part' = [part EXCEPT ![c] = @ + 1]
    /\ document' = document \cup {<<c, part[c] + 1>>}
    /\ bracket' = IF busy[Main] # None
                  THEN bracket \cup {<<c, part[c] + 1>>} ELSE bracket
    /\ exposed' = IF t # Main /\ busy[Main] # None
                  THEN exposed \cup {c} ELSE exposed
    /\ UNCHANGED <<bridgeVars, busy, thread, code, told, stuck, pending, queued,
                   callbackVars>>

Answer(t, result) ==
    /\ told' = [told EXCEPT ![busy[t]] = result]
    /\ busy' = [busy EXCEPT ![t] = None]
    /\ UNCHANGED <<bridgeVars, thread, code, part, exposed, pending, queued,
                   callbackVars>>

Commit(t) ==
    /\ bracket' = IF t = Main THEN {} ELSE bracket
    /\ UNCHANGED <<document, stuck>>

Finish(t) ==
    /\ busy[t] # None /\ part[busy[t]] = 2
    /\ Commit(t)
    /\ Answer(t, "ok")

\* Mutant: the bracket is committed in a `finally`.
RollbackNothing(t) ==
    /\ bracket' = IF t = Main THEN {} ELSE bracket
    /\ UNCHANGED <<document, stuck>>

\* Mutant: the thread is not looked at.
RollbackAnywhere(t) ==
    document' = document \ bracket /\ bracket' = {} /\ UNCHANGED stuck

Stays(t) == stuck' = stuck \cup {busy[t]} /\ UNCHANGED document

\* Off the main thread there is no bracket to roll back; on it, an Allplan
\* without RollbackUndoBracket rolls nothing back, and a rollback that raises is
\* only logged.
Rollback(t) ==
    IF t = Main
    THEN /\ bracket' = {}
         /\ \/ document' = document \ bracket /\ UNCHANGED stuck
            \/ Stays(t)
    ELSE UNCHANGED <<document, bracket, stuck>>

\* Invalid arguments, a missing element, an error of the Allplan API; once a
\* spec is queued the handler function raises nothing.
Fail(t) ==
    /\ busy[t] # None /\ (part[busy[t]] < 2 \/ busy[t] \in Changes)
    /\ Rollback(t)
    /\ Answer(t, "error")

\* CommitUndoBracket raises, outside the try: nothing is rolled back.
CommitFails(t) ==
    /\ t = Main /\ busy[t] # None /\ part[busy[t]] = 2
    /\ bracket' = {} /\ Stays(t)
    /\ Answer(t, "error")

-----------------------------------------------------------------------------
(* process_mouse_msg, after it pumped: _insert_pending on the main thread. *)

\* Mutant: without the lock; a spec queued between the copy and the clear is
\* lost.
FlushUnlocked ==
    /\ MainIsFree /\ live # {} /\ pending[current] # <<>>
    /\ \E n \in 1..Len(pending[current]) :
          specs' = SubSeq(pending[current], 1, n)
    /\ pending' = [pending EXCEPT ![current] = <<>>]
    /\ callback' = "building"
    /\ UNCHANGED <<bridgeVars, commandVars, documentVars, queued, elements,
                   inserted, dropped>>

\* flush_pending_specs of the modules loaded last, under _pending_lock; the
\* mouse callback of any interactor.
Flush ==
    /\ MainIsFree /\ live # {} /\ pending[current] # <<>>
    /\ specs' = pending[current]
    /\ pending' = [pending EXCEPT ![current] = <<>>]
    /\ callback' = "building"
    /\ UNCHANGED <<bridgeVars, commandVars, documentVars, queued, elements,
                   inserted, dropped>>

\* Mutant: a spec that cannot be built is tried again after the others.
BuildRetry ==
    /\ callback = "building" /\ specs # <<>> /\ coord # 0
    /\ \/ elements' = Append(elements, Head(specs)) /\ specs' = Tail(specs)
       \/ specs' = Append(Tail(specs), Head(specs)) /\ UNCHANGED elements
    /\ UNCHANGED <<bridgeVars, commandVars, documentVars, pending, queued,
                   callback, inserted, dropped>>

\* A spec whose element cannot be built is logged and skipped.
Build ==
    /\ callback = "building" /\ specs # <<>> /\ coord # 0
    /\ specs' = Tail(specs)
    /\ \/ elements' = Append(elements, Head(specs)) /\ UNCHANGED dropped
       \/ dropped' = dropped \cup {Head(specs)} /\ UNCHANGED elements
    /\ UNCHANGED <<bridgeVars, commandVars, documentVars, pending, queued,
                   callback, inserted>>

EndCallback ==
    /\ callback' = "idle" /\ specs' = <<>> /\ elements' = <<>>
    /\ UNCHANGED <<bridgeVars, commandVars, documentVars, pending, queued>>

CreateElements ==
    /\ callback = "building" /\ specs = <<>>
    /\ inserted' = inserted \o elements
    /\ UNCHANGED dropped
    /\ EndCallback

\* No BaseElements, no coord_input or no document, or CreateElements raises:
\* what was flushed is gone.
GiveUp ==
    /\ callback = "building" /\ (elements = <<>> \/ specs = <<>>)
    /\ dropped' = dropped \cup ToSet(specs) \cup ToSet(elements)
    /\ UNCHANGED inserted
    /\ EndCallback

-----------------------------------------------------------------------------
CommandStep(t) ==
    \/ \E c \in Commands, b \in Starts : Begin(t, c, b)
    \/ QueueSpec(t) \/ Change(t) \/ Finish(t) \/ Fail(t) \/ CommitFails(t)

CallbackStep == Flush \/ Build \/ CreateElements \/ GiveUp

Next ==
    \/ CreateInteractor
    \/ \E i \in Interactors : OnCancelFunction(i)
    \/ \E t \in Threads : CommandStep(t)
    \/ CallbackStep

Spec == Init /\ [][Next]_vars

\* The handler functions of the main thread return, and while there is an
\* interactor, the user goes on moving the mouse when it is free.
MouseFairness ==
    /\ WF_vars(CallbackStep)
    /\ WF_vars(QueueSpec(Main) \/ Change(Main) \/ Finish(Main) \/ Fail(Main))

MouseSpec == Spec /\ MouseFairness

-----------------------------------------------------------------------------
TypeOK ==
    /\ started \in BOOLEAN /\ current \in Starts
    /\ coord \in Interactors \cup {0} /\ newest \in Interactors
    /\ live \subseteq 1..newest /\ overlap \in BOOLEAN
    /\ busy \in [Threads -> Commands \cup {None}]
    /\ thread \in [Commands -> Threads]
    /\ code \in [Commands -> 0..MaxStarts]
    /\ part \in [Commands -> 0..2]
    /\ told \in [Commands -> {"nothing", "ok", "error"}]
    /\ document \subseteq Changes \X Parts /\ bracket \subseteq Changes \X Parts
    /\ exposed \subseteq Changes /\ stuck \subseteq Commands
    /\ pending \in [Starts -> Seq(Creates)]
    /\ queued \in Seq(Creates)
    /\ callback \in {"idle", "building"}
    /\ specs \in Seq(Creates) /\ elements \in Seq(Creates)
    /\ inserted \in Seq(Creates)
    /\ dropped \subseteq Creates

\* Where specs are: with the modules of the b-th start, or (0) behind them,
\* in the document and in the hands of the callback.
Held(b) == IF b = 0 THEN inserted \o elements \o specs ELSE pending[b]

\* A spec is queued once, and from then on it is in exactly one place: in the
\* list of the modules that queued it, in the hands of the callback, in the
\* document or given up.  None is lost or inserted twice between the threads
\* that queue specs and the callback that flushes them.
SpecsKept ==
    /\ IsInjective(queued)
    /\ ToSet(queued) =
           dropped \cup UNION {ToSet(Held(b)) : b \in {0} \cup Starts}
    /\ \A a, b \in {0} \cup Starts :
          \A i \in DOMAIN Held(a), j \in DOMAIN Held(b) :
              /\ Held(a)[i] \notin dropped
              /\ Held(a)[i] = Held(b)[j] => a = b /\ i = j

QueuedBefore(c, d) ==
    \E i, j \in 1..Len(queued) : i < j /\ queued[i] = c /\ queued[j] = d

\* Elements are inserted in the order their commands ran, however many mouse
\* callbacks and restarts come between.
InsertedInOrder ==
    \A i, j \in 1..Len(inserted) :
        (i < j /\ code[inserted[i]] = code[inserted[j]])
            => QueuedBefore(inserted[i], inserted[j])

\* A change that failed on the main thread left nothing in the document, if
\* Allplan could roll it back.
FailedOnMainLeavesNothing ==
    \A c \in Changes \ stuck :
        (told[c] = "error" /\ thread[c] = Main)
            => \A i \in Parts : <<c, i>> \notin document

\* A change that was answered ok is in the document, whatever fails on other
\* threads, unless the background pump made it while a command on the main
\* thread had the bracket open.
OkIsKept ==
    \A c \in Changes \ exposed :
        told[c] = "ok" => \A i \in Parts : <<c, i>> \in document

\* An interactor that nobody cancelled runs a started bridge with its own
\* coord_input, unless it was made before an older one was cancelled, and the
\* coord_input that is set is never a cancelled one's.
ActiveHasContext ==
    /\ (live # {} /\ ~overlap) => (started /\ coord \in live)
    /\ coord # 0 => (started /\ coord \in live /\ coord = newest)

\* A pending spec is inserted or given up, unless a restart leaves it behind or
\* no interactor is left to take it.
PendingSettles ==
    \A c \in Creates :
        (c \in ToSet(pending[current]))
            ~> \/ c \in ToSet(inserted) \cup dropped
               \/ code[c] # current \/ live = {}

\* docs/threat-model.md:128: "Every handler that mutates the document is wrapped
\* in safety.undo_bracket().  On exception: rollback is called".
FailedLeavesNothing ==
    \A c \in Changes :
        told[c] = "error" => \A i \in Parts : <<c, i>> \notin document
=============================================================================
