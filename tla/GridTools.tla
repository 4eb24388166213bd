----------------------------- MODULE GridTools -----------------------------
(***************************************************************************)
(* The grid tools of the MCP server (tools/grid.py): named grids in one    *)
(* grids.json that all server processes of a user share (grid_store.py),   *)
(* and copies of elements by the distance of two grid lines, made from     *)
(* what the process remembers of the elements it created                   *)
(* (element_cache.py, tools/geometry.py).                                  *)
(*                                                                         *)
(* A tool call runs on the event loop of its process and is interrupted    *)
(* only where it awaits, so that load and save of one process follow each  *)
(* other at once; those of two processes interleave.                       *)
(*                                                                         *)
(* A call that creates an element only queues its spec in Allplan; it is   *)
(* inserted later, or dropped.  A grid stands for the distance of the two  *)
(* lines a copy names, and an element for its position on one axis.        *)
(* 0 stands for what there is not.                                         *)
(***************************************************************************)
EXTENDS Naturals, Sequences

CONSTANTS
    Servers,      \* MCP server processes
    Copiers,      \* bound: those whose client creates and copies elements
    Names,        \* names of grids
    Distances,    \* what a grid may put between the two lines
    MaxElements,  \* bound: elements asked for in all
    MaxCreated,   \* bound: create_* makes only the first so many
    Displaced,    \* bound: elements that may be moved or deleted
    MaxAsked      \* bound: element_uuids of a copy

ASSUME BoundsAssumption ==
    /\ MaxElements \in Nat /\ MaxCreated \in Nat /\ MaxAsked \in Nat \ {0}
    /\ Displaced \subseteq 1..MaxElements
ASSUME CopiersAssumption == Copiers \subseteq Servers
ASSUME DistancesAssumption == Distances \subseteq Nat \ {0}

Elements == 1..MaxElements
Origin == 1
Contents == [Names -> Distances \cup {0}]
NoGrids == [n \in Names |-> 0]
NoCopy == [by |-> 0, todo |-> <<>>]
NoUpdates == [s \in Servers |-> <<>>]
NoOriginal == <<0, 0>>

VARIABLES
    file,     \* whether grids.json can be parsed
    grids,    \* what it says when it can
    saving,   \* saving[s]: where s is in save_grids
    image,    \* image[s]: the dict of the tool call that s runs
    cache,    \* cache[s][e]: _cache of s, the position it remembers for e
    copy,     \* copy[s]: the locals of a copy_to_grid_position
    made,     \* how many specs Allplan ever queued, each under its own uuid
    queue,    \* queue[e]: where the queued spec of e says, 0 when none is
    place,    \* place[e]: where e was inserted, 0 when it is not there
    from,     \* history: from[e] = <<old, by>> when e is a copy of old by by
    update,   \* history: <<n, d>>, what the call s runs makes of the dict
    book,     \* history: the grids, had every update been atomic
    clash     \* history: updates overlapped, or a save was cut short

fileVars == <<file, grids, saving, image, update, book, clash>>
elementVars == <<made, queue, place, from>>
copyVars == <<cache, copy, elementVars>>
vars == <<fileVars, copyVars>>

Init ==
    /\ file = "whole" /\ grids = NoGrids
    /\ saving = [s \in Servers |-> "no"]
    /\ image = [s \in Servers |-> NoGrids]
    /\ update = NoUpdates
    /\ cache = [s \in Servers |-> [e \in Elements |-> 0]]
    /\ copy = [s \in Servers |-> NoCopy]
    /\ made = 0 /\ queue = [e \in Elements |-> 0]
    /\ place = [e \in Elements |-> 0]
    /\ from = [e \in Elements |-> NoOriginal]
    /\ book = NoGrids /\ clash = FALSE

Busy(s) == saving[s] # "no"

-----------------------------------------------------------------------------
(* define_grid and delete_grid.                                            *)

Idle(s) ==
    /\ saving' = [saving EXCEPT ![s] = "no"]
    /\ image' = [image EXCEPT ![s] = NoGrids]
    /\ update' = [update EXCEPT ![s] = <<>>]

\* After a clash nothing is said of the grids: the book is closed and no update
\* is followed any more.
Account(happened, b) ==
    /\ clash' = (clash \/ happened)
    /\ book' = IF clash' THEN NoGrids ELSE b

\* Mutant: put_grid saves a dict with the new grid only.
LoadNothing(s, n, d) ==
    /\ ~Busy(s) /\ file = "whole" /\ (d = 0 => grids[n] # 0)
    /\ image' = [image EXCEPT ![s] = [NoGrids EXCEPT ![n] = d]]
    /\ saving' = [saving EXCEPT ![s] = "loaded"]
    /\ Account(\E t \in Servers : Busy(t), book)
    /\ update' = IF clash' THEN NoUpdates ELSE [update EXCEPT ![s] = <<n, d>>]
    /\ UNCHANGED <<file, grids, copyVars>>

\* load_grids, and the change of the dict; d = 0 deletes.  A file that cannot
\* be parsed, and deleting a grid that is not there, raise and change nothing.
Load(s, n, d) ==
    /\ ~Busy(s) /\ file = "whole" /\ (d = 0 => grids[n] # 0)
    /\ image' = [image EXCEPT ![s] = [grids EXCEPT ![n] = d]]
    /\ saving' = [saving EXCEPT ![s] = "loaded"]
    /\ Account(\E t \in Servers : Busy(t), book)
    /\ update' = IF clash' THEN NoUpdates ELSE [update EXCEPT ![s] = <<n, d>>]
    /\ UNCHANGED <<file, grids, copyVars>>

\* write_text opens the file, which makes it empty, and then fills it.
Truncate(s) ==
    /\ saving[s] = "loaded"
    /\ saving' = [saving EXCEPT ![s] = "truncated"]
    /\ file' = "empty" /\ grids' = NoGrids
    /\ UNCHANGED <<image, update, book, clash, copyVars>>

\* When another process wrote to the file meanwhile, a longer text of its is
\* not overwritten to the end.
Write(s) ==
    /\ saving[s] = "truncated"
    /\ Idle(s)
    /\ \/ file' = "whole" /\ grids' = image[s]
       \/ file # "empty" /\ file' = "torn" /\ grids' = NoGrids
    /\ Account(FALSE, [book EXCEPT ![update[s][1]] = update[s][2]])
    /\ UNCHANGED copyVars

\* The file cannot be opened, or the disk is full: the tool raises.
SaveFails(s) ==
    /\ Busy(s)
    /\ Idle(s)
    /\ Account(saving[s] = "truncated", book)
    /\ UNCHANGED <<file, grids, copyVars>>

-----------------------------------------------------------------------------
(* create_wall and its like, and copy_to_grid_position.                    *)

\* Allplan queues a spec that says p; without its answer, nothing is stored.
Make(s, p, original, answered) ==
    /\ made < MaxElements
    /\ made' = made + 1
    /\ queue' = [queue EXCEPT ![made + 1] = p]
    /\ from' = [from EXCEPT ![made + 1] = original]
    /\ cache' = IF answered THEN [cache EXCEPT ![s][made + 1] = p] ELSE cache
    /\ UNCHANGED place

Create(s) ==
    /\ ~Busy(s) /\ made < MaxCreated
    /\ \E answered \in BOOLEAN : Make(s, Origin, NoOriginal, answered)
    /\ UNCHANGED <<fileVars, copy>>

\* _insert_pending takes all specs, and drops those it cannot build, or all.
InsertPending ==
    LET Queued == {e \in Elements : queue[e] # 0} IN
    /\ Queued # {}
    /\ \E built \in SUBSET Queued :
          place' = [e \in Elements |-> IF e \in built THEN queue[e]
                                                      ELSE place[e]]
    /\ queue' = [e \in Elements |-> 0]
    /\ UNCHANGED <<fileVars, copy, cache, made, from>>

\* delete_element and move_element, of any server: no cache hears of it.
Displace(e) ==
    /\ place[e] # 0
    /\ place' = [place EXCEPT ![e] = 0]
    /\ UNCHANGED <<fileVars, copy, cache, made, queue, from>>

\* Mutant: a distance of 0 is no error.
CopyBeginUnchecked(s, n, asked) ==
    /\ ~Busy(s) /\ copy[s] = NoCopy /\ file = "whole"
    /\ made < MaxElements
    /\ copy' = [copy EXCEPT ![s] = [by |-> grids[n], todo |-> asked]]
    /\ UNCHANGED <<fileVars, cache, elementVars>>

\* The grid is read once.  A grid or a line that is not there, and a distance
\* of 0, end the tool.
CopyBegin(s, n, asked) ==
    /\ ~Busy(s) /\ copy[s] = NoCopy /\ file = "whole" /\ grids[n] # 0
    /\ made < MaxElements
    /\ copy' = [copy EXCEPT ![s] = [by |-> grids[n], todo |-> asked]]
    /\ UNCHANGED <<fileVars, cache, elementVars>>

AtElement(s) == ~Busy(s) /\ copy[s].todo # <<>>
Cached(s, e) == cache[s][e] # 0

Skip(s) ==
    /\ AtElement(s) /\ ~Cached(s, Head(copy[s].todo))
    /\ copy' = [copy EXCEPT ![s].todo = Tail(@)]
    /\ UNCHANGED <<fileVars, cache, elementVars>>

\* Mutant: the grid is read again for every element.
CopyOneRereads(s) ==
    LET e == Head(copy[s].todo) IN
    /\ AtElement(s) /\ Cached(s, e) /\ file = "whole"
    /\ \E n \in Names :
          /\ grids[n] # 0
          /\ Make(s, cache[s][e] + grids[n], <<e, copy[s].by>>, TRUE)
    /\ copy' = [copy EXCEPT ![s].todo = Tail(@)]
    /\ UNCHANGED fileVars

\* What offset_spec returns.
Shifted(s, e) == cache[s][e] + copy[s].by

\* The call, and storing the new element, which may be copied too.
CopyOne(s) ==
    LET e == Head(copy[s].todo) IN
    /\ AtElement(s) /\ Cached(s, e)
    /\ Make(s, Shifted(s, e), <<e, copy[s].by>>, TRUE)
    /\ copy' = [copy EXCEPT ![s].todo = Tail(@)]
    /\ UNCHANGED fileVars

\* call() raises, out of the tool, with this copy asked for in Allplan or not.
CopyFails(s) ==
    LET e == Head(copy[s].todo) IN
    /\ AtElement(s) /\ Cached(s, e)
    /\ copy' = [copy EXCEPT ![s] = NoCopy]
    /\ \/ Make(s, Shifted(s, e), <<e, copy[s].by>>, FALSE)
       \/ UNCHANGED <<cache, elementVars>>
    /\ UNCHANGED fileVars

CopyReturns(s) ==
    /\ ~Busy(s) /\ copy[s] # NoCopy /\ copy[s].todo = <<>>
    /\ copy' = [copy EXCEPT ![s] = NoCopy]
    /\ UNCHANGED <<fileVars, cache, elementVars>>

\* The process ends, wherever it is, and another one is started.
Restart(s) ==
    /\ Idle(s)
    /\ Account(saving[s] = "truncated", book)
    /\ copy' = [copy EXCEPT ![s] = NoCopy]
    /\ cache' = [cache EXCEPT ![s] = [e \in Elements |-> 0]]
    /\ UNCHANGED <<file, grids, elementVars>>

-----------------------------------------------------------------------------
\* element_uuids: uuids that are in the cache of s, or not any more.
Asked == UNION {[1..n -> 1..made] : n \in 1..MaxAsked}

StoreStep(s) ==
    \/ \E n \in Names, d \in Distances \cup {0} : Load(s, n, d)
    \/ Truncate(s) \/ Write(s) \/ SaveFails(s)

CopyStep(s) ==
    \/ \E n \in Names, asked \in Asked : CopyBegin(s, n, asked)
    \/ Skip(s) \/ CopyOne(s) \/ CopyFails(s) \/ CopyReturns(s)

Next ==
    \/ \E s \in Servers : StoreStep(s) \/ Restart(s)
    \/ \E s \in Copiers : Create(s) \/ CopyStep(s)
    \/ InsertPending
    \/ \E e \in Displaced : Displace(e)

Spec == Init /\ [][Next]_vars

-----------------------------------------------------------------------------
TypeOK ==
    /\ file \in {"whole", "empty", "torn"}
    /\ {grids, book} \subseteq Contents
    /\ saving \in [Servers -> {"no", "loaded", "truncated"}]
    /\ image \in [Servers -> Contents]
    /\ ~clash => \A s \in Servers : Busy(s) =>
          update[s] \in Names \X (Distances \cup {0})
    /\ cache \in [Servers -> [Elements -> Nat]]
    /\ made \in 0..MaxElements
    /\ {queue, place} \subseteq [Elements -> Nat]
    /\ from \in [Elements -> (0..made) \X Nat]
    /\ clash \in BOOLEAN
    /\ \A s \in Servers :
          /\ copy[s] = NoCopy \/ copy[s].by \in Distances
          /\ copy[s].todo \in Seq(1..made)

\* As long as no two processes update the grids at the same time and none ends
\* or fails in the middle of a save, grids.json holds what every answered
\* define_grid and delete_grid made of it, and can be read: reads and copies in
\* between, failed tools and restarts lose nothing.
KeptUnlessClash ==
    clash \/ (\E s \in Servers : saving[s] = "truncated")
          \/ (file = "whole" /\ grids = book)

\* A copy lies by the distance its call read at its beginning from where the
\* original is, in whichever order the two were inserted: also when the grid is
\* defined anew between two copies of the call, when the original is a copy
\* itself, when the call failed at this copy or a later one and when the server
\* was restarted since.  Nothing is said of copies of which one of the two is
\* not in the document, or was moved: a copy is made of what the cache says.
OneDistance ==
    \A e \in 1..made :
        LET old == from[e][1]
            by == from[e][2]
        IN  old # 0 /\ place[e] # 0 /\ place[old] # 0
                => place[e] = place[old] + by
=============================================================================
