----------------------------- MODULE GridProofs -----------------------------
(***************************************************************************)
(* What GridTools promises of the grids and of the copies, for every set   *)
(* of servers and grids, any distances and any number of elements.         *)
(***************************************************************************)
EXTENDS GridTools, TLAPS

-----------------------------------------------------------------------------
(* The types, those of the grids and those of the elements.                *)

Updates == (Names \X (Distances \cup {0})) \cup {<<>>}

FileTypes ==
    /\ file \in {"whole", "empty", "torn"}
    /\ grids \in Contents /\ book \in Contents
    /\ saving \in [Servers -> {"no", "loaded", "truncated"}]
    /\ image \in [Servers -> Contents]
    /\ update \in [Servers -> Updates]
    /\ clash \in BOOLEAN
    /\ ~clash => \A s \in Servers : Busy(s) => update[s] # <<>>

Calls == [by : Distances \cup {0}, todo : Seq(Elements)]

CopyTypes ==
    /\ cache \in [Servers -> [Elements -> Nat]]
    /\ made \in 0..MaxElements
    /\ queue \in [Elements -> Nat] /\ place \in [Elements -> Nat]
    /\ from \in [Elements -> Nat \X Nat]
    /\ copy \in [Servers -> Calls]

(***************************************************************************)
(* As long as there was no clash at most one process is in a save, and the *)
(* dict it saves is what the file held, or the book holds, with its update.*)
(***************************************************************************)
OneSaves ==
    ~clash => \A s, t \in Servers : Busy(s) /\ Busy(t) => s = t

Updated(s, g) == [g EXCEPT ![update[s][1]] = update[s][2]]

ImageIsCurrent ==
    ~clash => \A s \in Servers : Busy(s) => image[s] = Updated(s, book)

FileIsEmpty ==
    ~clash => \A s \in Servers : saving[s] = "truncated" => file = "empty"

FileOK == OneSaves /\ ImageIsCurrent /\ FileIsEmpty /\ KeptUnlessClash

(***************************************************************************)
(* Only elements that were asked for are known, asked to be copied or      *)
(* originals.  At(e) is where e is or will be, if at all: a cache is right *)
(* about that, which a copy has to its original's distance.                *)
(***************************************************************************)
At(e) == IF queue[e] # 0 THEN queue[e] ELSE place[e]

UnmadeUnknown ==
    \A e \in Elements : e > made =>
        /\ queue[e] = 0 /\ place[e] = 0 /\ from[e] = NoOriginal
        /\ \A s \in Servers : cache[s][e] = 0

QueuedIsNotThere == \A e \in Elements : queue[e] # 0 => place[e] = 0

CallOK(k) ==
    /\ k = NoCopy \/ k.by \in Distances
    /\ \A i \in 1..Len(k.todo) : k.todo[i] <= made

CallsOK == \A s \in Servers : CallOK(copy[s])

CacheFits ==
    \A s \in Servers, e \in Elements :
        cache[s][e] # 0 /\ At(e) # 0 => cache[s][e] = At(e)

Original(e) == from[e][1]
By(e) == from[e][2]

OriginalsMade ==
    \A e \in Elements : Original(e) # 0 =>
        Original(e) \in Elements /\ Original(e) < e /\ e <= made

CopiesFit ==
    \A e, old \in Elements :
        old = Original(e) /\ At(e) # 0 /\ At(old) # 0
            => At(e) = At(old) + By(e)

ElementsOK ==
    /\ UnmadeUnknown /\ QueuedIsNotThere /\ CallsOK /\ CacheFits
    /\ OriginalsMade /\ CopiesFit

IInv == FileTypes /\ CopyTypes /\ FileOK /\ ElementsOK

-----------------------------------------------------------------------------
\* A sequence is one over any set that has its elements.
LEMMA Narrowed ==
    ASSUME NEW S, NEW T, NEW q \in Seq(S), \A i \in 1..Len(q) : q[i] \in T
    PROVE  q \in Seq(T)
  OBVIOUS

\* A server that copies nothing is where a call may be.
LEMMA NoCopyOK == NoCopy \in Calls /\ CallOK(NoCopy)
  <1>1. <<>> \in Seq(Elements)
    OBVIOUS
  <1> QED
    BY <1>1 DEF NoCopy, Calls, CallOK

\* The file is empty and no element was made.
LEMMA InitOK == Init => IInv
  <1> SUFFICES ASSUME Init PROVE IInv
    OBVIOUS
  <1> USE DEF Init
  <1>1. NoGrids \in Contents
    BY DEF NoGrids, Contents
  <1>2. FileTypes
    BY <1>1 DEF FileTypes, Updates, Busy, NoUpdates
  <1>4. CopyTypes
    BY NoCopyOK, BoundsAssumption DEF CopyTypes, NoOriginal
  <1>5. FileOK
    BY DEF FileOK, OneSaves, ImageIsCurrent, FileIsEmpty, KeptUnlessClash, Busy
  <1>6. ElementsOK
    <2>1. UnmadeUnknown /\ QueuedIsNotThere /\ CacheFits
      BY DEF UnmadeUnknown, QueuedIsNotThere, CacheFits
    <2>2. CallsOK
      BY NoCopyOK DEF CallsOK
    <2>3. \A e \in Elements : Original(e) = 0
      BY DEF Original, NoOriginal
    <2>4. OriginalsMade /\ CopiesFit
      BY <2>3, BoundsAssumption DEF OriginalsMade, CopiesFit, Elements
    <2> QED
      BY <2>1, <2>2, <2>4 DEF ElementsOK
  <1> QED
    BY <1>2, <1>4, <1>5, <1>6 DEF IInv

\* What is not changed stays as it is.
LEMMA Frame ==
    ASSUME IInv
    PROVE  /\ UNCHANGED fileVars => FileTypes' /\ FileOK'
           /\ UNCHANGED copyVars => CopyTypes' /\ ElementsOK'
  <1>1. UNCHANGED fileVars => FileTypes' /\ FileOK'
    BY DEF IInv, fileVars, FileTypes, FileOK, OneSaves, ImageIsCurrent,
           Updated,
           FileIsEmpty, KeptUnlessClash, Busy
  <1>2. UNCHANGED copyVars => CopyTypes'
    BY DEF IInv, copyVars, elementVars, CopyTypes
  <1>3. UNCHANGED copyVars => ElementsOK'
    BY DEF IInv, copyVars, elementVars, ElementsOK, UnmadeUnknown,
           QueuedIsNotThere, CallsOK, CallOK, CacheFits, OriginalsMade,
           CopiesFit, At, Original, By
  <1> QED
    BY <1>1, <1>2, <1>3

-----------------------------------------------------------------------------
(* The grids.                                                              *)

\* Who loads the file remembers what is in it.
LEMMA LoadStep ==
    ASSUME IInv, NEW s \in Servers, NEW n \in Names,
           NEW d \in Distances \cup {0}, Load(s, n, d)
    PROVE  FileTypes' /\ FileOK'
  <1> USE DEF IInv
  <1>1. /\ saving[s] = "no" /\ file = "whole"
        /\ image' = [image EXCEPT ![s] = [grids EXCEPT ![n] = d]]
        /\ update' = IF clash' THEN NoUpdates
                                ELSE [update EXCEPT ![s] = <<n, d>>]
        /\ saving' = [saving EXCEPT ![s] = "loaded"]
        /\ clash' = (clash \/ \E t \in Servers : Busy(t))
        /\ book' = IF clash' THEN NoGrids ELSE book
        /\ file' = file /\ grids' = grids
    BY DEF Load, Account, Busy
  <1>2. <<n, d>> \in Updates /\ <<n, d>> # <<>>
    BY DEF Updates
  <1>3. [grids EXCEPT ![n] = d] \in Contents /\ NoGrids \in Contents
    BY DEF FileTypes, Contents, NoGrids
  <1>4. FileTypes'
    <2>1. NoUpdates \in [Servers -> Updates]
      BY DEF NoUpdates, Updates
    <2>2. /\ update' \in [Servers -> Updates]
          /\ saving' \in [Servers -> {"no", "loaded", "truncated"}]
          /\ image' \in [Servers -> Contents] /\ book' \in Contents
      BY <1>1, <1>2, <1>3, <2>1 DEF FileTypes
    <2>3. ASSUME ~clash', NEW t \in Servers, Busy(t)' PROVE update'[t] # <<>>
      <3>1. t # s => Busy(t) /\ update'[t] = update[t]
        BY <1>1, <2>3 DEF FileTypes, Busy
      <3>2. t = s => update'[t] = <<n, d>>
        BY <1>1, <2>3 DEF FileTypes
      <3> QED
        BY <1>1, <1>2, <2>3, <3>1, <3>2 DEF FileTypes
    <2> QED
      BY <1>1, <2>2, <2>3 DEF FileTypes
  <1>5. SUFFICES ASSUME ~clash' PROVE FileOK'
    BY <1>4 DEF FileOK, OneSaves, ImageIsCurrent, FileIsEmpty, KeptUnlessClash
  <1>6. /\ ~clash /\ book' = book /\ \A t \in Servers : saving[t] = "no"
    BY <1>1, <1>5 DEF FileTypes, Busy
  <1>7. grids = book
    BY <1>6 DEF FileOK, KeptUnlessClash
  <1>8. \A t \in Servers : Busy(t)' => t = s
    BY <1>1, <1>6 DEF FileTypes, Busy
  <1>9. saving'[s] = "loaded" /\ image'[s] = Updated(s, book)'
    <2>1. update'[s] = <<n, d>> /\ image'[s] = [grids EXCEPT ![n] = d]
      BY <1>1, <1>5 DEF FileTypes
    <2>2. update'[s][1] = n /\ update'[s][2] = d
      BY <2>1
    <2>3. Updated(s, book)' = [book' EXCEPT ![n] = d]
      BY <2>2 DEF Updated
    <2>4. saving'[s] = "loaded"
      BY <1>1 DEF FileTypes
    <2> QED
      BY <1>6, <1>7, <2>1, <2>3, <2>4
  <1>10. OneSaves' /\ ImageIsCurrent'
    BY <1>8, <1>9 DEF OneSaves, ImageIsCurrent
  <1>11. FileIsEmpty' /\ KeptUnlessClash'
    BY <1>1, <1>6, <1>7, <1>8, <1>9 DEF FileIsEmpty, KeptUnlessClash, Busy
  <1> QED
    BY <1>4, <1>10, <1>11 DEF FileOK

\* A save empties the file before it writes.
LEMMA TruncateStep ==
    ASSUME IInv, NEW s \in Servers, Truncate(s)
    PROVE  FileTypes' /\ FileOK'
  <1> USE DEF IInv
  <1>1. /\ saving[s] = "loaded"
        /\ saving' = [saving EXCEPT ![s] = "truncated"]
        /\ file' = "empty" /\ grids' = NoGrids
        /\ image' = image /\ update' = update /\ book' = book
        /\ clash' = clash
    BY DEF Truncate
  <1>2. NoGrids \in Contents
    BY DEF NoGrids, Contents
  <1>3. saving'[s] = "truncated" /\ \A t \in Servers : Busy(t)' <=> Busy(t)
    BY <1>1 DEF FileTypes, Busy
  <1>4. FileTypes'
    BY <1>1, <1>2, <1>3 DEF FileTypes
  <1>5. OneSaves' /\ ImageIsCurrent' /\ FileIsEmpty'
    BY <1>1, <1>3 DEF FileOK, OneSaves, ImageIsCurrent, FileIsEmpty, Updated
  <1>6. KeptUnlessClash'
    BY <1>3 DEF KeptUnlessClash
  <1> QED
    BY <1>4, <1>5, <1>6 DEF FileOK

\* A process leaves its save: how it stands with the others.
LEMMA IdleFacts ==
    ASSUME IInv, NEW s \in Servers, Idle(s)
    PROVE  /\ saving' \in [Servers -> {"no", "loaded", "truncated"}]
           /\ image' \in [Servers -> Contents]
           /\ update' \in [Servers -> Updates]
           /\ saving'[s] = "no"
           /\ \A t \in Servers \ {s} :
                 /\ saving'[t] = saving[t]
                 /\ image'[t] = image[t] /\ update'[t] = update[t]
  <1>1. NoGrids \in Contents /\ <<>> \in Updates
    BY DEF NoGrids, Contents, Updates
  <1> QED
    BY <1>1 DEF Idle, IInv, FileTypes

\* The only one who saves writes what the book says from then on.
LEMMA WriteStep ==
    ASSUME IInv, NEW s \in Servers, Write(s)
    PROVE  FileTypes' /\ FileOK'
  <1> USE DEF IInv
  <1>1. /\ saving[s] = "truncated" /\ Busy(s) /\ Idle(s)
        /\ \/ file' = "whole" /\ grids' = image[s]
           \/ file # "empty" /\ file' = "torn" /\ grids' = NoGrids
        /\ clash' = clash
        /\ book' = IF clash THEN NoGrids ELSE Updated(s, book)
    BY DEF Write, Account, Busy, Updated, FileTypes
  <1>2. /\ NoGrids \in Contents /\ image[s] \in Contents
        /\ ~clash => Updated(s, book) \in Contents
    <2>1. ~clash => update[s] \in Names \X (Distances \cup {0})
      BY <1>1 DEF FileTypes, Updates
    <2>2. ~clash => Updated(s, book) \in Contents
      BY <2>1 DEF Updated, Contents, FileTypes
    <2> QED
      BY <2>2 DEF NoGrids, Contents, FileTypes
  <1>3. FileTypes'
    BY <1>1, <1>2, IdleFacts DEF FileTypes, Busy
  <1>4. SUFFICES ASSUME ~clash PROVE FileOK'
    BY <1>1, <1>3
    DEF FileOK, OneSaves, ImageIsCurrent, FileIsEmpty, KeptUnlessClash
  <1>5. /\ file = "empty" /\ image[s] = Updated(s, book)
        /\ \A t \in Servers : Busy(t) => t = s
    BY <1>1, <1>4 DEF FileOK, OneSaves, ImageIsCurrent, FileIsEmpty
  <1>6. \A t \in Servers : ~Busy(t)' /\ saving'[t] = "no"
    BY <1>1, <1>5, IdleFacts DEF Busy
  <1>7. file' = "whole" /\ grids' = book'
    BY <1>1, <1>4, <1>5
  <1> QED
    BY <1>6, <1>7
    DEF FileOK, OneSaves, ImageIsCurrent, FileIsEmpty, KeptUnlessClash

\* A process that ends or fails in a save leaves the book as it is, or the
\* save was cut short.
LEMMA LeaveStep ==
    ASSUME IInv, NEW s \in Servers, Idle(s),
           Account(saving[s] = "truncated", book), UNCHANGED <<file, grids>>
    PROVE  FileTypes' /\ FileOK'
  <1> USE DEF IInv
  <1>1. /\ clash' = (clash \/ saving[s] = "truncated")
        /\ book' = IF clash' THEN NoGrids ELSE book
        /\ NoGrids \in Contents
    BY DEF Account, NoGrids, Contents
  <1>2. FileTypes'
    BY <1>1, IdleFacts DEF FileTypes, Busy
  <1>3. SUFFICES ASSUME ~clash' PROVE FileOK'
    BY <1>2 DEF FileOK, OneSaves, ImageIsCurrent, FileIsEmpty, KeptUnlessClash
  <1>4. ~clash /\ saving[s] # "truncated" /\ book' = book
    BY <1>1, <1>3 DEF FileTypes
  <1>5. \A t \in Servers : Busy(t)' => t # s /\ Busy(t)
    BY IdleFacts DEF Busy
  <1>6. OneSaves' /\ ImageIsCurrent' /\ FileIsEmpty'
    BY <1>4, <1>5, IdleFacts
    DEF FileOK, OneSaves, ImageIsCurrent, FileIsEmpty, Updated, Busy
  <1>7. KeptUnlessClash'
    BY <1>4, IdleFacts DEF FileOK, KeptUnlessClash
  <1> QED
    BY <1>6, <1>7 DEF FileOK

\* No access to the file disturbs what is known of elements.
LEMMA StoreStepOK ==
    ASSUME IInv, NEW s \in Servers, StoreStep(s)
    PROVE  IInv'
  <1>1. ASSUME NEW n \in Names, NEW d \in Distances \cup {0}, Load(s, n, d)
        PROVE  IInv'
    BY <1>1, LoadStep, Frame DEF Load, IInv
  <1>2. ASSUME Truncate(s) PROVE IInv'
    BY <1>2, TruncateStep, Frame DEF Truncate, IInv
  <1>3. ASSUME Write(s) PROVE IInv'
    BY <1>3, WriteStep, Frame DEF Write, IInv
  <1>4. ASSUME SaveFails(s) PROVE IInv'
    BY <1>4, LeaveStep, Frame DEF SaveFails, IInv
  <1> QED
    BY <1>1, <1>2, <1>3, <1>4 DEF StoreStep

-----------------------------------------------------------------------------
(* Elements and their copies.                                              *)

\* A call that is not touched is as good as it was when elements are made.
LEMMA CallKept ==
    ASSUME IInv, NEW t \in Servers, copy'[t] = copy[t],
           made' \in Nat, made <= made'
    PROVE  CallOK(copy[t])'
  <1> DEFINE k == copy[t]
  <1>1. CallOK(k) /\ k \in Calls /\ made \in Nat
    BY DEF IInv, ElementsOK, CallsOK, CopyTypes
  <1>2. \A i \in 1..Len(k.todo) : k.todo[i] \in Nat /\ k.todo[i] <= made'
    <2>1. \A i \in 1..Len(k.todo) : k.todo[i] \in Nat
      BY <1>1, BoundsAssumption DEF Calls, Elements
    <2> QED
      BY <1>1, <2>1 DEF CallOK
  <1> QED
    BY <1>1, <1>2 DEF CallOK

\* A new element is at the next number; an original, if it has one, is where
\* the new one is less the distance.  The others stay as they are.
LEMMA MakeStep ==
    ASSUME IInv, NEW s \in Servers, NEW p \in Nat,
           NEW old \in Nat, NEW by \in Nat, NEW answered \in BOOLEAN,
           Make(s, p, <<old, by>>, answered),
           old # 0 => /\ old \in Elements /\ old <= made
                      /\ At(old) # 0 => p = At(old) + by,
           copy' \in [Servers -> Calls], CallOK(copy[s])',
           \A t \in Servers \ {s} : copy'[t] = copy[t],
           UNCHANGED fileVars
    PROVE  IInv'
  <1> USE DEF IInv
  <1> DEFINE m == made + 1
  <1>1. /\ made \in Nat /\ made' = m /\ m \in Elements /\ m \in 0..MaxElements
        /\ queue' = [queue EXCEPT ![m] = p] /\ place' = place
        /\ from' = [from EXCEPT ![m] = <<old, by>>]
        /\ cache' = IF answered THEN [cache EXCEPT ![s][m] = p] ELSE cache
    BY BoundsAssumption DEF Make, CopyTypes, Elements
  <1>2. CopyTypes'
    BY <1>1 DEF CopyTypes
  <1>3. /\ queue'[m] = p /\ from'[m] = <<old, by>>
        /\ \A e \in Elements : e # m => /\ queue'[e] = queue[e]
                                       /\ from'[e] = from[e]
        /\ \A t \in Servers, e \in Elements :
               cache'[t][e] = IF answered /\ t = s /\ e = m THEN p
                                                           ELSE cache[t][e]
    BY <1>1 DEF CopyTypes
  <1>4. place[m] = 0 /\ \A t \in Servers : cache[t][m] = 0
    BY <1>1 DEF ElementsOK, UnmadeUnknown
  <1>5. /\ \A e \in Elements : e \in Nat /\ (e > m => e # m /\ e > made)
        /\ \A e \in Elements : e <= made => e # m /\ e <= m
    BY <1>1, BoundsAssumption DEF Elements
  <1> HIDE DEF m
  <1>6. UnmadeUnknown' /\ QueuedIsNotThere'
    BY <1>1, <1>3, <1>4, <1>5 DEF ElementsOK, UnmadeUnknown, QueuedIsNotThere
  <1>7. \A e \in Elements : /\ e = m => At(e)' = p
                            /\ e # m => At(e)' = At(e)
    BY <1>1, <1>3, <1>4 DEF At
  <1>8. CallsOK'
    <2>1. made' \in Nat /\ made <= made'
      BY <1>1 DEF m
    <2> QED
      BY <2>1, CallKept DEF CallsOK
  <1>9. CacheFits'
    BY <1>3, <1>4, <1>7 DEF ElementsOK, CacheFits
  <1>10. \A e \in Elements : /\ e = m => Original(e)' = old /\ By(e)' = by
                             /\ e # m => /\ Original(e)' = Original(e)
                                         /\ By(e)' = By(e)
    BY <1>3 DEF Original, By
  <1>11. OriginalsMade'
    BY <1>1, <1>5, <1>10 DEF ElementsOK, OriginalsMade, m
  <1>12. CopiesFit'
    <2> SUFFICES ASSUME NEW e \in Elements, NEW d \in Elements,
                        d = Original(e)', At(e)' # 0, At(d)' # 0
                 PROVE  At(e)' = At(d)' + By(e)'
      BY DEF CopiesFit
    <2>1. d # 0 /\ d # m
      <3>1. d # 0
        BY BoundsAssumption DEF Elements
      <3>2. CASE e = m
        BY <1>5, <1>10, <3>1, <3>2
      <3>3. CASE e # m
        <4>1. d = Original(e)
          BY <1>10, <3>3
        <4>2. d < e /\ e <= made
          BY <3>1, <4>1 DEF ElementsOK, OriginalsMade
        <4>3. d \in Nat /\ e \in Nat /\ made \in Nat
          BY <1>1, <1>5
        <4>4. d <= made
          BY <4>2, <4>3
        <4> QED
          BY <1>5, <3>1, <4>4
      <3> QED
        BY <3>1, <3>2, <3>3
    <2>2. CASE e = m
      BY <1>7, <1>10, <2>1, <2>2
    <2>3. CASE e # m
      BY <1>7, <1>10, <2>1, <2>3 DEF ElementsOK, CopiesFit
    <2> QED
      BY <2>2, <2>3
  <1> QED
    BY <1>2, <1>6, <1>8, <1>9, <1>11, <1>12, Frame DEF ElementsOK

\* One server's call changes, and is good; nobody is made, moved or deleted.
LEMMA CallStep ==
    ASSUME IInv, NEW s \in Servers, NEW k \in Calls,
           copy' = [copy EXCEPT ![s] = k], CallOK(k),
           UNCHANGED <<fileVars, cache, elementVars>>
    PROVE  IInv'
  <1> USE DEF IInv
  <1>1. CopyTypes' /\ copy'[s] = k
    BY DEF CopyTypes, elementVars
  <1>2. /\ UnmadeUnknown' /\ QueuedIsNotThere' /\ CacheFits'
        /\ OriginalsMade' /\ CopiesFit'
    BY DEF ElementsOK, UnmadeUnknown, QueuedIsNotThere, CacheFits,
           OriginalsMade, CopiesFit, At, Original, By, elementVars
  <1>3. \A t \in Servers : copy'[t] = k \/ copy'[t] = copy[t]
    BY DEF CopyTypes
  <1>4. CallsOK'
    BY <1>3 DEF ElementsOK, CallsOK, CallOK, elementVars
  <1> QED
    BY <1>1, <1>2, <1>4, Frame DEF ElementsOK

\* Of a call with elements still to do, the first is taken off.
LEMMA NextElement ==
    ASSUME IInv, NEW s \in Servers, copy[s].todo # <<>>
    PROVE  LET e == Head(copy[s].todo)
               rest == [copy[s] EXCEPT !.todo = Tail(@)]
           IN  /\ e \in Elements /\ e <= made
               /\ copy[s].by \in Distances
               /\ rest \in Calls /\ CallOK(rest)
               /\ \A i \in 1..Len(rest.todo) : rest.todo[i] \in Nat
  <1> DEFINE todo == copy[s].todo
             rest == [copy[s] EXCEPT !.todo = Tail(@)]
  <1>1. copy[s] \in Calls /\ CallOK(copy[s]) /\ todo \in Seq(Elements)
    BY DEF IInv, CopyTypes, ElementsOK, CallsOK, Calls
  <1>2. copy[s].by \in Distances
    BY <1>1 DEF CallOK, NoCopy
  <1>3. \A i \in 1..Len(todo) : todo[i] <= made
    BY <1>1 DEF CallOK
  <1>4. rest.todo = Tail(todo) /\ rest.by = copy[s].by
    BY <1>1 DEF Calls
  <1> HIDE DEF todo
  <1>5. /\ Head(todo) = todo[1] /\ 1 \in 1..Len(todo) /\ Head(todo) \in Elements
        /\ Tail(todo) \in Seq(Elements)
        /\ \A i \in 1..Len(Tail(todo)) :
              Tail(todo)[i] = todo[i + 1] /\ i + 1 \in 1..Len(todo)
    BY <1>1 DEF todo
  <1>6. rest \in Calls
    BY <1>1, <1>5 DEF Calls, todo
  <1> HIDE DEF rest
  <1>7. CallOK(rest)
    BY <1>2, <1>3, <1>4, <1>5 DEF CallOK
  <1>8. \A i \in 1..Len(rest.todo) : rest.todo[i] \in Nat
    BY <1>4, <1>5, BoundsAssumption DEF Elements
  <1> QED
    BY <1>2, <1>3, <1>5, <1>6, <1>7, <1>8 DEF todo, rest

\* Passing over an element changes nothing else.
LEMMA SkipStep ==
    ASSUME IInv, NEW s \in Servers, Skip(s)
    PROVE  IInv'
  <1> DEFINE k == [copy[s] EXCEPT !.todo = Tail(@)]
  <1>1. k \in Calls /\ CallOK(k)
    BY NextElement DEF Skip, AtElement
  <1>2. copy' = [copy EXCEPT ![s] = k]
    BY DEF Skip
  <1> HIDE DEF k
  <1> QED
    BY <1>1, <1>2, CallStep DEF Skip

\* A call begins with a distance, and elements that were asked for.
LEMMA CopyBeginStep ==
    ASSUME IInv, NEW s \in Servers, NEW n \in Names, NEW asked \in Asked,
           CopyBegin(s, n, asked)
    PROVE  IInv'
  <1> DEFINE k == [by |-> grids[n], todo |-> asked]
  <1>1. PICK l \in 1..MaxAsked : asked \in [1..l -> 1..made]
    BY DEF Asked
  <1>2. l \in Nat /\ made \in 0..MaxElements /\ 1..made \subseteq Elements
    BY BoundsAssumption DEF IInv, CopyTypes, Elements
  <1>3. asked \in Seq(Elements) /\ Len(asked) = l
    BY <1>1, <1>2
  <1>4. grids[n] \in Distances
    BY DEF CopyBegin, IInv, FileTypes, Contents
  <1>5. k \in Calls
    BY <1>3, <1>4 DEF Calls
  <1>6. \A i \in 1..Len(asked) : asked[i] <= made
    BY <1>1, <1>2, <1>3
  <1>7. CallOK(k)
    BY <1>4, <1>6 DEF CallOK
  <1>8. copy' = [copy EXCEPT ![s] = k]
    BY DEF CopyBegin
  <1> HIDE DEF k
  <1> QED
    BY <1>5, <1>7, <1>8, CallStep DEF CopyBegin

\* A new element is cached, if at all, where its spec says.
LEMMA CreateStep ==
    ASSUME IInv, NEW s \in Servers, Create(s)
    PROVE  IInv'
  <1>1. PICK answered \in BOOLEAN : Make(s, Origin, <<0, 0>>, answered)
    BY DEF Create, NoOriginal
  <1>2. Origin \in Nat /\ copy' = copy /\ UNCHANGED fileVars
    BY DEF Origin, Create
  <1>3. copy' \in [Servers -> Calls] /\ \A t \in Servers : copy'[t] = copy[t]
    BY <1>2 DEF IInv, CopyTypes
  <1>4. CallOK(copy[s])'
    <2>1. made' \in Nat /\ made <= made'
      BY <1>1 DEF Make, IInv, CopyTypes
    <2> QED
      BY <1>3, <2>1, CallKept
  <1> QED
    BY <1>1, <1>2, <1>3, <1>4, MakeStep

\* What is asked for lies by the call's distance from where the cache has the
\* original, which is where that is or will be.
LEMMA ShiftedOK ==
    ASSUME IInv, NEW s \in Servers, AtElement(s),
           Cached(s, Head(copy[s].todo))
    PROVE  LET e == Head(copy[s].todo) IN
           /\ e \in Elements /\ e \in Nat /\ e <= made
           /\ copy[s].by \in Nat /\ Shifted(s, e) \in Nat
           /\ At(e) # 0 => Shifted(s, e) = At(e) + copy[s].by
  <1> DEFINE e == Head(copy[s].todo)
  <1>1. e \in Elements /\ e <= made /\ copy[s].by \in Distances
    BY NextElement DEF AtElement
  <1>2. cache[s][e] \in Nat /\ (At(e) # 0 => cache[s][e] = At(e))
    BY <1>1 DEF Cached, IInv, CopyTypes, ElementsOK, CacheFits
  <1>3. Shifted(s, e) = cache[s][e] + copy[s].by
    BY DEF Shifted
  <1> HIDE DEF e
  <1>4. copy[s].by \in Nat /\ e \in Nat
    <2>1. copy[s].by \in Nat
      BY <1>1, DistancesAssumption
    <2>2. e \in Nat
      BY <1>1, BoundsAssumption DEF Elements
    <2> QED
      BY <2>1, <2>2
  <1>5. /\ e \in Elements /\ e \in Nat /\ e <= made
        /\ copy[s].by \in Nat /\ Shifted(s, e) \in Nat
        /\ At(e) # 0 => Shifted(s, e) = At(e) + copy[s].by
    BY <1>1, <1>2, <1>3, <1>4
  <1> QED
    BY <1>5 DEF e

\* A copy fits its original, whether its response comes or not.
LEMMA CopyMade ==
    ASSUME IInv, NEW s \in Servers, AtElement(s),
           Cached(s, Head(copy[s].todo)), NEW answered \in BOOLEAN,
           Make(s, Shifted(s, Head(copy[s].todo)),
                <<Head(copy[s].todo), copy[s].by>>, answered),
           NEW k \in Calls, copy' = [copy EXCEPT ![s] = k], CallOK(k),
           UNCHANGED fileVars
    PROVE  IInv'
  <1> DEFINE e == Head(copy[s].todo)
             p == Shifted(s, e)
             by == copy[s].by
  <1>1. /\ e \in Elements /\ e \in Nat /\ e <= made /\ by \in Nat /\ p \in Nat
        /\ At(e) # 0 => p = At(e) + by
    BY ShiftedOK
  <1>2. Make(s, p, <<e, by>>, answered)
    OBVIOUS
  <1>3. /\ copy' \in [Servers -> Calls] /\ copy'[s] = k
        /\ \A t \in Servers \ {s} : copy'[t] = copy[t]
    BY DEF IInv, CopyTypes
  <1> HIDE DEF e, p, by
  <1>4. CallOK(copy[s])'
    <2>1. \A i \in 1..Len(k.todo) : k.todo[i] \in Nat
      BY BoundsAssumption DEF Calls, Elements
    <2>2. made \in Nat /\ made' = made + 1
      BY <1>2 DEF Make, IInv, CopyTypes
    <2> QED
      BY <1>3, <2>1, <2>2 DEF CallOK
  <1> QED
    BY <1>1, <1>2, <1>3, <1>4, MakeStep

\* Every step of a copy keeps the file, and the distances of the copies.
LEMMA CopyStepOK ==
    ASSUME IInv, NEW s \in Servers, CopyStep(s)
    PROVE  IInv'
  <1>1. ASSUME CopyOne(s) PROVE IInv'
    <2> DEFINE k == [copy[s] EXCEPT !.todo = Tail(@)]
    <2>1. k \in Calls /\ CallOK(k)
      BY <1>1, NextElement DEF CopyOne, AtElement
    <2>2. /\ copy' = [copy EXCEPT ![s] = k] /\ UNCHANGED fileVars
          /\ AtElement(s) /\ Cached(s, Head(copy[s].todo))
          /\ Make(s, Shifted(s, Head(copy[s].todo)),
                  <<Head(copy[s].todo), copy[s].by>>, TRUE)
      BY <1>1 DEF CopyOne
    <2> HIDE DEF k
    <2> QED
      BY <2>1, <2>2, CopyMade
  <1>2. ASSUME CopyFails(s) PROVE IInv'
    <2>1. /\ copy' = [copy EXCEPT ![s] = NoCopy] /\ UNCHANGED fileVars
          /\ AtElement(s) /\ Cached(s, Head(copy[s].todo))
          /\ \/ Make(s, Shifted(s, Head(copy[s].todo)),
                     <<Head(copy[s].todo), copy[s].by>>, FALSE)
             \/ UNCHANGED <<cache, elementVars>>
      BY <1>2 DEF CopyFails
    <2> QED
      BY <2>1, NoCopyOK, CopyMade, CallStep
  <1>3. ASSUME CopyReturns(s) PROVE IInv'
    BY <1>3, NoCopyOK, CallStep DEF CopyReturns
  <1> QED
    BY <1>1, <1>2, <1>3, CopyBeginStep, SkipStep DEF CopyStep

\* What changes the document only takes elements from the queue to where they
\* were asked for, or away.
LEMMA DocumentStep ==
    ASSUME IInv, queue' \in [Elements -> Nat], place' \in [Elements -> Nat],
           QueuedIsNotThere', \A e \in Elements : At(e)' \in {At(e), 0},
           \A e \in Elements : e > made => queue'[e] = 0 /\ place'[e] = 0,
           UNCHANGED <<fileVars, copy, cache, made, from>>
    PROVE  IInv'
  <1> USE DEF IInv
  <1>1. CopyTypes' /\ UnmadeUnknown' /\ CallsOK'
    BY DEF CopyTypes, ElementsOK, UnmadeUnknown, CallsOK, CallOK
  <1>2. CacheFits'
    <2> SUFFICES ASSUME NEW s \in Servers, NEW e \in Elements,
                        cache[s][e] # 0, At(e)' # 0
                 PROVE  cache[s][e] = At(e)'
      BY DEF CacheFits
    <2>1. At(e)' = At(e)
      OBVIOUS
    <2> QED
      BY <2>1 DEF ElementsOK, CacheFits
  <1>3. OriginalsMade' /\ \A e \in Elements : /\ Original(e)' = Original(e)
                                              /\ By(e)' = By(e)
    BY DEF ElementsOK, OriginalsMade, Original, By
  <1>4. CopiesFit'
    <2> SUFFICES ASSUME NEW e \in Elements, NEW old \in Elements,
                        old = Original(e)', At(e)' # 0, At(old)' # 0
                 PROVE  At(e)' = At(old)' + By(e)'
      BY DEF CopiesFit
    <2>1. At(old)' = At(old) /\ At(e)' = At(e)
      OBVIOUS
    <2> QED
      BY <1>3, <2>1 DEF ElementsOK, CopiesFit
  <1> QED
    BY <1>1, <1>2, <1>3, <1>4, Frame DEF ElementsOK

\* Inserted elements are where their specs said.
LEMMA InsertPendingStep == IInv /\ InsertPending => IInv'
  <1> SUFFICES ASSUME IInv, InsertPending PROVE IInv'
    OBVIOUS
  <1> DEFINE Queued == {e \in Elements : queue[e] # 0}
  <1>1. PICK built \in SUBSET Queued :
           place' = [e \in Elements |-> IF e \in built THEN queue[e]
                                                       ELSE place[e]]
    BY DEF InsertPending
  <1>2. /\ queue' = [e \in Elements |-> 0]
        /\ UNCHANGED <<fileVars, copy, cache, made, from>>
    BY DEF InsertPending
  <1>3. queue' \in [Elements -> Nat] /\ place' \in [Elements -> Nat]
    BY <1>1, <1>2 DEF IInv, CopyTypes
  <1>4. QueuedIsNotThere'
    BY <1>2 DEF QueuedIsNotThere
  <1>5. \A e \in Elements : At(e)' \in {At(e), 0}
    BY <1>1, <1>2 DEF IInv, ElementsOK, QueuedIsNotThere, At
  <1>6. \A e \in Elements : e > made => queue'[e] = 0 /\ place'[e] = 0
    BY <1>1, <1>2 DEF IInv, ElementsOK, UnmadeUnknown
  <1> HIDE DEF Queued
  <1> QED
    BY <1>2, <1>3, <1>4, <1>5, <1>6, DocumentStep

\* Who displaces an element by hand leaves the cache as it is.
LEMMA DisplaceStep ==
    ASSUME IInv, NEW d \in Displaced, Displace(d)
    PROVE  IInv'
  <1>1. /\ d \in Elements /\ place' = [place EXCEPT ![d] = 0]
        /\ queue' = queue
        /\ UNCHANGED <<fileVars, copy, cache, made, from>>
    BY BoundsAssumption DEF Displace, Elements
  <1>2. /\ queue' \in [Elements -> Nat] /\ place' \in [Elements -> Nat]
        /\ \A e \in Elements : place'[e] \in {place[e], 0}
    BY <1>1 DEF IInv, CopyTypes
  <1>3. QueuedIsNotThere'
    BY <1>1, <1>2 DEF IInv, ElementsOK, QueuedIsNotThere
  <1>4. \A e \in Elements : At(e)' \in {At(e), 0}
    BY <1>1, <1>2 DEF At
  <1>5. \A e \in Elements : e > made => queue'[e] = 0 /\ place'[e] = 0
    BY <1>1, <1>2 DEF IInv, ElementsOK, UnmadeUnknown
  <1> QED
    BY <1>1, <1>2, <1>3, <1>4, <1>5, DocumentStep

\* A process that starts anew remembers nothing.
LEMMA RestartStep ==
    ASSUME IInv, NEW s \in Servers, Restart(s)
    PROVE  IInv'
  <1> USE DEF IInv
  <1>1. FileTypes' /\ FileOK'
    BY LeaveStep DEF Restart
  <1>2. /\ copy' = [copy EXCEPT ![s] = NoCopy]
        /\ cache' = [cache EXCEPT ![s] = [e \in Elements |-> 0]]
        /\ made' = made /\ queue' = queue /\ place' = place /\ from' = from
    BY DEF Restart, elementVars
  <1>3. CopyTypes'
    BY <1>2, NoCopyOK DEF CopyTypes
  <1>4. \A t \in Servers, e \in Elements : cache'[t][e] \in {cache[t][e], 0}
    BY <1>2 DEF CopyTypes
  <1>5. UnmadeUnknown'
    BY <1>2, <1>4 DEF ElementsOK, UnmadeUnknown
  <1>6. CacheFits' /\ QueuedIsNotThere' /\ OriginalsMade' /\ CopiesFit'
    BY <1>2, <1>4 DEF ElementsOK, CacheFits, QueuedIsNotThere, OriginalsMade,
                      CopiesFit, At, Original, By
  <1>7. CallsOK'
    <2>1. \A t \in Servers : copy'[t] = NoCopy \/ copy'[t] = copy[t]
      BY <1>2 DEF CopyTypes
    <2> QED
      BY <1>2, <2>1, NoCopyOK DEF ElementsOK, CallsOK, CallOK
  <1> QED
    BY <1>1, <1>3, <1>5, <1>6, <1>7 DEF ElementsOK

-----------------------------------------------------------------------------
\* Every step keeps the invariant.
LEMMA NextOK == IInv /\ [Next]_vars => IInv'
  <1> SUFFICES ASSUME IInv, [Next]_vars PROVE IInv'
    OBVIOUS
  <1>1. ASSUME NEW s \in Servers, StoreStep(s) \/ Restart(s) PROVE IInv'
    BY <1>1, StoreStepOK, RestartStep
  <1>2. ASSUME NEW s \in Copiers, Create(s) \/ CopyStep(s) PROVE IInv'
    BY <1>2, CopiersAssumption, CreateStep, CopyStepOK
  <1>3. ASSUME NEW e \in Displaced, Displace(e) PROVE IInv'
    BY <1>3, DisplaceStep
  <1>4. ASSUME UNCHANGED vars PROVE IInv'
    BY <1>4, Frame DEF vars, IInv
  <1> QED
    BY <1>1, <1>2, <1>3, <1>4, InsertPendingStep DEF Next

\* The invariant holds of every state that is reached.
LEMMA Inductive == Spec => []IInv
  <1> QED
    BY InitOK, NextOK, PTL DEF Spec

-----------------------------------------------------------------------------
(* The results.                                                            *)

\* grids.json holds what the answered tools made of it, unless two processes
\* updated it at the same time or one ended in the middle of a save.
THEOREM GridsAreKept == Spec => []KeptUnlessClash
  <1>1. IInv => KeptUnlessClash
    BY DEF IInv, FileOK
  <1> QED
    BY <1>1, Inductive, PTL

\* A copy that is in the document with its original lies by the distance that
\* its call read, whatever became of the grid, the call and the server since.
THEOREM CopiesKeepDistance == Spec => []OneDistance
  <1>1. IInv => OneDistance
    <2> SUFFICES ASSUME IInv, NEW e \in 1..made, Original(e) # 0,
                        place[e] # 0, place[Original(e)] # 0
                 PROVE  place[e] = place[Original(e)] + By(e)
      BY DEF OneDistance, Original, By
    <2>1. e \in Elements /\ Original(e) \in Elements
      BY BoundsAssumption
      DEF IInv, CopyTypes, Elements, ElementsOK, OriginalsMade
    <2>2. At(e) = place[e] /\ At(Original(e)) = place[Original(e)]
      BY <2>1 DEF IInv, ElementsOK, QueuedIsNotThere, At
    <2> QED
      BY <2>1, <2>2 DEF IInv, ElementsOK, CopiesFit
  <1> QED
    BY <1>1, Inductive, PTL

\* Every variable stays within its type: no copy asks for an element that was
\* not made, and every copy has a distance.
THEOREM TypeCorrect == Spec => []TypeOK
  <1>1. IInv => TypeOK
    <2>1. SUFFICES ASSUME IInv PROVE TypeOK
      OBVIOUS
    <2>2. ~clash => \A s \in Servers : Busy(s) =>
             update[s] \in Names \X (Distances \cup {0})
      BY <2>1 DEF IInv, FileTypes, Updates
    <2>3. ASSUME NEW s \in Servers
          PROVE  /\ copy[s] = NoCopy \/ copy[s].by \in Distances
                 /\ copy[s].todo \in Seq(1..made)
      <3>1. copy[s] \in Calls /\ CallOK(copy[s]) /\ made \in Nat
        BY <2>1 DEF IInv, CopyTypes, ElementsOK, CallsOK
      <3>2. \A i \in 1..Len(copy[s].todo) : copy[s].todo[i] \in 1..made
        BY <3>1, BoundsAssumption DEF CallOK, Calls, Elements
      <3>3. copy[s].todo \in Seq(1..made)
        BY <3>1, <3>2, Narrowed DEF Calls
      <3> QED
        BY <3>1, <3>3 DEF CallOK
    <2>4. from \in [Elements -> (0..made) \X Nat]
      <3>1. made \in Nat /\ from \in [Elements -> Nat \X Nat]
        BY <2>1 DEF IInv, CopyTypes
      <3>2. ASSUME NEW e \in Elements PROVE from[e] \in (0..made) \X Nat
        <4>1. from[e] = <<Original(e), By(e)>> /\ Original(e) \in Nat
              /\ By(e) \in Nat
          BY <3>1 DEF Original, By
        <4>2. Original(e) # 0 => Original(e) < e /\ e <= made /\ e \in Nat
          BY <2>1, BoundsAssumption
          DEF IInv, ElementsOK, OriginalsMade, Elements
        <4> QED
          BY <3>1, <4>1, <4>2
      <3> QED
        BY <3>1, <3>2
    <2> QED
      BY <2>1, <2>2, <2>3, <2>4 DEF TypeOK, IInv, FileTypes, CopyTypes
  <1> QED
    BY <1>1, Inductive, PTL
=============================================================================
