-------------------------- MODULE InsertionProofs --------------------------
(***************************************************************************)
(* What Insertion promises of the document and of the interactors, for     *)
(* every set of commands and any number of starts and interactors.         *)
(***************************************************************************)
EXTENDS Insertion, SequenceTheorems, TLAPS

-----------------------------------------------------------------------------
(* The types, in groups that few actions change.                           *)

BridgeTypes ==
    /\ started \in BOOLEAN /\ current \in Starts
    /\ coord \in Interactors \cup {0} /\ newest \in Interactors
    /\ live \subseteq 1..newest /\ overlap \in BOOLEAN

CommandTypes ==
    /\ busy \in [Threads -> Commands \cup {None}]
    /\ thread \in [Commands -> Threads]
    /\ code \in [Commands -> 0..MaxStarts]
    /\ part \in [Commands -> 0..2]
    /\ told \in [Commands -> {"nothing", "ok", "error"}]

DocumentTypes ==
    /\ document \subseteq Changes \X Parts /\ bracket \subseteq Changes \X Parts
    /\ exposed \subseteq Changes /\ stuck \subseteq Commands

QueueTypes ==
    /\ pending \in [Starts -> Seq(Creates)]
    /\ queued \in Seq(Creates)

CallbackTypes ==
    /\ callback \in {"idle", "building"}
    /\ specs \in Seq(Creates) /\ elements \in Seq(Creates)
    /\ inserted \in Seq(Creates)
    /\ dropped \subseteq Creates

\* The groups are the type invariant.
LEMMA Types ==
    /\ TypeOK <=> /\ BridgeTypes /\ CommandTypes /\ DocumentTypes
                  /\ QueueTypes /\ CallbackTypes
    /\ TypeOK' <=> /\ BridgeTypes' /\ CommandTypes' /\ DocumentTypes'
                   /\ QueueTypes' /\ CallbackTypes'
  BY DEF TypeOK, BridgeTypes, CommandTypes, DocumentTypes, QueueTypes,
         CallbackTypes

(***************************************************************************)
(* A thread runs a command that nobody else runs and that is not answered; *)
(* what a change has done is in the document unless it was rolled back;    *)
(* and the open bracket holds what the main thread's command did, all of   *)
(* it, and otherwise only what other threads exposed.                      *)
(***************************************************************************)
BusyOK ==
    \A t \in Threads :
        busy[t] # None =>
            /\ thread[busy[t]] = t /\ code[busy[t]] # 0
            /\ told[busy[t]] = "nothing"

FreshOK ==
    \A c \in Commands :
        code[c] = 0 => part[c] = 0 /\ told[c] = "nothing"

DoneOK == \A c \in Commands : told[c] = "ok" => part[c] = 2

\* Nothing is in the document that was not done.
OnlyDone ==
    \A c \in Changes, i \in Parts : <<c, i>> \in document => i <= part[c]

DoneIsThere ==
    \A c \in Changes, i \in Parts :
        (i <= part[c] /\ c \notin exposed /\ told[c] # "error")
            => <<c, i>> \in document

BracketIsOwn ==
    \A c \in Changes, i \in Parts :
        <<c, i>> \in bracket => c \in exposed \/ c = busy[Main]

BracketIsAll ==
    \A c \in Changes, i \in Parts :
        (<<c, i>> \in document /\ c = busy[Main]) => <<c, i>> \in bracket

CommandsOK == BusyOK /\ FreshOK /\ DoneOK

DocumentOK ==
    /\ OnlyDone /\ DoneIsThere /\ BracketIsOwn /\ BracketIsAll
    /\ FailedOnMainLeavesNothing

\* As long as interactors did not overlap there is at most the newest.
InteractorsOK == (~overlap => live \subseteq {newest}) /\ ActiveHasContext

IInv == TypeOK /\ CommandsOK /\ DocumentOK /\ InteractorsOK

-----------------------------------------------------------------------------
\* Nothing was run and no interactor was made.
LEMMA InitOK == Init => IInv
  <1> SUFFICES ASSUME Init PROVE IInv
    OBVIOUS
  <1> USE DEF Init, Main, Starts, Interactors, Threads, Commands
  <1>1. BridgeTypes /\ InteractorsOK
    <2>1. 1 \in Starts /\ 1 \in Interactors
      BY StartsAssumption
    <2>2. live \subseteq 1..newest
      OBVIOUS
    <2>3. BridgeTypes
      BY <2>1, <2>2 DEF BridgeTypes
    <2>4. InteractorsOK
      BY DEF InteractorsOK, ActiveHasContext
    <2> QED
      BY <2>3, <2>4
  <1>2. CommandTypes
    BY StartsAssumption DEF CommandTypes
  <1>3. DocumentTypes /\ QueueTypes /\ CallbackTypes
    BY DEF DocumentTypes, QueueTypes, CallbackTypes
  <1>4. CommandsOK
    BY DEF CommandsOK, BusyOK, FreshOK, DoneOK
  <1>5. DocumentOK
    BY DEF DocumentOK, OnlyDone, DoneIsThere, BracketIsOwn, BracketIsAll,
           FailedOnMainLeavesNothing, Parts
  <1> QED
    BY <1>1, <1>2, <1>3, <1>4, <1>5, Types DEF IInv

\* What is not changed stays as it is.
LEMMA Frame ==
    ASSUME IInv
    PROVE  /\ UNCHANGED bridgeVars => BridgeTypes' /\ InteractorsOK'
           /\ UNCHANGED commandVars => CommandTypes' /\ CommandsOK'
           /\ UNCHANGED documentVars => DocumentTypes'
           /\ UNCHANGED <<commandVars, documentVars>> => DocumentOK'
           /\ UNCHANGED <<pending, queued>> => QueueTypes'
           /\ UNCHANGED callbackVars => CallbackTypes'
  <1> USE Types DEF IInv
  <1>1. UNCHANGED bridgeVars => BridgeTypes' /\ InteractorsOK'
    BY DEF bridgeVars, BridgeTypes, InteractorsOK, ActiveHasContext
  <1>2. UNCHANGED commandVars => CommandTypes' /\ CommandsOK'
    BY DEF commandVars, CommandTypes, CommandsOK, BusyOK, FreshOK, DoneOK
  <1>3. UNCHANGED documentVars => DocumentTypes'
    BY DEF documentVars, DocumentTypes
  <1>4. UNCHANGED <<commandVars, documentVars>> => DocumentOK'
    BY DEF commandVars, documentVars, DocumentOK, OnlyDone, DoneIsThere,
           BracketIsOwn, BracketIsAll, FailedOnMainLeavesNothing
  <1>5. UNCHANGED <<pending, queued>> => QueueTypes'
    BY DEF QueueTypes
  <1>6. UNCHANGED callbackVars => CallbackTypes'
    BY DEF callbackVars, CallbackTypes
  <1> QED
    BY <1>1, <1>2, <1>3, <1>4, <1>5, <1>6

-----------------------------------------------------------------------------
(* Interactors.                                                            *)

\* A new interactor takes the context over, and the last to be cancelled stops.
LEMMA InteractorStep ==
    ASSUME IInv,
           CreateInteractor \/ \E i \in Interactors : OnCancelFunction(i)
    PROVE  IInv'
  <1>1. ASSUME CreateInteractor PROVE IInv'
    <2>1. BridgeTypes' /\ InteractorsOK'
      BY <1>1, Types, StartsAssumption
      DEF CreateInteractor, Made, BridgeTypes, InteractorsOK, ActiveHasContext,
          IInv, Interactors, Starts
    <2> QED
      BY <1>1, <2>1, Frame, Types DEF CreateInteractor, Made, IInv
  <1>2. ASSUME NEW i \in Interactors, OnCancelFunction(i) PROVE IInv'
    <2>1. BridgeTypes' /\ InteractorsOK'
      BY <1>2, Types
      DEF OnCancelFunction, BridgeTypes, InteractorsOK, ActiveHasContext, IInv
    <2> QED
      BY <1>2, <2>1, Frame, Types DEF OnCancelFunction, IInv
  <1> QED
    BY <1>1, <1>2

-----------------------------------------------------------------------------
(* Commands.                                                               *)

\* A command that is begun is fresh, so that nothing of it is in the document.
LEMMA BeginStep ==
    ASSUME IInv, NEW t \in Threads, NEW c \in Commands, NEW b \in Starts,
           Begin(t, c, b)
    PROVE  IInv'
  <1> USE DEF IInv
  <1>1. /\ c # None /\ b # 0 /\ b \in 0..MaxStarts /\ Main \in Threads
        /\ busy' = [busy EXCEPT ![t] = c] /\ busy[t] = None
        /\ thread' = [thread EXCEPT ![c] = t]
        /\ code' = [code EXCEPT ![c] = b] /\ code[c] = 0
        /\ part' = part /\ told' = told
        /\ document' = document /\ exposed' = exposed /\ stuck' = stuck
        /\ bracket' = IF t = Main THEN {} ELSE bracket
    BY StartsAssumption, CommandsAssumption
    DEF Begin, MainIsFree, Commands, Starts, Threads, Main
  <1>2. CommandTypes /\ DocumentTypes /\ BusyOK /\ FreshOK
    BY Types DEF CommandsOK
  <1>3. part[c] = 0 /\ told[c] = "nothing"
    BY <1>1, <1>2 DEF FreshOK
  <1>4. CommandTypes' /\ DocumentTypes'
    BY <1>1, <1>2 DEF CommandTypes, DocumentTypes
  <1>5. CommandsOK'
    <2>1. BusyOK'
      BY <1>1, <1>2, <1>3 DEF BusyOK, CommandTypes
    <2>2. FreshOK' /\ DoneOK'
      BY <1>1, <1>2 DEF FreshOK, DoneOK, CommandTypes, CommandsOK
    <2> QED
      BY <2>1, <2>2 DEF CommandsOK
  <1>6. DocumentOK'
    <2>1. OnlyDone' /\ DoneIsThere'
      BY <1>1 DEF DocumentOK, OnlyDone, DoneIsThere
    <2>2. BracketIsOwn'
      BY <1>1, <1>2 DEF DocumentOK, BracketIsOwn, CommandTypes
    <2>3. BracketIsAll'
      <3>1. ASSUME t = Main PROVE BracketIsAll'
        <4>1. ASSUME NEW i \in Parts, <<c, i>> \in document PROVE FALSE
          <5>1. c \in Changes
            BY <1>2, <4>1 DEF DocumentTypes
          <5>2. i <= 0
            BY <1>3, <4>1, <5>1 DEF DocumentOK, OnlyDone
          <5> QED
            BY <5>2 DEF Parts
        <4> QED
          BY <1>1, <1>2, <3>1, <4>1 DEF BracketIsAll, CommandTypes
      <3>2. ASSUME t # Main PROVE BracketIsAll'
        BY <1>1, <1>2, <3>2 DEF DocumentOK, BracketIsAll, CommandTypes
      <3> QED
        BY <3>1, <3>2
    <2>4. FailedOnMainLeavesNothing'
      BY <1>1, <1>2, <1>3
      DEF DocumentOK, FailedOnMainLeavesNothing, CommandTypes, Commands
    <2> QED
      BY <2>1, <2>2, <2>3, <2>4 DEF DocumentOK
  <1> QED
    BY <1>4, <1>5, <1>6, Frame, Types DEF Begin

\* What the thread t runs when it runs something.
LEMMA Running ==
    ASSUME IInv, NEW t \in Threads, busy[t] # None
    PROVE  /\ busy[t] \in Commands /\ thread[busy[t]] = t
           /\ code[busy[t]] # 0 /\ told[busy[t]] = "nothing"
           /\ \A u \in Threads : busy[u] = busy[t] => u = t
  BY Types DEF IInv, CommandsOK, BusyOK, CommandTypes

\* Queueing a spec changes nothing in the document.
LEMMA QueueSpecStep ==
    ASSUME IInv, NEW t \in Threads, QueueSpec(t)
    PROVE  IInv'
  <1> USE DEF IInv
  <1> DEFINE c == busy[t]
  <1>1. /\ c \in Creates /\ c \in Commands /\ c # None /\ c \notin Changes
        /\ part' = [part EXCEPT ![c] = 2]
        /\ pending' = [pending EXCEPT ![code[c]] = Append(@, c)]
        /\ queued' = Append(queued, c)
        /\ busy' = busy /\ thread' = thread /\ code' = code /\ told' = told
    BY CommandsAssumption DEF QueueSpec, Commands
  <1>2. CommandTypes /\ QueueTypes /\ CommandsOK /\ code[c] \in Starts
    BY <1>1, Types, Running, StartsAssumption DEF CommandTypes, Starts
  <1>3. CommandTypes'
    BY <1>1, <1>2 DEF CommandTypes
  <1>4. QueueTypes'
    BY <1>1, <1>2 DEF QueueTypes
  <1>5. CommandsOK'
    BY <1>1, <1>2, Running DEF CommandsOK, BusyOK, FreshOK, DoneOK,
                               CommandTypes
  <1>6. DocumentOK'
    <2>1. \A d \in Changes : part'[d] = part[d]
      BY <1>1, <1>2 DEF CommandTypes, Commands
    <2> QED
      BY <1>1, <2>1
      DEF QueueSpec, documentVars, DocumentOK, OnlyDone, DoneIsThere,
          BracketIsOwn, BracketIsAll, FailedOnMainLeavesNothing
  <1> QED
    BY <1>3, <1>4, <1>5, <1>6, Frame, Types DEF QueueSpec, documentVars

\* A change goes into the bracket when one is open, and is exposed unless the
\* bracket is its own.
LEMMA ChangeStep ==
    ASSUME IInv, NEW t \in Threads, Change(t)
    PROVE  IInv'
  <1> USE DEF IInv
  <1> DEFINE c == busy[t]
             p == part[c] + 1
  <1>1. /\ c \in Changes /\ c \in Commands /\ c # None /\ part[c] < 2
        /\ part' = [part EXCEPT ![c] = part[c] + 1]
        /\ document' = document \cup {<<c, part[c] + 1>>}
        /\ bracket' = IF busy[Main] # None
                      THEN bracket \cup {<<c, part[c] + 1>>} ELSE bracket
        /\ exposed' = IF t # Main /\ busy[Main] # None
                      THEN exposed \cup {c} ELSE exposed
        /\ busy' = busy /\ thread' = thread /\ code' = code /\ told' = told
        /\ stuck' = stuck
    BY CommandsAssumption DEF Change, Commands
  <1>2. CommandTypes /\ DocumentTypes /\ CommandsOK
    BY Types
  <1>3. /\ thread[c] = t /\ code[c] # 0 /\ told[c] = "nothing"
        /\ busy[Main] = c => t = Main
    BY <1>1, Running DEF Threads
  <1>4. part[c] \in {0, 1} /\ p \in Parts
    BY <1>1, <1>2 DEF CommandTypes, Parts
  <1>5. CommandTypes' /\ DocumentTypes'
    <2>1. CommandTypes'
      BY <1>1, <1>2, <1>4 DEF CommandTypes
    <2>2. DocumentTypes'
      BY <1>1, <1>2, <1>4 DEF DocumentTypes
    <2> QED
      BY <2>1, <2>2
  <1>6. CommandsOK'
    BY <1>1, <1>2, <1>3 DEF CommandsOK, BusyOK, FreshOK, DoneOK, CommandTypes
  <1>7. DocumentOK'
    <2> HIDE DEF c
    <2>1. /\ \A d \in Changes : part'[d] = IF d = c THEN p ELSE part[d]
          /\ \A d \in Changes, i \in Parts :
                 <<d, i>> \in document' <=>
                    <<d, i>> \in document \/ (d = c /\ i = p)
          /\ \A d \in Changes, i \in Parts :
                 <<d, i>> \in bracket' <=>
                    \/ <<d, i>> \in bracket
                    \/ busy[Main] # None /\ d = c /\ i = p
      BY <1>1, <1>2 DEF CommandTypes, Commands
    <2>2. OnlyDone'
      <3>1. SUFFICES ASSUME NEW d \in Changes, NEW i \in Parts,
                            <<d, i>> \in document'
                     PROVE  i <= part'[d]
        BY DEF OnlyDone
      <3>2. i <= part[d] \/ (d = c /\ i = p)
        BY <2>1, <3>1 DEF DocumentOK, OnlyDone
      <3> QED
        BY <1>4, <2>1, <3>2 DEF Parts
    <2>3. DoneIsThere'
      <3>1. SUFFICES ASSUME NEW d \in Changes, NEW i \in Parts, i <= part'[d],
                            d \notin exposed', told[d] # "error"
                     PROVE  <<d, i>> \in document'
        BY <1>1 DEF DoneIsThere
      <3>2. d \notin exposed
        BY <1>1, <3>1
      <3>3. i <= part[d] \/ (d = c /\ i = p)
        BY <1>4, <2>1, <3>1 DEF Parts
      <3> QED
        BY <2>1, <3>1, <3>2, <3>3 DEF DocumentOK, DoneIsThere
    <2>4. BracketIsOwn'
      <3>1. t = Main => c = busy[Main]
        BY DEF c
      <3> QED
        BY <1>1, <2>1, <3>1 DEF DocumentOK, BracketIsOwn
    <2>5. BracketIsAll'
      BY <1>1, <2>1 DEF DocumentOK, BracketIsAll
    <2>6. FailedOnMainLeavesNothing'
      BY <1>1, <1>3, <2>1 DEF DocumentOK, FailedOnMainLeavesNothing
    <2> QED
      BY <2>2, <2>3, <2>4, <2>5, <2>6 DEF DocumentOK
  <1> QED
    BY <1>5, <1>6, <1>7, Frame, Types DEF Change

\* After a command is answered its thread is free.
LEMMA AnswerStep ==
    ASSUME IInv, NEW t \in Threads, busy[t] # None,
           NEW result \in {"ok", "error"}, Answer(t, result),
           result = "ok" => part[busy[t]] = 2
    PROVE  CommandTypes' /\ CommandsOK'
  <1> DEFINE c == busy[t]
  <1>1. /\ c \in Commands /\ code[c] # 0
        /\ \A u \in Threads : busy[u] = c => u = t
        /\ CommandTypes /\ CommandsOK
    BY Running, Types DEF IInv
  <1>2. /\ told' = [told EXCEPT ![c] = result]
        /\ busy' = [busy EXCEPT ![t] = None]
        /\ thread' = thread /\ code' = code /\ part' = part
    BY DEF Answer
  <1>3. CommandTypes'
    BY <1>1, <1>2 DEF CommandTypes
  <1>4. BusyOK'
    <2>1. SUFFICES ASSUME NEW u \in Threads, busy'[u] # None
                   PROVE  /\ thread[busy'[u]] = u /\ code[busy'[u]] # 0
                          /\ told'[busy'[u]] = "nothing"
      BY <1>2 DEF BusyOK
    <2>2. u # t /\ busy'[u] = busy[u]
      BY <1>1, <1>2, <2>1 DEF CommandTypes
    <2>3. busy[u] # c /\ busy[u] \in Commands
      BY <1>1, <2>1, <2>2 DEF CommandTypes
    <2> QED
      BY <1>1, <1>2, <2>1, <2>2, <2>3 DEF CommandTypes, CommandsOK, BusyOK
  <1>5. FreshOK' /\ DoneOK'
    BY <1>1, <1>2 DEF CommandTypes, CommandsOK, FreshOK, DoneOK
  <1> QED
    BY <1>3, <1>4, <1>5 DEF CommandsOK

\* What was done is in the document when its command is answered ok.
LEMMA FinishStep ==
    ASSUME IInv, NEW t \in Threads, Finish(t)
    PROVE  IInv'
  <1> USE DEF IInv
  <1> DEFINE c == busy[t]
  <1>1. c # None /\ part[c] = 2 /\ Answer(t, "ok") /\ Commit(t)
    BY DEF Finish
  <1>2. CommandTypes' /\ CommandsOK'
    BY <1>1, AnswerStep
  <1>3. /\ document' = document /\ exposed' = exposed /\ part' = part
        /\ thread' = thread /\ stuck' = stuck
        /\ told' = [told EXCEPT ![c] = "ok"]
        /\ busy' = [busy EXCEPT ![t] = None]
        /\ bracket' = IF t = Main THEN {} ELSE bracket
    BY <1>1 DEF Answer, Commit
  <1>4. CommandTypes /\ DocumentTypes /\ DocumentOK /\ c \in Commands
    BY <1>1, Running, Types
  <1>5. DocumentTypes'
    BY <1>3, <1>4 DEF DocumentTypes
  <1>6. DocumentOK'
    <2>1. OnlyDone'
      BY <1>3, <1>4 DEF DocumentOK, OnlyDone
    <2>2. DoneIsThere'
      <3>1. \A d \in Changes : told'[d] # "error" =>
               told[d] # "error" \/ d = c
        BY <1>3, <1>4 DEF CommandTypes, Commands
      <3>2. told[c] # "error"
        BY <1>1, Running
      <3> QED
        BY <1>3, <1>4, <3>1, <3>2 DEF DocumentOK, DoneIsThere
    <2>3. BracketIsOwn' /\ BracketIsAll'
      <3>1. ASSUME t = Main PROVE BracketIsOwn' /\ BracketIsAll'
        <4>1. busy'[Main] = None /\ bracket' = {}
          BY <1>3, <1>4, <3>1 DEF CommandTypes
        <4> QED
          BY <4>1, CommandsAssumption DEF BracketIsOwn, BracketIsAll
      <3>2. ASSUME t # Main PROVE BracketIsOwn' /\ BracketIsAll'
        <4>1. busy'[Main] = busy[Main]
          BY <1>3, <1>4, <3>2 DEF CommandTypes
        <4> QED
          BY <1>3, <1>4, <3>2, <4>1 DEF DocumentOK, BracketIsOwn, BracketIsAll
      <3> QED
        BY <3>1, <3>2
    <2>4. FailedOnMainLeavesNothing'
      <3>1. \A d \in Changes : told'[d] = "error" => told[d] = "error"
        BY <1>3, <1>4 DEF CommandTypes, Commands
      <3> QED
        BY <1>3, <1>4, <3>1 DEF DocumentOK, FailedOnMainLeavesNothing
    <2> QED
      BY <2>1, <2>2, <2>3, <2>4 DEF DocumentOK
  <1> QED
    BY <1>1, <1>2, <1>5, <1>6, Frame, Types DEF Finish, Answer

\* A rollback that works takes all of the command that failed, and of the others
\* only what was exposed; one that does not takes nothing.
LEMMA FailStep ==
    ASSUME IInv, NEW t \in Threads, Fail(t) \/ CommitFails(t)
    PROVE  IInv'
  <1> USE DEF IInv
  <1> DEFINE c == busy[t]
  <1>1. c # None /\ Answer(t, "error") /\ Rollback(t)
    BY DEF Fail, CommitFails, Rollback
  <1>2. CommandTypes' /\ CommandsOK'
    BY <1>1, AnswerStep
  <1>3. /\ exposed' = exposed /\ part' = part /\ thread' = thread
        /\ told' = [told EXCEPT ![c] = "error"]
        /\ busy' = [busy EXCEPT ![t] = None]
        /\ t = Main =>
               /\ bracket' = {}
               /\ \/ document' = document \ bracket /\ stuck' = stuck
                  \/ document' = document /\ stuck' = stuck \cup {c}
        /\ t # Main =>
               document' = document /\ bracket' = bracket /\ stuck' = stuck
    BY <1>1 DEF Answer, Rollback, Stays
  <1>4. /\ CommandTypes /\ DocumentTypes /\ DocumentOK
        /\ c \in Commands /\ thread[c] = t
    BY <1>1, Running, Types
  <1>5. DocumentTypes'
    BY <1>3, <1>4 DEF DocumentTypes
  <1>6. \A d \in Changes : told'[d] = IF d = c THEN "error" ELSE told[d]
    BY <1>3, <1>4 DEF CommandTypes, Commands
  <1>7. DocumentOK'
    <2>1. OnlyDone'
      BY <1>3, <1>4 DEF DocumentOK, OnlyDone
    <2>2. DoneIsThere'
      <3>1. SUFFICES ASSUME NEW d \in Changes, NEW i \in Parts, i <= part[d],
                            d \notin exposed, d # c, told[d] # "error"
                     PROVE  <<d, i>> \in document'
        BY <1>3, <1>6 DEF DoneIsThere
      <3>2. <<d, i>> \in document
        BY <1>4, <3>1 DEF DocumentOK, DoneIsThere
      <3>3. t = Main => <<d, i>> \notin bracket
        BY <1>4, <3>1 DEF DocumentOK, BracketIsOwn
      <3> QED
        BY <1>3, <3>2, <3>3
    <2>3. BracketIsOwn' /\ BracketIsAll'
      <3>1. ASSUME t = Main PROVE BracketIsOwn' /\ BracketIsAll'
        <4>1. busy'[Main] = None /\ bracket' = {}
          BY <1>3, <1>4, <3>1 DEF CommandTypes
        <4> QED
          BY <4>1, CommandsAssumption DEF BracketIsOwn, BracketIsAll
      <3>2. ASSUME t # Main PROVE BracketIsOwn' /\ BracketIsAll'
        <4>1. busy'[Main] = busy[Main]
          BY <1>3, <1>4, <3>2 DEF CommandTypes
        <4> QED
          BY <1>3, <1>4, <3>2, <4>1 DEF DocumentOK, BracketIsOwn, BracketIsAll
      <3> QED
        BY <3>1, <3>2
    <2>4. FailedOnMainLeavesNothing'
      <3>1. SUFFICES ASSUME NEW d \in Changes, NEW i \in Parts,
                            d = c \/ told[d] = "error", thread[d] = Main,
                            d \notin stuck'
                     PROVE  <<d, i>> \notin document'
        BY <1>3, <1>6 DEF FailedOnMainLeavesNothing
      <3>2. d = c => t = Main /\ (<<d, i>> \in document => <<d, i>> \in bracket)
        BY <1>4, <3>1 DEF DocumentOK, BracketIsAll
      <3>3. d # c => <<d, i>> \notin document
        BY <1>3, <1>4, <3>1 DEF DocumentOK, FailedOnMainLeavesNothing
      <3>4. document' \subseteq document
        BY <1>3
      <3>5. d = c => document' = document \ bracket
        BY <1>3, <3>1, <3>2
      <3> QED
        BY <3>2, <3>3, <3>4, <3>5
    <2> QED
      BY <2>1, <2>2, <2>3, <2>4 DEF DocumentOK
  <1> QED
    BY <1>1, <1>2, <1>5, <1>7, Frame, Types DEF Answer

-----------------------------------------------------------------------------
(* The callback of the mouse touches neither commands nor their changes.   *)

\* The elements of a callback are nobody's but the interactor's.
LEMMA CallbackStepOK ==
    ASSUME IInv, CallbackStep
    PROVE  IInv'
  <1> USE DEF IInv
  <1>1. QueueTypes /\ CallbackTypes /\ BridgeTypes
    BY Types
  <1>2. ASSUME Flush PROVE IInv'
    <2>1. QueueTypes'
      <3>1. <<>> \in Seq(Creates)
        OBVIOUS
      <3>2. pending' = [pending EXCEPT ![current] = <<>>] /\ queued' = queued
        BY <1>2 DEF Flush
      <3> QED
        BY <1>1, <3>1, <3>2 DEF QueueTypes
    <2>2. CallbackTypes'
      BY <1>1, <1>2 DEF Flush, QueueTypes, CallbackTypes, BridgeTypes
    <2> QED
      BY <1>2, <2>1, <2>2, Frame, Types DEF Flush
  <1>3. ASSUME Build PROVE IInv'
    <2>1. Head(specs) \in Creates /\ Tail(specs) \in Seq(Creates)
      BY <1>1, <1>3 DEF Build, CallbackTypes
    <2>2. Append(elements, Head(specs)) \in Seq(Creates)
      BY <1>1, <2>1 DEF CallbackTypes
    <2>3. CallbackTypes'
      BY <1>1, <1>3, <2>1, <2>2 DEF Build, CallbackTypes
    <2> QED
      BY <1>3, <2>3, Frame, Types DEF Build
  <1>4. ASSUME CreateElements PROVE IInv'
    <2>1. inserted \o elements \in Seq(Creates)
      BY <1>1 DEF CallbackTypes
    <2>2. CallbackTypes'
      BY <1>1, <1>4, <2>1 DEF CreateElements, EndCallback, CallbackTypes
    <2> QED
      BY <1>4, <2>2, Frame, Types DEF CreateElements, EndCallback
  <1>5. ASSUME GiveUp PROVE IInv'
    <2>1. ToSet(specs) \subseteq Creates /\ ToSet(elements) \subseteq Creates
      BY <1>1 DEF CallbackTypes, ToSet
    <2>2. CallbackTypes'
      BY <1>1, <1>5, <2>1 DEF GiveUp, EndCallback, CallbackTypes
    <2> QED
      BY <1>5, <2>2, Frame, Types DEF GiveUp, EndCallback
  <1> QED
    BY <1>2, <1>3, <1>4, <1>5 DEF CallbackStep

-----------------------------------------------------------------------------
\* Every step keeps the invariant.
LEMMA NextOK == IInv /\ [Next]_vars => IInv'
  <1> SUFFICES ASSUME IInv, [Next]_vars PROVE IInv'
    OBVIOUS
  <1>1. ASSUME CreateInteractor \/ \E i \in Interactors : OnCancelFunction(i)
        PROVE  IInv'
    BY <1>1, InteractorStep
  <1>2. ASSUME NEW t \in Threads, CommandStep(t) PROVE IInv'
    BY <1>2, BeginStep, QueueSpecStep, ChangeStep, FinishStep, FailStep
    DEF CommandStep
  <1>3. ASSUME CallbackStep PROVE IInv'
    BY <1>3, CallbackStepOK
  <1>4. ASSUME UNCHANGED vars PROVE IInv'
    BY <1>4, Frame, Types DEF vars, IInv
  <1> QED
    BY <1>1, <1>2, <1>3, <1>4 DEF Next

\* The invariant holds of every state that is reached.
LEMMA Inductive == Spec => []IInv
  <1> QED
    BY InitOK, NextOK, PTL DEF Spec

-----------------------------------------------------------------------------
(* The results.                                                            *)

\* Every variable stays within its type: in particular, no change is made a
\* third time and no interactor is made beyond those counted.
THEOREM TypeCorrect == Spec => []TypeOK
  <1>1. IInv => TypeOK
    BY DEF IInv
  <1> QED
    BY <1>1, Inductive, PTL

\* undo_bracket rolls back all of a change that failed on the main thread, if
\* Allplan can, whatever other threads change meanwhile.
THEOREM FailureOnMainIsUndone == Spec => []FailedOnMainLeavesNothing
  <1>1. IInv => FailedOnMainLeavesNothing
    BY DEF IInv, DocumentOK
  <1> QED
    BY <1>1, Inductive, PTL

\* A change that was answered ok stays in the document, whatever fails
\* elsewhere, unless it was made while the bracket of another was open.
THEOREM AnsweredIsKept == Spec => []OkIsKept
  <1>1. IInv => OkIsKept
    <2>1. SUFFICES ASSUME IInv, NEW c \in Changes, c \notin exposed,
                          told[c] = "ok", NEW i \in Parts
                   PROVE  <<c, i>> \in document
      BY DEF OkIsKept
    <2>2. part[c] = 2
      BY <2>1 DEF IInv, CommandsOK, DoneOK, Commands
    <2>3. i <= part[c] /\ told[c] # "error"
      BY <2>1, <2>2 DEF Parts
    <2> QED
      BY <2>1, <2>3 DEF IInv, DocumentOK, DoneIsThere
  <1> QED
    BY <1>1, Inductive, PTL

\* The interactor that nobody cancelled has a started bridge and its own
\* coord_input, as long as interactors do not overlap.
THEOREM InteractorHasContext == Spec => []ActiveHasContext
  <1>1. IInv => ActiveHasContext
    BY DEF IInv, InteractorsOK
  <1> QED
    BY <1>1, Inductive, PTL

-----------------------------------------------------------------------------
(* What the operators on sequences do to what a sequence holds and to the  *)
(* order in which it holds it.                                             *)

OrderedBy(s, R) == \A i, j \in 1..Len(s) : i < j => <<s[i], s[j]>> \in R

\* What a concatenation holds, position by position.
LEMMA ConcatFacts ==
    ASSUME NEW S, NEW s \in Seq(S), NEW t \in Seq(S)
    PROVE  /\ s \o t \in Seq(S) /\ Len(s \o t) = Len(s) + Len(t)
           /\ \A i \in 1..Len(s) : (s \o t)[i] = s[i]
           /\ \A i \in 1..Len(t) : (s \o t)[Len(s) + i] = t[i]
  BY ConcatProperties, LenProperties

\* A position of a concatenation is one of its first or of its second part.
LEMMA ConcatSplit ==
    ASSUME NEW S, NEW s \in Seq(S), NEW t \in Seq(S),
           NEW i \in 1..Len(s \o t), i \notin 1..Len(s)
    PROVE  \E k \in 1..Len(t) : i = Len(s) + k /\ (s \o t)[i] = t[k]
  <1>1. /\ Len(s) \in Nat /\ Len(t) \in Nat
        /\ Len(s \o t) = Len(s) + Len(t)
        /\ \A k \in 1..Len(t) : (s \o t)[Len(s) + k] = t[k]
    BY ConcatFacts, LenProperties
  <1>2. i - Len(s) \in 1..Len(t) /\ i = Len(s) + (i - Len(s))
    BY <1>1
  <1> QED
    BY <1>1, <1>2

\* What a sequence holds is of the type of its elements.
LEMMA SetFacts ==
    ASSUME NEW S, NEW s \in Seq(S)
    PROVE  /\ ToSet(s) \subseteq S
           /\ ToSet(s) = {s[i] : i \in 1..Len(s)}
           /\ \A x \in ToSet(s) : \E i \in 1..Len(s) : s[i] = x
           /\ \A i \in 1..Len(s) : s[i] \in ToSet(s)
  BY LenProperties, ElementOfSeq DEF ToSet

\* A concatenation holds what its parts hold.
LEMMA ConcatSet ==
    ASSUME NEW S, NEW s \in Seq(S), NEW t \in Seq(S)
    PROVE  ToSet(s \o t) = ToSet(s) \cup ToSet(t)
  <1>1. s \o t \in Seq(S) /\ Len(s) \in Nat /\ Len(t) \in Nat
        /\ Len(s \o t) = Len(s) + Len(t)
    BY ConcatFacts, LenProperties
  <1>2. ASSUME NEW x \in ToSet(s \o t) PROVE x \in ToSet(s) \cup ToSet(t)
    <2>1. PICK i \in 1..Len(s \o t) : (s \o t)[i] = x
      BY <1>1, SetFacts
    <2>2. CASE i \in 1..Len(s)
      BY <2>1, <2>2, ConcatFacts, SetFacts
    <2>3. CASE i \notin 1..Len(s)
      <3>1. PICK k \in 1..Len(t) : (s \o t)[i] = t[k]
        BY <2>3, ConcatSplit
      <3> QED
        BY <2>1, <3>1, SetFacts
    <2> QED
      BY <2>2, <2>3
  <1>3. ASSUME NEW x \in ToSet(s) PROVE x \in ToSet(s \o t)
    <2>1. PICK i \in 1..Len(s) : s[i] = x
      BY SetFacts
    <2>2. i \in 1..Len(s \o t) /\ (s \o t)[i] = x
      BY <1>1, <2>1, ConcatFacts
    <2> QED
      BY <1>1, <2>2, SetFacts
  <1>4. ASSUME NEW x \in ToSet(t) PROVE x \in ToSet(s \o t)
    <2>1. PICK i \in 1..Len(t) : t[i] = x
      BY SetFacts
    <2>2. Len(s) + i \in 1..Len(s \o t) /\ (s \o t)[Len(s) + i] = x
      BY <1>1, <2>1, ConcatFacts
    <2> QED
      BY <1>1, <2>2, SetFacts
  <1> QED
    BY <1>2, <1>3, <1>4

\* A concatenation is in order when its parts are, one behind the other.
LEMMA ConcatOrdered ==
    ASSUME NEW S, NEW s \in Seq(S), NEW t \in Seq(S), NEW R
    PROVE  OrderedBy(s \o t, R) <=>
              /\ OrderedBy(s, R) /\ OrderedBy(t, R)
              /\ \A x \in ToSet(s), y \in ToSet(t) : <<x, y>> \in R
  <1> DEFINE u == s \o t
             m == Len(s)
             n == Len(t)
  <1>1. m \in Nat /\ n \in Nat /\ Len(u) = m + n
    BY ConcatFacts, LenProperties
  <1>2. /\ \A i \in 1..m : u[i] = s[i]
        /\ \A i \in 1..n : u[m + i] = t[i]
    BY ConcatFacts
  <1>3. ASSUME OrderedBy(u, R)
        PROVE  /\ OrderedBy(s, R) /\ OrderedBy(t, R)
               /\ \A x \in ToSet(s), y \in ToSet(t) : <<x, y>> \in R
    <2> HIDE DEF u, m, n
    <2>1. ASSUME NEW i \in 1..m, NEW j \in 1..m, i < j
          PROVE  <<s[i], s[j]>> \in R
      <3>1. i \in 1..Len(u) /\ j \in 1..Len(u)
        BY <1>1
      <3>2. <<u[i], u[j]>> \in R
        BY <1>3, <2>1, <3>1 DEF OrderedBy
      <3> QED
        BY <1>2, <3>2
    <2>2. ASSUME NEW i \in 1..n, NEW j \in 1..n, i < j
          PROVE  <<t[i], t[j]>> \in R
      <3>1. m + i \in 1..Len(u) /\ m + j \in 1..Len(u) /\ m + i < m + j
        BY <1>1, <2>2
      <3>2. <<u[m + i], u[m + j]>> \in R
        BY <1>3, <3>1 DEF OrderedBy
      <3> QED
        BY <1>2, <3>2
    <2>3. ASSUME NEW x \in ToSet(s), NEW y \in ToSet(t)
          PROVE  <<x, y>> \in R
      <3>1. PICK i \in 1..m : s[i] = x
        BY SetFacts DEF m
      <3>2. PICK j \in 1..n : t[j] = y
        BY SetFacts DEF n
      <3>3. i \in 1..Len(u) /\ m + j \in 1..Len(u) /\ i < m + j
        BY <1>1
      <3>4. <<u[i], u[m + j]>> \in R
        BY <1>3, <3>3 DEF OrderedBy
      <3> QED
        BY <1>2, <3>1, <3>2, <3>4
    <2> QED
      BY <2>1, <2>2, <2>3 DEF OrderedBy, m, n
  <1>4. ASSUME OrderedBy(s, R), OrderedBy(t, R),
               \A x \in ToSet(s), y \in ToSet(t) : <<x, y>> \in R,
               NEW i \in 1..Len(u), NEW j \in 1..Len(u), i < j
        PROVE  <<u[i], u[j]>> \in R
    <2>1. CASE j \in 1..m
      <3>1. i \in 1..m
        BY <1>1, <1>4, <2>1
      <3>2. <<s[i], s[j]>> \in R
        BY <1>4, <2>1, <3>1 DEF OrderedBy
      <3> QED
        BY <1>2, <2>1, <3>1, <3>2
    <2>2. CASE j \notin 1..m
      <3>1. PICK l \in 1..n : j = m + l /\ u[j] = t[l]
        BY <2>2, ConcatSplit
      <3>2. CASE i \in 1..m
        <4>1. s[i] \in ToSet(s) /\ t[l] \in ToSet(t) /\ u[i] = s[i]
          BY <1>2, <3>2, SetFacts
        <4> QED
          BY <1>4, <3>1, <4>1
      <3>3. CASE i \notin 1..m
        <4>1. PICK k \in 1..n : i = m + k /\ u[i] = t[k]
          BY <3>3, ConcatSplit
        <4>2. k < l
          BY <1>1, <1>4, <3>1, <4>1
        <4>3. <<t[k], t[l]>> \in R
          BY <1>4, <4>2 DEF OrderedBy
        <4> QED
          BY <3>1, <4>1, <4>3
      <3> QED
        BY <3>2, <3>3
    <2> QED
      BY <2>1, <2>2
  <1> QED
    BY <1>3, <1>4 DEF OrderedBy

\* One alone is in order.
LEMMA SingleOrdered ==
    ASSUME NEW S, NEW x \in S, NEW R
    PROVE  /\ <<x>> \in Seq(S) /\ ToSet(<<x>>) = {x} /\ OrderedBy(<<x>>, R)
           /\ <<>> \in Seq(S) /\ ToSet(<<>>) = {} /\ OrderedBy(<<>>, R)
  BY DEF ToSet, OrderedBy

\* What is appended is held besides all there was.
LEMMA AppendSet ==
    ASSUME NEW S, NEW s \in Seq(S), NEW x \in S
    PROVE  ToSet(Append(s, x)) = ToSet(s) \cup {x}
  <1> DEFINE k == <<x>>
  <1>1. Append(s, x) = s \o k
    BY AppendIsConcat
  <1>2. k \in Seq(S) /\ ToSet(k) = {x}
    BY SingleOrdered
  <1> HIDE DEF k
  <1>3. ToSet(s \o k) = ToSet(s) \cup ToSet(k)
    <2>1. k \in Seq(S)
      BY <1>2
    <2> QED
      BY <2>1, ConcatSet
  <1> QED
    BY <1>1, <1>2, <1>3

\* What is appended comes behind all there was.
LEMMA AppendOrdered ==
    ASSUME NEW S, NEW s \in Seq(S), NEW x \in S, NEW R
    PROVE  OrderedBy(Append(s, x), R) <=>
              OrderedBy(s, R) /\ \A y \in ToSet(s) : <<y, x>> \in R
  <1>1. /\ <<x>> \in Seq(S) /\ ToSet(<<x>>) = {x} /\ OrderedBy(<<x>>, R)
    BY SingleOrdered
  <1>2. OrderedBy(s \o <<x>>, R) <=>
           /\ OrderedBy(s, R) /\ OrderedBy(<<x>>, R)
           /\ \A y \in ToSet(s), z \in ToSet(<<x>>) : <<y, z>> \in R
    BY <1>1, ConcatOrdered
  <1>3. Append(s, x) = s \o <<x>>
    BY AppendIsConcat
  <1> QED
    BY <1>1, <1>2, <1>3

\* A sequence stays in order as long as the order keeps its pairs.
LEMMA OrderGrows ==
    ASSUME NEW S, NEW s \in Seq(S), NEW Q, NEW R, OrderedBy(s, Q),
           \A x, y \in ToSet(s) : <<x, y>> \in Q => <<x, y>> \in R
    PROVE  OrderedBy(s, R)
  BY SetFacts DEF OrderedBy

\* The first element and the rest are all of a sequence.
LEMMA HeadAndTail ==
    ASSUME NEW S, NEW s \in Seq(S), s # <<>>
    PROVE  /\ Head(s) \in S /\ Tail(s) \in Seq(S)
           /\ <<Head(s)>> \in Seq(S) /\ <<Head(s)>> \o Tail(s) = s
  <1>1. /\ Head(s) \in S /\ Tail(s) \in Seq(S) /\ Len(Tail(s)) = Len(s) - 1
        /\ Head(s) = s[1] /\ Len(s) \in Nat \ {0}
        /\ \A i \in 1..Len(Tail(s)) : Tail(s)[i] = s[i + 1]
    BY HeadTailProperties, LenProperties
  <1>2. <<Head(s)>> \in Seq(S) /\ Len(<<Head(s)>>) = 1
    BY <1>1
  <1> DEFINE u == <<Head(s)>> \o Tail(s)
  <1>3. /\ u \in Seq(S) /\ Len(u) = 1 + Len(Tail(s)) /\ u[1] = s[1]
        /\ \A i \in 1..Len(Tail(s)) : u[1 + i] = Tail(s)[i]
    BY <1>1, <1>2, ConcatFacts
  <1>4. Len(u) = Len(s)
    BY <1>1, <1>3
  <1>5. ASSUME NEW i \in 1..Len(s) PROVE u[i] = s[i]
    <2>1. CASE i = 1
      BY <1>3, <2>1
    <2>2. CASE i # 1
      <3>1. i - 1 \in 1..Len(Tail(s)) /\ 1 + (i - 1) = i /\ (i - 1) + 1 = i
        BY <1>1, <2>2
      <3>2. u[1 + (i - 1)] = Tail(s)[i - 1] /\ Tail(s)[i - 1] = s[(i - 1) + 1]
        BY <1>1, <1>3, <3>1
      <3> QED
        BY <3>1, <3>2
    <2> QED
      BY <2>1, <2>2
  <1>6. u = s
    BY <1>3, <1>4, <1>5, SeqEqual
  <1> QED
    BY <1>1, <1>2, <1>6

\* The whole of three sequences after the last gave something to the second.
TakesOver(a, e, k, t) == (a \o (e \o k)) \o t = (a \o e) \o (k \o t)

\* Taking something over from one sequence to the one before it leaves the
\* whole as it is.
LEMMA TakeOver ==
    \A a, e, k, t \in Seq(Creates) : TakesOver(a, e, k, t)
  <1>1. \A x, y, z \in Seq(Creates) : (x \o y) \o z = x \o (y \o z)
    BY ConcatAssociative
  <1> SUFFICES ASSUME NEW a \in Seq(Creates), NEW e \in Seq(Creates),
                      NEW k \in Seq(Creates), NEW t \in Seq(Creates)
               PROVE  (a \o (e \o k)) \o t = (a \o e) \o (k \o t)
    BY DEF TakesOver
  <1> DEFINE u == a \o e
  <1>2. u \in Seq(Creates)
    BY ConcatFacts
  <1>3. u \o k = a \o (e \o k)
    BY <1>1
  <1> HIDE DEF u
  <1>4. (u \o k) \o t = u \o (k \o t)
    BY <1>1, <1>2
  <1> QED
    BY <1>3, <1>4 DEF u

-----------------------------------------------------------------------------
(***************************************************************************)
(* Where the specs are.  The specs of one start stand in line: what is     *)
(* inserted before what is built, before what is flushed, before what      *)
(* waits in its list.  Two specs of one start are in that line in the      *)
(* order in which they were queued; as each is queued once, none is in it  *)
(* twice.                                                                  *)
(***************************************************************************)
Taken == inserted \o elements \o specs

\* Pairs of specs that one start did not queue the other way round.
Earlier ==
    {p \in Creates \X Creates :
        code[p[1]] = code[p[2]] => QueuedBefore(p[1], p[2])}

QueuedOnce == IsInjective(queued)

QueuedByItsCode ==
    \A c \in ToSet(queued) : code[c] # 0 /\ part[c] = 2

IdleIsEmpty == callback = "idle" => specs = <<>> /\ elements = <<>>

OwnCode == \A b \in Starts : \A c \in ToSet(pending[b]) : code[c] = b

AllSomewhere ==
    \A c : c \in ToSet(queued) <=>
              \/ c \in dropped \/ c \in ToSet(Taken)
              \/ \E b \in Starts : c \in ToSet(pending[b])

DroppedIsGone ==
    \A c \in dropped : /\ c \notin ToSet(Taken)
                       /\ \A b \in Starts : c \notin ToSet(pending[b])

InLine ==
    /\ OrderedBy(Taken, Earlier)
    /\ \A b \in Starts :
          /\ OrderedBy(pending[b], Earlier)
          /\ \A c \in ToSet(Taken), d \in ToSet(pending[b]) :
                <<c, d>> \in Earlier

LineInv ==
    /\ QueuedOnce /\ QueuedByItsCode /\ IdleIsEmpty /\ OwnCode
    /\ AllSomewhere /\ DroppedIsGone /\ InLine

\* What the callback has is a sequence of specs.
LEMMA TakenFacts ==
    ASSUME CallbackTypes
    PROVE  /\ inserted \o elements \in Seq(Creates) /\ Taken \in Seq(Creates)
           /\ ToSet(inserted \o elements) =
                 ToSet(inserted) \cup ToSet(elements)
           /\ ToSet(Taken) =
                 ToSet(inserted) \cup ToSet(elements) \cup ToSet(specs)
  <1>1. /\ inserted \in Seq(Creates) /\ elements \in Seq(Creates)
        /\ specs \in Seq(Creates)
    BY DEF CallbackTypes
  <1>2. inserted \o elements \in Seq(Creates)
    BY <1>1, ConcatFacts
  <1>3. Taken \in Seq(Creates)
    BY <1>1, <1>2, ConcatFacts DEF Taken
  <1>4. ToSet(inserted \o elements) = ToSet(inserted) \cup ToSet(elements)
    BY <1>1, ConcatSet
  <1>5. ToSet(Taken) = ToSet(inserted \o elements) \cup ToSet(specs)
    <2> DEFINE u == inserted \o elements
    <2>1. u \in Seq(Creates) /\ specs \in Seq(Creates)
      BY <1>1, <1>2
    <2> HIDE DEF u
    <2>2. ToSet(u \o specs) = ToSet(u) \cup ToSet(specs)
      BY <2>1, ConcatSet
    <2> QED
      BY <2>2 DEF Taken, u
  <1> QED
    BY <1>2, <1>3, <1>4, <1>5

\* Nothing is earlier than itself.
LEMMA NotBeforeItself ==
    ASSUME QueuedOnce, queued \in Seq(Creates)
    PROVE  \A c : <<c, c>> \notin Earlier
  <1> SUFFICES ASSUME NEW c, <<c, c>> \in Earlier PROVE FALSE
    OBVIOUS
  <1>1. QueuedBefore(c, c)
    BY DEF Earlier
  <1>2. PICK i, j \in 1..Len(queued) : i < j /\ queued[i] = c /\ queued[j] = c
    BY <1>1 DEF QueuedBefore
  <1>3. DOMAIN queued = 1..Len(queued)
    BY LenProperties
  <1>4. i = j
    BY <1>2, <1>3 DEF QueuedOnce, IsInjective
  <1> QED
    BY <1>2, <1>4

\* Nothing is queued at first.
LEMMA LineInit == Init => LineInv
  <1> SUFFICES ASSUME Init PROVE LineInv
    OBVIOUS
  <1>1. /\ queued = <<>> /\ specs = <<>> /\ elements = <<>> /\ inserted = <<>>
        /\ dropped = {} /\ \A b \in Starts : pending[b] = <<>>
    BY DEF Init
  <1>2. Taken = <<>>
    BY <1>1 DEF Taken
  <1>3. ToSet(<<>>) = {} /\ OrderedBy(<<>>, Earlier) /\ IsInjective(<<>>)
    BY DEF ToSet, OrderedBy, IsInjective
  <1> QED
    BY <1>1, <1>2, <1>3
    DEF LineInv, QueuedOnce, QueuedByItsCode, IdleIsEmpty, OwnCode,
        AllSomewhere, DroppedIsGone, InLine

\* Steps that leave the specs where they are and every queued spec its code.
LEMMA LineStays ==
    ASSUME TypeOK, LineInv, UNCHANGED <<pending, queued, callbackVars>>,
           \A c \in ToSet(queued) : code'[c] = code[c] /\ part'[c] = part[c]
    PROVE  LineInv'
  <1>1. CallbackTypes /\ QueueTypes
    BY Types
  <1>2. /\ pending' = pending /\ queued' = queued /\ specs' = specs
        /\ elements' = elements /\ inserted' = inserted /\ dropped' = dropped
        /\ callback' = callback /\ Taken' = Taken
    BY DEF callbackVars, Taken
  <1>3. QueuedOnce' /\ QueuedByItsCode' /\ IdleIsEmpty' /\ AllSomewhere'
        /\ DroppedIsGone'
    BY <1>2 DEF LineInv, QueuedOnce, QueuedByItsCode, IdleIsEmpty,
                AllSomewhere, DroppedIsGone
  <1>4. \A c : \/ c \in ToSet(Taken)
               \/ \E b \in Starts : c \in ToSet(pending[b])
            => c \in ToSet(queued)
    BY DEF LineInv, AllSomewhere
  <1>5. OwnCode'
    BY <1>2, <1>4 DEF LineInv, OwnCode
  <1>6. ASSUME NEW c \in ToSet(queued), NEW d \in ToSet(queued),
               <<c, d>> \in Earlier
        PROVE  <<c, d>> \in Earlier'
    BY <1>2, <1>6 DEF Earlier, QueuedBefore
  <1>7. OrderedBy(Taken, Earlier')
    <2>1. Taken \in Seq(Creates) /\ OrderedBy(Taken, Earlier)
      BY <1>1, TakenFacts DEF LineInv, InLine
    <2> HIDE DEF Taken
    <2>2. \A c, d \in ToSet(Taken) :
             <<c, d>> \in Earlier => <<c, d>> \in Earlier'
      BY <1>4, <1>6
    <2> QED
      BY <2>1, <2>2, OrderGrows
  <1>8. ASSUME NEW b \in Starts
        PROVE  /\ OrderedBy(pending[b], Earlier')
               /\ \A c \in ToSet(Taken), d \in ToSet(pending[b]) :
                     <<c, d>> \in Earlier'
    <2>1. pending[b] \in Seq(Creates) /\ OrderedBy(pending[b], Earlier)
      BY <1>1 DEF LineInv, InLine, QueueTypes
    <2>2. \A c, d \in ToSet(pending[b]) :
             <<c, d>> \in Earlier => <<c, d>> \in Earlier'
      BY <1>4, <1>6
    <2>3. OrderedBy(pending[b], Earlier')
      BY <2>1, <2>2, OrderGrows
    <2> QED
      BY <1>4, <1>6, <2>3 DEF LineInv, InLine
  <1>9. InLine'
    BY <1>2, <1>7, <1>8 DEF InLine
  <1> QED
    BY <1>3, <1>5, <1>9 DEF LineInv

\* What is queued is behind all that was queued before it.
LEMMA QueueSpecLine ==
    ASSUME IInv, LineInv, NEW t \in Threads, QueueSpec(t)
    PROVE  LineInv'
  <1> DEFINE c == busy[t]
             b == code[c]
             n == Len(queued)
  <1>1. /\ c \in Creates /\ c \in Commands /\ c # None /\ part[c] = 0
        /\ part' = [part EXCEPT ![c] = 2] /\ code' = code
        /\ pending' = [pending EXCEPT ![b] = Append(@, c)]
        /\ queued' = Append(queued, c)
        /\ specs' = specs /\ elements' = elements /\ inserted' = inserted
        /\ dropped' = dropped /\ callback' = callback /\ Taken' = Taken
    BY CommandsAssumption DEF QueueSpec, Commands, callbackVars, Taken
  <1>2. /\ CommandTypes /\ QueueTypes /\ CallbackTypes /\ b \in Starts
        /\ queued \in Seq(Creates) /\ n \in Nat /\ b # 0
    BY <1>1, Types, Running, StartsAssumption, LenProperties
    DEF CommandTypes, QueueTypes, Starts, IInv
  <1> HIDE DEF c, b, n
  <1>3. c \notin ToSet(queued)
    BY <1>1 DEF LineInv, QueuedByItsCode
  <1>4. /\ queued' \in Seq(Creates) /\ Len(queued') = n + 1
        /\ \A i \in 1..n : queued'[i] = queued[i]
        /\ queued'[n + 1] = c
        /\ DOMAIN queued = 1..n /\ DOMAIN queued' = 1..n + 1
    BY <1>1, <1>2, AppendProperties, LenProperties DEF n
  <1>5. ToSet(queued') = ToSet(queued) \cup {c}
    <2>1. queued \in Seq(Creates) /\ c \in Creates
      BY <1>1, <1>2
    <2>2. ToSet(Append(queued, c)) = ToSet(queued) \cup {c}
      BY <2>1, AppendSet
    <2> QED
      BY <1>1, <2>2
  <1>6. /\ pending'[b] = Append(pending[b], c)
        /\ \A d \in Starts : d # b => pending'[d] = pending[d]
        /\ \A d \in Starts : pending[d] \in Seq(Creates)
    BY <1>1, <1>2 DEF QueueTypes
  <1>7. ToSet(pending'[b]) = ToSet(pending[b]) \cup {c}
    <2>1. pending[b] \in Seq(Creates) /\ c \in Creates
      BY <1>1, <1>2, <1>6
    <2>2. ToSet(Append(pending[b], c)) = ToSet(pending[b]) \cup {c}
      BY <2>1, AppendSet
    <2> QED
      BY <1>6, <2>2
  <1>8. QueuedOnce'
    <2> SUFFICES ASSUME NEW i \in 1..n + 1, NEW j \in 1..n + 1,
                        queued'[i] = queued'[j]
                 PROVE  i = j
      BY <1>4 DEF QueuedOnce, IsInjective
    <2>1. \A k \in 1..n : queued[k] \in ToSet(queued)
      BY <1>2, SetFacts DEF n
    <2>2. \A k \in 1..n : queued'[k] # c
      BY <1>3, <1>4, <2>1
    <2>3. CASE i \in 1..n /\ j \in 1..n
      <3>1. queued[i] = queued[j]
        BY <1>4, <2>3
      <3>2. i \in DOMAIN queued /\ j \in DOMAIN queued
        BY <1>4, <2>3
      <3> QED
        BY <3>1, <3>2 DEF LineInv, QueuedOnce, IsInjective
    <2>4. CASE i = n + 1 \/ j = n + 1
      <3>1. queued'[i] = c /\ queued'[j] = c
        BY <1>4, <2>4
      <3>2. i \notin 1..n /\ j \notin 1..n
        BY <2>2, <3>1
      <3> QED
        BY <1>2, <3>2
    <2>5. i \in 1..n \/ i = n + 1
      BY <1>2
    <2>6. j \in 1..n \/ j = n + 1
      BY <1>2
    <2> QED
      BY <2>3, <2>4, <2>5, <2>6
  <1>9. QueuedByItsCode'
    BY <1>1, <1>2, <1>5 DEF LineInv, QueuedByItsCode, CommandTypes, b
  <1>10. IdleIsEmpty' /\ OwnCode'
    BY <1>1, <1>6, <1>7 DEF LineInv, IdleIsEmpty, OwnCode, b
  <1>11. AllSomewhere' /\ DroppedIsGone'
    <2>1. \A d \in Starts : \A x : x \in ToSet(pending'[d]) <=>
             x \in ToSet(pending[d]) \/ (d = b /\ x = c)
      BY <1>6, <1>7
    <2>2. c \notin dropped
      BY <1>3 DEF LineInv, AllSomewhere
    <2> QED
      BY <1>1, <1>2, <1>5, <2>1, <2>2
      DEF LineInv, AllSomewhere, DroppedIsGone
  \* Everything that was queued is earlier than what is queued now.
  <1>12. ASSUME NEW x \in ToSet(queued) PROVE <<x, c>> \in Earlier'
    <2>1. PICK i \in 1..n : queued[i] = x
      BY <1>2, SetFacts DEF n
    <2>2. i \in 1..n + 1 /\ n + 1 \in 1..n + 1 /\ i < n + 1
      BY <1>2
    <2>3. queued'[i] = x /\ queued'[n + 1] = c /\ Len(queued') = n + 1
      BY <1>4, <2>1
    <2>4. \E k, l \in 1..Len(queued') :
             k < l /\ queued'[k] = x /\ queued'[l] = c
      BY <2>2, <2>3
    <2>5. x \in Creates /\ <<x, c>> \in Creates \X Creates
      BY <1>1, <1>2, SetFacts
    <2> QED
      BY <2>4, <2>5 DEF Earlier, QueuedBefore
  <1>13. ASSUME NEW x, NEW y, <<x, y>> \in Earlier
         PROVE  <<x, y>> \in Earlier'
    <2>1. QueuedBefore(x, y) => QueuedBefore(x, y)'
      <3> SUFFICES ASSUME NEW i \in 1..n, NEW j \in 1..n,
                          i < j, queued[i] = x, queued[j] = y
                   PROVE  QueuedBefore(x, y)'
        BY DEF QueuedBefore, n
      <3>1. i \in 1..n + 1 /\ j \in 1..n + 1
        BY <1>2
      <3> QED
        BY <1>4, <3>1 DEF QueuedBefore
    <2> QED
      BY <1>1, <1>13, <2>1 DEF Earlier
  <1>14. \A x : \/ x \in ToSet(Taken)
                \/ \E d \in Starts : x \in ToSet(pending[d])
             => x \in ToSet(queued)
    BY DEF LineInv, AllSomewhere
  <1>15. OrderedBy(Taken, Earlier')
    <2>1. Taken \in Seq(Creates) /\ OrderedBy(Taken, Earlier)
      BY <1>2, TakenFacts DEF LineInv, InLine
    <2> HIDE DEF Taken
    <2> QED
      BY <1>13, <2>1, OrderGrows
  <1>16. ASSUME NEW d \in Starts
         PROVE  /\ OrderedBy(pending[d], Earlier')
                /\ \A x \in ToSet(Taken), y \in ToSet(pending[d]) :
                      <<x, y>> \in Earlier'
    <2>1. OrderedBy(pending[d], Earlier) /\ pending[d] \in Seq(Creates)
      BY <1>6 DEF LineInv, InLine
    <2>2. OrderedBy(pending[d], Earlier')
      BY <1>13, <2>1, OrderGrows
    <2> QED
      BY <1>13, <2>2 DEF LineInv, InLine
  <1>17. OrderedBy(pending'[b], Earlier')
    <2>1. \A x \in ToSet(pending[b]) : <<x, c>> \in Earlier'
      BY <1>2, <1>12, <1>14
    <2>2. OrderedBy(pending[b], Earlier')
      BY <1>2, <1>16
    <2> QED
      BY <1>1, <1>2, <1>6, <2>1, <2>2, AppendOrdered
  <1>18. InLine'
    <2> SUFFICES ASSUME NEW d \in Starts
                 PROVE  /\ OrderedBy(pending'[d], Earlier')
                        /\ \A x \in ToSet(Taken), y \in ToSet(pending'[d]) :
                              <<x, y>> \in Earlier'
      BY <1>1, <1>15 DEF InLine
    <2>1. CASE d # b
      BY <1>6, <1>16, <2>1
    <2>2. CASE d = b
      BY <1>7, <1>12, <1>14, <1>16, <1>17, <2>2
    <2> QED
      BY <2>1, <2>2
  <1> QED
    BY <1>8, <1>9, <1>10, <1>11, <1>18 DEF LineInv

\* The specs of a list that is flushed stay in line behind what is inserted;
\* those of other starts are in no order to them.
LEMMA FlushLine ==
    ASSUME IInv, LineInv, Flush
    PROVE  LineInv'
  <1> DEFINE p == pending[current]
  <1>1. /\ callback = "idle" /\ callback' = "building"
        /\ specs' = p /\ pending' = [pending EXCEPT ![current] = <<>>]
        /\ queued' = queued /\ elements' = elements /\ inserted' = inserted
        /\ dropped' = dropped /\ code' = code /\ part' = part
    BY DEF Flush, MainIsFree, commandVars
  <1>2. QueueTypes /\ CallbackTypes /\ CallbackTypes' /\ current \in Starts
    BY Types, CallbackStepOK DEF IInv, CallbackStep, BridgeTypes
  <1>3. specs = <<>> /\ elements = <<>>
    BY <1>1 DEF LineInv, IdleIsEmpty
  <1>4. /\ inserted \in Seq(Creates) /\ p \in Seq(Creates)
        /\ ToSet(<<>>) = {} /\ OrderedBy(<<>>, Earlier)
    BY <1>2, SingleOrdered DEF QueueTypes, CallbackTypes, ToSet, OrderedBy
  <1>5. Taken = inserted /\ Taken' = inserted \o p
    <2>1. inserted \o <<>> = inserted
      BY <1>4, ConcatEmptySeq
    <2> QED
      BY <1>1, <1>3, <2>1 DEF Taken
  <1>6. ToSet(Taken') = ToSet(Taken) \cup ToSet(p)
    BY <1>4, <1>5, ConcatSet
  <1>7. /\ pending'[current] = <<>>
        /\ \A b \in Starts : b # current => pending'[b] = pending[b]
    BY <1>1, <1>2 DEF QueueTypes
  <1>8. Earlier' = Earlier
    BY <1>1 DEF Earlier, QueuedBefore
  <1> HIDE DEF p
  <1>9. QueuedOnce' /\ QueuedByItsCode' /\ IdleIsEmpty'
    BY <1>1 DEF LineInv, QueuedOnce, QueuedByItsCode, IdleIsEmpty
  <1>10. \A b \in Starts : \A x : x \in ToSet(pending'[b]) <=>
             b # current /\ x \in ToSet(pending[b])
    BY <1>4, <1>7
  <1>11. OwnCode'
    BY <1>1, <1>10 DEF LineInv, OwnCode
  <1>12. AllSomewhere' /\ DroppedIsGone'
    BY <1>1, <1>2, <1>6, <1>10
    DEF LineInv, AllSomewhere, DroppedIsGone, p
  <1>13. OrderedBy(Taken', Earlier)
    <2>1. /\ OrderedBy(inserted, Earlier) /\ OrderedBy(p, Earlier)
          /\ \A x \in ToSet(inserted), y \in ToSet(p) : <<x, y>> \in Earlier
      BY <1>2, <1>5 DEF LineInv, InLine, p
    <2> QED
      BY <1>4, <1>5, <2>1, ConcatOrdered
  <1>14. ASSUME NEW b \in Starts, b # current
         PROVE  \A x \in ToSet(p), y \in ToSet(pending[b]) :
                   <<x, y>> \in Earlier
    <2>1. \A x \in ToSet(p) : x \in Creates /\ code[x] = current
      BY <1>2, <1>4, SetFacts DEF LineInv, OwnCode, p
    <2>2. \A y \in ToSet(pending[b]) : y \in Creates /\ code[y] = b
      BY <1>2, SetFacts DEF LineInv, OwnCode, QueueTypes
    <2> QED
      BY <1>14, <2>1, <2>2 DEF Earlier
  <1>15. InLine'
    <2> SUFFICES ASSUME NEW b \in Starts
                 PROVE  /\ OrderedBy(pending'[b], Earlier)
                        /\ \A x \in ToSet(Taken'), y \in ToSet(pending'[b]) :
                              <<x, y>> \in Earlier
      BY <1>8, <1>13 DEF InLine
    <2>1. CASE b = current
      BY <1>4, <1>7, <2>1
    <2>2. CASE b # current
      BY <1>6, <1>7, <1>14, <2>2 DEF LineInv, InLine
    <2> QED
      BY <2>1, <2>2
  <1> QED
    BY <1>9, <1>11, <1>12, <1>15 DEF LineInv

\* The callback moves specs of one line within it, or takes them out.
LEMMA CallbackLine ==
    ASSUME IInv, LineInv,
           callback = "building", CallbackTypes', IdleIsEmpty',
           UNCHANGED <<commandVars, pending, queued>>,
           Taken' \in Seq(Creates), OrderedBy(Taken', Earlier),
           ToSet(Taken') \cup dropped' = ToSet(Taken) \cup dropped,
           dropped \subseteq dropped', ToSet(Taken') \cap dropped' = {}
    PROVE  LineInv'
  <1>1. /\ pending' = pending /\ queued' = queued /\ code' = code
        /\ part' = part
    BY DEF commandVars
  <1>2. Earlier' = Earlier
    BY <1>1 DEF Earlier, QueuedBefore
  <1>3. queued \in Seq(Creates)
    BY Types DEF IInv, QueueTypes
  <1>4. ToSet(Taken') \subseteq ToSet(Taken)
    BY DEF LineInv, DroppedIsGone
  <1>5. QueuedOnce' /\ QueuedByItsCode' /\ OwnCode'
    BY <1>1 DEF LineInv, QueuedOnce, QueuedByItsCode, OwnCode
  <1>6. AllSomewhere'
    <2>1. \A c : c \in dropped' \/ c \in ToSet(Taken') <=>
                    c \in dropped \/ c \in ToSet(Taken)
      OBVIOUS
    <2> QED
      BY <1>1, <2>1 DEF LineInv, AllSomewhere
  <1>7. DroppedIsGone'
    <2>1. ASSUME NEW b \in Starts, NEW c \in ToSet(Taken)
          PROVE  c \notin ToSet(pending[b])
      <3>1. c \in ToSet(pending[b]) => <<c, c>> \in Earlier
        BY <2>1 DEF LineInv, InLine
      <3> QED
        BY <1>3, <3>1, NotBeforeItself DEF LineInv
    <2>2. ASSUME NEW c \in dropped', NEW b \in Starts
          PROVE  c \notin ToSet(Taken') /\ c \notin ToSet(pending[b])
      <3>1. c \in dropped \/ c \in ToSet(Taken)
        BY <2>2
      <3> QED
        BY <2>1, <2>2, <3>1 DEF LineInv, DroppedIsGone
    <2>3. \A c \in dropped' : c \notin ToSet(Taken')
      OBVIOUS
    <2> QED
      BY <1>1, <2>2, <2>3 DEF DroppedIsGone
  <1>8. InLine'
    BY <1>1, <1>2, <1>4 DEF LineInv, InLine
  <1> QED
    BY <1>5, <1>6, <1>7, <1>8 DEF LineInv

\* A spec that is built stays in its place of the line; one that cannot be
\* built leaves it.
LEMMA BuildLine ==
    ASSUME IInv, LineInv, Build
    PROVE  LineInv'
  <1> DEFINE h == Head(specs)
             t == Tail(specs)
             k == <<h>>
             u == inserted \o elements
  <1>1. /\ callback = "building" /\ callback' = callback /\ specs # <<>>
        /\ specs' = t /\ inserted' = inserted
        /\ UNCHANGED <<commandVars, pending, queued>>
        /\ \/ elements' = Append(elements, h) /\ dropped' = dropped
           \/ dropped' = dropped \cup {h} /\ elements' = elements
    BY DEF Build
  <1>2. /\ QueueTypes /\ CallbackTypes /\ CallbackTypes'
    BY Types, CallbackStepOK DEF IInv, CallbackStep
  <1>3. /\ inserted \in Seq(Creates) /\ elements \in Seq(Creates)
        /\ specs \in Seq(Creates) /\ queued \in Seq(Creates)
    BY <1>2 DEF QueueTypes, CallbackTypes
  <1>4. /\ h \in Creates /\ t \in Seq(Creates) /\ k \in Seq(Creates)
        /\ k \o t = specs /\ u \in Seq(Creates)
    BY <1>1, <1>2, <1>3, HeadAndTail, TakenFacts
  <1>4a. ToSet(k) = {h}
    BY SingleOrdered
  <1>5. Taken = u \o specs
    BY DEF Taken
  <1> HIDE DEF h, t, k
  <1>6. Taken' \in Seq(Creates)
    <2>1. /\ inserted' \in Seq(Creates) /\ elements' \in Seq(Creates)
          /\ specs' \in Seq(Creates)
      BY <1>2 DEF CallbackTypes
    <2>2. inserted' \o elements' \in Seq(Creates)
      BY <2>1, ConcatFacts
    <2> QED
      BY <2>1, <2>2, ConcatFacts DEF Taken
  <1>7. IdleIsEmpty'
    BY <1>1 DEF IdleIsEmpty
  <1>8. OrderedBy(Taken, Earlier)
    BY DEF LineInv, InLine
  <1>9. CASE elements' = Append(elements, h) /\ dropped' = dropped
    <2>1. Taken' = (inserted \o Append(elements, h)) \o t
      BY <1>1, <1>9 DEF Taken
    <2>2. Append(elements, h) = elements \o k
      BY <1>3, <1>4, AppendIsConcat DEF k
    <2>3. (inserted \o (elements \o k)) \o t = (inserted \o elements) \o (k \o t)
      <3>1. /\ inserted \in Seq(Creates) /\ elements \in Seq(Creates)
            /\ k \in Seq(Creates) /\ t \in Seq(Creates)
        BY <1>3, <1>4
      <3>2. TakesOver(inserted, elements, k, t)
        BY <3>1, TakeOver
      <3> QED
        BY <3>2 DEF TakesOver
    <2>4. Taken' = (inserted \o elements) \o specs
      BY <1>4, <2>1, <2>2, <2>3
    <2>5. Taken' = Taken
      BY <2>4 DEF Taken
    <2>6. ToSet(Taken') \cap dropped' = {}
      BY <1>9, <2>5 DEF LineInv, DroppedIsGone
    <2> QED
      BY <1>1, <1>2, <1>6, <1>7, <1>8, <1>9, <2>5, <2>6, CallbackLine
  <1>10. CASE dropped' = dropped \cup {h} /\ elements' = elements
    <2>1. Taken' = u \o t
      BY <1>1, <1>10 DEF Taken
    <2> HIDE DEF u
    <2>2. /\ OrderedBy(u, Earlier) /\ OrderedBy(specs, Earlier)
          /\ \A x \in ToSet(u), y \in ToSet(specs) : <<x, y>> \in Earlier
      BY <1>3, <1>4, <1>5, <1>8, ConcatOrdered
    <2>3. /\ OrderedBy(t, Earlier)
          /\ \A x \in ToSet(k), y \in ToSet(t) : <<x, y>> \in Earlier
      <3>1. k \in Seq(Creates) /\ t \in Seq(Creates)
        BY <1>4
      <3>2. OrderedBy(k \o t, Earlier)
        BY <1>4, <2>2
      <3> QED
        BY <3>1, <3>2, ConcatOrdered
    <2>4. ToSet(specs) = ToSet(k) \cup ToSet(t) /\ ToSet(k) = {h}
      <3>1. k \in Seq(Creates) /\ t \in Seq(Creates)
        BY <1>4
      <3>2. ToSet(k \o t) = ToSet(k) \cup ToSet(t)
        BY <3>1, ConcatSet
      <3> QED
        BY <1>4, <1>4a, <3>2
    <2>5. OrderedBy(Taken', Earlier)
      BY <1>4, <2>1, <2>2, <2>3, <2>4, ConcatOrdered
    <2>6. ToSet(Taken) = ToSet(u) \cup ToSet(specs)
      BY <1>3, <1>4, <1>5, ConcatSet
    <2>7. ToSet(Taken') = ToSet(u) \cup ToSet(t)
      BY <1>4, <2>1, ConcatSet
    <2>8. <<h, h>> \notin Earlier
      BY <1>3, NotBeforeItself DEF LineInv
    <2>9. h \notin ToSet(Taken')
      BY <2>2, <2>3, <2>4, <2>7, <2>8
    <2>10. ToSet(Taken') \cap dropped' = {}
      BY <1>10, <2>4, <2>6, <2>7, <2>9 DEF LineInv, DroppedIsGone
    <2>11. ToSet(Taken') \cup dropped' = ToSet(Taken) \cup dropped
      BY <1>10, <2>4, <2>6, <2>7
    <2>12. dropped \subseteq dropped'
      BY <1>10
    <2> QED
      BY <1>1, <1>2, <1>6, <1>7, <2>5, <2>10, <2>11, <2>12, CallbackLine
  <1> QED
    BY <1>1, <1>9, <1>10

\* The end of a callback leaves nothing in its hands.
LEMMA EndLine ==
    ASSUME IInv, LineInv, CreateElements \/ GiveUp
    PROVE  LineInv'
  <1> DEFINE u == inserted \o elements
  <1>1. /\ callback = "building" /\ specs' = <<>> /\ elements' = <<>>
        /\ UNCHANGED <<commandVars, pending, queued>>
    BY DEF CreateElements, GiveUp, EndCallback
  <1>2. /\ QueueTypes /\ CallbackTypes /\ CallbackTypes'
    BY Types, CallbackStepOK DEF IInv, CallbackStep
  <1>3. /\ inserted \in Seq(Creates) /\ elements \in Seq(Creates)
        /\ specs \in Seq(Creates) /\ queued \in Seq(Creates)
        /\ inserted' \in Seq(Creates) /\ u \in Seq(Creates)
    BY <1>2, TakenFacts DEF QueueTypes, CallbackTypes
  <1>4. IdleIsEmpty' /\ Taken = u \o specs
    BY <1>1 DEF IdleIsEmpty, Taken
  <1>5. Taken' = inserted'
    <2>1. Taken' = (inserted' \o <<>>) \o <<>>
      BY <1>1 DEF Taken
    <2>2. inserted' \o <<>> = inserted'
      BY <1>3, ConcatEmptySeq
    <2> QED
      BY <2>1, <2>2
  <1>5a. Taken' \in Seq(Creates)
    BY <1>3, <1>5
  <1>6. OrderedBy(Taken, Earlier)
    BY DEF LineInv, InLine
  <1>7. CASE CreateElements
    <2>1. inserted' = u /\ specs = <<>> /\ dropped' = dropped
      BY <1>7 DEF CreateElements
    <2>2. u \o <<>> = u
      BY <1>3, ConcatEmptySeq
    <2>3. Taken' = Taken
      BY <1>4, <1>5, <2>1, <2>2
    <2>4. ToSet(Taken') \cap dropped' = {}
      BY <2>1, <2>3 DEF LineInv, DroppedIsGone
    <2> QED
      BY <1>1, <1>2, <1>4, <1>5a, <1>6, <2>1, <2>3, <2>4, CallbackLine
  <1>8. CASE GiveUp
    <2>1. /\ inserted' = inserted
          /\ dropped' = dropped \cup ToSet(specs) \cup ToSet(elements)
      BY <1>8 DEF GiveUp
    <2>2. ToSet(Taken) = ToSet(inserted) \cup ToSet(elements) \cup ToSet(specs)
      BY <1>2, TakenFacts
    <2>3. /\ OrderedBy(u, Earlier)
          /\ \A x \in ToSet(u), y \in ToSet(specs) : <<x, y>> \in Earlier
      <3> HIDE DEF u
      <3> QED
        BY <1>3, <1>4, <1>6, ConcatOrdered
    <2>4. /\ OrderedBy(inserted, Earlier)
          /\ \A x \in ToSet(inserted), y \in ToSet(elements) :
                <<x, y>> \in Earlier
      BY <1>3, <2>3, ConcatOrdered
    <2>5. ToSet(u) = ToSet(inserted) \cup ToSet(elements)
      BY <1>2, TakenFacts
    <2>6. \A x : <<x, x>> \notin Earlier
      BY <1>3, NotBeforeItself DEF LineInv
    <2> HIDE DEF u
    <2>7. \A x \in ToSet(inserted) : x \notin ToSet(elements) \cup ToSet(specs)
      BY <2>3, <2>4, <2>5, <2>6
    <2>8. ToSet(Taken') \cap dropped' = {}
      BY <1>5, <2>1, <2>2, <2>7 DEF LineInv, DroppedIsGone
    <2>9. /\ ToSet(Taken') \cup dropped' = ToSet(Taken) \cup dropped
          /\ dropped \subseteq dropped'
      BY <1>5, <2>1, <2>2
    <2>10. OrderedBy(Taken', Earlier)
      BY <1>5, <2>1, <2>4
    <2> QED
      BY <1>1, <1>2, <1>4, <1>5a, <2>8, <2>9, <2>10, CallbackLine
  <1> QED
    BY <1>7, <1>8

\* Every step keeps the line.
LEMMA LineStep == IInv /\ LineInv /\ [Next]_vars => LineInv'
  <1> SUFFICES ASSUME IInv, LineInv, [Next]_vars PROVE LineInv'
    OBVIOUS
  <1> USE DEF IInv
  <1>1. ASSUME CreateInteractor \/ \E i \in Interactors : OnCancelFunction(i)
        PROVE  LineInv'
    BY <1>1, LineStays
    DEF CreateInteractor, Made, OnCancelFunction, commandVars
  <1>2. ASSUME NEW t \in Threads, NEW c \in Commands, NEW b \in Starts,
               Begin(t, c, b)
        PROVE  LineInv'
    <2>1. \A d \in ToSet(queued) : d # c
      BY <1>2 DEF Begin, LineInv, QueuedByItsCode
    <2>2. CommandTypes /\ ToSet(queued) \subseteq Commands
      BY Types, SetFacts DEF QueueTypes, Commands
    <2>3. \A d \in ToSet(queued) : code'[d] = code[d] /\ part'[d] = part[d]
      BY <1>2, <2>1, <2>2 DEF Begin, CommandTypes
    <2> QED
      BY <1>2, <2>3, LineStays DEF Begin
  <1>3. ASSUME NEW t \in Threads, Change(t)
        PROVE  LineInv'
    <2>1. busy[t] \in Changes
      BY <1>3 DEF Change
    <2>2. CommandTypes /\ ToSet(queued) \subseteq Creates
      BY Types, SetFacts DEF QueueTypes
    <2>3. \A d \in ToSet(queued) : code'[d] = code[d] /\ part'[d] = part[d]
      BY <1>3, <2>1, <2>2, CommandsAssumption
      DEF Change, CommandTypes, Commands
    <2> QED
      BY <1>3, <2>3, LineStays DEF Change
  <1>4. ASSUME NEW t \in Threads, Finish(t) \/ Fail(t) \/ CommitFails(t)
        PROVE  LineInv'
    BY <1>4, LineStays DEF Finish, Fail, CommitFails, Answer
  <1>5. ASSUME NEW t \in Threads, CommandStep(t) PROVE LineInv'
    BY <1>2, <1>3, <1>4, <1>5, QueueSpecLine DEF CommandStep
  <1>6. ASSUME CallbackStep PROVE LineInv'
    BY <1>6, FlushLine, BuildLine, EndLine DEF CallbackStep
  <1>7. ASSUME UNCHANGED vars PROVE LineInv'
    BY <1>7, LineStays DEF vars, commandVars
  <1> QED
    BY <1>1, <1>5, <1>6, <1>7 DEF Next

\* The specs stand in line in every state that is reached.
LEMMA AlwaysInLine == Spec => [](IInv /\ LineInv)
  <1>1. Init => IInv /\ LineInv
    BY InitOK, LineInit
  <1>2. IInv /\ LineInv /\ [Next]_vars => (IInv /\ LineInv)'
    BY NextOK, LineStep
  <1> QED
    BY <1>1, <1>2, PTL DEF Spec

\* From the queue over the mouse callback to the document every spec stays in
\* exactly one place, whatever threads queue specs meanwhile and however often
\* the bridge is restarted.
THEOREM NoSpecIsLost == Spec => []SpecsKept
  <1>1. ASSUME IInv, LineInv PROVE SpecsKept
    <2>1. /\ CallbackTypes /\ QueueTypes /\ queued \in Seq(Creates)
          /\ 0 \notin Starts
      BY <1>1, Types DEF IInv, QueueTypes, Starts
    <2>2. Held(0) = Taken /\ \A b \in Starts : Held(b) = pending[b]
      BY <2>1 DEF Held, Taken
    <2>3. \A b \in {0} \cup Starts : /\ Held(b) \in Seq(Creates)
                                     /\ OrderedBy(Held(b), Earlier)
                                     /\ ToSet(Held(b)) \cap dropped = {}
      BY <1>1, <2>1, <2>2, TakenFacts
      DEF QueueTypes, LineInv, InLine, DroppedIsGone
    <2>4. \A b \in {0} \cup Starts :
             /\ DOMAIN Held(b) = 1..Len(Held(b)) /\ Len(Held(b)) \in Nat
             /\ \A i \in 1..Len(Held(b)) : Held(b)[i] \in ToSet(Held(b))
      BY <2>3, LenProperties, SetFacts
    <2>5. \A c : <<c, c>> \notin Earlier
      BY <1>1, <2>1, NotBeforeItself DEF LineInv
    <2>6. ASSUME NEW a \in {0} \cup Starts, NEW b \in {0} \cup Starts,
                 NEW c \in ToSet(Held(a)), c \in ToSet(Held(b))
          PROVE  a = b
      <3>1. CASE a = 0 /\ b # 0
        BY <1>1, <2>2, <2>5, <2>6, <3>1 DEF LineInv, InLine
      <3>2. CASE a # 0 /\ b = 0
        BY <1>1, <2>2, <2>5, <2>6, <3>2 DEF LineInv, InLine
      <3>3. CASE a # 0 /\ b # 0
        BY <1>1, <2>2, <2>6, <3>3 DEF LineInv, OwnCode
      <3> QED
        BY <3>1, <3>2, <3>3
    <2>7. ASSUME NEW b \in {0} \cup Starts, NEW i \in 1..Len(Held(b)),
                 NEW j \in 1..Len(Held(b)), Held(b)[i] = Held(b)[j]
          PROVE  i = j
      <3>1. ~(i < j)
        BY <2>3, <2>5, <2>7 DEF OrderedBy
      <3>2. ~(j < i)
        BY <2>3, <2>5, <2>7 DEF OrderedBy
      <3>3. i \in Nat /\ j \in Nat
        BY <2>4
      <3> QED
        BY <3>1, <3>2, <3>3
    <2>8. \A a, b \in {0} \cup Starts :
             \A i \in DOMAIN Held(a), j \in DOMAIN Held(b) :
                 /\ Held(a)[i] \notin dropped
                 /\ Held(a)[i] = Held(b)[j] => a = b /\ i = j
      <3> SUFFICES ASSUME NEW a \in {0} \cup Starts, NEW b \in {0} \cup Starts,
                          NEW i \in 1..Len(Held(a)), NEW j \in 1..Len(Held(b))
                   PROVE  /\ Held(a)[i] \notin dropped
                          /\ Held(a)[i] = Held(b)[j] => a = b /\ i = j
        BY <2>4
      <3>1. Held(a)[i] \in ToSet(Held(a)) /\ Held(b)[j] \in ToSet(Held(b))
        BY <2>4
      <3> QED
        BY <2>3, <2>6, <2>7, <3>1
    <2>9. ToSet(queued) =
             dropped \cup UNION {ToSet(Held(b)) : b \in {0} \cup Starts}
      <3>1. \A c : c \in ToSet(queued) <=>
               c \in dropped \/ \E b \in {0} \cup Starts : c \in ToSet(Held(b))
        BY <1>1, <2>1, <2>2 DEF LineInv, AllSomewhere
      <3> QED
        BY <3>1
    <2> QED
      BY <1>1, <2>8, <2>9 DEF SpecsKept, LineInv, QueuedOnce
  <1> QED
    BY <1>1, AlwaysInLine, PTL

\* Elements of one start are in the document in the order in which their specs
\* were queued: skipped specs, failed callbacks and restarts take elements out
\* and never let one pass another.
THEOREM InsertionKeepsOrder == Spec => []InsertedInOrder
  <1>1. ASSUME IInv, LineInv PROVE InsertedInOrder
    <2>1. /\ inserted \in Seq(Creates) /\ elements \in Seq(Creates)
          /\ specs \in Seq(Creates) /\ inserted \o elements \in Seq(Creates)
      BY <1>1, Types, TakenFacts DEF IInv, CallbackTypes
    <2>2. OrderedBy((inserted \o elements) \o specs, Earlier)
      BY <1>1 DEF LineInv, InLine, Taken
    <2>3. OrderedBy(inserted \o elements, Earlier)
      BY <2>1, <2>2, ConcatOrdered
    <2>4. OrderedBy(inserted, Earlier)
      BY <2>1, <2>3, ConcatOrdered
    <2> QED
      BY <2>4 DEF OrderedBy, InsertedInOrder, Earlier
  <1> QED
    BY <1>1, AlwaysInLine, PTL
=============================================================================
