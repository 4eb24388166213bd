-------------------------- MODULE IpcClientProofs --------------------------
(***************************************************************************)
(* What IpcClient promises of connections and calls, for any number of     *)
(* calls and of connections.                                               *)
(***************************************************************************)
EXTENDS IpcClient, FiniteSetTheorems, SequenceTheorems, TLAPS

-----------------------------------------------------------------------------
(* The inductive invariant of connections and calls.  The send lock has an *)
(* invariant of its own, further down: none of the results before depends  *)
(* on it.                                                                  *)

ConnTypes ==
    /\ running \in BOOLEAN
    /\ transport \in 0..MaxLinks /\ last \in 0..MaxLinks
    /\ readers \subseteq Links /\ sleeping \in Nat /\ connecting \in Nat

CallTypes ==
    /\ call \in [Calls -> {"idle", "lock", "sending", "waiting", "done"}]
    /\ outcome \in [Calls -> Outcomes]
    /\ via \in [Calls -> 0..MaxLinks] /\ sends \in [Calls -> Nat]

FutTypes ==
    /\ pending \subseteq Calls
    /\ fut \in [Calls -> Responses \cup {"none", "AgentDisconnected"}]

RanTypes == ran \in [Calls -> Nat]

Types == ConnTypes /\ CallTypes /\ FutTypes /\ RanTypes

\* Without a transport there is no reader and at most one task that makes a
\* connection, one unless the client was stopped or its loop died; with a
\* transport there is its reader and no such task.
ConnOK ==
    \/ /\ transport = 0 /\ readers = {} /\ sleeping + connecting <= 1
       /\ running /\ ~crashed => sleeping + connecting > 0
    \/ transport # 0 /\ readers = {transport} /\ sleeping = 0 /\ connecting = 0

PendingOK ==
    /\ pending # {} => transport # 0
    /\ \A k \in Calls :
          /\ InProgress(k) => k \in pending \/ fut[k] # "none"
          /\ fut[k] # "none" => k \notin pending
          /\ call[k] = "idle" => k \notin pending /\ fut[k] = "none"
          /\ k \in pending => InProgress(k) \/ outcome[k] = "Cancelled"

SentOK ==
    \A k \in Calls :
        /\ sends[k] <= 1 /\ ran[k] <= sends[k]
        /\ call[k] \in {"idle", "lock", "sending"} => sends[k] = 0
        /\ \A g \in Links : <<k, g>> \in frames => sends[k] = 1 /\ ran[k] = 0
        /\ \A g, h \in Links :
              <<k, g>> \in frames /\ <<k, h>> \in frames => g = h

ViaOK ==
    /\ \A k \in Calls : call[k] = "sending" => via[k] \in Links
    /\ frames \subseteq Calls \X Links /\ late \subseteq Calls

\* The agent has read k's frame and will not run it.
Rejected(k) ==
    /\ sends[k] = 1 /\ ran[k] = 0 /\ k \notin late
    /\ \A g \in Links : <<k, g>> \notin frames

\* That the caller of k is told o agrees with what becomes of k.
Fits(k, o) ==
    /\ o = "result" => ran[k] = 1
    /\ o = "QueueFull" => Rejected(k)

AnsweredOK ==
    \A k \in Calls :
        /\ k \in late => /\ sends[k] = 1 /\ ran[k] = 0
                        /\ \A g \in Links : <<k, g>> \notin frames
        /\ \A g \in Links : \A o \in Responses :
              <<k, g, o>> \in answers => Fits(k, o)
        /\ Fits(k, fut[k]) /\ Fits(k, outcome[k])

CallInv == PendingOK /\ SentOK /\ ViaOK /\ AnsweredOK

IInv == Types /\ ConnOK /\ CallInv

-----------------------------------------------------------------------------
(* The initial state, and the groups that a step leaves alone.             *)

\* start() is connecting, no call was made.
LEMMA InitOK == Init => IInv
  <1> SUFFICES ASSUME Init PROVE IInv
    OBVIOUS
  <1> USE LinksAssumption DEF Init
  <1>1. Types
    BY DEF Types, ConnTypes, CallTypes, FutTypes, RanTypes, Outcomes
  <1>2. ConnOK
    BY DEF ConnOK
  <1>3. PendingOK
    BY DEF PendingOK, InProgress
  <1>4. SentOK /\ ViaOK /\ AnsweredOK
    BY DEF SentOK, ViaOK, AnsweredOK, Fits
  <1> QED BY <1>1, <1>2, <1>3, <1>4 DEF IInv, CallInv

\* What calls, readers that receive, and the agent leave alone.
LEMMA SameConnection ==
    ASSUME ConnTypes, ConnOK, UNCHANGED connVars
    PROVE  ConnTypes' /\ ConnOK' /\ transport' = transport
  BY DEF ConnTypes, ConnOK, connVars, flagVars, netVars, readVars, loopVars

\* What the connection's tasks leave alone.
LEMMA SameCalls ==
    ASSUME CallTypes, FutTypes, RanTypes, CallInv,
           UNCHANGED <<callVars, futVars, agentVars>>,
           pending # {} => transport' # 0
    PROVE  CallTypes' /\ FutTypes' /\ RanTypes' /\ CallInv'
  <1> USE DEF callVars, futVars, agentVars
  <1>1. CallTypes' /\ FutTypes' /\ RanTypes'
    BY DEF CallTypes, FutTypes, RanTypes
  <1>2. PendingOK'
    BY DEF CallInv, PendingOK, InProgress
  <1>3. SentOK' /\ ViaOK' /\ AnsweredOK'
    BY DEF CallInv, SentOK, ViaOK, AnsweredOK, Fits, Rejected
  <1> QED BY <1>1, <1>2, <1>3 DEF CallInv

-----------------------------------------------------------------------------
(* The steps of a call.                                                    *)

\* A call that ends is told one of the things a caller may be told.
LEMMA EndTypes ==
    ASSUME CallTypes, NEW k \in Calls, NEW o \in Outcomes, End(k, o),
           via' \in [Calls -> 0..MaxLinks], sends' \in [Calls -> Nat]
    PROVE  CallTypes'
  BY DEF CallTypes, End

\* A refused call has no entry and no future.
LEMMA RefuseStep ==
    ASSUME NEW k \in Calls, IInv, Refuse(k)
    PROVE  IInv'
  <1> USE DEF IInv, CallInv, Refuse, End
  <1>1. ConnTypes' /\ ConnOK' /\ transport' = transport
    BY SameConnection DEF Types
  <1>2. CallTypes' /\ FutTypes' /\ RanTypes'
    BY DEF Types, ConnTypes, CallTypes, FutTypes, RanTypes, Outcomes, futVars,
           agentVars
  <1>3. PendingOK'
    BY <1>1 DEF Types, ConnTypes, CallTypes, FutTypes, RanTypes, PendingOK,
                InProgress, futVars
  <1>4. SentOK'
    BY DEF Types, ConnTypes, CallTypes, FutTypes, RanTypes, SentOK, ViaOK,
           InProgress, agentVars
  <1>5. ViaOK'
    BY DEF Types, ConnTypes, CallTypes, FutTypes, RanTypes, ViaOK, Links,
           IsConnected, InProgress, agentVars
  <1>6. AnsweredOK'
    BY DEF Types, CallTypes, FutTypes, RanTypes, SentOK, AnsweredOK, Fits,
           Rejected, futVars, agentVars
  <1> QED BY <1>1, <1>2, <1>3, <1>4, <1>5, <1>6 DEF Types

\* A call that begins has its entry before it waits for the lock.
LEMMA BeginStep ==
    ASSUME NEW k \in Calls, IInv, Begin(k)
    PROVE  IInv'
  <1> USE DEF IInv, CallInv, Begin, End
  <1>1. ConnTypes' /\ ConnOK' /\ transport' = transport
    BY SameConnection DEF Types
  <1>2. CallTypes' /\ FutTypes' /\ RanTypes'
    BY DEF Types, ConnTypes, CallTypes, FutTypes, RanTypes, Outcomes, futVars,
           agentVars
  <1>3. PendingOK'
    BY <1>1 DEF Types, ConnTypes, CallTypes, FutTypes, RanTypes, PendingOK,
                InProgress, futVars, IsConnected
  <1>4. SentOK'
    BY DEF Types, ConnTypes, CallTypes, FutTypes, RanTypes, SentOK, ViaOK,
           InProgress, agentVars
  <1>5. ViaOK'
    BY DEF Types, ConnTypes, CallTypes, FutTypes, RanTypes, ViaOK, Links,
           IsConnected, InProgress, agentVars
  <1>6. AnsweredOK'
    BY DEF Types, CallTypes, FutTypes, RanTypes, SentOK, AnsweredOK, Fits,
           Rejected, futVars, agentVars
  <1> QED BY <1>1, <1>2, <1>3, <1>4, <1>5, <1>6 DEF Types

\* With the lock it sends on the transport there is, or returns.
LEMMA AcquireLockStep ==
    ASSUME NEW k \in Calls, IInv, AcquireLock(k)
    PROVE  IInv'
  <1> USE DEF IInv, CallInv, AcquireLock, End
  <1>1. ConnTypes' /\ ConnOK' /\ transport' = transport
    BY SameConnection DEF Types
  <1>2. CallTypes' /\ FutTypes' /\ RanTypes'
    <2>1. CASE transport = 0
      <3>1. /\ call' = [call EXCEPT ![k] = "done"] /\ via' = via
            /\ outcome' = [outcome EXCEPT ![k] = "AgentDisconnected"]
            /\ pending' = pending \ {k}
            /\ UNCHANGED <<fut, sends, ran>>
        BY <2>1 DEF agentVars
      <3>2. "AgentDisconnected" \in Outcomes
        BY DEF Outcomes
      <3> QED BY <3>1, <3>2 DEF Types, CallTypes, FutTypes, RanTypes
    <2>2. CASE transport # 0
      <3>1. /\ call' = [call EXCEPT ![k] = "sending"]
            /\ via' = [via EXCEPT ![k] = transport]
            /\ UNCHANGED <<outcome, pending, fut, sends, ran>>
        BY <2>2 DEF agentVars
      <3>2. transport \in 0..MaxLinks
        BY DEF Types, ConnTypes
      <3> QED BY <3>1, <3>2 DEF Types, CallTypes, FutTypes, RanTypes
    <2> QED BY <2>1, <2>2
  <1>3. PendingOK'
    BY <1>1 DEF Types, ConnTypes, CallTypes, FutTypes, RanTypes, PendingOK,
                InProgress, futVars
  <1>4. SentOK'
    BY DEF Types, ConnTypes, CallTypes, FutTypes, RanTypes, SentOK, ViaOK,
           InProgress, agentVars
  <1>5. ViaOK'
    BY SMTT(30)
    DEF Types, ConnTypes, CallTypes, FutTypes, RanTypes, ViaOK, Links,
        IsConnected, InProgress, agentVars
  <1>6. AnsweredOK'
    BY DEF Types, CallTypes, FutTypes, RanTypes, SentOK, AnsweredOK, Fits,
           Rejected, futVars, agentVars
  <1> QED BY <1>1, <1>2, <1>3, <1>4, <1>5, <1>6 DEF Types

\* What is written for the first time is run later, if at all.
LEMMA SendOkStep ==
    ASSUME NEW k \in Calls, IInv, SendOk(k)
    PROVE  IInv'
  <1> USE DEF IInv, CallInv, SendOk, End, Written
  <1>1. ConnTypes' /\ ConnOK' /\ transport' = transport
    BY SameConnection DEF Types
  <1>2. CallTypes' /\ FutTypes' /\ RanTypes'
    <2>1. sends' \in [Calls -> Nat] /\ via' \in [Calls -> 0..MaxLinks]
      BY LinksAssumption DEF Types, CallTypes
    <2> QED
      BY <2>1 DEF Types, CallTypes, FutTypes, RanTypes, futVars
  <1>3. PendingOK'
    BY <1>1 DEF Types, ConnTypes, CallTypes, FutTypes, RanTypes, PendingOK,
                InProgress, futVars
  <1>4. SentOK'
    BY DEF Types, ConnTypes, CallTypes, FutTypes, RanTypes, SentOK, ViaOK,
           InProgress, agentVars
  <1>5. ViaOK'
    BY DEF Types, ConnTypes, CallTypes, FutTypes, RanTypes, ViaOK, Links,
           IsConnected, InProgress, agentVars
  <1>6. AnsweredOK'
    BY DEF Types, CallTypes, FutTypes, RanTypes, SentOK, AnsweredOK, Fits,
           Rejected, futVars, agentVars
  <1> QED BY <1>1, <1>2, <1>3, <1>4, <1>5, <1>6 DEF Types

\* A send that fails may have been seen by the agent all the same.
LEMMA SendFailsStep ==
    ASSUME NEW k \in Calls, IInv, SendFails(k)
    PROVE  IInv'
  <1> USE DEF IInv, CallInv, SendFails, End, Written
  <1>1. ConnTypes' /\ ConnOK' /\ transport' = transport
    BY SameConnection DEF Types
  <1>2. CallTypes' /\ FutTypes' /\ RanTypes'
    <2>1. sends' \in [Calls -> Nat] /\ via' \in [Calls -> 0..MaxLinks]
      BY LinksAssumption DEF Types, CallTypes
    <2>2. CallTypes'
      BY <2>1, EndTypes DEF Types, Outcomes
    <2> QED
      BY <2>2 DEF Types, FutTypes, RanTypes
  <1>3. PendingOK'
    BY <1>1 DEF Types, ConnTypes, CallTypes, FutTypes, RanTypes, PendingOK,
                InProgress, futVars
  <1>4. SentOK'
    BY DEF Types, ConnTypes, CallTypes, FutTypes, RanTypes, SentOK, ViaOK,
           InProgress, agentVars
  <1>5. ViaOK'
    BY DEF Types, ConnTypes, CallTypes, FutTypes, RanTypes, ViaOK, Links,
           IsConnected, InProgress, agentVars
  <1>6. AnsweredOK'
    BY DEF Types, CallTypes, FutTypes, RanTypes, SentOK, AnsweredOK, Fits,
           Rejected, futVars, agentVars
  <1> QED BY <1>1, <1>2, <1>3, <1>4, <1>5, <1>6 DEF Types

\* A call that times out takes its entry along.
LEMMA TimeOutStep ==
    ASSUME NEW k \in Calls, IInv, TimeOut(k)
    PROVE  IInv'
  <1> USE DEF IInv, CallInv, TimeOut, End
  <1>1. ConnTypes' /\ ConnOK' /\ transport' = transport
    BY SameConnection DEF Types
  <1>2. CallTypes' /\ FutTypes' /\ RanTypes'
    <2>1. CallTypes'
      BY EndTypes DEF Types, CallTypes, Outcomes, Responses
    <2> QED
      BY <2>1 DEF Types, FutTypes, RanTypes, agentVars
  <1>3. PendingOK'
    BY <1>1 DEF Types, ConnTypes, CallTypes, FutTypes, RanTypes, PendingOK,
                InProgress, futVars
  <1>4. SentOK'
    BY DEF Types, ConnTypes, CallTypes, FutTypes, RanTypes, SentOK, ViaOK,
           InProgress, agentVars
  <1>5. ViaOK'
    BY DEF Types, ConnTypes, CallTypes, FutTypes, RanTypes, ViaOK, Links,
           IsConnected, InProgress, agentVars
  <1>6. AnsweredOK'
    BY DEF Types, CallTypes, FutTypes, RanTypes, SentOK, AnsweredOK, Fits,
           Rejected, futVars, agentVars
  <1> QED BY <1>1, <1>2, <1>3, <1>4, <1>5, <1>6 DEF Types

\* What its future was resolved with is what the call returns.
LEMMA ReturnStep ==
    ASSUME NEW k \in Calls, IInv, Return(k)
    PROVE  IInv'
  <1> USE DEF IInv, CallInv, Return, End
  <1>1. ConnTypes' /\ ConnOK' /\ transport' = transport
    BY SameConnection DEF Types
  <1>2. CallTypes' /\ FutTypes' /\ RanTypes'
    <2>1. fut[k] \in Outcomes
      BY DEF Types, FutTypes, Outcomes
    <2>2. CallTypes'
      BY <2>1, EndTypes DEF Types, CallTypes
    <2> QED
      BY <2>2 DEF Types, FutTypes, RanTypes, futVars, agentVars
  <1>3. PendingOK'
    BY <1>1 DEF Types, ConnTypes, CallTypes, FutTypes, RanTypes, PendingOK,
                InProgress, futVars
  <1>4. SentOK'
    BY DEF Types, ConnTypes, CallTypes, FutTypes, RanTypes, SentOK, ViaOK,
           InProgress, agentVars
  <1>5. ViaOK'
    BY DEF Types, ConnTypes, CallTypes, FutTypes, RanTypes, ViaOK, Links,
           IsConnected, InProgress, agentVars
  <1>6. AnsweredOK'
    BY DEF Types, CallTypes, FutTypes, RanTypes, SentOK, AnsweredOK, Fits,
           Rejected, futVars, agentVars
  <1> QED BY <1>1, <1>2, <1>3, <1>4, <1>5, <1>6 DEF Types

\* A cancelled call may leave its entry behind.
LEMMA CancelStep ==
    ASSUME NEW k \in Calls, IInv, Cancel(k)
    PROVE  IInv'
  <1> USE DEF IInv, CallInv, Cancel, End, Written
  <1>1. ConnTypes' /\ ConnOK' /\ transport' = transport
    BY SameConnection DEF Types
  <1>2. CallTypes' /\ FutTypes' /\ RanTypes'
    <2>1. /\ call' = [call EXCEPT ![k] = "done"]
          /\ outcome' = [outcome EXCEPT ![k] = "Cancelled"]
          /\ via' = [via EXCEPT ![k] = 0]
          /\ fut' = fut /\ pending' = pending /\ ran' = ran
          /\ sends' = sends \/ sends' = [sends EXCEPT ![k] = @ + 1]
      BY DEF futVars
    <2>2. CallTypes'
      <3>1. sends \in [Calls -> Nat] /\ CallTypes
        BY DEF Types, CallTypes
      <3>2. sends' \in [Calls -> Nat]
        BY <2>1, <3>1
      <3>3. via' \in [Calls -> 0..MaxLinks]
        BY <2>1, LinksAssumption DEF Types, CallTypes
      <3> QED
        BY <3>1, <3>2, <3>3, EndTypes DEF Outcomes
    <2>3. FutTypes' /\ RanTypes'
      BY <2>1 DEF Types, FutTypes, RanTypes
    <2> QED
      BY <2>2, <2>3
  <1>3. PendingOK'
    BY <1>1 DEF Types, ConnTypes, CallTypes, FutTypes, RanTypes, PendingOK,
                InProgress, futVars
  <1>4. SentOK'
    BY DEF Types, ConnTypes, CallTypes, FutTypes, RanTypes, SentOK, ViaOK,
           InProgress, agentVars
  <1>5. ViaOK'
    BY DEF Types, ConnTypes, CallTypes, FutTypes, RanTypes, ViaOK, Links,
           IsConnected, InProgress, agentVars
  <1>6. AnsweredOK'
    BY DEF Types, CallTypes, FutTypes, RanTypes, SentOK, AnsweredOK, Fits,
           Rejected, futVars, agentVars
  <1> QED BY <1>1, <1>2, <1>3, <1>4, <1>5, <1>6 DEF Types

-----------------------------------------------------------------------------
(* The reader.                                                             *)

\* A response is given to the call it answers, if that still waits.
LEMMA ReceiveStep ==
    ASSUME NEW g \in Links, IInv, Receive(g)
    PROVE  IInv'
  <1> USE DEF IInv, CallInv
  <1> PICK k \in Calls, o \in Responses :
        /\ <<k, g, o>> \in answers
        /\ answers' = answers \ {<<k, g, o>>}
        /\ pending' = pending \ {k}
        /\ fut' = IF k \in pending /\ fut[k] = "none"
                  THEN [fut EXCEPT ![k] = o] ELSE fut
        /\ UNCHANGED <<connVars, callVars, frames, late, ran>>
    BY DEF Receive
  <1>1. ConnTypes' /\ ConnOK' /\ transport' = transport
    BY SameConnection DEF Types
  <1>2. CallTypes' /\ FutTypes' /\ RanTypes'
    BY DEF Types, ConnTypes, CallTypes, FutTypes, RanTypes, callVars
  <1>3. PendingOK'
    <2>1. o # "none"
      BY DEF Responses
    <2> QED
      BY <1>1, <2>1 DEF Types, CallTypes, FutTypes, PendingOK, InProgress,
                        callVars
  <1>4. SentOK' /\ ViaOK'
    BY DEF SentOK, ViaOK, callVars
  <1>5. AnsweredOK'
    <2>1. Fits(k, o)
      BY DEF AnsweredOK
    <2>2. \A j \in Calls : fut'[j] = fut[j] \/ (j = k /\ fut'[j] = o)
      BY DEF Types, FutTypes
    <2>3. \A j \in Calls, p \in Outcomes : Fits(j, p)' = Fits(j, p)
      BY DEF Fits, Rejected, callVars
    <2>4. \A j \in Calls : Fits(j, fut'[j]) /\ fut'[j] \in Outcomes
      BY <1>2, <2>1, <2>2 DEF AnsweredOK, FutTypes, Outcomes
    <2>5. \A j \in Calls : Fits(j, fut[j])'
      BY <2>3, <2>4 DEF Fits, Rejected, callVars
    <2>6. \A j \in Calls : Fits(j, outcome[j])'
      BY DEF AnsweredOK, Fits, Rejected, callVars
    <2> QED
      BY <2>5, <2>6 DEF AnsweredOK, Fits, Rejected, callVars
  <1> QED BY <1>1, <1>2, <1>3, <1>4, <1>5 DEF Types

\* Every call with an entry is failed and the entries are gone.
LEMMA PendingFailed ==
    ASSUME CallTypes, FutTypes, RanTypes, CallInv, FailAllPending,
           UNCHANGED <<callVars, agentVars>>
    PROVE  CallTypes' /\ FutTypes' /\ RanTypes' /\ CallInv'
  <1> USE DEF callVars, agentVars, FailAllPending
  <1>1. CallTypes' /\ FutTypes' /\ RanTypes'
    BY DEF CallTypes, FutTypes, RanTypes
  <1>2. PendingOK'
    BY DEF CallInv, PendingOK, InProgress, CallTypes, FutTypes
  <1>3. SentOK' /\ ViaOK'
    BY DEF CallInv, SentOK, ViaOK
  <1>4. AnsweredOK'
    BY DEF CallInv, AnsweredOK, Fits, Rejected, FutTypes
  <1> QED BY <1>1, <1>2, <1>3, <1>4 DEF CallInv

\* The only reader ends, and starts the only reconnect loop.
LEMMA DisconnectStep ==
    ASSUME NEW g \in Links, IInv, g \in readers, Disconnect(g)
    PROVE  IInv'
  <1>1. ConnTypes' /\ ConnOK'
    BY LinksAssumption
    DEF IInv, Types, ConnTypes, ConnOK, Disconnect, flagVars, netVars
  <1>2. CallTypes' /\ FutTypes' /\ RanTypes' /\ CallInv'
    BY PendingFailed DEF IInv, Types, Disconnect
  <1> QED BY <1>1, <1>2 DEF IInv, Types

-----------------------------------------------------------------------------
(* The loop, stop(), and the agent.                                        *)

\* A loop that connects found no transport, and calls find one only after it.
LEMMA LoopStepOK == ASSUME IInv, LoopStep PROVE IInv'
  <1> USE DEF IInv, Types
  <1>1. CASE Wake
    <2>1. ConnTypes' /\ ConnOK' /\ transport' = transport
      BY <1>1 DEF ConnTypes, ConnOK, Wake, flagVars, netVars, readVars
    <2>2. CallTypes' /\ FutTypes' /\ RanTypes' /\ CallInv'
      BY <1>1, <2>1, SameCalls DEF Wake, CallInv, PendingOK
    <2> QED BY <2>1, <2>2
  <1>2. CASE ConnectOk
    <2>1. transport = 0 /\ readers = {} /\ sleeping = 0 /\ connecting = 1
      BY <1>2 DEF ConnTypes, ConnOK, ConnectOk
    <2>2. ConnTypes' /\ ConnOK' /\ transport' # 0
      BY <1>2, <2>1, LinksAssumption DEF ConnTypes, ConnOK, ConnectOk, Links
    <2>3. CallTypes' /\ FutTypes' /\ RanTypes' /\ CallInv'
      BY <1>2, <2>2, SameCalls DEF ConnectOk
    <2> QED BY <2>2, <2>3
  <1>3. CASE ConnectFails
    <2>1. ConnTypes' /\ ConnOK' /\ transport' = transport
      BY <1>3 DEF ConnTypes, ConnOK, ConnectFails, IsConnected, netVars,
                  readVars
    <2>2. CallTypes' /\ FutTypes' /\ RanTypes' /\ CallInv'
      BY <1>3, <2>1, SameCalls DEF ConnectFails, CallInv, PendingOK
    <2> QED BY <2>1, <2>2
  <1>4. CASE ConnectCrashes
    <2>1. ConnTypes' /\ ConnOK' /\ transport' = transport
      BY <1>4 DEF ConnTypes, ConnOK, ConnectCrashes, flagVars, netVars,
                  readVars
    <2>2. CallTypes' /\ FutTypes' /\ RanTypes' /\ CallInv'
      BY <1>4, <2>1, SameCalls DEF ConnectCrashes, CallInv, PendingOK
    <2> QED BY <2>1, <2>2
  <1> QED BY <1>1, <1>2, <1>3, <1>4 DEF LoopStep

\* stop() fails the pending calls; the reader is still to see the end.
LEMMA StopStep == ASSUME IInv, Stop \/ CloseDone PROVE IInv'
  <1> USE DEF IInv, Types
  <1>1. ConnTypes' /\ ConnOK' /\ transport' = transport
    <2>1. CASE Stop
      BY <2>1 DEF ConnTypes, ConnOK, Stop, netVars, loopVars
    <2>2. CASE CloseDone
      BY <2>2 DEF ConnTypes, ConnOK, CloseDone, loopVars, readVars
    <2> QED BY <2>1, <2>2
  <1>2. CASE Stop
    BY <1>1, <1>2, PendingFailed DEF Stop
  <1>3. CASE CloseDone
    BY <1>1, <1>3, SameCalls DEF CloseDone, CallInv, PendingOK
  <1> QED BY <1>2, <1>3

\* The agent reads a frame once, and what it then answers fits what it does.
LEMMA AgentStepOK == ASSUME IInv, AgentStep PROVE IInv'
  <1> USE DEF IInv, Types
  <1>1. CASE AgentGoes \/ AgentComes
    <2>1. ConnTypes' /\ ConnOK' /\ transport' = transport
      BY <1>1 DEF ConnTypes, ConnOK, AgentGoes, AgentComes, flagVars,
                  readVars, loopVars
    <2>2. CallTypes' /\ FutTypes' /\ RanTypes' /\ CallInv'
      BY <1>1, <2>1, SameCalls DEF AgentGoes, AgentComes, CallInv, PendingOK
    <2> QED BY <2>1, <2>2
  <1>2. ASSUME NEW k \in Calls, NEW g \in Links, NEW o \in Responses,
               Answer(k, g, o), o = "result" => ran' = [ran EXCEPT ![k] = 1],
               o # "result" => ran' = ran,
               late' = IF o = "Timeout" THEN late \cup {k} ELSE late
        PROVE  IInv'
    <2> USE <1>2 DEF Answer
    <2>1. ConnTypes' /\ ConnOK' /\ transport' = transport
      BY SameConnection
    <2>2. CallTypes' /\ FutTypes' /\ RanTypes'
      BY DEF CallTypes, FutTypes, RanTypes, callVars, futVars
    <2>3. PendingOK'
      BY <2>1 DEF CallInv, PendingOK, InProgress, callVars, futVars
    <2>4. sends[k] = 1 /\ ran[k] = 0 /\ k \notin late
      BY DEF CallInv, SentOK, AnsweredOK
    <2>5. \A h \in Links : <<k, h>> \notin frames'
      BY DEF CallInv, SentOK
    <2>6. SentOK'
      BY <2>4, <2>5 DEF CallInv, SentOK, CallTypes, RanTypes, callVars
    <2>7. ViaOK'
      BY DEF CallInv, ViaOK, callVars
    <2>8. AnsweredOK'
      <3>1. \A j \in Calls, p \in Responses \cup {"none"} :
               Fits(j, p) /\ j # k => Fits(j, p)'
        BY DEF Fits, Rejected, RanTypes, callVars
      <3>2. Fits(k, o)'
        BY <2>4, <2>5 DEF Fits, Rejected, RanTypes, Responses, callVars
      <3>3. ~Fits(k, "result") /\ ~Fits(k, "QueueFull")
        BY <2>4 DEF Fits, Rejected
      <3> QED
        BY <2>4, <2>5, <3>1, <3>2, <3>3
        DEF CallInv, AnsweredOK, Fits, Rejected, RanTypes, Responses, callVars,
            futVars
    <2> QED BY <2>1, <2>2, <2>3, <2>6, <2>7, <2>8 DEF CallInv
  <1>3. ASSUME NEW k \in Calls, NEW g \in Links, AgentRuns(k, g) PROVE IInv'
    <2>1. ran[k] = 0 /\ Answer(k, g, "result") /\ late' = late
      BY <1>3 DEF AgentRuns, Answer, CallInv, SentOK
    <2>2. ran' = [ran EXCEPT ![k] = 1]
      BY <1>3, <2>1 DEF AgentRuns
    <2> QED
      BY <1>2, <2>1, <2>2 DEF Responses
  <1>4. ASSUME NEW k \in Calls, NEW g \in Links,
               AgentRejects(k, g) \/ AgentGivesUp(k, g)
        PROVE  IInv'
    BY <1>2, <1>4 DEF AgentRejects, AgentGivesUp, Responses
  <1>5. ASSUME NEW k \in Calls, AgentRunsLate(k) PROVE IInv'
    <2> USE <1>5 DEF AgentRunsLate
    <2>1. ConnTypes' /\ ConnOK' /\ transport' = transport
      BY SameConnection
    <2>2. CallTypes' /\ FutTypes' /\ RanTypes'
      BY DEF CallTypes, FutTypes, RanTypes, callVars, futVars
    <2>3. PendingOK'
      BY <2>1 DEF CallInv, PendingOK, InProgress, callVars, futVars
    <2>4. /\ sends[k] = 1 /\ ran[k] = 0
          /\ \A h \in Links : <<k, h>> \notin frames
      BY DEF CallInv, AnsweredOK
    <2>5. ran' = [ran EXCEPT ![k] = 1]
      BY <2>4
    <2>6. SentOK'
      BY <2>4, <2>5 DEF CallInv, SentOK, CallTypes, RanTypes, callVars
    <2>7. ViaOK'
      BY DEF CallInv, ViaOK, callVars
    <2>8. AnsweredOK'
      BY <2>4, <2>5
      DEF CallInv, AnsweredOK, Fits, Rejected, RanTypes, callVars, futVars
    <2> QED BY <2>1, <2>2, <2>3, <2>6, <2>7, <2>8 DEF CallInv
  <1> QED BY <1>1, <1>3, <1>4, <1>5 DEF AgentStep

\* Every step of the client and of its surroundings keeps the invariant.
LEMMA NextOK == ASSUME IInv, [Next]_vars PROVE IInv'
  <1>1. ASSUME NEW k \in Calls, CallStep(k) PROVE IInv'
    BY <1>1, RefuseStep, BeginStep, AcquireLockStep, SendOkStep,
       SendFailsStep, TimeOutStep, ReturnStep, CancelStep DEF CallStep
  <1>2. ASSUME NEW g \in Links, ReaderStep(g) PROVE IInv'
    BY <1>2, ReceiveStep, DisconnectStep DEF ReaderStep, ReaderEnds, BadFrame
  <1>3. CASE UNCHANGED vars
    <2>1. ConnTypes' /\ ConnOK' /\ transport' = transport
      BY <1>3, SameConnection DEF vars, IInv, Types
    <2>2. CallTypes' /\ FutTypes' /\ RanTypes' /\ CallInv'
      BY <1>3, <2>1, SameCalls DEF vars, IInv, Types, CallInv, PendingOK
    <2> QED BY <2>1, <2>2 DEF IInv, Types
  <1> QED BY <1>1, <1>2, <1>3, LoopStepOK, StopStep, AgentStepOK DEF Next

\* The invariant holds of every state that is reached.
LEMMA Inductive == Spec => []IInv
  BY InitOK, NextOK, PTL DEF Spec

-----------------------------------------------------------------------------
(* The theorems.                                                           *)

\* However often links break, the client stops and the agent comes and goes,
\* there is one connection, or one task making one, and never two of either.
THEOREM NeverTwoConnections == Spec => []OneConnection
  <1>1. ASSUME IInv PROVE OneConnection
    <2>1. CASE transport = 0
      <3>1. readers = {} /\ sleeping + connecting <= 1
        BY <1>1, <2>1 DEF IInv, ConnOK
      <3>2. Cardinality(readers) = 0
        BY <3>1, FS_EmptySet
      <3> QED BY <1>1, <3>1, <3>2 DEF IInv, Types, ConnTypes, OneConnection
    <2>2. CASE transport # 0
      <3>1. readers = {transport} /\ sleeping = 0 /\ connecting = 0
        BY <1>1, <2>2 DEF IInv, ConnOK
      <3>2. Cardinality(readers) = 1
        BY <3>1, FS_Singleton
      <3> QED BY <3>1, <3>2 DEF OneConnection
    <2> QED BY <2>1, <2>2
  <1> QED BY <1>1, Inductive, PTL

\* A call that waits has its entry, or what it waits for; and while there are
\* entries there is a reader to resolve or to fail them.
THEOREM SomebodyAnswers == Spec => []NobodyStranded
  <1>1. IInv => NobodyStranded
    BY DEF IInv, CallInv, ConnOK, PendingOK, InProgress, NobodyStranded
  <1> QED BY <1>1, Inductive, PTL

\* Only a cancelled call leaves its entry behind.
THEOREM EntriesAreRemoved == Spec => []NoLeftovers
  <1>1. IInv => NoLeftovers
    BY DEF IInv, Types, FutTypes, CallInv, PendingOK, NoLeftovers
  <1> QED BY <1>1, Inductive, PTL

\* However the client reconnects, a command is sent at most once and run at
\* most once.
THEOREM NoCommandRepeated == Spec => []SentAtMostOnce
  <1>1. IInv => SentAtMostOnce
    BY DEF IInv, Types, CallTypes, RanTypes, CallInv, SentOK, SentAtMostOnce
  <1> QED BY <1>1, Inductive, PTL

\* A call returns a result only if the agent ran that call, and is told that
\* the queue is full only if the agent did not and never will, although answers
\* of both kinds and late ones arrive over connections that come and go.
THEOREM AnsweredTruly == Spec => []ResponsesAreReal
  <1>1. IInv => ResponsesAreReal
    BY DEF IInv, CallInv, AnsweredOK, Fits, Rejected, ResponsesAreReal
  <1> QED BY <1>1, Inductive, PTL

\* A running client without a connection has a task that tries to make one,
\* unless an exception ended that task.
THEOREM KeepsTrying == Spec => []TryingUnlessCrashed
  <1>1. IInv => TryingUnlessCrashed
    BY DEF IInv, ConnOK, TryingUnlessCrashed
  <1> QED BY <1>1, Inductive, PTL

-----------------------------------------------------------------------------
(***************************************************************************)
(* The send lock.  It holds exactly the calls that send or wait to send,   *)
(* each once, and who sends is first: what a call takes off the lock when  *)
(* its send ends is its own place.                                         *)
(***************************************************************************)
LockTypes == lock \in Seq(Calls)

EachOnce ==
    \A i, j \in 1..Len(lock) : lock[i] = lock[j] => i = j

LockHoldsSenders ==
    \A i \in 1..Len(lock) : call[lock[i]] \in {"lock", "sending"}

SendersInLock ==
    \A k \in Calls :
        call[k] \in {"lock", "sending"} =>
            \E i \in 1..Len(lock) : lock[i] = k

FirstSends ==
    \A k \in Calls : call[k] = "sending" => lock # <<>> /\ lock[1] = k

LockOK ==
    LockTypes /\ EachOnce /\ LockHoldsSenders /\ SendersInLock /\ FirstSends

\* What is left of a sequence without one position, place by place.
LEMMA RemoveAtFacts ==
    ASSUME NEW S, NEW s \in Seq(S), NEW p \in 1..Len(s)
    PROVE  /\ RemoveAt(s, p) \in Seq(S)
           /\ Len(RemoveAt(s, p)) = Len(s) - 1
           /\ \A i \in 1..Len(s) - 1 :
                 RemoveAt(s, p)[i] = IF i < p THEN s[i] ELSE s[i + 1]
  <1> DEFINE a == SubSeq(s, 1, p - 1)
             b == SubSeq(s, p + 1, Len(s))
  <1>1. Len(s) \in Nat /\ p \in Nat /\ 1 <= p /\ p <= Len(s)
    BY LenProperties
  <1>2. /\ a \in Seq(S) /\ Len(a) = p - 1
        /\ \A i \in 1..p - 1 : a[i] = s[i]
    <2>1. \A i \in 1..p - 1 : s[i] \in S
      BY <1>1, ElementOfSeq
    <2>2. 1 \in Int /\ p - 1 \in Int /\ (1 <= p - 1 + 1)
      BY <1>1
    <2> QED
      BY <1>1, <2>1, <2>2, SubSeqProperties
  <1>3. /\ b \in Seq(S) /\ Len(b) = Len(s) - p
        /\ \A i \in 1..Len(s) - p : b[i] = s[p + i]
    <2>1. \A i \in p + 1..Len(s) : s[i] \in S
      BY <1>1, ElementOfSeq
    <2> QED
      BY <1>1, <2>1, SubSeqProperties
  <1>4. RemoveAt(s, p) = a \o b
    BY DEF RemoveAt
  <1> HIDE DEF a, b
  <1>5. /\ a \o b \in Seq(S) /\ Len(a \o b) = Len(a) + Len(b)
        /\ \A i \in 1..Len(a) + Len(b) :
              (a \o b)[i] = IF i <= Len(a) THEN a[i] ELSE b[i - Len(a)]
    BY <1>2, <1>3, ConcatProperties
  <1>6. Len(a) + Len(b) = Len(s) - 1
    BY <1>1, <1>2, <1>3
  <1>7. ASSUME NEW i \in 1..Len(s) - 1
        PROVE  (a \o b)[i] = IF i < p THEN s[i] ELSE s[i + 1]
    <2>1. (a \o b)[i] = IF i <= Len(a) THEN a[i] ELSE b[i - Len(a)]
      BY <1>5, <1>6
    <2>2. CASE i < p
      <3>1. i <= Len(a) /\ i \in 1..p - 1
        BY <1>1, <1>2, <2>2
      <3> QED
        BY <1>2, <2>1, <2>2, <3>1
    <2>3. CASE ~(i < p)
      <3>1. /\ ~(i <= Len(a)) /\ i - Len(a) \in 1..Len(s) - p
            /\ p + (i - Len(a)) = i + 1
        BY <1>1, <1>2, <2>3
      <3> QED
        BY <1>3, <2>1, <2>3, <3>1
    <2> QED
      BY <2>2, <2>3
  <1> QED
    BY <1>4, <1>5, <1>6, <1>7

\* Calls that neither hold nor want the lock leave it as it is.
LEMMA LockKept ==
    ASSUME LockOK, lock' = lock,
           \A k \in Calls :
              call'[k] = call[k] \/ {call[k], call'[k]} \cap {"lock", "sending"}
                                    = {}
    PROVE  LockOK'
  <1>1. \A k \in Calls : call'[k] \in {"lock", "sending"} => call'[k] = call[k]
    OBVIOUS
  <1>2. \A k \in Calls : call[k] \in {"lock", "sending"} => call'[k] = call[k]
    OBVIOUS
  <1>3. \A i \in 1..Len(lock) : lock[i] \in Calls
    BY ElementOfSeq DEF LockOK, LockTypes
  <1>4. LockTypes' /\ EachOnce'
    BY DEF LockOK, LockTypes, EachOnce
  <1>5. LockHoldsSenders'
    BY <1>2, <1>3 DEF LockOK, LockHoldsSenders
  <1>6. SendersInLock'
    BY <1>1 DEF LockOK, SendersInLock
  <1>7. FirstSends'
    BY <1>1 DEF LockOK, FirstSends
  <1> QED
    BY <1>4, <1>5, <1>6, <1>7 DEF LockOK

\* Who leaves the lock takes its place with it; if it was sending, nobody is.
LEMMA LockLeft ==
    ASSUME LockOK, CallTypes, NEW p \in 1..Len(lock), NEW k \in Calls,
           lock[p] = k, NEW c \in {"waiting", "done"},
           call' = [call EXCEPT ![k] = c],
           lock' \in Seq(Calls), Len(lock') = Len(lock) - 1,
           \A i \in 1..Len(lock) - 1 :
              lock'[i] = IF i < p THEN lock[i] ELSE lock[i + 1]
    PROVE  LockOK'
  <1> DEFINE n == Len(lock)
             At(i) == IF i < p THEN i ELSE i + 1
  <1>1. n \in Nat /\ p \in 1..n /\ Len(lock') = n - 1
    BY LenProperties DEF LockOK, LockTypes
  <1>2. \A j \in Calls : call'[j] = IF j = k THEN c ELSE call[j]
    BY DEF CallTypes
  <1>3. ASSUME NEW i \in 1..n - 1
        PROVE  /\ At(i) \in 1..n /\ At(i) # p /\ lock'[i] = lock[At(i)]
               /\ lock[At(i)] \in Calls
    <2>1. At(i) \in 1..n /\ At(i) # p
      BY <1>1
    <2>2. lock'[i] = lock[At(i)]
      BY <1>1
    <2>3. lock[At(i)] \in Calls
      BY <2>1, ElementOfSeq DEF LockOK, LockTypes
    <2> QED
      BY <2>1, <2>2, <2>3
  <1>4. \A i, j \in 1..n - 1 : At(i) = At(j) => i = j
    BY <1>1
  <1>5. ASSUME NEW i \in 1..n, i # p
        PROVE  \E j \in 1..n - 1 : At(j) = i
    <2>1. CASE i < p
      <3>1. i \in 1..n - 1 /\ At(i) = i
        BY <1>1, <2>1
      <3> QED
        BY <3>1
    <2>2. CASE i > p
      <3>1. i - 1 \in 1..n - 1 /\ At(i - 1) = i
        BY <1>1, <2>2
      <3> QED
        BY <3>1
    <2> QED
      BY <1>1, <1>5, <2>1, <2>2
  <1> HIDE DEF At, n
  <1>6. ASSUME NEW i \in 1..n - 1
        PROVE  lock'[i] # k /\ call'[lock'[i]] = call[lock[At(i)]]
    <2>1. lock[At(i)] # k
      BY <1>1, <1>3 DEF LockOK, EachOnce, n
    <2> QED
      BY <1>2, <1>3, <2>1
  <1>7. EachOnce'
    <2> SUFFICES ASSUME NEW i \in 1..n - 1, NEW j \in 1..n - 1,
                        lock'[i] = lock'[j]
                 PROVE  i = j
      BY <1>1 DEF EachOnce
    <2>1. lock[At(i)] = lock[At(j)] /\ At(i) \in 1..n /\ At(j) \in 1..n
      BY <1>3
    <2>2. At(i) = At(j)
      BY <2>1 DEF LockOK, EachOnce, n
    <2> QED
      BY <1>4, <2>2
  <1>8. LockHoldsSenders'
    <2> SUFFICES ASSUME NEW i \in 1..n - 1
                 PROVE  call'[lock'[i]] \in {"lock", "sending"}
      BY <1>1 DEF LockHoldsSenders
    <2> QED
      BY <1>3, <1>6 DEF LockOK, LockHoldsSenders, n
  <1>9. SendersInLock'
    <2> SUFFICES ASSUME NEW j \in Calls, call'[j] \in {"lock", "sending"}
                 PROVE  \E i \in 1..n - 1 : lock'[i] = j
      BY <1>1 DEF SendersInLock
    <2>1. j # k /\ call[j] \in {"lock", "sending"}
      BY <1>2
    <2>2. PICK i \in 1..n : lock[i] = j
      BY <2>1 DEF LockOK, SendersInLock, n
    <2>3. PICK l \in 1..n - 1 : At(l) = i
      BY <1>5, <2>1, <2>2
    <2> QED
      BY <1>3, <2>2, <2>3
  <1>10. FirstSends'
    <2> SUFFICES ASSUME NEW j \in Calls, call'[j] = "sending"
                 PROVE  lock' # <<>> /\ lock'[1] = j
      BY DEF FirstSends
    <2>1. j # k /\ call[j] = "sending"
      BY <1>2
    <2>2. lock[1] = j /\ 1 # p
      BY <2>1 DEF LockOK, FirstSends
    <2>3. 1 < p /\ 1 \in 1..n - 1 /\ At(1) = 1
      BY <1>1, <2>2 DEF At
    <2>4. lock'[1] = j
      BY <1>3, <2>2, <2>3
    <2>5. Len(lock') # 0
      BY <1>1, <2>3
    <2> QED
      BY <2>4, <2>5
  <1>11. LockTypes'
    BY DEF LockTypes
  <1> QED
    BY <1>7, <1>8, <1>9, <1>10, <1>11 DEF LockOK

\* The first place is the one that Tail takes away.
LEMMA TailPlaces ==
    ASSUME NEW S, NEW s \in Seq(S), s # <<>>
    PROVE  /\ 1 \in 1..Len(s) /\ Tail(s) \in Seq(S)
           /\ Len(Tail(s)) = Len(s) - 1
           /\ \A i \in 1..Len(s) - 1 :
                 Tail(s)[i] = IF i < 1 THEN s[i] ELSE s[i + 1]
  <1>1. /\ Tail(s) \in Seq(S) /\ Len(Tail(s)) = Len(s) - 1
        /\ \A i \in 1..Len(Tail(s)) : Tail(s)[i] = s[i + 1]
        /\ Len(s) \in Nat \ {0}
    BY HeadTailProperties, LenProperties
  <1> QED
    BY <1>1

\* Nobody has the lock before the first call.
LEMMA LockInit == Init => LockOK
  <1> SUFFICES ASSUME Init PROVE LockOK
    OBVIOUS
  <1>1. lock = <<>> /\ call = [k \in Calls |-> "idle"]
    BY DEF Init
  <1>2. Len(lock) = 0 /\ lock \in Seq(Calls)
    BY <1>1, EmptySeq
  <1>3. 1..Len(lock) = {}
    BY <1>2
  <1> QED
    BY <1>1, <1>2, <1>3
    DEF LockOK, LockTypes, EachOnce, LockHoldsSenders, SendersInLock,
        FirstSends

\* A call that begins is last in line, and first if there was no line.
LEMMA LockBegin ==
    ASSUME NEW k \in Calls, CallTypes, LockOK, Begin(k)
    PROVE  LockOK'
  <1> DEFINE n == Len(lock)
  <1>1. n \in Nat /\ lock \in Seq(Calls) /\ call[k] = "idle"
    BY LenProperties DEF LockOK, LockTypes, Begin
  <1>2. PICK c \in {"lock", "sending"} :
           /\ call' = [call EXCEPT ![k] = c]
           /\ c = "sending" <=> lock = <<>>
    BY DEF Begin
  <1>3. \A j \in Calls : call'[j] = IF j = k THEN c ELSE call[j]
    BY <1>2 DEF CallTypes
  <1>4. /\ lock' \in Seq(Calls) /\ Len(lock') = n + 1
        /\ \A i \in 1..n : lock'[i] = lock[i]
        /\ lock'[n + 1] = k
    BY <1>1, AppendProperties DEF Begin
  <1>5. \A i \in 1..n + 1 : i \in 1..n \/ i = n + 1
    BY <1>1
  <1>6. \A i \in 1..n : lock[i] \in Calls /\ lock[i] # k
    BY <1>1, ElementOfSeq DEF LockOK, LockHoldsSenders
  <1>7. EachOnce'
    <2> SUFFICES ASSUME NEW i \in 1..n + 1, NEW j \in 1..n + 1,
                        lock'[i] = lock'[j]
                 PROVE  i = j
      BY <1>4 DEF EachOnce
    <2> QED
      BY <1>4, <1>5, <1>6 DEF LockOK, EachOnce
  <1>8. LockHoldsSenders'
    <2> SUFFICES ASSUME NEW i \in 1..n + 1
                 PROVE  call'[lock'[i]] \in {"lock", "sending"}
      BY <1>4 DEF LockHoldsSenders
    <2> QED
      BY <1>3, <1>4, <1>5, <1>6 DEF LockOK, LockHoldsSenders
  <1>9. SendersInLock'
    <2> SUFFICES ASSUME NEW j \in Calls, call'[j] \in {"lock", "sending"}
                 PROVE  \E i \in 1..n + 1 : lock'[i] = j
      BY <1>4 DEF SendersInLock
    <2>1. CASE j = k
      BY <1>1, <1>4, <2>1
    <2>2. CASE j # k
      <3>1. PICK i \in 1..n : lock[i] = j
        BY <1>3, <2>2 DEF LockOK, SendersInLock
      <3>2. i \in 1..n + 1
        BY <1>1
      <3> QED
        BY <1>4, <3>1, <3>2
    <2> QED
      BY <2>1, <2>2
  <1>10. FirstSends'
    <2> SUFFICES ASSUME NEW j \in Calls, call'[j] = "sending"
                 PROVE  lock' # <<>> /\ lock'[1] = j
      BY DEF FirstSends
    <2>1. lock' # <<>>
      BY <1>1, <1>4
    <2>2. CASE j = k
      <3>1. n = 0
        BY <1>2, <1>3, <2>2
      <3> QED
        BY <1>4, <2>1, <2>2, <3>1
    <2>3. CASE j # k
      <3>1. lock # <<>> /\ lock[1] = j
        BY <1>3, <2>3 DEF LockOK, FirstSends
      <3>2. 1 \in 1..n
        BY <1>1, <3>1, EmptySeq
      <3> QED
        BY <1>4, <2>1, <3>1, <3>2
    <2> QED
      BY <2>2, <2>3
  <1> QED
    BY <1>4, <1>7, <1>8, <1>9, <1>10 DEF LockOK, LockTypes

\* A call that gets the lock sends, or gives it back for want of a transport.
LEMMA LockAcquire ==
    ASSUME NEW k \in Calls, CallTypes, LockOK, AcquireLock(k)
    PROVE  LockOK'
  <1>1. lock \in Seq(Calls) /\ call[k] = "lock" /\ lock[1] = k
    BY DEF LockOK, LockTypes, AcquireLock
  <1>2. PICK p \in 1..Len(lock) : lock[p] = k
    BY <1>1 DEF LockOK, SendersInLock
  <1>3. lock # <<>>
    BY <1>1, <1>2, EmptySeq
  <1>4. CASE transport = 0
    <2>1. call' = [call EXCEPT ![k] = "done"] /\ lock' = Tail(lock)
      BY <1>4 DEF AcquireLock, End
    <2> QED
      BY <1>1, <1>3, <2>1, TailPlaces, LockLeft
  <1>5. CASE transport # 0
    <2>1. call' = [call EXCEPT ![k] = "sending"] /\ lock' = lock
      BY <1>5 DEF AcquireLock
    <2>2. \A j \in Calls : call'[j] = IF j = k THEN "sending" ELSE call[j]
      BY <2>1 DEF CallTypes
    <2>3. \A i \in 1..Len(lock) : lock[i] \in Calls
      BY <1>1, ElementOfSeq
    <2>4. LockTypes' /\ EachOnce'
      BY <2>1 DEF LockOK, LockTypes, EachOnce
    <2>5. LockHoldsSenders'
      BY <2>1, <2>2, <2>3 DEF LockOK, LockHoldsSenders
    <2>6. SendersInLock'
      BY <1>1, <2>1, <2>2 DEF LockOK, SendersInLock
    <2>7. FirstSends'
      BY <1>1, <1>3, <2>1, <2>2 DEF LockOK, FirstSends
    <2> QED
      BY <2>4, <2>5, <2>6, <2>7 DEF LockOK
  <1> QED
    BY <1>4, <1>5

\* A send that ends, well or not, hands the lock on.
LEMMA LockHandedOn ==
    ASSUME NEW k \in Calls, CallTypes, LockOK, SendOk(k) \/ SendFails(k)
    PROVE  LockOK'
  <1>1. call[k] = "sending" /\ lock' = Tail(lock)
    BY DEF SendOk, SendFails
  <1>2. PICK c \in {"waiting", "done"} : call' = [call EXCEPT ![k] = c]
    BY DEF SendOk, SendFails, End
  <1>3. lock \in Seq(Calls) /\ lock # <<>> /\ lock[1] = k
    BY <1>1 DEF LockOK, LockTypes, FirstSends
  <1> QED
    BY <1>1, <1>2, <1>3, TailPlaces, LockLeft

\* A cancelled call leaves the line wherever it stands in it.
LEMMA LockCancelled ==
    ASSUME NEW k \in Calls, CallTypes, LockOK, Cancel(k)
    PROVE  LockOK'
  <1>1. call' = [call EXCEPT ![k] = "done"] /\ InProgress(k)
    BY DEF Cancel, End
  <1>2. CASE call[k] = "waiting"
    <2>1. lock' = lock
      BY <1>2 DEF Cancel
    <2>2. \A j \in Calls : call'[j] = IF j = k THEN "done" ELSE call[j]
      BY <1>1 DEF CallTypes
    <2> QED
      BY <1>2, <2>1, <2>2, LockKept
  <1>3. CASE call[k] # "waiting"
    <2>1. PICK p \in 1..Len(lock) : lock[p] = k /\ lock' = RemoveAt(lock, p)
      BY <1>3 DEF Cancel
    <2>2. lock \in Seq(Calls)
      BY DEF LockOK, LockTypes
    <2>3. /\ lock' \in Seq(Calls) /\ Len(lock') = Len(lock) - 1
          /\ \A i \in 1..Len(lock) - 1 :
                lock'[i] = IF i < p THEN lock[i] ELSE lock[i + 1]
      BY <2>1, <2>2, RemoveAtFacts
    <2> QED
      BY <1>1, <2>1, <2>3, LockLeft
  <1> QED
    BY <1>2, <1>3

\* Whatever else happens to a call finds it out of the lock.
LEMMA LockElsewhere ==
    ASSUME NEW k \in Calls, CallTypes, LockOK,
           Refuse(k) \/ TimeOut(k) \/ Return(k)
    PROVE  LockOK'
  <1>1. /\ call' = [call EXCEPT ![k] = "done"] /\ lock' = lock
        /\ call[k] \in {"idle", "waiting"}
    BY DEF Refuse, TimeOut, Return, End
  <1>2. \A j \in Calls : call'[j] = IF j = k THEN "done" ELSE call[j]
    BY <1>1 DEF CallTypes
  <1> QED
    BY <1>1, <1>2, LockKept

\* Calls, lock and outcomes are changed by calls alone.
LEMMA OnlyCallsCall ==
    ASSUME [Next]_vars
    PROVE  (\E k \in Calls : CallStep(k)) \/ UNCHANGED callVars
  <1>1. ASSUME NEW g \in Links, ReaderStep(g) PROVE UNCHANGED callVars
    BY <1>1 DEF ReaderStep, Receive, ReaderEnds, BadFrame, Disconnect
  <1>2. ASSUME LoopStep PROVE UNCHANGED callVars
    BY <1>2 DEF LoopStep, Wake, ConnectOk, ConnectFails, ConnectCrashes
  <1>3. ASSUME Stop \/ CloseDone PROVE UNCHANGED callVars
    BY <1>3 DEF Stop, CloseDone
  <1>4. ASSUME AgentStep PROVE UNCHANGED callVars
    BY <1>4 DEF AgentStep, AgentGoes, AgentComes, AgentRuns, AgentRejects,
                AgentGivesUp, AgentRunsLate, Answer
  <1>5. ASSUME UNCHANGED vars PROVE UNCHANGED callVars
    BY <1>5 DEF vars
  <1> QED
    BY <1>1, <1>2, <1>3, <1>4, <1>5 DEF Next

\* Every step keeps the lock in order.
LEMMA LockStep == ASSUME IInv, LockOK, [Next]_vars PROVE LockOK'
  <1>1. ASSUME NEW k \in Calls, CallStep(k) PROVE LockOK'
    BY <1>1, LockElsewhere, LockBegin, LockAcquire, LockHandedOn,
       LockCancelled DEF CallStep, IInv, Types
  <1>2. CASE UNCHANGED callVars
    BY <1>2, LockKept DEF callVars
  <1> QED
    BY <1>1, <1>2, OnlyCallsCall

\* The lock is in order in every state that is reached.
LEMMA LockInductive == Spec => []LockOK
  BY LockInit, LockStep, Inductive, PTL DEF Spec

-----------------------------------------------------------------------------
(* The types of the rest: what the results above do not depend on.         *)

FlagTypes ==
    /\ started \in BOOLEAN /\ agentUp \in BOOLEAN /\ crashed \in BOOLEAN
    /\ stopping \in 0..MaxLinks

LinkTypes ==
    closed \subseteq Links /\ up \subseteq Links /\ cancelled \subseteq Links

AnswerTypes == answers \subseteq Calls \X Links \X Responses

RestTypes == FlagTypes /\ LinkTypes /\ AnswerTypes

\* start() has not returned, and there is no link.
LEMMA RestInit == Init => RestTypes
  <1> SUFFICES ASSUME Init PROVE RestTypes
    OBVIOUS
  <1>1. /\ started = FALSE /\ agentUp \in BOOLEAN /\ crashed = FALSE
        /\ stopping = 0 /\ closed = {} /\ up = {} /\ cancelled = {}
        /\ answers = {}
    BY Zenon DEF Init
  <1>2. 0 \in 0..MaxLinks
    BY LinksAssumption
  <1> QED
    BY <1>1, <1>2 DEF RestTypes, FlagTypes, LinkTypes, AnswerTypes

\* A link that is made, closed or answered on is one of those there may be.
LEMMA RestStep == ASSUME IInv, RestTypes, [Next]_vars PROVE RestTypes'
  <1> USE DEF RestTypes
  <1>1. /\ transport \in 0..MaxLinks /\ last \in 0..MaxLinks
        /\ readers \subseteq Links /\ frames \subseteq Calls \X Links
    BY DEF IInv, Types, ConnTypes, CallInv, ViaOK
  <1>2. ASSUME UNCHANGED connVars PROVE FlagTypes' /\ LinkTypes'
    BY <1>2 DEF FlagTypes, LinkTypes, connVars, flagVars, netVars, readVars,
                loopVars
  <1>3. ASSUME UNCHANGED agentVars PROVE AnswerTypes'
    BY <1>3 DEF AnswerTypes, agentVars
  <1>4. ASSUME NEW k \in Calls, CallStep(k) PROVE RestTypes'
    <2>1. UNCHANGED connVars /\ answers' = answers
      BY <1>4 DEF CallStep, Refuse, Begin, AcquireLock, SendOk, SendFails,
                  TimeOut, Return, Cancel, agentVars
    <2> QED
      BY <1>2, <2>1 DEF AnswerTypes
  <1>5. ASSUME NEW g \in Links, ReaderStep(g) PROVE RestTypes'
    <2>1. CASE Receive(g)
      BY <1>2, <2>1 DEF Receive, AnswerTypes
    <2>2. CASE ReaderEnds(g) \/ BadFrame(g)
      <3>1. UNCHANGED <<flagVars, netVars, cancelled, crashed, agentVars>>
        BY <2>2 DEF ReaderEnds, BadFrame, Disconnect
      <3> QED
        BY <1>3, <3>1 DEF FlagTypes, LinkTypes, flagVars, netVars
    <2> QED
      BY <1>5, <2>1, <2>2 DEF ReaderStep
  <1>6. ASSUME LoopStep PROVE RestTypes'
    <2>1. UNCHANGED <<agentVars, stopping, agentUp, closed, cancelled>>
      BY <1>6 DEF LoopStep, Wake, ConnectOk, ConnectFails, ConnectCrashes,
                  flagVars, netVars, readVars
    <2>2. started' \in BOOLEAN /\ crashed' \in BOOLEAN
      <3>1. /\ started' = started \/ started' = TRUE
            /\ crashed' = crashed \/ crashed' = TRUE
        BY Zenon, <1>6
        DEF LoopStep, Wake, ConnectOk, ConnectFails, ConnectCrashes, flagVars
      <3>2. started \in BOOLEAN /\ crashed \in BOOLEAN
        BY DEF FlagTypes
      <3> QED
        BY Zenon, <3>1, <3>2
    <2>3. up' \subseteq Links
      <3>1. CASE ConnectOk
        <4>1. last < MaxLinks /\ up' = up \cup {last + 1}
          BY <3>1 DEF ConnectOk
        <4>2. last + 1 \in Links
          BY <1>1, <4>1, LinksAssumption DEF Links
        <4> QED
          BY <4>1, <4>2 DEF LinkTypes
      <3>2. CASE Wake \/ ConnectFails \/ ConnectCrashes
        <4>1. up' = up
          BY <3>2 DEF Wake, ConnectFails, ConnectCrashes, netVars
        <4> QED
          BY <4>1 DEF LinkTypes
      <3> QED
        BY <1>6, <3>1, <3>2 DEF LoopStep
    <2> QED
      BY <1>3, <2>1, <2>2, <2>3 DEF FlagTypes, LinkTypes
  <1>7. CASE Stop
    <2>1. /\ stopping' = transport
          /\ UNCHANGED <<started, agentUp, crashed, closed, up, agentVars>>
          /\ cancelled' = cancelled \cup {g \in readers : g = last}
      BY <1>7 DEF Stop, netVars, loopVars
    <2> QED
      BY <1>1, <1>3, <2>1 DEF FlagTypes, LinkTypes
  <1>8. CASE CloseDone
    <2>1. /\ stopping # 0 /\ stopping' = 0
          /\ closed' = closed \cup {stopping} /\ up' = up \ {stopping}
          /\ UNCHANGED <<started, agentUp, crashed, cancelled, agentVars>>
      BY <1>8 DEF CloseDone, readVars, loopVars
    <2>2. stopping \in Links /\ 0 \in 0..MaxLinks
      BY <2>1, LinksAssumption DEF FlagTypes, Links
    <2> QED
      BY <1>3, <2>1, <2>2 DEF FlagTypes, LinkTypes
  <1>9. CASE AgentStep
    <2>1. CASE AgentGoes \/ AgentComes
      <3>1. /\ UNCHANGED <<started, stopping, crashed, closed, cancelled,
                           agentVars>>
            /\ agentUp' \in BOOLEAN /\ (up' = {} \/ up' = up)
        BY <2>1 DEF AgentGoes, AgentComes, flagVars, readVars, loopVars
      <3> QED
        BY <1>3, <3>1 DEF FlagTypes, LinkTypes
    <2>2. ASSUME NEW k \in Calls, NEW g \in Links, NEW o \in Responses,
                 Answer(k, g, o)
          PROVE  RestTypes'
      BY <1>2, <2>2 DEF Answer, AnswerTypes
    <2>3. ASSUME NEW k \in Calls, AgentRunsLate(k) PROVE RestTypes'
      BY <1>2, <2>3 DEF AgentRunsLate, AnswerTypes
    <2> QED
      BY <1>9, <2>1, <2>2, <2>3
      DEF AgentStep, AgentRuns, AgentRejects, AgentGivesUp, Responses
  <1>10. CASE UNCHANGED vars
    BY <1>2, <1>3, <1>10 DEF vars
  <1> QED
    BY <1>4, <1>5, <1>6, <1>7, <1>8, <1>9, <1>10 DEF Next

\* The rest has its types in every state that is reached.
LEMMA RestInductive == Spec => []RestTypes
  BY RestInit, RestStep, Inductive, PTL DEF Spec

\* Every variable of the client keeps its type.
THEOREM TypeCorrect == Spec => []TypeOK
  <1>1. ASSUME IInv, LockOK, RestTypes PROVE TypeOK
    BY <1>1
    DEF IInv, Types, ConnTypes, CallTypes, FutTypes, RanTypes, CallInv, ViaOK,
        LockOK, LockTypes, RestTypes, FlagTypes, LinkTypes, AnswerTypes, TypeOK
  <1> QED
    BY <1>1, Inductive, LockInductive, RestInductive, PTL

\* However calls are cancelled, fail and queue for the lock, two calls never
\* write to the stream at the same time.
THEOREM OneCallSends ==
    Spec => [](\A j, k \in Calls :
                  call[j] = "sending" /\ call[k] = "sending" => j = k)
  <1>1. LockOK => \A j, k \in Calls :
                     call[j] = "sending" /\ call[k] = "sending" => j = k
    BY DEF LockOK, FirstSends
  <1> QED
    BY <1>1, LockInductive, PTL

-----------------------------------------------------------------------------
(***************************************************************************)
(* The calls as a service.  The caller is told when its call is done and   *)
(* not before, and what waits was written.                                 *)
(***************************************************************************)
ToldOK ==
    \A k \in Calls :
        /\ call[k] # "done" => outcome[k] = "none"
        /\ call[k] = "waiting" => sends[k] = 1

\* No call was made.
LEMMA ToldInit == Init => ToldOK
  BY DEF Init, ToldOK

\* A call is told what it is told in the step that ends it.
LEMMA ToldStep == ASSUME IInv, ToldOK, [Next]_vars PROVE ToldOK'
  <1>1. ASSUME NEW k \in Calls, CallStep(k) PROVE ToldOK'
    <2>1. /\ call \in [Calls -> {"idle", "lock", "sending", "waiting", "done"}]
          /\ outcome \in [Calls -> Outcomes] /\ sends \in [Calls -> Nat]
          /\ call[k] = "sending" => sends[k] = 0
      BY DEF IInv, Types, CallTypes, CallInv, SentOK
    <2>2. CASE call'[k] = "done"
      <3>1. \A j \in Calls \ {k} : /\ call'[j] = call[j]
                                   /\ outcome'[j] = outcome[j]
                                   /\ sends'[j] = sends[j]
        BY <1>1, <2>1
        DEF CallStep, Refuse, Begin, AcquireLock, SendOk, SendFails, TimeOut,
            Return, Cancel, End, Written
      <3> QED
        BY <2>2, <3>1 DEF ToldOK
    <2>3. CASE call'[k] # "done"
      <3>1. Begin(k) \/ AcquireLock(k) \/ SendOk(k)
        BY <1>1, <2>1, <2>3
        DEF CallStep, Refuse, SendFails, TimeOut, Return, Cancel, End
      <3>2. CASE Begin(k) \/ AcquireLock(k)
        <4>1. /\ outcome' = outcome /\ sends' = sends
              /\ \A j \in Calls \ {k} : call'[j] = call[j]
              /\ call[k] # "done" /\ call'[k] # "waiting"
          BY <2>1, <2>3, <3>2 DEF Begin, AcquireLock, End
        <4> QED
          BY <4>1 DEF ToldOK
      <3>3. CASE SendOk(k)
        <4>1. /\ outcome' = outcome /\ call[k] = "sending"
              /\ call' = [call EXCEPT ![k] = "waiting"]
              /\ sends' = [sends EXCEPT ![k] = @ + 1]
          BY <3>3 DEF SendOk, Written
        <4> QED
          BY <2>1, <4>1 DEF ToldOK
      <3> QED
        BY <3>1, <3>2, <3>3
    <2> QED
      BY <2>2, <2>3
  <1>2. CASE UNCHANGED callVars
    BY <1>2 DEF ToldOK, callVars
  <1> QED
    BY <1>1, <1>2, OnlyCallsCall

\* A call was told nothing before it is done, in every state that is reached.
LEMMA ToldInductive == Spec => []ToldOK
  BY ToldInit, ToldStep, Inductive, PTL DEF Spec

ServiceStep == [Service!Next]_(Service!vars)

\* A call that ends is told once; what was written by then, once.
LEMMA CallServes ==
    ASSUME NEW k \in Calls, IInv, ToldOK, CallStep(k)
    PROVE  ServiceStep
  <1>1. /\ call[k] # "done" => outcome[k] = "none"
        /\ call[k] = "waiting" => sends[k] = 1
        /\ call[k] \in {"idle", "lock", "sending"} => sends[k] = 0
        /\ fut[k] \in Responses \cup {"none", "AgentDisconnected"}
        /\ fut[k] = "result" => ran[k] = 1
        /\ fut[k] = "QueueFull" => ran[k] = 0
        /\ sends \in [Calls -> Nat]
    BY DEF ToldOK, IInv, Types, CallTypes, FutTypes, CallInv, SentOK,
           AnsweredOK, Fits, Rejected
  <1>2. ran' = ran
    BY DEF CallStep, Refuse, Begin, AcquireLock, SendOk, SendFails, TimeOut,
           Return, Cancel, agentVars
  <1>3. ASSUME outcome' = outcome, sends' = sends PROVE ServiceStep
    BY <1>2, <1>3 DEF ServiceStep, Service!vars
  <1>4. ASSUME Written(k), call[k] = "sending"
        PROVE  Service!Writes(k)
    <2>1. sends' = [sends EXCEPT ![k] = @ + 1] /\ sends[k] = 0
      BY <1>1, <1>4 DEF Written
    <2>2. sends' = [sends EXCEPT ![k] = 1]
      BY <2>1
    <2> QED
      BY <2>1, <2>2 DEF Service!Writes
  <1>5. ASSUME NEW o, End(k, o), call[k] # "done" PROVE Service!Tell(k, o)
    BY <1>1, <1>5 DEF End, Service!Tell
  <1>6. ASSUME Service!Abandon(k) PROVE ServiceStep
    BY <1>6 DEF ServiceStep, Service!Next
  <1>7. CASE Refuse(k)
    <2>1. /\ call[k] = "idle" /\ sends' = sends
          /\ End(k, "AgentDisconnected") \/ End(k, "InvalidArgs")
      BY <1>7 DEF Refuse
    <2>2. Service!Abandon(k) \/ Service!Refuse(k)
      BY <1>1, <1>2, <1>5, <2>1 DEF Service!Abandon, Service!Refuse
    <2> QED
      BY <2>2 DEF ServiceStep, Service!Next
  <1>8. CASE Begin(k)
    BY <1>3, <1>8 DEF Begin
  <1>9. CASE AcquireLock(k)
    <2>1. CASE transport = 0
      BY <1>2, <1>5, <1>6, <1>9, <2>1 DEF AcquireLock, Service!Abandon
    <2>2. CASE transport # 0
      BY <1>3, <1>9, <2>2 DEF AcquireLock
    <2> QED
      BY <2>1, <2>2
  <1>10. CASE SendOk(k)
    <2>1. Service!Write(k)
      BY <1>1, <1>2, <1>4, <1>10 DEF SendOk, Service!Write
    <2> QED
      BY <2>1 DEF ServiceStep, Service!Next
  <1>11. CASE SendFails(k)
    BY <1>2, <1>4, <1>5, <1>6, <1>11 DEF SendFails, Service!Abandon
  <1>12. CASE TimeOut(k)
    <2>1. Service!TimeOut(k)
      BY <1>1, <1>2, <1>5, <1>12 DEF TimeOut, Service!TimeOut
    <2> QED
      BY <2>1 DEF ServiceStep, Service!Next
  <1>13. CASE Return(k)
    <2>1. /\ call[k] = "waiting" /\ fut[k] # "none" /\ End(k, fut[k])
          /\ sends' = sends
      BY <1>13 DEF Return
    <2>2. CASE fut[k] \in Responses
      <3>1. \/ Service!Respond(k) \/ Service!Reject(k) \/ Service!TimeOut(k)
        BY <1>1, <1>2, <1>5, <2>1, <2>2
        DEF Service!Respond, Service!Reject, Service!TimeOut, Responses
      <3> QED
        BY <3>1 DEF ServiceStep, Service!Next
    <2>3. CASE fut[k] = "AgentDisconnected"
      BY <1>2, <1>5, <1>6, <2>1, <2>3 DEF Service!Abandon
    <2> QED
      BY <1>1, <2>1, <2>2, <2>3
  <1>14. CASE Cancel(k)
    <2>1. call[k] # "done" /\ End(k, "Cancelled")
      BY <1>14 DEF Cancel, InProgress
    <2>2. Service!Writes(k) \/ sends' = sends
      BY <1>4, <1>14 DEF Cancel
    <2> QED
      BY <1>2, <1>5, <1>6, <2>1, <2>2 DEF Service!Abandon
  <1> QED
    BY <1>7, <1>8, <1>9, <1>10, <1>11, <1>12, <1>13, <1>14 DEF CallStep

\* Only calls tell their callers anything, and only the agent runs what was
\* written, once.
LEMMA StepServes == ASSUME IInv, ToldOK, [Next]_vars PROVE ServiceStep
  <1>1. ASSUME NEW k \in Calls, CallStep(k) PROVE ServiceStep
    BY <1>1, CallServes
  <1>2. ASSUME UNCHANGED callVars, ran' = ran PROVE ServiceStep
    BY <1>2 DEF ServiceStep, Service!vars, callVars
  <1>3. ASSUME NEW k \in Calls,
               AgentRunsLate(k) \/ \E g \in Links : AgentRuns(k, g)
        PROVE  ServiceStep
    <2>1. sends[k] = 1 /\ ran[k] = 0 /\ outcome[k] # "QueueFull"
      BY <1>3 DEF AgentRuns, Answer, AgentRunsLate, IInv, CallInv, SentOK,
                  AnsweredOK, Fits, Rejected
    <2>2. ran' = [ran EXCEPT ![k] = @ + 1] /\ UNCHANGED <<sends, outcome>>
      BY <1>3 DEF AgentRuns, Answer, AgentRunsLate, callVars
    <2>3. ran' = [ran EXCEPT ![k] = 1]
      BY <2>1, <2>2
    <2>4. Service!Run(k)
      BY <2>1, <2>2, <2>3 DEF Service!Run
    <2> QED
      BY <2>4 DEF ServiceStep, Service!Next
  <1>4. \/ \E k \in Calls : CallStep(k)
        \/ \E k \in Calls :
              AgentRunsLate(k) \/ \E g \in Links : AgentRuns(k, g)
        \/ UNCHANGED callVars /\ ran' = ran
    <2>1. ASSUME NEW g \in Links, ReaderStep(g)
          PROVE  UNCHANGED callVars /\ ran' = ran
      BY <2>1 DEF ReaderStep, Receive, ReaderEnds, BadFrame, Disconnect,
                  agentVars
    <2>2. ASSUME LoopStep PROVE UNCHANGED callVars /\ ran' = ran
      BY <2>2 DEF LoopStep, Wake, ConnectOk, ConnectFails, ConnectCrashes,
                  agentVars
    <2>3. ASSUME Stop \/ CloseDone PROVE UNCHANGED callVars /\ ran' = ran
      BY <2>3 DEF Stop, CloseDone, agentVars
    <2>4. ASSUME AgentGoes \/ AgentComes
          PROVE  UNCHANGED callVars /\ ran' = ran
      BY <2>4 DEF AgentGoes, AgentComes, agentVars
    <2>5. ASSUME UNCHANGED vars PROVE UNCHANGED callVars /\ ran' = ran
      BY <2>5 DEF vars, agentVars
    <2>6. ASSUME NEW k \in Calls, NEW g \in Links,
                 AgentRejects(k, g) \/ AgentGivesUp(k, g)
          PROVE  UNCHANGED callVars /\ ran' = ran
      BY <2>6 DEF AgentRejects, AgentGivesUp, Answer
    <2> QED
      BY <2>1, <2>2, <2>3, <2>4, <2>5, <2>6 DEF Next, AgentStep
  <1> QED
    BY <1>1, <1>2, <1>3, <1>4

\* Whatever happens to connections, lock and futures, a command is written and
\* run at most once, and its caller is told one thing that is true of it.
THEOREM ClientServes == Spec => ImplementsCalls
  <1>1. Init => Service!Init
    BY DEF Init, Service!Init
  <1>2. IInv /\ ToldOK /\ [Next]_vars => [Service!Next]_(Service!vars)
    BY StepServes DEF ServiceStep
  <1> QED
    BY <1>1, <1>2, Inductive, ToldInductive, PTL
    DEF Spec, ImplementsCalls, Service!Spec
=============================================================================
