---------------------------- MODULE AgentProofs ----------------------------
(***************************************************************************)
(* Proofs about Agent for every set of connections, requests and pumps,    *)
(* every queue and batch size, and every timeout.                          *)
(***************************************************************************)
EXTENDS Agent, TLAPS

-----------------------------------------------------------------------------
(* Facts about queues: what Append and Tail do to Elems and Inj.           *)

\* Appending adds one element, and keeps the elements apart if it is new.
LEMMA AppendFacts ==
    ASSUME NEW S, NEW s \in Seq(S), NEW x \in S
    PROVE  /\ Append(s, x) \in Seq(S)
           /\ Append(s, x) # <<>>
           /\ Elems(Append(s, x)) = Elems(s) \cup {x}
           /\ Inj(s) /\ x \notin Elems(s) => Inj(Append(s, x))
           /\ s # <<>> => Head(Append(s, x)) = Head(s)
  <1> DEFINE t == Append(s, x)
  <1>1. /\ t \in Seq(S) /\ Len(t) = Len(s) + 1 /\ Len(s) \in Nat
        /\ t[Len(s) + 1] = x /\ \A i \in 1..Len(s) : t[i] = s[i]
    OBVIOUS
  <1> HIDE DEF t
  <1>2. t # <<>>
    BY <1>1
  <1>3. Elems(t) = Elems(s) \cup {x}
    <2>1. 1..Len(t) = 1..Len(s) \cup {Len(s) + 1}
      BY <1>1
    <2>2. Elems(t) = {t[i] : i \in 1..Len(s)} \cup {t[Len(s) + 1]}
      BY <2>1 DEF Elems
    <2>3. {t[i] : i \in 1..Len(s)} = Elems(s)
      BY <1>1 DEF Elems
    <2>4. QED
      BY <1>1, <2>2, <2>3
  <1>4. Inj(s) /\ x \notin Elems(s) => Inj(t)
    <2>1. SUFFICES ASSUME Inj(s), x \notin Elems(s),
                          NEW i \in 1..Len(t), NEW j \in 1..Len(t), t[i] = t[j]
                   PROVE  i = j
      BY DEF Inj
    <2>2. CASE i \in 1..Len(s) /\ j \in 1..Len(s)
      BY <1>1, <2>1, <2>2 DEF Inj
    <2>3. CASE i = Len(s) + 1 /\ j \in 1..Len(s)
      BY <1>1, <2>1, <2>3 DEF Elems
    <2>4. CASE i \in 1..Len(s) /\ j = Len(s) + 1
      BY <1>1, <2>1, <2>4 DEF Elems
    <2>5. QED
      BY <1>1, <2>2, <2>3, <2>4
  <1>5. s # <<>> => Head(t) = Head(s)
    <2>1. s # <<>> => Len(s) >= 1
      OBVIOUS
    <2>2. QED
      BY <1>1, <2>1
  <1>6. QED
    BY <1>1, <1>2, <1>3, <1>4, <1>5 DEF t

\* Taking the head off removes one element, and only that if all differ.
LEMMA TailFacts ==
    ASSUME NEW S, NEW s \in Seq(S), s # <<>>
    PROVE  /\ Tail(s) \in Seq(S)
           /\ Head(s) \in S
           /\ Head(s) \in Elems(s)
           /\ Elems(s) = Elems(Tail(s)) \cup {Head(s)}
           /\ Inj(s) => Inj(Tail(s)) /\ Head(s) \notin Elems(Tail(s))
           /\ Len(s) # 1 => Tail(s) # <<>>
  <1> DEFINE t == Tail(s)
  <1>1. /\ t \in Seq(S) /\ Len(t) = Len(s) - 1 /\ Len(s) \in Nat \ {0}
        /\ \A i \in 1..Len(t) : t[i] = s[i + 1]
        /\ Head(s) = s[1] /\ \A i \in 1..Len(s) : s[i] \in S
    OBVIOUS
  <1> HIDE DEF t
  <1>2. Head(s) \in S /\ Head(s) \in Elems(s)
    BY <1>1 DEF Elems
  <1>3. Elems(s) = Elems(t) \cup {Head(s)}
    <2>1. \A e \in Elems(s) : e \in Elems(t) \cup {Head(s)}
      <3>1. SUFFICES ASSUME NEW i \in 1..Len(s)
                     PROVE  s[i] \in Elems(t) \cup {Head(s)}
        BY DEF Elems
      <3>2. CASE i = 1
        BY <1>1, <3>2
      <3>3. CASE i # 1
        <4>1. i - 1 \in 1..Len(t) /\ t[i - 1] = s[i]
          BY <1>1, <3>3
        <4>2. QED
          BY <4>1 DEF Elems
      <3>4. QED
        BY <3>2, <3>3
    <2>2. Elems(t) \subseteq Elems(s)
      BY <1>1 DEF Elems
    <2>3. QED
      BY <1>2, <2>1, <2>2
  <1>4. Inj(s) => Inj(t)
    <2>1. SUFFICES ASSUME Inj(s), NEW i \in 1..Len(t), NEW j \in 1..Len(t),
                          t[i] = t[j]
                   PROVE  i = j
      BY DEF Inj
    <2>2. i + 1 \in 1..Len(s) /\ j + 1 \in 1..Len(s) /\ s[i + 1] = s[j + 1]
      BY <1>1, <2>1
    <2>3. i + 1 = j + 1
      BY <2>1, <2>2 DEF Inj
    <2>4. QED
      BY <2>3
  <1>5. Inj(s) => Head(s) \notin Elems(t)
    <2>1. SUFFICES ASSUME Inj(s), NEW i \in 1..Len(t), t[i] = Head(s)
                   PROVE  FALSE
      BY DEF Elems
    <2>2. i + 1 \in 1..Len(s) /\ 1 \in 1..Len(s) /\ s[i + 1] = s[1]
      BY <1>1, <2>1
    <2>3. i + 1 = 1
      BY <2>1, <2>2 DEF Inj
    <2>4. QED
      BY <2>3
  <1>6. Len(s) # 1 => t # <<>>
    BY <1>1
  <1>7. QED
    BY <1>1, <1>2, <1>3, <1>4, <1>5, <1>6 DEF t

\* An element of a sequence over S is in S; the empty sequence has none.
LEMMA ElemsFacts ==
    /\ \A S : \A s \in Seq(S) : Elems(s) \subseteq S
    /\ Elems(<<>>) = {}
    /\ Inj(<<>>)
  BY DEF Elems, Inj

-----------------------------------------------------------------------------
(* Type correctness.                                                       *)

\* The steps of the client and of the handler thread keep every variable
\* within its type.
LEMMA ConnTypeStep ==
    ASSUME TypeOK, NEW c \in Conns, ClientStep(c) \/ HandlerStep(c)
    PROVE  TypeOK'
  <1>1. ASSUME NEW r \in Requests, Send(c, r)  PROVE TypeOK'
    <2>1. Append(wire[c], r) \in Seq(Requests \cup {Ack})
      BY AppendFacts DEF TypeOK
    <2>2. QED
      BY <1>1, <2>1 DEF Send, TypeOK, pumpVars
  <1>2. CASE HangUp(c)
    BY <1>2 DEF HangUp, TypeOK, pumpVars
  <1>3. CASE SkipFrame(c)
    <2>1. Tail(wire[c]) \in Seq(Requests \cup {Ack})
      BY <1>3, TailFacts DEF SkipFrame, TypeOK
    <2>2. QED
      BY <1>3, <2>1 DEF SkipFrame, TypeOK, pumpVars
  <1>4. CASE ReadFrame(c)
    <2>1. /\ Tail(wire[c]) \in Seq(Requests \cup {Ack})
          /\ Head(wire[c]) \in Requests
      BY <1>4, TailFacts DEF ReadFrame, TypeOK
    <2>2. QED
      BY <1>4, <2>1, NamesAssumption DEF ReadFrame, TypeOK, pumpVars
  <1>5. CASE EndOfStream(c)
    BY <1>5 DEF EndOfStream, TypeOK, pumpVars
  <1>6. CASE Enqueue(c)
    <2>1. cur[c] \in Requests
      BY <1>6 DEF Enqueue, TypeOK
    <2>2. Append(queue, cur[c]) \in Seq(Requests)
      BY <2>1, AppendFacts DEF TypeOK
    <2>3. QED
      BY <1>6, <2>2 DEF Enqueue, TypeOK, pumpVars
  <1>7. ASSUME NEW code \in Codes, hpc[c] \in {"read", "waiting"},
               Respond(c, code), fut' \in [Requests -> {"none", "pending",
                                               "dropped"} \cup Settled],
               UNCHANGED <<age, queue, pumpVars>>
        PROVE  TypeOK'
    <2>1. cur[c] \in Requests
      BY <1>7 DEF TypeOK
    <2>2. Append(reply[cur[c]], code) \in Seq(Codes)
      BY <2>1, AppendFacts DEF TypeOK
    <2>3. reply' \in [Requests -> Seq(Codes)]
      BY <1>7, <2>1, <2>2 DEF Respond, TypeOK
    <2>4. /\ hpc' \in [Conns -> {"reading", "read", "waiting", "ended"}]
          /\ \A d \in Conns : hpc'[d] = IF d = c THEN hpc'[c] ELSE hpc[d]
          /\ hpc'[c] \in {"reading", "ended"}
      BY <1>7 DEF Respond, TypeOK
    <2>5. /\ cur' \in [Conns -> Requests \cup {NoReq}]
          /\ \A d \in Conns : d # c => cur'[d] = cur[d]
      BY <1>7 DEF Respond, TypeOK
    <2>6. UNCHANGED <<sent, wire, open, waited>>
      BY <1>7 DEF Respond
    <2>7. QED
      BY <1>7, <2>3, <2>4, <2>5, <2>6 DEF TypeOK, pumpVars
  <1>8. CASE RejectFull(c)
    <2>1. cur[c] \in Requests
      BY <1>8 DEF RejectFull, TypeOK
    <2>2. QED
      BY <1>8, <2>1, <1>7 DEF RejectFull, TypeOK, Codes
  <1>9. CASE AnswerResult(c)
    <2>1. CodeOf[fut[cur[c]]] \in Codes
      BY <1>9 DEF AnswerResult, CodeOf, Codes, Settled, AllOutcomes
    <2>2. QED
      BY <1>9, <2>1, <1>7 DEF AnswerResult, TypeOK
  <1>10. CASE GiveUp(c)
    BY <1>10, <1>7 DEF GiveUp, TypeOK, Codes
  <1>11. QED
    BY <1>1, <1>2, <1>3, <1>4, <1>5, <1>6, <1>8, <1>9, <1>10
    DEF ClientStep, HandlerStep

\* The steps of pump_once keep every variable within its type.
LEMMA PumpTypeStep ==
    ASSUME TypeOK, NEW p \in Pumps, PumpStep(p)
    PROVE  TypeOK'
  <1>1. CASE Get(p)
    <2>1. Head(queue) \in Requests /\ Tail(queue) \in Seq(Requests)
      BY <1>1, TailFacts DEF Get, TypeOK
    <2>2. Append(batch[p], Head(queue)) \in Seq(Requests)
      BY <2>1, AppendFacts DEF TypeOK
    <2>3. QED
      BY <1>1, <2>1, <2>2 DEF Get, TypeOK, connVars
  <1>2. CASE StopDraining(p)
    BY <1>2 DEF StopDraining, TypeOK, connVars
  <1>3. CASE ReadClock(p)
    <2>1. {r \in Elems(batch[p]) : age[r] > Timeout[r]} \subseteq Requests
      BY ElemsFacts DEF TypeOK
    <2>2. QED
      BY <1>3, <2>1 DEF ReadClock, TypeOK, connVars
  <1>4. ASSUME pc[p] \in {"looping", "running"}
        PROVE  batch[p] # <<>> /\ Head(batch[p]) \in Requests
    BY <1>4, TailFacts DEF TypeOK
  <1>5. ASSUME NEW f \in Settled, pc[p] \in {"looping", "running"},
               Settle(Head(batch[p]), f), NextCommand(p),
               UNCHANGED <<connVars, age, queue, ran>>
        PROVE  TypeOK'
    <2>1. fut' \in [Requests -> {"none", "pending", "dropped"} \cup Settled]
      BY <1>4, <1>5 DEF Settle, TypeOK
    <2>2. /\ Tail(batch[p]) \in Seq(Requests)
          /\ Len(batch[p]) # 1 => Tail(batch[p]) # <<>>
      <3>1. batch[p] \in Seq(Requests) /\ batch[p] # <<>>
        BY <1>4, <1>5 DEF TypeOK
      <3>2. QED
        BY <3>1, TailFacts
    <2>3. QED
      BY <1>5, <2>1, <2>2 DEF NextCommand, TypeOK, connVars
  <1>6. CASE Expire(p)
    BY <1>6, <1>5 DEF Expire, Settled
  <1>7. CASE StartHandler(p)
    BY <1>7, <1>4 DEF StartHandler, TypeOK, connVars
  <1>8. ASSUME NEW o \in Outcomes, FinishHandler(p, o)  PROVE TypeOK'
    BY <1>8, <1>5, OutcomesAssumption DEF FinishHandler, Settled
  <1>9. QED
    BY <1>1, <1>2, <1>3, <1>6, <1>7, <1>8 DEF PumpStep

\* Time keeps every variable within its type.
LEMMA TickTypeStep == TypeOK /\ Tick => TypeOK'
  BY DEF Tick, TypeOK, pumpVars

\* The variables have their types at first.
LEMMA TypeInit == Init => TypeOK
  <1>1. <<Ack>> \in Seq(Requests \cup {Ack})
    OBVIOUS
  <1>2. QED
    BY <1>1 DEF Init, TypeOK

\* Every step keeps the types.
LEMMA TypeStep == TypeOK /\ [Next]_vars => TypeOK'
  <1>1. CASE UNCHANGED vars
    BY <1>1 DEF vars, TypeOK
  <1>2. QED
    BY <1>1, ConnTypeStep, PumpTypeStep, TickTypeStep DEF Next

\* Every variable of the agent keeps the type its module states.
THEOREM TypeCorrect == Spec => []TypeOK
  BY TypeInit, TypeStep, PTL DEF Spec

-----------------------------------------------------------------------------
(* OnePlace is inductive: first the steps of the client and the handler.   *)

\* What is sent for the first time was nowhere before.
LEMMA SendStep ==
    ASSUME TypeOK, OnePlace, NEW c \in Conns, NEW r \in Requests, Send(c, r)
    PROVE  OnePlace'
  <1>1. /\ sent' = sent \cup {r} /\ r \notin sent
        /\ wire' = [wire EXCEPT ![c] = Append(@, r)]
        /\ UNCHANGED <<hpc, cur, fut, queue, pc, batch, ran, reply>>
    BY DEF Send, pumpVars
  <1>2. \A d \in Conns : r \notin Elems(wire[d])
    BY <1>1 DEF OnePlace, FramesOK
  <1>3. /\ Elems(wire'[c]) = Elems(wire[c]) \cup {r} /\ Inj(wire'[c])
        /\ \A d \in Conns : d # c => wire'[d] = wire[d]
    <2>1. wire[c] \in Seq(Requests \cup {Ack}) /\ Inj(wire[c])
      BY DEF TypeOK, OnePlace, FramesOK
    <2>2. wire'[c] = Append(wire[c], r)
      BY <1>1 DEF TypeOK
    <2>3. QED
      BY <1>1, <1>2, <2>1, <2>2, AppendFacts DEF TypeOK
  <1>4. FramesOK'
    BY <1>1, <1>2, <1>3 DEF OnePlace, FramesOK
  <1>5. (HandlersOK /\ QueueOK /\ BatchesOK /\ FuturesOK /\ ResponsesOK)'
    BY <1>1 DEF OnePlace, HandlersOK, QueueOK, BatchesOK, FuturesOK,
                ResponsesOK
  <1>6. QED
    BY <1>4, <1>5 DEF OnePlace

\* Taking the next frame off the wire.
LEMMA WireTail ==
    ASSUME TypeOK, FramesOK, NEW c \in Conns, wire[c] # <<>>,
           wire' = [wire EXCEPT ![c] = Tail(@)]
    PROVE  /\ Head(wire[c]) \in Elems(wire[c])
           /\ Head(wire[c]) \notin Elems(wire'[c])
           /\ Inj(wire'[c])
           /\ \A d \in Conns : Elems(wire'[d]) \subseteq Elems(wire[d])
           /\ \A d \in Conns : d # c => wire'[d] = wire[d]
  <1>1. wire[c] \in Seq(Requests \cup {Ack}) /\ Inj(wire[c])
    BY DEF TypeOK, FramesOK
  <1>2. wire'[c] = Tail(wire[c]) /\ \A d \in Conns : d # c => wire'[d] = wire[d]
    BY DEF TypeOK
  <1>3. QED
    BY <1>1, <1>2, TailFacts

\* A frame that is read is no longer on the wire.
LEMMA ReadFrameStep ==
    ASSUME TypeOK, OnePlace, NEW c \in Conns, ReadFrame(c)
    PROVE  OnePlace'
  <1> DEFINE r == Head(wire[c])
  <1>1. /\ hpc[c] = "reading" /\ wire[c] # <<>> /\ r # Ack
        /\ cur' = [cur EXCEPT ![c] = r] /\ hpc' = [hpc EXCEPT ![c] = "read"]
        /\ wire' = [wire EXCEPT ![c] = Tail(@)]
        /\ fut' = [fut EXCEPT ![r] = "pending"]
        /\ UNCHANGED <<sent, queue, pc, batch, ran, reply>>
    BY DEF ReadFrame, pumpVars
  <1>2. r \in Requests /\ r \in Elems(wire[c])
    BY <1>1, TailFacts DEF TypeOK
  <1>3. /\ fut[r] = "none" /\ r \in sent /\ ran[r] = 0 /\ reply[r] = <<>>
        /\ \A d \in Conns : d # c => r \notin Elems(wire[d])
    BY <1>2 DEF OnePlace, FramesOK, FuturesOK
  <1>4. /\ \A d \in Conns : cur[d] # r
        /\ r \notin Elems(queue) /\ \A p \in Pumps : r \notin Elems(batch[p])
    BY <1>2, <1>3, NamesAssumption
    DEF OnePlace, HandlersOK, QueueOK, BatchesOK, Settled, AllOutcomes
  <1>5. fut'[r] = "pending" /\ \A q \in Requests : q # r => fut'[q] = fut[q]
    BY <1>1, <1>2 DEF TypeOK
  <1>6. FramesOK'
    <2>1. /\ FramesOK /\ r \notin Elems(wire'[c]) /\ Inj(wire'[c])
          /\ \A d \in Conns : Elems(wire'[d]) \subseteq Elems(wire[d])
          /\ \A d \in Conns : d # c => wire'[d] = wire[d]
      BY <1>1, WireTail DEF OnePlace
    <2>2. \A d \in Conns : r \notin Elems(wire'[d])
      BY <1>3, <2>1
    <2>3. \A d \in Conns : Inj(wire'[d])
      BY <2>1 DEF FramesOK
    <2>4. QED
      BY <1>1, <1>3, <1>5, <2>1, <2>2, <2>3 DEF FramesOK
  <1>7. HandlersOK'
    <2>1. /\ cur'[c] = r /\ hpc'[c] = "read"
          /\ \A d \in Conns : d # c => cur'[d] = cur[d] /\ hpc'[d] = hpc[d]
      BY <1>1 DEF TypeOK
    <2>2. \A d \in Conns : cur[d] \in Requests \cup {NoReq}
      BY DEF TypeOK
    <2>3. \A d \in Conns : hpc[d] = "read" => cur[d] \in Requests
      BY DEF TypeOK
    <2>4. QED
      BY <1>1, <1>2, <1>3, <1>4, <1>5, <2>1, <2>2, <2>3, NamesAssumption
      DEF OnePlace, HandlersOK
  <1>8. QueueOK' /\ BatchesOK'
    BY <1>1, <1>4, <1>5 DEF OnePlace, QueueOK, BatchesOK
  <1>9. FuturesOK' /\ ResponsesOK'
    BY <1>1, <1>3, <1>5
    DEF OnePlace, FuturesOK, ResponsesOK, AllOutcomes
  <1>10. QED
    BY <1>6, <1>7, <1>8, <1>9 DEF OnePlace

\* A command that is queued was in its handler thread only.
LEMMA EnqueueStep ==
    ASSUME TypeOK, OnePlace, NEW c \in Conns, Enqueue(c)
    PROVE  OnePlace'
  <1> DEFINE r == cur[c]
  <1>1. /\ hpc[c] = "read" /\ hpc' = [hpc EXCEPT ![c] = "waiting"]
        /\ queue' = Append(queue, r)
        /\ UNCHANGED <<sent, wire, cur, fut, pc, batch, ran, reply>>
    BY DEF Enqueue, pumpVars
  <1>2. /\ r \in Requests /\ fut[r] = "pending" /\ ran[r] = 0
        /\ r \notin Elems(queue) /\ \A p \in Pumps : r \notin Elems(batch[p])
        /\ \A d \in Conns : cur[d] = r => d = c
    BY <1>1 DEF TypeOK, OnePlace, HandlersOK
  <1>3. Elems(queue') = Elems(queue) \cup {r} /\ Inj(queue')
    <2>1. queue \in Seq(Requests) /\ Inj(queue)
      BY DEF TypeOK, OnePlace, QueueOK
    <2>2. QED
      BY <1>1, <1>2, <2>1, AppendFacts
  <1>4. HandlersOK'
    <2>1. /\ hpc'[c] = "waiting"
          /\ \A d \in Conns : d # c => hpc'[d] = hpc[d]
      BY <1>1 DEF TypeOK
    <2>2. QED
      BY <1>1, <1>2, <1>3, <2>1 DEF OnePlace, HandlersOK
  <1>5. QueueOK' /\ BatchesOK'
    BY <1>1, <1>2, <1>3 DEF OnePlace, QueueOK, BatchesOK
  <1>6. FramesOK' /\ FuturesOK' /\ ResponsesOK'
    BY <1>1 DEF OnePlace, FramesOK, FuturesOK, ResponsesOK
  <1>7. QED
    BY <1>4, <1>5, <1>6 DEF OnePlace

\* A response frame, whatever its code, as long as the future agrees with it.
LEMMA RespondStep ==
    ASSUME TypeOK, OnePlace, NEW c \in Conns, hpc[c] \in {"read", "waiting"},
           NEW code \in Codes, Respond(c, code),
           UNCHANGED <<fut, queue, pumpVars>>,
           code = "ok" => fut[cur[c]] = "ok",
           code = "AllplanApiError" =>
               fut[cur[c]] \in {"failed", "unencodable"},
           code # "Internal"
    PROVE  OnePlace'
  <1> DEFINE r == cur[c]
  <1>1. /\ cur' = [cur EXCEPT ![c] = NoReq]
        /\ reply' \in {reply, [reply EXCEPT ![r] = Append(@, code)]}
        /\ \E s \in {"reading", "ended"} : hpc' = [hpc EXCEPT ![c] = s]
        /\ UNCHANGED <<sent, wire, fut, queue, pc, batch, ran>>
    BY DEF Respond, pumpVars
  <1>2. /\ r \in Requests /\ fut[r] \in {"pending"} \cup Settled
        /\ reply[r] = <<>>
        /\ \A d \in Conns : cur[d] = r => d = c
    BY DEF TypeOK, OnePlace, HandlersOK
  <1>3. /\ reply'[r] \in {<<>>, <<code>>}
        /\ \A q \in Requests : q # r => reply'[q] = reply[q]
    <2>1. Append(<<>>, code) = <<code>>
      OBVIOUS
    <2>2. DOMAIN reply = Requests /\ reply = [q \in Requests |-> reply[q]]
      BY DEF TypeOK
    <2>3. CASE reply' = reply
      BY <1>2, <2>3
    <2>4. CASE reply' = [reply EXCEPT ![r] = Append(@, code)]
      BY <1>2, <2>1, <2>2, <2>4
    <2>5. QED
      BY <1>1, <2>3, <2>4
  <1>4. /\ cur'[c] = NoReq /\ hpc'[c] \in {"reading", "ended"}
        /\ \A d \in Conns : d # c => cur'[d] = cur[d] /\ hpc'[d] = hpc[d]
    BY <1>1 DEF TypeOK
  <1>5. HandlersOK'
    <2>1. \A d \in Conns : cur[d] \in Requests \cup {NoReq}
      BY DEF TypeOK
    <2>2. QED
      BY <1>1, <1>2, <1>3, <1>4, <2>1 DEF OnePlace, HandlersOK
  <1>6. FramesOK' /\ QueueOK' /\ BatchesOK'
    BY <1>1 DEF OnePlace, FramesOK, QueueOK, BatchesOK
  <1>7. FuturesOK'
    BY <1>1, <1>2, <1>3 DEF OnePlace, FuturesOK, Settled, AllOutcomes
  <1>8. ResponsesOK'
    BY <1>1, <1>2, <1>3 DEF OnePlace, ResponsesOK
  <1>9. QED
    BY <1>5, <1>6, <1>7, <1>8 DEF OnePlace

\* A rejected command is nowhere but in its response.
LEMMA RejectFullStep ==
    ASSUME TypeOK, OnePlace, NEW c \in Conns, RejectFull(c)
    PROVE  OnePlace'
  <1> DEFINE r == cur[c]
  <1>1. /\ hpc[c] = "read"
        /\ fut' = [fut EXCEPT ![r] = "dropped"]
        /\ cur' = [cur EXCEPT ![c] = NoReq]
        /\ reply' \in {reply, [reply EXCEPT ![r] = Append(@, "Internal")]}
        /\ \E s \in {"reading", "ended"} : hpc' = [hpc EXCEPT ![c] = s]
        /\ UNCHANGED <<sent, wire, queue, pc, batch, ran>>
    BY DEF RejectFull, Respond, pumpVars
  <1>2. /\ r \in Requests /\ fut[r] = "pending" /\ reply[r] = <<>>
        /\ ran[r] = 0 /\ r \notin Elems(queue)
        /\ \A p \in Pumps : r \notin Elems(batch[p])
        /\ \A d \in Conns : cur[d] = r => d = c
    BY <1>1 DEF TypeOK, OnePlace, HandlersOK
  <1>3. /\ reply'[r] \in {<<>>, <<"Internal">>}
        /\ \A q \in Requests : q # r => reply'[q] = reply[q]
        /\ fut'[r] = "dropped" /\ \A q \in Requests : q # r => fut'[q] = fut[q]
    <2>1. Append(<<>>, "Internal") = <<"Internal">>
      OBVIOUS
    <2>2. DOMAIN reply = Requests /\ reply = [q \in Requests |-> reply[q]]
      BY DEF TypeOK
    <2>3. CASE reply' = reply
      BY <1>2, <2>3, <1>1 DEF TypeOK
    <2>4. CASE reply' = [reply EXCEPT ![r] = Append(@, "Internal")]
      BY <1>2, <2>1, <2>2, <2>4, <1>1 DEF TypeOK
    <2>5. QED
      BY <1>1, <2>3, <2>4
  <1>4. /\ cur'[c] = NoReq /\ hpc'[c] \in {"reading", "ended"}
        /\ \A d \in Conns : d # c => cur'[d] = cur[d] /\ hpc'[d] = hpc[d]
    BY <1>1 DEF TypeOK
  <1>5. HandlersOK'
    <2>1. \A d \in Conns : cur[d] \in Requests \cup {NoReq}
      BY DEF TypeOK
    <2>2. QED
      BY <1>1, <1>2, <1>3, <1>4, <2>1 DEF OnePlace, HandlersOK, TypeOK
  <1>6. FramesOK'
    <2>1. \A q \in Requests : fut[q] = "none" => q # r
      BY <1>2
    <2>2. r \in sent
      BY <1>2 DEF OnePlace, FramesOK
    <2>3. QED
      BY <1>1, <1>2, <1>3, <2>1, <2>2 DEF OnePlace, FramesOK
  <1>7. QueueOK' /\ BatchesOK'
    BY <1>1, <1>2, <1>3 DEF OnePlace, QueueOK, BatchesOK
  <1>8. FuturesOK'
    BY <1>1, <1>2, <1>3 DEF OnePlace, FuturesOK, AllOutcomes
  <1>9. ResponsesOK'
    BY <1>1, <1>2, <1>3 DEF OnePlace, ResponsesOK, Codes
  <1>10. QED
    BY <1>5, <1>6, <1>7, <1>8, <1>9 DEF OnePlace

\* Every step of a connection keeps a command in one place.
LEMMA ConnStep ==
    ASSUME TypeOK, OnePlace, NEW c \in Conns, ClientStep(c) \/ HandlerStep(c)
    PROVE  OnePlace'
  <1>1. CASE HangUp(c)
    BY <1>1 DEF HangUp, pumpVars, OnePlace, FramesOK, HandlersOK, QueueOK,
                BatchesOK, FuturesOK, ResponsesOK
  <1>2. CASE SkipFrame(c)
    <2>1. /\ wire[c] # <<>> /\ wire' = [wire EXCEPT ![c] = Tail(@)]
          /\ UNCHANGED <<sent, hpc, cur, fut, queue, pc, batch, ran, reply>>
      BY <1>2 DEF SkipFrame, pumpVars
    <2>2. FramesOK'
      BY <2>1, WireTail DEF OnePlace, FramesOK
    <2>3. QED
      BY <2>1, <2>2 DEF OnePlace, HandlersOK, QueueOK, BatchesOK, FuturesOK,
                        ResponsesOK
  <1>3. CASE EndOfStream(c)
    <2>1. /\ hpc[c] = "reading" /\ hpc' = [hpc EXCEPT ![c] = "ended"]
          /\ UNCHANGED <<sent, wire, cur, fut, queue, pc, batch, ran, reply>>
      BY <1>3 DEF EndOfStream, pumpVars
    <2>2. HandlersOK'
      BY <2>1 DEF OnePlace, HandlersOK, TypeOK
    <2>3. QED
      BY <2>1, <2>2 DEF OnePlace, FramesOK, QueueOK, BatchesOK, FuturesOK,
                        ResponsesOK
  <1>4. CASE AnswerResult(c)
    <2>1. fut[cur[c]] \in Settled /\ hpc[c] = "waiting"
      BY <1>4 DEF AnswerResult
    <2>2. \E code \in Codes :
            /\ Respond(c, code) /\ code # "Internal"
            /\ code = "ok" => fut[cur[c]] = "ok"
            /\ code = "AllplanApiError" =>
                  fut[cur[c]] \in {"failed", "unencodable"}
      <3>1. Respond(c, CodeOf[fut[cur[c]]])
        BY <1>4 DEF AnswerResult
      <3>2. CASE fut[cur[c]] = "ok"
        <4>1. CodeOf[fut[cur[c]]] = "ok"
          BY <2>1, <3>2 DEF CodeOf
        <4>2. QED
          BY <3>1, <3>2, <4>1 DEF Codes
      <3>3. CASE fut[cur[c]] \in {"expired", "timedout"}
        <4>1. CodeOf[fut[cur[c]]] = "Timeout"
          BY <2>1, <3>3 DEF CodeOf
        <4>2. QED
          BY <3>1, <4>1 DEF Codes
      <3>4. CASE fut[cur[c]] \in {"failed", "unencodable"}
        <4>1. CodeOf[fut[cur[c]]] = "AllplanApiError"
          BY <2>1, <3>4 DEF CodeOf
        <4>2. QED
          BY <3>1, <3>4, <4>1 DEF Codes
      <3>5. QED
        BY <2>1, <3>2, <3>3, <3>4 DEF Settled, AllOutcomes
    <2>3. UNCHANGED <<fut, queue, pumpVars>>
      BY <1>4 DEF AnswerResult
    <2>4. QED
      BY <2>1, <2>2, <2>3, RespondStep
  <1>5. CASE GiveUp(c)
    BY <1>5, RespondStep DEF GiveUp, Codes
  <1>6. QED
    BY <1>1, <1>2, <1>3, <1>4, <1>5, SendStep, ReadFrameStep, EnqueueStep,
       RejectFullStep DEF ClientStep, HandlerStep

-----------------------------------------------------------------------------
(* OnePlace is inductive: the steps of pump_once.                          *)

\* A command moves from the queue into one batch.
LEMMA GetStep ==
    ASSUME TypeOK, OnePlace, NEW p \in Pumps, Get(p)
    PROVE  OnePlace'
  <1> DEFINE r == Head(queue)
  <1>1. /\ pc[p] = "draining" /\ queue # <<>>
        /\ batch' = [batch EXCEPT ![p] = Append(@, r)]
        /\ queue' = Tail(queue)
        /\ UNCHANGED <<sent, wire, hpc, cur, fut, pc, ran, reply>>
    BY DEF Get, connVars
  <1>2. queue \in Seq(Requests) /\ Inj(queue)
    BY DEF TypeOK, OnePlace, QueueOK
  <1>3. /\ r \in Requests /\ r \in Elems(queue)
        /\ Elems(queue) = Elems(queue') \cup {r}
        /\ r \notin Elems(queue') /\ Inj(queue')
    BY <1>1, <1>2, TailFacts
  <1>4. /\ fut[r] = "pending" /\ ran[r] = 0
        /\ \A q \in Pumps : r \notin Elems(batch[q])
        /\ \A c \in Conns : hpc[c] = "read" => cur[c] # r
    BY <1>3 DEF OnePlace, QueueOK, HandlersOK
  <1>5. /\ Elems(batch'[p]) = Elems(batch[p]) \cup {r} /\ Inj(batch'[p])
        /\ \A q \in Pumps : q # p => batch'[q] = batch[q]
    <2>1. batch[p] \in Seq(Requests) /\ Inj(batch[p])
      BY DEF TypeOK, OnePlace, BatchesOK
    <2>2. batch'[p] = Append(batch[p], r)
      BY <1>1 DEF TypeOK
    <2>3. QED
      BY <1>1, <1>3, <1>4, <2>1, <2>2, AppendFacts DEF TypeOK
  <1>6. HandlersOK'
    BY <1>1, <1>3, <1>4, <1>5 DEF OnePlace, HandlersOK
  <1>7. QueueOK'
    BY <1>1, <1>3, <1>5 DEF OnePlace, QueueOK
  <1>8. BatchesOK'
    <2>1. SUFFICES ASSUME NEW q \in Pumps
                   PROVE  /\ Inj(batch'[q])
                          /\ \A x \in Requests : x \in Elems(batch'[q]) =>
                                /\ fut[x] = "pending"
                                /\ \A u \in Pumps :
                                      x \in Elems(batch'[u]) => u = q
                                /\ ran[x] = IF /\ pc[q] = "running"
                                               /\ x = Head(batch'[q])
                                            THEN 1 ELSE 0
      BY <1>1 DEF BatchesOK
    <2>2. CASE q = p
      BY <1>1, <1>4, <1>5, <2>2 DEF OnePlace, BatchesOK
    <2>3. CASE q # p
      BY <1>1, <1>4, <1>5, <2>3 DEF OnePlace, BatchesOK
    <2>4. QED
      BY <2>2, <2>3
  <1>9. FramesOK' /\ FuturesOK' /\ ResponsesOK'
    BY <1>1 DEF OnePlace, FramesOK, FuturesOK, ResponsesOK
  <1>10. QED
    BY <1>6, <1>7, <1>8, <1>9 DEF OnePlace

\* A command that is run was neither run nor settled before.
LEMMA StartHandlerStep ==
    ASSUME TypeOK, OnePlace, NEW p \in Pumps, StartHandler(p)
    PROVE  OnePlace'
  <1> DEFINE r == Head(batch[p])
  <1>1. /\ pc[p] = "looping" /\ pc' = [pc EXCEPT ![p] = "running"]
        /\ ran' = [ran EXCEPT ![r] = @ + 1]
        /\ UNCHANGED <<sent, wire, hpc, cur, fut, queue, batch, reply>>
    BY DEF StartHandler, connVars
  <1>2. r \in Requests /\ r \in Elems(batch[p])
    BY <1>1, TailFacts DEF TypeOK
  <1>3. /\ fut[r] = "pending" /\ ran[r] = 0 /\ r \notin Elems(queue)
        /\ \A q \in Pumps : r \in Elems(batch[q]) => q = p
        /\ \A c \in Conns : hpc[c] = "read" => cur[c] # r
    BY <1>1, <1>2 DEF OnePlace, BatchesOK, QueueOK, HandlersOK
  <1>4. /\ ran'[r] = 1 /\ \A q \in Requests : q # r => ran'[q] = ran[q]
        /\ pc'[p] = "running" /\ \A q \in Pumps : q # p => pc'[q] = pc[q]
    BY <1>1, <1>2, <1>3 DEF TypeOK
  <1>5. HandlersOK'
    BY <1>1, <1>3, <1>4 DEF OnePlace, HandlersOK, TypeOK
  <1>6. QueueOK' /\ BatchesOK'
    BY <1>1, <1>2, <1>3, <1>4 DEF OnePlace, QueueOK, BatchesOK
  <1>7. FuturesOK'
    BY <1>1, <1>3, <1>4 DEF OnePlace, FuturesOK, AllOutcomes
  <1>8. FramesOK' /\ ResponsesOK'
    BY <1>1 DEF OnePlace, FramesOK, ResponsesOK
  <1>9. QED
    BY <1>5, <1>6, <1>7, <1>8 DEF OnePlace

\* The head of a batch is settled and leaves it: expired before it was
\* started, or with an outcome after it was.
LEMMA SettleStep ==
    ASSUME TypeOK, OnePlace, NEW p \in Pumps, NEW f \in Settled,
           \/ pc[p] = "looping" /\ f = "expired"
           \/ pc[p] = "running" /\ f \in AllOutcomes,
           Settle(Head(batch[p]), f), NextCommand(p),
           UNCHANGED <<connVars, age, queue, ran>>
    PROVE  OnePlace'
  <1> DEFINE r == Head(batch[p])
  <1>1. /\ pc[p] \in {"looping", "running"}
        /\ batch' = [batch EXCEPT ![p] = Tail(@)]
        /\ \E s \in {"draining", "looping"} : pc' = [pc EXCEPT ![p] = s]
        /\ UNCHANGED <<sent, wire, hpc, cur, queue, ran, reply>>
    BY DEF NextCommand, connVars
  <1>2. batch[p] \in Seq(Requests) /\ batch[p] # <<>> /\ Inj(batch[p])
    BY <1>1 DEF TypeOK, OnePlace, BatchesOK
  <1>3. /\ r \in Requests /\ r \in Elems(batch[p])
        /\ Elems(batch[p]) = Elems(batch'[p]) \cup {r}
        /\ r \notin Elems(batch'[p]) /\ Inj(batch'[p])
        /\ \A q \in Pumps : q # p => batch'[q] = batch[q]
    <2>1. batch'[p] = Tail(batch[p])
      BY <1>1 DEF TypeOK
    <2>2. QED
      BY <1>1, <1>2, <2>1, TailFacts DEF TypeOK
  <1>4. /\ fut[r] = "pending" /\ r \notin Elems(queue)
        /\ \A q \in Pumps : r \in Elems(batch[q]) => q = p
        /\ \A c \in Conns : hpc[c] = "read" => cur[c] # r
        /\ ran[r] = IF pc[p] = "running" THEN 1 ELSE 0
    BY <1>3 DEF OnePlace, BatchesOK, QueueOK, HandlersOK
  <1>5. fut'[r] = f /\ \A q \in Requests : q # r => fut'[q] = fut[q]
    BY <1>3, <1>4 DEF Settle, TypeOK
  <1>6. /\ pc'[p] \in {"draining", "looping"}
        /\ \A q \in Pumps : q # p => pc'[q] = pc[q]
    BY <1>1 DEF TypeOK
  <1>7. FramesOK'
    <2>1. r \in sent /\ \A c \in Conns : r \notin Elems(wire[c])
      BY <1>3, <1>4 DEF OnePlace, FramesOK
    <2>2. QED
      BY <1>1, <1>5, <2>1 DEF OnePlace, FramesOK
  <1>8. HandlersOK'
    <2>1. \A c \in Conns : cur[c] \in Requests \cup {NoReq}
      BY DEF TypeOK
    <2>2. \A c \in Conns : hpc[c] = "read" => cur[c] \in Requests
      BY DEF TypeOK
    <2>3. \A q \in Pumps : Elems(batch'[q]) \subseteq Elems(batch[q])
      BY <1>3
    <2>4. \A c \in Conns : cur[c] # NoReq => fut'[cur[c]] \in {"pending"} \cup Settled
      BY <1>4, <1>5, <2>1 DEF OnePlace, HandlersOK
    <2>5. \A c \in Conns : hpc[c] = "read" => fut'[cur[c]] = "pending"
      BY <1>4, <1>5, <2>2 DEF OnePlace, HandlersOK
    <2>6. QED
      BY <1>1, <2>3, <2>4, <2>5 DEF OnePlace, HandlersOK
  <1>9. QueueOK'
    BY <1>1, <1>3, <1>4, <1>5 DEF OnePlace, QueueOK
  <1>10. BatchesOK'
    <2>0. ran' = ran
      BY <1>1
    <2>1. SUFFICES ASSUME NEW q \in Pumps
                   PROVE  /\ Inj(batch'[q])
                          /\ \A x \in Requests : x \in Elems(batch'[q]) =>
                                /\ fut'[x] = "pending"
                                /\ \A u \in Pumps :
                                      x \in Elems(batch'[u]) => u = q
                                /\ ran[x] = IF /\ pc'[q] = "running"
                                               /\ x = Head(batch'[q])
                                            THEN 1 ELSE 0
      BY <2>0 DEF BatchesOK
    <2>2. \A u \in Pumps : Elems(batch'[u]) \subseteq Elems(batch[u])
      BY <1>3
    <2>3. \A u \in Pumps : r \notin Elems(batch'[u])
      BY <1>3, <1>4
    <2>4. CASE q = p
      BY <1>3, <1>5, <1>6, <2>2, <2>3, <2>4 DEF OnePlace, BatchesOK
    <2>5. CASE q # p
      BY <1>3, <1>5, <1>6, <2>2, <2>3, <2>5 DEF OnePlace, BatchesOK
    <2>6. QED
      BY <2>4, <2>5
  <1>11. FuturesOK'
    BY <1>1, <1>4, <1>5 DEF OnePlace, FuturesOK, Settled, AllOutcomes
  <1>12. ResponsesOK'
    BY <1>1, <1>4, <1>5 DEF OnePlace, ResponsesOK
  <1>13. QED
    BY <1>7, <1>8, <1>9, <1>10, <1>11, <1>12 DEF OnePlace

\* Every step of a pump keeps a command in one place.
LEMMA PumpOnceStep ==
    ASSUME TypeOK, OnePlace, NEW p \in Pumps, PumpStep(p)
    PROVE  OnePlace'
  <1>1. CASE StopDraining(p) \/ ReadClock(p)
    <2>1. /\ pc[p] # "running"
          /\ \E s \in {"drained", "looping"} : pc' = [pc EXCEPT ![p] = s]
          /\ UNCHANGED <<sent, wire, hpc, cur, fut, queue, batch, ran, reply>>
      BY <1>1 DEF StopDraining, ReadClock, connVars
    <2>2. BatchesOK'
      <3>1. \A q \in Pumps : (pc'[q] = "running") = (pc[q] = "running")
        BY <2>1 DEF TypeOK
      <3>2. SUFFICES ASSUME NEW q \in Pumps
                     PROVE  /\ Inj(batch[q])
                            /\ \A x \in Requests : x \in Elems(batch[q]) =>
                                  /\ fut[x] = "pending"
                                  /\ \A u \in Pumps :
                                        x \in Elems(batch[u]) => u = q
                                  /\ ran[x] = IF /\ pc'[q] = "running"
                                                 /\ x = Head(batch[q])
                                              THEN 1 ELSE 0
        BY <2>1 DEF BatchesOK
      <3>3. QED
        BY <3>1 DEF OnePlace, BatchesOK
    <2>3. QED
      BY <2>1, <2>2 DEF OnePlace, FramesOK, HandlersOK, QueueOK, FuturesOK,
                        ResponsesOK
  <1>2. CASE Expire(p)
    BY <1>2, SettleStep DEF Expire, Settled
  <1>3. ASSUME NEW o \in Outcomes, FinishHandler(p, o)  PROVE OnePlace'
    BY <1>3, SettleStep, OutcomesAssumption DEF FinishHandler, Settled
  <1>4. QED
    BY <1>1, <1>2, <1>3, GetStep, StartHandlerStep DEF PumpStep

-----------------------------------------------------------------------------
(* The theorems.                                                           *)

\* No command is anywhere at first.
LEMMA OnePlaceInit == Init => OnePlace
  <1>1. Elems(<<Ack>>) = {Ack} /\ Inj(<<Ack>>)
    BY DEF Elems, Inj
  <1>2. QED
    BY <1>1, ElemsFacts, NamesAssumption
    DEF Init, OnePlace, FramesOK, HandlersOK, QueueOK, BatchesOK, FuturesOK,
        ResponsesOK, AllOutcomes

\* Every step keeps each command in one place.
LEMMA OnePlaceStep == TypeOK /\ OnePlace /\ [Next]_vars => OnePlace'
  <1>1. CASE Tick \/ UNCHANGED vars
    BY <1>1 DEF Tick, vars, pumpVars, OnePlace, FramesOK, HandlersOK, QueueOK,
                BatchesOK, FuturesOK, ResponsesOK
  <1>2. QED
    BY <1>1, ConnStep, PumpOnceStep DEF Next

\* Every command is in exactly one place, and its future, its start and its
\* response agree with that place.
THEOREM CommandsInOnePlace == Spec => []OnePlace
  <1>1. Init => TypeOK /\ OnePlace
    BY TypeInit, OnePlaceInit
  <1>2. TypeOK /\ OnePlace /\ [Next]_vars => (TypeOK /\ OnePlace)'
    BY TypeStep, OnePlaceStep
  <1>3. QED
    BY <1>1, <1>2, PTL DEF Spec

\* No command is run twice, whatever threads call pump_once.
THEOREM RunAtMostOnce == Spec => []AtMostOnce
  <1>1. OnePlace => AtMostOnce
    BY DEF OnePlace, FuturesOK, AtMostOnce
  <1>2. QED
    BY <1>1, CommandsInOnePlace, PTL

\* A command that pump_once expired was not run.
THEOREM ExpiredWasNotRun == Spec => []ExpiredNeverRan
  <1>1. OnePlace => ExpiredNeverRan
    BY DEF OnePlace, FuturesOK, ExpiredNeverRan
  <1>2. QED
    BY <1>1, CommandsInOnePlace, PTL

\* A client is told at most one thing about its request, and it is true.
THEOREM ToldTheTruthOnce == Spec => []RepliesAreTrue
  <1>1. OnePlace => RepliesAreTrue
    <2>1. SUFFICES ASSUME OnePlace, NEW r \in Requests
                   PROVE  /\ Len(reply[r]) <= 1
                          /\ reply[r] = <<"ok">> => fut[r] = "ok" /\ ran[r] = 1
                          /\ reply[r] = <<"AllplanApiError">> =>
                                /\ fut[r] \in {"failed", "unencodable"}
                                /\ ran[r] = 1
                          /\ reply[r] = <<"Internal">> =>
                                ran[r] = 0 /\ r \notin Elems(queue)
      BY DEF RepliesAreTrue
    <2>2. Len(reply[r]) <= 1
      <3>1. Len(<<>>) = 0 /\ \A code \in Codes : Len(<<code>>) = 1
        OBVIOUS
      <3>2. CASE reply[r] = <<>>
        BY <3>1, <3>2
      <3>3. ASSUME NEW code \in Codes, reply[r] = <<code>>
            PROVE  Len(reply[r]) <= 1
        BY <3>1, <3>3
      <3>4. QED
        BY <2>1, <3>2, <3>3 DEF OnePlace, ResponsesOK
    <2>3. fut[r] = "dropped" => r \notin Elems(queue)
      BY <2>1 DEF OnePlace, QueueOK
    <2>4. QED
      BY <2>1, <2>2, <2>3 DEF OnePlace, ResponsesOK, FuturesOK, AllOutcomes
  <1>2. QED
    BY <1>1, CommandsInOnePlace, PTL

\* Once settled, a future never changes.
THEOREM FuturesSettleOnce == Spec => SettledForGood
  <1>1. ASSUME TypeOK, OnePlace, [Next]_vars, NEW r \in Requests,
               fut[r] \in Settled
        PROVE  fut'[r] = fut[r]
    <2>1. fut[r] \notin {"none", "pending"}
      BY <1>1 DEF Settled, AllOutcomes
    <2>2. ASSUME NEW c \in Conns, ReadFrame(c)  PROVE fut'[r] = fut[r]
      <3>1. Head(wire[c]) \in Requests /\ Head(wire[c]) \in Elems(wire[c])
        BY <1>1, <2>2, TailFacts DEF ReadFrame, TypeOK
      <3>2. fut[Head(wire[c])] = "none"
        BY <1>1, <3>1 DEF OnePlace, FramesOK
      <3>3. QED
        BY <1>1, <2>1, <2>2, <3>1, <3>2 DEF ReadFrame, TypeOK
    <2>3. ASSUME NEW c \in Conns, RejectFull(c)  PROVE fut'[r] = fut[r]
      <3>1. fut[cur[c]] = "pending" /\ cur[c] \in Requests
        BY <1>1, <2>3 DEF RejectFull, OnePlace, HandlersOK, TypeOK
      <3>2. QED
        BY <1>1, <2>1, <2>3, <3>1 DEF RejectFull, TypeOK
    <2>4. ASSUME NEW q, NEW f, Settle(q, f)  PROVE fut'[r] = fut[r]
      BY <1>1, <2>1, <2>4 DEF Settle, TypeOK
    <2>5. ASSUME NEW p \in Pumps, PumpStep(p)  PROVE fut'[r] = fut[r]
      BY <2>4, <2>5 DEF PumpStep, Get, StopDraining, ReadClock, Expire,
                        StartHandler, FinishHandler
    <2>6. ASSUME NEW c \in Conns, ClientStep(c) \/ HandlerStep(c)
          PROVE  fut'[r] = fut[r]
      BY <2>2, <2>3, <2>6 DEF ClientStep, HandlerStep, Send, HangUp, SkipFrame,
                              EndOfStream, Enqueue, AnswerResult, GiveUp
    <2>7. QED
      BY <1>1, <2>5, <2>6 DEF Next, Tick, vars
  <1>2. TypeOK /\ OnePlace /\ [Next]_vars =>
            [\A r \in Requests : fut[r] \in Settled => fut'[r] = fut[r]]_vars
    BY <1>1
  <1>3. QED
    BY <1>2, TypeCorrect, CommandsInOnePlace, PTL DEF Spec, SettledForGood

-----------------------------------------------------------------------------
(* A command that outlived its client's patience is never started.         *)

\* The handler thread began to wait after the deadline was computed, so that
\* when it has waited longer than the timeout the command is past its deadline.
TimersOK ==
    \A c \in Conns : hpc[c] = "waiting" =>
        age[cur[c]] >= waited[c] \/ age[cur[c]] > Timeout[cur[c]]

\* A Timeout for a command that is not settled was sent past its deadline.
AnsweredLate ==
    \A r \in Requests :
        reply[r] = <<"Timeout">> /\ fut[r] = "pending" => age[r] > Timeout[r]

TimedInv == TypeOK /\ OnePlace /\ TimersOK /\ AnsweredLate

\* Nobody will start r: it is past its deadline, and a pump that has it has not
\* yet read the clock or has found it late.
Dead(r) ==
    /\ ran[r] = 0 /\ fut[r] # "none" /\ age[r] > Timeout[r]
    /\ \A p \in Pumps : r \in Elems(batch[p]) =>
          pc[p] \in {"draining", "drained"} \/ r \in late[p]

\* A request that was read keeps its deadline: its age only grows, and its
\* future is never again what it was before or while it was pending.
LEMMA AgeStep ==
    ASSUME TypeOK, OnePlace, [Next]_vars, NEW r \in Requests, fut[r] # "none"
    PROVE  /\ fut'[r] # "none" /\ age[r] \in Nat /\ age'[r] \in Nat
           /\ age'[r] >= age[r]
           /\ fut'[r] = "pending" => fut[r] = "pending"
  <1>1. age[r] \in Nat /\ age'[r] \in Nat
    BY TypeStep DEF TypeOK
  <1>2. ASSUME NEW c \in Conns, ReadFrame(c)
        PROVE  fut'[r] = fut[r] /\ age'[r] = age[r]
    <2>1. Head(wire[c]) \in Requests /\ Head(wire[c]) \in Elems(wire[c])
      BY <1>2, TailFacts DEF ReadFrame, TypeOK
    <2>2. fut[Head(wire[c])] = "none"
      BY <2>1 DEF OnePlace, FramesOK
    <2> QED
      BY <1>2, <2>1, <2>2 DEF ReadFrame, TypeOK
  <1>3. ASSUME NEW c \in Conns, RejectFull(c)
        PROVE  /\ fut'[r] # "none" /\ age'[r] = age[r]
               /\ fut'[r] = "pending" => fut[r] = "pending"
    BY <1>3 DEF RejectFull, TypeOK
  <1>4. ASSUME NEW q, NEW f \in Settled, Settle(q, f), age' = age
        PROVE  /\ fut'[r] # "none" /\ age'[r] = age[r]
               /\ fut'[r] = "pending" => fut[r] = "pending"
    BY <1>4 DEF Settle, TypeOK, Settled, AllOutcomes
  <1>5. ASSUME NEW p \in Pumps, PumpStep(p)
        PROVE  /\ fut'[r] # "none" /\ age'[r] = age[r]
               /\ fut'[r] = "pending" => fut[r] = "pending"
    <2>1. ASSUME Get(p) \/ StopDraining(p) \/ ReadClock(p) \/ StartHandler(p)
          PROVE  fut' = fut /\ age' = age
      BY <2>1 DEF Get, StopDraining, ReadClock, StartHandler
    <2>2. ASSUME Expire(p)
          PROVE  Settle(Head(batch[p]), "expired") /\ age' = age
      BY <2>2 DEF Expire
    <2>3. ASSUME NEW o \in Outcomes, FinishHandler(p, o)
          PROVE  Settle(Head(batch[p]), o) /\ age' = age /\ o \in Settled
      BY <2>3, OutcomesAssumption DEF FinishHandler, Settled
    <2>4. "expired" \in Settled
      BY DEF Settled
    <2> QED
      BY <1>4, <1>5, <2>1, <2>2, <2>3, <2>4 DEF PumpStep
  <1>6. ASSUME NEW c \in Conns, ClientStep(c) \/ HandlerStep(c),
               ~ReadFrame(c), ~RejectFull(c)
        PROVE  fut'[r] = fut[r] /\ age'[r] = age[r]
    BY <1>6 DEF ClientStep, HandlerStep, Send, HangUp, SkipFrame, EndOfStream,
                Enqueue, AnswerResult, GiveUp
  <1>7. CASE Tick
    BY <1>1, <1>7 DEF Tick, TypeOK
  <1>8. CASE UNCHANGED vars
    BY <1>1, <1>8 DEF vars
  <1>9. CASE \E c \in Conns : ClientStep(c) \/ HandlerStep(c)
    <2>1. PICK c \in Conns : ClientStep(c) \/ HandlerStep(c)
      BY <1>9
    <2>2. CASE ReadFrame(c)
      BY <1>1, <1>2, <2>2
    <2>3. CASE RejectFull(c)
      BY <1>1, <1>3, <2>3
    <2>4. CASE ~ReadFrame(c) /\ ~RejectFull(c)
      BY <1>1, <1>6, <2>1, <2>4
    <2> QED
      BY <2>2, <2>3, <2>4
  <1>10. CASE \E p \in Pumps : PumpStep(p)
    BY <1>1, <1>5, <1>10
  <1> QED
    BY <1>7, <1>8, <1>9, <1>10 DEF Next

\* Whoever waits after a step began with it or waited before, as long.
LEMMA WaitingStep ==
    ASSUME TypeOK, NEW c \in Conns, [Next]_vars, ~Tick, hpc'[c] = "waiting"
    PROVE  \/ Enqueue(c)
           \/ /\ hpc[c] = "waiting" /\ cur'[c] = cur[c]
              /\ waited'[c] = waited[c]
  <1> DEFINE Same == /\ hpc[c] = "waiting" /\ cur'[c] = cur[c]
                     /\ waited'[c] = waited[c]
  <1>1. ASSUME NEW p \in Pumps, PumpStep(p)  PROVE Same
    BY <1>1 DEF PumpStep, Get, StopDraining, ReadClock, Expire, StartHandler,
                FinishHandler, connVars
  <1>2. ASSUME NEW d \in Conns,
               \/ \E r \in Requests : Send(d, r)
               \/ HangUp(d) \/ SkipFrame(d)
        PROVE  Same
    BY <1>2 DEF Send, HangUp, SkipFrame
  <1>3. ASSUME NEW d \in Conns, EndOfStream(d)  PROVE Same
    BY <1>3 DEF EndOfStream, TypeOK
  <1>4. ASSUME NEW d \in Conns, Enqueue(d)
        PROVE  Enqueue(c) \/ Same
    BY <1>4 DEF Enqueue, TypeOK
  <1>5. ASSUME NEW d \in Conns, ReadFrame(d)  PROVE Same
    BY <1>5 DEF ReadFrame, TypeOK
  <1>6. ASSUME NEW d \in Conns, NEW code, Respond(d, code)  PROVE Same
    BY <1>6 DEF Respond, TypeOK
  <1>7. ASSUME NEW d \in Conns, RejectFull(d) \/ AnswerResult(d) \/ GiveUp(d)
        PROVE  Same
    BY <1>6, <1>7 DEF RejectFull, AnswerResult, GiveUp
  <1>8. CASE UNCHANGED vars
    BY <1>8 DEF vars
  <1> QED
    BY <1>1, <1>2, <1>3, <1>4, <1>5, <1>7, <1>8
       DEF Next, ClientStep, HandlerStep

\* The timers run together: the age of a command that is waited for grows with
\* every tick of the wait, until it is past its deadline.
LEMMA TimersStep ==
    ASSUME TypeOK, OnePlace, TimersOK, [Next]_vars
    PROVE  TimersOK'
  <1> SUFFICES ASSUME NEW c \in Conns, hpc'[c] = "waiting"
               PROVE  \/ age'[cur'[c]] >= waited'[c]
                      \/ age'[cur'[c]] > Timeout[cur'[c]]
    BY DEF TimersOK
  <1>1. TypeOK' /\ OnePlace'
    BY TypeStep, OnePlaceStep
  <1>2. /\ cur'[c] \in Requests /\ age'[cur'[c]] \in Nat
        /\ Timeout[cur'[c]] \in Nat /\ waited[c] \in Nat
    BY <1>1, TimesAssumption DEF TypeOK
  <1>3. CASE Tick
    <2>1. hpc[c] = "waiting" /\ cur'[c] = cur[c] /\ fut[cur[c]] # "none"
      BY <1>3 DEF Tick, TypeOK, OnePlace, HandlersOK, Settled, AllOutcomes
    <2>2. /\ age[cur[c]] \in Nat
          /\ age'[cur[c]] = IF age[cur[c]] <= Timeout[cur[c]]
                            THEN age[cur[c]] + 1 ELSE age[cur[c]]
      BY <1>2, <1>3, <2>1 DEF Tick, Ages, TypeOK
    <2>3. waited'[c] <= waited[c] + 1 /\ waited'[c] \in Nat
      BY <1>2, <1>3 DEF Tick
    <2>4. age[cur[c]] >= waited[c] \/ age[cur[c]] > Timeout[cur[c]]
      BY <2>1 DEF TimersOK
    <2> QED
      BY <1>2, <2>1, <2>2, <2>3, <2>4
  <1>4. CASE ~Tick /\ Enqueue(c)
    <2>1. waited'[c] = 0
      BY <1>4 DEF Enqueue, TypeOK
    <2> QED
      BY <1>2, <2>1
  <1>5. CASE /\ ~Tick /\ hpc[c] = "waiting" /\ cur'[c] = cur[c]
             /\ waited'[c] = waited[c]
    <2>1. fut[cur[c]] # "none" /\ cur[c] \in Requests
      BY <1>5 DEF TypeOK, OnePlace, HandlersOK, Settled, AllOutcomes
    <2>2. age[cur[c]] \in Nat /\ age'[cur[c]] >= age[cur[c]]
      BY <2>1, AgeStep
    <2>3. age[cur[c]] >= waited[c] \/ age[cur[c]] > Timeout[cur[c]]
      BY <1>5 DEF TimersOK
    <2> QED
      BY <1>2, <1>5, <2>2, <2>3
  <1> QED
    BY <1>3, <1>4, <1>5, WaitingStep

\* The handler thread gives up past the deadline, because it waits Grace more.
LEMMA AnsweredLateStep ==
    ASSUME TypeOK, OnePlace, TimersOK, AnsweredLate, [Next]_vars
    PROVE  AnsweredLate'
  <1> SUFFICES ASSUME NEW r \in Requests, reply'[r] = <<"Timeout">>,
                      fut'[r] = "pending"
               PROVE  age'[r] > Timeout[r]
    BY DEF AnsweredLate
  <1>1. ASSUME reply[r] = <<"Timeout">>  PROVE age'[r] > Timeout[r]
    <2>1. fut[r] # "none"
      BY <1>1 DEF OnePlace, FuturesOK
    <2>2. fut[r] = "pending" /\ age'[r] >= age[r]
      BY <2>1, AgeStep
    <2>3. age[r] > Timeout[r]
      BY <1>1, <2>2 DEF AnsweredLate
    <2>4. age[r] \in Nat /\ age'[r] \in Nat /\ Timeout[r] \in Nat
      BY <2>1, AgeStep, TimesAssumption
    <2> QED
      BY <2>2, <2>3, <2>4
  <1>2. ASSUME NEW c \in Conns, NEW code \in Codes, Respond(c, code),
               hpc[c] \in {"read", "waiting"}, reply'[r] # reply[r]
        PROVE  r = cur[c] /\ reply'[r] = <<code>>
    <2>1. cur[c] \in Requests /\ reply[cur[c]] = <<>>
      BY <1>2 DEF TypeOK, OnePlace, HandlersOK
    <2>2. reply' = [reply EXCEPT ![cur[c]] = Append(@, code)]
      BY <1>2 DEF Respond
    <2>3. r = cur[c]
      BY <1>2, <2>2 DEF TypeOK
    <2>4. reply'[r] = Append(<<>>, code)
      BY <2>1, <2>2, <2>3 DEF TypeOK
    <2> QED
      BY <2>3, <2>4
  <1>3. ASSUME NEW c \in Conns, RejectFull(c), reply'[r] # reply[r]
        PROVE  FALSE
    <2>1. reply'[r] = <<"Internal">>
      BY <1>2, <1>3 DEF RejectFull, Codes
    <2>2. <<"Internal">> # <<"Timeout">>
      OBVIOUS
    <2> QED
      BY <2>1, <2>2
  <1>4. ASSUME NEW c \in Conns, AnswerResult(c), reply'[r] # reply[r]
        PROVE  FALSE
    <2>1. CodeOf[fut[cur[c]]] \in Codes /\ fut' = fut /\ fut[cur[c]] \in Settled
      BY <1>4 DEF AnswerResult, CodeOf, Codes, Settled, AllOutcomes
    <2>2. r = cur[c]
      BY <1>2, <1>4, <2>1 DEF AnswerResult
    <2> QED
      BY <2>1, <2>2 DEF Settled, AllOutcomes
  <1>5. ASSUME NEW c \in Conns, GiveUp(c), reply'[r] # reply[r]
        PROVE  age'[r] > Timeout[r]
    <2>1. r = cur[c]
      BY <1>2, <1>5 DEF GiveUp, Codes
    <2>2. /\ hpc[c] = "waiting" /\ waited[c] >= Timeout[r] + Grace
          /\ age' = age
      BY <1>5, <2>1 DEF GiveUp
    <2>3. age[r] >= waited[c] \/ age[r] > Timeout[r]
      BY <2>1, <2>2 DEF TimersOK
    <2>4. /\ age[r] \in Nat /\ waited[c] \in Nat /\ Timeout[r] \in Nat
          /\ Grace \in Nat \ {0}
      BY TimesAssumption DEF TypeOK
    <2> QED
      BY <2>2, <2>3, <2>4
  <1>6. ASSUME NEW c \in Conns, ClientStep(c) \/ HandlerStep(c),
               ~RejectFull(c), ~AnswerResult(c), ~GiveUp(c)
        PROVE  reply' = reply
    BY <1>6 DEF ClientStep, HandlerStep, Send, HangUp, SkipFrame, ReadFrame,
                EndOfStream, Enqueue
  <1>7. ASSUME NEW p \in Pumps, PumpStep(p)  PROVE reply' = reply
    BY <1>7 DEF PumpStep, Get, StopDraining, ReadClock, Expire, StartHandler,
                FinishHandler, connVars
  <1>8. CASE Tick \/ UNCHANGED vars
    BY <1>1, <1>8 DEF Tick, vars
  <1> QED
    BY <1>1, <1>3, <1>4, <1>5, <1>6, <1>7, <1>8 DEF Next

\* What is dead stays dead.
LEMMA DeadStep ==
    ASSUME TypeOK, OnePlace, [Next]_vars, NEW r \in Requests, Dead(r)
    PROVE  Dead(r)'
  <1>1. fut'[r] # "none" /\ age'[r] > Timeout[r]
    <2>1. /\ fut'[r] # "none" /\ age[r] \in Nat /\ age'[r] \in Nat
          /\ age'[r] >= age[r] /\ Timeout[r] \in Nat /\ age[r] > Timeout[r]
      BY AgeStep, TimesAssumption DEF Dead
    <2> QED
      BY <2>1
  <1> SUFFICES /\ ran'[r] = 0
               /\ \A q \in Pumps : r \in Elems(batch'[q]) =>
                     pc'[q] \in {"draining", "drained"} \/ r \in late'[q]
    BY <1>1 DEF Dead
  <1>2. /\ ran[r] = 0
        /\ \A q \in Pumps : r \in Elems(batch[q]) =>
              pc[q] \in {"draining", "drained"} \/ r \in late[q]
    BY DEF Dead
  <1>3. CASE UNCHANGED pumpVars
    BY <1>2, <1>3 DEF pumpVars
  <1>4. ASSUME NEW p \in Pumps, Get(p)
        PROVE  /\ ran' = ran /\ late' = late /\ pc' = pc /\ pc[p] = "draining"
               /\ \A q \in Pumps \ {p} : batch'[q] = batch[q]
    BY <1>4 DEF Get, TypeOK
  <1>5. ASSUME NEW p \in Pumps, StopDraining(p)
        PROVE  /\ ran' = ran /\ late' = late /\ batch' = batch
               /\ pc'[p] = "drained"
               /\ \A q \in Pumps \ {p} : pc'[q] = pc[q]
    BY <1>5 DEF StopDraining, TypeOK
  <1>6. ASSUME NEW p \in Pumps, ReadClock(p)
        PROVE  /\ ran' = ran /\ batch' = batch
               /\ r \in Elems(batch[p]) => r \in late'[p]
               /\ \A q \in Pumps \ {p} : pc'[q] = pc[q] /\ late'[q] = late[q]
    <2>1. age[r] > Timeout[r]
      BY DEF Dead
    <2> QED
      BY <1>6, <2>1 DEF ReadClock, TypeOK
  <1>7. ASSUME NEW p \in Pumps, StartHandler(p)
        PROVE  /\ ran'[r] = 0 /\ batch' = batch /\ late' = late
               /\ r \in Elems(batch[p]) => r \in late[p]
               /\ \A q \in Pumps \ {p} : pc'[q] = pc[q]
    <2>1. /\ pc[p] = "looping" /\ Head(batch[p]) \notin late[p]
          /\ ran' = [ran EXCEPT ![Head(batch[p])] = @ + 1]
          /\ pc' = [pc EXCEPT ![p] = "running"]
          /\ batch' = batch /\ late' = late
      BY <1>7 DEF StartHandler
    <2>2. Head(batch[p]) \in Elems(batch[p]) /\ Head(batch[p]) \in Requests
      BY <2>1, TailFacts DEF TypeOK
    <2>3. r # Head(batch[p])
      BY <1>2, <2>1, <2>2
    <2> QED
      BY <1>2, <2>1, <2>2, <2>3 DEF TypeOK
  <1>8. ASSUME NEW p \in Pumps, NextCommand(p), pc[p] \in {"looping", "running"}
        PROVE  /\ r \in Elems(batch'[p]) => r \in late'[p]
               /\ \A q \in Pumps \ {p} : /\ pc'[q] = pc[q]
                                         /\ batch'[q] = batch[q]
                                         /\ late'[q] = late[q]
    <2>1. batch[p] \in Seq(Requests) /\ batch[p] # <<>> /\ Inj(batch[p])
      BY <1>8 DEF TypeOK, OnePlace, BatchesOK
    <2>2. /\ batch'[p] = Tail(batch[p])
          /\ late'[p] = late[p] \ {Head(batch[p])}
          /\ \A q \in Pumps \ {p} : /\ pc'[q] = pc[q]
                                    /\ batch'[q] = batch[q]
                                    /\ late'[q] = late[q]
      BY <1>8 DEF NextCommand, TypeOK
    <2>3. /\ Elems(Tail(batch[p])) \subseteq Elems(batch[p])
          /\ Head(batch[p]) \notin Elems(Tail(batch[p]))
      BY <2>1, TailFacts
    <2> QED
      BY <1>2, <1>8, <2>2, <2>3
  <1>9. ASSUME NEW p \in Pumps,
               Expire(p) \/ \E o \in Outcomes : FinishHandler(p, o)
        PROVE  /\ NextCommand(p) /\ pc[p] \in {"looping", "running"}
               /\ ran' = ran
    BY <1>9 DEF Expire, FinishHandler
  <1>10. ASSUME NEW c \in Conns, ClientStep(c) \/ HandlerStep(c)
         PROVE  UNCHANGED pumpVars
    BY <1>10 DEF ClientStep, HandlerStep, Send, HangUp, SkipFrame, ReadFrame,
                 EndOfStream, Enqueue, RejectFull, AnswerResult, GiveUp
  <1>11. CASE Tick \/ UNCHANGED vars
    BY <1>3, <1>11 DEF Tick, vars, pumpVars
  <1>12. ASSUME NEW p \in Pumps, PumpStep(p)
         PROVE  /\ ran'[r] = 0
                /\ \A q \in Pumps : r \in Elems(batch'[q]) =>
                      pc'[q] \in {"draining", "drained"} \/ r \in late'[q]
    <2>1. CASE Get(p)
      BY <1>2, <1>4, <2>1
    <2>2. CASE StopDraining(p)
      BY <1>2, <1>5, <2>2
    <2>3. CASE ReadClock(p)
      BY <1>2, <1>6, <2>3
    <2>4. CASE StartHandler(p)
      BY <1>2, <1>7, <2>4
    <2>5. CASE Expire(p) \/ \E o \in Outcomes : FinishHandler(p, o)
      <3>1. /\ NextCommand(p) /\ pc[p] \in {"looping", "running"}
            /\ ran' = ran
        BY <1>9, <2>5
      <3> QED
        BY <1>2, <1>8, <3>1
    <2> QED
      BY <1>12, <2>1, <2>2, <2>3, <2>4, <2>5 DEF PumpStep
  <1> QED
    BY <1>3, <1>10, <1>11, <1>12 DEF Next

\* A command still in the queue when its client was told Timeout is past its
\* deadline, so that no pump starts it, now or later.
THEOREM TimedOutInQueueIsDead == Spec => DeadInQueue
  <1> SUFFICES ASSUME NEW r \in Requests
               PROVE  Spec => [](reply[r] = <<"Timeout">> /\ r \in Elems(queue)
                                    => [](ran[r] = 0))
    BY DEF DeadInQueue
  <1>1. Init => TimedInv
    <2>1. ASSUME Init PROVE AnsweredLate /\ TimersOK
      <3>1. <<>> # <<"Timeout">>
        OBVIOUS
      <3> QED
        BY <2>1, <3>1 DEF Init, AnsweredLate, TimersOK
    <2> QED
      BY <2>1, TypeInit, OnePlaceInit DEF TimedInv
  <1>2. TimedInv /\ [Next]_vars => TimedInv'
    BY TypeStep, OnePlaceStep, TimersStep, AnsweredLateStep DEF TimedInv
  <1>3. TimedInv /\ reply[r] = <<"Timeout">> /\ r \in Elems(queue) => Dead(r)
    BY DEF TimedInv, OnePlace, QueueOK, AnsweredLate, Dead
  <1>4. TimedInv /\ Dead(r) /\ [Next]_vars => Dead(r)'
    BY DeadStep DEF TimedInv
  <1>5. Dead(r) => ran[r] = 0
    BY DEF Dead
  <1> QED
    BY <1>1, <1>2, <1>3, <1>4, <1>5, PTL DEF Spec
=============================================================================
