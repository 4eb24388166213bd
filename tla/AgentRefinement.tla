-------------------------- MODULE AgentRefinement --------------------------
(***************************************************************************)
(* Agent, with its threads, its queue and its clock, implements            *)
(* RequestService, for every set of connections, requests and pumps and    *)
(* every queue, batch and timeout.                                         *)
(***************************************************************************)
EXTENDS AgentProofs

InBatch(r) == \E p \in Pumps : r \in Elems(batch[p])
Known(r) == r \in Elems(queue) \/ InBatch(r)
Running(r) == \E p \in Pumps : pc[p] = "running" /\ r = Head(batch[p])

(***************************************************************************)
(* What OnePlace does not say: a future that is pending has its command    *)
(* somewhere, so that a handler thread never waits for one that was lost.  *)
(***************************************************************************)
PendingIsSomewhere ==
    \A r \in Requests : fut[r] = "pending" =>
        Known(r) \/ \E c \in Conns : hpc[c] = "read" /\ cur[c] = r

OutcomesOK ==
    \A r \in Requests :
        fut[r] \in {"none", "pending", "dropped", "expired"} \cup Outcomes

\* Stage, by the place of the command.
StageOK ==
    \A r \in Requests :
        /\ fut[r] \in Settled => Stage(r) = fut[r]
        /\ fut[r] = "dropped" => Stage(r) = "refused"
        /\ Running(r) => Stage(r) = "running" /\ InBatch(r)
        /\ Known(r) => fut[r] = "pending"
        /\ Known(r) /\ ~Running(r) => Stage(r) = "accepted"
        /\ fut[r] \in {"none", "pending"} /\ ~Known(r) => Stage(r) = "new"

\* The stage of every request follows from where its command is.
LEMMA StageIs == TypeOK /\ OnePlace => StageOK
  <1> SUFFICES ASSUME TypeOK, OnePlace, NEW r \in Requests
               PROVE  /\ fut[r] \in Settled => Stage(r) = fut[r]
                      /\ fut[r] = "dropped" => Stage(r) = "refused"
                      /\ Running(r) => Stage(r) = "running" /\ InBatch(r)
                      /\ Known(r) => fut[r] = "pending"
                      /\ Known(r) /\ ~Running(r) => Stage(r) = "accepted"
                      /\ fut[r] \in {"none", "pending"} /\ ~Known(r)
                            => Stage(r) = "new"
    BY DEF StageOK
  <1>1. Running(r) => InBatch(r)
    <2>1. ASSUME NEW p \in Pumps, pc[p] = "running", r = Head(batch[p])
          PROVE  r \in Elems(batch[p])
      BY <2>1, TailFacts DEF TypeOK
    <2> QED
      BY <2>1 DEF Running, InBatch
  <1>2. Known(r) => fut[r] = "pending"
    BY DEF Known, InBatch, OnePlace, QueueOK, BatchesOK
  <1>3. Stage(r) = IF fut[r] \in Settled THEN fut[r]
                   ELSE IF fut[r] = "dropped" THEN "refused"
                   ELSE IF Running(r) THEN "running"
                   ELSE IF Known(r) THEN "accepted" ELSE "new"
    BY DEF Stage, Running, Known, InBatch
  <1>4. {"pending", "none", "dropped"} \cap Settled = {}
    BY DEF Settled, AllOutcomes
  <1> QED
    BY <1>1, <1>2, <1>3, <1>4 DEF Known

RInv == TypeOK /\ OnePlace /\ StageOK /\ PendingIsSomewhere /\ OutcomesOK

\* The variable st of RequestService.
Stages == [r \in Requests |-> Stage(r)]

\* A command whose place and future are what they were is at the same stage.
LEMMA SameStage ==
    ASSUME TypeOK, StageOK, StageOK', NEW r \in Requests, fut'[r] = fut[r],
           Running(r)' <=> Running(r), Known(r)' <=> Known(r)
    PROVE  Stage(r)' = Stage(r)
  <1>1. fut[r] \in Settled \cup {"dropped", "none", "pending"}
    BY DEF TypeOK
  <1> QED
    BY <1>1 DEF StageOK

\* When one request changes its stage, so does the function.
LEMMA OneStage ==
    ASSUME NEW r \in Requests, NEW s, Stage(r)' = s,
           \A q \in Requests : q # r => Stage(q)' = Stage(q)
    PROVE  Stages' = [Stages EXCEPT ![r] = s]
  BY DEF Stages

\* What most steps leave alone: futures, the queue and the pumps.
LEMMA NoStage ==
    ASSUME RInv, StageOK', UNCHANGED <<fut, queue, pc, batch>>
    PROVE  Stages' = Stages
  <1>1. ASSUME NEW r \in Requests PROVE Stage(r)' = Stage(r)
    BY DEF Stage
  <1> QED
    BY <1>1 DEF Stages

-----------------------------------------------------------------------------
(* Steps of RequestService, in terms of the mapping.                       *)

ServiceStep == Service!Next \/ UNCHANGED Service!vars

\* A step that changes neither stages nor responses is a stutter.
LEMMA Stutters ==
    ASSUME Stages' = Stages, reply' = reply
    PROVE  ServiceStep
  BY DEF ServiceStep, Service!vars, Stages

\* A change of one stage that the service allows is a step of the service.
LEMMA Advances ==
    ASSUME NEW r \in Requests, NEW s, Stages' = [Stages EXCEPT ![r] = s],
           reply' = reply,
           \/ Stage(r) = "new" /\ s = "accepted"
           \/ Stage(r) = "accepted" /\ s \in {"running", "expired"}
           \/ Stage(r) = "running" /\ s \in Outcomes
    PROVE  ServiceStep
  <1>1. Stages[r] = Stage(r)
    BY DEF Stages
  <1>2. CASE Stage(r) = "new" /\ s = "accepted"
    <2>1. Service!Accept(r)
      BY <1>1, <1>2 DEF Service!Accept, Service!Becomes, Stages
    <2> QED
      BY <2>1 DEF ServiceStep, Service!Next
  <1>3. CASE Stage(r) = "accepted" /\ s = "running"
    <2>1. Service!Run(r)
      BY <1>1, <1>3 DEF Service!Run, Service!Becomes, Stages
    <2> QED
      BY <2>1 DEF ServiceStep, Service!Next
  <1>4. CASE Stage(r) = "accepted" /\ s = "expired"
    <2>1. Service!Expire(r)
      BY <1>1, <1>4 DEF Service!Expire, Service!Becomes, Stages
    <2> QED
      BY <2>1 DEF ServiceStep, Service!Next
  <1>5. CASE Stage(r) = "running" /\ s \in Outcomes
    <2>1. Service!Finish(r, s)
      BY <1>1, <1>5 DEF Service!Finish, Service!Becomes, Stages
    <2> QED
      BY <1>5, <2>1 DEF ServiceStep, Service!Next
  <1> QED
    BY <1>2, <1>3, <1>4, <1>5

\* What a response does to reply, for a request that had none.
LEMMA Responds ==
    ASSUME RInv, NEW c \in Conns, hpc[c] \in {"read", "waiting"},
           NEW code, Respond(c, code)
    PROVE  /\ cur[c] \in Requests /\ reply[cur[c]] = <<>>
           /\ \/ reply' = reply
              \/ reply' = [reply EXCEPT ![cur[c]] = <<code>>]
  <1>1. cur[c] \in Requests /\ reply[cur[c]] = <<>>
    BY DEF RInv, TypeOK, OnePlace, HandlersOK
  <1>2. Append(<<>>, code) = <<code>>
    OBVIOUS
  <1> QED
    BY <1>1, <1>2 DEF Respond, RInv, TypeOK

\* The response with a result tells a stage that is reached.
LEMMA AnswerResultServes ==
    ASSUME RInv, StageOK', NEW c \in Conns, AnswerResult(c)
    PROVE  ServiceStep
  <1> DEFINE r == cur[c]
  <1>1. /\ hpc[c] = "waiting" /\ fut[r] \in Settled
        /\ Respond(c, CodeOf[fut[r]]) /\ UNCHANGED <<fut, queue, pc, batch>>
    BY DEF AnswerResult, pumpVars
  <1>2. /\ r \in Requests /\ reply[r] = <<>>
        /\ reply' = reply \/ reply' = [reply EXCEPT ![r] = <<CodeOf[fut[r]]>>]
    BY <1>1, Responds
  <1>3. Stages' = Stages
    BY <1>1, NoStage
  <1>4. CASE reply' = reply
    BY <1>3, <1>4, Stutters
  <1>5. CASE reply' = [reply EXCEPT ![r] = <<CodeOf[fut[r]]>>]
    <2>1. Stage(r) = fut[r] /\ fut[r] \in Outcomes \cup {"expired"}
      BY <1>1, <1>2 DEF RInv, StageOK, OutcomesOK, Settled, AllOutcomes
    <2>2. CodeOf[fut[r]] = Service!Code(fut[r])
      BY <1>1 DEF CodeOf, Service!Code
    <2>3. Service!Answer(r)
      BY <1>2, <1>3, <1>5, <2>1, <2>2
      DEF Service!Answer, Service!Tell, Stages
    <2> QED
      BY <1>2, <2>3 DEF ServiceStep, Service!Next
  <1> QED
    BY <1>2, <1>4, <1>5

\* A handler thread gives up only on a command that was accepted and is still
\* queued, drained or running.
LEMMA GiveUpServes ==
    ASSUME RInv, StageOK', NEW c \in Conns, GiveUp(c)
    PROVE  ServiceStep
  <1> DEFINE r == cur[c]
  <1>1. /\ hpc[c] = "waiting" /\ fut[r] = "pending"
        /\ Respond(c, "Timeout") /\ UNCHANGED <<fut, queue, pc, batch>>
    BY DEF GiveUp, pumpVars
  <1>2. /\ r \in Requests /\ reply[r] = <<>>
        /\ reply' = reply \/ reply' = [reply EXCEPT ![r] = <<"Timeout">>]
    BY <1>1, Responds
  <1>3. Stages' = Stages
    BY <1>1, NoStage
  <1>4. CASE reply' = reply
    BY <1>3, <1>4, Stutters
  <1>5. CASE reply' = [reply EXCEPT ![r] = <<"Timeout">>]
    <2>1. \A d \in Conns : hpc[d] = "read" => cur[d] # r
      BY <1>1, <1>2, NamesAssumption DEF RInv, OnePlace, HandlersOK
    <2>2. Known(r)
      BY <1>1, <1>2, <2>1 DEF RInv, PendingIsSomewhere
    <2>3. Stage(r) \in {"accepted", "running"}
      BY <1>2, <2>2 DEF RInv, StageOK
    <2>4. Service!GiveUp(r)
      BY <1>2, <1>3, <1>5, <2>3 DEF Service!GiveUp, Service!Tell, Stages
    <2> QED
      BY <1>2, <2>4 DEF ServiceStep, Service!Next
  <1> QED
    BY <1>2, <1>4, <1>5

\* A full queue refuses a command that nobody has seen.
LEMMA RejectFullServes ==
    ASSUME RInv, StageOK', NEW c \in Conns, RejectFull(c)
    PROVE  ServiceStep
  <1> PICK r \in Requests : r = cur[c]
    BY DEF RejectFull, RInv, TypeOK
  <1>1. /\ hpc[c] = "read" /\ Respond(c, "Internal")
        /\ fut' = [fut EXCEPT ![r] = "dropped"]
        /\ UNCHANGED <<queue, pc, batch>>
    BY DEF RejectFull, pumpVars
  <1>2. /\ reply[r] = <<>>
        /\ reply' = reply \/ reply' = [reply EXCEPT ![r] = <<"Internal">>]
    BY <1>1, Responds
  <1>3. fut[r] = "pending" /\ ~Known(r) /\ fut'[r] = "dropped"
    BY <1>1, <1>2
    DEF RInv, TypeOK, OnePlace, HandlersOK, Known, InBatch
  <1>4. Stage(r) = "new" /\ Stage(r)' = "refused"
    BY <1>2, <1>3 DEF RInv, StageOK
  <1>5. \A q \in Requests : q # r => Stage(q)' = Stage(q)
    <2>1. SUFFICES ASSUME NEW q \in Requests, q # r
                   PROVE  Stage(q)' = Stage(q)
      OBVIOUS
    <2>2. fut'[q] = fut[q]
      BY <1>1, <2>1 DEF RInv, TypeOK
    <2> QED
      BY <1>1, <2>2 DEF Stage
  <1>6. Stages' = [Stages EXCEPT ![r] = "refused"]
    BY <1>2, <1>4, <1>5, OneStage
  <1>7. Service!Refuse(r)
    BY <1>2, <1>4, <1>6
    DEF Service!Refuse, Service!Becomes, Service!Tell, Stages
  <1> QED
    BY <1>2, <1>7 DEF ServiceStep, Service!Next

\* A step that touches the future and the place of one command only.
LEMMA OneMoves ==
    ASSUME RInv, StageOK', NEW r \in Requests, NEW s, Stage(r)' = s,
           \A q \in Requests : q # r =>
              /\ fut'[q] = fut[q] /\ (Running(q)' <=> Running(q))
              /\ (Known(q)' <=> Known(q))
    PROVE  Stages' = [Stages EXCEPT ![r] = s]
  <1>1. ASSUME NEW q \in Requests, q # r PROVE Stage(q)' = Stage(q)
    BY <1>1, SameStage DEF RInv
  <1> QED
    BY <1>1, OneStage

\* Queueing a command accepts it.
LEMMA EnqueueServes ==
    ASSUME RInv, StageOK', NEW c \in Conns, Enqueue(c)
    PROVE  ServiceStep
  <1> PICK r \in Requests : r = cur[c]
    BY DEF Enqueue, RInv, TypeOK
  <1>1. /\ hpc[c] = "read" /\ queue' = Append(queue, r)
        /\ UNCHANGED <<fut, pc, batch, reply>>
    BY DEF Enqueue, pumpVars
  <1>2. Elems(queue') = Elems(queue) \cup {r}
    BY <1>1, AppendFacts DEF RInv, TypeOK
  <1>3. fut[r] = "pending" /\ ~Known(r) /\ ~InBatch(r)
    BY <1>1 DEF RInv, TypeOK, OnePlace, HandlersOK, Known, InBatch
  <1>4. /\ \A q \in Requests : Running(q)' <=> Running(q)
        /\ \A q \in Requests : InBatch(q)' <=> InBatch(q)
        /\ \A q \in Requests : Known(q)' <=> Known(q) \/ q = r
    BY <1>1, <1>2 DEF Running, InBatch, Known
  <1>5. Stage(r) = "new" /\ Stage(r)' = "accepted"
    <2>1. ~Running(r)
      BY <1>3 DEF RInv, StageOK
    <2> QED
      BY <1>3, <1>4, <2>1 DEF RInv, StageOK
  <1>6. Stages' = [Stages EXCEPT ![r] = "accepted"]
    BY <1>1, <1>4, <1>5, OneMoves
  <1> QED
    BY <1>1, <1>5, <1>6, Advances

\* Taking a command from the queue is no step of the service.
LEMMA GetServes ==
    ASSUME RInv, StageOK', NEW p \in Pumps, Get(p)
    PROVE  ServiceStep
  <1> PICK r \in Requests : r = Head(queue)
    BY TailFacts DEF Get, RInv, TypeOK
  <1>1. /\ pc[p] = "draining" /\ queue # <<>> /\ queue' = Tail(queue)
        /\ batch' = [batch EXCEPT ![p] = Append(@, r)]
        /\ UNCHANGED <<fut, pc, reply>>
    BY DEF Get, connVars
  <1>2. Elems(queue) = Elems(queue') \cup {r}
    BY <1>1, TailFacts DEF RInv, TypeOK
  <1>3. /\ Elems(batch'[p]) = Elems(batch[p]) \cup {r}
        /\ \A q \in Pumps : q # p => batch'[q] = batch[q]
    BY <1>1, AppendFacts DEF RInv, TypeOK
  <1>4. \A q \in Requests : Running(q)' <=> Running(q)
    BY <1>1, <1>3 DEF Running
  <1>5. \A q \in Requests : Known(q)' <=> Known(q)
    BY <1>2, <1>3 DEF Known, InBatch
  <1>6. \A q \in Requests : Stage(q)' = Stage(q)
    BY <1>1, <1>4, <1>5, SameStage DEF RInv
  <1> QED
    BY <1>1, <1>6, Stutters DEF Stages

\* Calling the handler starts the command.
LEMMA StartHandlerServes ==
    ASSUME RInv, StageOK', NEW p \in Pumps, StartHandler(p)
    PROVE  ServiceStep
  <1> PICK r \in Requests : r = Head(batch[p])
    BY TailFacts DEF StartHandler, RInv, TypeOK
  <1>1. /\ pc[p] = "looping" /\ pc' = [pc EXCEPT ![p] = "running"]
        /\ UNCHANGED <<fut, queue, batch, reply>>
    BY DEF StartHandler, connVars
  <1>2. r \in Elems(batch[p])
    BY <1>1, TailFacts DEF RInv, TypeOK
  <1>3. ~Running(r)
    <2>1. ASSUME NEW q \in Pumps, pc[q] = "running", r = Head(batch[q])
          PROVE  FALSE
      <3>1. r \in Elems(batch[q])
        BY <2>1, TailFacts DEF RInv, TypeOK
      <3>2. q = p
        BY <1>2, <3>1 DEF RInv, OnePlace, BatchesOK
      <3> QED
        BY <1>1, <2>1, <3>2
    <2> QED
      BY <2>1 DEF Running
  <1>4. Known(r)
    BY <1>2 DEF Known, InBatch
  <1>5. /\ Running(r)'
        /\ \A q \in Requests : q # r => (Running(q)' <=> Running(q))
    BY <1>1 DEF Running, RInv, TypeOK
  <1>6. \A q \in Requests : Known(q)' <=> Known(q)
    BY <1>1 DEF Known, InBatch
  <1>7. Stage(r) = "accepted" /\ Stage(r)' = "running"
    BY <1>3, <1>4, <1>5 DEF RInv, StageOK
  <1>8. Stages' = [Stages EXCEPT ![r] = "running"]
    BY <1>1, <1>5, <1>6, <1>7, OneMoves
  <1> QED
    BY <1>1, <1>7, <1>8, Advances

\* The command that is settled leaves its batch, and no other moves.
LEMMA SettleServes ==
    ASSUME RInv, StageOK', NEW p \in Pumps, NEW f,
           \/ pc[p] = "looping" /\ f = "expired"
           \/ pc[p] = "running" /\ f \in Outcomes,
           Settle(Head(batch[p]), f), NextCommand(p),
           UNCHANGED <<connVars, queue>>
    PROVE  ServiceStep
  <1> PICK r \in Requests : r = Head(batch[p])
    BY TailFacts DEF RInv, TypeOK
  <1>1. /\ batch' = [batch EXCEPT ![p] = Tail(@)] /\ batch[p] # <<>>
        /\ \E s \in {"draining", "looping"} : pc' = [pc EXCEPT ![p] = s]
        /\ UNCHANGED <<queue, reply>> /\ f \in Settled
    BY OutcomesAssumption DEF NextCommand, connVars, RInv, TypeOK, Settled
  <1>2. /\ r \in Elems(batch[p])
        /\ Elems(batch[p]) = Elems(batch'[p]) \cup {r}
        /\ r \notin Elems(batch'[p])
        /\ \A q \in Pumps : q # p => batch'[q] = batch[q]
    BY <1>1, TailFacts DEF RInv, TypeOK, OnePlace, BatchesOK
  <1>3. fut[r] = "pending" /\ \A q \in Pumps : r \in Elems(batch[q]) => q = p
    BY <1>2 DEF RInv, OnePlace, BatchesOK
  <1>4. fut' = [fut EXCEPT ![r] = f]
    BY <1>3 DEF Settle
  <1>5. \A q \in Requests : q # r => (Known(q)' <=> Known(q))
    BY <1>1, <1>2 DEF Known, InBatch
  <1>6. pc'[p] # "running" /\ \A q \in Pumps : q # p => pc'[q] = pc[q]
    BY <1>1 DEF RInv, TypeOK
  <1>7. \A q \in Requests : q # r => (Running(q)' <=> Running(q))
    BY <1>2, <1>6 DEF Running
  <1>8. fut'[r] = f /\ \A q \in Requests : q # r => fut'[q] = fut[q]
    BY <1>4 DEF RInv, TypeOK
  <1>9. Stage(r)' = f
    BY <1>1, <1>8 DEF StageOK
  <1>10. Stages' = [Stages EXCEPT ![r] = f]
    BY <1>5, <1>7, <1>8, <1>9, OneMoves
  <1>11. pc[p] = "running" => Running(r)
    BY DEF Running
  <1>12. pc[p] = "looping" => ~Running(r) /\ Known(r)
    <2>1. ASSUME NEW q \in Pumps, pc[q] = "running", r = Head(batch[q])
          PROVE  q = p
      <3>1. r \in Elems(batch[q])
        BY <2>1, TailFacts DEF RInv, TypeOK
      <3> QED
        BY <1>3, <3>1
    <2> QED
      BY <1>2, <2>1 DEF Running, Known, InBatch
  <1>13. \/ Stage(r) = "accepted" /\ f = "expired"
         \/ Stage(r) = "running" /\ f \in Outcomes
    BY <1>11, <1>12 DEF RInv, StageOK
  <1> QED
    BY <1>1, <1>10, <1>13, Advances

\* Steps of the client, of the clock and of threads that only look change no
\* stage.
LEMMA QuietServes ==
    ASSUME RInv, StageOK'
    PROVE  /\ \A c \in Conns :
                 \/ ClientStep(c) \/ SkipFrame(c) \/ ReadFrame(c)
                 \/ EndOfStream(c)
                 => ServiceStep
           /\ \A p \in Pumps : StopDraining(p) \/ ReadClock(p) => ServiceStep
           /\ Tick \/ UNCHANGED vars => ServiceStep
  <1>1. ASSUME NEW c \in Conns,
               ClientStep(c) \/ SkipFrame(c) \/ EndOfStream(c)
        PROVE  ServiceStep
    <2>1. UNCHANGED <<fut, queue, pc, batch, reply>>
      BY <1>1 DEF ClientStep, HangUp, Send, SkipFrame, EndOfStream, pumpVars
    <2> QED
      BY <2>1, NoStage, Stutters
  <1>2. ASSUME NEW c \in Conns, ReadFrame(c) PROVE ServiceStep
    <2> PICK r \in Requests : r = Head(wire[c])
      BY <1>2, TailFacts DEF ReadFrame, RInv, TypeOK
    <2>1. /\ wire[c] # <<>> /\ fut' = [fut EXCEPT ![r] = "pending"]
          /\ UNCHANGED <<queue, pc, batch, reply>>
      BY <1>2 DEF ReadFrame, pumpVars
    <2>2. fut[r] = "none"
      BY <2>1, TailFacts DEF RInv, TypeOK, OnePlace, FramesOK
    <2>3. \A q \in Requests :
             (Running(q)' <=> Running(q)) /\ (Known(q)' <=> Known(q))
      BY <2>1 DEF Running, Known, InBatch
    <2>4. Stage(r) = "new" /\ Stage(r)' = "new"
      BY <2>1, <2>2, <2>3 DEF RInv, StageOK, TypeOK
    <2>5. \A q \in Requests : q # r => fut'[q] = fut[q]
      BY <2>1 DEF RInv, TypeOK
    <2>6. \A q \in Requests : Stage(q)' = Stage(q)
      BY <2>3, <2>4, <2>5, SameStage DEF RInv
    <2> QED
      BY <2>1, <2>6, Stutters DEF Stages
  <1>3. ASSUME NEW p \in Pumps, StopDraining(p) \/ ReadClock(p)
        PROVE  ServiceStep
    <2>1. /\ pc[p] # "running"
          /\ \E s \in {"drained", "looping"} : pc' = [pc EXCEPT ![p] = s]
          /\ UNCHANGED <<fut, queue, batch, reply>>
      BY <1>3 DEF StopDraining, ReadClock, connVars
    <2>2. \A q \in Requests :
             (Running(q)' <=> Running(q)) /\ (Known(q)' <=> Known(q))
      BY <2>1 DEF Running, Known, InBatch, RInv, TypeOK
    <2>3. \A q \in Requests : Stage(q)' = Stage(q)
      BY <2>1, <2>2, SameStage DEF RInv
    <2> QED
      BY <2>1, <2>3, Stutters DEF Stages
  <1>4. ASSUME Tick \/ UNCHANGED vars PROVE ServiceStep
    <2>1. UNCHANGED <<fut, queue, pc, batch, reply>>
      BY <1>4 DEF Tick, vars, pumpVars
    <2> QED
      BY <2>1, NoStage, Stutters
  <1> QED
    BY <1>1, <1>2, <1>3, <1>4

-----------------------------------------------------------------------------
(* The two conjuncts that OnePlace lacks.                                  *)

\* A pending command moves on to the queue, from there to a batch, and leaves
\* it settled.
LEMMA PlacesStep ==
    ASSUME TypeOK, OnePlace, PendingIsSomewhere, OutcomesOK, [Next]_vars
    PROVE  PendingIsSomewhere' /\ OutcomesOK'
  <1>1. ASSUME UNCHANGED <<hpc, cur, fut, queue, batch>>
        PROVE  PendingIsSomewhere' /\ OutcomesOK'
    BY <1>1 DEF PendingIsSomewhere, OutcomesOK, Known, InBatch
  <1>2. ASSUME NEW c \in Conns, ReadFrame(c)
        PROVE  PendingIsSomewhere' /\ OutcomesOK'
    <2> PICK r \in Requests : r = Head(wire[c])
      BY <1>2, TailFacts DEF ReadFrame, TypeOK
    <2>1. /\ hpc[c] = "reading" /\ hpc' = [hpc EXCEPT ![c] = "read"]
          /\ cur' = [cur EXCEPT ![c] = r]
          /\ fut' = [fut EXCEPT ![r] = "pending"]
          /\ UNCHANGED <<queue, batch>>
      BY <1>2 DEF ReadFrame, pumpVars
    <2>2. hpc'[c] = "read" /\ cur'[c] = r
      BY <2>1 DEF TypeOK
    <2>3. ASSUME NEW d \in Conns, d # c
          PROVE  hpc'[d] = hpc[d] /\ cur'[d] = cur[d]
      BY <2>1, <2>3 DEF TypeOK
    <2>4. ASSUME NEW q \in Requests
          PROVE  /\ Known(q)' <=> Known(q)
                 /\ q = r => fut'[q] = "pending"
                 /\ q # r => fut'[q] = fut[q]
      BY <2>1 DEF TypeOK, Known, InBatch
    <2>5. PendingIsSomewhere'
      BY <2>1, <2>2, <2>3, <2>4 DEF PendingIsSomewhere
    <2>6. OutcomesOK'
      BY <2>4 DEF OutcomesOK
    <2> QED
      BY <2>5, <2>6
  <1>3. ASSUME NEW c \in Conns, EndOfStream(c)
        PROVE  PendingIsSomewhere' /\ OutcomesOK'
    <2>1. /\ hpc[c] = "reading" /\ hpc' = [hpc EXCEPT ![c] = "ended"]
          /\ UNCHANGED <<cur, fut, queue, batch>>
      BY <1>3 DEF EndOfStream, pumpVars
    <2> QED
      BY <2>1 DEF TypeOK, PendingIsSomewhere, OutcomesOK, Known, InBatch
  <1>4. ASSUME NEW c \in Conns, Enqueue(c)
        PROVE  PendingIsSomewhere' /\ OutcomesOK'
    <2> PICK r \in Requests : r = cur[c]
      BY <1>4 DEF Enqueue, TypeOK
    <2>1. /\ hpc' = [hpc EXCEPT ![c] = "waiting"]
          /\ queue' = Append(queue, r)
          /\ UNCHANGED <<cur, fut, batch>>
      BY <1>4 DEF Enqueue, pumpVars
    <2>2. Elems(queue') = Elems(queue) \cup {r}
      BY <2>1, AppendFacts DEF TypeOK
    <2> QED
      BY <2>1, <2>2
      DEF TypeOK, PendingIsSomewhere, OutcomesOK, Known, InBatch
  <1>5. ASSUME NEW c \in Conns, RejectFull(c)
        PROVE  PendingIsSomewhere' /\ OutcomesOK'
    <2> PICK r \in Requests : r = cur[c]
      BY <1>5 DEF RejectFull, TypeOK
    <2>1. /\ \E s \in {"reading", "ended"} : hpc' = [hpc EXCEPT ![c] = s]
          /\ cur' = [cur EXCEPT ![c] = NoReq]
          /\ fut' = [fut EXCEPT ![r] = "dropped"]
          /\ UNCHANGED <<queue, batch>>
      BY <1>5 DEF RejectFull, Respond, pumpVars
    <2>2. fut'[r] = "dropped" /\ \A q \in Requests : q # r => fut'[q] = fut[q]
      BY <2>1 DEF TypeOK
    <2>3. OutcomesOK'
      BY <2>2 DEF OutcomesOK
    <2>4. \A d \in Conns, q \in Requests :
             (hpc[d] = "read" /\ cur[d] = q /\ q # r)
                => (hpc'[d] = "read" /\ cur'[d] = q)
      BY <2>1 DEF TypeOK
    <2>5. PendingIsSomewhere'
      BY <2>1, <2>2, <2>4 DEF PendingIsSomewhere, Known, InBatch
    <2> QED
      BY <2>3, <2>5
  <1>6. ASSUME NEW c \in Conns, AnswerResult(c) \/ GiveUp(c)
        PROVE  PendingIsSomewhere' /\ OutcomesOK'
    <2>1. /\ hpc[c] = "waiting"
          /\ \E s \in {"reading", "ended"} : hpc' = [hpc EXCEPT ![c] = s]
          /\ cur' = [cur EXCEPT ![c] = NoReq]
          /\ UNCHANGED <<fut, queue, batch>>
      BY <1>6 DEF AnswerResult, GiveUp, Respond, pumpVars
    <2> QED
      BY <2>1 DEF TypeOK, PendingIsSomewhere, OutcomesOK, Known, InBatch
  <1>7. ASSUME NEW p \in Pumps, Get(p)
        PROVE  PendingIsSomewhere' /\ OutcomesOK'
    <2>1. /\ queue # <<>> /\ queue' = Tail(queue)
          /\ batch' = [batch EXCEPT ![p] = Append(@, Head(queue))]
          /\ UNCHANGED <<hpc, cur, fut>>
      BY <1>7 DEF Get, connVars
    <2>2. /\ Elems(queue) = Elems(queue') \cup {Head(queue)}
          /\ Head(queue) \in Requests
      BY <2>1, TailFacts DEF TypeOK
    <2>3. /\ Elems(batch'[p]) = Elems(batch[p]) \cup {Head(queue)}
          /\ \A q \in Pumps : q # p => batch'[q] = batch[q]
      BY <2>1, <2>2, AppendFacts DEF TypeOK
    <2> QED
      BY <2>1, <2>2, <2>3 DEF PendingIsSomewhere, OutcomesOK, Known, InBatch
  <1>8. ASSUME NEW p \in Pumps, NEW f \in Outcomes \cup {"expired"},
               pc[p] \in {"looping", "running"},
               Settle(Head(batch[p]), f), NextCommand(p),
               UNCHANGED <<connVars, queue>>
        PROVE  PendingIsSomewhere' /\ OutcomesOK'
    <2> PICK r \in Requests : r = Head(batch[p])
      BY <1>8, TailFacts DEF TypeOK
    <2>1. /\ batch[p] # <<>> /\ batch' = [batch EXCEPT ![p] = Tail(@)]
          /\ UNCHANGED <<hpc, cur, queue>>
      BY <1>8 DEF NextCommand, connVars, TypeOK
    <2>2. /\ Elems(batch[p]) = Elems(batch'[p]) \cup {r}
          /\ r \in Elems(batch[p])
          /\ \A q \in Pumps : q # p => batch'[q] = batch[q]
      BY <2>1, TailFacts DEF TypeOK
    <2>3. fut' = [fut EXCEPT ![r] = f]
      BY <1>8, <2>2 DEF Settle, OnePlace, BatchesOK
    <2>4. fut'[r] = f /\ \A q \in Requests : q # r => fut'[q] = fut[q]
      BY <2>3 DEF TypeOK
    <2>5. f # "pending"
      BY <1>8, OutcomesAssumption DEF AllOutcomes
    <2> QED
      BY <2>1, <2>2, <2>4, <2>5
      DEF PendingIsSomewhere, OutcomesOK, Known, InBatch
  <1>9. ASSUME NEW c \in Conns, ClientStep(c) \/ HandlerStep(c)
        PROVE  PendingIsSomewhere' /\ OutcomesOK'
    <2>1. CASE ClientStep(c) \/ SkipFrame(c)
      BY <1>1, <2>1 DEF ClientStep, HangUp, Send, SkipFrame, pumpVars
    <2> QED
      BY <1>2, <1>3, <1>4, <1>5, <1>6, <1>9, <2>1 DEF HandlerStep
  <1>10. ASSUME NEW p \in Pumps, PumpStep(p)
         PROVE  PendingIsSomewhere' /\ OutcomesOK'
    <2>1. CASE StopDraining(p) \/ ReadClock(p) \/ StartHandler(p)
      BY <1>1, <2>1 DEF StopDraining, ReadClock, StartHandler, connVars
    <2>2. CASE Expire(p)
      BY <1>8, <2>2 DEF Expire
    <2>3. ASSUME NEW o \in Outcomes, FinishHandler(p, o)
          PROVE  PendingIsSomewhere' /\ OutcomesOK'
      BY <1>8, <2>3 DEF FinishHandler
    <2> QED
      BY <1>7, <1>10, <2>1, <2>2, <2>3 DEF PumpStep
  <1>11. CASE Tick \/ UNCHANGED vars
    BY <1>1, <1>11 DEF Tick, vars, pumpVars
  <1> QED
    BY <1>9, <1>10, <1>11 DEF Next

\* The invariant the refinement rests on holds of every state.
LEMMA RInvInductive == Spec => []RInv
  <1>1. Init => PendingIsSomewhere /\ OutcomesOK
    BY DEF Init, PendingIsSomewhere, OutcomesOK
  <1>2. TypeOK /\ OnePlace /\ PendingIsSomewhere /\ OutcomesOK /\ [Next]_vars
          => PendingIsSomewhere' /\ OutcomesOK'
    BY PlacesStep
  <1> QED
    BY <1>1, <1>2, StageIs, TypeCorrect, CommandsInOnePlace, PTL DEF Spec, RInv

-----------------------------------------------------------------------------
\* The service starts with every request new.
LEMMA InitServes == Init => Service!Init
  <1> SUFFICES ASSUME Init PROVE Service!Init
    OBVIOUS
  <1>1. \A r \in Requests : ~Running(r) /\ ~Known(r)
    BY ElemsFacts DEF Init, Running, Known, InBatch
  <1>2. \A r \in Requests : Stage(r) = "new"
    BY <1>1 DEF Init, Stage, Running, Known, InBatch, Settled, AllOutcomes
  <1> QED
    BY <1>2 DEF Init, Service!Init

\* Every step of the agent is one of the service, or none.
LEMMA StepServes ==
    ASSUME RInv, RInv', [Next]_vars
    PROVE  ServiceStep
  <1> USE DEF RInv
  <1>1. ASSUME NEW c \in Conns, ClientStep(c) \/ HandlerStep(c)
        PROVE  ServiceStep
    BY <1>1, QuietServes, EnqueueServes, RejectFullServes, AnswerResultServes,
       GiveUpServes DEF HandlerStep
  <1>2. ASSUME NEW p \in Pumps, PumpStep(p) PROVE ServiceStep
    <2>1. CASE Expire(p)
      BY <2>1, SettleServes DEF Expire
    <2>2. ASSUME NEW o \in Outcomes, FinishHandler(p, o) PROVE ServiceStep
      BY <2>2, SettleServes DEF FinishHandler
    <2> QED
      BY <1>2, <2>1, <2>2, QuietServes, GetServes, StartHandlerServes
      DEF PumpStep
  <1> QED
    BY <1>1, <1>2, QuietServes DEF Next

\* Whatever threads, queue and clock do, a request is refused, or accepted and
\* then expires unrun or is run once, and is answered once at most, before its
\* outcome only by a Timeout.
THEOREM AgentServes == Spec => ImplementsService
  <1>1. RInv /\ RInv' /\ [Next]_vars => [Service!Next]_(Service!vars)
    BY StepServes DEF ServiceStep
  <1> QED
    BY <1>1, InitServes, RInvInductive, PTL
    DEF Spec, ImplementsService, Service!Spec
=============================================================================
