---------------------------- MODULE BridgeProofs ----------------------------
(***************************************************************************)
(* What Bridge promises of listeners, pumps and connections, for any       *)
(* number of starts and stops, clients and links.                          *)
(***************************************************************************)
EXTENDS Bridge, FiniteSetTheorems, TLAPS

-----------------------------------------------------------------------------
(* The inductive invariant.                                                *)

StartingSteps == {"made", "written", "listening", "wired"}
StoppingSteps == {"stopping", "signalled", "unbound", "closed"}

\* The main thread works on the newest bridge, and a bridge is started from the
\* end of start_bridge to the end of stop_bridge.
MainOK ==
    /\ cur \in {0, made}
    /\ main # "idle" \/ started => cur # 0
    /\ main \in StartingSteps => ~started
    /\ main \in {"marked"} \cup StoppingSteps => started
    /\ main = "written" => token = cur
    /\ stopEvent \subseteq 1..made
    /\ main \in StoppingSteps \ {"stopping"} <=> cur \in stopEvent

\* A listener thread that was not told to stop is that of the current bridge,
\* between its start and the end of it, and no other token was written since.
ListenersOK ==
    \A b \in Bridges :
        /\ b \in bound => listener[b] # "none"
        /\ b > made \/ (b = cur /\ main \in {"made", "written"})
              => listener[b] = "none"
        /\ listener[b] # "none" /\ b \notin stopEvent =>
              /\ b = cur /\ token = b
              /\ main \in {"listening", "wired", "marked", "stopping"}
                     \/ (main = "idle" /\ started)

\* A pump ends only when it finds _started false.
PumpOK ==
    started /\ main # "marked" => bg[cur] \in {"checking", "pumping"}

Live(l) == link[l] \in {"accepted", "open"}

\* Once its socket was closed a listener gets nothing from accept().
AcceptOK ==
    \A b \in Bridges :
        /\ listener[b] = "accepted" => held[b] \in Links
        /\ b \in stopEvent /\ b \in bound /\ ~(b = cur /\ main = "signalled")
              => listener[b] # "accepting"

\* A link is tracked, unless it is in the listener's hands, or was when its
\* bridge was stopped.
LinksOK ==
    \A l \in Links :
        /\ link[l] = "accepted" =>
              to[l] \in Bridges /\ listener[to[l]] = "accepted"
                                /\ held[to[l]] = l
        /\ link[l] = "open" =>
              to[l] \in Bridges /\ (l \in tracked \/ Stopped(to[l]))

SurvivorOK ==
    \A b \in Bridges :
        Stopped(b) =>
            \A l, m \in Links :
                (to[l] = b /\ Live(l) /\ to[m] = b /\ Live(m)) =>
                    l = m /\ (listener[b] = "accepted" => l = held[b])

\* A client that waits for the hello or is connected has a link.
MineOK ==
    \A k \in Clients :
        client[k] \in {"greeting", "acking", "up"} => mine[k] \in Links

IInv == /\ TypeOK /\ MainOK /\ ListenersOK /\ PumpOK
        /\ AcceptOK /\ LinksOK /\ SurvivorOK /\ MineOK

-----------------------------------------------------------------------------
(* The initial state.                                                      *)

\* No bridge was made yet.
LEMMA InitOK == Init => IInv
  <1> SUFFICES ASSUME Init PROVE IInv
    OBVIOUS
  <1> USE StartsAssumption, LinksAssumption DEF Init, Bridges
  <1>1. TypeOK
    <2>0. started \in BOOLEAN
      OBVIOUS
    <2>1. /\ cur \in 0..MaxStarts /\ made \in 0..MaxStarts
          /\ token \in 0..MaxStarts /\ timer \in 0..MaxStarts
      OBVIOUS
    <2>2. /\ held \in [Bridges -> Links \cup {NoLink}]
          /\ to \in [Links -> 0..MaxStarts]
          /\ secret \in [Clients -> 0..MaxStarts]
          /\ at \in [Requests -> 0..MaxStarts]
      OBVIOUS
    <2> QED BY <2>0, <2>1, <2>2 DEF TypeOK
  <1>2. MainOK /\ ListenersOK /\ PumpOK
    BY DEF MainOK, ListenersOK, PumpOK, StartingSteps, StoppingSteps
  <1>3. AcceptOK /\ LinksOK /\ SurvivorOK /\ MineOK
    BY DEF AcceptOK, LinksOK, SurvivorOK, MineOK, Live, Stopped
  <1> QED BY <1>1, <1>2, <1>3 DEF IInv

-----------------------------------------------------------------------------
(* The main thread.                                                        *)

\* start_bridge: nothing of another bridge is left that accepts.
LEMMA StartOK == ASSUME IInv, StartStep PROVE IInv'
  <1> USE StartsAssumption, LinksAssumption
      DEF IInv, mainVars, threadVars, linkVars, clientVars, reqVars
  <1>1. CASE MakeQueue
    <2> USE <1>1 DEF MakeQueue
    <2>1. TypeOK'
      BY DEF TypeOK, Bridges
    <2>2. MainOK' /\ ListenersOK' /\ PumpOK'
      BY DEF TypeOK, Bridges, MainOK, ListenersOK, PumpOK, StartingSteps,
             StoppingSteps
    <2>3. AcceptOK' /\ LinksOK' /\ MineOK'
      BY DEF TypeOK, Bridges, MainOK, ListenersOK, AcceptOK, LinksOK, MineOK,
             Stopped
    <2>4. SurvivorOK'
      BY DEF TypeOK, Bridges, MainOK, ListenersOK, AcceptOK, LinksOK,
             SurvivorOK, Live, Stopped
    <2> QED BY <2>1, <2>2, <2>3, <2>4
  <1>2. CASE WriteToken
    <2> USE <1>2 DEF WriteToken
    <2>1. TypeOK'
      BY DEF TypeOK, Bridges
    <2>2. MainOK' /\ ListenersOK' /\ PumpOK'
      BY DEF TypeOK, Bridges, MainOK, ListenersOK, PumpOK, StartingSteps,
             StoppingSteps
    <2>3. AcceptOK' /\ LinksOK' /\ MineOK'
      BY DEF TypeOK, Bridges, MainOK, ListenersOK, AcceptOK, LinksOK, MineOK,
             Stopped
    <2>4. SurvivorOK'
      BY DEF TypeOK, Bridges, MainOK, ListenersOK, AcceptOK, LinksOK,
             SurvivorOK, Live, Stopped
    <2> QED BY <2>1, <2>2, <2>3, <2>4
  <1>3. CASE StartFails
    <2> USE <1>3 DEF StartFails
    <2>1. TypeOK'
      BY DEF TypeOK, Bridges
    <2>2. MainOK' /\ ListenersOK' /\ PumpOK'
      BY DEF TypeOK, Bridges, MainOK, ListenersOK, PumpOK, StartingSteps,
             StoppingSteps
    <2>3. AcceptOK' /\ LinksOK' /\ MineOK'
      BY DEF TypeOK, Bridges, MainOK, ListenersOK, AcceptOK, LinksOK, MineOK,
             Stopped
    <2>4. SurvivorOK'
      BY DEF TypeOK, Bridges, MainOK, ListenersOK, AcceptOK, LinksOK,
             SurvivorOK, Live, Stopped
    <2> QED BY <2>1, <2>2, <2>3, <2>4
  <1>4. CASE StartListener
    <2> USE <1>4 DEF StartListener
    <2>1. TypeOK'
      BY DEF TypeOK, Bridges
    <2>2. MainOK' /\ ListenersOK' /\ PumpOK'
      BY DEF TypeOK, Bridges, MainOK, ListenersOK, PumpOK, StartingSteps,
             StoppingSteps
    <2>3. AcceptOK' /\ LinksOK' /\ MineOK'
      BY DEF TypeOK, Bridges, MainOK, ListenersOK, AcceptOK, LinksOK, MineOK,
             Stopped
    <2>4. SurvivorOK'
      BY DEF TypeOK, Bridges, MainOK, ListenersOK, AcceptOK, LinksOK,
             SurvivorOK, Live, Stopped
    <2> QED BY <2>1, <2>2, <2>3, <2>4
  <1>5. CASE WireQt
    <2> USE <1>5 DEF WireQt
    <2>1. TypeOK'
      <3>1. cur \in Bridges
        BY DEF TypeOK, MainOK, Bridges
      <3>2. timer' \in 0..MaxStarts /\ notify' \subseteq Bridges
        BY <3>1 DEF TypeOK, Bridges
      <3> QED BY <3>2 DEF TypeOK
    <2>2. MainOK' /\ ListenersOK' /\ PumpOK'
      BY DEF TypeOK, Bridges, MainOK, ListenersOK, PumpOK, StartingSteps,
             StoppingSteps
    <2>3. AcceptOK' /\ LinksOK' /\ MineOK'
      BY DEF TypeOK, Bridges, MainOK, ListenersOK, AcceptOK, LinksOK, MineOK,
             Stopped
    <2>4. SurvivorOK'
      BY DEF TypeOK, Bridges, MainOK, ListenersOK, AcceptOK, LinksOK,
             SurvivorOK, Live, Stopped
    <2> QED BY <2>1, <2>2, <2>3, <2>4
  <1>6. CASE MarkStarted
    <2> USE <1>6 DEF MarkStarted
    <2>1. TypeOK'
      BY DEF TypeOK, Bridges
    <2>2. MainOK' /\ ListenersOK' /\ PumpOK'
      BY DEF TypeOK, Bridges, MainOK, ListenersOK, PumpOK, StartingSteps,
             StoppingSteps
    <2>3. AcceptOK' /\ LinksOK' /\ MineOK'
      BY DEF TypeOK, Bridges, MainOK, ListenersOK, AcceptOK, LinksOK, MineOK,
             Stopped
    <2>4. SurvivorOK'
      BY DEF TypeOK, Bridges, MainOK, ListenersOK, AcceptOK, LinksOK,
             SurvivorOK, Live, Stopped
    <2> QED BY <2>1, <2>2, <2>3, <2>4
  <1>7. CASE StartPump
    <2> USE <1>7 DEF StartPump
    <2>1. TypeOK'
      BY DEF TypeOK, Bridges
    <2>2. MainOK' /\ ListenersOK' /\ PumpOK'
      BY DEF TypeOK, Bridges, MainOK, ListenersOK, PumpOK, StartingSteps,
             StoppingSteps
    <2>3. AcceptOK' /\ LinksOK' /\ MineOK'
      BY DEF TypeOK, Bridges, MainOK, ListenersOK, AcceptOK, LinksOK, MineOK,
             Stopped
    <2>4. SurvivorOK'
      BY DEF TypeOK, Bridges, MainOK, ListenersOK, AcceptOK, LinksOK,
             SurvivorOK, Live, Stopped
    <2> QED BY <2>1, <2>2, <2>3, <2>4
  <1> QED BY <1>1, <1>2, <1>3, <1>4, <1>5, <1>6, <1>7 DEF StartStep

\* stop_bridge: the listener is told before the bridge is forgotten.
LEMMA StopOK == ASSUME IInv, StopStep PROVE IInv'
  <1> USE StartsAssumption, LinksAssumption
      DEF IInv, mainVars, threadVars, linkVars, clientVars, reqVars
  <1>1. CASE StopTimer
    <2> USE <1>1 DEF StopTimer
    <2>1. TypeOK'
      BY DEF TypeOK, Bridges
    <2>2. MainOK' /\ ListenersOK' /\ PumpOK'
      BY DEF TypeOK, Bridges, MainOK, ListenersOK, PumpOK, StartingSteps,
             StoppingSteps
    <2>3. AcceptOK' /\ LinksOK' /\ MineOK'
      BY DEF TypeOK, Bridges, MainOK, ListenersOK, AcceptOK, LinksOK, MineOK,
             Stopped
    <2>4. SurvivorOK'
      BY DEF TypeOK, Bridges, MainOK, ListenersOK, AcceptOK, LinksOK,
             SurvivorOK, Live, Stopped
    <2> QED BY <2>1, <2>2, <2>3, <2>4
  <1>2. CASE SetStopEvent
    <2> USE <1>2 DEF SetStopEvent
    <2>1. TypeOK'
      BY DEF TypeOK, Bridges, MainOK
    <2>2. MainOK' /\ ListenersOK' /\ PumpOK'
      BY DEF TypeOK, Bridges, MainOK, ListenersOK, PumpOK, StartingSteps,
             StoppingSteps
    <2>3. AcceptOK' /\ LinksOK' /\ MineOK'
      BY DEF TypeOK, Bridges, MainOK, ListenersOK, AcceptOK, LinksOK, MineOK,
             Stopped
    <2>4. SurvivorOK'
      BY DEF TypeOK, Bridges, MainOK, ListenersOK, AcceptOK, LinksOK,
             SurvivorOK, Live, Stopped
    <2> QED BY <2>1, <2>2, <2>3, <2>4
  <1>3. CASE CloseServer
    <2> USE <1>3 DEF CloseServer, Close, Backlog
    <2>1. TypeOK'
      BY DEF TypeOK, Bridges
    <2>2. MainOK' /\ ListenersOK' /\ PumpOK'
      BY DEF TypeOK, Bridges, MainOK, ListenersOK, PumpOK, StartingSteps,
             StoppingSteps
    <2>3. AcceptOK' /\ LinksOK' /\ MineOK'
      BY DEF TypeOK, Bridges, MainOK, ListenersOK, AcceptOK, LinksOK, MineOK,
             Stopped
    <2>4. SurvivorOK'
      BY DEF TypeOK, Bridges, MainOK, ListenersOK, AcceptOK, LinksOK,
             SurvivorOK, Live, Stopped
    <2> QED BY <2>1, <2>2, <2>3, <2>4
  <1>4. CASE CloseLinks
    <2> USE <1>4 DEF CloseLinks, Close, TrackedBy
    <2>1. TypeOK'
      BY DEF TypeOK, Bridges
    <2>2. MainOK' /\ ListenersOK' /\ PumpOK'
      BY DEF TypeOK, Bridges, MainOK, ListenersOK, PumpOK, StartingSteps,
             StoppingSteps
    <2>3. AcceptOK' /\ LinksOK' /\ MineOK'
      BY DEF TypeOK, Bridges, MainOK, ListenersOK, AcceptOK, LinksOK, MineOK,
             Stopped
    <2>4. SurvivorOK'
      BY DEF TypeOK, Bridges, MainOK, ListenersOK, AcceptOK, LinksOK,
             SurvivorOK, Live, Stopped
    <2> QED BY <2>1, <2>2, <2>3, <2>4
  <1>5. CASE ForgetBridge
    <2> USE <1>5 DEF ForgetBridge
    <2>1. TypeOK'
      <3>1. started' \in BOOLEAN
        OBVIOUS
      <3>2. cur' \in 0..MaxStarts
        OBVIOUS
      <3> QED BY <3>1, <3>2 DEF TypeOK
    <2>2. MainOK' /\ ListenersOK' /\ PumpOK'
      BY DEF TypeOK, Bridges, MainOK, ListenersOK, PumpOK, StartingSteps,
             StoppingSteps
    <2>3. AcceptOK' /\ LinksOK' /\ MineOK'
      BY DEF TypeOK, Bridges, MainOK, ListenersOK, AcceptOK, LinksOK, MineOK,
             Stopped
    <2>4. SurvivorOK'
      BY DEF TypeOK, Bridges, MainOK, ListenersOK, AcceptOK, LinksOK,
             SurvivorOK, Live, Stopped
    <2> QED BY <2>1, <2>2, <2>3, <2>4
  <1> QED BY <1>1, <1>2, <1>3, <1>4, <1>5 DEF StopStep

-----------------------------------------------------------------------------
(* The threads of a bridge.                                                *)

\* What threads do, and whoever pumps a queue.
ThreadStep ==
    \/ \E b \in Bridges : ListenerStep(b) \/ BgStep(b) \/ MainPumps(b)
    \/ \E r \in Requests : Enqueue(r)

\* A listener goes on unless it was told to stop, a pump while a bridge is
\* started.
LEMMA ThreadOK == ASSUME IInv, ThreadStep PROVE IInv'
  <1> USE StartsAssumption, LinksAssumption
      DEF IInv, mainVars, threadVars, linkVars, clientVars, reqVars
  <1>1. ASSUME NEW b \in Bridges, Bind(b)
       PROVE  IInv'
    <2> USE <1>1 DEF Bind
    <2>1. TypeOK'
      BY DEF TypeOK, Bridges
    <2>2. MainOK' /\ ListenersOK' /\ PumpOK'
      BY DEF TypeOK, Bridges, MainOK, ListenersOK, PumpOK, StartingSteps,
             StoppingSteps
    <2>3. AcceptOK' /\ LinksOK' /\ MineOK'
      BY DEF TypeOK, Bridges, MainOK, ListenersOK, AcceptOK, LinksOK, MineOK,
             Stopped
    <2>4. SurvivorOK'
      BY DEF TypeOK, Bridges, MainOK, ListenersOK, AcceptOK, LinksOK,
             SurvivorOK, Live, Stopped
    <2> QED BY <2>1, <2>2, <2>3, <2>4
  <1>2. ASSUME NEW b \in Bridges, BindFails(b)
       PROVE  IInv'
    <2> USE <1>2 DEF BindFails
    <2>1. TypeOK'
      BY DEF TypeOK, Bridges
    <2>2. MainOK' /\ ListenersOK' /\ PumpOK'
      BY DEF TypeOK, Bridges, MainOK, ListenersOK, PumpOK, StartingSteps,
             StoppingSteps
    <2>3. AcceptOK' /\ LinksOK' /\ MineOK'
      BY DEF TypeOK, Bridges, MainOK, ListenersOK, AcceptOK, LinksOK, MineOK,
             Stopped
    <2>4. SurvivorOK'
      BY DEF TypeOK, Bridges, MainOK, ListenersOK, AcceptOK, LinksOK,
             SurvivorOK, Live, Stopped
    <2> QED BY <2>1, <2>2, <2>3, <2>4
  <1>3. ASSUME NEW b \in Bridges, CheckStop(b)
       PROVE  IInv'
    <2> USE <1>3 DEF CheckStop
    <2>1. TypeOK'
      BY DEF TypeOK, Bridges
    <2>2. MainOK' /\ ListenersOK' /\ PumpOK'
      BY DEF TypeOK, Bridges, MainOK, ListenersOK, PumpOK, StartingSteps,
             StoppingSteps
    <2>3. AcceptOK' /\ LinksOK' /\ MineOK'
      BY DEF TypeOK, Bridges, MainOK, ListenersOK, AcceptOK, LinksOK, MineOK,
             Stopped
    <2>4. SurvivorOK'
      BY DEF TypeOK, Bridges, MainOK, ListenersOK, AcceptOK, LinksOK,
             SurvivorOK, Live, Stopped
    <2> QED BY <2>1, <2>2, <2>3, <2>4
  <1>4. ASSUME NEW b \in Bridges, Track(b)
       PROVE  IInv'
    <2> USE <1>4 DEF Track
    <2>1. TypeOK'
      <3>1. /\ listener' \in [Bridges -> {"none", "binding", "checking",
                                        "accepting", "accepted", "ended"}]
            /\ held' \in [Bridges -> Links \cup {NoLink}]
        BY DEF TypeOK
      <3>2. /\ link' \in [Links -> {"closed", "backlog", "accepted", "open"}]
            /\ tracked' \subseteq Links
        BY DEF TypeOK, AcceptOK
      <3> QED BY <3>1, <3>2 DEF TypeOK
    <2>2. MainOK' /\ ListenersOK' /\ PumpOK'
      BY DEF TypeOK, Bridges, MainOK, ListenersOK, PumpOK, StartingSteps,
             StoppingSteps
    <2>3. AcceptOK' /\ LinksOK' /\ MineOK'
      BY DEF TypeOK, Bridges, MainOK, ListenersOK, AcceptOK, LinksOK, MineOK,
             Stopped
    <2>4. SurvivorOK'
      BY DEF TypeOK, Bridges, MainOK, ListenersOK, AcceptOK, LinksOK,
             SurvivorOK, Live, Stopped
    <2> QED BY <2>1, <2>2, <2>3, <2>4
  <1>5. ASSUME NEW b \in Bridges, EndListener(b),
               listener[b] \in {"checking", "accepting"}
       PROVE  IInv'
    <2> USE <1>5 DEF EndListener, Close, Backlog
    <2>1. TypeOK'
      BY DEF TypeOK, Bridges
    <2>2. MainOK' /\ ListenersOK' /\ PumpOK'
      BY DEF TypeOK, Bridges, MainOK, ListenersOK, PumpOK, StartingSteps,
             StoppingSteps
    <2>3. AcceptOK' /\ LinksOK' /\ MineOK'
      BY DEF TypeOK, Bridges, MainOK, ListenersOK, AcceptOK, LinksOK, MineOK,
             Stopped
    <2>4. SurvivorOK'
      BY DEF TypeOK, Bridges, MainOK, ListenersOK, AcceptOK, LinksOK,
             SurvivorOK, Live, Stopped
    <2> QED BY <2>1, <2>2, <2>3, <2>4
  <1>6. ASSUME NEW b \in Bridges, NEW l \in Links, Accept(b, l)
       PROVE  IInv'
    <2> USE <1>6 DEF Accept, Backlog
    <2>1. TypeOK'
      BY DEF TypeOK, Bridges
    <2>2. MainOK' /\ ListenersOK' /\ PumpOK'
      BY DEF TypeOK, Bridges, MainOK, ListenersOK, PumpOK, StartingSteps,
             StoppingSteps
    <2>3. AcceptOK' /\ LinksOK' /\ MineOK'
      BY DEF TypeOK, Bridges, MainOK, ListenersOK, AcceptOK, LinksOK, MineOK,
             Stopped
    <2>4. SurvivorOK'
      BY DEF TypeOK, Bridges, MainOK, ListenersOK, AcceptOK, LinksOK,
             SurvivorOK, Live, Stopped
    <2> QED BY <2>1, <2>2, <2>3, <2>4
  <1>7. ASSUME NEW b \in Bridges, PumpChecks(b)
       PROVE  IInv'
    <2> USE <1>7 DEF PumpChecks
    <2>1. TypeOK'
      BY DEF TypeOK, Bridges
    <2>2. MainOK' /\ ListenersOK' /\ PumpOK'
      BY DEF TypeOK, Bridges, MainOK, ListenersOK, PumpOK, StartingSteps,
             StoppingSteps
    <2>3. AcceptOK' /\ LinksOK' /\ MineOK'
      BY DEF TypeOK, Bridges, MainOK, ListenersOK, AcceptOK, LinksOK, MineOK,
             Stopped
    <2>4. SurvivorOK'
      BY DEF TypeOK, Bridges, MainOK, ListenersOK, AcceptOK, LinksOK,
             SurvivorOK, Live, Stopped
    <2> QED BY <2>1, <2>2, <2>3, <2>4
  <1>8. ASSUME NEW b \in Bridges, PumpRuns(b)
       PROVE  IInv'
    <2> USE <1>8 DEF PumpRuns, Pump
    <2>1. TypeOK'
      BY DEF TypeOK, Bridges
    <2>2. MainOK' /\ ListenersOK' /\ PumpOK'
      BY DEF TypeOK, Bridges, MainOK, ListenersOK, PumpOK, StartingSteps,
             StoppingSteps
    <2>3. AcceptOK' /\ LinksOK' /\ MineOK'
      BY DEF TypeOK, Bridges, MainOK, ListenersOK, AcceptOK, LinksOK, MineOK,
             Stopped
    <2>4. SurvivorOK'
      BY DEF TypeOK, Bridges, MainOK, ListenersOK, AcceptOK, LinksOK,
             SurvivorOK, Live, Stopped
    <2> QED BY <2>1, <2>2, <2>3, <2>4
  <1>9. ASSUME NEW b \in Bridges, MainPumps(b)
       PROVE  IInv'
    <2> USE <1>9 DEF MainPumps, Pump
    <2>1. TypeOK'
      BY DEF TypeOK, Bridges
    <2>2. MainOK' /\ ListenersOK' /\ PumpOK'
      BY DEF TypeOK, Bridges, MainOK, ListenersOK, PumpOK, StartingSteps,
             StoppingSteps
    <2>3. AcceptOK' /\ LinksOK' /\ MineOK'
      BY DEF TypeOK, Bridges, MainOK, ListenersOK, AcceptOK, LinksOK, MineOK,
             Stopped
    <2>4. SurvivorOK'
      BY DEF TypeOK, Bridges, MainOK, ListenersOK, AcceptOK, LinksOK,
             SurvivorOK, Live, Stopped
    <2> QED BY <2>1, <2>2, <2>3, <2>4
  <1>10. ASSUME NEW r \in Requests, Enqueue(r)
       PROVE  IInv'
    <2> USE <1>10 DEF Enqueue
    <2>1. TypeOK'
      BY DEF TypeOK, Bridges
    <2>2. MainOK' /\ ListenersOK' /\ PumpOK'
      BY DEF TypeOK, Bridges, MainOK, ListenersOK, PumpOK, StartingSteps,
             StoppingSteps
    <2>3. AcceptOK' /\ LinksOK' /\ MineOK'
      BY DEF TypeOK, Bridges, MainOK, ListenersOK, AcceptOK, LinksOK, MineOK,
             Stopped
    <2>4. SurvivorOK'
      BY DEF TypeOK, Bridges, MainOK, ListenersOK, AcceptOK, LinksOK,
             SurvivorOK, Live, Stopped
    <2> QED BY <2>1, <2>2, <2>3, <2>4
  <1> QED BY <1>1, <1>2, <1>3, <1>4, <1>5, <1>6, <1>7, <1>8, <1>9, <1>10
      DEF ThreadStep, ListenerStep, ListenerEnds, ListenerBreaks, BgStep

-----------------------------------------------------------------------------
(* The clients.                                                            *)

\* What the MCP servers do.
PeerStep ==
    \E k \in Clients :
        \/ ClientStep(k) \/ HelloTimesOut(k) \/ HangUp(k)
        \/ \E r \in Requests : Send(k, r)

\* Whatever makes a client drop its link, or go on with it, it has one.
HasLink(k) == client[k] \in {"greeting", "acking", "up"}

Dropped(k) ==
    HasLink(k) /\ \E next \in {"down", "crashed"} : DropAnd(k, next)

WentOn(k) == HasLink(k) /\ \E next \in {"acking", "up"} : GoOn(k, next)

\* A client connects with a link nobody has, and only its own is dropped.
LEMMA PeerOK == ASSUME IInv, PeerStep PROVE IInv'
  <1> USE StartsAssumption, LinksAssumption
      DEF IInv, mainVars, threadVars, linkVars, clientVars, reqVars
  <1>1. ASSUME NEW k \in Clients, ReadToken(k)
       PROVE  IInv'
    <2> USE <1>1 DEF ReadToken
    <2>1. TypeOK'
      BY DEF TypeOK, Bridges
    <2>2. MainOK' /\ ListenersOK' /\ PumpOK'
      BY DEF TypeOK, Bridges, MainOK, ListenersOK, PumpOK, StartingSteps,
             StoppingSteps
    <2>3. AcceptOK' /\ LinksOK' /\ MineOK'
      BY DEF TypeOK, Bridges, MainOK, ListenersOK, AcceptOK, LinksOK, MineOK,
             Stopped
    <2>4. SurvivorOK'
      BY DEF TypeOK, Bridges, MainOK, ListenersOK, AcceptOK, LinksOK,
             SurvivorOK, Live, Stopped
    <2> QED BY <2>1, <2>2, <2>3, <2>4
  <1>2. ASSUME NEW k \in Clients, ConnectRefused(k)
       PROVE  IInv'
    <2> USE <1>2 DEF ConnectRefused
    <2>1. TypeOK'
      BY DEF TypeOK, Bridges
    <2>2. MainOK' /\ ListenersOK' /\ PumpOK'
      BY DEF TypeOK, Bridges, MainOK, ListenersOK, PumpOK, StartingSteps,
             StoppingSteps
    <2>3. AcceptOK' /\ LinksOK' /\ MineOK'
      BY DEF TypeOK, Bridges, MainOK, ListenersOK, AcceptOK, LinksOK, MineOK,
             Stopped
    <2>4. SurvivorOK'
      BY DEF TypeOK, Bridges, MainOK, ListenersOK, AcceptOK, LinksOK,
             SurvivorOK, Live, Stopped
    <2> QED BY <2>1, <2>2, <2>3, <2>4
  <1>3. ASSUME NEW k \in Clients, NEW b \in Bridges, Connect(k, b)
       PROVE  IInv'
    <2> USE <1>3 DEF Connect, FreeLinks
    <2>1. TypeOK'
      BY DEF TypeOK, Bridges
    <2>2. MainOK' /\ ListenersOK' /\ PumpOK'
      BY DEF TypeOK, Bridges, MainOK, ListenersOK, PumpOK, StartingSteps,
             StoppingSteps
    <2>3. AcceptOK' /\ LinksOK' /\ MineOK'
      BY DEF TypeOK, Bridges, MainOK, ListenersOK, AcceptOK, LinksOK, MineOK,
             Stopped
    <2>4. SurvivorOK'
      BY DEF TypeOK, Bridges, MainOK, ListenersOK, AcceptOK, LinksOK,
             SurvivorOK, Live, Stopped
    <2> QED BY <2>1, <2>2, <2>3, <2>4
  <1>4. ASSUME NEW k \in Clients, WentOn(k)
       PROVE  IInv'
    <2> USE <1>4 DEF WentOn, HasLink, GoOn
    <2>1. TypeOK'
      BY DEF TypeOK, Bridges
    <2>2. MainOK' /\ ListenersOK' /\ PumpOK'
      BY DEF TypeOK, Bridges, MainOK, ListenersOK, PumpOK, StartingSteps,
             StoppingSteps
    <2>3. AcceptOK' /\ LinksOK' /\ MineOK'
      BY DEF TypeOK, Bridges, MainOK, ListenersOK, AcceptOK, LinksOK, MineOK,
             Stopped
    <2>4. SurvivorOK'
      BY DEF TypeOK, Bridges, MainOK, ListenersOK, AcceptOK, LinksOK,
             SurvivorOK, Live, Stopped
    <2> QED BY <2>1, <2>2, <2>3, <2>4
  <1>5. ASSUME NEW k \in Clients, Dropped(k)
       PROVE  IInv'
    <2> USE <1>5 DEF Dropped, HasLink, DropAnd, Close
    <2>1. TypeOK'
      BY DEF TypeOK, Bridges
    <2>2. MainOK' /\ ListenersOK' /\ PumpOK'
      BY DEF TypeOK, Bridges, MainOK, ListenersOK, PumpOK, StartingSteps,
             StoppingSteps
    <2>3. AcceptOK' /\ LinksOK' /\ MineOK'
      BY DEF TypeOK, Bridges, MainOK, ListenersOK, AcceptOK, LinksOK, MineOK,
             Stopped
    <2>4. SurvivorOK'
      BY DEF TypeOK, Bridges, MainOK, ListenersOK, AcceptOK, LinksOK,
             SurvivorOK, Live, Stopped
    <2> QED BY <2>1, <2>2, <2>3, <2>4
  <1>6. ASSUME NEW k \in Clients, NEW r \in Requests, Send(k, r)
       PROVE  IInv'
    <2> USE <1>6 DEF Send
    <2>1. TypeOK'
      BY DEF TypeOK, Bridges, MineOK
    <2>2. MainOK' /\ ListenersOK' /\ PumpOK'
      BY DEF TypeOK, Bridges, MainOK, ListenersOK, PumpOK, StartingSteps,
             StoppingSteps
    <2>3. AcceptOK' /\ LinksOK' /\ MineOK'
      BY DEF TypeOK, Bridges, MainOK, ListenersOK, AcceptOK, LinksOK, MineOK,
             Stopped
    <2>4. SurvivorOK'
      BY DEF TypeOK, Bridges, MainOK, ListenersOK, AcceptOK, LinksOK,
             SurvivorOK, Live, Stopped
    <2> QED BY <2>1, <2>2, <2>3, <2>4
  <1> QED BY <1>1, <1>2, <1>3, <1>4, <1>5, <1>6
      DEF PeerStep, ClientStep, HelloTimesOut, HangUp, Hello, NoHello, Ack,
          AckFails, Disconnected, Drop, Dropped, HasLink, WentOn

-----------------------------------------------------------------------------
(* The theorems.                                                           *)

\* Every step keeps the invariant.
LEMMA NextOK == ASSUME IInv, [Next]_vars PROVE IInv'
  <1>1. CASE UNCHANGED vars
    <2> USE <1>1 DEF vars, IInv, mainVars, threadVars, linkVars, clientVars,
                     reqVars
    <2>1. TypeOK' /\ MainOK' /\ ListenersOK' /\ PumpOK'
      BY DEF TypeOK, MainOK, ListenersOK, PumpOK
    <2>2. AcceptOK' /\ LinksOK' /\ SurvivorOK' /\ MineOK'
      BY DEF AcceptOK, LinksOK, SurvivorOK, MineOK, Live, Stopped
    <2> QED BY <2>1, <2>2
  <1> QED BY <1>1, StartOK, StopOK, ThreadOK, PeerOK
          DEF Next, ThreadStep, PeerStep

\* The invariant holds of every state that is reached.
LEMMA Inductive == Spec => []IInv
  BY InitOK, NextOK, PTL DEF Spec

\* The variables of the bridge have their types.
THEOREM TypeCorrect == Spec => []TypeOK
  <1>1. IInv => TypeOK
    BY DEF IInv
  <1> QED BY <1>1, Inductive, PTL

\* However often and quickly the bridge is started and stopped, and whatever
\* steps its threads have left, only the current listener goes on accepting,
\* and the token it asks for is the one in the file.
THEOREM ListenerIsFresh == Spec => []OneFreshListener
  <1>1. IInv => OneFreshListener
    BY DEF IInv, TypeOK, ListenersOK, OneFreshListener
  <1> QED BY <1>1, Inductive, PTL

\* A started bridge has a background pump, whatever became of earlier ones.
THEOREM PumpIsThere == Spec => []QueueHasAPump
  <1>1. IInv => QueueHasAPump
    BY DEF IInv, PumpOK, QueueHasAPump
  <1> QED BY <1>1, Inductive, PTL

\* stop_bridge misses at most the link its listener had just accepted.
THEOREM StopClosesLinks == Spec => []AtMostOneLinkSurvives
  <1>1. ASSUME IInv PROVE AtMostOneLinkSurvives
    <2> SUFFICES ASSUME NEW b \in Bridges, Stopped(b)
                 PROVE  Cardinality({l \in Links : to[l] = b /\
                            link[l] \in {"accepted", "open"}}) <= 1
      BY DEF AtMostOneLinkSurvives
    <2> DEFINE S == {l \in Links : to[l] = b /\
                            link[l] \in {"accepted", "open"}}
    <2>1. \A l, m \in S : l = m
      BY <1>1 DEF IInv, SurvivorOK, Live
    <2>2. S = {} \/ \E l \in S : S = {l}
      BY <2>1
    <2>3. Cardinality(S) \in {0, 1}
      BY <2>2, FS_EmptySet, FS_Singleton
    <2> QED BY <2>3
  <1> QED BY <1>1, Inductive, PTL
=============================================================================
