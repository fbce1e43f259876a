---------------------------- MODULE ClientProofs ----------------------------
(***************************************************************************)
(* Proofs about the client, for any number of generations.                 *)
(***************************************************************************)
EXTENDS Client, TLAPS

(* Connectors that hold a connection not yet reported as connected. *)
Holding == {k \in Connectors : cpc[k] \in {"init", "await", "tun", "route", "flag"}}

(***************************************************************************)
(* Every reconnectLoop was paid for by a connection that was dialled, so   *)
(* there is always a slot for the next one.                                *)
(***************************************************************************)
StartedBound ==
    /\ started <= dialled + 1
    /\ connected \/ Holding # {} => started <= dialled
    /\ \A k \in Connectors : k > started => cpc[k] = "off"

(* A connector past Dial knows its generation. *)
HasGen ==
    \A k \in Connectors :
        cpc[k] \in {"init", "await", "tun", "route", "flag", "loops"} => cgen[k] \in Gens

(* Only Disconnect cancels the context, and main's Connect is over by then. *)
CancelledByMain ==
    /\ ctxDone => mainPC \in {"tun", "wait", "done", "exited"}
    /\ mainPC = "connect" \/ cpc[1] = "off"

(* RetryAlive, from the first Connect on. *)
Trying ==
    AutoReconnect /\ mainPC \in {"connect", "running"} => connected \/ Connecting # {}

IndInv ==
    /\ TypeOK
    /\ OneConnector
    /\ StartedBound
    /\ HasGen
    /\ CancelledByMain
    /\ Trying
    /\ ReceiverAlive

-----------------------------------------------------------------------------
(* Kinds of steps *)

(* A connector works towards connected = true, or gives the attempt up. *)
Attempt(k) ==
    \/ ReconnectCheck(k) \/ DialFails(k) \/ Dial(k)
    \/ HandshakeSend(k) \/ HandshakeFails(k) \/ HandshakeDone(k)
    \/ TunNew(k) \/ TunRoute(k)

(* A loop finds its connection gone. *)
Loss(g) == TWriteError(g) \/ RDisconnect(g) \/ RReadError(g)

(* A loop goes on, or the network acts: no connector and no flag changes. *)
LoopStep(g) ==
    \/ TCheck(g) \/ TReadError(g) \/ TRead(g) \/ TWrite(g)
    \/ RCheck(g) \/ RPacket(g) \/ KeepaliveLoop(g)
    \/ LinkLost(g) \/ ConcurrentWritePanic(g)

LEMMA StepKinds ==
    ASSUME Next
    PROVE  \/ \E k \in Connectors : Attempt(k) \/ SetConnected(k) \/ StartLoops(k)
           \/ \E g \in Gens : Loss(g) \/ LoopStep(g)
           \/ DisconnectFlag \/ DisconnectSteps
  BY Zenon DEF Next, Connect, TunReadLoop, ReceiveLoop, Attempt, Loss, LoopStep

LEMMA ConnectorSlots == Connectors \subseteq Nat /\ 1 \in Connectors
  BY ClientAssumption DEF Connectors

LEMMA AttemptFacts ==
    ASSUME TypeOK, NEW k \in Connectors, Attempt(k)
    PROVE  /\ k \in Connecting
           /\ \A j \in Connectors : j # k => cpc'[j] = cpc[j]
           /\ UNCHANGED <<connected, ctxDone, started, rpc>>
           /\ cpc'[k] # "loops"
           /\ mainPC' \in {mainPC, "exited"}
           /\ cpc'[k] = "off" => ctxDone \/ mainPC' = "exited"
  <1>. USE DEF TypeOK, CGoto, ConnectFails, connectVars, fieldVars, rVars, Connecting
  <1>1. CASE ReconnectCheck(k)
    BY <1>1 DEF ReconnectCheck
  <1>2. CASE DialFails(k)
    BY <1>2 DEF DialFails
  <1>3. CASE Dial(k)
    BY <1>3 DEF Dial
  <1>4. CASE HandshakeSend(k)
    BY <1>4 DEF HandshakeSend
  <1>5. CASE HandshakeFails(k)
    BY <1>5 DEF HandshakeFails
  <1>6. CASE HandshakeDone(k)
    BY <1>6 DEF HandshakeDone
  <1>7. CASE TunNew(k)
    BY <1>7 DEF TunNew
  <1>8. CASE TunRoute(k)
    BY <1>8 DEF TunRoute
  <1>. QED BY <1>1, <1>2, <1>3, <1>4, <1>5, <1>6, <1>7, <1>8 DEF Attempt

LEMMA LossKeeps ==
    ASSUME NEW g \in Gens, Loss(g)
    PROVE  UNCHANGED <<mainPC, cgen, dialled, ctxDone>>
  BY DEF Loss, TWriteError, RDisconnect, RReadError

LEMMA LossHandled ==
    ASSUME NEW g \in Gens, Loss(g), ~HandleDisconnect
    PROVE  ctxDone /\ UNCHANGED <<connected, cpc, started>>
  BY Zenon DEF Loss, TWriteError, RDisconnect, RReadError

LEMMA LoopFacts ==
    ASSUME NEW g \in Gens, LoopStep(g)
    PROVE  UNCHANGED <<mainPC, connectVars, fieldVars>>
  BY DEF LoopStep, TCheck, TReadError, TRead, TWrite, RCheck, RPacket,
     KeepaliveLoop, KCancelled, KTick, KWrite, LinkLost, ConcurrentWritePanic

LEMMA DisconnectFacts ==
    ASSUME DisconnectFlag \/ DisconnectSteps
    PROVE  /\ UNCHANGED <<connectVars, rpc>>
           /\ connected' => connected
           /\ mainPC \notin {"connect", "exited", "done"}
           /\ mainPC' \notin {"connect", "running"}
           /\ ctxDone => ctxDone'
           /\ ctxDone' => mainPC' \in {"tun", "wait", "done"} \/ ctxDone
           /\ mainPC \in {"tun", "wait"} => mainPC' \in {"wait", "done"}
  <1>. USE DEF MainGoto, fieldVars, rVars
  <1>1. CASE DisconnectFlag
    BY <1>1 DEF DisconnectFlag
  <1>2. CASE DisconnectConn
    BY <1>2 DEF DisconnectConn
  <1>3. CASE DisconnectCancel
    BY <1>3 DEF DisconnectCancel
  <1>4. CASE DisconnectTun
    BY <1>4 DEF DisconnectTun
  <1>5. CASE DisconnectWait
    BY <1>5 DEF DisconnectWait
  <1>. QED BY <1>1, <1>2, <1>3, <1>4, <1>5 DEF DisconnectSteps

(* What handleDisconnect does to the connectors. *)
LEMMA SpawnFacts ==
    ASSUME IndInv, HandleDisconnect
    PROVE  /\ connected' = FALSE
           /\ \/ /\ connected /\ AutoReconnect
                 /\ started + 1 \in Connectors /\ started' = started + 1
                 /\ started <= dialled
                 /\ cpc[started + 1] = "off"
                 /\ cpc' = [cpc EXCEPT ![started + 1] = "check"]
              \/ ~(connected /\ AutoReconnect) /\ UNCHANGED <<cpc, started>>
  <1>1. CASE connected /\ AutoReconnect
    <2>1. started <= dialled /\ started \in Nat /\ dialled \in 0 .. MaxGen
      BY <1>1, ConnectorSlots DEF IndInv, StartedBound, TypeOK
    <2>2. started + 1 \in Connectors
      BY <2>1, ClientAssumption DEF Connectors
    <2>3. cpc[started + 1] = "off"
      BY <2>1, <2>2 DEF IndInv, StartedBound
    <2>. QED BY <1>1, <2>1, <2>2, <2>3 DEF HandleDisconnect
  <1>2. CASE ~(connected /\ AutoReconnect)
    BY <1>2 DEF HandleDisconnect
  <1>. QED BY <1>1, <1>2

-----------------------------------------------------------------------------

LEMMA InitIndInv == Init => IndInv
  <1>. SUFFICES ASSUME Init PROVE IndInv
    OBVIOUS
  <1>. USE ClientAssumption DEF Init, Connectors, Gens
  <1>0. /\ cpc \in [Connectors -> {"off", "check", "dial", "init", "await", "tun",
                                   "route", "flag", "loops"}]
        /\ started \in Connectors
        /\ 0 \in 0 .. MaxGen
    OBVIOUS
  <1>1. TypeOK
    BY <1>0 DEF TypeOK
  <1>5. Connecting = {1}
    BY DEF Connecting
  <1>2. OneConnector /\ Trying
    BY <1>5 DEF OneConnector, Trying
  <1>3. StartedBound
    <2>1. started = 1 /\ dialled = 0 /\ connected = FALSE
      OBVIOUS
    <2>2. \A k \in Connectors : cpc[k] \in {"dial", "off"} /\ (k > 1 => cpc[k] = "off")
      OBVIOUS
    <2>3. Holding = {}
      BY <2>2 DEF Holding
    <2>. HIDE DEF Init, Connectors
    <2>. QED BY <2>1, <2>2, <2>3 DEF StartedBound
  <1>4. HasGen /\ CancelledByMain /\ ReceiverAlive
    BY DEF HasGen, CancelledByMain, ReceiverAlive
  <1>. QED BY <1>1, <1>2, <1>3, <1>4 DEF IndInv

(* At most one goroutine tries to connect. *)
LEMMA OneConnectorStep ==
    ASSUME IndInv, Next
    PROVE  OneConnector'
  <1>. USE DEF IndInv, OneConnector
  <1>1. ASSUME NEW k \in Connectors, Attempt(k)
        PROVE  OneConnector'
    <2>1. Connecting' \subseteq {k} /\ ~connected'
      BY <1>1, AttemptFacts DEF Connecting
    <2>. QED BY <2>1
  <1>2. ASSUME NEW k \in Connectors, SetConnected(k)
        PROVE  OneConnector'
    <2>1. k \in Connecting /\ Connecting' = Connecting \ {k}
      BY <1>2 DEF SetConnected, CGoto, Connecting, TypeOK
    <2>. QED BY <2>1
  <1>3. ASSUME NEW k \in Connectors, StartLoops(k)
        PROVE  OneConnector'
    <2>1. Connecting' = Connecting /\ connected' = connected
      BY <1>3 DEF StartLoops, CGoto, Connecting, TypeOK, fieldVars
    <2>. QED BY <2>1
  <1>4. ASSUME NEW g \in Gens, Loss(g)
        PROVE  OneConnector'
    <2>1. CASE HandleDisconnect
      <3>1. CASE connected /\ AutoReconnect
        <4>1. /\ started + 1 \in Connectors /\ ~connected'
              /\ cpc' = [cpc EXCEPT ![started + 1] = "check"]
          BY <2>1, <3>1, SpawnFacts
        <4>2. Connecting = {}
          BY <3>1
        <4>3. Connecting' \subseteq {started + 1}
          BY <4>1, <4>2 DEF Connecting, TypeOK
        <4>. QED BY <4>1, <4>3
      <3>2. CASE ~(connected /\ AutoReconnect)
        <4>1. Connecting' = Connecting /\ ~connected'
          BY <2>1, <3>2, SpawnFacts DEF Connecting
        <4>. QED BY <4>1
      <3>. QED BY <3>1, <3>2
    <2>2. CASE ~HandleDisconnect
      BY <1>4, <2>2, LossHandled DEF Connecting
    <2>. QED BY <2>1, <2>2
  <1>5. ASSUME NEW g \in Gens, LoopStep(g)
        PROVE  OneConnector'
    BY <1>5, LoopFacts DEF connectVars, fieldVars, Connecting
  <1>6. CASE DisconnectFlag \/ DisconnectSteps
    <2>1. Connecting' = Connecting /\ (connected' => connected)
      BY <1>6, DisconnectFacts DEF connectVars, Connecting
    <2>. QED BY <2>1
  <1>. QED BY <1>1, <1>2, <1>3, <1>4, <1>5, <1>6, StepKinds

(* There is a slot for the next reconnectLoop. *)
LEMMA StartedStep ==
    ASSUME IndInv, Next
    PROVE  StartedBound'
  <1>. USE DEF IndInv, StartedBound
  <1>0. started \in Nat /\ dialled \in Nat
    BY ConnectorSlots, ClientAssumption DEF TypeOK
  <1>1. ASSUME NEW k \in Connectors, Attempt(k)
        PROVE  StartedBound'
    <2>1. ~connected' /\ started' = started
      BY <1>1, AttemptFacts DEF OneConnector
    <2>2. \A j \in Connectors : j > started => cpc'[j] = "off"
      BY <1>1, AttemptFacts DEF Connecting
    <2>3. Holding' \subseteq {k}
      BY <1>1, AttemptFacts DEF OneConnector, Connecting, Holding
    <2>4. CASE Dial(k)
      BY <1>0, <2>1, <2>2, <2>4 DEF Dial
    <2>5. CASE ~Dial(k)
      <3>1. dialled' = dialled
        BY <1>1, <2>5 DEF Attempt, ReconnectCheck, DialFails, HandshakeSend,
           HandshakeFails, HandshakeDone, TunNew, TunRoute, connectVars
      <3>2. k \in Holding' => k \in Holding
        <4>. USE DEF CGoto, ConnectFails, Holding, TypeOK
        <4>1. CASE ReconnectCheck(k) \/ DialFails(k)
          BY <4>1 DEF ReconnectCheck, DialFails
        <4>2. CASE HandshakeSend(k) \/ HandshakeDone(k)
          BY <4>2 DEF HandshakeSend, HandshakeDone
        <4>3. CASE HandshakeFails(k)
          BY <4>3 DEF HandshakeFails
        <4>4. CASE TunNew(k)
          BY <4>4 DEF TunNew
        <4>5. CASE TunRoute(k)
          BY <4>5 DEF TunRoute
        <4>. QED BY <1>1, <2>5, <4>1, <4>2, <4>3, <4>4, <4>5 DEF Attempt
      <3>. QED BY <2>1, <2>2, <2>3, <3>1, <3>2
    <2>. QED BY <2>4, <2>5
  <1>2. ASSUME NEW k \in Connectors, SetConnected(k)
        PROVE  StartedBound'
    <2>1. k \in Holding
      BY <1>2 DEF SetConnected, CGoto, Holding
    <2>2. UNCHANGED <<started, dialled>> /\ \A j \in Connectors : cpc[j] = "off" => cpc'[j] = "off"
      BY <1>2 DEF SetConnected, CGoto, TypeOK
    <2>. QED BY <2>1, <2>2
  <1>3. ASSUME NEW k \in Connectors, StartLoops(k)
        PROVE  StartedBound'
    BY <1>3 DEF StartLoops, CGoto, TypeOK, fieldVars, Holding
  <1>4. ASSUME NEW g \in Gens, Loss(g)
        PROVE  StartedBound'
    <2>1. dialled' = dialled
      BY <1>4, LossKeeps
    <2>2. CASE HandleDisconnect
      <3>1. CASE connected /\ AutoReconnect
        <4>1. /\ started + 1 \in Connectors /\ ~connected'
              /\ started' = started + 1 /\ started <= dialled
              /\ cpc' = [cpc EXCEPT ![started + 1] = "check"]
          BY <2>2, <3>1, SpawnFacts
        <4>2. Holding = {}
          BY <3>1 DEF OneConnector, Connecting, Holding
        <4>3. Holding' = {}
          BY <4>1, <4>2 DEF Holding, TypeOK
        <4>4. started' <= dialled' + 1
          BY <1>0, <2>1, <4>1
        <4>5. \A j \in Connectors : j > started' => j > started /\ j # started + 1
          BY <1>0, <4>1, ConnectorSlots
        <4>6. \A j \in Connectors : j > started' => cpc'[j] = "off"
          BY <4>1, <4>5 DEF TypeOK
        <4>. QED BY <4>1, <4>3, <4>4, <4>6
      <3>2. CASE ~(connected /\ AutoReconnect)
        BY <2>1, <2>2, <3>2, SpawnFacts DEF Holding
      <3>. QED BY <3>1, <3>2
    <2>3. CASE ~HandleDisconnect
      BY <1>4, <2>1, <2>3, LossHandled DEF Holding
    <2>. QED BY <2>2, <2>3
  <1>5. ASSUME NEW g \in Gens, LoopStep(g)
        PROVE  StartedBound'
    BY <1>5, LoopFacts DEF connectVars, fieldVars, Holding
  <1>6. CASE DisconnectFlag \/ DisconnectSteps
    BY <1>6, DisconnectFacts DEF connectVars, Holding
  <1>. QED BY <1>1, <1>2, <1>3, <1>4, <1>5, <1>6, StepKinds

LEMMA HasGenStep ==
    ASSUME IndInv, Next
    PROVE  HasGen'
  <1>. USE DEF IndInv, HasGen
  <1>1. ASSUME NEW k \in Connectors, Dial(k)
        PROVE  HasGen'
    <2>1. dialled + 1 \in Gens
      BY <1>1, ClientAssumption DEF Dial, TypeOK, Gens
    <2>. QED BY <1>1, <2>1 DEF Dial, CGoto, TypeOK
  <1>2. ASSUME NEW k \in Connectors, Attempt(k) \/ SetConnected(k) \/ StartLoops(k), ~Dial(k)
        PROVE  HasGen'
    <2>1. cgen' = cgen
      BY <1>2 DEF Attempt, ReconnectCheck, DialFails, HandshakeSend, HandshakeFails,
         HandshakeDone, TunNew, TunRoute, SetConnected, StartLoops
    <2>2. \A j \in Connectors : j # k => cpc'[j] = cpc[j]
      BY <1>2, AttemptFacts DEF SetConnected, StartLoops, CGoto, TypeOK
    <2>3. cpc'[k] \in {"off", "check", "dial"} \/ cpc[k] \notin {"off", "check", "dial"}
      BY <1>2 DEF Attempt, ReconnectCheck, DialFails, HandshakeSend, HandshakeFails,
         HandshakeDone, TunNew, TunRoute, SetConnected, StartLoops, CGoto,
         ConnectFails, TypeOK
    <2>. QED BY <2>1, <2>2, <2>3 DEF TypeOK
  <1>3. ASSUME NEW g \in Gens, Loss(g)
        PROVE  HasGen'
    <2>1. cgen' = cgen
      BY <1>3, LossKeeps
    <2>2. CASE HandleDisconnect
      <3>1. CASE UNCHANGED cpc
        BY <2>1, <3>1
      <3>2. CASE /\ started + 1 \in Connectors
                 /\ cpc' = [cpc EXCEPT ![started + 1] = "check"]
        <4>1. \A j \in Connectors : cpc'[j] = "check" \/ cpc'[j] = cpc[j]
          BY <3>2 DEF TypeOK
        <4>. QED BY <2>1, <4>1
      <3>. QED BY <2>2, <3>1, <3>2, SpawnFacts
    <2>3. CASE ~HandleDisconnect
      BY <1>3, <2>1, <2>3, LossHandled
    <2>. QED BY <2>2, <2>3
  <1>4. ASSUME NEW g \in Gens, LoopStep(g)
        PROVE  HasGen'
    BY <1>4, LoopFacts DEF connectVars
  <1>5. CASE DisconnectFlag \/ DisconnectSteps
    BY <1>5, DisconnectFacts DEF connectVars
  <1>. QED BY <1>1, <1>2, <1>3, <1>4, <1>5, StepKinds

LEMMA CancelledStep ==
    ASSUME IndInv, Next
    PROVE  CancelledByMain'
  <1>. USE DEF IndInv, CancelledByMain
  <1>0. 1 \in Connectors
    BY ConnectorSlots
  <1>1. ASSUME NEW k \in Connectors, Attempt(k)
        PROVE  CancelledByMain'
    <2>1. k = 1 => mainPC = "connect"
      BY <1>1, AttemptFacts DEF Connecting
    <2>2. k = 1 /\ mainPC' = "exited" => cpc'[1] = "off"
      BY <1>1, <2>1 DEF Attempt, ReconnectCheck, DialFails, Dial, HandshakeSend,
         HandshakeFails, HandshakeDone, TunNew, TunRoute, CGoto, ConnectFails, TypeOK
    <2>3. k # 1 => cpc'[1] = cpc[1] /\ mainPC' = mainPC
      BY <1>0, <1>1, AttemptFacts DEF Attempt, ReconnectCheck, DialFails, Dial,
         HandshakeSend, HandshakeFails, HandshakeDone, TunNew, TunRoute, ConnectFails
    <2>4. ctxDone' = ctxDone /\ mainPC' \in {mainPC, "exited"}
      BY <1>1, AttemptFacts
    <2>. QED BY <2>1, <2>2, <2>3, <2>4
  <1>2. ASSUME NEW k \in Connectors, SetConnected(k)
        PROVE  CancelledByMain'
    BY <1>0, <1>2 DEF SetConnected, CGoto, TypeOK
  <1>3. ASSUME NEW k \in Connectors, StartLoops(k)
        PROVE  CancelledByMain'
    <2>1. k = 1 => mainPC = "connect"
      BY <1>3 DEF StartLoops, CGoto
    <2>. QED BY <1>0, <1>3, <2>1 DEF StartLoops, CGoto, TypeOK, fieldVars
  <1>4. ASSUME NEW g \in Gens, Loss(g)
        PROVE  CancelledByMain'
    <2>1. UNCHANGED <<mainPC, ctxDone>>
      BY <1>4, LossKeeps
    <2>2. cpc'[1] = cpc[1]
      <3>0. started + 1 # 1
        BY ClientAssumption DEF TypeOK, Connectors
      <3>1. CASE HandleDisconnect
        BY <1>0, <3>0, <3>1, SpawnFacts DEF TypeOK
      <3>2. CASE ~HandleDisconnect
        BY <1>4, <3>2, LossHandled
      <3>. QED BY <3>1, <3>2
    <2>. QED BY <2>1, <2>2
  <1>5. ASSUME NEW g \in Gens, LoopStep(g)
        PROVE  CancelledByMain'
    BY <1>5, LoopFacts DEF connectVars, fieldVars
  <1>6. CASE DisconnectFlag \/ DisconnectSteps
    BY <1>6, DisconnectFacts DEF connectVars
  <1>. QED BY <1>1, <1>2, <1>3, <1>4, <1>5, <1>6, StepKinds

(* Nothing but a cancelled context or the end of the process stops a retry. *)
LEMMA TryingStep ==
    ASSUME IndInv, Next
    PROVE  Trying'
  <1>. USE DEF IndInv, Trying
  <1>1. ASSUME NEW k \in Connectors, Attempt(k)
        PROVE  Trying'
    <2>1. SUFFICES ASSUME mainPC' \in {"connect", "running"}
                   PROVE  k \in Connecting'
      OBVIOUS
    <2>2. ~ctxDone
      BY <1>1, <2>1, AttemptFacts DEF CancelledByMain
    <2>. QED BY <1>1, <2>1, <2>2, AttemptFacts DEF Connecting
  <1>2. ASSUME NEW k \in Connectors, SetConnected(k)
        PROVE  Trying'
    BY <1>2 DEF SetConnected
  <1>3. ASSUME NEW k \in Connectors, StartLoops(k)
        PROVE  Trying'
    <2>1. Connecting' = Connecting /\ connected' = connected
      BY <1>3 DEF StartLoops, CGoto, Connecting, TypeOK, fieldVars
    <2>2. k = 1 => mainPC = "connect"
      BY <1>3 DEF StartLoops, CGoto, CancelledByMain
    <2>3. mainPC' = mainPC \/ mainPC = "connect"
      BY <1>3, <2>2 DEF StartLoops
    <2>. QED BY <2>1, <2>3
  <1>4. ASSUME NEW g \in Gens, Loss(g)
        PROVE  Trying'
    <2>1. mainPC' = mainPC
      BY <1>4, LossKeeps
    <2>2. CASE HandleDisconnect
      <3>1. CASE connected /\ AutoReconnect
        <4>1. started + 1 \in Connecting'
          BY <2>2, <3>1, SpawnFacts DEF Connecting, TypeOK
        <4>. QED BY <4>1
      <3>2. CASE ~(connected /\ AutoReconnect)
        BY <2>1, <2>2, <3>2, SpawnFacts DEF Connecting
      <3>. QED BY <3>1, <3>2
    <2>3. CASE ~HandleDisconnect
      BY <1>4, <2>1, <2>3, LossHandled DEF Connecting
    <2>. QED BY <2>2, <2>3
  <1>5. ASSUME NEW g \in Gens, LoopStep(g)
        PROVE  Trying'
    BY <1>5, LoopFacts DEF connectVars, fieldVars, Connecting
  <1>6. CASE DisconnectFlag \/ DisconnectSteps
    BY <1>6, DisconnectFacts
  <1>. QED BY <1>1, <1>2, <1>3, <1>4, <1>5, <1>6, StepKinds

(* receiveLoop ends only by reporting the loss or on a cancelled context. *)
LEMMA ReceiverStep ==
    ASSUME IndInv, Next
    PROVE  ReceiverAlive'
  <1>. USE DEF IndInv, ReceiverAlive
  <1>1. ASSUME NEW k \in Connectors, Attempt(k)
        PROVE  ReceiverAlive'
    BY <1>1, AttemptFacts DEF OneConnector
  <1>2. ASSUME NEW k \in Connectors, SetConnected(k)
        PROVE  ReceiverAlive'
    BY <1>2 DEF SetConnected, CGoto, TypeOK
  <1>3. ASSUME NEW k \in Connectors, StartLoops(k)
        PROVE  ReceiverAlive'
    BY <1>3 DEF StartLoops, CGoto, TypeOK, HasGen
  <1>4. ASSUME NEW g \in Gens, Loss(g)
        PROVE  ReceiverAlive'
    <2>1. CASE HandleDisconnect
      BY <2>1, SpawnFacts
    <2>2. CASE ~HandleDisconnect
      BY <1>4, <2>2, LossHandled, LossKeeps
    <2>. QED BY <2>1, <2>2
  <1>5. ASSUME NEW g \in Gens, LoopStep(g)
        PROVE  ReceiverAlive'
    <2>1. UNCHANGED <<connected, ctxDone, cpc>>
      BY <1>5, LoopFacts DEF connectVars, fieldVars
    <2>2. ctxDone \/ \A h \in Gens : rpc[h] \in {"check", "read"} => rpc'[h] \in {"check", "read"}
      BY <1>5 DEF LoopStep, TCheck, TReadError, TRead, TWrite, RCheck, RPacket,
         KeepaliveLoop, KCancelled, KTick, KWrite, LinkLost, ConcurrentWritePanic,
         rVars, TypeOK
    <2>. QED BY <2>1, <2>2
  <1>6. CASE DisconnectFlag \/ DisconnectSteps
    BY <1>6, DisconnectFacts DEF connectVars
  <1>. QED BY <1>1, <1>2, <1>3, <1>4, <1>5, <1>6, StepKinds

-----------------------------------------------------------------------------
(* Types, variable group by variable group *)

LEMMA TypeAttempt ==
    ASSUME IndInv, NEW k \in Connectors,
           Attempt(k) \/ SetConnected(k) \/ StartLoops(k)
    PROVE  TypeOK'
  <1>. USE DEF IndInv, TypeOK, CGoto, ConnectFails, connectVars, fieldVars,
               osVars, tVars, rVars, kVars
  <1>1. CASE ReconnectCheck(k)
    BY <1>1 DEF ReconnectCheck
  <1>2. CASE DialFails(k)
    BY <1>2 DEF DialFails
  <1>3. CASE Dial(k)
    <2>1. dialled + 1 \in 0 .. MaxGen /\ dialled + 1 \in Gens
      BY <1>3, ClientAssumption DEF Dial, Gens
    <2>2. cpc' \in [Connectors -> {"off", "check", "dial", "init", "await", "tun",
                                   "route", "flag", "loops"}]
      BY <1>3 DEF Dial
    <2>3. cgen' \in [Connectors -> 0 .. MaxGen]
      BY <1>3, <2>1 DEF Dial
    <2>4. link' \in [Gens -> {"none", "open", "lost", "closed"}]
      BY <1>3, <2>1 DEF Dial
    <2>5. conn' \in 0 .. MaxGen /\ dialled' \in 0 .. MaxGen
      BY <1>3, <2>1 DEF Dial
    <2>. QED BY <1>3, <2>2, <2>3, <2>4, <2>5 DEF Dial
  <1>4. CASE HandshakeSend(k)
    BY <1>4 DEF HandshakeSend, WriteOK
  <1>5. CASE HandshakeFails(k)
    BY <1>5 DEF HandshakeFails
  <1>6. CASE HandshakeDone(k)
    BY <1>6 DEF HandshakeDone
  <1>7. CASE TunNew(k)
    <2>1. tunDev' \in 0 .. MaxGen
      BY <1>7 DEF TunNew
    <2>2. dev' \in [Gens -> {"none", "open", "closed"}]
      BY <1>7 DEF TunNew
    <2>3. cpc' \in [Connectors -> {"off", "check", "dial", "init", "await", "tun",
                                   "route", "flag", "loops"}]
      BY <1>7 DEF TunNew
    <2>. QED BY <1>7, <2>1, <2>2, <2>3 DEF TunNew
  <1>8. CASE TunRoute(k)
    BY <1>8 DEF TunRoute
  <1>9. CASE SetConnected(k)
    BY <1>9 DEF SetConnected
  <1>10. CASE StartLoops(k)
    BY <1>10 DEF StartLoops
  <1>. QED BY <1>1, <1>2, <1>3, <1>4, <1>5, <1>6, <1>7, <1>8, <1>9, <1>10 DEF Attempt

LEMMA TypeLoss ==
    ASSUME IndInv, NEW g \in Gens, Loss(g)
    PROVE  TypeOK'
  <1>. USE DEF IndInv, TypeOK
  <1>1. /\ cpc' \in [Connectors -> {"off", "check", "dial", "init", "await", "tun",
                                    "route", "flag", "loops"}]
        /\ started' \in Connectors
        /\ connected' \in BOOLEAN
    <2>1. CASE HandleDisconnect
      BY <2>1, SpawnFacts
    <2>2. CASE ~HandleDisconnect
      BY <2>2, LossHandled
    <2>. QED BY <2>1, <2>2
  <1>2. /\ tpc' \in [Gens -> {"off", "check", "read", "write", "done"}]
        /\ rpc' \in [Gens -> {"off", "check", "read", "done"}]
    BY DEF Loss, TWriteError, RDisconnect, RReadError, tVars, rVars
  <1>3. UNCHANGED <<mainPC, cgen, dialled, conn, tunDev, ctxDone, link, dev,
                    routed, tat, rat, kpc, kat, crashed>>
    BY DEF Loss, TWriteError, RDisconnect, RReadError, WriteErr, osVars,
       tVars, rVars, kVars
  <1>. QED BY <1>1, <1>2, <1>3

LEMMA TypeLoop ==
    ASSUME TypeOK, NEW g \in Gens, LoopStep(g)
    PROVE  TypeOK'
  <1>. USE DEF TypeOK
  <1>1. UNCHANGED <<mainPC, cpc, cgen, started, dialled, conn, tunDev, connected, ctxDone>>
    BY LoopFacts DEF connectVars, fieldVars
  <1>2. UNCHANGED <<dev, routed>>
    BY DEF LoopStep, TCheck, TReadError, TRead, TWrite, RCheck, RPacket,
       KeepaliveLoop, KCancelled, KTick, KWrite, LinkLost, ConcurrentWritePanic, osVars
  <1>3. /\ tpc' \in [Gens -> {"off", "check", "read", "write", "done"}]
        /\ tat' \in [Gens -> 0 .. MaxGen]
    BY DEF LoopStep, TCheck, TReadError, TRead, TWrite, RCheck, RPacket,
       KeepaliveLoop, KCancelled, KTick, KWrite, LinkLost, ConcurrentWritePanic, tVars
  <1>4. /\ rpc' \in [Gens -> {"off", "check", "read", "done"}]
        /\ rat' \in [Gens -> 0 .. MaxGen]
    BY DEF LoopStep, TCheck, TReadError, TRead, TWrite, RCheck, RPacket,
       KeepaliveLoop, KCancelled, KTick, KWrite, LinkLost, ConcurrentWritePanic, rVars
  <1>5. /\ kpc' \in [Gens -> {"off", "wait", "write", "done"}]
        /\ kat' \in [Gens -> 0 .. MaxGen]
    BY DEF LoopStep, TCheck, TReadError, TRead, TWrite, RCheck, RPacket,
       KeepaliveLoop, KCancelled, KTick, KWrite, LinkLost, ConcurrentWritePanic, kVars
  <1>6. link' \in [Gens -> {"none", "open", "lost", "closed"}]
    BY DEF LoopStep, TCheck, TReadError, TRead, TWrite, RCheck, RPacket, KeepaliveLoop,
       KCancelled, KTick, KWrite, LinkLost, ConcurrentWritePanic, WriteOK, WriteErr
  <1>7. crashed' \in BOOLEAN
    BY DEF LoopStep, TCheck, TReadError, TRead, TWrite, RCheck, RPacket,
       KeepaliveLoop, KCancelled, KTick, KWrite, LinkLost, ConcurrentWritePanic
  <1>. QED BY <1>1, <1>2, <1>3, <1>4, <1>5, <1>6, <1>7

LEMMA TypeDisconnect ==
    ASSUME TypeOK, DisconnectFlag \/ DisconnectSteps
    PROVE  TypeOK'
  <1>. USE DEF TypeOK, MainGoto, connectVars, fieldVars, osVars, tVars,
               rVars, kVars
  <1>1. CASE DisconnectFlag
    BY <1>1 DEF DisconnectFlag
  <1>2. CASE DisconnectConn
    BY <1>2 DEF DisconnectConn, WriteOK, WriteErr
  <1>3. CASE DisconnectCancel
    BY <1>3 DEF DisconnectCancel
  <1>4. CASE DisconnectTun
    BY <1>4 DEF DisconnectTun
  <1>5. CASE DisconnectWait
    BY <1>5 DEF DisconnectWait
  <1>. QED BY <1>1, <1>2, <1>3, <1>4, <1>5 DEF DisconnectSteps

LEMMA IndInvStep == IndInv /\ [Next]_vars => IndInv'
  <1>1. ASSUME IndInv, Next
        PROVE  IndInv'
    <2>1. TypeOK'
      <3>0. TypeOK
        BY <1>1 DEF IndInv
      <3>. QED BY <1>1, <3>0, StepKinds, TypeAttempt, TypeLoss, TypeLoop, TypeDisconnect
    <2>. QED BY <1>1, <2>1, OneConnectorStep, StartedStep, HasGenStep, CancelledStep,
                TryingStep, ReceiverStep DEF IndInv
  <1>2. ASSUME IndInv, UNCHANGED vars
        PROVE  IndInv'
    BY <1>2 DEF vars, connectVars, fieldVars, osVars, tVars, rVars, kVars,
       IndInv, TypeOK, OneConnector, Connecting, StartedBound, Holding, HasGen,
       CancelledByMain, Trying, ReceiverAlive
  <1>. QED BY <1>1, <1>2

LEMMA Invariance == Spec => []IndInv
  BY InitIndInv, IndInvStep, PTL DEF Spec

-----------------------------------------------------------------------------

(* The variables keep their types; in particular handleDisconnect, called  *)
(* by any loop at any time, always finds a slot for its reconnectLoop.     *)
THEOREM TypeCorrect == Spec => []TypeOK
  <1>1. IndInv => TypeOK
    BY DEF IndInv
  <1>. QED BY <1>1, Invariance, PTL

(* At most one goroutine tries to connect, and none while the client is    *)
(* connected (client.go:364-378), for any number of reconnections.         *)
THEOREM SingleConnector == Spec => []OneConnector
  <1>1. IndInv => OneConnector
    BY DEF IndInv
  <1>. QED BY <1>1, Invariance, PTL

(* With AutoReconnect the client never gives up (client.go:375-399). *)
THEOREM NeverGivesUp == Spec => []RetryAlive
  <1>1. IndInv => RetryAlive
    BY DEF IndInv, Trying, RetryAlive
  <1>. QED BY <1>1, Invariance, PTL

(* While the client says it is connected a receiveLoop watches a           *)
(* connection (client.go:163-169,294-302).                                 *)
THEOREM ReceiverWatches == Spec => []ReceiverAlive
  <1>1. IndInv => ReceiverAlive
    BY DEF IndInv
  <1>. QED BY <1>1, Invariance, PTL

-----------------------------------------------------------------------------
(* Without AutoReconnect there is one generation, and Disconnect undoes it *)

(* The fields refer to generation 1 or to nothing. *)
OneGeneration ==
    /\ \A k \in Connectors : k # 1 => cpc[k] = "off"
    /\ cpc[1] # "check"
    /\ conn = dialled /\ dialled \in {0, 1}
    /\ cpc[1] = "dial" => dialled = 0
    /\ cpc[1] \notin {"off", "dial"} => dialled = 1 /\ cgen[1] = 1
    /\ mainPC \notin {"connect", "exited"} => dialled = 1
    /\ \A g \in Gens : g # 1 => link[g] = "none" /\ dev[g] = "none"
    /\ tunDev \in {0, 1}
    /\ tunDev = 0 => dev[1] # "open" /\ ~routed
    /\ cpc[1] \in {"dial", "init", "await", "tun"} => ~routed
    /\ cpc[1] = "route" => tunDev = 1

(* What Disconnect has undone after each of its steps. *)
Undone ==
    /\ mainPC \in {"sending", "cancel", "tun", "wait", "done"} => ~connected
    /\ mainPC \in {"cancel", "tun", "wait", "done"} => link[1] = "closed"
    /\ mainPC \in {"wait", "done"} => dev[1] # "open" /\ ~routed
    /\ mainPC = "done" => LoopsEnded

OnceInv == IndInv /\ OneGeneration /\ Undone

LEMMA OnceInit == Init => OnceInv
  <1>. SUFFICES ASSUME Init PROVE OnceInv
    OBVIOUS
  <1>1. IndInv
    BY InitIndInv
  <1>2. OneGeneration /\ Undone
    BY ClientAssumption DEF Init, OneGeneration, Undone, Connectors, Gens
  <1>. QED BY <1>1, <1>2 DEF OnceInv

LEMMA OnceConnect ==
    ASSUME OnceInv, NEW k \in Connectors, Connect(k)
    PROVE  OneGeneration' /\ Undone'
  <1>. USE ClientAssumption
       DEF Gens, CGoto, ConnectFails, connectVars, fieldVars, osVars
  <1>1. k = 1 /\ mainPC = "connect" /\ TypeOK /\ OneGeneration
    <2>1. cpc[k] # "off"
      BY Zenon DEF Connect, ReconnectCheck, DialFails, Dial, HandshakeSend, HandshakeFails,
            HandshakeDone, TunNew, TunRoute, SetConnected, StartLoops, CGoto, ConnectFails
    <2>. QED BY <2>1 DEF OnceInv, IndInv, OneGeneration, CancelledByMain
  <1>2. 1 \in Gens /\ 1 \in Connectors
    BY ConnectorSlots
  <1>3. mainPC' \in {"connect", "running", "exited"}
    BY <1>1 DEF Connect, ReconnectCheck, DialFails, Dial, HandshakeSend, HandshakeFails,
          HandshakeDone, TunNew, TunRoute, SetConnected, StartLoops
  <1>. HIDE DEF Gens
  <1>4. OneGeneration'
    <2>. USE <1>1, <1>2 DEF TypeOK, OneGeneration
    <2>1. CASE ReconnectCheck(k)
      BY <2>1 DEF ReconnectCheck
    <2>2. CASE DialFails(k)
      BY <2>2 DEF DialFails
    <2>3. CASE Dial(k)
      BY <2>3 DEF Dial
    <2>4. CASE HandshakeSend(k)
      BY <2>4 DEF HandshakeSend
    <2>5. CASE HandshakeFails(k)
      BY <2>5 DEF HandshakeFails
    <2>6. CASE HandshakeDone(k)
      BY <2>6 DEF HandshakeDone
    <2>7. CASE TunNew(k)
      BY <2>7 DEF TunNew
    <2>8. CASE TunRoute(k)
      BY <2>8 DEF TunRoute
    <2>9. CASE SetConnected(k)
      BY <2>9 DEF SetConnected
    <2>10. CASE StartLoops(k)
      BY <2>10 DEF StartLoops
    <2>. QED BY <2>1, <2>2, <2>3, <2>4, <2>5, <2>6, <2>7, <2>8, <2>9, <2>10 DEF Connect
  <1>. QED BY <1>3, <1>4 DEF Undone

(* A loop touches the connectors, the devices and the machine not at all,  *)
(* and when all have ended none takes a step.                              *)
LEMMA OnceLoops ==
    ASSUME OnceInv, ~AutoReconnect, NEW g \in Gens,
           TunReadLoop(g) \/ ReceiveLoop(g) \/ KeepaliveLoop(g)
    PROVE  OneGeneration' /\ Undone'
  <1>1. UNCHANGED <<mainPC, cpc, cgen, dialled, conn, tunDev, link, dev, routed>>
    BY DEF TunReadLoop, ReceiveLoop, KeepaliveLoop, TCheck, TReadError, TRead, TWrite,
       TWriteError, RCheck, RPacket, RDisconnect, RReadError, KCancelled, KTick, KWrite,
       HandleDisconnect, connectVars, fieldVars, osVars
  <1>2. connected' => connected
    BY DEF TunReadLoop, ReceiveLoop, KeepaliveLoop, TCheck, TReadError, TRead, TWrite,
       TWriteError, RCheck, RPacket, RDisconnect, RReadError, KCancelled, KTick, KWrite,
       HandleDisconnect, connectVars, fieldVars
  <1>3. ~LoopsEnded
    BY DEF LoopsEnded, TunReadLoop, ReceiveLoop, KeepaliveLoop, TCheck, TReadError, TRead,
       TWrite, TWriteError, RCheck, RPacket, RDisconnect, RReadError, KCancelled, KTick, KWrite
  <1>. QED BY <1>1, <1>2, <1>3 DEF OnceInv, OneGeneration, Undone

LEMMA OnceDisconnect ==
    ASSUME OnceInv, DisconnectFlag \/ DisconnectSteps
    PROVE  OneGeneration' /\ Undone'
  <1>. USE ClientAssumption
       DEF OnceInv, OneGeneration, Undone, MainGoto, connectVars, fieldVars, osVars
  <1>1. 1 \in Gens /\ TypeOK /\ (mainPC # "connect" => cpc[1] = "off")
    BY DEF Gens, IndInv, CancelledByMain
  <1>2. CASE DisconnectFlag
    BY <1>1, <1>2 DEF DisconnectFlag
  <1>3. CASE DisconnectConn
    BY <1>1, <1>3 DEF DisconnectConn, TypeOK
  <1>4. CASE DisconnectCancel
    BY <1>1, <1>4 DEF DisconnectCancel
  <1>5. CASE DisconnectTun
    BY <1>1, <1>5 DEF DisconnectTun, TypeOK
  <1>6. CASE DisconnectWait
    <2>1. LoopsEnded'
      BY <1>6 DEF DisconnectWait, LoopsEnded, tVars, rVars, kVars
    <2>. QED BY <1>1, <1>6, <2>1 DEF DisconnectWait
  <1>. QED BY <1>2, <1>3, <1>4, <1>5, <1>6 DEF DisconnectSteps

LEMMA OnceEnvironment ==
    ASSUME OnceInv, NEW g \in Gens, LinkLost(g) \/ ConcurrentWritePanic(g)
    PROVE  OneGeneration' /\ Undone'
  <1>. USE DEF OnceInv, OneGeneration, Undone, LoopsEnded, connectVars, fieldVars, osVars,
               tVars, rVars, kVars
  <1>1. CASE LinkLost(g)
    <2>1. TypeOK
      BY DEF IndInv
    <2>. QED BY <1>1, <2>1 DEF LinkLost, TypeOK
  <1>2. CASE ConcurrentWritePanic(g)
    BY <1>2 DEF ConcurrentWritePanic
  <1>. QED BY <1>1, <1>2

(* Without AutoReconnect, as the CLI runs the client, everything Connect    *)
(* made is undone when Disconnect returns (client.go:402-425).              *)
THEOREM DisconnectCleans == Spec /\ ~AutoReconnect => []CleanDisconnect
  <1>. SUFFICES ASSUME ~AutoReconnect PROVE Spec => []CleanDisconnect
    OBVIOUS
  <1>1. OnceInv /\ [Next]_vars => OnceInv'
    <2>. SUFFICES ASSUME OnceInv, [Next]_vars PROVE OnceInv'
      OBVIOUS
    <2>1. IndInv'
      BY IndInvStep DEF OnceInv
    <2>2. CASE UNCHANGED vars
      BY <2>1, <2>2 DEF vars, OnceInv, OneGeneration, Undone, LoopsEnded, connectVars,
         fieldVars, osVars, tVars, rVars, kVars
    <2>3. CASE Next
      BY <2>1, <2>3, OnceConnect, OnceLoops, OnceDisconnect, OnceEnvironment
         DEF Next, OnceInv
    <2>. QED BY <2>2, <2>3
  <1>2. OnceInv => CleanDisconnect
    BY DEF OnceInv, OneGeneration, Undone, CleanDisconnect
  <1>. QED BY <1>1, <1>2, OnceInit, PTL DEF Spec
=============================================================================
