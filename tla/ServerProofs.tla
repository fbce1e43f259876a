---------------------------- MODULE ServerProofs ----------------------------
(***************************************************************************)
(* Proofs about the server, for any number of connections and addresses,   *)
(* any buffer sizes and, where session IDs matter, with or without         *)
(* collisions.                                                             *)
(***************************************************************************)
EXTENDS Server, IPPoolProofs

(* Handlers that have drawn a session ID. *)
HasID(c) == pc[c] = "allocate" \/ HoldsAddress(c)

(* connChan holds connections that wait for acceptLoop, each once. *)
BacklogQueued ==
    /\ \A i \in 1 .. Len(backlog) : pc[backlog[i]] = "queued"
    /\ \A i, j \in 1 .. Len(backlog) : backlog[i] = backlog[j] => i = j

(* A handler between Allocate and Release knows its address and its ID. *)
HandlerData ==
    \A c \in Conns :
        /\ HasID(c) => sid[c] \in SessionIDs
        /\ HoldsAddress(c) => ip[c] \in Hosts

(* An entry of the table was made by a handler that is in service. *)
SessionsOwned ==
    \A id \in SessionIDs :
        sessions[id] # NoConn => InService(sessions[id]) /\ sid[sessions[id]] = id

(* The read lock is held exactly during tunReadLoop's Write, to a session  *)
(* that is in the table; the loop does not run before Start.               *)
LockHeld ==
    /\ phase = "new" => tunPC = "off"
    /\ rlocked <=> tunPC = "write"
    /\ tunPC = "write" => tunConn \in Conns /\ Registered(tunConn)

(* Nothing is left to run when Stop has returned. *)
Quiesced ==
    phase = "stopped" =>
        /\ acceptPC = "done"
        /\ tunPC \in {"off", "done"}
        /\ Handlers = {}

IndInv ==
    /\ TypeOK
    /\ BacklogQueued
    /\ HandlerData
    /\ AddressesDistinct
    /\ PoolExact
    /\ SessionsOwned
    /\ LockHeld
    /\ Quiesced

-----------------------------------------------------------------------------
(***************************************************************************)
(* Most steps fall into two kinds, and for those the invariant is shown    *)
(* once: moves of a handler that touch nothing but its program counter     *)
(* and the send buffer, and steps of the other goroutines and the clients  *)
(* that touch no handler and neither table nor pool.                       *)
(***************************************************************************)

QuietMove(c) ==
    /\ \/ Goto(c, "hello", "close")
       \/ Goto(c, "respond", "check") \/ Goto(c, "respond", "unregister")
       \/ Goto(c, "check", "read") \/ Goto(c, "check", "unregister")
       \/ Goto(c, "read", "check") \/ Goto(c, "read", "keepalive")
       \/ Goto(c, "read", "unregister") \/ Goto(c, "keepalive", "check")
    /\ unread' \in [Conns -> 0 .. SendBuf]
    /\ UNCHANGED <<phase, acceptPC, backlog, peer, sid, ip, sessions,
                   used, nextHost, rlocked, tunPC, tunConn>>

QuietSteps(c) ==
    \/ HelloError(c) \/ HelloReject(c) \/ Respond(c) \/ CheckCtx(c)
    \/ ReadError(c) \/ ReadPacket(c) \/ ReadKeepAlive(c) \/ ReadDisconnect(c)
    \/ KeepAliveReply(c)

ControlFrame ==
    /\ unread' \in [Conns -> 0 .. SendBuf]
    /\ UNCHANGED <<backlog, pc, sid, ip, sessions, used, nextHost>>

ControlSteps ==
    \/ StartTUN \/ StartListen \/ StopCancel \/ StopSteps
    \/ AcceptCheck \/ AcceptClosed \/ TunReadLoop
    \/ \E c \in Conns : PeerClose(c) \/ PeerDrain(c) \/ ConcurrentWritePanic(c)

(* What is left changes what a slot is, or the table or the pool. *)
SlotSteps(c) ==
    \/ Upgrade(c) \/ Enqueue(c) \/ EnqueueRefused(c)
    \/ \E id \in SessionIDs : HelloAccept(c, id)
    \/ AllocateIP(c) \/ Register(c) \/ Unregister(c) \/ ReleaseIP(c)
    \/ CloseConn(c)

LEMMA StepKinds ==
    ASSUME Next
    PROVE  \/ ControlSteps
           \/ AcceptConn
           \/ \E c \in Conns : QuietSteps(c) \/ SlotSteps(c)
  BY Zenon DEF Next, AcceptLoop, HandleConnection, Peer, ControlSteps,
               QuietSteps, SlotSteps

LEMMA WriteType ==
    ASSUME TypeOK, NEW c \in Conns, WriteOK(c) \/ WriteErr(c)
    PROVE  unread' \in [Conns -> 0 .. SendBuf]
  <1>1. CASE peer[c] /\ unread[c] < SendBuf /\ unread' = [unread EXCEPT ![c] = @ + 1]
    <2>1. unread[c] + 1 \in 0 .. SendBuf
      BY <1>1, ServerAssumption DEF TypeOK
    <2>. QED BY <1>1, <2>1 DEF TypeOK
  <1>2. CASE UNCHANGED unread
    BY <1>2 DEF TypeOK
  <1>. QED BY <1>1, <1>2 DEF WriteOK, WriteErr

HandlerStates ==
    {"idle", "upgraded", "queued", "hello", "allocate", "register", "respond",
     "check", "read", "keepalive", "unregister", "release", "close"}

LEMMA Moved ==
    ASSUME TypeOK, NEW c \in Conns, NEW a, NEW b \in HandlerStates, Goto(c, a, b)
    PROVE  /\ pc[c] = a /\ pc'[c] = b
           /\ \A d \in Conns : d # c => pc'[d] = pc[d]
           /\ pc' \in [Conns -> HandlerStates]
  <1>1. pc \in [Conns -> HandlerStates]
    BY DEF TypeOK, HandlerStates
  <1>. QED BY <1>1 DEF Goto

LEMMA QuietIsMove ==
    ASSUME TypeOK, NEW c \in Conns, QuietSteps(c)
    PROVE  QuietMove(c)
  <1>. USE DEF QuietMove, tunVars, poolVars
  <1>1. CASE HelloError(c) \/ HelloReject(c)
    BY <1>1 DEF HelloError, HelloReject, TypeOK
  <1>2. CASE Respond(c)
    <2>1. unread' \in [Conns -> 0 .. SendBuf]
      BY <1>2, WriteType DEF Respond
    <2>. QED BY <1>2, <2>1 DEF Respond
  <1>3. CASE CheckCtx(c)
    <2>1. unread' \in [Conns -> 0 .. SendBuf]
      BY <1>3 DEF CheckCtx, TypeOK
    <2>2. CASE CtxDone
      BY <1>3, <2>1, <2>2 DEF CheckCtx
    <2>3. CASE ~CtxDone
      BY <1>3, <2>1, <2>3 DEF CheckCtx
    <2>. QED BY <2>2, <2>3
  <1>4. CASE ReadError(c) \/ ReadPacket(c) \/ ReadKeepAlive(c) \/ ReadDisconnect(c)
    BY <1>4 DEF ReadError, ReadPacket, ReadKeepAlive, ReadDisconnect, TypeOK
  <1>5. CASE KeepAliveReply(c)
    <2>1. unread' \in [Conns -> 0 .. SendBuf]
      BY <1>5, WriteType DEF KeepAliveReply
    <2>. QED BY <1>5, <2>1 DEF KeepAliveReply
  <1>. QED BY <1>1, <1>2, <1>3, <1>4, <1>5 DEF QuietSteps

LEMMA QuietFacts ==
    ASSUME TypeOK, NEW c \in Conns, QuietSteps(c)
    PROVE  /\ pc[c] # "queued" /\ pc' \in [Conns -> HandlerStates]
           /\ \A d \in Conns : d # c => pc'[d] = pc[d]
           /\ \A d \in Conns : InService(d)' <=> InService(d)
           /\ \A d \in Conns : HoldsAddress(d)' <=> HoldsAddress(d)
           /\ \A d \in Conns : HasID(d)' <=> HasID(d)
  <1>1. PICK a \in HandlerStates, b \in HandlerStates :
            /\ Goto(c, a, b)
            /\ a # "queued" /\ a # "allocate" /\ b # "allocate"
            /\ InService(c) <=> a \in {"respond", "check", "read", "keepalive", "unregister"}
            /\ a \in {"respond", "check", "read", "keepalive", "unregister"}
               <=> b \in {"respond", "check", "read", "keepalive", "unregister"}
            /\ a \notin {"register", "release"} /\ b \notin {"register", "release"}
    BY QuietIsMove DEF QuietMove, Goto, HandlerStates, InService
  <1>2. /\ pc[c] = a /\ pc'[c] = b /\ pc' \in [Conns -> HandlerStates]
        /\ \A d \in Conns : d # c => pc'[d] = pc[d]
    BY <1>1, Moved
  <1>3. InService(c)' <=> InService(c)
    BY <1>1, <1>2 DEF InService
  <1>4. HoldsAddress(c)' <=> HoldsAddress(c)
    BY <1>1, <1>2 DEF HoldsAddress
  <1>5. ASSUME NEW d \in Conns, d # c
        PROVE  /\ InService(d)' <=> InService(d)
               /\ HoldsAddress(d)' <=> HoldsAddress(d)
               /\ HasID(d)' <=> HasID(d)
    BY <1>2, <1>5 DEF InService, HoldsAddress, HasID
  <1>6. HasID(c)' <=> HasID(c)
    BY <1>1, <1>2, <1>4 DEF HasID
  <1>. QED BY <1>1, <1>2, <1>3, <1>4, <1>5, <1>6

LEMMA ControlIsFramed ==
    ASSUME TypeOK, LockHeld, ControlSteps
    PROVE  ControlFrame
  <1>. USE DEF ControlFrame, connVars, poolVars, tunVars
  <1>1. CASE StartTUN \/ StartListen \/ StopCancel \/ StopSteps
    BY <1>1 DEF StartTUN, StartListen, StopCancel, StopSteps, StopListener, StopHTTP,
                StopTUN, StopWait, TypeOK
  <1>2. CASE AcceptCheck \/ AcceptClosed
    BY <1>2 DEF AcceptCheck, AcceptClosed, TypeOK
  <1>3. CASE TunCheck \/ TunReadClosed \/ TunDrop \/ \E c \in Conns : TunForward(c)
    BY <1>3 DEF TunCheck, TunReadClosed, TunDrop, TunForward, TypeOK
  <1>4. CASE TunWrite
    <2>1. unread' \in [Conns -> 0 .. SendBuf]
      BY <1>4, WriteType DEF TunWrite, LockHeld
    <2>. QED BY <1>4, <2>1 DEF TunWrite
  <1>5. ASSUME NEW c \in Conns, PeerClose(c) \/ PeerDrain(c) \/ ConcurrentWritePanic(c)
        PROVE  ControlFrame
    BY <1>5, ServerAssumption DEF PeerClose, PeerDrain, ConcurrentWritePanic, TypeOK
  <1>. QED BY <1>1, <1>2, <1>3, <1>4, <1>5 DEF ControlSteps, TunReadLoop

-----------------------------------------------------------------------------

LEMMA InitIndInv == Init => IndInv
  <1>. SUFFICES ASSUME Init PROVE IndInv
    OBVIOUS
  <1>. USE DEF Init, HoldsAddress, InService, HasID
  <1>1. TypeOK
    <2>1. backlog \in Seq(Conns) /\ unread \in [Conns -> 0 .. SendBuf]
      BY ServerAssumption
    <2>2. PoolTypeOK
      BY PoolInitTypeOK
    <2>. QED BY <2>1, <2>2 DEF TypeOK
  <1>2. BacklogQueued
    BY DEF BacklogQueued
  <1>3. HandlerData /\ AddressesDistinct
    BY DEF HandlerData, AddressesDistinct
  <1>4. PoolExact
    BY DEF PoolExact, PoolInit
  <1>5. SessionsOwned /\ LockHeld /\ Quiesced
    BY DEF SessionsOwned, LockHeld, Quiesced
  <1>. QED BY <1>1, <1>2, <1>3, <1>4, <1>5 DEF IndInv

(* Every step stays within the types. *)
LEMMA TypeStep ==
    ASSUME IndInv, Next
    PROVE  TypeOK'
  <1>. USE ServerAssumption DEF IndInv, Goto
  <1>1. CASE ControlSteps
    <2>1. ControlFrame
      BY <1>1, ControlIsFramed
    <2>. USE DEF ControlSteps, StartTUN, StartListen, StopCancel, StopSteps,
            StopListener, StopHTTP, StopTUN, StopWait, AcceptCheck, AcceptClosed,
            TunReadLoop, TunCheck, TunReadClosed, TunDrop, TunWrite, TunForward,
            PeerClose, PeerDrain, ConcurrentWritePanic, TypeOK,
             connVars, tunVars
    <2>2. phase' \in {"new", "tun", "running", "failed", "cancelled",
                      "closing", "unlistened", "waiting", "stopped", "crashed"}
      BY <1>1
    <2>3. acceptPC' \in {"off", "check", "accept", "done"}
      BY <1>1
    <2>4. peer' \in [Conns -> BOOLEAN]
      BY <1>1
    <2>5. /\ rlocked' \in BOOLEAN
          /\ tunPC' \in {"off", "check", "read", "write", "done"}
          /\ tunConn' \in Conns \cup {NoConn}
      BY <1>1
    <2>. QED
      BY <2>1, <2>2, <2>3, <2>4, <2>5 DEF ControlFrame, TypeOK, PoolTypeOK
  <1>2. CASE AcceptConn
    BY <1>2 DEF AcceptConn, TypeOK, PoolTypeOK, poolVars, tunVars
  <1>3. ASSUME NEW c \in Conns, QuietSteps(c)
        PROVE  TypeOK'
    <2>1. unread' \in [Conns -> 0 .. SendBuf]
      BY <1>3, QuietIsMove DEF QuietMove
    <2>2. UNCHANGED <<phase, acceptPC, backlog, peer, sid, ip, sessions,
                      used, nextHost, rlocked, tunPC, tunConn>>
      BY <1>3, QuietIsMove DEF QuietMove
    <2>3. pc' \in [Conns -> HandlerStates]
      BY <1>3, QuietFacts
    <2>4. TypeOK
      OBVIOUS
    <2>. HIDE DEF IndInv
    <2>. QED BY <2>1, <2>2, <2>3, <2>4 DEF TypeOK, PoolTypeOK, HandlerStates
  <1>4. ASSUME NEW c \in Conns, SlotSteps(c)
        PROVE  TypeOK'
    <2>. USE DEF TypeOK, poolVars, tunVars
    <2>1. CASE Upgrade(c)
      BY <2>1 DEF Upgrade, PoolTypeOK
    <2>2. CASE Enqueue(c)
      <3>1. backlog' \in Seq(Conns)
        BY <2>2 DEF Enqueue
      <3>. QED BY <2>2, <3>1 DEF Enqueue, PoolTypeOK
    <2>9. CASE EnqueueRefused(c)
      BY <2>9 DEF EnqueueRefused, PoolTypeOK
    <2>3. CASE \E id \in SessionIDs : HelloAccept(c, id)
      BY <2>3 DEF HelloAccept, PoolTypeOK
    <2>4. CASE AllocateIP(c)
      <3>1. ASSUME NEW h \in HostNums, Allocate(h), ip' = [ip EXCEPT ![c] = h]
            PROVE  PoolTypeOK' /\ ip' \in [Conns -> Hosts \cup {NoHost}]
        BY <3>1, AllocateTypeOK
      <3>2. ASSUME AllocateFails, UNCHANGED ip
            PROVE  PoolTypeOK' /\ ip' \in [Conns -> Hosts \cup {NoHost}]
        BY <3>2 DEF AllocateFails, PoolTypeOK
      <3>3. PoolTypeOK' /\ ip' \in [Conns -> Hosts \cup {NoHost}]
        BY <2>4, <3>1, <3>2 DEF AllocateIP
      <3>4. UNCHANGED <<phase, acceptPC, backlog, peer, unread, sid, sessions, tunVars>>
        BY <2>4, Zenon DEF AllocateIP
      <3>5. Goto(c, "allocate", "register") \/ Goto(c, "allocate", "close")
        BY <2>4, Zenon DEF AllocateIP
      <3>6. pc' \in [Conns -> HandlerStates]
        BY <3>5, Moved DEF HandlerStates
      <3>7. TypeOK
        OBVIOUS
      <3>. HIDE DEF IndInv
      <3>. QED BY <3>3, <3>4, <3>6, <3>7 DEF HandlerStates
    <2>5. CASE Register(c)
      BY <2>5 DEF Register, PoolTypeOK
    <2>6. CASE Unregister(c)
      BY <2>6 DEF Unregister, PoolTypeOK
    <2>7. CASE ReleaseIP(c)
      <3>1. PoolTypeOK'
        BY <2>7, ReleaseTypeOK DEF ReleaseIP
      <3>. QED BY <2>7, <3>1 DEF ReleaseIP
    <2>8. CASE CloseConn(c)
      BY <2>8 DEF CloseConn, PoolTypeOK
    <2>. QED
      BY <1>4, <2>1, <2>2, <2>3, <2>4, <2>5, <2>6, <2>7, <2>8, <2>9 DEF SlotSteps
  <1>. QED BY <1>1, <1>2, <1>3, <1>4, StepKinds

(* connChan holds each waiting connection once. *)
LEMMA BacklogStep ==
    ASSUME IndInv, Next
    PROVE  BacklogQueued'
  <1>. USE DEF IndInv, TypeOK, BacklogQueued, Goto
  <1>1. CASE ControlSteps
    BY <1>1, ControlIsFramed DEF ControlFrame
  <1>2. CASE AcceptConn
    BY <1>2 DEF AcceptConn
  <1>3. ASSUME NEW c \in Conns, QuietSteps(c)
        PROVE  BacklogQueued'
    <2>1. pc[c] # "queued" /\ backlog' = backlog
      BY <1>3, QuietIsMove, QuietFacts DEF QuietMove
    <2>2. \A d \in Conns : d # c => pc'[d] = pc[d]
      BY <1>3, QuietFacts
    <2>3. \A i \in 1 .. Len(backlog) : backlog[i] \in Conns /\ backlog[i] # c
      BY <2>1
    <2>. QED BY <2>1, <2>2, <2>3
  <1>4. ASSUME NEW c \in Conns, SlotSteps(c)
        PROVE  BacklogQueued'
    <2>1. CASE Enqueue(c)
      <3>1. \A i \in 1 .. Len(backlog) : backlog[i] \in Conns /\ backlog[i] # c
        BY <2>1 DEF Enqueue
      <3>2. /\ Len(backlog') = Len(backlog) + 1
            /\ \A i \in 1 .. Len(backlog) : backlog'[i] = backlog[i]
            /\ backlog'[Len(backlog) + 1] = c
        BY <2>1 DEF Enqueue
      <3>3. /\ pc'[c] = "queued"
            /\ \A d \in Conns : d # c => pc'[d] = pc[d]
        BY <2>1 DEF Enqueue
      <3>4. /\ Len(backlog) \in Nat
            /\ \A i \in 1 .. Len(backlog) : pc[backlog[i]] = "queued"
            /\ \A i, j \in 1 .. Len(backlog) : backlog[i] = backlog[j] => i = j
        OBVIOUS
      <3>. HIDE DEF IndInv, TypeOK, BacklogQueued, Goto
      <3>5. ASSUME NEW i \in 1 .. Len(backlog')
            PROVE  pc'[backlog'[i]] = "queued"
        <4>1. CASE i = Len(backlog) + 1
          BY <3>2, <3>3, <4>1
        <4>2. CASE i \in 1 .. Len(backlog)
          BY <3>1, <3>2, <3>3, <3>4, <4>2
        <4>. QED BY <3>2, <3>4, <4>1, <4>2
      <3>6. ASSUME NEW i \in 1 .. Len(backlog'), NEW j \in 1 .. Len(backlog'),
                   backlog'[i] = backlog'[j]
            PROVE  i = j
        <4>1. CASE i \in 1 .. Len(backlog) /\ j \in 1 .. Len(backlog)
          BY <3>2, <3>6, <3>4, <4>1
        <4>2. ASSUME NEW k \in 1 .. Len(backlog)
              PROVE  backlog'[k] # backlog'[Len(backlog) + 1]
          BY <3>1, <3>2
        <4>3. CASE i = Len(backlog) + 1 /\ j \in 1 .. Len(backlog)
          BY <3>6, <4>2, <4>3
        <4>4. CASE i \in 1 .. Len(backlog) /\ j = Len(backlog) + 1
          BY <3>6, <4>2, <4>4
        <4>5. \/ i \in 1 .. Len(backlog) \/ i = Len(backlog) + 1
          BY <3>2, <3>4
        <4>6. \/ j \in 1 .. Len(backlog) \/ j = Len(backlog) + 1
          BY <3>2, <3>4
        <4>. QED BY <4>1, <4>3, <4>4, <4>5, <4>6
      <3>. QED BY <3>5, <3>6 DEF BacklogQueued
    <2>2. CASE ~Enqueue(c)
      <3>1. pc[c] # "queued" /\ backlog' = backlog
        BY <1>4, <2>2 DEF SlotSteps, Upgrade, EnqueueRefused, HelloAccept,
           AllocateIP, Register, Unregister, ReleaseIP, CloseConn
      <3>2. \A d \in Conns : d # c => pc'[d] = pc[d]
        BY <1>4 DEF SlotSteps, Upgrade, Enqueue, EnqueueRefused, HelloAccept,
           AllocateIP, Register, Unregister, ReleaseIP, CloseConn
      <3>3. \A i \in 1 .. Len(backlog) : backlog[i] \in Conns /\ backlog[i] # c
        BY <3>1
      <3>. QED BY <3>1, <3>2, <3>3
    <2>. QED BY <2>1, <2>2
  <1>. QED BY <1>1, <1>2, <1>3, <1>4, StepKinds

(* A handler knows its session ID and its address when it needs them. *)
LEMMA DataStep ==
    ASSUME IndInv, Next
    PROVE  HandlerData'
  <1>. USE DEF IndInv, TypeOK, HandlerData, HasID, HoldsAddress, Goto
  <1>1. CASE ControlSteps
    BY <1>1, ControlIsFramed DEF ControlFrame
  <1>2. CASE AcceptConn
    BY <1>2 DEF AcceptConn
  <1>3. ASSUME NEW c \in Conns, QuietSteps(c)
        PROVE  HandlerData'
    <2>1. sid' = sid /\ ip' = ip
      BY <1>3, QuietIsMove DEF QuietMove
    <2>2. \A d \in Conns : HoldsAddress(d)' <=> HoldsAddress(d)
      BY <1>3, QuietFacts
    <2>3. \A d \in Conns : HasID(d)' <=> HasID(d)
      BY <1>3, QuietFacts
    <2>4. HandlerData
      OBVIOUS
    <2>. HIDE DEF IndInv, TypeOK, HasID, HoldsAddress
    <2>. QED BY <2>1, <2>2, <2>3, <2>4
  <1>4. ASSUME NEW c \in Conns, SlotSteps(c)
        PROVE  HandlerData'
    <2>1. CASE Upgrade(c) \/ Enqueue(c) \/ EnqueueRefused(c)
      BY <2>1 DEF Upgrade, Enqueue, EnqueueRefused
    <2>2. CASE \E id \in SessionIDs : HelloAccept(c, id)
      BY <2>2 DEF HelloAccept
    <2>3. CASE AllocateIP(c)
      <3>1. ASSUME NEW h \in HostNums, Allocate(h)
            PROVE  h \in Hosts
        BY <3>1, AllocateTypeOK
      <3>2. sid[c] \in SessionIDs /\ sid' = sid
        BY <2>3 DEF AllocateIP
      <3>3. \A d \in Conns : d # c => pc'[d] = pc[d] /\ ip'[d] = ip[d]
        BY <2>3 DEF AllocateIP
      <3>4. pc'[c] = "close" \/ (pc'[c] = "register" /\ ip'[c] \in Hosts)
        <4>1. ASSUME NEW h \in HostNums, Allocate(h), ip' = [ip EXCEPT ![c] = h],
                     Goto(c, "allocate", "register")
              PROVE  pc'[c] = "register" /\ ip'[c] \in Hosts
          BY <3>1, <4>1
        <4>2. ASSUME Goto(c, "allocate", "close")
              PROVE  pc'[c] = "close"
          BY <4>2
        <4>. HIDE DEF IndInv, TypeOK, HandlerData, Goto
        <4>. QED BY <2>3, <4>1, <4>2, Zenon DEF AllocateIP
      <3>5. HandlerData
        OBVIOUS
      <3>. HIDE DEF IndInv, TypeOK
      <3>. QED BY <3>2, <3>3, <3>4, <3>5
    <2>4. CASE Register(c)
      BY <2>4 DEF Register
    <2>5. CASE Unregister(c)
      BY <2>5 DEF Unregister
    <2>6. CASE ReleaseIP(c)
      BY <2>6 DEF ReleaseIP
    <2>7. CASE CloseConn(c)
      BY <2>7 DEF CloseConn
    <2>. QED BY <1>4, <2>1, <2>2, <2>3, <2>4, <2>5, <2>6, <2>7 DEF SlotSteps
  <1>. QED BY <1>1, <1>2, <1>3, <1>4, StepKinds

(* A step that moves no handler into or out of its lease keeps the pool. *)
LEMMA PoolFrame ==
    ASSUME AddressesDistinct, PoolExact, ip' = ip, used' = used,
           \A d \in Conns : HoldsAddress(d)' <=> HoldsAddress(d)
    PROVE  AddressesDistinct' /\ PoolExact'
  <1>1. AddressesDistinct'
    BY DEF AddressesDistinct
  <1>2. {d \in Conns : HoldsAddress(d)}' = {d \in Conns : HoldsAddress(d)}
    OBVIOUS
  <1>3. PoolExact'
    BY <1>2 DEF PoolExact
  <1>. QED BY <1>1, <1>3

(* A handler that holds nothing takes an address that is not in use... *)
LEMMA PoolGrant ==
    ASSUME AddressesDistinct, PoolExact, ip \in [Conns -> Hosts \cup {NoHost}],
           NEW c \in Conns, NEW h, h \notin used, used' = used \cup {h},
           ~HoldsAddress(c), ip' = [ip EXCEPT ![c] = h],
           \A d \in Conns : HoldsAddress(d)' <=> HoldsAddress(d) \/ d = c
    PROVE  AddressesDistinct' /\ PoolExact'
  <1>1. \A d \in Conns : HoldsAddress(d) => d # c /\ ip[d] # h
    BY DEF PoolExact
  <1>2. \A d \in Conns : ip'[d] = IF d = c THEN h ELSE ip[d]
    OBVIOUS
  <1>3. AddressesDistinct'
    BY <1>1, <1>2 DEF AddressesDistinct
  <1>4. \A g : g \in used' <=> \E d \in Conns : HoldsAddress(d)' /\ ip'[d] = g
    BY <1>1, <1>2 DEF PoolExact
  <1>5. PoolExact'
    BY <1>4 DEF PoolExact
  <1>. QED BY <1>3, <1>5

(* ... and one that holds an address gives it back. *)
LEMMA PoolReturn ==
    ASSUME AddressesDistinct, PoolExact, ip \in [Conns -> Hosts \cup {NoHost}],
           NEW c \in Conns, used' = used \ {ip[c]},
           HoldsAddress(c), ip' = [ip EXCEPT ![c] = NoHost],
           \A d \in Conns : HoldsAddress(d)' <=> HoldsAddress(d) /\ d # c
    PROVE  AddressesDistinct' /\ PoolExact'
  <1>1. \A d \in Conns : d # c => ip'[d] = ip[d]
    OBVIOUS
  <1>2. AddressesDistinct'
    BY <1>1 DEF AddressesDistinct
  <1>3. \A g : g \in used' <=> \E d \in Conns : HoldsAddress(d)' /\ ip'[d] = g
    BY <1>1 DEF PoolExact, AddressesDistinct
  <1>4. PoolExact'
    BY <1>3 DEF PoolExact
  <1>. QED BY <1>2, <1>4

(* The pool's used set is what the handlers hold, each address once. *)
LEMMA PoolStep ==
    ASSUME IndInv, Next
    PROVE  AddressesDistinct' /\ PoolExact'
  <1>. USE DEF IndInv, TypeOK, Goto
  <1>1. CASE ControlSteps
    BY <1>1, ControlIsFramed, PoolFrame DEF ControlFrame, HoldsAddress
  <1>2. CASE AcceptConn
    <2>1. /\ Head(backlog) \in Conns
          /\ pc[Head(backlog)] = "queued"
          /\ pc' = [pc EXCEPT ![Head(backlog)] = "hello"]
          /\ ip' = ip /\ used' = used
      BY <1>2 DEF AcceptConn, BacklogQueued, poolVars
    <2>. QED BY <2>1, PoolFrame DEF HoldsAddress
  <1>3. ASSUME NEW c \in Conns, QuietSteps(c)
        PROVE  AddressesDistinct' /\ PoolExact'
    <2>1. ip' = ip /\ used' = used
      BY <1>3, QuietIsMove DEF QuietMove
    <2>2. \A d \in Conns : HoldsAddress(d)' <=> HoldsAddress(d)
      BY <1>3, QuietFacts
    <2>. QED BY <2>1, <2>2, PoolFrame
  <1>4. ASSUME NEW c \in Conns, SlotSteps(c)
        PROVE  AddressesDistinct' /\ PoolExact'
    <2>. USE DEF poolVars
    <2>1. CASE Upgrade(c) \/ Enqueue(c) \/ EnqueueRefused(c)
      BY <2>1, PoolFrame DEF Upgrade, Enqueue, EnqueueRefused, HoldsAddress
    <2>2. CASE \E id \in SessionIDs : HelloAccept(c, id)
      BY <2>2, PoolFrame DEF HelloAccept, HoldsAddress
    <2>3. CASE AllocateIP(c)
      <3>1. ASSUME NEW h \in HostNums, Allocate(h), ip' = [ip EXCEPT ![c] = h],
                   Goto(c, "allocate", "register")
            PROVE  AddressesDistinct' /\ PoolExact'
        <4>1. h \notin used /\ used' = used \cup {h}
          BY <3>1, AllocateTypeOK DEF Allocate
        <4>2. /\ pc[c] = "allocate" /\ pc'[c] = "register"
              /\ \A d \in Conns : d # c => pc'[d] = pc[d]
          BY <3>1, Moved DEF HandlerStates
        <4>3. ~HoldsAddress(c)
          BY <4>2 DEF HoldsAddress
        <4>4. \A d \in Conns : HoldsAddress(d)' <=> HoldsAddress(d) \/ d = c
          BY <4>2 DEF HoldsAddress
        <4>5. AddressesDistinct /\ PoolExact /\ ip \in [Conns -> Hosts \cup {NoHost}]
          OBVIOUS
        <4>. QED BY <3>1, <4>1, <4>3, <4>4, <4>5, PoolGrant
      <3>2. ASSUME AllocateFails, Goto(c, "allocate", "close"), UNCHANGED ip
            PROVE  AddressesDistinct' /\ PoolExact'
        BY <3>2, PoolFrame DEF AllocateFails, HoldsAddress
      <3>. QED BY <2>3, <3>1, <3>2 DEF AllocateIP
    <2>4. CASE Register(c) \/ Unregister(c)
      BY <2>4, PoolFrame DEF Register, Unregister, HoldsAddress
    <2>5. CASE ReleaseIP(c)
      <3>1. /\ used' = used \ {ip[c]} /\ ip' = [ip EXCEPT ![c] = NoHost]
            /\ Goto(c, "release", "close")
        BY <2>5 DEF ReleaseIP, Release
      <3>2. /\ pc[c] = "release" /\ pc'[c] = "close"
            /\ \A d \in Conns : d # c => pc'[d] = pc[d]
        BY <3>1, Moved DEF HandlerStates
      <3>3. HoldsAddress(c)
        BY <3>2 DEF HoldsAddress
      <3>4. \A d \in Conns : HoldsAddress(d)' <=> HoldsAddress(d) /\ d # c
        BY <3>2 DEF HoldsAddress
      <3>5. AddressesDistinct /\ PoolExact /\ ip \in [Conns -> Hosts \cup {NoHost}]
        OBVIOUS
      <3>. QED BY <3>1, <3>3, <3>4, <3>5, PoolReturn
    <2>6. CASE CloseConn(c)
      BY <2>6, PoolFrame DEF CloseConn, HoldsAddress
    <2>. QED BY <1>4, <2>1, <2>2, <2>3, <2>4, <2>5, <2>6 DEF SlotSteps
  <1>. QED BY <1>1, <1>2, <1>3, <1>4, StepKinds

(* Every entry of the session table belongs to a handler in service. *)
LEMMA SessionStep ==
    ASSUME IndInv, Next
    PROVE  SessionsOwned'
  <1>. USE ServerAssumption DEF IndInv, TypeOK, SessionsOwned, InService, Goto
  <1>1. CASE ControlSteps
    BY <1>1, ControlIsFramed DEF ControlFrame
  <1>2. CASE AcceptConn
    <2>1. /\ Head(backlog) \in Conns
          /\ pc[Head(backlog)] = "queued"
          /\ pc' = [pc EXCEPT ![Head(backlog)] = "hello"]
          /\ sid' = sid /\ sessions' = sessions
      BY <1>2 DEF AcceptConn, BacklogQueued
    <2>. QED BY <2>1
  <1>3. ASSUME NEW c \in Conns, QuietSteps(c)
        PROVE  SessionsOwned'
    <2>1. /\ sid' = sid /\ sessions' = sessions
          /\ \A d \in Conns : InService(d)' <=> InService(d)
      BY <1>3, QuietIsMove, QuietFacts DEF QuietMove
    <2>. QED BY <2>1
  <1>4. ASSUME NEW c \in Conns, SlotSteps(c)
        PROVE  SessionsOwned'
    <2>1. CASE Upgrade(c) \/ Enqueue(c) \/ EnqueueRefused(c)
      <3>1. /\ ~InService(c)
            /\ \A d \in Conns \ {c} : pc'[d] = pc[d]
            /\ sid' = sid /\ sessions' = sessions
        BY <2>1 DEF Upgrade, Enqueue, EnqueueRefused
      <3>. QED BY <3>1
    <2>2. CASE \E id \in SessionIDs : HelloAccept(c, id)
      BY <2>2 DEF HelloAccept
    <2>3. CASE AllocateIP(c)
      <3>1. /\ pc[c] = "allocate"
            /\ \A d \in Conns \ {c} : pc'[d] = pc[d]
            /\ sid' = sid /\ sessions' = sessions
        BY <2>3 DEF AllocateIP
      <3>. QED BY <3>1
    <2>4. CASE Register(c)
      BY <2>4 DEF Register, HandlerData, HasID, HoldsAddress
    <2>5. CASE Unregister(c)
      BY <2>5 DEF Unregister
    <2>6. CASE ReleaseIP(c)
      BY <2>6 DEF ReleaseIP
    <2>7. CASE CloseConn(c)
      BY <2>7 DEF CloseConn
    <2>. QED BY <1>4, <2>1, <2>2, <2>3, <2>4, <2>5, <2>6, <2>7 DEF SlotSteps
  <1>. QED BY <1>1, <1>2, <1>3, <1>4, StepKinds

(* The table does not change while tunReadLoop writes to one of its sessions. *)
LEMMA LockStep ==
    ASSUME IndInv, Next
    PROVE  LockHeld'
  <1>. USE ServerAssumption DEF IndInv, TypeOK, LockHeld, Registered
  <1>1. CASE ControlSteps
    <2>. USE DEF connVars, tunVars
    <2>1. CASE StartTUN \/ StartListen
      BY <2>1 DEF StartTUN, StartListen
    <2>2. CASE StopCancel \/ StopSteps
      BY <2>2 DEF StopCancel, StopSteps, StopListener, StopHTTP, StopTUN, StopWait
    <2>3. CASE AcceptCheck \/ AcceptClosed
      BY <2>3 DEF AcceptCheck, AcceptClosed
    <2>4. CASE TunReadLoop
      BY <2>4 DEF TunReadLoop, TunCheck, TunReadClosed, TunDrop, TunWrite, TunForward
    <2>5. ASSUME NEW c \in Conns, PeerClose(c) \/ PeerDrain(c) \/ ConcurrentWritePanic(c)
          PROVE  LockHeld'
      BY <2>5 DEF PeerClose, PeerDrain, ConcurrentWritePanic
    <2>. QED BY <1>1, <2>1, <2>2, <2>3, <2>4, <2>5 DEF ControlSteps
  <1>2. CASE AcceptConn
    BY <1>2 DEF AcceptConn, tunVars
  <1>3. ASSUME NEW c \in Conns, QuietSteps(c)
        PROVE  LockHeld'
    BY <1>3, QuietIsMove DEF QuietMove
  <1>4. ASSUME NEW c \in Conns, SlotSteps(c)
        PROVE  LockHeld'
    <2>1. UNCHANGED <<phase, tunVars>> /\ (sessions' = sessions \/ ~rlocked)
      BY <1>4 DEF SlotSteps, Upgrade, Enqueue, EnqueueRefused, HelloAccept,
         AllocateIP, Register, Unregister, ReleaseIP, CloseConn
    <2>. QED BY <2>1 DEF tunVars
  <1>. QED BY <1>1, <1>2, <1>3, <1>4, StepKinds

(* Once Stop has returned, no goroutine of the server starts to run. *)
LEMMA StopStep ==
    ASSUME IndInv, Next
    PROVE  Quiesced'
  <1>. USE DEF IndInv, TypeOK, Quiesced, Handlers, Goto
  <1>1. CASE ControlSteps
    <2>. USE DEF connVars, tunVars
    <2>1. CASE StartTUN \/ StartListen
      BY <2>1 DEF StartTUN, StartListen
    <2>2. CASE StopCancel \/ StopSteps
      BY <2>2 DEF StopCancel, StopSteps, StopListener, StopHTTP, StopTUN, StopWait
    <2>3. CASE AcceptCheck \/ AcceptClosed
      BY <2>3 DEF AcceptCheck, AcceptClosed
    <2>4. CASE TunReadLoop
      BY <2>4 DEF TunReadLoop, TunCheck, TunReadClosed, TunDrop, TunWrite, TunForward
    <2>5. ASSUME NEW c \in Conns, PeerClose(c) \/ PeerDrain(c) \/ ConcurrentWritePanic(c)
          PROVE  Quiesced'
      BY <2>5 DEF PeerClose, PeerDrain, ConcurrentWritePanic
    <2>. QED BY <1>1, <2>1, <2>2, <2>3, <2>4, <2>5 DEF ControlSteps
  <1>2. CASE AcceptConn
    BY <1>2 DEF AcceptConn
  <1>3. ASSUME NEW c \in Conns, QuietSteps(c)
        PROVE  Quiesced'
    BY <1>3, QuietIsMove DEF QuietMove
  <1>4. ASSUME NEW c \in Conns, SlotSteps(c)
        PROVE  Quiesced'
    <2>1. UNCHANGED <<phase, acceptPC, tunPC>>
      BY <1>4 DEF SlotSteps, Upgrade, Enqueue, EnqueueRefused, HelloAccept,
         AllocateIP, Register, Unregister, ReleaseIP, CloseConn, tunVars
    <2>2. \A d \in Conns : pc[d] \in {"idle", "upgraded", "queued"}
                             => pc'[d] \in {"idle", "upgraded", "queued"}
      BY <1>4 DEF SlotSteps, Upgrade, Enqueue, EnqueueRefused, HelloAccept,
         AllocateIP, Register, Unregister, ReleaseIP, CloseConn
    <2>. QED BY <2>1, <2>2
  <1>. QED BY <1>1, <1>2, <1>3, <1>4, StepKinds

-----------------------------------------------------------------------------

LEMMA IndInvariance == Spec => []IndInv
  <1>1. IndInv /\ [Next]_vars => IndInv'
    <2>. SUFFICES ASSUME IndInv, [Next]_vars PROVE IndInv'
      OBVIOUS
    <2>1. CASE Next
      BY <2>1, TypeStep, BacklogStep, DataStep, PoolStep, SessionStep,
         LockStep, StopStep DEF IndInv
    <2>2. CASE UNCHANGED vars
      BY <2>2 DEF vars, connVars, tunVars, poolVars, IndInv, TypeOK, PoolTypeOK,
         BacklogQueued, HandlerData, HasID, AddressesDistinct, PoolExact,
         SessionsOwned, LockHeld, Quiesced, HoldsAddress, InService, Registered,
         Handlers
    <2>. QED BY <2>1, <2>2
  <1>. QED BY <1>1, InitIndInv, PTL DEF Spec

(* Type correctness of the server. *)
THEOREM TypeCorrect == Spec => []TypeOK
  <1>1. IndInv => TypeOK
    BY DEF IndInv
  <1>. QED BY <1>1, IndInvariance, PTL

(* No two clients ever hold one address, also if session IDs collide       *)
(* (server.go:74-101, 278).                                                *)
THEOREM AddressSafety == Spec => []AddressesDistinct
  <1>1. IndInv => AddressesDistinct
    BY DEF IndInv
  <1>. QED BY <1>1, IndInvariance, PTL

(* Whichever way a handler leaves, its address is neither leaked nor freed *)
(* early: what is used is what the handlers hold (server.go:297-303).      *)
THEOREM PoolSafety == Spec => []PoolExact
  <1>1. IndInv => PoolExact
    BY DEF IndInv
  <1>. QED BY <1>1, IndInvariance, PTL

(* The handlers use the pool as IPPool says: an address is released by the *)
(* one who got it, and before anybody else gets it.                        *)
LEMMA PoolUsed == ASSUME IndInv, [Next]_vars PROVE [PoolNext]_poolVars
  <1>. USE DEF IndInv, TypeOK
  <1>1. CASE UNCHANGED vars
    BY <1>1 DEF vars, poolVars
  <1>2. CASE ControlSteps
    BY <1>2, ControlIsFramed DEF ControlFrame, poolVars
  <1>3. CASE AcceptConn
    BY <1>3 DEF AcceptConn
  <1>4. ASSUME NEW c \in Conns, QuietSteps(c) PROVE UNCHANGED poolVars
    BY <1>4, QuietIsMove DEF QuietMove, poolVars
  <1>5. ASSUME NEW c \in Conns, SlotSteps(c) PROVE [PoolNext]_poolVars
    <2>1. CASE AllocateIP(c)
      BY <2>1 DEF AllocateIP, PoolNext
    <2>2. CASE ReleaseIP(c)
      <3>1. HoldsAddress(c) /\ Release(ip[c])
        BY <2>2 DEF ReleaseIP, HoldsAddress, Goto
      <3>2. ip[c] \in used
        BY <3>1 DEF PoolExact
      <3>. QED BY <3>1, <3>2 DEF PoolNext
    <2>3. CASE ~AllocateIP(c) /\ ~ReleaseIP(c)
      BY <1>5, <2>3 DEF SlotSteps, Upgrade, Enqueue, EnqueueRefused, HelloAccept,
                        Register, Unregister, CloseConn
    <2>. QED BY <2>1, <2>2, <2>3
  <1>. QED BY <1>1, <1>2, <1>3, <1>4, <1>5, StepKinds

(* The server implements the pool's specification: what IPPool promises,   *)
(* it promises under every interleaving of handleConnection, clean-up and  *)
(* Stop (server.go:278, 297-303).                                          *)
THEOREM PoolRefinement == Spec => PoolSpec
  <1>1. Init => PoolInit
    BY DEF Init
  <1>2. IndInv /\ [Next]_vars => [PoolNext]_poolVars
    BY PoolUsed
  <1>. QED BY <1>1, <1>2, IndInvariance, PTL DEF Spec, PoolSpec

(* In the server too "IP pool exhausted" means that at most the address    *)
(* handed out last is free, and an address that was given back rests while *)
(* another one is free (server.go:82-100).                                 *)
THEOREM PoolPromises == Spec => []PoolTypeOK /\ []ExhaustedUpToLast /\ RoundRobin
  BY PoolRefinement, PoolTypeCorrect, PoolExhaustion, PoolRoundRobin

(* No packet is sent on a closed connection or to a former address, even   *)
(* if session IDs collide.                                                 *)
THEOREM RoutingSafety == Spec => []RoutedAreLive
  <1>1. IndInv => RoutedAreLive
    BY ServerAssumption
       DEF IndInv, RoutedAreLive, SessionsOwned, LockHeld, Registered
  <1>. QED BY <1>1, IndInvariance, PTL

(* When Stop has returned no session and no address is left. *)
THEOREM StopSafety == Spec => []StoppedClean
  <1>1. IndInv => StoppedClean
    <2>. SUFFICES ASSUME IndInv, phase = "stopped"
                  PROVE  /\ used = {}
                         /\ \A id \in SessionIDs : sessions[id] = NoConn
                         /\ ~rlocked
      BY DEF StoppedClean
    <2>1. \A c \in Conns : ~HoldsAddress(c) /\ ~InService(c)
      BY DEF IndInv, Quiesced, Handlers, HoldsAddress, InService
    <2>2. used = {}
      BY <2>1 DEF IndInv, PoolExact
    <2>3. \A id \in SessionIDs : sessions[id] = NoConn
      BY <2>1 DEF IndInv, TypeOK, SessionsOwned
    <2>4. ~rlocked
      BY DEF IndInv, Quiesced, LockHeld
    <2>. QED BY <2>2, <2>3, <2>4
  <1>. QED BY <1>1, IndInvariance, PTL

-----------------------------------------------------------------------------
(***************************************************************************)
(* What needs session IDs that do not collide: a client in service stays   *)
(* reachable, and the server implements exclusive address leases.          *)
(***************************************************************************)

IDsDistinct ==
    \A c, d \in Conns : c # d /\ sid[c] = sid[d] => sid[c] = NoID

FreshInv == FreshIDs => IDsDistinct

LEMMA InitFreshInv == Init => FreshInv /\ Reachable
  BY DEF Init, FreshInv, IDsDistinct, Reachable, InService

LEMMA FreshStep ==
    ASSUME IndInv, FreshInv, Next
    PROVE  FreshInv'
  <1>. USE DEF IndInv, TypeOK, FreshInv, IDsDistinct
  <1>1. CASE ControlSteps
    BY <1>1, ControlIsFramed DEF ControlFrame
  <1>2. CASE AcceptConn
    BY <1>2 DEF AcceptConn
  <1>3. ASSUME NEW c \in Conns, QuietSteps(c)
        PROVE  FreshInv'
    BY <1>3, QuietIsMove DEF QuietMove
  <1>4. ASSUME NEW c \in Conns, SlotSteps(c)
        PROVE  FreshInv'
    <2>1. CASE \E id \in SessionIDs : HelloAccept(c, id)
      BY <2>1 DEF HelloAccept
    <2>2. CASE CloseConn(c)
      BY <2>2 DEF CloseConn
    <2>3. CASE Upgrade(c) \/ Enqueue(c) \/ EnqueueRefused(c) \/ AllocateIP(c)
               \/ Register(c) \/ Unregister(c) \/ ReleaseIP(c)
      BY <2>3 DEF Upgrade, Enqueue, EnqueueRefused, AllocateIP, Register,
                  Unregister, ReleaseIP
    <2>. QED BY <1>4, <2>1, <2>2, <2>3 DEF SlotSteps
  <1>. QED BY <1>1, <1>2, <1>3, <1>4, StepKinds

(* The entry of a client in service is deleted or replaced by no other handler. *)
LEMMA ReachableStep ==
    ASSUME IndInv, FreshInv, Reachable, Next
    PROVE  Reachable'
  <1>. SUFFICES ASSUME FreshIDs, NEW d \in Conns, InService(d)'
                PROVE  sessions'[sid'[d]] = d
    BY DEF Reachable
  <1>. USE DEF IndInv, TypeOK, Reachable, Goto
  <1>1. CASE ControlSteps
    BY <1>1, ControlIsFramed DEF ControlFrame, InService
  <1>2. CASE AcceptConn
    BY <1>2 DEF AcceptConn, InService
  <1>3. ASSUME NEW c \in Conns, QuietSteps(c)
        PROVE  sessions'[sid'[d]] = d
    BY <1>3, QuietIsMove, QuietFacts DEF QuietMove
  <1>4. ASSUME NEW c \in Conns, SlotSteps(c)
        PROVE  sessions'[sid'[d]] = d
    <2>1. CASE Upgrade(c) \/ Enqueue(c) \/ EnqueueRefused(c) \/ ReleaseIP(c)
      BY <2>1 DEF Upgrade, Enqueue, EnqueueRefused, ReleaseIP, InService
    <2>2. CASE AllocateIP(c)
      <3>1. /\ d # c => pc'[d] = pc[d]
            /\ pc'[c] \in {"register", "close"}
            /\ sid' = sid /\ sessions' = sessions
        BY <2>2 DEF AllocateIP
      <3>. QED BY <3>1 DEF InService
    <2>3. CASE \E id \in SessionIDs : HelloAccept(c, id)
      BY <2>3 DEF HelloAccept, InService
    <2>4. CASE Register(c)
      <3>1. sid[c] \in SessionIDs
        <4>1. pc[c] = "register"
          BY <2>4 DEF Register, Goto
        <4>2. HasID(c)
          BY <4>1 DEF HasID, HoldsAddress
        <4>. QED BY <4>2 DEF HandlerData
      <3>2. CASE d = c
        BY <2>4, <3>1, <3>2 DEF Register
      <3>3. CASE d # c
        <4>1. InService(d)
          BY <2>4, <3>3 DEF Register, InService
        <4>2. sid[d] # sid[c]
          BY <3>1, <3>3, ServerAssumption DEF FreshInv, IDsDistinct
        <4>. QED BY <2>4, <3>1, <4>1, <4>2 DEF Register
      <3>. QED BY <3>2, <3>3
    <2>5. CASE Unregister(c)
      <3>1. sid[c] \in SessionIDs
        BY <2>5 DEF Unregister, HandlerData, HasID, HoldsAddress
      <3>2. d # c /\ InService(d)
        BY <2>5 DEF Unregister, InService
      <3>3. sid[d] # sid[c]
        BY <3>1, <3>2, ServerAssumption DEF FreshInv, IDsDistinct
      <3>. QED BY <2>5, <3>1, <3>2, <3>3 DEF Unregister
    <2>6. CASE CloseConn(c)
      BY <2>6 DEF CloseConn, InService
    <2>. QED BY <1>4, <2>1, <2>2, <2>3, <2>4, <2>5, <2>6 DEF SlotSteps
  <1>. QED BY <1>1, <1>2, <1>3, <1>4, StepKinds

LEMMA FreshInvariance == Spec => [](IndInv /\ FreshInv /\ Reachable)
  <1>1. IndInv /\ FreshInv /\ Reachable /\ [Next]_vars => (FreshInv /\ Reachable)'
    <2>. SUFFICES ASSUME IndInv, FreshInv, Reachable, [Next]_vars
                  PROVE  (FreshInv /\ Reachable)'
      OBVIOUS
    <2>1. CASE Next
      BY <2>1, FreshStep, ReachableStep
    <2>2. CASE UNCHANGED vars
      BY <2>2 DEF vars, connVars, FreshInv, IDsDistinct, Reachable, InService
    <2>. QED BY <2>1, <2>2
  <1>. QED BY <1>1, InitFreshInv, IndInvariance, PTL DEF Spec

(* If session IDs do not collide, a client in service is always reachable. *)
THEOREM ReachableAlways == Spec => []Reachable
  BY FreshInvariance, PTL

-----------------------------------------------------------------------------

LEMMA LeaseInit == Init => Lease!Init
  <1>. SUFFICES ASSUME Init PROVE Lease!Init
    OBVIOUS
  <1>1. \A c \in Conns : ~HoldsAddress(c) /\ ~Registered(c) /\ tunPC # "write"
    BY ServerAssumption DEF Init, HoldsAddress, Registered
  <1>. QED BY <1>1 DEF Lease!Init

(* What the abstract lease sees of the state. *)
LEMMA LeaseFrame ==
    ASSUME ip' = ip, sessions' = sessions, tunPC' = tunPC, tunConn' = tunConn,
           \A c \in Conns : HoldsAddress(c)' <=> HoldsAddress(c)
    PROVE  UNCHANGED Lease!leaseVars
  <1>1. \A c \in Conns : Registered(c)' <=> Registered(c)
    BY DEF Registered
  <1>2. [c \in Conns |-> IF HoldsAddress(c) THEN ip[c] ELSE NoHost]'
          = [c \in Conns |-> IF HoldsAddress(c) THEN ip[c] ELSE NoHost]
    OBVIOUS
  <1>3. {c \in Conns : Registered(c)}' = {c \in Conns : Registered(c)}
    BY <1>1
  <1>. QED BY <1>2, <1>3 DEF Lease!leaseVars

(* Every step of the server is a step of the lease, or invisible to it. *)
LEMMA LeaseStep ==
    ASSUME FreshIDs, IndInv, FreshInv, Reachable, Next
    PROVE  [Lease!Next]_(Lease!leaseVars)
  <1>. DEFINE L == [c \in Conns |-> IF HoldsAddress(c) THEN ip[c] ELSE NoHost]
              R == {c \in Conns : Registered(c)}
              S == {c \in Conns : tunPC = "write" /\ tunConn = c}
  <1>. USE DEF IndInv, TypeOK, Goto
  <1>1. CASE ControlSteps
    <2>1. ControlFrame
      BY <1>1, ControlIsFramed
    <2>2. L' = L /\ R' = R
      <3>1. \A c \in Conns : /\ HoldsAddress(c)' <=> HoldsAddress(c)
                             /\ Registered(c)' <=> Registered(c)
        BY <2>1 DEF ControlFrame, HoldsAddress, Registered
      <3>. QED BY <2>1, <3>1 DEF ControlFrame
    <2>3. CASE UNCHANGED <<tunPC, tunConn>>
      BY <2>2, <2>3 DEF Lease!leaseVars
    <2>4. CASE TunWrite
      <3>1. PICK c \in Conns : c = tunConn
        BY <2>4 DEF TunWrite, LockHeld
      <3>2. S = {c} /\ S' = {}
        BY <2>4, <3>1 DEF TunWrite
      <3>3. Lease!EndSend(c)
        BY <2>2, <3>2 DEF Lease!EndSend
      <3>. QED BY <3>3 DEF Lease!Next
    <2>5. ASSUME NEW c \in Conns, TunForward(c)
          PROVE  Lease!Next
      <3>1. c \in R /\ S = {} /\ S' = {c}
        BY <2>5 DEF TunForward
      <3>2. Lease!BeginSend(c)
        BY <2>2, <3>1 DEF Lease!BeginSend
      <3>. QED BY <3>2 DEF Lease!Next
    <2>6. CASE StartTUN \/ TunCheck \/ TunReadClosed \/ TunDrop
      <3>1. S = {} /\ S' = {}
        BY <2>6 DEF StartTUN, TunCheck, TunReadClosed, TunDrop, LockHeld
      <3>. QED BY <2>2, <3>1 DEF Lease!leaseVars
    <2>. QED
      BY <1>1, <2>3, <2>4, <2>5, <2>6
         DEF ControlSteps, TunReadLoop, StartListen, StopCancel, StopSteps,
             StopListener, StopHTTP, StopTUN, StopWait, AcceptCheck, AcceptClosed,
             PeerClose, PeerDrain, ConcurrentWritePanic, tunVars
  <1>2. CASE AcceptConn
    <2>1. /\ Head(backlog) \in Conns
          /\ pc[Head(backlog)] = "queued"
          /\ pc' = [pc EXCEPT ![Head(backlog)] = "hello"]
          /\ UNCHANGED <<ip, sessions, tunPC, tunConn>>
      BY <1>2 DEF AcceptConn, BacklogQueued, tunVars
    <2>2. \A c \in Conns : HoldsAddress(c)' <=> HoldsAddress(c)
      BY <2>1 DEF HoldsAddress
    <2>. QED BY <2>1, <2>2, LeaseFrame
  <1>3. ASSUME NEW c \in Conns, QuietSteps(c)
        PROVE  UNCHANGED Lease!leaseVars
    <2>1. QuietMove(c)
      BY <1>3, QuietIsMove
    <2>2. \A d \in Conns : HoldsAddress(d)' <=> HoldsAddress(d)
      BY <2>1 DEF QuietMove, HoldsAddress
    <2>. QED BY <2>1, <2>2, LeaseFrame DEF QuietMove
  <1>4. ASSUME NEW c \in Conns, SlotSteps(c)
        PROVE  [Lease!Next]_(Lease!leaseVars)
    <2>. USE DEF tunVars
    <2>1. CASE Upgrade(c) \/ Enqueue(c) \/ EnqueueRefused(c) \/ CloseConn(c)
      <3>1. \A d \in Conns : HoldsAddress(d)' <=> HoldsAddress(d)
        BY <2>1 DEF Upgrade, Enqueue, EnqueueRefused, CloseConn, HoldsAddress
      <3>. QED
        BY <2>1, <3>1, LeaseFrame DEF Upgrade, Enqueue, EnqueueRefused, CloseConn
    <2>2. CASE \E id \in SessionIDs : HelloAccept(c, id)
      <3>1. \A d \in Conns : HoldsAddress(d)' <=> HoldsAddress(d)
        BY <2>2 DEF HelloAccept, HoldsAddress
      <3>. QED BY <2>2, <3>1, LeaseFrame DEF HelloAccept
    <2>3. CASE AllocateIP(c)
      <3>1. ASSUME NEW h \in HostNums, Allocate(h), ip' = [ip EXCEPT ![c] = h],
                   Goto(c, "allocate", "register")
            PROVE  Lease!Next
        <4>1. h \in Hosts \ used
          BY <3>1, AllocateTypeOK
        <4>2. \A d \in Conns : /\ HoldsAddress(d)' <=> HoldsAddress(d) \/ d = c
                               /\ ip'[d] = IF d = c THEN h ELSE ip[d]
          BY <3>1 DEF HoldsAddress
        <4>3. ~HoldsAddress(c)
          BY <3>1 DEF HoldsAddress
        <4>4. \A d \in Conns : HoldsAddress(d) => ip[d] # h
          BY <4>1 DEF PoolExact
        <4>5. h # NoHost
          BY <4>1, ServerAssumption, MaxHostsAssumption DEF Hosts
        <4>6. L[c] = NoHost /\ \A d \in Conns : L[d] # h
          BY <4>3, <4>4, <4>5
        <4>7. L' = [L EXCEPT ![c] = h]
          BY <4>2
        <4>8. R' = R /\ S' = S
          BY <2>3 DEF AllocateIP, Registered
        <4>9. Lease!Grant(c, h)
          BY <4>6, <4>7, <4>8 DEF Lease!Grant
        <4>. QED BY <4>1, <4>9 DEF Lease!Next
      <3>2. ASSUME AllocateFails, Goto(c, "allocate", "close"), UNCHANGED ip
            PROVE  UNCHANGED Lease!leaseVars
        <4>1. \A d \in Conns : HoldsAddress(d)' <=> HoldsAddress(d)
          BY <3>2 DEF HoldsAddress
        <4>. QED BY <2>3, <3>2, <4>1, LeaseFrame DEF AllocateIP
      <3>. QED BY <2>3, <3>1, <3>2 DEF AllocateIP
    <2>4. CASE Register(c)
      <3>1. sid[c] \in SessionIDs
        <4>1. pc[c] = "register"
          BY <2>4 DEF Register, Goto
        <4>2. HasID(c)
          BY <4>1 DEF HasID, HoldsAddress
        <4>. QED BY <4>2 DEF HandlerData
      <3>2. sessions[sid[c]] = NoConn
        BY <2>4, <3>1, ServerAssumption
           DEF Register, SessionsOwned, InService, FreshInv, IDsDistinct
      <3>3. \A d \in Conns : Registered(d)' <=> Registered(d) \/ d = c
        BY <2>4, <3>1, <3>2, ServerAssumption DEF Register, Registered
      <3>4. \A d \in Conns : HoldsAddress(d)' <=> HoldsAddress(d)
        BY <2>4 DEF Register, HoldsAddress
      <3>5. L' = L /\ S' = S
        BY <2>4, <3>4 DEF Register
      <3>6. R' = R \cup {c}
        BY <3>3
      <3>7. L[c] # NoHost
        BY <2>4, ServerAssumption, MaxHostsAssumption
           DEF Register, HandlerData, HoldsAddress, Hosts
      <3>8. Lease!Publish(c)
        BY <3>5, <3>6, <3>7 DEF Lease!Publish
      <3>. QED BY <3>8 DEF Lease!Next
    <2>5. CASE Unregister(c)
      <3>1. sid[c] \in SessionIDs
        BY <2>5 DEF Unregister, HandlerData, HasID, HoldsAddress
      <3>2. \A id \in SessionIDs : sessions[id] = c => id = sid[c]
        BY ServerAssumption DEF SessionsOwned
      <3>3. sessions[sid[c]] = c
        BY <2>5 DEF Unregister, Reachable, InService
      <3>4. \A d \in Conns : Registered(d)' <=> Registered(d) /\ d # c
        BY <2>5, <3>1, <3>2, <3>3, ServerAssumption DEF Unregister, Registered
      <3>5. \A d \in Conns : HoldsAddress(d)' <=> HoldsAddress(d)
        BY <2>5 DEF Unregister, HoldsAddress
      <3>6. L' = L /\ S' = S
        BY <2>5, <3>5 DEF Unregister
      <3>7. R' = R \ {c} /\ c \notin S
        BY <2>5, <3>4 DEF Unregister, LockHeld
      <3>8. Lease!Withdraw(c)
        BY <3>6, <3>7 DEF Lease!Withdraw
      <3>. QED BY <3>8 DEF Lease!Next
    <2>6. CASE ReleaseIP(c)
      <3>1. \A d \in Conns : /\ HoldsAddress(d)' <=> HoldsAddress(d) /\ d # c
                             /\ d # c => ip'[d] = ip[d]
        BY <2>6 DEF ReleaseIP, HoldsAddress
      <3>2. L' = [L EXCEPT ![c] = NoHost]
        BY <3>1
      <3>3. R' = R /\ S' = S
        BY <2>6 DEF ReleaseIP, Registered
      <3>4. ~InService(c)
        BY <2>6 DEF ReleaseIP, InService
      <3>5. ~Registered(c)
        BY <3>4, ServerAssumption DEF SessionsOwned, Registered
      <3>6. c \notin R /\ c \notin S
        BY <3>5 DEF LockHeld
      <3>7. Lease!Revoke(c)
        BY <3>2, <3>3, <3>6 DEF Lease!Revoke
      <3>. QED BY <3>7 DEF Lease!Next
    <2>. QED BY <1>4, <2>1, <2>2, <2>3, <2>4, <2>5, <2>6 DEF SlotSteps
  <1>. QED BY <1>1, <1>2, <1>3, <1>4, StepKinds

(* If session IDs do not collide, the server implements AddressLease: pool, *)
(* table and lock together give exclusive leases, withdrawn before reuse.   *)
THEOREM LeaseRefinement == Spec /\ FreshIDs => ImplementsAddressLease
  <1>. SUFFICES ASSUME FreshIDs PROVE Spec => ImplementsAddressLease
    OBVIOUS
  <1>1. IndInv /\ FreshInv /\ Reachable /\ [Next]_vars
          => [Lease!Next]_(Lease!leaseVars)
    <2>. SUFFICES ASSUME IndInv, FreshInv, Reachable, [Next]_vars
                  PROVE  [Lease!Next]_(Lease!leaseVars)
      OBVIOUS
    <2>1. CASE Next
      BY <2>1, LeaseStep
    <2>2. CASE UNCHANGED vars
      BY <2>2, LeaseFrame DEF vars, connVars, tunVars, HoldsAddress
    <2>. QED BY <2>1, <2>2
  <1>. QED
    BY <1>1, LeaseInit, FreshInvariance, PTL
       DEF Spec, ImplementsAddressLease, Lease!Spec
=============================================================================
