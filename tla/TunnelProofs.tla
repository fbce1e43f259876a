---------------------------- MODULE TunnelProofs ----------------------------
(***************************************************************************)
(* Proofs about clients and server put together, for every number of       *)
(* clients, connections, server processes, packets and addresses.          *)
(*                                                                         *)
(* The properties of Tunnel speak of what came of the packets; the         *)
(* invariant that carries them says what can be in a queue, in the hands   *)
(* of a loop and in the fields of a client at all, in terms of the         *)
(* addresses its connections were given (Served) and the keys it can have  *)
(* (ClientSession).  Both only grow, which is why old loops do no harm.    *)
(***************************************************************************)
EXTENDS Tunnel, IPPoolProofs

-----------------------------------------------------------------------------
(* The inductive invariant *)

(* The addresses the first g connections of c were given. *)
Served(c, g) == {h \in Hosts : \E k \in 1 .. g : hip[<<c, k>>] = h}

ClientSession(c, s) == \E e \in 1 .. MaxEpoch : s = DeriveSessionKeys(c, e, TRUE)
ServerSession(c, s) == \E e \in 1 .. MaxEpoch : s = DeriveSessionKeys(c, e, FALSE)

(* The sessions of client and handler came of one handshake. *)
Crossed(c, s, hs) ==
    \E e \in 1 .. MaxEpoch : /\ s = DeriveSessionKeys(c, e, TRUE)
                            /\ hs = DeriveSessionKeys(c, e, FALSE)

(* x has keys of the running server process. *)
KeyedNow(x) == hsess[x] = DeriveSessionKeys(x[1], epoch, FALSE)

(* The keys client c can send with, and those that are used towards it. *)
FromClient(c) == {k \in Keys : k[1] = c /\ k[3] = 1}
ToClient(c)   == {k \in Keys : k[1] = c /\ k[3] = 2}

NoResponse(x) == \A i \in 1 .. Len(down[x]) : down[x][i].type # "resp"

(* The response of x was sent, and its client has taken it. *)
Answered(x) == hpc[x] \in {"serve", "done"} /\ NoResponse(x) /\ x[2] <= gen[x[1]]

(* A connection that is not dialled yet. *)
FreshInv ==
    /\ \A x \in Conns : x[2] > gen[x[1]] =>
          /\ hpc[x] = "none" /\ link[x] = "none" /\ up[x] = <<>>
          /\ tpc[x] = "off" /\ rpc[x] = "off"
    /\ \A c \in Clients : cpc[c] # "dial" => gen[c] > 0

(* The handler of x, and what it has written. *)
HandlerInv ==
    \A x \in Conns :
       /\ link[x] = "open" => hpc[x] \in {"hello", "respond", "serve"}
       /\ hpc[x] \in {"none", "hello"} => hip[x] = NoHost /\ down[x] = <<>>
       /\ hpc[x] \in {"respond", "serve"} => hip[x] \in Hosts /\ KeyedNow(x)
       /\ hip[x] \in Hosts => ServerSession(x[1], hsess[x])
       /\ hpc[x] = "respond" => NoResponse(x)

OfHandler(x, p) ==
    /\ hip[x] \in Hosts /\ p.ip = hip[x]
    /\ \/ /\ p.type = "resp" /\ p.key \in 1 .. MaxEpoch
          /\ hsess[x] = DeriveSessionKeys(x[1], p.key, FALSE)
       \/ p.type = "data" /\ p.key \in ToClient(x[1])

DownInv ==
    \A x \in Conns :
       /\ \A i \in 1 .. Len(down[x]) : OfHandler(x, down[x][i])
       /\ \A i, j \in 1 .. Len(down[x]) :
             down[x][i].type = "resp" /\ down[x][j].type = "resp" => i = j

OfClient(x, p) ==
    \/ p.type = "init" /\ p.key = x[1]
    \/ p.type = "data" /\ p.key \in FromClient(x[1])

UpInv ==
    \A x \in Conns :
       /\ \A i \in 1 .. Len(up[x]) : OfClient(x, up[x][i])
       /\ x[2] = 1 /\ hpc[x] = "hello" /\ up[x] # <<>> => up[x][1].type = "init"

ConnectInv ==
    \A c \in Clients :
       /\ sess[c] = NoSession \/ ClientSession(c, sess[c])
       /\ cpc[c] \in {"tun", "start", "up"} =>
            /\ Answered(Cur(c))
            /\ hip[Cur(c)] \in Hosts /\ assigned[c] = hip[Cur(c)]
            /\ Crossed(c, sess[c], hsess[Cur(c)])

(* A device has the address of the connection it was made for. *)
DeviceInv ==
    \A x \in Conns : dev[x] # NoHost => Answered(x) /\ dev[x] = hip[x]

TLoopInv ==
    \A x \in Conns : tpc[x] # "off" =>
       /\ Answered(x) /\ ClientSession(x[1], sess[x[1]])
       /\ tpc[x] = "write" => tat[x].type = "data" /\ tat[x].key \in FromClient(x[1])

RLoopInv ==
    \A x \in Conns : rpc[x] # "off" =>
       /\ Answered(x) /\ ClientSession(x[1], sess[x[1]])
       /\ rpc[x] = "read" => rat[x].type = "conn" /\ rat[x].gen \in x[2] .. gen[x[1]]
       /\ rpc[x] = "handle" /\ rat[x].type = "data" =>
             rat[x].key \in ToClient(x[1]) /\ rat[x].ip \in Served(x[1], gen[x[1]])

EffectInv ==
    /\ \A c \in Clients : inbox[c] \subseteq Served(c, gen[c])
    /\ UndecryptedAreOfAnotherServer
    /\ FirstHandshakeUndisturbed

Inv ==
    /\ TypeOK /\ PoolTypeOK /\ FreshInv /\ HandlerInv /\ DownInv /\ UpInv
    /\ ConnectInv /\ DeviceInv /\ TLoopInv /\ RLoopInv /\ EffectInv

-----------------------------------------------------------------------------
(* Queues, connections and keys *)

LEMMA Appended ==
    ASSUME NEW S, NEW s \in Seq(S), NEW e \in S
    PROVE  /\ Append(s, e) \in Seq(S)
           /\ Len(s) \in Nat /\ Len(Append(s, e)) = Len(s) + 1
           /\ \A i \in 1 .. Len(s) : Append(s, e)[i] = s[i]
           /\ Append(s, e)[Len(s) + 1] = e
           /\ Append(s, e) # <<>>
           /\ s # <<>> => Len(s) > 0
  OBVIOUS

LEMMA Behead ==
    ASSUME NEW S, NEW s \in Seq(S), s # <<>>
    PROVE  /\ Len(s) \in Nat /\ Len(s) > 0
           /\ Head(s) = s[1] /\ Head(s) \in S
           /\ Tail(s) \in Seq(S) /\ Len(Tail(s)) = Len(s) - 1
           /\ \A i \in 1 .. Len(Tail(s)) : Tail(s)[i] = s[i + 1]
  OBVIOUS

LEMMA EmptyQueue ==
    ASSUME NEW S
    PROVE  <<>> \in Seq(S) /\ Len(<<>>) = 0
  OBVIOUS

LEMMA ConnOf ==
    ASSUME NEW c \in Clients, NEW g \in 1 .. MaxGen[c]
    PROVE  <<c, g>> \in Conns /\ <<c, g>>[1] = c /\ <<c, g>>[2] = g
  BY DEF Conns

LEMMA ConnParts ==
    ASSUME NEW x \in Conns
    PROVE  /\ x[1] \in Clients /\ x[2] \in 1 .. MaxGen[x[1]] /\ x[2] \in Nat \ {0}
           /\ x = <<x[1], x[2]>>
  BY TunnelAssumption DEF Conns

LEMMA CurConn ==
    ASSUME TypeOK, FreshInv, NEW c \in Clients, cpc[c] # "dial"
    PROVE  Cur(c) \in Conns /\ Cur(c)[1] = c /\ Cur(c)[2] = gen[c] /\ gen[c] \in Nat \ {0}
  BY ConnOf, TunnelAssumption DEF TypeOK, FreshInv, Cur

LEMMA ClientKeys ==
    ASSUME NEW c \in Clients, NEW s, ClientSession(c, s)
    PROVE  s \in Sessions /\ s # NoSession /\ s.send \in FromClient(c) /\ s.recv \in ToClient(c)
  BY DEF ClientSession, DeriveSessionKeys, FromClient, ToClient, Keys, Sessions, NoSession

LEMMA ServerKeys ==
    ASSUME NEW c \in Clients, NEW s, ServerSession(c, s)
    PROVE  s \in Sessions /\ s.recv \in FromClient(c) /\ s.send \in ToClient(c)
  BY DEF ServerSession, DeriveSessionKeys, FromClient, ToClient, Keys, Sessions, NoSession

(* Two different keys of one direction are keys of two server processes. *)
LEMMA KeysDiffer ==
    ASSUME NEW c, NEW k \in Keys, NEW l \in Keys, k # l,
           \/ k \in FromClient(c) /\ l \in FromClient(c)
           \/ k \in ToClient(c) /\ l \in ToClient(c)
    PROVE  k[2] # l[2]
  <1>1. k = <<k[1], k[2], k[3]>> /\ l = <<l[1], l[2], l[3]>>
    BY DEF Keys
  <1>2. k[1] = l[1] /\ k[3] = l[3]
    BY DEF FromClient, ToClient
  <1>. QED BY <1>1, <1>2

-----------------------------------------------------------------------------
(* Which actions change what *)

LEMMA TLoopFrame ==
    ASSUME [Next]_vars
    PROVE  \/ UNCHANGED <<tpc, tat>>
           \/ \E c \in Clients : NewDevice(c)
           \/ \E x \in Conns : TunReadLoop(x)
  <1>1. ASSUME NEW c \in Clients, Connect(c)
        PROVE  UNCHANGED <<tpc, tat>> \/ NewDevice(c)
    BY <1>1, Zenon DEF Connect, Dial, SendInit, TakeResponse, HandshakeFails,
         StartLoops, loopVars
  <1>2. ASSUME NEW x \in Conns, ReceiveLoop(x)
        PROVE  UNCHANGED <<tpc, tat>>
    BY <1>2, Zenon DEF ReceiveLoop, RRead, RPacket, RReadError, RHandle, loopVars
  <1>3. ASSUME NEW x \in Conns, HandleConnection(x)
        PROVE  UNCHANGED <<tpc, tat>>
    BY <1>3, Zenon DEF HandleConnection, Hello, HelloFails, Respond, ServerRead,
         HandlerEnds, loopVars
  <1>4. ASSUME \/ \E x \in Conns : LinkLost(x)
               \/ \E x \in Conns : \E h \in Hosts : Forward(x, h)
               \/ Restart
               \/ UNCHANGED vars
        PROVE  UNCHANGED <<tpc, tat>>
    BY <1>4, Zenon DEF LinkLost, Forward, Restart, vars, loopVars
  <1>. QED BY <1>1, <1>2, <1>3, <1>4, Zenon DEF Next

LEMMA RLoopFrame ==
    ASSUME [Next]_vars
    PROVE  \/ UNCHANGED <<rpc, rat>>
           \/ \E c \in Clients : StartLoops(c)
           \/ \E x \in Conns : ReceiveLoop(x)
  <1>1. ASSUME NEW c \in Clients, Connect(c)
        PROVE  UNCHANGED <<rpc, rat>> \/ StartLoops(c)
    BY <1>1, Zenon DEF Connect, Dial, SendInit, TakeResponse, HandshakeFails,
         NewDevice, loopVars
  <1>2. ASSUME NEW x \in Conns, TunReadLoop(x)
        PROVE  UNCHANGED <<rpc, rat>>
    BY <1>2, Zenon DEF TunReadLoop, TEncrypt, TWrite, loopVars
  <1>3. ASSUME NEW x \in Conns, HandleConnection(x)
        PROVE  UNCHANGED <<rpc, rat>>
    BY <1>3, Zenon DEF HandleConnection, Hello, HelloFails, Respond, ServerRead,
         HandlerEnds, loopVars
  <1>4. ASSUME \/ \E x \in Conns : LinkLost(x)
               \/ \E x \in Conns : \E h \in Hosts : Forward(x, h)
               \/ Restart
               \/ UNCHANGED vars
        PROVE  UNCHANGED <<rpc, rat>>
    BY <1>4, Zenon DEF LinkLost, Forward, Restart, vars, loopVars
  <1>. QED BY <1>1, <1>2, <1>3, <1>4, Zenon DEF Next

LEMMA DeviceFrame ==
    ASSUME [Next]_vars
    PROVE  \/ UNCHANGED <<dev, tunDev>>
           \/ \E c \in Clients : NewDevice(c)
  <1>1. ASSUME NEW c \in Clients, Connect(c)
        PROVE  UNCHANGED <<dev, tunDev>> \/ NewDevice(c)
    BY <1>1, Zenon DEF Connect, Dial, SendInit, TakeResponse, HandshakeFails,
         StartLoops, clientVars
  <1>2. ASSUME NEW x \in Conns, TunReadLoop(x)
        PROVE  UNCHANGED <<dev, tunDev>>
    BY <1>2, Zenon DEF TunReadLoop, TEncrypt, TWrite, clientVars
  <1>3. ASSUME NEW x \in Conns, ReceiveLoop(x)
        PROVE  UNCHANGED <<dev, tunDev>>
    BY <1>3, Zenon DEF ReceiveLoop, RRead, RPacket, RReadError, RHandle, clientVars
  <1>4. ASSUME NEW x \in Conns, HandleConnection(x)
        PROVE  UNCHANGED <<dev, tunDev>>
    BY <1>4, Zenon DEF HandleConnection, Hello, HelloFails, Respond, ServerRead,
         HandlerEnds, clientVars
  <1>5. ASSUME \/ \E x \in Conns : LinkLost(x)
               \/ \E x \in Conns : \E h \in Hosts : Forward(x, h)
               \/ Restart
               \/ UNCHANGED vars
        PROVE  UNCHANGED <<dev, tunDev>>
    BY <1>5, Zenon DEF LinkLost, Forward, Restart, vars, clientVars
  <1>. QED BY <1>1, <1>2, <1>3, <1>4, <1>5, Zenon DEF Next

LEMMA EffectFrame ==
    ASSUME [Next]_vars
    PROVE  \/ UNCHANGED <<inbox, undecrypted, misfit>>
           \/ \E x \in Conns : RPacket(x) \/ RHandle(x) \/ HelloFails(x) \/ ServerRead(x)
  <1>1. ASSUME NEW c \in Clients, Connect(c)
        PROVE  UNCHANGED <<inbox, undecrypted, misfit>>
    BY <1>1, Zenon DEF Connect, Dial, SendInit, TakeResponse, HandshakeFails,
         NewDevice, StartLoops, effects
  <1>2. ASSUME NEW x \in Conns, TunReadLoop(x)
        PROVE  UNCHANGED <<inbox, undecrypted, misfit>>
    BY <1>2, Zenon DEF TunReadLoop, TEncrypt, TWrite, effects
  <1>3. ASSUME NEW x \in Conns, ReceiveLoop(x)
        PROVE  UNCHANGED <<inbox, undecrypted, misfit>> \/ RPacket(x) \/ RHandle(x)
    BY <1>3, Zenon DEF ReceiveLoop, RRead, RReadError, effects
  <1>4. ASSUME NEW x \in Conns, HandleConnection(x)
        PROVE  UNCHANGED <<inbox, undecrypted, misfit>> \/ HelloFails(x) \/ ServerRead(x)
    BY <1>4, Zenon DEF HandleConnection, Hello, Respond, HandlerEnds, effects
  <1>5. ASSUME \/ \E x \in Conns : LinkLost(x)
               \/ \E x \in Conns : \E h \in Hosts : Forward(x, h)
               \/ Restart
               \/ UNCHANGED vars
        PROVE  UNCHANGED <<inbox, undecrypted, misfit>>
    BY <1>5, Zenon DEF LinkLost, Forward, Restart, vars, effects
  <1>. QED BY <1>1, <1>2, <1>3, <1>4, <1>5, Zenon DEF Next

LEMMA ConnectFrame ==
    ASSUME [Next]_vars
    PROVE  \/ UNCHANGED <<cpc, gen, sess, assigned, connected>>
           \/ \E c \in Clients : Connect(c)
           \/ \E x \in Conns : TWrite(x) \/ RReadError(x)
  <1>1. ASSUME NEW x \in Conns, TunReadLoop(x)
        PROVE  UNCHANGED <<cpc, gen, sess, assigned, connected>> \/ TWrite(x)
    BY <1>1, Zenon DEF TunReadLoop, TEncrypt, clientVars
  <1>2. ASSUME NEW x \in Conns, ReceiveLoop(x)
        PROVE  UNCHANGED <<cpc, gen, sess, assigned, connected>> \/ RReadError(x)
    BY <1>2, Zenon DEF ReceiveLoop, RRead, RPacket, RHandle, clientVars
  <1>3. ASSUME NEW x \in Conns, HandleConnection(x)
        PROVE  UNCHANGED <<cpc, gen, sess, assigned, connected>>
    BY <1>3, Zenon DEF HandleConnection, Hello, HelloFails, Respond, ServerRead,
         HandlerEnds, clientVars
  <1>4. ASSUME \/ \E x \in Conns : LinkLost(x)
               \/ \E x \in Conns : \E h \in Hosts : Forward(x, h)
               \/ Restart
               \/ UNCHANGED vars
        PROVE  UNCHANGED <<cpc, gen, sess, assigned, connected>>
    BY <1>4, Zenon DEF LinkLost, Forward, Restart, vars, clientVars
  <1>. QED BY <1>1, <1>2, <1>3, <1>4, Zenon DEF Next

LEMMA DownFrame ==
    ASSUME [Next]_vars
    PROVE  \/ UNCHANGED down
           \/ \E c \in Clients : TakeResponse(c) \/ HandshakeFails(c)
           \/ \E x \in Conns : \/ RPacket(x) \/ Respond(x)
                                \/ \E h \in Hosts : Forward(x, h)
  <1>1. ASSUME NEW c \in Clients, Connect(c)
        PROVE  UNCHANGED down \/ TakeResponse(c) \/ HandshakeFails(c)
    BY <1>1, Zenon DEF Connect, Dial, SendInit, NewDevice, StartLoops, connVars
  <1>2. ASSUME NEW x \in Conns, TunReadLoop(x)
        PROVE  UNCHANGED down
    BY <1>2, Zenon DEF TunReadLoop, TEncrypt, TWrite, connVars
  <1>3. ASSUME NEW x \in Conns, ReceiveLoop(x)
        PROVE  UNCHANGED down \/ RPacket(x)
    BY <1>3, Zenon DEF ReceiveLoop, RRead, RReadError, RHandle, connVars
  <1>4. ASSUME NEW x \in Conns, HandleConnection(x)
        PROVE  UNCHANGED down \/ Respond(x)
    BY <1>4, Zenon DEF HandleConnection, Hello, HelloFails, ServerRead, HandlerEnds,
         connVars
  <1>5. ASSUME \/ \E x \in Conns : LinkLost(x)
               \/ Restart
               \/ UNCHANGED vars
        PROVE  UNCHANGED down
    BY <1>5, Zenon DEF LinkLost, Restart, vars, connVars
  <1>. QED BY <1>1, <1>2, <1>3, <1>4, <1>5, Zenon DEF Next

LEMMA UpFrame ==
    ASSUME [Next]_vars
    PROVE  \/ UNCHANGED up
           \/ \E c \in Clients : SendInit(c)
           \/ \E x \in Conns : \/ TWrite(x) \/ Hello(x) \/ HelloFails(x)
                                \/ ServerRead(x) \/ HandlerEnds(x)
           \/ Restart
  <1>1. ASSUME NEW c \in Clients, Connect(c)
        PROVE  UNCHANGED up \/ SendInit(c)
    BY <1>1, Zenon DEF Connect, Dial, TakeResponse, HandshakeFails, NewDevice,
         StartLoops, connVars
  <1>2. ASSUME NEW x \in Conns, TunReadLoop(x)
        PROVE  UNCHANGED up \/ TWrite(x)
    BY <1>2, Zenon DEF TunReadLoop, TEncrypt, connVars
  <1>3. ASSUME NEW x \in Conns, ReceiveLoop(x)
        PROVE  UNCHANGED up
    BY <1>3, Zenon DEF ReceiveLoop, RRead, RPacket, RReadError, RHandle, connVars
  <1>4. ASSUME NEW x \in Conns, HandleConnection(x)
        PROVE  UNCHANGED up \/ Hello(x) \/ HelloFails(x) \/ ServerRead(x) \/ HandlerEnds(x)
    BY <1>4, Zenon DEF HandleConnection, Respond, connVars
  <1>5. ASSUME \/ \E x \in Conns : LinkLost(x)
               \/ \E x \in Conns : \E h \in Hosts : Forward(x, h)
               \/ UNCHANGED vars
        PROVE  UNCHANGED up
    BY <1>5, Zenon DEF LinkLost, Forward, vars, connVars
  <1>. QED BY <1>1, <1>2, <1>3, <1>4, <1>5, Zenon DEF Next

LEMMA ServerFrame ==
    ASSUME [Next]_vars
    PROVE  \/ UNCHANGED <<hpc, hip, hsess>>
           \/ \E c \in Clients : Dial(c)
           \/ \E x \in Conns : Hello(x) \/ HelloFails(x) \/ Respond(x) \/ HandlerEnds(x)
           \/ Restart
  <1>1. ASSUME NEW c \in Clients, Connect(c)
        PROVE  UNCHANGED <<hpc, hip, hsess>> \/ Dial(c)
    BY <1>1, Zenon DEF Connect, SendInit, TakeResponse, HandshakeFails, NewDevice,
         StartLoops, serverVars
  <1>2. ASSUME NEW x \in Conns, TunReadLoop(x)
        PROVE  UNCHANGED <<hpc, hip, hsess>>
    BY <1>2, Zenon DEF TunReadLoop, TEncrypt, TWrite, serverVars
  <1>3. ASSUME NEW x \in Conns, ReceiveLoop(x)
        PROVE  UNCHANGED <<hpc, hip, hsess>>
    BY <1>3, Zenon DEF ReceiveLoop, RRead, RPacket, RReadError, RHandle, serverVars
  <1>4. ASSUME NEW x \in Conns, HandleConnection(x)
        PROVE  UNCHANGED <<hpc, hip, hsess>> \/ Hello(x) \/ HelloFails(x) \/ Respond(x) \/ HandlerEnds(x)
    BY <1>4, Zenon DEF HandleConnection, ServerRead, serverVars
  <1>5. ASSUME \/ \E x \in Conns : LinkLost(x)
               \/ \E x \in Conns : \E h \in Hosts : Forward(x, h)
               \/ UNCHANGED vars
        PROVE  UNCHANGED <<hpc, hip, hsess>>
    BY <1>5, Zenon DEF LinkLost, Forward, vars, serverVars
  <1>. QED BY <1>1, <1>2, <1>3, <1>4, <1>5, Zenon DEF Next

LEMMA EpochFrame ==
    ASSUME [Next]_vars
    PROVE  UNCHANGED epoch \/ Restart
  <1>1. ASSUME NEW c \in Clients, Connect(c)
        PROVE  UNCHANGED epoch
    BY <1>1, Zenon DEF Connect, Dial, SendInit, TakeResponse, HandshakeFails, NewDevice,
         StartLoops, serverVars
  <1>2. ASSUME NEW x \in Conns, TunReadLoop(x)
        PROVE  UNCHANGED epoch
    BY <1>2, Zenon DEF TunReadLoop, TEncrypt, TWrite, serverVars
  <1>3. ASSUME NEW x \in Conns, ReceiveLoop(x)
        PROVE  UNCHANGED epoch
    BY <1>3, Zenon DEF ReceiveLoop, RRead, RPacket, RReadError, RHandle, serverVars
  <1>4. ASSUME NEW x \in Conns, HandleConnection(x)
        PROVE  UNCHANGED epoch
    BY <1>4, Zenon DEF HandleConnection, Hello, HelloFails, Respond, ServerRead, HandlerEnds,
         serverVars
  <1>5. ASSUME \/ \E x \in Conns : LinkLost(x)
               \/ \E x \in Conns : \E h \in Hosts : Forward(x, h)
               \/ UNCHANGED vars
        PROVE  UNCHANGED epoch
    BY <1>5, Zenon DEF LinkLost, Forward, vars, serverVars
  <1>. QED BY <1>1, <1>2, <1>3, <1>4, <1>5, Zenon DEF Next

LEMMA TrafficFrame ==
    ASSUME [Next]_vars
    PROVE  \/ UNCHANGED traffic
           \/ \E x \in Conns : TEncrypt(x)
           \/ \E x \in Conns : \E h \in Hosts : Forward(x, h)
  <1>1. ASSUME NEW c \in Clients, Connect(c)
        PROVE  UNCHANGED traffic
    BY <1>1, Zenon DEF Connect, Dial, SendInit, TakeResponse, HandshakeFails, NewDevice,
         StartLoops
  <1>2. ASSUME NEW x \in Conns, TunReadLoop(x)
        PROVE  UNCHANGED traffic \/ TEncrypt(x)
    BY <1>2, Zenon DEF TunReadLoop, TWrite
  <1>3. ASSUME NEW x \in Conns, ReceiveLoop(x)
        PROVE  UNCHANGED traffic
    BY <1>3, Zenon DEF ReceiveLoop, RRead, RPacket, RReadError, RHandle
  <1>4. ASSUME NEW x \in Conns, HandleConnection(x)
        PROVE  UNCHANGED traffic
    BY <1>4, Zenon DEF HandleConnection, Hello, HelloFails, Respond, ServerRead, HandlerEnds
  <1>5. ASSUME \/ \E x \in Conns : LinkLost(x)
               \/ Restart
               \/ UNCHANGED vars
        PROVE  UNCHANGED traffic
    BY <1>5, Zenon DEF LinkLost, Restart, vars
  <1>. QED BY <1>1, <1>2, <1>3, <1>4, <1>5, Zenon DEF Next

LEMMA PoolFrame ==
    ASSUME [Next]_vars
    PROVE  \/ UNCHANGED <<hpc, hip, used, nextHost>>
           \/ \E c \in Clients : Dial(c)
           \/ \E x \in Conns : Hello(x) \/ HelloFails(x) \/ Respond(x) \/ HandlerEnds(x)
           \/ Restart
  <1>1. ASSUME NEW c \in Clients, Connect(c)
        PROVE  UNCHANGED <<hpc, hip, used, nextHost>> \/ Dial(c)
    BY <1>1, Zenon DEF Connect, SendInit, TakeResponse, HandshakeFails, NewDevice,
         StartLoops, serverVars, poolVars
  <1>2. ASSUME NEW x \in Conns, TunReadLoop(x)
        PROVE  UNCHANGED <<hpc, hip, used, nextHost>>
    BY <1>2, Zenon DEF TunReadLoop, TEncrypt, TWrite, serverVars, poolVars
  <1>3. ASSUME NEW x \in Conns, ReceiveLoop(x)
        PROVE  UNCHANGED <<hpc, hip, used, nextHost>>
    BY <1>3, Zenon DEF ReceiveLoop, RRead, RPacket, RReadError, RHandle, serverVars,
         poolVars
  <1>4. ASSUME NEW x \in Conns, HandleConnection(x)
        PROVE  UNCHANGED <<hpc, hip, used, nextHost>> \/ Hello(x) \/ HelloFails(x) \/ Respond(x) \/ HandlerEnds(x)
    BY <1>4, Zenon DEF HandleConnection, ServerRead, serverVars, poolVars
  <1>5. ASSUME \/ \E x \in Conns : LinkLost(x)
               \/ \E x \in Conns : \E h \in Hosts : Forward(x, h)
               \/ UNCHANGED vars
        PROVE  UNCHANGED <<hpc, hip, used, nextHost>>
    BY <1>5, Zenon DEF LinkLost, Forward, vars, serverVars, poolVars
  <1>. QED BY <1>1, <1>2, <1>3, <1>4, <1>5, Zenon DEF Next

LEMMA LinkFrame ==
    ASSUME [Next]_vars
    PROVE  \/ UNCHANGED link
           \/ \E c \in Clients : Dial(c) \/ HandshakeFails(c)
           \/ \E x \in Conns : HelloFails(x) \/ LinkLost(x)
           \/ Restart
  <1>1. ASSUME NEW c \in Clients, Connect(c)
        PROVE  UNCHANGED link \/ Dial(c) \/ HandshakeFails(c)
    BY <1>1, Zenon DEF Connect, SendInit, TakeResponse, NewDevice, StartLoops,
         connVars
  <1>2. ASSUME NEW x \in Conns, TunReadLoop(x)
        PROVE  UNCHANGED link
    BY <1>2, Zenon DEF TunReadLoop, TEncrypt, TWrite, connVars
  <1>3. ASSUME NEW x \in Conns, ReceiveLoop(x)
        PROVE  UNCHANGED link
    BY <1>3, Zenon DEF ReceiveLoop, RRead, RPacket, RReadError, RHandle, connVars
  <1>4. ASSUME NEW x \in Conns, HandleConnection(x)
        PROVE  UNCHANGED link \/ HelloFails(x)
    BY <1>4, Zenon DEF HandleConnection, Hello, Respond, ServerRead, HandlerEnds,
         connVars
  <1>5. ASSUME \/ \E x \in Conns : \E h \in Hosts : Forward(x, h)
               \/ UNCHANGED vars
        PROVE  UNCHANGED link
    BY <1>5, Zenon DEF Forward, vars, connVars
  <1>. QED BY <1>1, <1>2, <1>3, <1>4, <1>5, Zenon DEF Next

-----------------------------------------------------------------------------
(* What lasts: an address and its keys, a client having keys and a device, *)
(* and a connection having been answered.                                  *)

LEMMA HandlersKeep ==
    ASSUME TypeOK, HandlerInv, [Next]_vars, NEW x \in Conns, hip[x] \in Hosts
    PROVE  hip'[x] = hip[x] /\ hsess'[x] = hsess[x]
  <1>1. CASE \E y \in Conns : Hello(y)
    <2>1. PICK y \in Conns : Hello(y)
      BY <1>1
    <2>2. x # y
      BY <2>1 DEF Hello, HandlerInv, NoHost, Hosts
    <2>. QED BY <2>1, <2>2 DEF Hello, TypeOK
  <1>2. CASE UNCHANGED <<hip, hsess>>
    BY <1>2
  <1>3. UNCHANGED <<hip, hsess>> \/ \E y \in Conns : Hello(y)
    BY ServerFrame, Zenon DEF Dial, HelloFails, Respond, HandlerEnds, Restart
  <1>. QED BY <1>1, <1>2, <1>3

LEMMA GenGrows ==
    ASSUME TypeOK, [Next]_vars, NEW c \in Clients
    PROVE  gen[c] \in Nat /\ gen'[c] \in Nat /\ gen[c] <= gen'[c]
  <1>1. CASE \E d \in Clients : Dial(d)
    BY <1>1 DEF Dial, TypeOK
  <1>2. CASE UNCHANGED gen
    BY <1>2 DEF TypeOK
  <1>3. UNCHANGED gen \/ \E d \in Clients : Dial(d)
    BY ConnectFrame, Zenon DEF Connect, SendInit, TakeResponse, HandshakeFails, NewDevice,
         StartLoops, TWrite, RReadError
  <1>. QED BY <1>1, <1>2, <1>3

LEMMA ServedGrows ==
    ASSUME TypeOK, HandlerInv, [Next]_vars, NEW c \in Clients,
           NEW g \in Nat, NEW n \in Nat, g <= n, g <= MaxGen[c]
    PROVE  Served(c, g) \subseteq Served(c, n)'
  <1>1. SUFFICES ASSUME NEW k \in 1 .. g, hip[<<c, k>>] \in Hosts
                 PROVE  hip'[<<c, k>>] = hip[<<c, k>>]
    BY DEF Served
  <1>2. <<c, k>> \in Conns
    BY <1>1, ConnOf, TunnelAssumption
  <1>. QED BY <1>1, <1>2, HandlersKeep

(* What a step does to the packets on their way to a client. *)
LEMMA DownCases ==
    ASSUME TypeOK, [Next]_vars, NEW x \in Conns
    PROVE  \/ down'[x] = down[x]
           \/ down'[x] = <<>>
           \/ down[x] # <<>> /\ down'[x] = Tail(down[x])
           \/ Respond(x) /\ down'[x] = Append(down[x], HandshakeResponse(hip[x]))
           \/ \E h \in Hosts : Forward(x, h) /\ down'[x] = Append(down[x], Encrypt(hsess[x], h))
  <1>. DEFINE Goal == \/ down'[x] = down[x]
                      \/ down'[x] = <<>>
                      \/ down[x] # <<>> /\ down'[x] = Tail(down[x])
                      \/ Respond(x) /\ down'[x] = Append(down[x], HandshakeResponse(hip[x]))
                      \/ \E h \in Hosts :
                            Forward(x, h) /\ down'[x] = Append(down[x], Encrypt(hsess[x], h))
  <1>. down \in [Conns -> Seq(Packets)]
    BY DEF TypeOK
  <1>1. ASSUME NEW c \in Clients, TakeResponse(c) PROVE Goal
    <2>1. down[Cur(c)] # <<>> /\ down' = [down EXCEPT ![Cur(c)] = Tail(@)]
      BY <1>1 DEF TakeResponse
    <2>. QED BY <2>1
  <1>2. ASSUME NEW c \in Clients, HandshakeFails(c) PROVE Goal
    <2>1. down' = [down EXCEPT ![Cur(c)] = <<>>]
      BY <1>2 DEF HandshakeFails
    <2>. QED BY <2>1
  <1>3. ASSUME NEW y \in Conns, RPacket(y) PROVE Goal
    <2>. DEFINE z == <<y[1], rat[y].gen>>
    <2>1. down[z] # <<>> /\ down' = [down EXCEPT ![z] = Tail(@)]
      BY <1>3 DEF RPacket
    <2>. HIDE DEF z
    <2>. QED BY <2>1
  <1>4. ASSUME NEW y \in Conns, Respond(y) PROVE Goal
    <2>1. down' = Sent(down, y, HandshakeResponse(hip[y]))
      BY <1>4 DEF Respond
    <2>. QED BY <1>4, <2>1 DEF Sent
  <1>5. ASSUME NEW y \in Conns, NEW h \in Hosts, Forward(y, h) PROVE Goal
    <2>1. down' = Sent(down, y, Encrypt(hsess[y], h))
      BY <1>5 DEF Forward
    <2>. QED BY <1>5, <2>1 DEF Sent
  <1>. HIDE DEF Goal
  <1>6. UNCHANGED down => Goal
    BY DEF Goal
  <1>7. Goal
    BY <1>1, <1>2, <1>3, <1>4, <1>5, <1>6, DownFrame
  <1>. QED BY <1>7 DEF Goal

LEMMA NoResponseStays ==
    ASSUME TypeOK, [Next]_vars, NEW x \in Conns, NoResponse(x), ~Respond(x)
    PROVE  NoResponse(x)'
  <1>1. NoResponse(x) /\ down[x] \in Seq(Packets)
    BY DEF TypeOK
  <1>2. CASE down'[x] = down[x]
    BY <1>1, <1>2 DEF NoResponse
  <1>3. CASE down'[x] = <<>>
    BY <1>3 DEF NoResponse
  <1>4. CASE down[x] # <<>> /\ down'[x] = Tail(down[x])
    <2>1. /\ Len(down[x]) \in Nat /\ Len(Tail(down[x])) = Len(down[x]) - 1
          /\ \A i \in 1 .. Len(Tail(down[x])) : Tail(down[x])[i] = down[x][i + 1]
      BY <1>1, <1>4, Behead
    <2>. QED BY <1>1, <1>4, <2>1 DEF NoResponse
  <1>5. ASSUME NEW h \in Hosts, down'[x] = Append(down[x], Encrypt(hsess[x], h))
        PROVE  NoResponse(x)'
    <2>. DEFINE p == Encrypt(hsess[x], h)
    <2>1. p.type # "resp"
      BY DEF Encrypt
    <2>. HIDE DEF p
    <2>2. /\ Len(down[x]) \in Nat /\ Len(Append(down[x], p)) = Len(down[x]) + 1
          /\ \A i \in 1 .. Len(down[x]) : Append(down[x], p)[i] = down[x][i]
          /\ Append(down[x], p)[Len(down[x]) + 1] = p
      <3>1. down[x] \in Seq(Packets \cup {p})
        BY <1>1
      <3>. QED BY <3>1, Appended
    <2>3. down'[x] = Append(down[x], p)
      BY <1>5 DEF p
    <2>. QED BY <1>1, <2>1, <2>2, <2>3 DEF NoResponse
  <1>. QED BY <1>2, <1>3, <1>4, <1>5, DownCases

LEMMA AnsweredStays ==
    ASSUME TypeOK, HandlerInv, [Next]_vars, NEW x \in Conns, Answered(x)
    PROVE  Answered(x)'
  <1>1. hpc'[x] \in {"serve", "done"}
    <2>1. hpc[x] \in {"serve", "done"}
      BY DEF Answered
    <2>2. ASSUME NEW c \in Clients, Dial(c) PROVE hpc'[x] \in {"serve", "done"}
      <3>1. x[2] # gen[c] + 1 \/ x[1] # c
        BY ConnParts DEF Answered, TypeOK
      <3>. QED BY <2>1, <2>2, <3>1, ConnParts DEF Dial, TypeOK
    <2>3. ASSUME NEW y \in Conns, Hello(y) \/ HelloFails(y) \/ Respond(y) \/ HandlerEnds(y)
          PROVE  hpc'[x] \in {"serve", "done"}
      BY <2>1, <2>3 DEF Hello, HelloFails, Respond, HandlerEnds, TypeOK
    <2>4. ASSUME Restart PROVE hpc'[x] \in {"serve", "done"}
      BY <2>1, <2>4 DEF Restart, TypeOK
    <2>. QED BY <2>1, <2>2, <2>3, <2>4, ServerFrame
  <1>2. NoResponse(x)'
    BY NoResponseStays DEF Answered, Respond
  <1>3. x[2] <= gen'[x[1]]
    BY GenGrows, ConnParts DEF Answered
  <1>. QED BY <1>1, <1>2, <1>3 DEF Answered

(* What a step does to the packets on their way to the server. *)
LEMMA UpCases ==
    ASSUME TypeOK, [Next]_vars, NEW x \in Conns
    PROVE  \/ up'[x] = up[x]
           \/ up'[x] = <<>>
           \/ up[x] # <<>> /\ up'[x] = Tail(up[x]) /\ hpc'[x] # "hello"
           \/ \E c \in Clients : /\ SendInit(c) /\ x = Cur(c)
                                 /\ up'[x] = Append(up[x], HandshakeInit(x))
           \/ \E y \in Conns : /\ TWrite(y) /\ x = Cur(y[1])
                               /\ up'[x] = Append(up[x], tat[y])
  <1>. DEFINE Goal == \/ up'[x] = up[x]
                      \/ up'[x] = <<>>
                      \/ up[x] # <<>> /\ up'[x] = Tail(up[x]) /\ hpc'[x] # "hello"
                      \/ \E c \in Clients : /\ SendInit(c) /\ x = Cur(c)
                                            /\ up'[x] = Append(up[x], HandshakeInit(x))
                      \/ \E y \in Conns : /\ TWrite(y) /\ x = Cur(y[1])
                                          /\ up'[x] = Append(up[x], tat[y])
  <1>. up \in [Conns -> Seq(Packets)] /\ DOMAIN hpc = Conns
    BY DEF TypeOK
  <1>1. ASSUME NEW c \in Clients, SendInit(c) PROVE Goal
    <2>1. up' = Sent(up, Cur(c), HandshakeInit(Cur(c)))
      BY <1>1 DEF SendInit
    <2>. QED BY <1>1, <2>1 DEF Sent
  <1>2. ASSUME NEW y \in Conns, TWrite(y) PROVE Goal
    <2>1. UNCHANGED up \/ up' = Sent(up, Cur(y[1]), tat[y])
      BY <1>2 DEF TWrite
    <2>. QED BY <1>2, <2>1 DEF Sent
  <1>3. ASSUME NEW y \in Conns, Hello(y) PROVE Goal
    BY <1>3 DEF Hello
  <1>4. ASSUME NEW y \in Conns, HelloFails(y) PROVE Goal
    BY <1>4 DEF HelloFails
  <1>5. ASSUME NEW y \in Conns, ServerRead(y) PROVE Goal
    BY <1>5 DEF ServerRead, serverVars
  <1>6. ASSUME NEW y \in Conns, HandlerEnds(y) PROVE Goal
    BY <1>6 DEF HandlerEnds
  <1>7. ASSUME Restart PROVE Goal
    BY <1>7 DEF Restart
  <1>. HIDE DEF Goal
  <1>8. UNCHANGED up => Goal
    BY DEF Goal
  <1>9. Goal
    BY <1>1, <1>2, <1>3, <1>4, <1>5, <1>6, <1>7, <1>8, UpFrame
  <1>. QED BY <1>9 DEF Goal

(* Taking the response leaves the two ends with one address and, crosswise, *)
(* one pair of keys.                                                        *)
LEMMA ResponseTaken ==
    ASSUME TypeOK, FreshInv, HandlerInv, DownInv, NEW c \in Clients, TakeResponse(c)
    PROVE  /\ Cur(c) \in Conns /\ Answered(Cur(c))'
           /\ hip[Cur(c)] \in Hosts /\ assigned' = [assigned EXCEPT ![c] = hip[Cur(c)]]
           /\ \E s : sess' = [sess EXCEPT ![c] = s] /\ Crossed(c, s, hsess[Cur(c)])
  <1>. DEFINE x == Cur(c)
              q == down[x]
  <1>1. /\ x \in Conns /\ x[1] = c /\ x[2] = gen[c] /\ q # <<>> /\ q \in Seq(Packets)
        /\ Head(q).type = "resp" /\ gen[c] \in Nat
    BY CurConn DEF TakeResponse, CGoto, TypeOK
  <1>2. /\ Len(q) \in Nat /\ Len(q) > 0 /\ Head(q) = q[1]
        /\ Len(Tail(q)) = Len(q) - 1 /\ \A i \in 1 .. Len(Tail(q)) : Tail(q)[i] = q[i + 1]
    BY <1>1, Behead
  <1>3. OfHandler(x, q[1])
    BY <1>1, <1>2 DEF DownInv
  <1>4. hpc[x] \in {"serve", "done"}
    <2>1. hpc[x] \notin {"none", "hello", "respond"}
      BY <1>1, <1>2 DEF HandlerInv, NoResponse
    <2>. QED BY <1>1, <2>1 DEF TypeOK
  <1>5. /\ down' = [down EXCEPT ![x] = Tail(q)]
        /\ assigned' = [assigned EXCEPT ![c] = q[1].ip]
        /\ sess' = [sess EXCEPT ![c] = DeriveSessionKeys(ClientKeyPair(x), q[1].key, TRUE)]
        /\ UNCHANGED <<hpc, gen>>
    BY <1>2 DEF TakeResponse, serverVars
  <1>6. NoResponse(x)'
    <2>1. \A i \in 2 .. Len(q) : q[i].type # "resp"
      BY <1>1, <1>2 DEF DownInv
    <2>2. down'[x] = Tail(q)
      BY <1>1, <1>5 DEF TypeOK
    <2>3. \A i \in 1 .. Len(Tail(q)) : Tail(q)[i].type # "resp"
      <3>. HIDE DEF q
      <3>. QED BY <1>2, <2>1
    <2>4. x' = x
      BY <1>5 DEF Cur
    <2>5. \A i \in 1 .. Len(down'[x]) : down'[x][i].type # "resp"
      BY <2>2, <2>3
    <2>. HIDE DEF x
    <2>. QED BY <2>4, <2>5 DEF NoResponse
  <1>7. Answered(x)'
    BY <1>1, <1>4, <1>5, <1>6 DEF Answered, Cur
  <1>8. /\ hip[x] \in Hosts /\ q[1].ip = hip[x] /\ q[1].key \in 1 .. MaxEpoch
        /\ hsess[x] = DeriveSessionKeys(c, q[1].key, FALSE)
    BY <1>1, <1>2, <1>3 DEF OfHandler
  <1>9. /\ sess' = [sess EXCEPT ![c] = DeriveSessionKeys(c, q[1].key, TRUE)]
        /\ Crossed(c, DeriveSessionKeys(c, q[1].key, TRUE), hsess[x])
    BY <1>1, <1>5, <1>8 DEF ClientKeyPair, Crossed
  <1>. QED BY <1>1, <1>5, <1>7, <1>8, <1>9

LEMMA KeysStay ==
    ASSUME TypeOK, FreshInv, HandlerInv, DownInv, [Next]_vars,
           NEW c \in Clients, ClientSession(c, sess[c])
    PROVE  ClientSession(c, sess[c])'
  <1>1. CASE \E d \in Clients : TakeResponse(d)
    <2>1. PICK d \in Clients : TakeResponse(d)
      BY <1>1
    <2>2. PICK s : sess' = [sess EXCEPT ![d] = s] /\ Crossed(d, s, hsess[Cur(d)])
      BY <2>1, ResponseTaken
    <2>3. ClientSession(d, s)
      BY <2>2 DEF Crossed, ClientSession
    <2>4. DOMAIN sess = Clients
      BY DEF TypeOK
    <2>5. sess'[c] = IF c = d THEN s ELSE sess[c]
      BY <2>2, <2>4
    <2>6. ClientSession(c, sess'[c])
      BY <2>3, <2>5
    <2>. QED BY <2>6 DEF ClientSession
  <1>2. CASE UNCHANGED sess
    BY <1>2 DEF ClientSession
  <1>3. UNCHANGED sess \/ \E d \in Clients : TakeResponse(d)
    BY ConnectFrame, Zenon DEF Connect, SendInit, Dial, HandshakeFails, NewDevice,
         StartLoops, TWrite, RReadError
  <1>. QED BY <1>1, <1>2, <1>3

-----------------------------------------------------------------------------
(* Every part of the invariant is preserved *)

LEMMA FreshNext == ASSUME Inv, [Next]_vars PROVE FreshInv'
  <1>. TypeOK /\ FreshInv
    BY DEF Inv
  <1>1. ASSUME NEW x \in Conns, x[2] > gen'[x[1]]
        PROVE  /\ hpc'[x] = "none" /\ link'[x] = "none" /\ up'[x] = <<>>
               /\ tpc'[x] = "off" /\ rpc'[x] = "off"
    <2>1. /\ x[1] \in Clients /\ gen[x[1]] \in Nat /\ x[2] \in Nat /\ gen'[x[1]] \in Nat
          /\ x[2] > gen[x[1]]
      BY <1>1, GenGrows, ConnParts
    <2>2. /\ hpc[x] = "none" /\ link[x] = "none" /\ up[x] = <<>>
          /\ tpc[x] = "off" /\ rpc[x] = "off"
      BY <2>1 DEF FreshInv
    <2>3. ASSUME NEW c \in Clients PROVE x # Cur(c)
      BY <2>1 DEF Cur
    <2>4. ASSUME NEW c \in Clients, Dial(c) PROVE x # <<c, gen[c] + 1>>
      <3>1. gen'[c] = gen[c] + 1
        BY <2>4 DEF Dial, TypeOK
      <3>. QED BY <1>1, <2>1, <3>1
    <2>5. hpc'[x] = "none"
      <3>1. ASSUME NEW c \in Clients, Dial(c) PROVE hpc'[x] = "none"
        BY <2>2, <2>4, <3>1 DEF Dial, TypeOK
      <3>2. ASSUME NEW y \in Conns, Hello(y) \/ HelloFails(y) \/ Respond(y) \/ HandlerEnds(y)
            PROVE  hpc'[x] = "none"
        <4>1. hpc[y] # "none" /\ \E pc : hpc' = [hpc EXCEPT ![y] = pc]
          BY <3>2 DEF Hello, HelloFails, Respond, HandlerEnds, InTable
        <4>. QED BY <2>2, <4>1 DEF TypeOK
      <3>3. ASSUME Restart PROVE hpc'[x] = "none"
        BY <2>2, <3>3 DEF Restart
      <3>. QED BY <2>2, <3>1, <3>2, <3>3, ServerFrame
    <2>6. link'[x] = "none"
      <3>1. ASSUME NEW c \in Clients, Dial(c) PROVE link'[x] = "none"
        BY <2>2, <2>4, <3>1 DEF Dial, TypeOK
      <3>2. ASSUME NEW c \in Clients, HandshakeFails(c) PROVE link'[x] = "none"
        BY <2>2, <2>3, <3>2 DEF HandshakeFails, TypeOK
      <3>3. ASSUME NEW y \in Conns, HelloFails(y) \/ LinkLost(y) PROVE link'[x] = "none"
        BY <2>2, <3>3 DEF HelloFails, LinkLost, TypeOK
      <3>4. ASSUME Restart PROVE link'[x] = "none"
        BY <2>2, <3>4 DEF Restart
      <3>. QED BY <2>2, <3>1, <3>2, <3>3, <3>4, LinkFrame
    <2>7. up'[x] = <<>>
      <3>1. ASSUME NEW y \in Conns PROVE y[1] \in Clients
        BY ConnParts
      <3>. QED BY <2>2, <2>3, <3>1, UpCases
    <2>8. tpc'[x] = "off"
      <3>1. ASSUME NEW c \in Clients, NewDevice(c) PROVE tpc'[x] = "off"
        BY <2>2, <2>3, <3>1 DEF NewDevice, TypeOK
      <3>2. ASSUME NEW y \in Conns, TunReadLoop(y) PROVE tpc'[x] = "off"
        BY <2>2, <3>2 DEF TunReadLoop, TEncrypt, TWrite, TypeOK
      <3>. QED BY <2>2, <3>1, <3>2, TLoopFrame
    <2>9. rpc'[x] = "off"
      <3>1. ASSUME NEW c \in Clients, StartLoops(c) PROVE rpc'[x] = "off"
        BY <2>2, <2>3, <3>1 DEF StartLoops, TypeOK
      <3>2. ASSUME NEW y \in Conns, ReceiveLoop(y) PROVE rpc'[x] = "off"
        <4>1. rpc[y] # "off" /\ \E pc \in {"read", "handle", "check", "off"} :
                                    rpc' = [rpc EXCEPT ![y] = pc]
          BY <3>2 DEF ReceiveLoop, RRead, RPacket, RReadError, RHandle
        <4>. QED BY <2>2, <4>1 DEF TypeOK
      <3>. QED BY <2>2, <3>1, <3>2, RLoopFrame
    <2>. QED BY <2>5, <2>6, <2>7, <2>8, <2>9
  <1>2. ASSUME NEW c \in Clients, cpc'[c] # "dial" PROVE gen'[c] > 0
    <2>1. gen[c] \in Nat /\ gen'[c] \in Nat /\ gen[c] <= gen'[c]
      BY GenGrows
    <2>2. CASE Dial(c)
      BY <2>1, <2>2 DEF Dial, TypeOK
    <2>3. cpc[c] # "dial" \/ Dial(c)
      <3>1. ASSUME NEW d \in Clients, Connect(d), ~Dial(c) PROVE cpc[c] # "dial"
        <4>1. CASE c = d
          BY <3>1, <4>1, Zenon DEF Connect, SendInit, TakeResponse, HandshakeFails,
               NewDevice, StartLoops, CGoto
        <4>2. CASE c # d
          <5>1. \E pc : cpc' = [cpc EXCEPT ![d] = pc]
            BY <3>1, Zenon DEF Connect, Dial, SendInit, TakeResponse, HandshakeFails,
                 NewDevice, StartLoops, CGoto
          <5>. QED BY <1>2, <4>2, <5>1 DEF TypeOK
        <4>. QED BY <4>1, <4>2
      <3>2. ASSUME NEW y \in Conns, TWrite(y) \/ RReadError(y) PROVE cpc[c] # "dial"
        BY <1>2, <3>2 DEF TWrite, RReadError, HandleDisconnect, TypeOK
      <3>. QED BY <1>2, <3>1, <3>2, ConnectFrame
    <2>. QED BY <2>1, <2>2, <2>3 DEF FreshInv
  <1>. QED BY <1>1, <1>2 DEF FreshInv

LEMMA Greeted ==
    ASSUME Inv, NEW x \in Conns, Hello(x)
    PROVE  /\ PoolTypeOK' /\ hip'[x] \in Hosts /\ ServerSession(x[1], hsess'[x])
           /\ hsess'[x] = DeriveSessionKeys(x[1], epoch, FALSE)
           /\ \E h \in Hosts : hip' = [hip EXCEPT ![x] = h]
           /\ \E s \in Sessions : hsess' = [hsess EXCEPT ![x] = s]
  <1>. TypeOK /\ PoolTypeOK /\ UpInv /\ x[1] \in Clients
    BY ConnParts DEF Inv
  <1>1. PICK h \in HostNums : Allocate(h) /\ hip' = [hip EXCEPT ![x] = h]
    BY DEF Hello
  <1>2. h \in Hosts /\ PoolTypeOK'
    BY <1>1, AllocateTypeOK
  <1>. DEFINE q == up[x]
  <1>3. q \in Seq(Packets) /\ q # <<>> /\ Head(q).type = "init"
    BY DEF Hello, TypeOK
  <1>4. Len(q) \in Nat /\ Len(q) > 0 /\ Head(q) = q[1]
    BY <1>3, Behead
  <1>5. Head(q).key = x[1]
    BY <1>3, <1>4 DEF UpInv, OfClient
  <1>. DEFINE s == DeriveSessionKeys(x[1], epoch, FALSE)
  <1>6. hsess' = [hsess EXCEPT ![x] = s]
    BY <1>5 DEF Hello, ServerKeyPair
  <1>7. ServerSession(x[1], s)
    BY DEF ServerSession, TypeOK
  <1>8. s \in Sessions
    BY <1>7, ServerKeys
  <1>9. hsess'[x] = s /\ hip'[x] = h
    BY <1>1, <1>6 DEF TypeOK
  <1>. QED BY <1>1, <1>2, <1>6, <1>7, <1>8, <1>9

LEMMA HandlerNext == ASSUME Inv, [Next]_vars PROVE HandlerInv'
  <1>. TypeOK /\ HandlerInv /\ FreshInv
    BY DEF Inv
  <1>. SUFFICES ASSUME NEW x \in Conns
                PROVE  /\ link'[x] = "open" => hpc'[x] \in {"hello", "respond", "serve"}
                       /\ hpc'[x] \in {"none", "hello"} => hip'[x] = NoHost /\ down'[x] = <<>>
                       /\ hpc'[x] \in {"respond", "serve"} => hip'[x] \in Hosts /\ KeyedNow(x)'
                       /\ hip'[x] \in Hosts => ServerSession(x[1], hsess'[x])
                       /\ hpc'[x] = "respond" => NoResponse(x)'
    BY DEF HandlerInv, ServerSession, DeriveSessionKeys
  <1>1. ASSUME NEW c \in Clients, Dial(c)
        PROVE  IF x = <<c, gen[c] + 1>>
                 THEN hpc'[x] = "hello" /\ hpc[x] = "none"
                 ELSE hpc'[x] = hpc[x] /\ link'[x] = link[x]
    <2>1. gen[c] \in Nat /\ (x = <<c, gen[c] + 1>> => hpc[x] = "none")
      BY DEF FreshInv, TypeOK
    <2>. QED BY <1>1, <2>1 DEF Dial, TypeOK
  (* The program counter moves forward. *)
  <1>2. \/ hpc'[x] = hpc[x]
        \/ hpc[x] = "none" /\ hpc'[x] = "hello"
        \/ Hello(x) /\ hpc[x] = "hello" /\ hpc'[x] = "respond"
        \/ Respond(x) /\ hpc[x] = "respond" /\ hpc'[x] = "serve"
        \/ hpc'[x] = "done"
    <2>1. ASSUME NEW y \in Conns, Hello(y)
          PROVE  \/ hpc'[x] = hpc[x]
                 \/ Hello(x) /\ hpc[x] = "hello" /\ hpc'[x] = "respond"
      <3>1. hpc[y] = "hello" /\ hpc' = [hpc EXCEPT ![y] = "respond"]
        BY <2>1 DEF Hello
      <3>. QED BY <2>1, <3>1 DEF TypeOK
    <2>2. ASSUME NEW y \in Conns, Respond(y)
          PROVE  \/ hpc'[x] = hpc[x]
                 \/ Respond(x) /\ hpc[x] = "respond" /\ hpc'[x] = "serve"
      <3>1. hpc[y] = "respond" /\ hpc' = [hpc EXCEPT ![y] = "serve"]
        BY <2>2 DEF Respond
      <3>. QED BY <2>2, <3>1 DEF TypeOK
    <2>3. ASSUME NEW y \in Conns, HelloFails(y) \/ HandlerEnds(y)
          PROVE  hpc'[x] = hpc[x] \/ hpc'[x] = "done"
      BY <2>3 DEF HelloFails, HandlerEnds, TypeOK
    <2>4. ASSUME Restart PROVE hpc'[x] = hpc[x] \/ hpc'[x] = "done"
      BY <2>4 DEF Restart
    <2>. QED BY <1>1, <2>1, <2>2, <2>3, <2>4, ServerFrame
  <1>3. hip[x] \in Hosts => hip'[x] = hip[x] /\ hsess'[x] = hsess[x]
    BY HandlersKeep
  <1>4. Hello(x) \/ (hip'[x] = hip[x] /\ hsess'[x] = hsess[x])
    <2>1. ASSUME NEW y \in Conns, Hello(y)
          PROVE  Hello(x) \/ (hip'[x] = hip[x] /\ hsess'[x] = hsess[x])
      BY <2>1 DEF Hello, TypeOK
    <2>2. UNCHANGED <<hip, hsess>> \/ \E y \in Conns : Hello(y)
      BY ServerFrame, Zenon DEF Dial, HelloFails, Respond, HandlerEnds, Restart
    <2>. QED BY <2>1, <2>2
  <1>5. ASSUME link'[x] = "open" PROVE hpc'[x] \in {"hello", "respond", "serve"}
    <2>1. ASSUME NEW c \in Clients, Dial(c) PROVE hpc'[x] \in {"hello", "respond", "serve"}
      BY <1>1, <1>5, <2>1 DEF HandlerInv
    <2>2. ASSUME NEW y \in Conns, HelloFails(y) PROVE hpc'[x] \in {"hello", "respond", "serve"}
      <3>1. /\ link' = [link EXCEPT ![y] = "lost"] /\ hpc' = [hpc EXCEPT ![y] = "done"]
        BY <2>2 DEF HelloFails
      <3>2. x # y /\ link[x] = "open" /\ hpc'[x] = hpc[x]
        BY <1>5, <3>1 DEF TypeOK
      <3>. QED BY <3>2 DEF HandlerInv
    <2>3. ASSUME NEW y \in Conns, HandlerEnds(y) PROVE hpc'[x] \in {"hello", "respond", "serve"}
      <3>1. /\ link' = link /\ link[y] # "open" /\ hpc' = [hpc EXCEPT ![y] = "done"]
        BY <2>3 DEF HandlerEnds
      <3>2. x # y /\ link[x] = "open" /\ hpc'[x] = hpc[x]
        BY <1>5, <3>1 DEF TypeOK
      <3>. QED BY <3>2 DEF HandlerInv
    <2>4. ASSUME NEW y \in Conns, Hello(y) \/ Respond(y)
          PROVE  hpc'[x] \in {"hello", "respond", "serve"}
      <3>1. link' = link /\ \E pc \in {"respond", "serve"} : hpc' = [hpc EXCEPT ![y] = pc]
        BY <2>4 DEF Hello, Respond
      <3>. QED BY <1>5, <3>1 DEF HandlerInv, TypeOK
    <2>5. ASSUME Restart PROVE FALSE
      BY <1>5, <2>5 DEF Restart
    <2>6. CASE UNCHANGED <<hpc, hip, hsess>>
      <3>1. ASSUME NEW c \in Clients, HandshakeFails(c) PROVE link[x] = "open"
        BY <1>5, <3>1 DEF HandshakeFails, TypeOK
      <3>2. ASSUME NEW y \in Conns, LinkLost(y) PROVE link[x] = "open"
        BY <1>5, <3>2 DEF LinkLost, TypeOK
      <3>3. \/ link[x] = "open" \/ Restart
            \/ \E c \in Clients : Dial(c)
            \/ \E y \in Conns : HelloFails(y)
        BY <1>5, <3>1, <3>2, LinkFrame
      <3>4. link[x] = "open" => hpc[x] \in {"hello", "respond", "serve"}
        BY DEF HandlerInv
      <3>. QED BY <2>1, <2>2, <2>5, <2>6, <3>3, <3>4
    <2>. QED BY <2>1, <2>2, <2>3, <2>4, <2>5, <2>6, ServerFrame
  <1>6. ASSUME hpc'[x] \in {"none", "hello"} PROVE hip'[x] = NoHost /\ down'[x] = <<>>
    <2>1. hpc[x] \in {"none", "hello"} /\ ~Hello(x)
      BY <1>2, <1>6 DEF Hello, TypeOK
    <2>2. ~Respond(x) /\ \A h \in Hosts : ~Forward(x, h)
      BY <2>1 DEF Respond, Forward, InTable
    <2>. QED BY <1>4, <2>1, <2>2, DownCases DEF HandlerInv
  <1>7. ASSUME hpc'[x] \in {"respond", "serve"}
        PROVE  hip'[x] \in Hosts /\ KeyedNow(x)'
    <2>1. epoch' = epoch
      <3>1. ~Restart
        BY <1>7 DEF Restart
      <3>. QED
        BY <3>1, EpochFrame
    <2>2. CASE Hello(x)
      BY <2>1, <2>2, Greeted DEF KeyedNow, DeriveSessionKeys
    <2>3. CASE ~Hello(x)
      <3>1. hip[x] \in Hosts /\ KeyedNow(x)
        BY <1>2, <1>7, <2>3 DEF HandlerInv
      <3>. QED BY <1>3, <2>1, <3>1 DEF KeyedNow, DeriveSessionKeys
    <2>. QED BY <2>2, <2>3
  <1>8. ASSUME hip'[x] \in Hosts PROVE ServerSession(x[1], hsess'[x])
    BY <1>4, <1>8, Greeted DEF HandlerInv
  <1>9. ASSUME hpc'[x] = "respond" PROVE NoResponse(x)'
    <2>1. CASE Hello(x)
      <3>1. down[x] = <<>> /\ down' = down
        BY <2>1 DEF Hello, HandlerInv
      <3>. QED BY <3>1 DEF NoResponse
    <2>2. CASE ~Hello(x)
      <3>1. hpc[x] = "respond"
        BY <1>2, <1>9, <2>2
      <3>2. ~Respond(x)
        BY <1>9 DEF Respond, TypeOK
      <3>. QED BY <3>1, <3>2, NoResponseStays DEF HandlerInv
    <2>. QED BY <2>1, <2>2
  <1>. QED BY <1>5, <1>6, <1>7, <1>8, <1>9

LEMMA OfHandlerStays ==
    ASSUME TypeOK, HandlerInv, [Next]_vars, NEW x \in Conns, NEW p, OfHandler(x, p)
    PROVE  OfHandler(x, p)'
  <1>1. hip'[x] = hip[x] /\ hsess'[x] = hsess[x]
    BY HandlersKeep DEF OfHandler
  <1>. QED BY <1>1 DEF OfHandler

(* What a handler, or tunReadLoop in its name, writes. *)
LEMMA HandlerWrites ==
    ASSUME TypeOK, HandlerInv, NEW x \in Conns, NEW p,
           \/ Respond(x) /\ p = HandshakeResponse(hip[x])
           \/ \E h \in Hosts : Forward(x, h) /\ p = Encrypt(hsess[x], h)
    PROVE  OfHandler(x, p) /\ p \in Packets
  <1>. x[1] \in Clients
    BY ConnParts
  <1>1. hpc[x] \in {"respond", "serve"}
    BY DEF Respond, Forward, InTable
  <1>2. /\ hip[x] \in Hosts /\ hsess[x] = DeriveSessionKeys(x[1], epoch, FALSE)
        /\ epoch \in 1 .. MaxEpoch
    BY <1>1 DEF HandlerInv, KeyedNow, DeriveSessionKeys, TypeOK
  <1>3. hsess[x].send \in ToClient(x[1])
    BY <1>2, ServerKeys DEF ServerSession
  <1>4. CASE Respond(x) /\ p = HandshakeResponse(hip[x])
    BY <1>2, <1>4 DEF HandshakeResponse, ServerKeyPair, OfHandler, Packets
  <1>5. ASSUME NEW h \in Hosts, Forward(x, h), p = Encrypt(hsess[x], h)
        PROVE  OfHandler(x, p) /\ p \in Packets
    BY <1>2, <1>3, <1>5 DEF Forward, Encrypt, OfHandler, Packets, ToClient
  <1>. QED BY <1>4, <1>5

LEMMA DownNext == ASSUME Inv, [Next]_vars PROVE DownInv'
  <1>. TypeOK /\ HandlerInv /\ DownInv
    BY DEF Inv
  <1>1. ASSUME NEW x \in Conns PROVE
          \/ down'[x] = down[x]
          \/ down'[x] = <<>>
          \/ down[x] # <<>> /\ down'[x] = Tail(down[x])
          \/ \E p \in Packets : /\ OfHandler(x, p) /\ down'[x] = Append(down[x], p)
                                /\ p.type = "resp" => NoResponse(x)
    <2>1. CASE Respond(x) /\ down'[x] = Append(down[x], HandshakeResponse(hip[x]))
      <3>1. NoResponse(x)
        BY <2>1 DEF Respond, HandlerInv
      <3>. QED BY <2>1, <3>1, HandlerWrites
    <2>2. ASSUME NEW h \in Hosts, Forward(x, h), down'[x] = Append(down[x], Encrypt(hsess[x], h))
          PROVE  \E p \in Packets : /\ OfHandler(x, p) /\ down'[x] = Append(down[x], p)
                                    /\ p.type = "resp" => NoResponse(x)
      <3>1. Encrypt(hsess[x], h).type # "resp"
        BY DEF Encrypt
      <3>. QED BY <2>2, <3>1, HandlerWrites
    <2>. QED BY <2>1, <2>2, DownCases
  <1>2. ASSUME NEW x \in Conns, NEW i \in 1 .. Len(down'[x]), NEW p, p = down'[x][i]
        PROVE  OfHandler(x, p)
    <2>. DEFINE q == down[x]
    <2>1. q \in Seq(Packets) /\ \A j \in 1 .. Len(q) : OfHandler(x, q[j])
      BY DEF DownInv, TypeOK
    <2>2. CASE q # <<>> /\ down'[x] = Tail(q)
      <3>1. \A j \in 1 .. Len(Tail(q)) : Tail(q)[j] = q[j + 1] /\ j + 1 \in 1 .. Len(q)
        BY <2>1, <2>2, Behead
      <3>. HIDE DEF q
      <3>. QED BY <1>2, <2>1, <2>2, <3>1
    <2>3. ASSUME NEW r \in Packets, OfHandler(x, r), down'[x] = Append(q, r)
          PROVE  OfHandler(x, p)
      <3>1. /\ Len(q) \in Nat /\ Len(Append(q, r)) = Len(q) + 1
            /\ \A j \in 1 .. Len(q) : Append(q, r)[j] = q[j]
            /\ Append(q, r)[Len(q) + 1] = r
        BY <2>1, Appended
      <3>. HIDE DEF q
      <3>. QED BY <1>2, <2>1, <2>3, <3>1
    <2>4. CASE down'[x] = q
      BY <1>2, <2>1, <2>4
    <2>5. down'[x] # <<>>
      BY <1>2
    <2>. QED BY <1>1, <2>2, <2>3, <2>4, <2>5
  <1>3. ASSUME NEW x \in Conns, NEW i \in 1 .. Len(down'[x]), NEW j \in 1 .. Len(down'[x]),
               down'[x][i].type = "resp", down'[x][j].type = "resp"
        PROVE  i = j
    <2>. DEFINE q == down[x]
    <2>1. /\ q \in Seq(Packets) /\ Len(q) \in Nat
          /\ \A k, l \in 1 .. Len(q) : q[k].type = "resp" /\ q[l].type = "resp" => k = l
      BY DEF DownInv, TypeOK
    <2>2. CASE q # <<>> /\ down'[x] = Tail(q)
      <3>1. \A k \in 1 .. Len(Tail(q)) : Tail(q)[k] = q[k + 1] /\ k + 1 \in 1 .. Len(q)
        BY <2>1, <2>2, Behead
      <3>2. i \in Int /\ j \in Int
        OBVIOUS
      <3>3. i + 1 = j + 1
        <4>. HIDE DEF q
        <4>. QED BY <1>3, <2>1, <2>2, <3>1
      <3>. QED BY <3>2, <3>3
    <2>3. ASSUME NEW r \in Packets, r.type = "resp" => NoResponse(x), down'[x] = Append(q, r)
          PROVE  i = j
      <3>1. /\ Len(q) \in Nat /\ Len(Append(q, r)) = Len(q) + 1
            /\ \A k \in 1 .. Len(q) : Append(q, r)[k] = q[k]
            /\ Append(q, r)[Len(q) + 1] = r
        BY <2>1, Appended
      <3>2. r.type = "resp" => \A k \in 1 .. Len(q) : q[k].type # "resp"
        BY <2>3 DEF NoResponse
      <3>. HIDE DEF q
      <3>. QED BY <1>3, <2>1, <2>3, <3>1, <3>2
    <2>4. CASE down'[x] = q
      BY <1>3, <2>1, <2>4
    <2>5. down'[x] # <<>>
      BY <1>3
    <2>. QED BY <1>1, <2>2, <2>3, <2>4, <2>5
  <1>4. ASSUME NEW x \in Conns, NEW i \in 1 .. Len(down'[x])
        PROVE  OfHandler(x, down[x][i])'
    <2>1. \A p : p = down'[x][i] => OfHandler(x, p)'
      BY <1>2, <1>4, OfHandlerStays
    <2>. QED BY <2>1 DEF OfHandler
  <1>. QED BY <1>3, <1>4 DEF DownInv

(* A tunReadLoop left of an earlier connection writes on a later one. *)
LEMMA LoopWrites ==
    ASSUME TypeOK, TLoopInv, NEW y \in Conns, TWrite(y)
    PROVE  /\ tat[y] \in Packets /\ OfClient(Cur(y[1]), tat[y])
           /\ gen[y[1]] = 1 => hpc'[Cur(y[1])] # "hello"
  <1>1. tpc[y] = "write" /\ UNCHANGED hpc
    BY DEF TWrite, serverVars
  <1>2. tat[y].type = "data" /\ tat[y].key \in FromClient(y[1]) /\ Answered(y)
    BY <1>1 DEF TLoopInv
  <1>3. OfClient(Cur(y[1]), tat[y])
    BY <1>2 DEF OfClient, Cur
  <1>4. tat[y] \in Packets
    BY <1>1, <1>2 DEF TypeOK, Nothing, Packets
  <1>5. gen[y[1]] = 1 => Cur(y[1]) = y
    BY <1>2, ConnParts DEF Answered, Cur
  <1>. QED BY <1>1, <1>2, <1>3, <1>4, <1>5 DEF Answered

LEMMA UpNext == ASSUME Inv, [Next]_vars PROVE UpInv'
  <1>. TypeOK /\ FreshInv /\ HandlerInv /\ UpInv /\ TLoopInv
    BY DEF Inv
  <1>1. ASSUME NEW y \in Conns, TWrite(y)
        PROVE  /\ tat[y] \in Packets /\ OfClient(Cur(y[1]), tat[y])
               /\ gen[y[1]] = 1 => hpc'[Cur(y[1])] # "hello"
    BY <1>1, LoopWrites
  <1>2. ASSUME NEW x \in Conns PROVE
          \/ up'[x] = up[x]
          \/ up'[x] = <<>>
          \/ up[x] # <<>> /\ up'[x] = Tail(up[x]) /\ hpc'[x] # "hello"
          \/ \E p \in Packets : /\ OfClient(x, p) /\ up'[x] = Append(up[x], p)
                                /\ x[2] = 1 /\ hpc'[x] = "hello" => p.type = "init"
    <2>1. ASSUME NEW c \in Clients, SendInit(c), x = Cur(c), up'[x] = Append(up[x], HandshakeInit(x))
          PROVE  \E p \in Packets : /\ OfClient(x, p) /\ up'[x] = Append(up[x], p)
                                    /\ x[2] = 1 /\ hpc'[x] = "hello" => p.type = "init"
      <3>1. HandshakeInit(x) \in Packets /\ OfClient(x, HandshakeInit(x)) /\ HandshakeInit(x).type = "init"
        BY ConnParts DEF HandshakeInit, ClientKeyPair, Packets, OfClient
      <3>. QED BY <2>1, <3>1
    <2>2. ASSUME NEW y \in Conns, TWrite(y), x = Cur(y[1]), up'[x] = Append(up[x], tat[y])
          PROVE  \E p \in Packets : /\ OfClient(x, p) /\ up'[x] = Append(up[x], p)
                                    /\ x[2] = 1 /\ hpc'[x] = "hello" => p.type = "init"
      <3>1. x[2] = gen[y[1]]
        BY <2>2 DEF Cur
      <3>. QED BY <1>1, <2>2, <3>1
    <2>. QED BY <2>1, <2>2, UpCases
  <1>3. ASSUME NEW x \in Conns, NEW i \in 1 .. Len(up'[x]), NEW p, p = up'[x][i]
        PROVE  OfClient(x, p)
    <2>. DEFINE q == up[x]
    <2>1. q \in Seq(Packets) /\ \A j \in 1 .. Len(q) : OfClient(x, q[j])
      BY DEF UpInv, TypeOK
    <2>2. CASE q # <<>> /\ up'[x] = Tail(q)
      <3>1. \A j \in 1 .. Len(Tail(q)) : Tail(q)[j] = q[j + 1] /\ j + 1 \in 1 .. Len(q)
        BY <2>1, <2>2, Behead
      <3>. HIDE DEF q
      <3>. QED BY <1>3, <2>1, <2>2, <3>1
    <2>3. ASSUME NEW r \in Packets, OfClient(x, r), up'[x] = Append(q, r)
          PROVE  OfClient(x, p)
      <3>1. /\ Len(q) \in Nat /\ Len(Append(q, r)) = Len(q) + 1
            /\ \A j \in 1 .. Len(q) : Append(q, r)[j] = q[j]
            /\ Append(q, r)[Len(q) + 1] = r
        BY <2>1, Appended
      <3>. HIDE DEF q
      <3>. QED BY <1>3, <2>1, <2>3, <3>1
    <2>4. CASE up'[x] = q
      BY <1>3, <2>1, <2>4
    <2>5. up'[x] # <<>>
      BY <1>3
    <2>. QED BY <1>2, <2>2, <2>3, <2>4, <2>5
  <1>4. ASSUME NEW x \in Conns, x[2] = 1, hpc'[x] = "hello", up'[x] # <<>>
        PROVE  up'[x][1].type = "init"
    <2>. DEFINE q == up[x]
    <2>1. q \in Seq(Packets)
      BY DEF TypeOK
    <2>2. q # <<>> => q[1].type = "init"
      <3>1. hpc[x] = "hello" \/ hpc[x] = "none"
        <4>1. ASSUME NEW c \in Clients, Dial(c) PROVE hpc[x] = "hello" \/ hpc[x] = "none"
          <5>1. gen[c] \in Nat /\ (x = <<c, gen[c] + 1>> => hpc[x] = "none")
            BY DEF FreshInv, TypeOK
          <5>. QED BY <1>4, <4>1, <5>1 DEF Dial, TypeOK
        <4>2. ASSUME NEW y \in Conns, Hello(y) \/ HelloFails(y) \/ Respond(y) \/ HandlerEnds(y)
              PROVE  hpc[x] = "hello"
          <5>1. \E pc \in {"respond", "serve", "done"} : hpc' = [hpc EXCEPT ![y] = pc]
            BY <4>2 DEF Hello, HelloFails, Respond, HandlerEnds
          <5>2. DOMAIN hpc = Conns
            BY DEF TypeOK
          <5>. QED BY <1>4, <5>1, <5>2
        <4>3. ~Restart
          BY <1>4 DEF Restart
        <4>. QED BY <1>4, <4>1, <4>2, <4>3, ServerFrame
      <3>2. ASSUME hpc[x] = "none" PROVE q = <<>>
        <4>1. \E c \in Clients : Dial(c) /\ x = <<c, gen[c] + 1>>
          <5>1. ASSUME NEW c \in Clients, Dial(c) PROVE x = <<c, gen[c] + 1>>
            BY <1>4, <3>2, <5>1 DEF Dial, TypeOK
          <5>2. ASSUME NEW y \in Conns, Hello(y) \/ HelloFails(y) \/ Respond(y) \/ HandlerEnds(y)
                PROVE  FALSE
            <6>1. \E pc \in {"respond", "serve", "done"} : hpc' = [hpc EXCEPT ![y] = pc]
              BY <5>2 DEF Hello, HelloFails, Respond, HandlerEnds
            <6>2. DOMAIN hpc = Conns
              BY DEF TypeOK
            <6>. QED BY <1>4, <3>2, <6>1, <6>2
          <5>3. ~Restart
            BY <1>4 DEF Restart
          <5>. QED BY <1>4, <3>2, <5>1, <5>2, <5>3, ServerFrame
        <4>. QED BY <4>1 DEF FreshInv, TypeOK
      <3>. QED BY <1>4, <3>1, <3>2 DEF UpInv
    <2>3. ASSUME NEW r \in Packets, r.type = "init", up'[x] = Append(q, r)
          PROVE  up'[x][1].type = "init"
      <3>1. /\ Len(q) \in Nat /\ Append(q, r)[Len(q) + 1] = r
            /\ \A j \in 1 .. Len(q) : Append(q, r)[j] = q[j]
            /\ q = <<>> => Len(q) = 0
            /\ q # <<>> => Len(q) > 0
        BY <2>1, Appended
      <3>. HIDE DEF q
      <3>. QED BY <2>2, <2>3, <3>1
    <2>4. CASE up'[x] = q
      BY <1>4, <2>2, <2>4
    <2>. QED BY <1>2, <1>4, <2>3, <2>4
  <1>5. ASSUME NEW x \in Conns, NEW i \in 1 .. Len(up'[x])
        PROVE  OfClient(x, up[x][i])'
    BY <1>3, <1>5 DEF OfClient
  <1>. QED BY <1>4, <1>5 DEF UpInv

LEMMA CrossedKeys ==
    ASSUME NEW c \in Clients, NEW s, NEW hs, Crossed(c, s, hs)
    PROVE  /\ ClientSession(c, s) /\ ServerSession(c, hs)
           /\ s.send = hs.recv /\ s.recv = hs.send
  <1>1. PICK e \in 1 .. MaxEpoch : /\ s = DeriveSessionKeys(c, e, TRUE)
                                  /\ hs = DeriveSessionKeys(c, e, FALSE)
    BY DEF Crossed
  <1>2. ClientSession(c, s) /\ ServerSession(c, hs)
    BY <1>1, Zenon DEF ClientSession, ServerSession
  <1>3. s.send = hs.recv /\ s.recv = hs.send
    BY <1>1 DEF DeriveSessionKeys
  <1>. QED BY <1>2, <1>3

LEMMA ConnectNext == ASSUME Inv, [Next]_vars PROVE ConnectInv'
  <1>. TypeOK /\ FreshInv /\ HandlerInv /\ DownInv /\ ConnectInv
    BY DEF Inv
  <1>1. ASSUME NEW c \in Clients
        PROVE  sess'[c] = NoSession \/ ClientSession(c, sess'[c])
    <2>1. ASSUME NEW d \in Clients, TakeResponse(d)
          PROVE  sess'[c] = NoSession \/ ClientSession(c, sess'[c])
      <3>1. PICK s : sess' = [sess EXCEPT ![d] = s] /\ Crossed(d, s, hsess[Cur(d)])
        BY <2>1, ResponseTaken
      <3>2. ClientSession(d, s)
        BY <3>1, CrossedKeys
      <3>. QED BY <3>1, <3>2 DEF ConnectInv, TypeOK
    <2>2. UNCHANGED sess \/ \E d \in Clients : TakeResponse(d)
      BY ConnectFrame, Zenon DEF Connect, SendInit, Dial, HandshakeFails, NewDevice,
           StartLoops, TWrite, RReadError
    <2>. QED BY <2>1, <2>2 DEF ConnectInv
  <1>2. ASSUME NEW c \in Clients, cpc'[c] \in {"tun", "start", "up"}
        PROVE  /\ Answered(Cur(c))'
               /\ hip'[Cur(c)'] \in Hosts /\ assigned'[c] = hip'[Cur(c)']
               /\ Crossed(c, sess'[c], hsess'[Cur(c)'])
    <2>1. CASE TakeResponse(c)
      <3>1. Cur(c)' = Cur(c) /\ UNCHANGED <<hip, hsess>>
        BY <2>1 DEF TakeResponse, Cur, serverVars
      <3>2. PICK s : sess' = [sess EXCEPT ![c] = s] /\ Crossed(c, s, hsess[Cur(c)])
        BY <2>1, ResponseTaken
      <3>3. /\ Answered(Cur(c))' /\ hip[Cur(c)] \in Hosts
            /\ assigned' = [assigned EXCEPT ![c] = hip[Cur(c)]]
        BY <2>1, ResponseTaken
      <3>4. sess'[c] = s /\ assigned'[c] = hip[Cur(c)]
        BY <3>2, <3>3 DEF TypeOK
      <3>. QED BY <3>1, <3>2, <3>3, <3>4
    <2>2. CASE ~TakeResponse(c)
      <3>. DEFINE Kept == /\ cpc[c] \in {"tun", "start", "up"} /\ assigned'[c] = assigned[c]
                          /\ sess'[c] = sess[c] /\ gen'[c] = gen[c]
      <3>1. Kept
        <4>1. ASSUME NEW d \in Clients, Dial(d) \/ SendInit(d) \/ HandshakeFails(d)
              PROVE  Kept
          <5>1. /\ c # d /\ UNCHANGED <<assigned, sess>>
                /\ \E v : cpc' = [cpc EXCEPT ![d] = v]
                /\ gen' = gen \/ gen' = [gen EXCEPT ![d] = @ + 1]
            BY <1>2, <4>1 DEF Dial, SendInit, HandshakeFails, CGoto, TypeOK
          <5>. QED BY <1>2, <5>1 DEF TypeOK
        <4>2. ASSUME NEW d \in Clients, NewDevice(d) \/ StartLoops(d)
              PROVE  Kept
          BY <1>2, <4>2 DEF NewDevice, StartLoops, CGoto, TypeOK
        <4>3. ASSUME NEW d \in Clients, TakeResponse(d)
              PROVE  Kept
          <5>1. /\ c # d /\ UNCHANGED gen /\ \E v : cpc' = [cpc EXCEPT ![d] = v]
                /\ \E v : assigned' = [assigned EXCEPT ![d] = v]
                /\ \E v : sess' = [sess EXCEPT ![d] = v]
            BY <2>2, <4>3 DEF TakeResponse, CGoto
          <5>. QED BY <1>2, <5>1 DEF TypeOK
        <4>4. ASSUME NEW y \in Conns, TWrite(y) \/ RReadError(y)
              PROVE  Kept
          BY <1>2, <4>4 DEF TWrite, RReadError, HandleDisconnect, TypeOK
        <4>. QED BY <1>2, <4>1, <4>2, <4>3, <4>4, ConnectFrame DEF Connect
      <3>2. Cur(c)' = Cur(c) /\ Cur(c) \in Conns
        BY <3>1, CurConn DEF Cur
      <3>3. /\ Answered(Cur(c)) /\ hip[Cur(c)] \in Hosts /\ assigned[c] = hip[Cur(c)]
            /\ Crossed(c, sess[c], hsess[Cur(c)])
        BY <3>1 DEF ConnectInv
      <3>4. hip'[Cur(c)] = hip[Cur(c)] /\ hsess'[Cur(c)] = hsess[Cur(c)]
        BY <3>2, <3>3, HandlersKeep
      <3>5. Answered(Cur(c))'
        <4>1. \A x \in Conns : Answered(x) => Answered(x)'
          BY AnsweredStays
        <4>2. PICK x \in Conns : x = Cur(c)
          BY <3>2
        <4>3. Answered(x)' /\ x = Cur(c)'
          BY <3>2, <3>3, <4>1, <4>2
        <4>. QED BY <4>3
      <3>. QED BY <3>1, <3>2, <3>3, <3>4, <3>5
    <2>. QED BY <2>1, <2>2
  <1>3. ASSUME NEW c \in Clients, cpc'[c] \in {"tun", "start", "up"}
        PROVE  hip'[Cur(c)'] = (hip[Cur(c)])' /\ hsess'[Cur(c)'] = (hsess[Cur(c)])'
    OBVIOUS
  <1>. QED BY <1>1, <1>2, <1>3 DEF ConnectInv

LEMMA ServedOfClient ==
    ASSUME TypeOK, HandlerInv, [Next]_vars, NEW c \in Clients
    PROVE  Served(c, gen[c]) \subseteq Served(c, gen[c])'
  <1>1. gen[c] \in Nat /\ gen'[c] \in Nat /\ gen[c] <= gen'[c] /\ gen[c] <= MaxGen[c]
    BY GenGrows DEF TypeOK
  <1>2. \A n \in Nat : gen[c] <= n => Served(c, gen[c]) \subseteq Served(c, n)'
    <2>1. \A g, n \in Nat : g <= n /\ g <= MaxGen[c] => Served(c, g) \subseteq Served(c, n)'
      BY ServedGrows
    <2>. SUFFICES ASSUME NEW n \in Nat, gen[c] <= n, NEW h \in Served(c, gen[c])
                  PROVE  h \in Served(c, n)'
      OBVIOUS
    <2>2. \E g \in Nat : g = gen[c]
      BY <1>1
    <2>. QED BY <1>1, <2>1, <2>2
  <1>. QED BY <1>1, <1>2 DEF Served

(* A device is made for a connection whose handshake is done. *)
LEMMA DeviceMade ==
    ASSUME TypeOK, FreshInv, ConnectInv, NEW c \in Clients, NewDevice(c)
    PROVE  /\ Cur(c) \in Conns /\ Answered(Cur(c)) /\ ClientSession(c, sess[c])
           /\ Cur(c)[1] = c /\ Cur(c)[2] = gen[c]
  <1>1. Cur(c) \in Conns /\ cpc[c] = "tun" /\ Cur(c)[1] = c /\ Cur(c)[2] = gen[c]
    BY CurConn DEF NewDevice, CGoto
  <1>2. Answered(Cur(c)) /\ Crossed(c, sess[c], hsess[Cur(c)])
    BY <1>1 DEF ConnectInv
  <1>. QED BY <1>1, <1>2, CrossedKeys

LEMMA DeviceNext == ASSUME Inv, [Next]_vars PROVE DeviceInv'
  <1>. TypeOK /\ FreshInv /\ HandlerInv /\ DownInv /\ ConnectInv /\ DeviceInv
    BY DEF Inv
  <1>. SUFFICES ASSUME NEW x \in Conns, dev'[x] # NoHost
                PROVE  Answered(x)' /\ dev'[x] = hip'[x]
    BY DEF DeviceInv
  <1>1. Answered(x) /\ dev'[x] = hip[x] /\ hip[x] # NoHost
    <2>1. CASE dev'[x] = dev[x]
      BY <2>1 DEF DeviceInv
    <2>2. ASSUME NEW c \in Clients, NewDevice(c), dev'[x] # dev[x]
          PROVE  Answered(x) /\ dev'[x] = hip[x] /\ hip[x] # NoHost
      <3>1. x = Cur(c) /\ dev'[x] = assigned[c] /\ cpc[c] = "tun"
        BY <2>2 DEF NewDevice, CGoto, TypeOK
      <3>2. Answered(Cur(c)) /\ assigned[c] = hip[Cur(c)]
        BY <3>1 DEF ConnectInv
      <3>. QED BY <3>1, <3>2
    <2>. QED BY <2>1, <2>2, DeviceFrame
  <1>2. hip'[x] = hip[x]
    BY <1>1, HandlersKeep DEF TypeOK, NoHost
  <1>3. Answered(x)'
    BY <1>1, AnsweredStays
  <1>. QED BY <1>1, <1>2, <1>3

LEMMA TLoopNext == ASSUME Inv, [Next]_vars PROVE TLoopInv'
  <1>. TypeOK /\ FreshInv /\ HandlerInv /\ DownInv /\ ConnectInv /\ TLoopInv
    BY DEF Inv
  <1>. SUFFICES ASSUME NEW x \in Conns, tpc'[x] # "off"
                PROVE  /\ Answered(x)' /\ ClientSession(x[1], sess[x[1]])'
                       /\ tpc'[x] = "write" =>
                             tat'[x].type = "data" /\ tat'[x].key \in FromClient(x[1])
    BY DEF TLoopInv
  <1>. DEFINE c == x[1]
  <1>. c \in Clients
    BY ConnParts
  <1>. DEFINE Moved ==
         \/ tpc[x] # "off" /\ tpc'[x] = tpc[x] /\ tat'[x] = tat[x]
         \/ NewDevice(c) /\ x = Cur(c) /\ tpc'[x] = "read"
         \/ TEncrypt(x)
         \/ tpc[x] # "off" /\ tpc'[x] = "read"
  <1>1. Moved
    <2>1. ASSUME NEW d \in Clients, NewDevice(d) PROVE Moved
      <3>1. UNCHANGED tat /\ Cur(d)[1] = d
        BY <2>1, DeviceMade DEF NewDevice
      <3>2. CASE UNCHANGED tpc
        BY <3>1, <3>2
      <3>3. CASE tpc' = [tpc EXCEPT ![Cur(d)] = "read"]
        <4>1. tpc'[x] = IF x = Cur(d) THEN "read" ELSE tpc[x]
          BY <3>3 DEF TypeOK
        <4>2. CASE x = Cur(d)
          <5>1. c = d
            BY <3>1, <4>2
          <5>. QED BY <2>1, <4>1, <4>2, <5>1
        <4>3. CASE x # Cur(d)
          BY <3>1, <4>1, <4>3
        <4>. QED BY <4>2, <4>3
      <3>. QED BY <2>1, <3>2, <3>3 DEF NewDevice
    <2>2. ASSUME NEW y \in Conns, TEncrypt(y) PROVE Moved
      <3>1. CASE x = y
        BY <2>2, <3>1
      <3>2. CASE x # y
        <4>1. tpc'[x] = tpc[x] /\ tat'[x] = tat[x]
          BY <2>2, <3>2 DEF TEncrypt, TypeOK
        <4>. QED BY <4>1
      <3>. QED BY <3>1, <3>2
    <2>3. ASSUME NEW y \in Conns, TWrite(y) PROVE Moved
      <3>1. /\ tpc[y] = "write" /\ tat' = [tat EXCEPT ![y] = Nothing]
            /\ tpc' = [tpc EXCEPT ![y] = "read"] \/ tpc' = [tpc EXCEPT ![y] = "off"]
        BY <2>3 DEF TWrite
      <3>. QED BY <3>1 DEF TypeOK
    <2>. QED BY <2>1, <2>2, <2>3, TLoopFrame DEF TunReadLoop
  <1>2. Answered(x)' /\ ClientSession(c, sess[c])'
    <2>1. CASE tpc[x] # "off"
      BY <2>1, AnsweredStays, KeysStay DEF TLoopInv
    <2>2. CASE NewDevice(c) /\ x = Cur(c)
      BY <2>2, DeviceMade, AnsweredStays, KeysStay
    <2>. QED BY <1>1, <2>1, <2>2 DEF TEncrypt
  <1>3. ASSUME tpc'[x] = "write"
        PROVE  tat'[x].type = "data" /\ tat'[x].key \in FromClient(c)
    <2>1. CASE tpc[x] # "off" /\ tpc'[x] = tpc[x] /\ tat'[x] = tat[x]
      BY <1>3, <2>1 DEF TLoopInv
    <2>2. CASE TEncrypt(x)
      <3>1. tat'[x] = Encrypt(sess[c], NoHost) /\ tpc[x] = "read"
        BY <2>2 DEF TEncrypt, TypeOK
      <3>2. sess[c].send \in FromClient(c)
        BY <3>1, ClientKeys DEF TLoopInv
      <3>. QED BY <3>1, <3>2 DEF Encrypt
    <2>. QED BY <1>1, <1>3, <2>1, <2>2
  <1>. QED BY <1>2, <1>3

(* What a receiveLoop reads on connection y. *)
LEMMA PacketRead ==
    ASSUME Inv, NEW x \in Conns, RPacket(x)
    PROVE  LET y == <<x[1], rat[x].gen>>
               p == Head(down[y])
           IN  /\ y \in Conns /\ p \in Packets /\ down[y] # <<>>
               /\ rpc[x] = "read" /\ OfHandler(y, p) /\ rat[x].gen \in x[2] .. gen[x[1]]
               /\ p.type = "resp" => ~NoResponse(y)
  <1>. TypeOK /\ DownInv /\ RLoopInv /\ x[1] \in Clients /\ x[2] \in Nat \ {0}
    BY ConnParts DEF Inv
  <1>1. rpc[x] = "read" /\ rat[x].gen \in x[2] .. gen[x[1]]
    BY DEF RPacket, RLoopInv
  <1>2. PICK g \in 1 .. gen[x[1]] : g = rat[x].gen
    BY <1>1 DEF TypeOK
  <1>3. <<x[1], g>> \in Conns
    BY ConnOf, TunnelAssumption DEF TypeOK
  <1>. DEFINE q == down[<<x[1], g>>]
  <1>4. q # <<>> /\ q \in Seq(Packets)
    BY <1>2, <1>3 DEF RPacket, TypeOK
  <1>5. Len(q) \in Nat /\ Len(q) > 0 /\ Head(q) = q[1] /\ Head(q) \in Packets
    BY <1>4, Behead
  <1>6. OfHandler(<<x[1], g>>, q[1]) /\ (q[1].type = "resp" => ~NoResponse(<<x[1], g>>))
    BY <1>3, <1>5 DEF DownInv, NoResponse
  <1>. QED BY <1>1, <1>2, <1>3, <1>4, <1>5, <1>6

LEMMA RLoopNext == ASSUME Inv, [Next]_vars PROVE RLoopInv'
  <1>. TypeOK /\ FreshInv /\ HandlerInv /\ DownInv /\ ConnectInv /\ RLoopInv
    BY DEF Inv
  <1>. SUFFICES ASSUME NEW x \in Conns, rpc'[x] # "off"
                PROVE  /\ Answered(x)' /\ ClientSession(x[1], sess[x[1]])'
                       /\ rpc'[x] = "read" =>
                             rat'[x].type = "conn" /\ rat'[x].gen \in x[2] .. gen'[x[1]]
                       /\ rpc'[x] = "handle" /\ rat'[x].type = "data" =>
                             /\ rat'[x].key \in ToClient(x[1])
                             /\ rat'[x].ip \in Served(x[1], gen[x[1]])'
    BY DEF RLoopInv
  <1>. DEFINE c == x[1]
  <1>. c \in Clients /\ x[2] \in Nat \ {0}
    BY ConnParts
  <1>. DEFINE Moved ==
         \/ rpc[x] # "off" /\ rpc'[x] = rpc[x] /\ rat'[x] = rat[x]
         \/ StartLoops(c) /\ x = Cur(c) /\ rpc'[x] = "check"
         \/ RRead(x) \/ RPacket(x) \/ RHandle(x)
  <1>1. Moved
    <2>1. ASSUME NEW d \in Clients, StartLoops(d) PROVE Moved
      <3>1. UNCHANGED rat /\ Cur(d)[1] = d /\ rpc' = [rpc EXCEPT ![Cur(d)] = "check"]
        BY <2>1 DEF StartLoops, Cur
      <3>. QED BY <2>1, <3>1 DEF TypeOK
    <2>2. ASSUME NEW y \in Conns, RRead(y) PROVE Moved
      BY <2>2 DEF RRead, TypeOK
    <2>3. ASSUME NEW y \in Conns, RPacket(y) PROVE Moved
      <3>1. /\ rpc' = [rpc EXCEPT ![y] = "handle"]
            /\ \E v : rat' = [rat EXCEPT ![y] = v]
        BY <2>3 DEF RPacket
      <3>. QED BY <2>3, <3>1 DEF TypeOK
    <2>4. ASSUME NEW y \in Conns, RReadError(y) \/ RHandle(y) PROVE Moved
      <3>1. /\ rat' = [rat EXCEPT ![y] = Nothing]
            /\ \/ rpc' = [rpc EXCEPT ![y] = "off"]
               \/ rpc' = [rpc EXCEPT ![y] = "check"] /\ RHandle(y)
        BY <2>4 DEF RReadError, RHandle
      <3>. QED BY <3>1 DEF TypeOK
    <2>. QED BY <2>1, <2>2, <2>3, <2>4, RLoopFrame DEF ReceiveLoop
  <1>2. Served(c, gen[c]) \subseteq Served(c, gen[c])' /\ gen[c] \in Nat /\ gen'[c] \in Nat
        /\ gen[c] <= gen'[c]
    BY ServedOfClient, GenGrows
  <1>3. Answered(x)' /\ ClientSession(c, sess[c])'
    <2>1. CASE rpc[x] # "off"
      BY <2>1, AnsweredStays, KeysStay DEF RLoopInv
    <2>2. CASE StartLoops(c) /\ x = Cur(c)
      <3>1. Answered(Cur(c)) /\ Crossed(c, sess[c], hsess[Cur(c)])
        BY <2>2 DEF ConnectInv, StartLoops, CGoto
      <3>2. Answered(x) /\ ClientSession(c, sess[c])
        BY <2>2, <3>1, CrossedKeys
      <3>. QED BY <3>2, AnsweredStays, KeysStay
    <2>. QED BY <1>1, <2>1, <2>2 DEF RRead, RPacket, RHandle
  <1>4. ASSUME rpc'[x] = "read"
        PROVE  rat'[x].type = "conn" /\ rat'[x].gen \in x[2] .. gen'[c]
    <2>1. CASE rpc[x] # "off" /\ rpc'[x] = rpc[x] /\ rat'[x] = rat[x]
      BY <1>2, <1>4, <2>1 DEF RLoopInv
    <2>2. CASE RRead(x)
      <3>1. rat'[x] = [type |-> "conn", gen |-> gen[c]] /\ UNCHANGED gen
        BY <2>2 DEF RRead, clientVars, TypeOK
      <3>2. x[2] <= gen[c]
        BY <2>2 DEF RRead, RLoopInv, Answered
      <3>. QED BY <1>2, <3>1, <3>2
    <2>3. ~RPacket(x) /\ ~RHandle(x)
      BY <1>4 DEF RPacket, RHandle, TypeOK
    <2>. QED BY <1>1, <1>4, <2>1, <2>2, <2>3
  <1>5. ASSUME rpc'[x] = "handle", rat'[x].type = "data"
        PROVE  rat'[x].key \in ToClient(c) /\ rat'[x].ip \in Served(c, gen[c])'
    <2>1. CASE rpc[x] # "off" /\ rpc'[x] = rpc[x] /\ rat'[x] = rat[x]
      BY <1>2, <1>5, <2>1 DEF RLoopInv
    <2>2. CASE RPacket(x)
      <3>. DEFINE y == <<c, rat[x].gen>>
                  p == Head(down[y])
      <3>1. OfHandler(y, p) /\ rat[x].gen \in 1 .. gen[c]
        BY <1>2, <2>2, PacketRead
      <3>2. rat'[x] = p
        BY <2>2 DEF RPacket, TypeOK
      <3>3. p.ip \in Served(c, gen[c])
        BY <3>1 DEF OfHandler, Served
      <3>4. p.key \in ToClient(c)
        BY <1>5, <3>1, <3>2 DEF OfHandler
      <3>. QED BY <1>2, <3>2, <3>3, <3>4
    <2>3. ~RRead(x) /\ ~RHandle(x)
      BY <1>5 DEF RRead, RHandle, TypeOK
    <2>. QED BY <1>1, <1>5, <2>1, <2>2, <2>3
  <1>. QED BY <1>3, <1>4, <1>5

LEMMA EffectNext == ASSUME Inv, [Next]_vars PROVE EffectInv'
  <1>. /\ TypeOK /\ HandlerInv /\ DownInv /\ UpInv /\ RLoopInv /\ EffectInv
    BY DEF Inv
  <1>1. ASSUME NEW c \in Clients PROVE inbox'[c] \subseteq Served(c, gen[c])'
    <2>1. inbox'[c] \subseteq Served(c, gen[c])
      <3>1. ASSUME NEW x \in Conns, RHandle(x) PROVE inbox'[c] \subseteq Served(c, gen[c])
        <4>1. CASE x[1] = c /\ rat[x].type = "data"
          <5>1. rat[x].ip \in Served(c, gen[c])
            BY <3>1, <4>1 DEF RHandle, RLoopInv
          <5>2. inbox'[c] \subseteq inbox[c] \cup {rat[x].ip}
            BY <3>1, <4>1 DEF RHandle, TypeOK
          <5>. QED BY <5>1, <5>2 DEF EffectInv
        <4>2. CASE ~(x[1] = c /\ rat[x].type = "data")
          <5>1. inbox'[c] = inbox[c]
            BY <3>1, <4>2 DEF RHandle, TypeOK
          <5>. QED BY <5>1 DEF EffectInv
        <4>. QED BY <4>1, <4>2
      <3>2. ASSUME NEW x \in Conns, RPacket(x) \/ HelloFails(x) \/ ServerRead(x)
            PROVE  inbox' = inbox
        BY <3>2 DEF RPacket, HelloFails, ServerRead
      <3>. QED BY <3>1, <3>2, EffectFrame DEF EffectInv
    <2>. QED BY <2>1, ServedOfClient
  <1>2. ASSUME NEW x \in Conns, ServerRead(x)
        PROVE  /\ OfClient(x, Head(up[x])) /\ Head(up[x]) \in Packets
               /\ hsess[x].recv \in FromClient(x[1])
    <2>1. up[x] # <<>> /\ up[x] \in Seq(Packets) /\ hpc[x] = "serve"
      BY <1>2 DEF ServerRead, TypeOK
    <2>2. Len(up[x]) \in Nat /\ Len(up[x]) > 0 /\ Head(up[x]) = up[x][1] /\ Head(up[x]) \in Packets
      BY <2>1, Behead
    <2>3. OfClient(x, up[x][1])
      BY <2>2 DEF UpInv
    <2>4. ServerSession(x[1], hsess[x])
      BY <2>1 DEF HandlerInv
    <2>. QED BY <2>2, <2>3, <2>4, ServerKeys, ConnParts
  <1>3. ASSUME NEW u \in undecrypted' PROVE u[2][2] # u[3][2]
    <2>1. ASSUME NEW x \in Conns, ServerRead(x), u \notin undecrypted PROVE u[2][2] # u[3][2]
      <3>1. /\ Head(up[x]).type = "data" /\ Head(up[x]).key # hsess[x].recv
            /\ u = <<"server", Head(up[x]).key, hsess[x].recv>>
        BY <1>3, <2>1 DEF ServerRead, Decrypts
      <3>2. Head(up[x]).key \in FromClient(x[1]) /\ hsess[x].recv \in FromClient(x[1])
        BY <1>2, <2>1, <3>1 DEF OfClient
      <3>. QED BY <3>1, <3>2, KeysDiffer DEF FromClient
    <2>2. ASSUME NEW x \in Conns, RHandle(x), u \notin undecrypted PROVE u[2][2] # u[3][2]
      <3>. DEFINE c == x[1]
      <3>1. /\ rpc[x] = "handle" /\ rat[x].type = "data" /\ rat[x].key # sess[c].recv
            /\ u = <<"client", rat[x].key, sess[c].recv>>
        BY <1>3, <2>2 DEF RHandle, Decrypts
      <3>2. rat[x].key \in ToClient(c) /\ ClientSession(c, sess[c])
        BY <3>1 DEF RLoopInv
      <3>3. sess[c].recv \in ToClient(c)
        BY <3>2, ClientKeys, ConnParts
      <3>. QED BY <3>1, <3>2, <3>3, KeysDiffer DEF ToClient
    <2>3. ASSUME NEW x \in Conns, RPacket(x) \/ HelloFails(x) PROVE undecrypted' = undecrypted
      BY <2>3 DEF RPacket, HelloFails
    <2>. QED
      BY <1>3, <2>1, <2>2, <2>3, EffectFrame DEF EffectInv, UndecryptedAreOfAnotherServer
  <1>4. ASSUME NEW m \in misfit' PROVE m[2][2] > 1
    <2>1. ASSUME NEW x \in Conns, HelloFails(x), m \notin misfit PROVE m[2][2] > 1
      <3>1. m = <<"server", x>> /\ hpc[x] = "hello" /\ up[x] # <<>> /\ Head(up[x]).type # "init"
        BY <1>4, <2>1 DEF HelloFails
      <3>2. up[x] \in Seq(Packets)
        BY DEF TypeOK
      <3>3. Head(up[x]) = up[x][1]
        BY <3>1, <3>2, Behead
      <3>4. x[2] # 1 /\ x[2] \in Nat \ {0}
        BY <3>1, <3>3, ConnParts DEF UpInv
      <3>. QED BY <3>1, <3>4
    <2>2. ASSUME NEW x \in Conns, RPacket(x), m \notin misfit PROVE m[2][2] > 1
      <3>. DEFINE y == <<x[1], rat[x].gen>>
      <3>1. m = <<"client", y>> /\ Head(down[y]).type = "resp"
        BY <1>4, <2>2 DEF RPacket
      <3>2. rpc[x] = "read" /\ ~NoResponse(y) /\ rat[x].gen \in x[2] .. gen[x[1]]
        BY <2>2, <3>1, PacketRead
      <3>3. NoResponse(x)
        BY <3>2 DEF RLoopInv, Answered
      <3>4. y # x /\ x = <<x[1], x[2]>> /\ x[2] \in Nat \ {0}
        BY <3>2, <3>3, ConnParts
      <3>5. rat[x].gen # x[2]
        BY <3>4
      <3>6. gen[x[1]] \in Nat
        BY ConnParts DEF TypeOK
      <3>. QED BY <3>1, <3>2, <3>4, <3>5, <3>6
    <2>3. ASSUME NEW x \in Conns, RHandle(x) \/ ServerRead(x) PROVE misfit' = misfit
      BY <2>3 DEF RHandle, ServerRead
    <2>. QED BY <1>4, <2>1, <2>2, <2>3, EffectFrame DEF EffectInv, FirstHandshakeUndisturbed
  <1>. QED
    BY <1>1, <1>3, <1>4 DEF EffectInv, UndecryptedAreOfAnotherServer, FirstHandshakeUndisturbed

-----------------------------------------------------------------------------
(* Type correctness *)

LEMMA SentType ==
    ASSUME NEW q \in [Conns -> Seq(Packets)], NEW x \in Conns, NEW p \in Packets
    PROVE  Sent(q, x, p) \in [Conns -> Seq(Packets)]
  BY DEF Sent

LEMMA QueueTypes ==
    ASSUME Inv, [Next]_vars
    PROVE  /\ up' \in [Conns -> Seq(Packets)] /\ down' \in [Conns -> Seq(Packets)]
           /\ link' \in [Conns -> {"none", "open", "lost"}]
  <1>. TypeOK /\ FreshInv /\ HandlerInv /\ TLoopInv
    BY DEF Inv
  <1>. DEFINE Queues == [Conns -> Seq(Packets)]
  <1>0. up \in Queues /\ down \in Queues /\ link \in [Conns -> {"none", "open", "lost"}]
    BY DEF TypeOK
  <1>1. up' \in Queues
    <2>1. ASSUME NEW c \in Clients, SendInit(c) PROVE up' \in Queues
      <3>1. Cur(c) \in Conns /\ Cur(c)[1] = c
        BY <2>1, CurConn DEF SendInit, CGoto
      <3>2. HandshakeInit(Cur(c)) \in Packets
        BY <3>1 DEF HandshakeInit, ClientKeyPair, Packets
      <3>. QED BY <1>0, <2>1, <3>1, <3>2, SentType DEF SendInit
    <2>2. ASSUME NEW y \in Conns, TWrite(y) PROVE up' \in Queues
      <3>1. tat[y] \in Packets
        BY <2>2, LoopWrites
      <3>2. Cur(y[1]) \in Conns
        <4>1. y[2] <= gen[y[1]]
          BY <2>2 DEF TWrite, TLoopInv, Answered
        <4>. QED BY <4>1, ConnParts, ConnOf, TunnelAssumption DEF TypeOK, Cur
      <3>3. UNCHANGED up \/ up' = Sent(up, Cur(y[1]), tat[y])
        BY <2>2 DEF TWrite
      <3>4. PICK z \in Conns : z = Cur(y[1])
        BY <3>2
      <3>5. Sent(up, z, tat[y]) \in Queues
        BY <1>0, <3>1, SentType
      <3>. QED BY <1>0, <3>3, <3>4, <3>5
    <2>3. ASSUME NEW y \in Conns, \/ Hello(y) \/ HelloFails(y)
                                   \/ ServerRead(y) \/ HandlerEnds(y)
          PROVE  up' \in Queues
      <3>1. \/ up[y] # <<>> /\ up' = [up EXCEPT ![y] = Tail(@)]
            \/ up' = [up EXCEPT ![y] = <<>>]
        BY <2>3 DEF Hello, HelloFails, ServerRead, HandlerEnds
      <3>2. up[y] # <<>> => Tail(up[y]) \in Seq(Packets)
        BY <1>0, Behead
      <3>3. <<>> \in Seq(Packets)
        OBVIOUS
      <3>. QED BY <1>0, <3>1, <3>2, <3>3
    <2>4. ASSUME Restart PROVE up' \in Queues
      BY <2>4, EmptyQueue DEF Restart
    <2>. QED BY <1>0, <2>1, <2>2, <2>3, <2>4, UpFrame
  <1>2. down' \in Queues
    <2>1. ASSUME NEW z, down[z] # <<>>, down' = [down EXCEPT ![z] = Tail(@)]
          PROVE  down' \in Queues
      <3>1. z \in Conns => Tail(down[z]) \in Seq(Packets)
        BY <1>0, <2>1, Behead
      <3>. QED BY <1>0, <2>1, <3>1
    <2>2. ASSUME NEW c \in Clients, TakeResponse(c) PROVE down' \in Queues
      BY <2>1, <2>2 DEF TakeResponse
    <2>3. ASSUME NEW c \in Clients, HandshakeFails(c) PROVE down' \in Queues
      BY <1>0, <2>3, EmptyQueue DEF HandshakeFails
    <2>4. ASSUME NEW x \in Conns, RPacket(x) PROVE down' \in Queues
      BY <2>1, <2>4 DEF RPacket
    <2>5. ASSUME NEW x \in Conns, Respond(x) PROVE down' \in Queues
      <3>1. HandshakeResponse(hip[x]) \in Packets
        BY <2>5, HandlerWrites
      <3>. QED BY <1>0, <2>5, <3>1, SentType DEF Respond
    <2>6. ASSUME NEW x \in Conns, NEW h \in Hosts, Forward(x, h) PROVE down' \in Queues
      <3>1. Encrypt(hsess[x], h) \in Packets
        BY <2>6, HandlerWrites
      <3>. QED BY <1>0, <2>6, <3>1, SentType DEF Forward
    <2>. QED BY <1>0, <2>2, <2>3, <2>4, <2>5, <2>6, DownFrame
  <1>3. link' \in [Conns -> {"none", "open", "lost"}]
    <2>1. ASSUME NEW c \in Clients, Dial(c) \/ HandshakeFails(c)
          PROVE  link' \in [Conns -> {"none", "open", "lost"}]
      BY <1>0, <2>1 DEF Dial, HandshakeFails
    <2>2. ASSUME NEW x \in Conns, HelloFails(x) \/ LinkLost(x)
          PROVE  link' \in [Conns -> {"none", "open", "lost"}]
      BY <1>0, <2>2 DEF HelloFails, LinkLost
    <2>3. ASSUME Restart PROVE link' \in [Conns -> {"none", "open", "lost"}]
      BY <1>0, <2>3 DEF Restart
    <2>. QED BY <1>0, <2>1, <2>2, <2>3, LinkFrame
  <1>. QED BY <1>1, <1>2, <1>3

LEMMA HandlerTypes ==
    ASSUME Inv, [Next]_vars
    PROVE  /\ hpc' \in [Conns -> {"none", "hello", "respond", "serve", "done"}]
           /\ hip' \in [Conns -> Hosts \cup {NoHost}] /\ hsess' \in [Conns -> Sessions]
           /\ epoch' \in 1 .. MaxEpoch /\ traffic' \in 0 .. MaxTraffic
           /\ PoolTypeOK'
  <1>. TypeOK /\ PoolTypeOK
    BY DEF Inv
  <1>1. hpc' \in [Conns -> {"none", "hello", "respond", "serve", "done"}]
    <2>. DEFINE Counters == [Conns -> {"none", "hello", "respond", "serve", "done"}]
    <2>1. ASSUME NEW c \in Clients, Dial(c) PROVE hpc' \in Counters
      BY <2>1 DEF Dial, TypeOK
    <2>2. ASSUME NEW x \in Conns, Hello(x) \/ HelloFails(x) \/ Respond(x) \/ HandlerEnds(x)
          PROVE  hpc' \in Counters
      <3>1. \E pc \in {"respond", "serve", "done"} : hpc' = [hpc EXCEPT ![x] = pc]
        BY <2>2 DEF Hello, HelloFails, Respond, HandlerEnds
      <3>2. hpc \in Counters
        BY DEF TypeOK
      <3>. QED BY <3>1, <3>2
    <2>3. ASSUME Restart PROVE hpc' \in Counters
      BY <2>3 DEF Restart, TypeOK
    <2>4. UNCHANGED hpc => hpc' \in Counters
      BY DEF TypeOK
    <2>5. \/ UNCHANGED hpc \/ \E c \in Clients : Dial(c)
          \/ \E x \in Conns : Hello(x) \/ HelloFails(x) \/ Respond(x) \/ HandlerEnds(x)
          \/ Restart
      BY ServerFrame, Zenon
    <2>. HIDE DEF Counters
    <2>6. hpc' \in Counters
      BY <2>1, <2>2, <2>3, <2>4, <2>5, Zenon
    <2>. QED BY <2>6 DEF Counters
  <1>2. hip' \in [Conns -> Hosts \cup {NoHost}] /\ hsess' \in [Conns -> Sessions]
    <2>1. ASSUME NEW x \in Conns, Hello(x)
          PROVE  hip' \in [Conns -> Hosts \cup {NoHost}] /\ hsess' \in [Conns -> Sessions]
      <3>1. PICK h \in Hosts : hip' = [hip EXCEPT ![x] = h]
        BY <2>1, Greeted
      <3>2. PICK t \in Sessions : hsess' = [hsess EXCEPT ![x] = t]
        BY <2>1, Greeted
      <3>3. hip \in [Conns -> Hosts \cup {NoHost}] /\ hsess \in [Conns -> Sessions]
        BY DEF TypeOK
      <3>4. hip' \in [Conns -> Hosts \cup {NoHost}]
        BY <3>1, <3>3
      <3>5. hsess' \in [Conns -> Sessions]
        BY <3>2, <3>3
      <3>. QED BY <3>4, <3>5
    <2>2. UNCHANGED <<hip, hsess>> \/ \E x \in Conns : Hello(x)
      BY ServerFrame, Zenon DEF Dial, HelloFails, Respond, HandlerEnds, Restart
    <2>. QED BY <2>1, <2>2 DEF TypeOK
  <1>3. epoch' \in 1 .. MaxEpoch
    <2>1. UNCHANGED epoch \/ Restart
      BY EpochFrame
    <2>. QED BY <2>1, TunnelAssumption DEF Restart, TypeOK
  <1>4. traffic' \in 0 .. MaxTraffic
    <2>1. \/ UNCHANGED traffic \/ \E x \in Conns : TEncrypt(x)
          \/ \E x \in Conns : \E h \in Hosts : Forward(x, h)
      BY TrafficFrame
    <2>2. traffic < MaxTraffic /\ traffic' = traffic + 1 => traffic' \in 0 .. MaxTraffic
      BY TunnelAssumption DEF TypeOK
    <2>. QED BY <2>1, <2>2 DEF TEncrypt, Forward, TypeOK
  <1>5. PoolTypeOK'
    <2>1. \/ UNCHANGED poolVars
          \/ \E x \in Conns : Hello(x) \/ HelloFails(x) \/ HandlerEnds(x)
          \/ Restart
      BY PoolFrame, Zenon DEF Dial, Respond, poolVars
    <2>2. ASSUME NEW x \in Conns, HandlerEnds(x) PROVE PoolTypeOK'
      BY <2>2, ReleaseTypeOK DEF HandlerEnds
    <2>3. ASSUME NEW x \in Conns, HelloFails(x) PROVE UNCHANGED poolVars
      BY <2>3 DEF HelloFails, AllocateFails
    <2>4. ASSUME Restart PROVE PoolTypeOK'
      BY <2>4, MaxHostsAssumption DEF Restart, PoolTypeOK
    <2>5. UNCHANGED poolVars => PoolTypeOK'
      BY DEF poolVars, PoolTypeOK
    <2>. QED BY <2>1, <2>2, <2>3, <2>4, <2>5, Greeted
  <1>. QED BY <1>1, <1>2, <1>3, <1>4, <1>5

ConnectorStates == {"dial", "init", "await", "tun", "start", "up", "exited"}

LEMMA ClientTypes ==
    ASSUME Inv, [Next]_vars
    PROVE  /\ cpc' \in [Clients -> ConnectorStates]
           /\ gen' \in [Clients -> Nat] /\ tunDev' \in [Clients -> Nat]
           /\ \A c \in Clients : gen'[c] <= MaxGen[c] /\ tunDev'[c] <= MaxGen[c]
           /\ connected' \in [Clients -> BOOLEAN] /\ sess' \in [Clients -> Sessions]
           /\ assigned' \in [Clients -> Hosts \cup {NoHost}]
           /\ dev' \in [Conns -> Hosts \cup {NoHost}]
  <1>. TypeOK /\ FreshInv /\ HandlerInv /\ DownInv /\ ConnectInv
    BY DEF Inv
  <1>0. /\ cpc \in [Clients -> ConnectorStates] /\ connected \in [Clients -> BOOLEAN]
        /\ sess \in [Clients -> Sessions] /\ assigned \in [Clients -> Hosts \cup {NoHost}]
        /\ gen \in [Clients -> Nat] /\ tunDev \in [Clients -> Nat]
        /\ \A c \in Clients : gen[c] <= MaxGen[c] /\ tunDev[c] <= MaxGen[c]
    BY DEF TypeOK, ConnectorStates
  <1>1. cpc' \in [Clients -> ConnectorStates]
    <2>1. ASSUME NEW c \in Clients, Connect(c) PROVE cpc' \in [Clients -> ConnectorStates]
      <3>1. \E pc \in ConnectorStates : cpc' = [cpc EXCEPT ![c] = pc]
        BY <2>1 DEF Connect, Dial, SendInit, TakeResponse, HandshakeFails, NewDevice,
             StartLoops, CGoto, ConnectorStates
      <3>. QED BY <1>0, <3>1
    <2>2. ASSUME NEW x \in Conns, TWrite(x) \/ RReadError(x)
          PROVE  cpc' \in [Clients -> ConnectorStates]
      <3>1. UNCHANGED cpc \/ cpc' = [cpc EXCEPT ![x[1]] = "dial"]
        BY <2>2 DEF TWrite, RReadError, HandleDisconnect
      <3>. QED BY <1>0, <3>1 DEF ConnectorStates
    <2>. QED BY <1>0, <2>1, <2>2, ConnectFrame
  <1>2. /\ gen' \in [Clients -> Nat] /\ \A c \in Clients : gen'[c] <= MaxGen[c]
    <2>1. ASSUME NEW d \in Clients, Dial(d)
          PROVE  gen' \in [Clients -> Nat] /\ \A c \in Clients : gen'[c] <= MaxGen[c]
      <3>1. gen[d] < MaxGen[d] /\ gen' = [gen EXCEPT ![d] = gen[d] + 1] /\ MaxGen[d] \in Nat
        BY <2>1, TunnelAssumption DEF Dial
      <3>. QED BY <1>0, <3>1
    <2>2. UNCHANGED gen \/ \E d \in Clients : Dial(d)
      BY ConnectFrame, Zenon DEF Connect, SendInit, TakeResponse, HandshakeFails, NewDevice,
           StartLoops, TWrite, RReadError
    <2>. QED BY <1>0, <2>1, <2>2
  <1>3. connected' \in [Clients -> BOOLEAN]
    <2>1. \/ UNCHANGED connected \/ \E c \in Clients : StartLoops(c)
          \/ \E x \in Conns : TWrite(x) \/ RReadError(x)
      BY ConnectFrame, Zenon DEF Connect, Dial, SendInit, TakeResponse, HandshakeFails,
           NewDevice
    <2>2. ASSUME NEW z, NEW b \in BOOLEAN, connected' = [connected EXCEPT ![z] = b]
          PROVE  connected' \in [Clients -> BOOLEAN]
      BY <1>0, <2>2
    <2>3. \/ UNCHANGED connected
          \/ \E z : \E b \in BOOLEAN : connected' = [connected EXCEPT ![z] = b]
      BY <2>1, Zenon DEF StartLoops, TWrite, RReadError, HandleDisconnect
    <2>. QED BY <1>0, <2>2, <2>3
  <1>4. sess' \in [Clients -> Sessions] /\ assigned' \in [Clients -> Hosts \cup {NoHost}]
    <2>1. ASSUME NEW d \in Clients, TakeResponse(d)
          PROVE  sess' \in [Clients -> Sessions] /\ assigned' \in [Clients -> Hosts \cup {NoHost}]
      <3>1. PICK s : sess' = [sess EXCEPT ![d] = s] /\ Crossed(d, s, hsess[Cur(d)])
        BY <2>1, ResponseTaken
      <3>2. s \in Sessions
        BY <3>1, CrossedKeys, ClientKeys
      <3>. QED BY <1>0, <2>1, <3>1, <3>2, ResponseTaken
    <2>2. UNCHANGED <<sess, assigned>> \/ \E d \in Clients : TakeResponse(d)
      BY ConnectFrame, Zenon DEF Connect, SendInit, Dial, HandshakeFails, NewDevice,
           StartLoops, TWrite, RReadError
    <2>. QED BY <1>0, <2>1, <2>2
  <1>5. /\ dev' \in [Conns -> Hosts \cup {NoHost}] /\ tunDev' \in [Clients -> Nat]
        /\ \A c \in Clients : tunDev'[c] <= MaxGen[c]
    <2>1. ASSUME NEW d \in Clients, NewDevice(d)
          PROVE  /\ dev' \in [Conns -> Hosts \cup {NoHost}] /\ tunDev' \in [Clients -> Nat]
                 /\ \A c \in Clients : tunDev'[c] <= MaxGen[c]
      <3>1. dev \in [Conns -> Hosts \cup {NoHost}]
        BY DEF TypeOK
      <3>2. \/ UNCHANGED <<dev, tunDev>>
            \/ /\ dev' = [dev EXCEPT ![Cur(d)] = assigned[d]]
               /\ tunDev' = [tunDev EXCEPT ![d] = gen[d]]
        BY <2>1 DEF NewDevice
      <3>. QED BY <1>0, <3>1, <3>2
    <2>. QED BY <1>0, <2>1, DeviceFrame DEF TypeOK
  <1>. QED BY <1>1, <1>2, <1>3, <1>4, <1>5

LEMMA LoopTypes ==
    ASSUME Inv, [Next]_vars
    PROVE  /\ tpc' \in [Conns -> {"off", "read", "write"}]
           /\ tat' \in [Conns -> {Nothing} \cup Packets]
           /\ rpc' \in [Conns -> {"off", "check", "read", "handle"}]
           /\ rat' \in [Conns -> {Nothing} \cup Reads \cup Packets]
  <1>. TypeOK /\ TLoopInv
    BY DEF Inv
  <1>0. /\ tpc \in [Conns -> {"off", "read", "write"}]
        /\ tat \in [Conns -> {Nothing} \cup Packets]
        /\ rpc \in [Conns -> {"off", "check", "read", "handle"}]
        /\ rat \in [Conns -> {Nothing} \cup Reads \cup Packets]
    BY DEF TypeOK
  <1>1. tpc' \in [Conns -> {"off", "read", "write"}]
    <2>1. \/ UNCHANGED tpc
          \/ \E z : \E pc \in {"off", "read", "write"} : tpc' = [tpc EXCEPT ![z] = pc]
      <3>1. ASSUME NEW x \in Conns, TunReadLoop(x)
            PROVE  \E pc \in {"off", "read", "write"} : tpc' = [tpc EXCEPT ![x] = pc]
        BY <3>1 DEF TunReadLoop, TEncrypt, TWrite
      <3>2. ASSUME NEW c \in Clients, NewDevice(c)
            PROVE  UNCHANGED tpc \/ tpc' = [tpc EXCEPT ![Cur(c)] = "read"]
        BY <3>2 DEF NewDevice
      <3>. QED BY <3>1, <3>2, TLoopFrame
    <2>. QED BY <1>0, <2>1
  <1>2. tat' \in [Conns -> {Nothing} \cup Packets]
    <2>1. ASSUME NEW x \in Conns, TEncrypt(x)
          PROVE  tat' \in [Conns -> {Nothing} \cup Packets]
      <3>1. ClientSession(x[1], sess[x[1]])
        BY <2>1 DEF TEncrypt, TLoopInv
      <3>2. sess[x[1]].send \in Keys
        BY <3>1, ClientKeys, ConnParts DEF FromClient
      <3>3. Encrypt(sess[x[1]], NoHost) \in Packets
        BY <3>2 DEF Encrypt, Packets
      <3>. QED BY <1>0, <2>1, <3>3 DEF TEncrypt
    <2>2. ASSUME NEW x \in Conns, TWrite(x)
          PROVE  tat' \in [Conns -> {Nothing} \cup Packets]
      <3>1. tat' = [tat EXCEPT ![x] = Nothing]
        BY <2>2 DEF TWrite
      <3>. QED BY <1>0, <3>1
    <2>3. ASSUME NEW c \in Clients, NewDevice(c) PROVE UNCHANGED tat
      BY <2>3 DEF NewDevice
    <2>. QED BY <1>0, <2>1, <2>2, <2>3, TLoopFrame DEF TunReadLoop
  <1>3. rpc' \in [Conns -> {"off", "check", "read", "handle"}]
    <2>1. \/ UNCHANGED rpc
          \/ \E z : \E pc \in {"off", "check", "read", "handle"} : rpc' = [rpc EXCEPT ![z] = pc]
      <3>1. ASSUME NEW x \in Conns, ReceiveLoop(x)
            PROVE  \E pc \in {"off", "check", "read", "handle"} : rpc' = [rpc EXCEPT ![x] = pc]
        BY <3>1 DEF ReceiveLoop, RRead, RPacket, RReadError, RHandle
      <3>2. ASSUME NEW c \in Clients, StartLoops(c)
            PROVE  rpc' = [rpc EXCEPT ![Cur(c)] = "check"]
        BY <3>2 DEF StartLoops
      <3>. QED BY <3>1, <3>2, RLoopFrame
    <2>. QED BY <1>0, <2>1
  <1>4. rat' \in [Conns -> {Nothing} \cup Reads \cup Packets]
    <2>1. ASSUME NEW x \in Conns, RRead(x)
          PROVE  rat' \in [Conns -> {Nothing} \cup Reads \cup Packets]
      <3>1. [type |-> "conn", gen |-> gen[x[1]]] \in Reads
        BY ConnParts DEF Reads, TypeOK
      <3>. QED BY <1>0, <2>1, <3>1 DEF RRead
    <2>2. ASSUME NEW x \in Conns, RPacket(x)
          PROVE  rat' \in [Conns -> {Nothing} \cup Reads \cup Packets]
      <3>1. Head(down[<<x[1], rat[x].gen>>]) \in Packets
        BY <2>2, PacketRead
      <3>2. rat' = [rat EXCEPT ![x] = Head(down[<<x[1], rat[x].gen>>])]
        BY <2>2 DEF RPacket
      <3>. QED BY <1>0, <3>1, <3>2
    <2>3. ASSUME NEW x \in Conns, RReadError(x) \/ RHandle(x)
          PROVE  rat' \in [Conns -> {Nothing} \cup Reads \cup Packets]
      <3>1. rat' = [rat EXCEPT ![x] = Nothing]
        BY <2>3 DEF RReadError, RHandle
      <3>. QED BY <1>0, <3>1
    <2>4. ASSUME NEW c \in Clients, StartLoops(c) PROVE UNCHANGED rat
      BY <2>4 DEF StartLoops
    <2>. QED BY <1>0, <2>1, <2>2, <2>3, <2>4, RLoopFrame DEF ReceiveLoop
  <1>. QED BY <1>1, <1>2, <1>3, <1>4

LEMMA EffectTypes ==
    ASSUME Inv, [Next]_vars
    PROVE  /\ inbox' \in [Clients -> SUBSET Hosts]
           /\ undecrypted' \subseteq {"client", "server"} \X Keys \X Keys
           /\ misfit' \subseteq {"client", "server"} \X Conns
  <1>. TypeOK /\ HandlerInv /\ RLoopInv
    BY DEF Inv
  <1>0. /\ inbox \in [Clients -> SUBSET Hosts]
        /\ undecrypted \subseteq {"client", "server"} \X Keys \X Keys
        /\ misfit \subseteq {"client", "server"} \X Conns
    BY DEF TypeOK
  <1>. DEFINE Goal == /\ inbox' \in [Clients -> SUBSET Hosts]
                      /\ undecrypted' \subseteq {"client", "server"} \X Keys \X Keys
                      /\ misfit' \subseteq {"client", "server"} \X Conns
  <1>1. ASSUME NEW x \in Conns, RPacket(x) PROVE Goal
    <2>1. <<x[1], rat[x].gen>> \in Conns
      BY <1>1, PacketRead
    <2>2. UNCHANGED <<inbox, undecrypted>>
      BY <1>1 DEF RPacket
    <2>3. misfit' \subseteq misfit \cup {<<"client", <<x[1], rat[x].gen>>>>}
      BY <1>1 DEF RPacket
    <2>. QED BY <1>0, <2>1, <2>2, <2>3
  <1>2. ASSUME NEW x \in Conns, RHandle(x) PROVE Goal
    <2>. DEFINE c == x[1]
    <2>1. c \in Clients /\ UNCHANGED misfit
      BY <1>2, ConnParts DEF RHandle
    <2>2. CASE rat[x].type = "data"
      <3>1. /\ rat[x].key \in Keys /\ rat[x].ip \in Hosts /\ ClientSession(c, sess[c])
        BY <1>2, <2>2 DEF RHandle, RLoopInv, ToClient, Served
      <3>2. sess[c].recv \in Keys
        BY <2>1, <3>1, ClientKeys DEF ToClient
      <3>3. UNCHANGED inbox \/ inbox' = [inbox EXCEPT ![c] = @ \cup {rat[x].ip}]
        BY <1>0, <1>2, <2>1, <2>2 DEF RHandle
      <3>4. undecrypted' \subseteq undecrypted \cup {<<"client", rat[x].key, sess[c].recv>>}
        BY <1>2, <2>2 DEF RHandle
      <3>5. inbox' \in [Clients -> SUBSET Hosts]
        BY <1>0, <2>1, <3>1, <3>3
      <3>. QED BY <1>0, <2>1, <3>1, <3>2, <3>4, <3>5
    <2>3. CASE rat[x].type # "data"
      BY <1>0, <1>2, <2>1, <2>3 DEF RHandle
    <2>. QED BY <2>2, <2>3
  <1>3. ASSUME NEW x \in Conns, HelloFails(x) PROVE Goal
    <2>1. UNCHANGED <<inbox, undecrypted>> /\ misfit' \subseteq misfit \cup {<<"server", x>>}
      BY <1>3 DEF HelloFails
    <2>. QED BY <1>0, <2>1
  <1>4. ASSUME NEW x \in Conns, ServerRead(x) PROVE Goal
    <2>. DEFINE p == Head(up[x])
    <2>1. p \in Packets /\ hsess[x].recv \in Keys
      <3>1. up[x] # <<>> /\ up[x] \in Seq(Packets) /\ hpc[x] = "serve"
        BY <1>4 DEF ServerRead, TypeOK
      <3>2. ServerSession(x[1], hsess[x]) /\ x[1] \in Clients
        BY <3>1, ConnParts DEF HandlerInv
      <3>. QED BY <3>1, <3>2, Behead, ServerKeys DEF FromClient
    <2>2. p.type = "data" => p.key \in Keys
      BY <2>1 DEF Packets
    <2>3. /\ UNCHANGED <<inbox, misfit>>
          /\ \/ undecrypted' = undecrypted
             \/ /\ p.type = "data"
                /\ undecrypted' = undecrypted \cup {<<"server", p.key, hsess[x].recv>>}
      BY <1>4 DEF ServerRead
    <2>. HIDE DEF p
    <2>. QED BY <1>0, <2>1, <2>2, <2>3
  <1>. QED BY <1>0, <1>1, <1>2, <1>3, <1>4, EffectFrame

LEMMA TypeNext == ASSUME Inv, [Next]_vars PROVE TypeOK' /\ PoolTypeOK'
  BY QueueTypes, HandlerTypes, ClientTypes, LoopTypes, EffectTypes DEF TypeOK, ConnectorStates

-----------------------------------------------------------------------------
(* The theorems *)

LEMMA InitInv == Init => Inv
  <1>. SUFFICES ASSUME Init PROVE Inv
    OBVIOUS
  <1>1. TypeOK
    BY TunnelAssumption, EmptyQueue DEF Init, TypeOK, Sessions
  <1>2. PoolTypeOK
    BY PoolInitTypeOK DEF Init
  <1>3. \A x \in Conns : x[1] \in Clients
    BY ConnParts
  <1>4. FreshInv /\ DownInv /\ UpInv
    BY <1>3 DEF Init, FreshInv, DownInv, UpInv
  <1>5. HandlerInv
    BY DEF Init, HandlerInv, NoHost, Hosts
  <1>6. ConnectInv
    BY DEF Init, ConnectInv
  <1>9. DeviceInv
    BY DEF Init, DeviceInv
  <1>7. TLoopInv /\ RLoopInv
    BY DEF Init, TLoopInv, RLoopInv
  <1>8. EffectInv
    BY DEF Init, EffectInv, UndecryptedAreOfAnotherServer, FirstHandshakeUndisturbed
  <1>. QED BY <1>1, <1>2, <1>4, <1>5, <1>6, <1>7, <1>8, <1>9 DEF Inv

LEMMA InvNext == Inv /\ [Next]_vars => Inv'
  <1>. SUFFICES ASSUME Inv, [Next]_vars PROVE Inv'
    OBVIOUS
  <1>. QED
    BY TypeNext, FreshNext, HandlerNext, DownNext, UpNext, ConnectNext,
       DeviceNext, TLoopNext, RLoopNext, EffectNext, Zenon DEF Inv

(* What is in queues, loops and fields at any time, whatever the number of *)
(* clients, connections and server processes.                              *)
THEOREM TunnelInvariant == Spec => []Inv
  BY InitInv, InvNext, PTL DEF Spec

(* Type correctness of clients, server and the connections between them.   *)
THEOREM TypeCorrect == Spec => []TypeOK
  <1>1. Inv => TypeOK
    BY DEF Inv
  <1>. QED BY <1>1, TunnelInvariant, PTL

(* After a handshake the two ends, and the device made for the connection, *)
(* have one address, and the ends the same two keys, whatever loops,       *)
(* clients and server processes came before.                               *)
THEOREM HandshakeSafety == Spec => []HandshakeAgreement
  <1>1. Inv => HandshakeAgreement
    <2>. SUFFICES ASSUME Inv, NEW c \in Clients,
                         cpc[c] \in {"tun", "start", "up"}, link[Cur(c)] = "open"
                  PROVE  /\ hpc[Cur(c)] = "serve" /\ assigned[c] = hip[Cur(c)]
                         /\ sess[c].send = hsess[Cur(c)].recv
                         /\ sess[c].recv = hsess[Cur(c)].send
                         /\ dev[Cur(c)] \in {NoHost, hip[Cur(c)]}
      BY DEF HandshakeAgreement
    <2>1. Cur(c) \in Conns
      BY CurConn DEF Inv
    <2>2. /\ Answered(Cur(c)) /\ assigned[c] = hip[Cur(c)]
          /\ Crossed(c, sess[c], hsess[Cur(c)])
      BY DEF Inv, ConnectInv
    <2>3. hpc[Cur(c)] = "serve"
      BY <2>1, <2>2 DEF Inv, HandlerInv, Answered
    <2>4. dev[Cur(c)] \in {NoHost, hip[Cur(c)]}
      BY <2>1 DEF Inv, DeviceInv
    <2>. QED BY <2>2, <2>3, <2>4, CrossedKeys
  <1>. QED BY <1>1, TunnelInvariant, PTL

(* A packet is only ever lost to decryption when the server was restarted. *)
THEOREM DecryptionSafety == Spec => []UndecryptedAreOfAnotherServer
  <1>1. Inv => UndecryptedAreOfAnotherServer
    BY DEF Inv, EffectInv
  <1>. QED BY <1>1, TunnelInvariant, PTL

(* No client's TUN device is given a packet for an address that was never  *)
(* its own.                                                                *)
THEOREM TrafficSafety == Spec => []OwnTrafficOnly
  <1>1. Inv => OwnTrafficOnly
    BY DEF Inv, EffectInv, OwnTrafficOnly, Served
  <1>. QED BY <1>1, TunnelInvariant, PTL

(* A first handshake is never disturbed by a goroutine of the client.      *)
THEOREM FirstHandshakeSafety == Spec => []FirstHandshakeUndisturbed
  <1>1. Inv => FirstHandshakeUndisturbed
    BY DEF Inv, EffectInv
  <1>. QED BY <1>1, TunnelInvariant, PTL

-----------------------------------------------------------------------------
(* The pool *)

(* What is in use is what the handlers in service hold, each its own.      *)
OwnersInv ==
    /\ \A x, y \in Conns : InTable(x) /\ InTable(y) /\ x # y => hip[x] # hip[y]
    /\ used = {hip[x] : x \in {y \in Conns : InTable(y)}}

LEMMA OwnersFrame ==
    ASSUME OwnersInv, hip' = hip, used' = used,
           \A x \in Conns : InTable(x)' <=> InTable(x)
    PROVE  OwnersInv'
  <1>1. {hip'[x] : x \in {y \in Conns : InTable(y)'}} = {hip[x] : x \in {y \in Conns : InTable(y)}}
    OBVIOUS
  <1>. QED BY <1>1 DEF OwnersInv

LEMMA OwnersNext == ASSUME Inv, OwnersInv, [Next]_vars PROVE OwnersInv'
  <1>. TypeOK /\ PoolTypeOK
    BY DEF Inv
  <1>1. CASE UNCHANGED <<hpc, hip, used, nextHost>>
    BY <1>1, OwnersFrame DEF InTable
  <1>2. ASSUME NEW c \in Clients, Dial(c) PROVE OwnersInv'
    <2>. DEFINE x == <<c, gen[c] + 1>>
    <2>1. x \in Conns /\ x[2] > gen[x[1]]
      <3>1. gen[c] + 1 \in 1 .. MaxGen[c] /\ gen[c] + 1 > gen[c]
        <4>1. gen[c] \in Nat /\ MaxGen[c] \in Nat
          BY TunnelAssumption DEF TypeOK
        <4>2. gen[c] < MaxGen[c]
          BY <1>2 DEF Dial
        <4>. QED BY <4>1, <4>2
      <3>. QED BY <3>1, ConnOf
    <2>2. hpc[x] = "none"
      BY <2>1 DEF Inv, FreshInv
    <2>3. /\ hpc' = [hpc EXCEPT ![x] = "hello"]
          /\ hip' = hip /\ used' = used
      BY <1>2, Zenon DEF Dial, poolVars
    <2>. QED BY <2>1, <2>2, <2>3, OwnersFrame DEF InTable, TypeOK
  <1>3. ASSUME NEW x \in Conns, Hello(x) PROVE OwnersInv'
    <2>1. PICK h \in HostNums : Allocate(h) /\ hip' = [hip EXCEPT ![x] = h]
      BY <1>3 DEF Hello
    <2>2. h \notin used /\ used' = used \cup {h}
      BY <2>1, AllocateTypeOK DEF Allocate
    <2>3. hpc[x] = "hello" /\ hpc' = [hpc EXCEPT ![x] = "respond"]
      BY <1>3 DEF Hello
    <2>4. \A y \in Conns : /\ InTable(y)' <=> InTable(y) \/ y = x
                           /\ hip'[y] = IF y = x THEN h ELSE hip[y]
      BY <2>1, <2>3 DEF InTable, TypeOK
    <2>5. \A y \in Conns : InTable(y) => y # x /\ hip[y] # h
      BY <2>2, <2>3 DEF InTable, OwnersInv
    <2>6. \A g : g \in used' <=> \E y \in Conns : InTable(y)' /\ hip'[y] = g
      BY <2>2, <2>4, <2>5 DEF OwnersInv
    <2>7. used' = {hip'[y] : y \in {z \in Conns : InTable(z)'}}
      BY <2>6
    <2>8. \A y, z \in Conns : InTable(y)' /\ InTable(z)' /\ y # z => hip'[y] # hip'[z]
      BY <2>4, <2>5 DEF OwnersInv
    <2>. QED BY <2>7, <2>8 DEF OwnersInv
  <1>4. ASSUME NEW x \in Conns, HelloFails(x) \/ Respond(x) PROVE OwnersInv'
    <2>1. hip' = hip /\ used' = used
      BY <1>4 DEF HelloFails, Respond, AllocateFails, poolVars, serverVars
    <2>2. \/ hpc[x] = "hello" /\ hpc' = [hpc EXCEPT ![x] = "done"]
          \/ hpc[x] = "respond" /\ hpc' = [hpc EXCEPT ![x] = "serve"]
      BY <1>4 DEF HelloFails, Respond
    <2>3. \A y \in Conns : InTable(y)' <=> InTable(y)
      BY <2>2 DEF InTable, TypeOK
    <2>. QED BY <2>1, <2>3, OwnersFrame
  <1>5. ASSUME NEW x \in Conns, HandlerEnds(x) PROVE OwnersInv'
    <2>1. /\ InTable(x) /\ hpc' = [hpc EXCEPT ![x] = "done"]
          /\ hip' = hip /\ used' = used \ {hip[x]}
      BY <1>5 DEF HandlerEnds, Release
    <2>2. \A y \in Conns : InTable(y)' <=> InTable(y) /\ y # x
      BY <2>1 DEF InTable, TypeOK
    <2>3. \A g : g \in used' <=> \E y \in Conns : InTable(y)' /\ hip'[y] = g
      BY <2>1, <2>2 DEF OwnersInv
    <2>4. used' = {hip'[y] : y \in {z \in Conns : InTable(z)'}}
      BY <2>3
    <2>. QED BY <2>1, <2>2, <2>4 DEF OwnersInv
  <1>6. CASE Restart
    <2>1. used' = {} /\ \A x \in Conns : ~InTable(x)'
      BY <1>6 DEF Restart, InTable
    <2>. QED BY <2>1 DEF OwnersInv
  <1>. QED BY <1>1, <1>2, <1>3, <1>4, <1>5, <1>6, PoolFrame

(* Clients and servers put together use the pool as IPPool says, as long   *)
(* as the server process lives; a new one begins with a new pool.          *)
LEMMA PoolUsed ==
    ASSUME Inv, OwnersInv, [Next]_vars
    PROVE  [PoolNext \/ PoolInit']_poolVars
  <1>1. CASE UNCHANGED <<hpc, hip, used, nextHost>>
    BY <1>1 DEF poolVars
  <1>2. ASSUME NEW c \in Clients, Dial(c) PROVE UNCHANGED poolVars
    BY <1>2 DEF Dial
  <1>3. ASSUME NEW x \in Conns, Hello(x) PROVE PoolNext
    BY <1>3 DEF Hello, PoolNext
  <1>4. ASSUME NEW x \in Conns, HelloFails(x) \/ Respond(x) PROVE UNCHANGED poolVars
    BY <1>4 DEF HelloFails, Respond, AllocateFails
  <1>5. ASSUME NEW x \in Conns, HandlerEnds(x) PROVE PoolNext
    <2>1. hip[x] \in used /\ Release(hip[x])
      BY <1>5 DEF HandlerEnds, OwnersInv
    <2>. QED BY <2>1 DEF PoolNext
  <1>6. CASE Restart
    BY <1>6 DEF Restart, PoolInit
  <1>. QED BY <1>1, <1>2, <1>3, <1>4, <1>5, <1>6, PoolFrame

LEMMA OwnersInvariance == Spec => [](Inv /\ OwnersInv)
  <1>1. Init => OwnersInv
    BY DEF Init, PoolInit, OwnersInv, InTable
  <1>2. Inv /\ OwnersInv /\ [Next]_vars => OwnersInv'
    BY OwnersNext
  <1>. QED BY <1>1, <1>2, InitInv, InvNext, PTL DEF Spec

(* Of all connections the server has, of whichever clients, no two in      *)
(* service have one address, and the pool keeps exactly these addresses,   *)
(* through reconnections and restarts of the server.                       *)
THEOREM AddressOwnership == Spec => []OwnersInv
  BY OwnersInvariance, PTL

(* No two clients with a standing connection have one address, for every   *)
(* number of clients: a consequence of each agreeing with its handler.     *)
THEOREM ClientsStayApart == Spec => []ClientsApart
  <1>1. Inv /\ OwnersInv /\ HandshakeAgreement => ClientsApart
    <2>. SUFFICES ASSUME Inv, OwnersInv, HandshakeAgreement,
                         NEW c \in Clients, NEW d \in Clients, c # d,
                         cpc[c] \in {"tun", "start", "up"}, link[Cur(c)] = "open",
                         cpc[d] \in {"tun", "start", "up"}, link[Cur(d)] = "open"
                  PROVE  assigned[c] # assigned[d]
      BY DEF ClientsApart
    <2>1. /\ Cur(c) \in Conns /\ Cur(c)[1] = c
          /\ Cur(d) \in Conns /\ Cur(d)[1] = d
      BY CurConn DEF Inv
    <2>2. /\ InTable(Cur(c)) /\ assigned[c] = hip[Cur(c)]
          /\ InTable(Cur(d)) /\ assigned[d] = hip[Cur(d)]
      BY DEF HandshakeAgreement, InTable
    <2>. QED BY <2>1, <2>2 DEF OwnersInv
  <1>. QED BY <1>1, OwnersInvariance, HandshakeSafety, PTL

(* The pool under this use: only assignable addresses are handed out, each *)
(* the next free one, and exhaustion leaves at most one free; also across  *)
(* a restart, which forgets the addresses in use (server.go:74-108).       *)
THEOREM PoolPromises == Spec => []PoolTypeOK /\ []ExhaustedUpToLast /\ RoundRobin
  <1>1. Inv => PoolTypeOK /\ ExhaustedUpToLast
    BY TypeOKExhausted DEF Inv
  <1>2. Inv /\ OwnersInv /\ [Next]_vars => [GrantsNext]_poolVars
    <2>1. PoolInit' => GrantsNext
      BY DEF PoolInit, GrantsNext
    <2>. QED BY <2>1, PoolUsed, PoolStepGrantsNext DEF Inv
  <1>. QED BY <1>1, <1>2, OwnersInvariance, PTL DEF Spec, RoundRobin, GrantsNext

=============================================================================
