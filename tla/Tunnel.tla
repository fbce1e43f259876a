------------------------------- MODULE Tunnel -------------------------------
(***************************************************************************)
(* Clients and server put together: the handshake, the session keys and    *)
(* the addresses it leaves at both ends, and the packets that then go from *)
(* one TUN device to the other (client.go, server.go, crypto.go, and the   *)
(* handshake messages of protocol.go), with AutoReconnect, over WebSocket. *)
(*                                                                         *)
(* Client and Server model either side in full.  Here a step is as large   *)
(* as what the other side, or another goroutine of the same client, can    *)
(* tell apart: a client has one connector at a time (OneConnector), an     *)
(* entry of the session table and its address begin and end together       *)
(* (ImplementsAddressLease), and a connection is taken to be a queue of    *)
(* packets for each direction, as Transports finds a WebSocket connection  *)
(* to be, that may break.  Disconnect, Stop and keep-alives are left to    *)
(* those modules.                                                          *)
(***************************************************************************)
EXTENDS IPPool, Sequences

CONSTANTS
    Clients,
    MaxGen,        \* MaxGen[c]: bound on the connections client c dials
    MaxEpoch,      \* bound on the server processes, one after the other
    MaxTraffic     \* bound on the packets taken in, on either side

ASSUME TunnelAssumption ==
    /\ MaxGen \in [Clients -> Nat \ {0}]
    /\ MaxEpoch \in Nat \ {0} /\ MaxTraffic \in Nat

(* A connection is a client and the number of the dial. *)
Conns == UNION {{<<c, g>> : g \in 1 .. MaxGen[c]} : c \in Clients}

VARIABLES
    traffic,     \* packets that TUN devices have taken in, on either side
    epoch,       \* the server process
    (* connections *)
    link,        \* link[x]: the connection, as its client sees it
    up, down,    \* packets on their way to the server, to the client
    (* server: handleConnection of each connection *)
    hpc, hip, hsess,   \* program counter, clientIP, cryptoSession
    (* clients *)
    cpc,         \* progress of Connect
    gen,         \* c.conn
    connected,   \* c.connected
    sess,        \* c.cryptoSession
    assigned,    \* c.assignedIP
    dev,         \* dev[x]: the address the TUN device of connection x was given
    tunDev,      \* c.tunDevice
    tpc, tat,    \* tunReadLoop: program counter, packet to send
    rpc, rat,    \* receiveLoop: program counter, connection being read or packet read
    (* what came of it *)
    inbox,       \* inbox[c]: destinations of packets that came to c's TUN device
    undecrypted, \* <<reader, key used, key needed>> of packets that did not decrypt
    misfit       \* <<"server", x>>: the first packet on x was no HandshakeInit;
                 \* <<"client", x>>: a receiveLoop took the response on x

connVars   == <<link, up, down>>
serverVars == <<hpc, hip, hsess, epoch>>
clientVars == <<cpc, gen, connected, sess, assigned, dev, tunDev>>
loopVars   == <<tpc, tat, rpc, rat>>
effects    == <<inbox, undecrypted, misfit>>
vars == <<traffic, connVars, serverVars, clientVars, loopVars, effects, poolVars>>

NoHost    == 0
NoSession == [send |-> <<>>, recv |-> <<>>]
Nothing   == [type |-> "nothing"]

Init ==
    /\ traffic = 0 /\ epoch = 1
    /\ link = [x \in Conns |-> "none"]
    /\ up = [x \in Conns |-> <<>>] /\ down = [x \in Conns |-> <<>>]
    /\ hpc = [x \in Conns |-> "none"]
    /\ hip = [x \in Conns |-> NoHost] /\ hsess = [x \in Conns |-> NoSession]
    /\ cpc = [c \in Clients |-> "dial"]
    /\ gen = [c \in Clients |-> 0]
    /\ connected = [c \in Clients |-> FALSE]
    /\ sess = [c \in Clients |-> NoSession]
    /\ assigned = [c \in Clients |-> NoHost]
    /\ dev = [x \in Conns |-> NoHost]
    /\ tunDev = [c \in Clients |-> 0]
    /\ tpc = [x \in Conns |-> "off"] /\ tat = [x \in Conns |-> Nothing]
    /\ rpc = [x \in Conns |-> "off"] /\ rat = [x \in Conns |-> Nothing]
    /\ inbox = [c \in Clients |-> {}] /\ undecrypted = {} /\ misfit = {}
    /\ PoolInit

-----------------------------------------------------------------------------
(* Keys.  Both key pairs are made in New and live as long as the process.  *)

ClientKeyPair(x) == x[1]

ServerKeyPair == epoch

(* A slip: both ends send with the first of the two keys. *)
DeriveSessionKeysOneWay(clientKey, serverKey, isInitiator) ==
    [send |-> <<clientKey, serverKey, 1>>, recv |-> <<clientKey, serverKey, 2>>]

(* ComputeSharedSecret and DeriveSessionKeys: the secret is the same from  *)
(* either side, the salt is the secret, and each end sends with one of the *)
(* two keys.                                                               *)
DeriveSessionKeys(clientKey, serverKey, isInitiator) ==
    LET key1 == <<clientKey, serverKey, 1>>
        key2 == <<clientKey, serverKey, 2>>
    IN  IF isInitiator THEN [send |-> key1, recv |-> key2]
                       ELSE [send |-> key2, recv |-> key1]

(* ip: the address a packet from the server is for.  What a client sends   *)
(* is any packet, with any addresses, and nobody looks at them.            *)
Encrypt(session, ip) == [type |-> "data", key |-> session.send, ip |-> ip]

Decrypts(session, packet) == packet.key = session.recv

HandshakeInit(x) == [type |-> "init", key |-> ClientKeyPair(x)]
HandshakeResponse(h) == [type |-> "resp", key |-> ServerKeyPair, ip |-> h]

-----------------------------------------------------------------------------
(* Connections *)

Cur(c) == <<c, gen[c]>>     \* c.conn

(* A write on x: nothing arrives on a connection that is not open. *)
Sent(queue, x, packet) ==
    IF link[x] = "open" THEN [queue EXCEPT ![x] = Append(@, packet)] ELSE queue

(* The connection breaks.  What is under way may still be read, or not:    *)
(* either end may get its read error at any time after this.               *)
LinkLost(x) ==
    /\ link[x] = "open"
    /\ link' = [link EXCEPT ![x] = "lost"]
    /\ UNCHANGED <<traffic, up, down, serverVars, clientVars, loopVars, effects, poolVars>>

-----------------------------------------------------------------------------
(* Client: Connect *)

CGoto(c, from, to) == cpc[c] = from /\ cpc' = [cpc EXCEPT ![c] = to]

(* A slip: receiveLoop is started before the handshake. *)
DialStartsReceiving(c) ==
    /\ gen[c] < MaxGen[c]
    /\ CGoto(c, "dial", "init")
    /\ gen' = [gen EXCEPT ![c] = @ + 1]
    /\ link' = [link EXCEPT ![<<c, gen[c] + 1>>] = "open"]
    /\ hpc' = [hpc EXCEPT ![<<c, gen[c] + 1>>] = "hello"]
    /\ rpc' = [rpc EXCEPT ![<<c, gen[c] + 1>>] = "check"]
    /\ UNCHANGED <<traffic, up, down, hip, hsess, epoch, connected, sess, assigned,
                   dev, tunDev, tpc, tat, rat, effects, poolVars>>

(* Dial, with the server's upgrade and Accept. *)
Dial(c) ==
    /\ gen[c] < MaxGen[c]
    /\ CGoto(c, "dial", "init")
    /\ gen' = [gen EXCEPT ![c] = @ + 1]
    /\ link' = [link EXCEPT ![<<c, gen[c] + 1>>] = "open"]
    /\ hpc' = [hpc EXCEPT ![<<c, gen[c] + 1>>] = "hello"]
    /\ UNCHANGED <<traffic, up, down, hip, hsess, epoch, connected, sess, assigned,
                   dev, tunDev, loopVars, effects, poolVars>>

SendInit(c) ==
    /\ CGoto(c, "init", "await")
    /\ up' = Sent(up, Cur(c), HandshakeInit(Cur(c)))
    /\ UNCHANGED <<traffic, link, down, serverVars, gen, connected, sess, assigned,
                   dev, tunDev, loopVars, effects, poolVars>>

(* A slip: the keys of the first handshake are kept. *)
TakeResponseKeepsKeys(c) ==
    /\ CGoto(c, "await", "tun")
    /\ down[Cur(c)] # <<>>
    /\ Head(down[Cur(c)]).type = "resp"
    /\ sess' = [sess EXCEPT ![c] =
                    IF @ # NoSession THEN @
                    ELSE DeriveSessionKeys(ClientKeyPair(Cur(c)), Head(down[Cur(c)]).key, TRUE)]
    /\ assigned' = [assigned EXCEPT ![c] = Head(down[Cur(c)]).ip]
    /\ down' = [down EXCEPT ![Cur(c)] = Tail(@)]
    /\ UNCHANGED <<traffic, link, up, serverVars, gen, connected, dev, tunDev,
                   loopVars, effects, poolVars>>

(* The first packet is the handshake response. *)
TakeResponse(c) ==
    /\ CGoto(c, "await", "tun")
    /\ down[Cur(c)] # <<>>
    /\ Head(down[Cur(c)]).type = "resp"
    /\ sess' = [sess EXCEPT ![c] =
                    DeriveSessionKeys(ClientKeyPair(Cur(c)), Head(down[Cur(c)]).key, TRUE)]
    /\ assigned' = [assigned EXCEPT ![c] = Head(down[Cur(c)]).ip]
    /\ down' = [down EXCEPT ![Cur(c)] = Tail(@)]
    /\ UNCHANGED <<traffic, link, up, serverVars, gen, connected, dev, tunDev,
                   loopVars, effects, poolVars>>

(* The handshake fails: Connect closes the connection; main exits, a       *)
(* reconnectLoop tries again.                                              *)
HandshakeFails(c) ==
    /\ CGoto(c, "await", IF gen[c] = 1 THEN "exited" ELSE "dial")
    /\ \/ link[Cur(c)] # "open"
       \/ down[Cur(c)] # <<>> /\ Head(down[Cur(c)]).type # "resp"
    /\ link' = [link EXCEPT ![Cur(c)] = "lost"]
    /\ down' = [down EXCEPT ![Cur(c)] = <<>>]
    /\ UNCHANGED <<traffic, up, serverVars, gen, connected, sess, assigned, dev, tunDev,
                   loopVars, effects, poolVars>>

(* tun.New with the assigned address, or its failure: without the rights,  *)
(* and on Linux whenever the device of an earlier connection has the name  *)
(* hydra0.  The client then goes on with the device it has, if any.        *)
(* SetDefaultRoute and SetDNS are TunDevice's.                             *)
NewDevice(c) ==
    /\ CGoto(c, "tun", "start")
    /\ \/ /\ dev' = [dev EXCEPT ![Cur(c)] = assigned[c]]
          /\ tunDev' = [tunDev EXCEPT ![c] = gen[c]]
          /\ tpc' = [tpc EXCEPT ![Cur(c)] = "read"]
       \/ UNCHANGED <<dev, tunDev, tpc>>
    /\ UNCHANGED <<traffic, connVars, serverVars, gen, connected, sess, assigned,
                   tat, rpc, rat, effects, poolVars>>

StartLoops(c) ==
    /\ CGoto(c, "start", "up")
    /\ connected' = [connected EXCEPT ![c] = TRUE]
    /\ rpc' = [rpc EXCEPT ![Cur(c)] = "check"]
    /\ UNCHANGED <<traffic, connVars, serverVars, gen, sess, assigned, dev, tunDev,
                   tpc, tat, rat, effects, poolVars>>

(* handleDisconnect, and the reconnectLoop it starts. *)
HandleDisconnect(c) ==
    /\ connected' = [connected EXCEPT ![c] = FALSE]
    /\ cpc' = IF connected[c] THEN [cpc EXCEPT ![c] = "dial"] ELSE cpc

-----------------------------------------------------------------------------
(* Client: tunReadLoop and receiveLoop of connection x *)

(* Any packet the TUN device delivers, encrypted at once. *)
TEncrypt(x) ==
    /\ tpc[x] = "read" /\ traffic < MaxTraffic
    /\ traffic' = traffic + 1
    /\ tpc' = [tpc EXCEPT ![x] = "write"]
    /\ tat' = [tat EXCEPT ![x] = Encrypt(sess[x[1]], NoHost)]
    /\ UNCHANGED <<connVars, serverVars, clientVars, rpc, rat, effects, poolVars>>

(* ... and sent on what c.conn is by then. *)
TWrite(x) ==
    LET c == x[1] IN
    /\ tpc[x] = "write"
    /\ \/ /\ up' = Sent(up, Cur(c), tat[x])
          /\ tpc' = [tpc EXCEPT ![x] = "read"]
          /\ UNCHANGED <<connected, cpc>>
       \/ /\ link[Cur(c)] # "open"
          /\ HandleDisconnect(c)
          /\ tpc' = [tpc EXCEPT ![x] = "off"]
          /\ UNCHANGED up
    /\ tat' = [tat EXCEPT ![x] = Nothing]
    /\ UNCHANGED <<traffic, link, down, serverVars, gen, sess, assigned, dev, tunDev,
                   rpc, rat, effects, poolVars>>

RRead(x) ==
    /\ rpc[x] = "check"
    /\ rpc' = [rpc EXCEPT ![x] = "read"]
    /\ rat' = [rat EXCEPT ![x] = [type |-> "conn", gen |-> gen[x[1]]]]
    /\ UNCHANGED <<traffic, connVars, serverVars, clientVars, tpc, tat, effects, poolVars>>

RPacket(x) ==
    LET y == <<x[1], rat[x].gen>> IN
    /\ rpc[x] = "read" /\ down[y] # <<>>
    /\ rpc' = [rpc EXCEPT ![x] = "handle"]
    /\ rat' = [rat EXCEPT ![x] = Head(down[y])]
    /\ down' = [down EXCEPT ![y] = Tail(@)]
    /\ misfit' = IF Head(down[y]).type = "resp" THEN misfit \cup {<<"client", y>>} ELSE misfit
    /\ UNCHANGED <<traffic, link, up, serverVars, clientVars, tpc, tat, inbox, undecrypted,
                   poolVars>>

RReadError(x) ==
    /\ rpc[x] = "read" /\ link[<<x[1], rat[x].gen>>] # "open"
    /\ HandleDisconnect(x[1])
    /\ rpc' = [rpc EXCEPT ![x] = "off"]
    /\ rat' = [rat EXCEPT ![x] = Nothing]
    /\ UNCHANGED <<traffic, connVars, serverVars, gen, sess, assigned, dev, tunDev,
                   tpc, tat, effects, poolVars>>

(* Data is decrypted with what c.cryptoSession is by now and written to    *)
(* c.tunDevice; another packet is skipped.                                 *)
RHandle(x) ==
    LET c == x[1] IN
    /\ rpc[x] = "handle"
    /\ IF rat[x].type = "data"
         THEN IF Decrypts(sess[c], rat[x])
                THEN /\ inbox' = [inbox EXCEPT ![c] =
                            IF tunDev[c] # 0 THEN @ \cup {rat[x].ip} ELSE @]
                     /\ UNCHANGED undecrypted
                ELSE /\ undecrypted' =
                            undecrypted \cup {<<"client", rat[x].key, sess[c].recv>>}
                     /\ UNCHANGED inbox
         ELSE UNCHANGED <<inbox, undecrypted>>
    /\ rpc' = [rpc EXCEPT ![x] = "check"]
    /\ rat' = [rat EXCEPT ![x] = Nothing]
    /\ UNCHANGED <<traffic, connVars, serverVars, clientVars, tpc, tat, misfit, poolVars>>

-----------------------------------------------------------------------------
(* Server *)

InTable(x) == hpc[x] \in {"respond", "serve"}

(* The first packet is a HandshakeInit: keys, address, session. *)
Hello(x) ==
    /\ hpc[x] = "hello"
    /\ up[x] # <<>> /\ Head(up[x]).type = "init"
    /\ \E h \in HostNums :
          /\ Allocate(h)
          /\ hip' = [hip EXCEPT ![x] = h]
    /\ hsess' = [hsess EXCEPT ![x] =
                     DeriveSessionKeys(Head(up[x]).key, ServerKeyPair, FALSE)]
    /\ hpc' = [hpc EXCEPT ![x] = "respond"]
    /\ up' = [up EXCEPT ![x] = Tail(@)]
    /\ UNCHANGED <<traffic, link, down, epoch, clientVars, loopVars, effects>>

(* It is another packet, no address is left, or the connection is gone. *)
HelloFails(x) ==
    /\ hpc[x] = "hello"
    /\ \/ link[x] # "open" /\ UNCHANGED <<misfit, poolVars>>
       \/ /\ up[x] # <<>> /\ Head(up[x]).type # "init"
          /\ misfit' = misfit \cup {<<"server", x>>}
          /\ UNCHANGED poolVars
       \/ /\ up[x] # <<>> /\ Head(up[x]).type = "init"
          /\ AllocateFails
          /\ UNCHANGED misfit
    /\ hpc' = [hpc EXCEPT ![x] = "done"]
    /\ link' = [link EXCEPT ![x] = "lost"]
    /\ up' = [up EXCEPT ![x] = <<>>]
    /\ UNCHANGED <<traffic, down, hip, hsess, epoch, clientVars, loopVars, inbox,
                   undecrypted>>

(* A slip: the address field is filled in for the client after it was sent. *)
RespondWithoutIP(x) ==
    /\ hpc[x] = "respond"
    /\ down' = Sent(down, x, HandshakeResponse(NoHost))
    /\ hpc' = [hpc EXCEPT ![x] = "serve"]
    /\ UNCHANGED <<traffic, link, up, hip, hsess, epoch, clientVars, loopVars, effects,
                   poolVars>>

Respond(x) ==
    /\ hpc[x] = "respond"
    /\ down' = Sent(down, x, HandshakeResponse(hip[x]))
    /\ hpc' = [hpc EXCEPT ![x] = "serve"]
    /\ UNCHANGED <<traffic, link, up, hip, hsess, epoch, clientVars, loopVars, effects,
                   poolVars>>

(* Data that decrypts goes to the server's TUN device; the rest is skipped. *)
ServerRead(x) ==
    /\ hpc[x] = "serve" /\ up[x] # <<>>
    /\ up' = [up EXCEPT ![x] = Tail(@)]
    /\ LET packet == Head(up[x]) IN
       undecrypted' = IF packet.type = "data" /\ ~Decrypts(hsess[x], packet)
                        THEN undecrypted \cup {<<"server", packet.key, hsess[x].recv>>}
                        ELSE undecrypted
    /\ UNCHANGED <<traffic, link, down, serverVars, clientVars, loopVars, inbox, misfit,
                   poolVars>>

(* A read or write error: the deferred deletion and release. *)
HandlerEnds(x) ==
    /\ InTable(x) /\ link[x] # "open"
    /\ hpc' = [hpc EXCEPT ![x] = "done"]
    /\ up' = [up EXCEPT ![x] = <<>>]
    /\ Release(hip[x])
    /\ UNCHANGED <<traffic, link, down, hip, hsess, epoch, clientVars, loopVars, effects>>

(* A slip: any session will do. *)
ForwardToAny(x, h) ==
    /\ traffic < MaxTraffic
    /\ InTable(x)
    /\ traffic' = traffic + 1
    /\ down' = Sent(down, x, Encrypt(hsess[x], h))
    /\ UNCHANGED <<link, up, serverVars, clientVars, loopVars, effects, poolVars>>

(* tunReadLoop: a packet for address h, to the session that has it. *)
Forward(x, h) ==
    /\ traffic < MaxTraffic
    /\ InTable(x) /\ hip[x] = h
    /\ traffic' = traffic + 1
    /\ down' = Sent(down, x, Encrypt(hsess[x], h))
    /\ UNCHANGED <<link, up, serverVars, clientVars, loopVars, effects, poolVars>>

(* The server process ends, and another is started. *)
Restart ==
    /\ epoch < MaxEpoch
    /\ epoch' = epoch + 1
    /\ link' = [x \in Conns |-> IF link[x] = "open" THEN "lost" ELSE link[x]]
    /\ up' = [x \in Conns |-> <<>>]
    /\ hpc' = [x \in Conns |-> IF hpc[x] = "none" THEN "none" ELSE "done"]
    /\ used' = {} /\ nextHost' = 2
    /\ UNCHANGED <<traffic, down, hip, hsess, clientVars, loopVars, effects>>

-----------------------------------------------------------------------------

Connect(c) ==
    Dial(c) \/ SendInit(c) \/ TakeResponse(c) \/ HandshakeFails(c) \/ NewDevice(c) \/ StartLoops(c)

TunReadLoop(x) == TEncrypt(x) \/ TWrite(x)

ReceiveLoop(x) == RRead(x) \/ RPacket(x) \/ RReadError(x) \/ RHandle(x)

HandleConnection(x) ==
    Hello(x) \/ HelloFails(x) \/ Respond(x) \/ ServerRead(x) \/ HandlerEnds(x)

Next ==
    \/ \E c \in Clients : Connect(c)
    \/ \E x \in Conns :
          \/ TunReadLoop(x) \/ ReceiveLoop(x) \/ HandleConnection(x)
          \/ LinkLost(x) \/ \E h \in Hosts : Forward(x, h)
    \/ Restart

Spec == Init /\ [][Next]_vars

-----------------------------------------------------------------------------
(* Properties *)

Keys == Clients \X (1 .. MaxEpoch) \X {1, 2}
Sessions == {NoSession} \cup [send : Keys, recv : Keys]
Packets ==
    [type : {"init"}, key : Clients]
      \cup [type : {"resp"}, key : 1 .. MaxEpoch, ip : Hosts]
      \cup [type : {"data"}, key : Keys, ip : Hosts \cup {NoHost}]
Reads == [type : {"conn"}, gen : Nat]

TypeOK ==
    /\ traffic \in 0 .. MaxTraffic /\ epoch \in 1 .. MaxEpoch
    /\ link \in [Conns -> {"none", "open", "lost"}]
    /\ up \in [Conns -> Seq(Packets)] /\ down \in [Conns -> Seq(Packets)]
    /\ hpc \in [Conns -> {"none", "hello", "respond", "serve", "done"}]
    /\ hip \in [Conns -> Hosts \cup {NoHost}] /\ hsess \in [Conns -> Sessions]
    /\ cpc \in [Clients -> {"dial", "init", "await", "tun", "start", "up", "exited"}]
    /\ gen \in [Clients -> Nat] /\ tunDev \in [Clients -> Nat]
    /\ \A c \in Clients : gen[c] <= MaxGen[c] /\ tunDev[c] <= MaxGen[c]
    /\ connected \in [Clients -> BOOLEAN]
    /\ sess \in [Clients -> Sessions]
    /\ assigned \in [Clients -> Hosts \cup {NoHost}]
    /\ dev \in [Conns -> Hosts \cup {NoHost}]
    /\ tpc \in [Conns -> {"off", "read", "write"}]
    /\ tat \in [Conns -> {Nothing} \cup Packets]
    /\ rpc \in [Conns -> {"off", "check", "read", "handle"}]
    /\ rat \in [Conns -> {Nothing} \cup Reads \cup Packets]
    /\ inbox \in [Clients -> SUBSET Hosts]
    /\ undecrypted \subseteq {"client", "server"} \X Keys \X Keys
    /\ misfit \subseteq {"client", "server"} \X Conns

(***************************************************************************)
(* While the connection of a client that got its response stands, its      *)
(* handler serves it, and the two ends agree on the address and, crosswise,*)
(* on the keys, whatever older loops of the client, other clients or an    *)
(* earlier server have done; the device made for this connection, if one   *)
(* could be, has that address (client.go:129-142, 220-237,                 *)
(* server.go:257-321).                                                     *)
(***************************************************************************)
HandshakeAgreement ==
    \A c \in Clients :
        cpc[c] \in {"tun", "start", "up"} /\ link[Cur(c)] = "open" =>
            /\ hpc[Cur(c)] = "serve"
            /\ assigned[c] = hip[Cur(c)]
            /\ sess[c].send = hsess[Cur(c)].recv
            /\ sess[c].recv = hsess[Cur(c)].send
            /\ dev[Cur(c)] \in {NoHost, hip[Cur(c)]}

(***************************************************************************)
(* No two clients whose connections stand were told the same address,      *)
(* although addresses are given back behind a client's back, when its      *)
(* connection is lost or the server restarted (server.go:278-303,          *)
(* client.go:220-237).                                                     *)
(***************************************************************************)
ClientsApart ==
    \A c, d \in Clients :
        /\ c # d
        /\ cpc[c] \in {"tun", "start", "up"} /\ link[Cur(c)] = "open"
        /\ cpc[d] \in {"tun", "start", "up"} /\ link[Cur(d)] = "open"
        => assigned[c] # assigned[d]

(***************************************************************************)
(* src/README.md:107, "Perfect Forward Secrecy: New keys per session".     *)
(* The code makes a key pair when client and server are made and derives   *)
(* the session keys from those alone (client.go:64,229, server.go:127,     *)
(* 267), so the sessions of one client with one server process share keys. *)
(***************************************************************************)
NewKeysPerSession ==
    \A x, y \in Conns :
        x # y /\ hsess[x] # NoSession /\ hsess[y] # NoSession => hsess[x] # hsess[y]

(***************************************************************************)
(* What becomes of the packets when loops of an earlier connection use its *)
(* session with the socket of the next (client.go:229,265,313): one that   *)
(* does not decrypt was encrypted for another server process.  It is the   *)
(* other side of sessions that share their keys (NewKeysPerSession):       *)
(* with new keys those packets would be lost.                              *)
(***************************************************************************)
UndecryptedAreOfAnotherServer ==
    \A u \in undecrypted : u[2][2] # u[3][2]

(***************************************************************************)
(* What decrypts at a client and goes to its TUN device was meant for an   *)
(* address the server gave to that client (server.go:406-419), although    *)
(* addresses go from client to client and a packet may be read long after. *)
(***************************************************************************)
OwnTrafficOnly ==
    \A c \in Clients : inbox[c] \subseteq {hip[<<c, g>>] : g \in 1 .. gen[c]}

(***************************************************************************)
(* The server gives up on a connection whose first packet is no            *)
(* HandshakeInit (server.go:245), and the client waits without end for a   *)
(* response that another goroutine took.  On a first connection neither    *)
(* happens: only after a reconnection is there a tunReadLoop left over to  *)
(* write first, or a receiveLoop to take the response (client.go:273,294). *)
(***************************************************************************)
FirstHandshakeUndisturbed ==
    \A m \in misfit : LET x == m[2] IN x[2] > 1
=============================================================================
