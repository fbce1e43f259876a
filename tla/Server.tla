------------------------------- MODULE Server -------------------------------
(***************************************************************************)
(* The VPN server (pkg/server/server.go) on its default transport, the     *)
(* WebSocket listener (pkg/transport/websocket.go).                        *)
(*                                                                         *)
(* Goroutines: Start/Stop (main), the HTTP upgrade handlers, acceptLoop,   *)
(* one handleConnection per connection and tunReadLoop.  They share the    *)
(* address pool, the session table under sessionsMu and the connections.   *)
(* Each goroutine has a program counter; a step runs from one point where  *)
(* it can block, or where another goroutine can tell the difference, to    *)
(* the next.  Clients are not constrained: they send any packet, stop      *)
(* reading, or go away at any time.                                        *)
(*                                                                         *)
(* A connection is a slot of Conns, free again once the handler is done.   *)
(***************************************************************************)
EXTENDS IPPool, Sequences

CONSTANTS
    Conns,        \* connection slots: bounds the connections open at once
    SessionIDs,   \* values the random 64-bit session ID can take
    FreshIDs,     \* whether a drawn ID is assumed to differ from live ones
    Backlog,      \* capacity of connChan (100 in websocket.go:85)
    SendBuf,      \* packets a peer that does not read lets the server write
    NoConn,       \* absent map entry
    NoID,         \* session ID not drawn yet
    NoHost        \* address not allocated yet

ASSUME ServerAssumption ==
    /\ FreshIDs \in BOOLEAN
    /\ Backlog \in Nat \ {0}
    /\ SendBuf \in Nat \ {0}
    /\ NoConn \notin Conns
    /\ NoID \notin SessionIDs
    /\ NoHost \notin Nat

VARIABLES
    phase,      \* progress of Start and Stop
    acceptPC,   \* program counter of acceptLoop
    backlog,    \* connChan: upgraded connections not yet accepted
    pc,         \* program counter of each connection's goroutine
    peer,       \* peer[c]: the client end of c can still send and receive
    unread,     \* unread[c]: packets written to c that the client has not read
    sid,        \* sid[c]: sessionID of handleConnection
    ip,         \* ip[c]: clientIP of handleConnection
    sessions,   \* s.sessions: session ID -> connection of the session
    rlocked,    \* tunReadLoop holds sessionsMu.RLock
    tunPC,      \* program counter of tunReadLoop
    tunConn     \* the connection tunReadLoop is writing to

connVars == <<pc, peer, unread, sid, ip>>
tunVars  == <<rlocked, tunPC, tunConn>>
vars     == <<phase, acceptPC, backlog, connVars, sessions, poolVars, tunVars>>

-----------------------------------------------------------------------------
(* Derived state *)

(* s.cancel() has been called. *)
CtxDone == phase \in {"cancelled", "closing", "unlistened", "waiting", "stopped"}

(* closeChan is closed. *)
ListenerClosed == phase \in {"closing", "unlistened", "waiting", "stopped"}

TunClosed == phase \in {"waiting", "stopped"}

(* handleConnection goroutines that have not returned. *)
Handlers == {c \in Conns : pc[c] \notin {"idle", "upgraded", "queued"}}

(* Between Allocate and Release in handleConnection. *)
HoldsAddress(c) ==
    pc[c] \in {"register", "respond", "check", "read", "keepalive",
               "unregister", "release"}

(* Between the insertion into s.sessions and its deferred deletion. *)
InService(c) == pc[c] \in {"respond", "check", "read", "keepalive", "unregister"}

Registered(c) == \E id \in SessionIDs : sessions[id] = c

-----------------------------------------------------------------------------

Init ==
    /\ phase = "new"
    /\ acceptPC = "off"
    /\ backlog = <<>>
    /\ pc = [c \in Conns |-> "idle"]
    /\ peer = [c \in Conns |-> FALSE]
    /\ unread = [c \in Conns |-> 0]
    /\ sid = [c \in Conns |-> NoID]
    /\ ip = [c \in Conns |-> NoHost]
    /\ sessions = [id \in SessionIDs |-> NoConn]
    /\ rlocked = FALSE
    /\ tunPC = "off"
    /\ tunConn = NoConn
    /\ PoolInit

Goto(c, from, to) ==
    /\ pc[c] = from
    /\ pc' = [pc EXCEPT ![c] = to]

(* conn.Write returning without error: it waits for room, and a peer that  *)
(* has gone may still be unknown to the socket, which drops the bytes.     *)
WriteOK(c) ==
    \/ /\ peer[c]
       /\ unread[c] < SendBuf
       /\ unread' = [unread EXCEPT ![c] = @ + 1]
    \/ /\ ~peer[c]
       /\ UNCHANGED unread

(* conn.Write returning an error. *)
WriteErr(c) == ~peer[c] /\ UNCHANGED unread

-----------------------------------------------------------------------------
(* Start and Stop *)

(* tun.New may fail: the server then runs without tunReadLoop. *)
StartTUN ==
    /\ phase = "new"
    /\ phase' = "tun"
    /\ tunPC' \in {"off", "check"}
    /\ UNCHANGED <<acceptPC, backlog, connVars, sessions, poolVars, rlocked, tunConn>>

(* transport.Listen; on its error runServer exits the process. *)
StartListen ==
    /\ phase = "tun"
    /\ \/ phase' = "running" /\ acceptPC' = "check"
       \/ phase' = "failed"  /\ UNCHANGED acceptPC
    /\ UNCHANGED <<backlog, connVars, sessions, poolVars, tunVars>>

StopCancel ==
    /\ phase = "running"
    /\ phase' = "cancelled"
    /\ UNCHANGED <<acceptPC, backlog, connVars, sessions, poolVars, tunVars>>

(* The listener's Close first closes closeChan ... *)
StopListener ==
    /\ phase = "cancelled"
    /\ phase' = "closing"
    /\ UNCHANGED <<acceptPC, backlog, connVars, sessions, poolVars, tunVars>>

(* ... and then the HTTP server and the TCP listener. *)
StopHTTP ==
    /\ phase = "closing"
    /\ phase' = "unlistened"
    /\ UNCHANGED <<acceptPC, backlog, connVars, sessions, poolVars, tunVars>>

StopTUN ==
    /\ phase = "unlistened"
    /\ phase' = "waiting"
    /\ UNCHANGED <<acceptPC, backlog, connVars, sessions, poolVars, tunVars>>

(* A slip: handlers are not counted in the wait group. *)
StopWaitIgnoresHandlers ==
    /\ phase = "waiting"
    /\ acceptPC = "done"
    /\ tunPC \in {"off", "done"}
    /\ phase' = "stopped"
    /\ UNCHANGED <<acceptPC, backlog, connVars, sessions, poolVars, tunVars>>

(* s.wg.Wait(): acceptLoop, tunReadLoop and every handler have returned. *)
StopWait ==
    /\ phase = "waiting"
    /\ acceptPC = "done"
    /\ tunPC \in {"off", "done"}
    /\ Handlers = {}
    /\ phase' = "stopped"
    /\ UNCHANGED <<acceptPC, backlog, connVars, sessions, poolVars, tunVars>>

-----------------------------------------------------------------------------
(* WebSocket listener and acceptLoop *)

(* A client's HTTP request to /hydra is upgraded. *)
Upgrade(c) ==
    /\ phase \in {"running", "cancelled", "closing"}
    /\ Goto(c, "idle", "upgraded")
    /\ peer' = [peer EXCEPT ![c] = TRUE]
    /\ UNCHANGED <<phase, acceptPC, backlog, unread, sid, ip, sessions, poolVars, tunVars>>

(* The upgrade handler's select: hand over the connection ... *)
Enqueue(c) ==
    /\ Len(backlog) < Backlog
    /\ Goto(c, "upgraded", "queued")
    /\ backlog' = Append(backlog, c)
    /\ UNCHANGED <<phase, acceptPC, peer, unread, sid, ip, sessions, poolVars, tunVars>>

(* ... or close it, because the listener is closed. *)
EnqueueRefused(c) ==
    /\ ListenerClosed
    /\ Goto(c, "upgraded", "idle")
    /\ peer' = [peer EXCEPT ![c] = FALSE]
    /\ UNCHANGED <<phase, acceptPC, backlog, unread, sid, ip, sessions, poolVars, tunVars>>

AcceptCheck ==
    /\ acceptPC = "check"
    /\ acceptPC' = IF CtxDone THEN "done" ELSE "accept"
    /\ UNCHANGED <<phase, backlog, connVars, sessions, poolVars, tunVars>>

(* Accept returns a connection, even after Close if one is queued. *)
AcceptConn ==
    /\ acceptPC = "accept"
    /\ backlog # <<>>
    /\ backlog' = Tail(backlog)
    /\ pc' = [pc EXCEPT ![Head(backlog)] = "hello"]
    /\ acceptPC' = "check"
    /\ UNCHANGED <<phase, peer, unread, sid, ip, sessions, poolVars, tunVars>>

(* A slip: an Accept error is always retried. *)
AcceptClosedRetries ==
    /\ acceptPC = "accept"
    /\ ListenerClosed
    /\ UNCHANGED vars

(* Accept returns "listener closed"; the context is cancelled by then. *)
AcceptClosed ==
    /\ acceptPC = "accept"
    /\ ListenerClosed
    /\ acceptPC' = "done"
    /\ UNCHANGED <<phase, backlog, connVars, sessions, poolVars, tunVars>>

-----------------------------------------------------------------------------
(* handleConnection *)

(* The first Read fails. *)
HelloError(c) ==
    /\ ~peer[c]
    /\ Goto(c, "hello", "close")
    /\ UNCHANGED <<phase, acceptPC, backlog, peer, unread, sid, ip, sessions, poolVars, tunVars>>

(* The first packet does not parse, is no HandshakeInit, is too short, or  *)
(* carries a key that no session keys can be derived from.                 *)
HelloReject(c) ==
    /\ peer[c]
    /\ Goto(c, "hello", "close")
    /\ UNCHANGED <<phase, acceptPC, backlog, peer, unread, sid, ip, sessions, poolVars, tunVars>>

(* A valid HandshakeInit; the session keys and the session ID are made. *)
HelloAccept(c, id) ==
    /\ peer[c]
    /\ FreshIDs => \A d \in Conns : sid[d] # id
    /\ Goto(c, "hello", "allocate")
    /\ sid' = [sid EXCEPT ![c] = id]
    /\ UNCHANGED <<phase, acceptPC, backlog, peer, unread, ip, sessions, poolVars, tunVars>>

AllocateIP(c) ==
    /\ \/ \E h \in HostNums :
            /\ Allocate(h)
            /\ ip' = [ip EXCEPT ![c] = h]
            /\ Goto(c, "allocate", "register")
       \/ /\ AllocateFails
          /\ Goto(c, "allocate", "close")
          /\ UNCHANGED ip
    /\ UNCHANGED <<phase, acceptPC, backlog, peer, unread, sid, sessions, tunVars>>

(* A slip: the session is dropped when the lock is taken. *)
RegisterTryLock(c) ==
    /\ Goto(c, "register", "respond")
    /\ sessions' = IF rlocked THEN sessions ELSE [sessions EXCEPT ![sid[c]] = c]
    /\ UNCHANGED <<phase, acceptPC, backlog, peer, unread, sid, ip, poolVars, tunVars>>

(* The session goes into s.sessions before the response is sent. *)
Register(c) ==
    /\ ~rlocked
    /\ Goto(c, "register", "respond")
    /\ sessions' = [sessions EXCEPT ![sid[c]] = c]
    /\ UNCHANGED <<phase, acceptPC, backlog, peer, unread, sid, ip, poolVars, tunVars>>

(* A slip: the error path skips the deferred clean-up. *)
RespondLeaks(c) ==
    /\ \/ WriteOK(c) /\ Goto(c, "respond", "check")
       \/ WriteErr(c) /\ Goto(c, "respond", "close")
    /\ UNCHANGED <<phase, acceptPC, backlog, peer, sid, ip, sessions, poolVars, tunVars>>

Respond(c) ==
    /\ \/ WriteOK(c) /\ Goto(c, "respond", "check")
       \/ WriteErr(c) /\ Goto(c, "respond", "unregister")
    /\ UNCHANGED <<phase, acceptPC, backlog, peer, sid, ip, sessions, poolVars, tunVars>>

CheckCtx(c) ==
    /\ Goto(c, "check", IF CtxDone THEN "unregister" ELSE "read")
    /\ UNCHANGED <<phase, acceptPC, backlog, peer, unread, sid, ip, sessions, poolVars, tunVars>>

(* A slip: a read error is logged and the loop goes on. *)
ReadErrorContinues(c) ==
    /\ ~peer[c]
    /\ Goto(c, "read", "check")
    /\ UNCHANGED <<phase, acceptPC, backlog, peer, unread, sid, ip, sessions, poolVars, tunVars>>

ReadError(c) ==
    /\ ~peer[c]
    /\ Goto(c, "read", "unregister")
    /\ UNCHANGED <<phase, acceptPC, backlog, peer, unread, sid, ip, sessions, poolVars, tunVars>>

(* A Data packet, whose plaintext goes to the TUN device and out of the    *)
(* server's state, or one that is skipped: it does not parse, does not     *)
(* decrypt, or has a type the loop has no case for.                        *)
ReadPacket(c) ==
    /\ peer[c]
    /\ Goto(c, "read", "check")
    /\ UNCHANGED <<phase, acceptPC, backlog, peer, unread, sid, ip, sessions, poolVars, tunVars>>

ReadKeepAlive(c) ==
    /\ peer[c]
    /\ Goto(c, "read", "keepalive")
    /\ UNCHANGED <<phase, acceptPC, backlog, peer, unread, sid, ip, sessions, poolVars, tunVars>>

ReadDisconnect(c) ==
    /\ peer[c]
    /\ Goto(c, "read", "unregister")
    /\ UNCHANGED <<phase, acceptPC, backlog, peer, unread, sid, ip, sessions, poolVars, tunVars>>

(* The error of the keep-alive answer is ignored. *)
KeepAliveReply(c) ==
    /\ WriteOK(c) \/ WriteErr(c)
    /\ Goto(c, "keepalive", "check")
    /\ UNCHANGED <<phase, acceptPC, backlog, peer, sid, ip, sessions, poolVars, tunVars>>

(* A slip: the entry is deleted without taking sessionsMu. *)
UnregisterUnlocked(c) ==
    /\ Goto(c, "unregister", "release")
    /\ sessions' = [sessions EXCEPT ![sid[c]] = NoConn]
    /\ UNCHANGED <<phase, acceptPC, backlog, peer, unread, sid, ip, poolVars, tunVars>>

(* A slip: the deletion is forgotten. *)
UnregisterKeepsEntry(c) ==
    /\ ~rlocked
    /\ Goto(c, "unregister", "release")
    /\ UNCHANGED <<phase, acceptPC, backlog, peer, unread, sid, ip, sessions, poolVars, tunVars>>

(* A slip: the address is released before the entry is deleted. *)
UnregisterReleasesFirst(c) ==
    /\ ~rlocked
    /\ Goto(c, "unregister", "release")
    /\ Release(ip[c])
    /\ sessions' = [sessions EXCEPT ![sid[c]] = NoConn]
    /\ UNCHANGED <<phase, acceptPC, backlog, peer, unread, sid, ip, tunVars>>

(* The deferred calls, in the order they run. *)
Unregister(c) ==
    /\ ~rlocked
    /\ Goto(c, "unregister", "release")
    /\ sessions' = [sessions EXCEPT ![sid[c]] = NoConn]
    /\ UNCHANGED <<phase, acceptPC, backlog, peer, unread, sid, ip, poolVars, tunVars>>

ReleaseIP(c) ==
    /\ Goto(c, "release", "close")
    /\ Release(ip[c])
    /\ ip' = [ip EXCEPT ![c] = NoHost]
    /\ UNCHANGED <<phase, acceptPC, backlog, peer, unread, sid, sessions, tunVars>>

CloseConn(c) ==
    /\ Goto(c, "close", "idle")
    /\ peer' = [peer EXCEPT ![c] = FALSE]
    /\ unread' = [unread EXCEPT ![c] = 0]
    /\ sid' = [sid EXCEPT ![c] = NoID]
    /\ UNCHANGED <<phase, acceptPC, backlog, ip, sessions, poolVars, tunVars>>

-----------------------------------------------------------------------------
(* tunReadLoop *)

TunCheck ==
    /\ tunPC = "check"
    /\ tunPC' = IF CtxDone THEN "done" ELSE "read"
    /\ UNCHANGED <<phase, acceptPC, backlog, connVars, sessions, poolVars, rlocked, tunConn>>

(* Read fails because Stop closed the device. *)
TunReadClosed ==
    /\ tunPC = "read"
    /\ TunClosed
    /\ tunPC' = "done"
    /\ UNCHANGED <<phase, acceptPC, backlog, connVars, sessions, poolVars, rlocked, tunConn>>

(* A packet that goes nowhere: a read error, fewer than 20 bytes, no       *)
(* session with that destination, or a failed Encrypt.                     *)
TunDrop ==
    /\ tunPC = "read"
    /\ ~TunClosed
    /\ tunPC' = "check"
    /\ UNCHANGED <<phase, acceptPC, backlog, connVars, sessions, poolVars, rlocked, tunConn>>

(* A packet for ip[c]: RLock, find the session, encrypt.  The table cannot *)
(* change under RLock, so the search is one step; the Write that follows   *)
(* is made with the lock still held.                                       *)
TunForward(c) ==
    /\ tunPC = "read"
    /\ ~TunClosed
    /\ Registered(c)
    /\ tunPC' = "write"
    /\ tunConn' = c
    /\ rlocked' = TRUE
    /\ UNCHANGED <<phase, acceptPC, backlog, connVars, sessions, poolVars>>

(* A slip: the lock is only released after a write that succeeded. *)
TunWriteKeepsLock ==
    /\ tunPC = "write"
    /\ WriteOK(tunConn) \/ WriteErr(tunConn)
    /\ tunPC' = "check"
    /\ tunConn' = NoConn
    /\ rlocked' = ~peer[tunConn]
    /\ UNCHANGED <<phase, acceptPC, backlog, pc, peer, sid, ip, sessions, poolVars>>

(* session.Conn.Write, its error ignored, then RUnlock. *)
TunWrite ==
    /\ tunPC = "write"
    /\ WriteOK(tunConn) \/ WriteErr(tunConn)
    /\ tunPC' = "check"
    /\ tunConn' = NoConn
    /\ rlocked' = FALSE
    /\ UNCHANGED <<phase, acceptPC, backlog, pc, peer, sid, ip, sessions, poolVars>>

-----------------------------------------------------------------------------
(* Environment *)

(* The client leaves: what it sent has been read, what it has not read is  *)
(* lost, and reads and writes start to fail.                               *)
PeerClose(c) ==
    /\ peer[c]
    /\ peer' = [peer EXCEPT ![c] = FALSE]
    /\ unread' = [unread EXCEPT ![c] = 0]
    /\ UNCHANGED <<phase, acceptPC, backlog, pc, sid, ip, sessions, poolVars, tunVars>>

(* The client reads one packet. *)
PeerDrain(c) ==
    /\ unread[c] > 0
    /\ unread' = [unread EXCEPT ![c] = @ - 1]
    /\ UNCHANGED <<phase, acceptPC, backlog, pc, peer, sid, ip, sessions, poolVars, tunVars>>

(* The WebSocket library panics when it notices two goroutines inside      *)
(* WriteMessage of one connection; nothing in the server recovers.         *)
ConcurrentWritePanic(c) ==
    /\ tunPC = "write"
    /\ tunConn = c
    /\ pc[c] \in {"respond", "keepalive"}
    /\ phase' = "crashed"
    /\ UNCHANGED <<acceptPC, backlog, connVars, sessions, poolVars, tunVars>>

-----------------------------------------------------------------------------

StopSteps == StopListener \/ StopHTTP \/ StopTUN \/ StopWait

AcceptLoop == AcceptCheck \/ AcceptConn \/ AcceptClosed

TunReadLoop ==
    \/ TunCheck \/ TunReadClosed \/ TunDrop \/ TunWrite
    \/ \E c \in Conns : TunForward(c)

HandleConnection(c) ==
    \/ HelloError(c) \/ HelloReject(c)
    \/ \E id \in SessionIDs : HelloAccept(c, id)
    \/ AllocateIP(c) \/ Register(c) \/ Respond(c)
    \/ CheckCtx(c) \/ ReadError(c) \/ ReadPacket(c)
    \/ ReadKeepAlive(c) \/ ReadDisconnect(c) \/ KeepAliveReply(c)
    \/ Unregister(c) \/ ReleaseIP(c) \/ CloseConn(c)

Peer(c) == Upgrade(c) \/ PeerClose(c) \/ PeerDrain(c)

(* The process is gone after a panic or a failed Start. *)
Next ==
    /\ phase \notin {"crashed", "failed"}
    /\ \/ StartTUN \/ StartListen \/ StopCancel \/ StopSteps
       \/ AcceptLoop \/ TunReadLoop
       \/ \E c \in Conns :
             \/ Enqueue(c) \/ EnqueueRefused(c)
             \/ HandleConnection(c)
             \/ Peer(c) \/ ConcurrentWritePanic(c)

Spec == Init /\ [][Next]_vars

-----------------------------------------------------------------------------
(* Fairness *)

Alive == phase \notin {"crashed", "failed"}

(* What handleConnection does without the client sending anything. *)
HandlerSteps(c) ==
    \/ HelloError(c) \/ AllocateIP(c) \/ Register(c) \/ Respond(c)
    \/ CheckCtx(c) \/ ReadError(c) \/ KeepAliveReply(c)
    \/ Unregister(c) \/ ReleaseIP(c) \/ CloseConn(c)

(***************************************************************************)
(* The Go scheduler runs every goroutine that can run.  A goroutine in     *)
(* sessionsMu.Lock gets the lock once the reader leaves (RWMutex holds     *)
(* back later readers), and one in Write gets the room the client makes:   *)
(* hence strong fairness for the steps that wait.  Nothing makes a client  *)
(* send or leave, a packet arrive at the TUN device, or the operator stop  *)
(* the server.  PeerDrain: the client's receiveLoop keeps reading.         *)
(***************************************************************************)
FairSpec ==
    /\ Spec
    /\ WF_vars(Alive /\ StopSteps)
    /\ WF_vars(Alive /\ AcceptLoop)
    /\ WF_vars(Alive /\ (TunCheck \/ TunReadClosed))
    /\ SF_vars(Alive /\ TunWrite)
    /\ \A c \in Conns : SF_vars(Alive /\ HandlerSteps(c))
    /\ \A c \in Conns : WF_vars(Alive /\ PeerDrain(c))

-----------------------------------------------------------------------------
(* Safety *)

TypeOK ==
    /\ PoolTypeOK
    /\ phase \in {"new", "tun", "running", "failed", "cancelled",
                  "closing", "unlistened", "waiting", "stopped", "crashed"}
    /\ acceptPC \in {"off", "check", "accept", "done"}
    /\ backlog \in Seq(Conns)
    /\ pc \in [Conns -> {"idle", "upgraded", "queued", "hello", "allocate",
                         "register", "respond", "check", "read", "keepalive",
                         "unregister", "release", "close"}]
    /\ peer \in [Conns -> BOOLEAN]
    /\ unread \in [Conns -> 0 .. SendBuf]
    /\ sid \in [Conns -> SessionIDs \cup {NoID}]
    /\ ip \in [Conns -> Hosts \cup {NoHost}]
    /\ sessions \in [SessionIDs -> Conns \cup {NoConn}]
    /\ rlocked \in BOOLEAN
    /\ tunPC \in {"off", "check", "read", "write", "done"}
    /\ tunConn \in Conns \cup {NoConn}

(***************************************************************************)
(* Two clients never hold one address, whatever the interleaving of        *)
(* Allocate in one handler with the deferred clean-up of another           *)
(* (server.go:278, 297-303).                                               *)
(***************************************************************************)
AddressesDistinct ==
    \A c, d \in Conns :
        c # d /\ HoldsAddress(c) /\ HoldsAddress(d) => ip[c] # ip[d]

(***************************************************************************)
(* No address leaks and none is freed early: the pool's used set is at     *)
(* every moment exactly what the live handlers hold, on every error path   *)
(* of handleConnection.                                                    *)
(***************************************************************************)
PoolExact == used = {ip[c] : c \in {d \in Conns : HoldsAddress(d)}}

(***************************************************************************)
(* Every session in the table, and the session tunReadLoop is writing to   *)
(* without holding any lock but RLock, belongs to a handler that still     *)
(* owns its connection and address: no packet is sent on a connection      *)
(* that was closed, or to an address that went to somebody else            *)
(* (server.go:293-300, 406-421).  Session IDs may collide.                 *)
(***************************************************************************)
RoutedAreLive ==
    /\ \A c \in Conns : Registered(c) => InService(c)
    /\ tunPC = "write" => rlocked /\ Registered(tunConn)

(***************************************************************************)
(* If session IDs do not collide, a served client is always reachable: its *)
(* entry is in the table until its own handler deletes it                  *)
(* (server.go:275, 294, 299).                                              *)
(***************************************************************************)
Reachable ==
    FreshIDs => \A c \in Conns : InService(c) => sessions[sid[c]] = c

(***************************************************************************)
(* When Stop has returned, every handler has run its deferred clean-up: no *)
(* session, no address and no lock is left (server.go:297-303, 426-441).   *)
(***************************************************************************)
StoppedClean ==
    phase = "stopped" =>
        /\ used = {}
        /\ \A id \in SessionIDs : sessions[id] = NoConn
        /\ ~rlocked

(* The addresses and routes of the server, as the abstract lease sees them. *)
Lease == INSTANCE AddressLease WITH
    lease   <- [c \in Conns |-> IF HoldsAddress(c) THEN ip[c] ELSE NoHost],
    routed  <- {c \in Conns : Registered(c)},
    sending <- {c \in Conns : tunPC = "write" /\ tunConn = c}

(***************************************************************************)
(* Pool, session table and lock together implement exclusive leases whose  *)
(* traffic is cut off before they end (AddressLease).                      *)
(***************************************************************************)
ImplementsAddressLease == Lease!Spec

(***************************************************************************)
(* What the client relies on (client.go:197-212): the first packet it gets *)
(* is the handshake response.                                              *)
(***************************************************************************)
ResponseFirst == \A c \in Conns : pc[c] = "respond" => unread[c] = 0

-----------------------------------------------------------------------------
(* Liveness *)

(***************************************************************************)
(* The address of a client that has gone away returns to the pool, however *)
(* its handler, tunReadLoop and the lock are interleaved                   *)
(* (server.go:297-303, 333-336).                                           *)
(***************************************************************************)
PeerGoneFreesAddress ==
    \A c \in Conns :
        HoldsAddress(c) /\ ~peer[c] ~> ~HoldsAddress(c) \/ ~Alive

(***************************************************************************)
(* A client whose handshake was accepted is answered, or refused because   *)
(* no address is left; the handler does not get stuck between the pool,    *)
(* sessionsMu and the socket (server.go:278-323).                          *)
(***************************************************************************)
HandshakeCompletes ==
    \A c \in Conns :
        pc[c] = "allocate" ~> pc[c] \in {"check", "close"} \/ ~Alive

(***************************************************************************)
(* Stop returns once the clients are gone: acceptLoop, tunReadLoop and     *)
(* every handler notice the cancellation wherever they are                 *)
(* (server.go:426-441).                                                    *)
(***************************************************************************)
StopCompletesIfPeersLeave ==
    <>[](\A c \in Conns : ~peer[c]) => (CtxDone ~> phase = "stopped" \/ ~Alive)

(* "Stop stops the server" (server.go:425), whatever the clients do. *)
StopTerminates == CtxDone ~> phase = "stopped" \/ ~Alive
=============================================================================
