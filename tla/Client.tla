------------------------------- MODULE Client -------------------------------
(***************************************************************************)
(* The VPN client (pkg/client/client.go) as cmd/hydra/main.go drives it:   *)
(* Connect once, then Disconnect.                                          *)
(*                                                                         *)
(* Goroutines: main, the three loops that every successful Connect starts  *)
(* (tunReadLoop, receiveLoop, keepaliveLoop) and, if AutoReconnect is set, *)
(* a reconnectLoop per noticed loss, which calls Connect again.  They      *)
(* share the fields conn, tunDevice and connected; only connected is       *)
(* guarded by a lock.  A loop that blocks keeps the connection or device   *)
(* it read from the field, whatever the field holds later.                 *)
(*                                                                         *)
(* A generation is a connection that was dialled, with the TUN device and  *)
(* the loops of its Connect.  A connector is a goroutine inside Connect or *)
(* reconnectLoop: connector 1 is main's Connect.                           *)
(***************************************************************************)
EXTENDS Naturals

CONSTANTS AutoReconnect,   \* config.AutoReconnect; false for the CLI (main.go:116)
          MaxGen           \* bound on the connections that get dialled

ASSUME ClientAssumption == AutoReconnect \in BOOLEAN /\ MaxGen \in Nat \ {0}

(* Every loss starts at most one reconnectLoop, see OneConnector. *)
Gens       == 1 .. MaxGen
Connectors == 1 .. (MaxGen + 1)

VARIABLES
    mainPC,      \* program counter of main, in Connect or Disconnect
    cpc, cgen,   \* connectors: program counter, and the connection they dialled
    started,     \* connectors started so far
    dialled,     \* generations so far
    conn,        \* c.conn, 0 for nil
    tunDev,      \* c.tunDevice, 0 for nil
    connected,   \* c.connected
    ctxDone,     \* c.cancel() has been called
    link,        \* link[g]: the connection of generation g
    dev,         \* dev[g]: the TUN device of generation g
    routed,      \* the system's default route goes through the VPN
    tpc, tat,    \* tunReadLoop: program counter, device or connection in use
    rpc, rat,    \* receiveLoop: program counter, connection in use
    kpc, kat,    \* keepaliveLoop: program counter, connection in use
    crashed      \* a goroutine panicked

connectVars == <<cpc, cgen, started, dialled>>
fieldVars   == <<conn, tunDev, connected, ctxDone>>
osVars      == <<dev, routed>>
tVars       == <<tpc, tat>>
rVars       == <<rpc, rat>>
kVars       == <<kpc, kat>>
vars        == <<mainPC, connectVars, fieldVars, link, osVars, tVars, rVars,
                 kVars, crashed>>

Init ==
    /\ mainPC = "connect"
    /\ cpc = [k \in Connectors |-> IF k = 1 THEN "dial" ELSE "off"]
    /\ cgen = [k \in Connectors |-> 0]
    /\ started = 1
    /\ dialled = 0
    /\ conn = 0 /\ tunDev = 0 /\ connected = FALSE /\ ctxDone = FALSE
    /\ link = [g \in Gens |-> "none"]
    /\ dev = [g \in Gens |-> "none"]
    /\ routed = FALSE
    /\ tpc = [g \in Gens |-> "off"] /\ tat = [g \in Gens |-> 0]
    /\ rpc = [g \in Gens |-> "off"] /\ rat = [g \in Gens |-> 0]
    /\ kpc = [g \in Gens |-> "off"] /\ kat = [g \in Gens |-> 0]
    /\ crashed = FALSE

-----------------------------------------------------------------------------
(* Shared pieces *)

(* A Write on connection g succeeds; a lost connection may not show yet. *)
WriteOK(g) == link[g] \in {"open", "lost"}

WriteErr(g) == link[g] \in {"lost", "closed"}

(* A slip: the flag is not tested. *)
HandleDisconnectTwice ==
    /\ connected' = FALSE
    /\ IF AutoReconnect
         THEN /\ cpc' = [cpc EXCEPT ![started + 1] = "check"]
              /\ started' = started + 1
         ELSE UNCHANGED <<cpc, started>>

(* A slip: no reconnectLoop is started. *)
HandleDisconnectGivesUp ==
    /\ connected' = FALSE
    /\ UNCHANGED <<cpc, started>>

(* handleDisconnect: the first to notice a loss starts a reconnectLoop. *)
HandleDisconnect ==
    /\ connected' = FALSE
    /\ IF connected /\ AutoReconnect
         THEN /\ cpc' = [cpc EXCEPT ![started + 1] = "check"]
              /\ started' = started + 1
         ELSE UNCHANGED <<cpc, started>>

CGoto(k, from, to) ==
    /\ cpc[k] = from
    /\ cpc' = [cpc EXCEPT ![k] = to]

(* Connect returns an error: main exits the process, reconnectLoop retries. *)
ConnectFails(k, from) ==
    /\ CGoto(k, from, IF k = 1 THEN "off" ELSE "check")
    /\ mainPC' = IF k = 1 THEN "exited" ELSE mainPC

-----------------------------------------------------------------------------
(* reconnectLoop and Connect *)

ReconnectCheck(k) ==
    /\ CGoto(k, "check", IF ctxDone THEN "off" ELSE "dial")
    /\ UNCHANGED <<mainPC, cgen, started, dialled, fieldVars, link, osVars,
                   tVars, rVars, kVars, crashed>>

DialFails(k) ==
    /\ ConnectFails(k, "dial")
    /\ UNCHANGED <<cgen, started, dialled, fieldVars, link, osVars, tVars,
                   rVars, kVars, crashed>>

(* Dial fails on a cancelled context. *)
Dial(k) ==
    /\ ~ctxDone
    /\ dialled < MaxGen
    /\ CGoto(k, "dial", "init")
    /\ dialled' = dialled + 1
    /\ cgen' = [cgen EXCEPT ![k] = dialled + 1]
    /\ conn' = dialled + 1
    /\ link' = [link EXCEPT ![dialled + 1] = "open"]
    /\ UNCHANGED <<mainPC, started, tunDev, connected, ctxDone, osVars,
                   tVars, rVars, kVars, crashed>>

(* performHandshake writes the HandshakeInit packet. *)
HandshakeSend(k) ==
    /\ CGoto(k, "init", "await")
    /\ WriteOK(conn)
    /\ UNCHANGED <<mainPC, cgen, started, dialled, fieldVars, link, osVars,
                   tVars, rVars, kVars, crashed>>

(* A write or read error, or a packet that is no valid HandshakeResponse:  *)
(* Connect closes the connection it dialled.                               *)
HandshakeFails(k) ==
    /\ \/ ConnectFails(k, "init") /\ link[conn] \in {"lost", "closed"}
       \/ ConnectFails(k, "await")
    /\ link' = [link EXCEPT ![cgen[k]] = "closed"]
    /\ UNCHANGED <<cgen, started, dialled, fieldVars, osVars, tVars,
                   rVars, kVars, crashed>>

HandshakeDone(k) ==
    /\ CGoto(k, "await", "tun")
    /\ link[conn] = "open"
    /\ UNCHANGED <<mainPC, cgen, started, dialled, fieldVars, link, osVars,
                   tVars, rVars, kVars, crashed>>

(* tun.New; on its error the client runs on, with the device it had. *)
TunNew(k) ==
    /\ \/ /\ CGoto(k, "tun", "route")
          /\ tunDev' = cgen[k]
          /\ dev' = [dev EXCEPT ![cgen[k]] = "open"]
       \/ /\ CGoto(k, "tun", "flag")
          /\ UNCHANGED <<tunDev, dev>>
    /\ UNCHANGED <<mainPC, cgen, started, dialled, conn, connected, ctxDone,
                   link, routed, tVars, rVars, kVars, crashed>>

(* SetDefaultRoute, which may fail, SetDNS and `go c.tunReadLoop()`. *)
TunRoute(k) ==
    /\ CGoto(k, "route", "flag")
    /\ routed' \in {routed, TRUE}
    /\ tpc' = [tpc EXCEPT ![cgen[k]] = "check"]
    /\ UNCHANGED <<mainPC, cgen, started, dialled, fieldVars, link, dev, tat,
                   rVars, kVars, crashed>>

SetConnected(k) ==
    /\ CGoto(k, "flag", "loops")
    /\ connected' = TRUE
    /\ UNCHANGED <<mainPC, cgen, started, dialled, conn, tunDev, ctxDone,
                   link, osVars, tVars, rVars, kVars, crashed>>

(* A slip: receiveLoop is not started. *)
StartLoopsNoReceiver(k) ==
    /\ CGoto(k, "loops", "off")
    /\ kpc' = [kpc EXCEPT ![cgen[k]] = "wait"]
    /\ mainPC' = IF k = 1 THEN "running" ELSE mainPC
    /\ UNCHANGED <<cgen, started, dialled, fieldVars, link, osVars, tVars,
                   rVars, kat, crashed>>

(* `go c.receiveLoop()`, `go c.keepaliveLoop()`, and Connect returns. *)
StartLoops(k) ==
    /\ CGoto(k, "loops", "off")
    /\ rpc' = [rpc EXCEPT ![cgen[k]] = "check"]
    /\ kpc' = [kpc EXCEPT ![cgen[k]] = "wait"]
    /\ mainPC' = IF k = 1 THEN "running" ELSE mainPC
    /\ UNCHANGED <<cgen, started, dialled, fieldVars, link, osVars, tVars,
                   rat, kat, crashed>>

-----------------------------------------------------------------------------
(* Disconnect, called by main *)

MainGoto(from, to) == mainPC = from /\ mainPC' = to

DisconnectFlag ==
    /\ MainGoto("running", "sending")
    /\ connected' = FALSE
    /\ UNCHANGED <<connectVars, conn, tunDev, ctxDone, link, osVars, tVars,
                   rVars, kVars, crashed>>

(* The Disconnect packet, its error ignored, then c.conn.Close(). *)
DisconnectConn ==
    /\ MainGoto("sending", "cancel")
    /\ link' = [link EXCEPT ![conn] = "closed"]
    /\ UNCHANGED <<connectVars, fieldVars, osVars, tVars, rVars, kVars, crashed>>

DisconnectCancel ==
    /\ MainGoto("cancel", "tun")
    /\ ctxDone' = TRUE
    /\ UNCHANGED <<connectVars, conn, tunDev, connected, link, osVars, tVars,
                   rVars, kVars, crashed>>

(* A slip: the device is left open. *)
DisconnectTunKept ==
    /\ MainGoto("tun", "wait")
    /\ UNCHANGED <<connectVars, fieldVars, link, osVars, tVars, rVars, kVars, crashed>>

(* tunDevice.Close removes the default route and closes the interface. *)
DisconnectTun ==
    /\ MainGoto("tun", "wait")
    /\ IF tunDev # 0
         THEN routed' = FALSE /\ dev' = [dev EXCEPT ![tunDev] = "closed"]
         ELSE UNCHANGED osVars
    /\ UNCHANGED <<connectVars, fieldVars, link, tVars, rVars, kVars, crashed>>

LoopsEnded ==
    \A g \in Gens : /\ tpc[g] \in {"off", "done"}
                    /\ rpc[g] \in {"off", "done"}
                    /\ kpc[g] \in {"off", "done"}

DisconnectWait ==
    /\ MainGoto("wait", "done")
    /\ LoopsEnded
    /\ UNCHANGED <<connectVars, fieldVars, link, osVars, tVars, rVars, kVars, crashed>>

-----------------------------------------------------------------------------
(* tunReadLoop *)

TCheck(g) ==
    /\ tpc[g] = "check"
    /\ IF ctxDone
         THEN tpc' = [tpc EXCEPT ![g] = "done"] /\ UNCHANGED tat
         ELSE tpc' = [tpc EXCEPT ![g] = "read"] /\ tat' = [tat EXCEPT ![g] = tunDev]
    /\ UNCHANGED <<mainPC, connectVars, fieldVars, link, osVars, rVars, kVars, crashed>>

(* The device was closed. *)
TReadError(g) ==
    /\ tpc[g] = "read"
    /\ dev[tat[g]] = "closed"
    /\ tpc' = [tpc EXCEPT ![g] = IF ctxDone THEN "done" ELSE "check"]
    /\ UNCHANGED <<mainPC, connectVars, fieldVars, link, osVars, tat, rVars,
                   kVars, crashed>>

(* A packet to send on whatever connection c.conn is by now. *)
TRead(g) ==
    /\ tpc[g] = "read"
    /\ dev[tat[g]] = "open"
    /\ tpc' = [tpc EXCEPT ![g] = "write"]
    /\ tat' = [tat EXCEPT ![g] = conn]
    /\ UNCHANGED <<mainPC, connectVars, fieldVars, link, osVars, rVars, kVars, crashed>>

TWrite(g) ==
    /\ tpc[g] = "write"
    /\ WriteOK(tat[g])
    /\ tpc' = [tpc EXCEPT ![g] = "check"]
    /\ UNCHANGED <<mainPC, connectVars, fieldVars, link, osVars, tat, rVars,
                   kVars, crashed>>

TWriteError(g) ==
    /\ tpc[g] = "write"
    /\ WriteErr(tat[g])
    /\ HandleDisconnect
    /\ tpc' = [tpc EXCEPT ![g] = "done"]
    /\ UNCHANGED <<mainPC, cgen, dialled, conn, tunDev, ctxDone, link, osVars,
                   tat, rVars, kVars, crashed>>

-----------------------------------------------------------------------------
(* receiveLoop *)

RCheck(g) ==
    /\ rpc[g] = "check"
    /\ IF ctxDone
         THEN rpc' = [rpc EXCEPT ![g] = "done"] /\ UNCHANGED rat
         ELSE rpc' = [rpc EXCEPT ![g] = "read"] /\ rat' = [rat EXCEPT ![g] = conn]
    /\ UNCHANGED <<mainPC, connectVars, fieldVars, link, osVars, tVars, kVars, crashed>>

(* Data, written to the TUN device, KeepAlive, or a packet that is skipped. *)
RPacket(g) ==
    /\ rpc[g] = "read"
    /\ link[rat[g]] = "open"
    /\ rpc' = [rpc EXCEPT ![g] = "check"]
    /\ UNCHANGED <<mainPC, connectVars, fieldVars, link, osVars, tVars, rat,
                   kVars, crashed>>

(* A Disconnect packet. *)
RDisconnect(g) ==
    /\ rpc[g] = "read"
    /\ link[rat[g]] = "open"
    /\ HandleDisconnect
    /\ rpc' = [rpc EXCEPT ![g] = "done"]
    /\ UNCHANGED <<mainPC, cgen, dialled, conn, tunDev, ctxDone, link, osVars,
                   tVars, rat, kVars, crashed>>

(* A slip: the loop ends without a word. *)
RReadErrorSilent(g) ==
    /\ rpc[g] = "read"
    /\ link[rat[g]] \in {"lost", "closed"}
    /\ rpc' = [rpc EXCEPT ![g] = "done"]
    /\ UNCHANGED <<mainPC, connectVars, fieldVars, link, osVars, tVars, rat,
                   kVars, crashed>>

RReadError(g) ==
    /\ rpc[g] = "read"
    /\ link[rat[g]] \in {"lost", "closed"}
    /\ IF ctxDone THEN UNCHANGED <<connected, cpc, started>> ELSE HandleDisconnect
    /\ rpc' = [rpc EXCEPT ![g] = "done"]
    /\ UNCHANGED <<mainPC, cgen, dialled, conn, tunDev, ctxDone, link, osVars,
                   tVars, rat, kVars, crashed>>

-----------------------------------------------------------------------------
(* keepaliveLoop *)

KCancelled(g) ==
    /\ kpc[g] = "wait"
    /\ ctxDone
    /\ kpc' = [kpc EXCEPT ![g] = "done"]
    /\ UNCHANGED <<mainPC, connectVars, fieldVars, link, osVars, tVars, rVars,
                   kat, crashed>>

KTick(g) ==
    /\ kpc[g] = "wait"
    /\ IF connected
         THEN kpc' = [kpc EXCEPT ![g] = "write"] /\ kat' = [kat EXCEPT ![g] = conn]
         ELSE kpc' = [kpc EXCEPT ![g] = "done"] /\ UNCHANGED kat
    /\ UNCHANGED <<mainPC, connectVars, fieldVars, link, osVars, tVars, rVars, crashed>>

KWrite(g) ==
    /\ kpc[g] = "write"
    /\ kpc' = [kpc EXCEPT ![g] = "wait"]
    /\ UNCHANGED <<mainPC, connectVars, fieldVars, link, osVars, tVars, rVars,
                   kat, crashed>>

-----------------------------------------------------------------------------
(* Environment *)

(* The server or the network drops connection g. *)
LinkLost(g) ==
    /\ link[g] = "open"
    /\ link' = [link EXCEPT ![g] = "lost"]
    /\ UNCHANGED <<mainPC, connectVars, fieldVars, osVars, tVars, rVars,
                   kVars, crashed>>

(* The goroutines that are inside Write of connection g. *)
Writers(g) ==
    {<<"t", h>> : h \in {x \in Gens : tpc[x] = "write" /\ tat[x] = g}}
    \cup {<<"k", h>> : h \in {x \in Gens : kpc[x] = "write" /\ kat[x] = g}}
    \cup {<<"c", k>> : k \in {x \in Connectors : cpc[x] = "init" /\ conn = g}}
    \cup {<<"main", 0>> : x \in {y \in {0} : mainPC = "sending" /\ conn = g}}

(* The WebSocket library panics when it notices two writers.  The recover  *)
(* in main.go:124 covers only main's own goroutine, and main is done with  *)
(* it once it is in Disconnect.                                            *)
ConcurrentWritePanic(g) ==
    /\ \E v, w \in Writers(g) : v # w
    /\ crashed' = TRUE
    /\ UNCHANGED <<mainPC, connectVars, fieldVars, link, osVars, tVars, rVars, kVars>>

-----------------------------------------------------------------------------

Connect(k) ==
    \/ ReconnectCheck(k) \/ DialFails(k) \/ Dial(k)
    \/ HandshakeSend(k) \/ HandshakeFails(k) \/ HandshakeDone(k)
    \/ TunNew(k) \/ TunRoute(k) \/ SetConnected(k) \/ StartLoops(k)

DisconnectSteps ==
    \/ DisconnectConn \/ DisconnectCancel \/ DisconnectTun \/ DisconnectWait

TunReadLoop(g) ==
    TCheck(g) \/ TReadError(g) \/ TRead(g) \/ TWrite(g) \/ TWriteError(g)

ReceiveLoop(g) == RCheck(g) \/ RPacket(g) \/ RDisconnect(g) \/ RReadError(g)

KeepaliveLoop(g) == KCancelled(g) \/ KTick(g) \/ KWrite(g)

Running == ~crashed /\ mainPC # "exited"

Next ==
    /\ Running
    /\ \/ \E k \in Connectors : Connect(k)
       \/ DisconnectFlag \/ DisconnectSteps
       \/ \E g \in Gens :
             \/ TunReadLoop(g) \/ ReceiveLoop(g) \/ KeepaliveLoop(g)
             \/ LinkLost(g) \/ ConcurrentWritePanic(g)

Spec == Init /\ [][Next]_vars

(***************************************************************************)
(* Goroutines that can run do.  A Write ends because the server's handler  *)
(* reads every packet (server.go:333); the ticker ticks.  Nothing makes    *)
(* the server or the TUN device send, or the user ask to disconnect.       *)
(***************************************************************************)
FairSpec ==
    /\ Spec
    /\ WF_vars(Running /\ DisconnectSteps)
    /\ \A k \in Connectors :
          WF_vars(Running /\ (TunNew(k) \/ TunRoute(k) \/ SetConnected(k) \/ StartLoops(k)))
    /\ \A g \in Gens :
          /\ WF_vars(Running /\ (TCheck(g) \/ TReadError(g) \/ TWrite(g) \/ TWriteError(g)))
          /\ WF_vars(Running /\ (RCheck(g) \/ RReadError(g)))
          /\ WF_vars(Running /\ KeepaliveLoop(g))

-----------------------------------------------------------------------------
(* Properties *)

TypeOK ==
    /\ mainPC \in {"connect", "running", "sending", "cancel", "tun", "wait",
                   "done", "exited"}
    /\ cpc \in [Connectors -> {"off", "check", "dial", "init", "await", "tun",
                               "route", "flag", "loops"}]
    /\ cgen \in [Connectors -> 0 .. MaxGen]
    /\ started \in Connectors
    /\ dialled \in 0 .. MaxGen
    /\ conn \in 0 .. MaxGen /\ tunDev \in 0 .. MaxGen
    /\ connected \in BOOLEAN /\ ctxDone \in BOOLEAN
    /\ link \in [Gens -> {"none", "open", "lost", "closed"}]
    /\ dev \in [Gens -> {"none", "open", "closed"}]
    /\ routed \in BOOLEAN
    /\ tpc \in [Gens -> {"off", "check", "read", "write", "done"}]
    /\ rpc \in [Gens -> {"off", "check", "read", "done"}]
    /\ kpc \in [Gens -> {"off", "wait", "write", "done"}]
    /\ tat \in [Gens -> 0 .. MaxGen]
    /\ rat \in [Gens -> 0 .. MaxGen]
    /\ kat \in [Gens -> 0 .. MaxGen]
    /\ crashed \in BOOLEAN

(* Connectors on their way to connected = true. *)
Connecting == {k \in Connectors : cpc[k] \notin {"off", "loops"}}

(***************************************************************************)
(* However many loops notice that a connection is gone, of whatever        *)
(* generation, at most one goroutine is trying to connect, and none while  *)
(* the client is connected (client.go:364-378).                            *)
(***************************************************************************)
OneConnector ==
    /\ \A j, k \in Connecting : j = k
    /\ connected => Connecting = {}

(***************************************************************************)
(* With AutoReconnect the client never gives up: as long as it was not     *)
(* told to disconnect it is connected or a connector is at work            *)
(* (client.go:375-399).                                                    *)
(***************************************************************************)
RetryAlive ==
    AutoReconnect /\ mainPC = "running" => connected \/ Connecting # {}

(***************************************************************************)
(* While the client says it is connected, a receiveLoop is reading or      *)
(* about to start: a loss cannot go unnoticed (client.go:163-169,294-302). *)
(***************************************************************************)
ReceiverAlive ==
    connected /\ ~ctxDone =>
        \/ \E g \in Gens : rpc[g] \in {"check", "read"}
        \/ \E k \in Connectors : cpc[k] = "loops"

(***************************************************************************)
(* When Disconnect has returned everything Connect made is undone: the     *)
(* connection and the device are closed, the default route is back and no  *)
(* loop runs (client.go:402-425), without AutoReconnect.                   *)
(***************************************************************************)
CleanDisconnect ==
    mainPC = "done" =>
        /\ ~connected
        /\ \A g \in Gens : link[g] \in {"none", "closed"} /\ dev[g] # "open"
        /\ ~routed
        /\ LoopsEnded

(* "Disconnect disconnects from the server" (client.go:401). *)
DisconnectIsFinal == mainPC = "done" => ~connected

(* "Ensure cleanup happens even on panic" (main.go:123). *)
PanicCleansUp == crashed => \A g \in Gens : dev[g] # "open"

(***************************************************************************)
(* Disconnect returns wherever the loops are when it is called: closing    *)
(* the connection and the device unblocks the ones it waits for            *)
(* (client.go:409-422).                                                    *)
(***************************************************************************)
DisconnectReturns == mainPC = "sending" ~> mainPC = "done" \/ crashed

(* A lost connection ends the connected state (client.go:294-302, 364-371). *)
LossIsNoticed ==
    \A g \in Gens :
        link[g] = "lost" /\ conn = g /\ connected ~> ~connected \/ crashed
=============================================================================
