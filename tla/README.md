# HydraVPN in TLA+

A verification project for HydraVPN: TLA+ modules of the server, the client,
the transports, the TUN device and the tunnel they form together, TLC runs on
small instances, and theorems checked by TLAPS for every value of the
constants.  `PROJECT.json` lists the runs, the source lines behind every
definition, the hazards and the findings.

## 1. The system

| Part | State | Operations | Talks to |
|---|---|---|---|
| IP pool (`server.go`, `IPPool`) | set of addresses in use, cursor | `Allocate`, `Release` | called by every `handleConnection` |
| Server (`server.go`) | session table under `sessionsMu`, context, wait group | `Start`, `Stop`, `acceptLoop`, `handleConnection`, `tunReadLoop` | pool, transport, TUN |
| WebSocket transport (`websocket.go`) | `connChan`, `closeChan`; `readBuf` of a connection | `Listen` with its upgrade handler, `Accept`, `Dial`, `Read`, `Write`, `Close` | server and client |
| Client (`client.go`) | `conn`, `tunDevice`, `connected`, context, wait group | `Connect`, `performHandshake`, `tunReadLoop`, `receiveLoop`, `keepaliveLoop`, `handleDisconnect`, `reconnectLoop`, `Disconnect` | transport, TUN |
| TUN device (`tun.go`) | saved gateway, saved DNS; the machine's routes and DNS | `New`, `SetDefaultRoute`, `SetDNS`, `Close` | runs `route`, `ip`, `networksetup` |
| Command line (`main.go`) | - | `runServer`, `runClient` with its deferred `Disconnect` | server, client |
| QUIC transport (`quic.go`) | a stream without packet boundaries | as WebSocket | server and client |
| Obfuscated transport (`obfs.go`) | `keyPos`, shared by both directions of an end | as WebSocket | server and client |
| Packet codec (`protocol.go`) | - | `Marshal`, `UnmarshalPacket` and the handshake messages | server and client, on what one `Read` returns |
| Crypto (`crypto.go`) | key pair per process, two keys per session | `ComputeSharedSecret`, `DeriveSessionKeys`, `Encrypt`, `Decrypt` | server and client |

What is hard here:

* **Concurrency.**  One goroutine per client, one for the TUN device and one
  that accepts share the session table and the pool; the client's three loops
  and its reconnection share unlocked fields.  A loop that blocks keeps using
  the connection it took from a field, whatever the field holds by then.
* **Failure.**  Peers vanish or go silent, writes succeed on dead sockets, and
  each of a dozen external commands may fail.
* **Ordering.**  The session is published before the handshake response, the
  table entry is deleted before the address is released, and routes must change
  in an order that never sends the tunnel's packets into the tunnel.
* **Staying in step.**  The two ends of a tunnel must agree on keys and addresses
  through lost connections, restarts of the server and addresses that go from one
  client to the next; the two ends of an obfuscated connection must agree on a
  key position that every `Read` and `Write` moves.
* **Waiting.**  `Stop` and `Disconnect` wait for goroutines that are blocked in
  reads; the server holds a read lock while it writes to a client.

What makes the parts correct: the pool hands out only assignable addresses,
never one twice; an address belongs to one live handler, and traffic for it
reaches that handler only; whatever way a handler leaves, its entry and address
go; the client never reconnects twice at once nor gives up; `Stop`,
`Disconnect` and `Close` end and undo what was done; a connection hands on whole
packets, in order and once each; and what one end encrypts the other end of the
same handshake decrypts, and nobody else.

## 2. Modules

| Module | Models |
|---|---|
| `IPPool` | the address pool; an address is its host number |
| `AddressLease` | abstract: exclusive leases whose traffic is cut off before they end |
| `Server` | the server on its WebSocket listener; extends `IPPool`, refines `AddressLease` |
| `Client` | the client through any number of connections ("generations") |
| `TunDevice` | what TUN devices do to routes and DNS, command by command |
| `PacketChannel` | abstract: whole packets, in order, none twice, any of them lost |
| `PacketQueue` | abstract: a connection that loses nothing until it breaks, what server and client take theirs to be |
| `Transports` | `Read` and `Write` of the three transports under the packet codec; refines `PacketChannel`, and over WebSocket `PacketQueue` |
| `Tunnel` | clients and server composed: handshakes, keys, addresses, traffic; extends `IPPool` |
| `MCServer`, `MCTunnel` | model values, symmetry and function-valued constants for TLC |
| `IPPoolProofs`, `ServerProofs`, `ClientProofs`, `TransportsProofs`, `TunnelProofs`, `TunDeviceProofs` | theorems and proofs of the module named |
| `ObfsProofs` | the first packet over the obfuscated transport; extends `TransportsProofs` |
| `WebSocketQueueProofs` | a WebSocket connection is a `PacketQueue`; extends `TransportsProofs` |

Operators whose comment begins with "A slip" are variants of the definition
that follows them.  Each contains a plausible mistake and is used to confirm
that a property would notice it; no specification uses them.

**IPPool.**  `used` and `nextHost` are the fields.  The mutex is held through
`Allocate` and `Release`, so each is one step.  The loop is the set of its
iterations (`Probes`), `HostNum` is the candidate of an iteration with the
code's modulus and clamp, and the first free one is taken.

**Server.** Every goroutine has a program counter, and a step runs from one
point where it can block, or where another goroutine can see a difference, to
the next. `pc[c]` follows `handleConnection` from `hello` (first `Read`) via
`allocate`, `register`, `respond` into the loop `check`/`read`/`keepalive` and
out through the deferred calls `unregister`, `release`, `close`. `phase` follows
`Start` and `Stop`; the listener's `Close` is two steps, since between
`close(closeChan)` (`StopListener`) and the closing of the HTTP server and the
TCP listener (`StopHTTP`) connections can still come in. The table is
`sessions`; `rlocked` is the read lock of `tunReadLoop`, held across `Write`. A
write succeeds, blocks when the client has `SendBuf` packets unread, or fails
once the peer is gone; it may also still succeed on a peer that is gone. Packets
are abstracted to what the handler does with them. Clients are unconstrained. A
connection slot is reused when its handler has returned. `ConcurrentWritePanic`
is the library's panic on two simultaneous writers. If two sessions draw the
same ID, the table entry is overwritten as in the code; `FreshIDs` excludes that
where a property needs it.

**Client.**  A generation is a dialled connection with its TUN device and its
loops.  A connector is a goroutine in `Connect` or `reconnectLoop`; connector 1
is main's.  `conn`, `tunDev`, `connected` are the fields, `tat`, `rat`, `kat`
what a loop took from them before it blocked.  `handleDisconnect` is one step
because it runs under `connMu`.  The process ends after a panic or after a
failed first `Connect`.  What `SetDefaultRoute` and `Close` do to the machine is
the single variable `routed` here and a module of its own in `TunDevice`.

**TunDevice.**  Each command is a step and may fail, those of `Close` too, whose
errors nobody looks at.  Routes are the set of default gateways, where
macOS keeps one and Linux prefers the lower metric, and the route to the VPN
server.  A lookup such as `getDefaultGateway` is abstracted to the value it
parses, including the fall-back to "Wi-Fi" for an interface that is not a
hardware port.  `Unset` is the empty string of a field that was never set.  A
reconnection creates a second device and leaves the first one open, as `Connect`
does.  `failed` records the commands that failed though nothing was in their
way, for the properties that speak of them, `raced` that `Close` met a
reconnection under way.

**Transports.**  All packets sent to an end form one stream, and `at` says how
far it has been read.  `WebSocketRead` returns one message or what `readBuf`
holds of it, `QUICRead` whatever is there.  The obfuscated transport is cut where
its code leaves a window: `ObfsWriteBegin`, `Store`, `Send` take, store and use
the key position, `ObfsReadPrefix` and `ObfsReadData` are the two `ReadFull`s.
That a byte decodes is the equality of two key positions; that key bytes differ
pairwise is assumed.  After an unsynchronised access (`collided`) any position is
possible, as the race leaves it undefined.  `Handle` is `UnmarshalPacket` on what
one `Read` returned; a packet is accepted exactly when the bytes begin with a
header and its 16-bit length equals the rest.

**Tunnel.** The steps of `Client` and `Server` are made larger where the other
side cannot tell, which is justified by properties of those modules: one
connector per client (`OneConnector`), the table entry and the address as one
(`ImplementsAddressLease`). A connection is taken to be a queue in each
direction until it breaks, which `ImplementsPacketQueue` says of the transport
and the codec; that it may break at any time is external. Kept are the windows
that matter: `tunReadLoop` encrypts with `cryptoSession` and then writes to
whatever `conn` is, `receiveLoop` reads from one connection and decrypts with
the keys of another, loops survive their connection. A session key is the pair
of key pairs it was derived from and its direction; key pairs belong to
processes, and `Restart` begins a new server process with an empty pool. What a
client's TUN device delivers may be any packet with any addresses: neither
`tunReadLoop` nor the server looks at them, so they are not in the model.
`inbox`, `undecrypted` and `misfit` record what came of packets.

## 3. Runs

| Run | Instance | Shows |
|---|---|---|
| `server_safety` | 3 connections, 2 addresses, symmetry | exclusive, exact and routed addresses, clean stop, `AddressLease` |
| `server_live` | 2 connections, 1 address, fairness | addresses come back, handshakes complete, `Stop` ends when peers leave |
| `client_cli` | one generation, fairness, no reconnection (as the CLI) | `Disconnect` returns and leaves nothing; a loss is noticed |
| `client_auto` | two generations, `AutoReconnect` | one reconnection at a time, never none |
| `tun` | two devices, both systems, both roles, any command failing | what `Close` leaves of the routes; DNS restored; the only causes of a routing loop |
| `transports` | 2 packets each way, short and too long | whole packets in order (`PacketChannel`); nothing that fits is lost over WebSocket, which is a queue of packets (`PacketQueue`); when a first obfuscated packet arrives |
| `tunnel` | 2 clients, one reconnects, 2 addresses, a server restart | agreement of keys, addresses and devices, addresses apart, own traffic only, the pool under this use |
| `server_first` | violation | data can overtake the handshake response |
| `server_stop` | violation | one silent client blocks `Stop` for ever |
| `client_final` | violation | a reconnection completes after `Disconnect` |
| `client_panic` | violation | a panic outside main skips the clean-up |
| `tunnel_keys` | violation | the sessions of a client with one server process share their keys |

Deadlock is not checked: a stopped server, a disconnected client and a closed
device are meant to do nothing more.

**Bounds.** Two addresses for three connections make the pool exhausted, reuse
an address and let every pair of handlers meet while a third holds on; `Backlog
= 1` and `SendBuf = 1` make the queue and the socket full. With two connections
and one address `server_live` has the competition for the address and the lock.
Two generations are what it takes for the loops of a lost connection to meet the
next one; a third adds no new pair. `Transports` has a header of 2 bytes and a
buffer of 5, so that the packet of size 0 fits and the one of size 5 takes two
Reads; key lengths 4 and 5 are one that divides the length prefix and one that
does not, 32 is the code's, and a garbled length is 0 or 1 (`MaxGarbled`), which
already shifts every later Read. With two packets each way (`MaxPackets`) one
follows another in either order of sizes, and two that fit may wait at once.
`Tunnel` has 5 host numbers, that is the addresses 2 and 3: with three
connections they run out and change hands. `MaxGen` is 2 for one client and 1
for the other, `MaxEpoch` 2 is one restart, `MaxTraffic` 2 are two packets taken
in, on either side and at any time, after which the loops run on. `MaxDevs` 2 is
a device and the one of a reconnection. The safety results are also proved
without these bounds (section 4).

**Fairness.**  `Server!FairSpec`: the Go scheduler runs what can run (weak
fairness).  A goroutine waiting for `sessionsMu` gets it, since `RWMutex` holds
back later readers, and one in `Write` gets the room the client makes, hence
strong fairness for these.  `PeerDrain` is fair because the client's
`receiveLoop` keeps reading; this is an assumption about clients, and without it
a client that neither reads nor leaves blocks the server through the read lock.
No client is assumed to send or leave, nor the operator to stop the server.
`Client!FairSpec`: the loops and `Disconnect` run; a `Write` ends because the
server's handler reads every packet; the ticker ticks; neither the server nor
the TUN device is assumed to send.

`Transports`, `Tunnel` and `TunDevice` state no fairness: nothing in them is
required to happen, and none of their properties needs it.

**Limits the properties record.**  Some properties are as strong as the code
allows and no stronger; what they except is a limit of the code.

* `ExhaustedUpToLast`: the pool reports exhaustion also when the address handed
  out last is free, unless that is .2 (`server.go:82-83`).
* `RoutesAfterClose` says exactly what `Close` leaves.  On Linux the machine's
  default routes are back whatever failed, since they were never removed.  On
  macOS `Close` deletes the default route whatever it is and puts back only a
  gateway that was saved (`tun.go:231-245`): not on a server, which saves none,
  not after a failed lookup, and not after a reconnection, whose device saved the
  VPN as the original gateway (`client.go:142`, `tun.go:162`).  A route to the
  server that the user had is removed as well.  That is not what `tun.go:217`
  says, "RemoveDefaultRoute restores original routing": it is a finding that needs
  no counterexample, as the property is an equivalence.
* `DNSRestored` excepts settings that could not be read or set back, and devices
  that a reconnection left open, which are never closed.  It does not say that the
  service changed is the one in use.
* `LoopCauses`: when packets to the server enter the VPN, the route to it could
  not be added; or `Close` removed that route although it had failed to delete the
  VPN's default route, or had put one back; or `Close` met a `Connect` under way.
  `tun.go:206` says "Ignore error if exists" of the first, but the code goes on
  whatever the error; `ip route add` takes no host name, for one.
* `ObfsFirstPacket`: `Write` counts the length prefix in `keyPos` and `Read` does
  not, so the first packet to an end that has written nothing arrives exactly if
  the key length divides 4.  With the 32-byte key of the code (`obfs.go:36`) it
  never does, and no handshake gets through, although `obfs.go:105` says "Read
  reads and de-obfuscates data": the other finding that an equivalence shows.
  What happens later on such a connection, in both directions and with several
  writers, has no property but `ImplementsPacketChannel`: nothing wrong is handed
  on.
* `UndecryptedAreOfAnotherServer`: stale loops that mix two connections of one
  client lose no packets, because the sessions of one client with one server
  process share their keys: key pairs are made in `New` (`client.go:64`,
  `server.go:127`) and session keys derived from them alone. That is not what
  `README.md:107` of the repository promises, "Perfect Forward Secrecy: New keys
  per session"; `NewKeysPerSession` is the finding. With new keys per session
  this property would fail.
* The server does not compare the source of a packet with its session, nor the
  client what its device delivers, so nothing is claimed of the source addresses
  of traffic.  `HandshakeAgreement` covers the address of a device that was made
  for the connection.  After a reconnection that cannot make one, as on Linux while
  the earlier device has the name, the client goes on with the device, and the
  address, of an earlier connection, which may be another client's by then;
  `client.go:140` says of this case "Running in tunnel-only mode".
* `FirstHandshakeUndisturbed`: from the second connection on an old
  `tunReadLoop` can send data before the `HandshakeInit`, which makes the server
  close the connection, and an old `receiveLoop` can take the response, for which
  `Connect` then waits without end.
* Over QUIC nothing but `PacketChannel` holds: packets that a `Read` cuts or joins
  are lost.

## 4. Proofs

TLAPS proves the following for every value of the constants under the named
assumptions of the modules (`MaxHostsAssumption`: a subnet of at least four
host numbers; `ServerAssumption`, `ClientAssumption`: the types of the
constants; `TransportAssumption`: those of the transports and that packets are
shorter than 65536 bytes, as `Read` of the obfuscated transport demands and
their senders keep to; `TunnelAssumption`: the types of the bounds).

* `IPPoolProofs`: `PoolTypeCorrect`, `PoolExhaustion`, `PoolRoundRobin`. The key
  lemma says which candidate each iteration tries before and after the
  wrap-around, so that every address except the last one handed out is tried, in
  cyclic order; that one is not tried, unless it is .2 (`LastNotTried`,
  `TwoTried`), which makes `ExhaustedUpToLast` an equivalence. That a non-empty
  set of iterations has a first one uses well-foundedness of the naturals.
* `ServerProofs`: `TypeCorrect`, `AddressSafety`, `PoolSafety`, `RoutingSafety`,
  `StopSafety`, `ReachableAlways`, `LeaseRefinement`, `PoolRefinement`,
  `PoolPromises`.  The inductive invariant adds to the
  properties: a connection is queued exactly when its counter says so
  (`BacklogQueued`); which local variables a handler has set (`HandlerData`);
  every table entry belongs to a handler in service that drew this ID
  (`SessionsOwned`), without which a deletion could not be attributed; the
  connection being written to is in the table and the lock is held
  (`LockHeld`); and nothing is left once the waits are over (`Quiesced`).
  `AddressSafety` to `StopSafety` hold even if session IDs collide;
  `ReachableAlways` and `LeaseRefinement` need `FreshIDs`.  `PoolRefinement` says
  that the handlers use the pool as `PoolSpec` allows, releasing only what they
  hold (`PoolExact`), so that the theorems about the pool hold of the server.
* `ClientProofs`: `TypeCorrect`, `SingleConnector`, `NeverGivesUp`,
  `ReceiverWatches`, `DisconnectCleans`. The inductive invariant adds that each
  reconnection was paid for by a connection that had been dialled
  (`StartedBound`), that a connector past `Dial` knows its generation
  (`HasGen`), that only `Disconnect` cancels the context, after main's `Connect`
  is over (`CancelledByMain`), and the stronger form `Trying` of `RetryAlive`
  that includes the first `Connect`. `DisconnectCleans` is for `AutoReconnect =
  FALSE`, the case in which it holds: `OneGeneration` says that every field
  refers to the one connection or to nothing, `Undone` what each step of
  `Disconnect` has undone, and that no loop can undo it.
* `TransportsProofs`: `TypeCorrect`, `ChannelInvariant`, `ChannelRefinement`,
  `WebSocketDelivers`, for all three transports at once.  A step writes a packet,
  takes bytes or does neither (`StepShapes`), whatever the transport, and the
  refinement depends on nothing else.  The inductive invariant says that packets
  lie one behind the other (`Ordered`) and that what was handed on is a packet
  whose bytes have all been read (`DeliveredWhole`); with it the next packet
  handed on lies behind all the earlier ones, so that its number is higher.
  `WebSocketDelivers` adds that a `Read` never stops inside a packet that fits
  (`NotInside`) and that only the obfuscated transport has a `Read` in two parts
  (`OneRead`).
* `WebSocketQueueProofs`: `WebSocketIsQueue`. A WebSocket connection is a queue
  as long as all packets sent on it fit the reader's buffer (`AllFit`: 4096
  bytes in the code, which sends about 2100 at most); a longer one is taken for
  the break of the queue, as it is never handed on. What is pending is defined
  by the last packet handed on, so it has to be shown that those handed on are
  always the first ones (`InOrder`): a packet is handed on when its bytes are
  taken and not before (`ArrivedTaken`), and a `Read` begins where the first
  pending packet begins and ends where it ends.
* `ObfsProofs`: `FirstPacketInvariant`, `FirstPacketArrival`, for every key
  length.  While only one end has written, and one packet at a time, the key
  position of the other end has been moved by nobody, so that the first packet is
  written with the key from its first byte on (`FirstWritten`) and the `Read` that
  takes it starts there too (`FirstRead`): the prefix decodes, and the data, four
  bytes further on for the writer but not for the reader, decodes exactly if the
  key length divides 4.  Whether it was handed on does not change later.
* `TunDeviceProofs`: `TunInvariant`, `TypeCorrect`, `RoutesComeBack`,
  `DNSComesBack`, `LoopsExplained`, for any number of devices and whichever
  commands fail, of set-up or of `Close`.  `Close` acts on
  what it finds, so the inductive invariant says what the machine can look like
  for every point that the devices' set-up and `Close` have reached: which fields
  are set by then (`FieldsFollowSetUp`), that nothing is under way once `Close`
  runs alone (`CloseKnowsItsDevice`), that a saved gateway is the machine's or the
  VPN (`MachineRoutesKnown`), what each step of `Close` has put back
  (`RoutesInClose`), that changed DNS servers are remembered by the device that
  changed them (`DNSKnown`), and that, before `Close` is past the removal of the
  route to the server, the VPN has a default route only with that route in place
  or known to have failed (`HostRouteKept`).
* `TunnelProofs`: `TunnelInvariant`, `TypeCorrect`, `HandshakeSafety`,
  `DecryptionSafety`, `TrafficSafety`, `FirstHandshakeSafety`,
  `AddressOwnership`, `ClientsStayApart`, `PoolPromises`, for any number of
  clients, connections, server processes, packets and addresses. The properties
  speak of what came of the packets, so the inductive invariant says what can be
  in each queue (`UpInv`, `DownInv`), in the hands of each loop (`TLoopInv`,
  `RLoopInv`) and in the fields of a client (`ConnectInv`, `DeviceInv`): only
  addresses that connections of this client were given (`Served`) and keys of
  this client (`FromClient`, `ToClient`). These only grow (`ServedGrows`,
  `KeysStay`, `HandlersKeep`), so that what an old loop holds stays covered. A
  handler answers once (`NoResponse`, `Answered`), which is why no loop of the
  first connection can find a response to take. `OwnersInv` adds that the
  handlers in service hold different addresses and the pool exactly these; with
  `HandshakeAgreement` it keeps clients apart, and with it a step of the system
  is a step of the pool or the empty pool of a new server process.

So every invariant that a passing run checks is proved, and all refinements
and `RoundRobin`.  Only model-checked are the liveness properties
`PeerGoneFreesAddress`, `HandshakeCompletes`, `StopCompletesIfPeersLeave`,
`DisconnectReturns` and `LossIsNoticed`: they need fairness and with it ENABLED,
which is out of the prover's reach.  The findings of the
violation runs are counterexamples and have nothing to prove; the other two follow
from `ObfsFirstPacket` and `RoutesAfterClose`, which are proved.

## 5. Not modelled, and the plan

* `Dial`, `Listen` and `Accept` of QUIC: what they do is the library's doing.
  `Accept` waits for the first stream of one connection while others queue
  (`quic.go:122`), which a model of the library's connections would show.
* The certificates: `New` of server and client passes no TLS configuration
  (`server.go:136,140`), so as the program is put together `tls.Listen` refuses
  the obfuscated listener and QUIC handshakes have no certificate.  `Transports`
  takes these transports as their package offers them, with a configuration and a
  common key.
* Nonces and the cipher: a nonce is a counter with 16 random bytes and travels
  with the packet, and the primitives are library code; a packet decrypts if the
  keys are equal.
* In `Tunnel`: keep-alives, `Disconnect`, `Stop` and session IDs, which are in
  `Client` and `Server`; the address of the server's own device.
* The transport interface, flags, logging and the deployment scripts have no
  behaviour to check.

Next: a model of the QUIC listener.
