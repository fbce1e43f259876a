----------------------------- MODULE Transports -----------------------------
(***************************************************************************)
(* One connection of each transport (pkg/transport) with the packet format *)
(* on top of it (pkg/protocol/protocol.go): both ends write packets, and   *)
(* give what one Read returns to UnmarshalPacket, as handleConnection and  *)
(* receiveLoop do.                                                         *)
(*                                                                         *)
(* The bytes an end is sent are one stream, in which every packet has a    *)
(* place.  A WebSocket message is a packet; a QUIC stream has no marks in  *)
(* it; the obfuscated transport puts a length of four bytes before every   *)
(* packet and XORs both with a key that goes round.  A byte reads as it    *)
(* was written when the key position of the reader equals the writer's:    *)
(* the key has the same, pairwise different bytes at both ends (SetKey,    *)
(* "must match on client and server").  Payloads are ciphertext; that one  *)
(* looks like a header is left out.                                        *)
(***************************************************************************)
EXTENDS Integers, Sequences

CONSTANTS
    Kinds,        \* transports: "websocket", "quic", "obfuscated"
    Writers,      \* goroutines of an end that write
    Sizes,        \* payload lengths
    MaxPackets,   \* bound on the packets written to an end
    HeaderSize,   \* 14
    ReadBuf,      \* length of the buffer given to Read, 4096
    KeyLens,      \* key lengths; 32 unless SetKey is used
    MaxGarbled    \* bound on the lengths a garbled prefix can decode to

LenSize == 4          \* bytes of the length prefix
LenMod  == 65536      \* Length is a uint16
MaxRead == 65535      \* the largest length Read accepts; callers write about 2100

ASSUME TransportAssumption ==
    /\ Kinds \subseteq {"websocket", "quic", "obfuscated"}
    /\ HeaderSize \in Nat \ {0}
    /\ \A s \in Sizes : s \in Nat /\ HeaderSize + s <= MaxRead
    /\ MaxPackets \in Nat /\ MaxGarbled \in Nat
    /\ ReadBuf \in Nat \ {0}
    /\ KeyLens \subseteq Nat \ {0}

Ends == {"client", "server"}
Peer(e) == IF e = "client" THEN "server" ELSE "client"

VARIABLES
    kind, keyLen,
    pkts,       \* pkts[d]: packets written to d: place in the stream, size, key position
    at,         \* at[d]: bytes of its stream that d has taken
    got,        \* got[d]: what UnmarshalPacket accepted at d: place and length
    keyPos,     \* keyPos[e]: c.keyPos of end e
    writing,    \* writing[e][w]: the obfuscating Write goroutine w is in, if any
    reading,    \* reading[d]: the obfuscating Read that has its length, if any
    collided,   \* an end began to write while something else was under way
    closed      \* a Read returned an error, and the connection was closed

vars == <<kind, keyLen, pkts, at, got, keyPos, writing, reading, collided, closed>>

NoOp == [size |-> -1, pos |-> -1, stored |-> FALSE]   \* no Write under way
NoRead == -1

Init ==
    /\ kind \in Kinds /\ keyLen \in KeyLens
    /\ pkts = [d \in Ends |-> <<>>]
    /\ at = [d \in Ends |-> 0]
    /\ got = [d \in Ends |-> {}]
    /\ keyPos = [e \in Ends |-> 0]
    /\ writing = [e \in Ends |-> [w \in Writers |-> NoOp]]
    /\ reading = [d \in Ends |-> NoRead]
    /\ collided = FALSE
    /\ closed = FALSE

-----------------------------------------------------------------------------
(* Packets and their places *)

Overhead == IF kind = "obfuscated" THEN LenSize ELSE 0

Total(p) == HeaderSize + p.size
Body(p)  == p.start + Overhead       \* where the header of p begins
End(p)   == Body(p) + Total(p)

(* Where the stream to d ends. *)
Written(d) == IF pkts[d] = <<>> THEN 0 ELSE End(pkts[d][Len(pkts[d])])

Smaller(m, n) == IF m <= n THEN m ELSE n

(* NewPacket and Marshal: the Length field of the header of p. *)
LengthField(p) == p.size % LenMod

(* A slip: the length is not validated. *)
UnmarshalsUnchecked(d, from, n, clear) ==
    clear /\ n >= HeaderSize /\ \E i \in DOMAIN pkts[d] : Body(pkts[d][i]) = from

(* UnmarshalPacket accepts the n bytes that begin at from. *)
Unmarshals(d, from, n, clear) ==
    /\ clear
    /\ n >= HeaderSize
    /\ \E i \in DOMAIN pkts[d] :
          /\ Body(pkts[d][i]) = from
          /\ LengthField(pkts[d][i]) = n - HeaderSize

(* A Read that returns n bytes; what does not parse is skipped. *)
Handle(d, from, n, clear) ==
    got' = IF Unmarshals(d, from, n, clear)
             THEN [got EXCEPT ![d] = @ \cup {<<from, n>>}] ELSE got

PutOnWire(d, s, pos) ==
    pkts' = [pkts EXCEPT ![d] = Append(@, [start |-> Written(d), size |-> s, pos |-> pos])]

-----------------------------------------------------------------------------
(* WebSocket and QUIC *)

(* WriteMessage, or the stream's Write: the whole packet at once. *)
Write(e, s) ==
    /\ kind \in {"websocket", "quic"}
    /\ Len(pkts[Peer(e)]) < MaxPackets
    /\ PutOnWire(Peer(e), s, 0)
    /\ UNCHANGED <<kind, keyLen, at, got, keyPos, writing, reading, collided, closed>>

(* A slip: what is left of a message is read together with the next one. *)
WebSocketReadJoins(d) ==
    /\ kind = "websocket"
    /\ at[d] < Written(d)
    /\ LET n == Smaller(ReadBuf, Written(d) - at[d])
       IN  at' = [at EXCEPT ![d] = @ + n] /\ Handle(d, at[d], n, TRUE)
    /\ UNCHANGED <<kind, keyLen, pkts, keyPos, writing, reading, collided, closed>>

(* A slip: only the newest message is kept for the next Read. *)
WebSocketReadNewest(d) ==
    /\ kind = "websocket"
    /\ at[d] < Written(d)
    /\ LET p == pkts[d][Len(pkts[d])]
       IN  Handle(d, p.start, Smaller(ReadBuf, Total(p)), TRUE)
    /\ at' = [at EXCEPT ![d] = Written(d)]
    /\ UNCHANGED <<kind, keyLen, pkts, keyPos, writing, reading, collided, closed>>

(* One message, or what readBuf still holds of the last one. *)
WebSocketRead(d) ==
    /\ kind = "websocket"
    /\ \E i \in DOMAIN pkts[d] :
          /\ pkts[d][i].start <= at[d] /\ at[d] < End(pkts[d][i])
          /\ LET n == Smaller(ReadBuf, End(pkts[d][i]) - at[d])
             IN  at' = [at EXCEPT ![d] = @ + n] /\ Handle(d, at[d], n, TRUE)
    /\ UNCHANGED <<kind, keyLen, pkts, keyPos, writing, reading, collided, closed>>

(* Whatever the stream has: part of a packet, or several. *)
QUICRead(d) ==
    /\ kind = "quic"
    /\ \E n \in 1 .. Smaller(ReadBuf, Written(d) - at[d]) :
          at' = [at EXCEPT ![d] = @ + n] /\ Handle(d, at[d], n, TRUE)
    /\ UNCHANGED <<kind, keyLen, pkts, keyPos, writing, reading, collided, closed>>

-----------------------------------------------------------------------------
(* The obfuscated transport.  keyPos is shared by all Reads and Writes of  *)
(* an end, with no lock.                                                   *)

(* A slip: the key does not go round. *)
MovedOn(pos, n) == pos + n

(* obfuscate, over n bytes. *)
Moved(pos, n) == (pos + n) % keyLen

Idle(e) == \A w \in Writers : writing[e][w] = NoOp

(* e has read all that was sent to it, and nobody is inside Write. *)
MyTurn(e) ==
    /\ at[e] = Written(e) /\ reading[e] = NoRead
    /\ \A f \in Ends : Idle(f)

(* Whether two key positions may be equal, or may differ.  Once a Write     *)
(* can have raced with a Read or another Write, c.keyPos can be anything.  *)
MayAgree(p, q)  == collided \/ p = q
MayDiffer(p, q) == collided \/ p # q

(* tempKeyPos := c.keyPos *)
ObfsWriteBegin(e, w, s) ==
    /\ kind = "obfuscated" /\ ~closed
    /\ writing[e][w] = NoOp
    /\ Len(pkts[Peer(e)]) < MaxPackets
    /\ writing' = [writing EXCEPT ![e][w] = [size |-> s, pos |-> keyPos[e], stored |-> FALSE]]
    /\ collided' = (collided \/ ~MyTurn(e))
    /\ UNCHANGED <<kind, keyLen, pkts, at, got, keyPos, reading, closed>>

(* c.keyPos = tempKeyPos, past the prefix and the packet. *)
ObfsWriteStore(e, w) ==
    /\ ~closed
    /\ writing[e][w] # NoOp /\ ~writing[e][w].stored
    /\ keyPos' = [keyPos EXCEPT ![e] =
                     Moved(writing[e][w].pos, LenSize + HeaderSize + writing[e][w].size)]
    /\ writing' = [writing EXCEPT ![e][w].stored = TRUE]
    /\ UNCHANGED <<kind, keyLen, pkts, at, got, reading, collided, closed>>

(* A slip: the packet is obfuscated from the position already moved on. *)
ObfsWriteSendMovedOn(e, w) ==
    /\ ~closed
    /\ writing[e][w].stored
    /\ Len(pkts[Peer(e)]) < MaxPackets
    /\ PutOnWire(Peer(e), writing[e][w].size, keyPos[e])
    /\ writing' = [writing EXCEPT ![e][w] = NoOp]
    /\ UNCHANGED <<kind, keyLen, at, got, keyPos, reading, collided, closed>>

(* c.conn.Write(packet) *)
ObfsWriteSend(e, w) ==
    /\ ~closed
    /\ writing[e][w].stored
    /\ Len(pkts[Peer(e)]) < MaxPackets
    /\ PutOnWire(Peer(e), writing[e][w].size, writing[e][w].pos)
    /\ writing' = [writing EXCEPT ![e][w] = NoOp]
    /\ UNCHANGED <<kind, keyLen, at, got, keyPos, reading, collided, closed>>

(* The first ReadFull and the length, decoded without moving c.keyPos: the *)
(* packet's, or, garbled, any length or an error.                          *)
ObfsReadPrefix(d) ==
    /\ kind = "obfuscated" /\ ~closed
    /\ reading[d] = NoRead
    /\ at[d] + LenSize <= Written(d)
    /\ \/ \E i \in DOMAIN pkts[d] :
             /\ pkts[d][i].start = at[d] /\ MayAgree(pkts[d][i].pos, keyPos[d])
             /\ reading' = [reading EXCEPT ![d] = Total(pkts[d][i])]
             /\ UNCHANGED closed
       \/ /\ \A i \in DOMAIN pkts[d] :
                pkts[d][i].start = at[d] => MayDiffer(pkts[d][i].pos, keyPos[d])
          /\ \/ closed' = TRUE /\ UNCHANGED reading
             \/ /\ \E n \in 0 .. MaxGarbled : reading' = [reading EXCEPT ![d] = n]
                /\ UNCHANGED closed
    /\ UNCHANGED <<kind, keyLen, pkts, at, got, keyPos, writing, collided>>

(* The second ReadFull.  The packet was XORed with the key from pos+4 on   *)
(* and is decoded with the key from c.keyPos on; what does not fit in the  *)
(* caller's buffer is lost.                                                *)
ObfsReadData(d) ==
    /\ ~closed
    /\ reading[d] # NoRead
    /\ at[d] + LenSize + reading[d] <= Written(d)
    /\ at' = [at EXCEPT ![d] = @ + LenSize + reading[d]]
    /\ keyPos' = [keyPos EXCEPT ![d] = Moved(@, reading[d])]
    /\ reading' = [reading EXCEPT ![d] = NoRead]
    /\ \/ Handle(d, at[d] + LenSize, Smaller(ReadBuf, reading[d]),
                 \E i \in DOMAIN pkts[d] :
                     /\ pkts[d][i].start = at[d]
                     /\ MayAgree(Moved(pkts[d][i].pos, LenSize), keyPos[d]))
       \/ collided /\ UNCHANGED got
    /\ UNCHANGED <<kind, keyLen, pkts, writing, collided, closed>>

-----------------------------------------------------------------------------

Next ==
    \E e \in Ends :
        \/ \E s \in Sizes : Write(e, s)
        \/ WebSocketRead(e) \/ QUICRead(e)
        \/ \E w \in Writers :
              \/ \E s \in Sizes : ObfsWriteBegin(e, w, s)
              \/ ObfsWriteStore(e, w) \/ ObfsWriteSend(e, w)
        \/ ObfsReadPrefix(e) \/ ObfsReadData(e)

Spec == Init /\ [][Next]_vars

-----------------------------------------------------------------------------
(* Properties *)

Packet == [start : Nat, size : Sizes, pos : Nat]

TypeOK ==
    /\ kind \in Kinds /\ keyLen \in KeyLens
    /\ pkts \in [Ends -> Seq(Packet)]
    /\ at \in [Ends -> Nat]
    /\ got \in [Ends -> SUBSET (Nat \X Nat)]
    /\ \A d \in Ends : at[d] <= Written(d)
    /\ keyPos \in [Ends -> 0 .. keyLen - 1]
    /\ writing \in [Ends -> [Writers ->
          {NoOp} \cup [size : Sizes, pos : 0 .. keyLen - 1, stored : BOOLEAN]]]
    /\ reading \in [Ends -> {NoRead} \cup Nat]
    /\ collided \in BOOLEAN /\ closed \in BOOLEAN

(* Packet i of d was handed on, exactly as it was sent. *)
Arrived(d, i) == <<Body(pkts[d][i]), Total(pkts[d][i])>> \in got[d]

(* Number of the packet that occupies exactly these bytes, 0 if none does. *)
Number(d, bytes) ==
    LET whole == {i \in DOMAIN pkts[d] : bytes = <<Body(pkts[d][i]), Total(pkts[d][i])>>}
    IN  IF whole = {} THEN 0 ELSE CHOOSE i \in whole : TRUE

Channel == INSTANCE PacketChannel WITH
    sent      <- [d \in Ends |-> Len(pkts[d])],
    delivered <- [d \in Ends |-> {Number(d, b) : b \in got[d]}]

(***************************************************************************)
(* However a stream is cut into Reads, by whichever transport, and however *)
(* the key positions drift: what gets past UnmarshalPacket is a packet     *)
(* that was sent, whole, in order and once (protocol.go:103-138).          *)
(***************************************************************************)
ImplementsPacketChannel == Channel!Spec

(* A packet that fits the caller's buffer arrives once its bytes are taken. *)
FittingArrive ==
    \A d \in Ends : \A i \in DOMAIN pkts[d] :
        End(pkts[d][i]) <= at[d] /\ Total(pkts[d][i]) <= ReadBuf => Arrived(d, i)

(***************************************************************************)
(* Over WebSocket no packet that fits is lost: one too long for the buffer *)
(* takes several Reads, and the rest of it never spills into the packet    *)
(* behind it (websocket.go:118-141).                                       *)
(***************************************************************************)
WebSocketReliable == kind = "websocket" => FittingArrive

(* Number of the last packet of d that was handed on, 0 before the first. *)
LastDelivered(d) ==
    CHOOSE k \in 0 .. Len(pkts[d]) :
        /\ k = 0 \/ Arrived(d, k)
        /\ \A j \in DOMAIN pkts[d] : j > k => ~Arrived(d, j)

(* What was sent behind it. *)
Pending(d) ==
    [i \in 1 .. (Len(pkts[d]) - LastDelivered(d)) |-> pkts[d][LastDelivered(d) + i].size]

(* All that was sent to d fits the buffer it gives to Read. *)
AllFit(d) == \A i \in DOMAIN pkts[d] : Total(pkts[d][i]) <= ReadBuf

Queue == INSTANCE PacketQueue WITH
    Conns <- Ends, Packets <- Sizes,
    link  <- [d \in Ends |-> IF kind # "websocket" THEN "none"
                             ELSE IF AllFit(d) THEN "open" ELSE "lost"],
    queue <- [d \in Ends |-> IF kind = "websocket" /\ AllFit(d) THEN Pending(d) ELSE <<>>]

(***************************************************************************)
(* A WebSocket connection is, to server and client, a queue of packets     *)
(* until one is sent that does not fit the reader's buffer: what           *)
(* UnmarshalPacket hands on next is the packet that was sent behind the    *)
(* last one, and none is left out (websocket.go:118-141 below              *)
(* protocol.go:103-138).                                                   *)
(***************************************************************************)
ImplementsPacketQueue == Queue!Spec

(***************************************************************************)
(* The first packet over the obfuscated transport to an end that has       *)
(* itself written nothing, which is what HandshakeInit is to the server:   *)
(* when its bytes have been taken it was handed on if and only if the key  *)
(* length divides the four bytes of the length prefix, which Write counts  *)
(* in keyPos and Read does not.  With the 32 bytes of the code (obfs.go:36)*)
(* no handshake gets through, against obfs.go:105, "Read reads and         *)
(* de-obfuscates data" (obfs.go:105-145).                                  *)
(***************************************************************************)
ObfsFirstPacket ==
    \A d \in Ends :
        (/\ kind = "obfuscated" /\ ~collided
         /\ pkts[Peer(d)] = <<>> /\ Idle(d)
         /\ pkts[d] # <<>> /\ End(pkts[d][1]) <= at[d]
         /\ Total(pkts[d][1]) <= ReadBuf)
            => (Arrived(d, 1) <=> LenSize % keyLen = 0)
=============================================================================
