-------------------------- MODULE TransportsProofs --------------------------
(***************************************************************************)
(* Proofs about Transports, for all packet sizes, buffer and key lengths   *)
(* and any number of packets and writing goroutines.  Every step writes a  *)
(* packet, takes bytes, or does neither (StepShapes); most of the          *)
(* invariant and the refinement of PacketChannel only depend on that.      *)
(***************************************************************************)
EXTENDS Transports, TLAPS

(* The packets of a stream lie one behind the other. *)
Ordered ==
    \A d \in Ends : \A i \in DOMAIN pkts[d] :
        /\ End(pkts[d][i]) <= Written(d)
        /\ \A j \in DOMAIN pkts[d] : i < j => End(pkts[d][i]) <= pkts[d][j].start

(* What was handed on is a packet whose bytes have all been taken. *)
DeliveredWhole ==
    \A d \in Ends : \A b \in got[d] : \E i \in DOMAIN pkts[d] :
        /\ b = <<Body(pkts[d][i]), Total(pkts[d][i])>>
        /\ End(pkts[d][i]) <= at[d]

(* A Read of a WebSocket connection never ends inside a packet that fits. *)
NotInside ==
    kind = "websocket" =>
        \A d \in Ends : \A i \in DOMAIN pkts[d] :
            Total(pkts[d][i]) <= ReadBuf =>
                at[d] <= pkts[d][i].start \/ End(pkts[d][i]) <= at[d]

ChannelInv == TypeOK /\ Ordered /\ DeliveredWhole

PutStep ==
    \E d \in Ends, s \in Sizes, pos \in 0 .. keyLen - 1 :
        PutOnWire(d, s, pos) /\ UNCHANGED <<kind, keyLen, at, got>>

TakeStep ==
    \E d \in Ends, from \in Nat, n \in Nat, m \in Nat :
        /\ at[d] <= from /\ from + n <= m /\ m <= Written(d)
        /\ at' = [at EXCEPT ![d] = m]
        /\ got' = got \/ Handle(d, from, n, TRUE)
        /\ UNCHANGED <<kind, keyLen, pkts>>

QuietStep == UNCHANGED <<kind, keyLen, pkts, at, got>>

-----------------------------------------------------------------------------
(* Numbers *)

LEMMA PacketFacts ==
    ASSUME TypeOK, NEW d \in Ends, NEW i \in DOMAIN pkts[d]
    PROVE  /\ pkts[d][i] \in Packet
           /\ pkts[d][i].start \in Nat /\ pkts[d][i].size \in Nat
           /\ Total(pkts[d][i]) \in Nat \ {0}
           /\ Total(pkts[d][i]) = HeaderSize + LengthField(pkts[d][i])
           /\ Body(pkts[d][i]) \in Nat /\ End(pkts[d][i]) \in Nat
           /\ Body(pkts[d][i]) = pkts[d][i].start + Overhead
           /\ End(pkts[d][i]) = Body(pkts[d][i]) + Total(pkts[d][i])
           /\ Overhead \in {0, 4}
  <1>1. pkts[d] \in Seq(Packet)
    BY DEF TypeOK
  <1>2. pkts[d][i] \in Packet
    BY <1>1
  <1>2a. pkts[d][i].start \in Nat /\ pkts[d][i].size \in Sizes
    BY <1>2 DEF Packet
  <1>3. /\ pkts[d][i].start \in Nat /\ pkts[d][i].size \in Nat
        /\ HeaderSize \in Nat \ {0} /\ HeaderSize + pkts[d][i].size <= 65535
    BY <1>2a, TransportAssumption DEF MaxRead
  <1>4. LengthField(pkts[d][i]) = pkts[d][i].size
    BY <1>3 DEF LengthField, LenMod
  <1>. QED BY <1>2, <1>3, <1>4 DEF Total, Body, End, Overhead, LenSize

LEMMA WrittenFacts ==
    ASSUME TypeOK, NEW d \in Ends
    PROVE  /\ Written(d) \in Nat /\ at[d] \in Nat /\ at[d] <= Written(d)
           /\ pkts[d] \in Seq(Packet) /\ Len(pkts[d]) \in Nat
           /\ DOMAIN pkts[d] = 1 .. Len(pkts[d])
  <1>1. /\ pkts[d] \in Seq(Packet) /\ Len(pkts[d]) \in Nat
        /\ DOMAIN pkts[d] = 1 .. Len(pkts[d])
    BY DEF TypeOK
  <1>2. CASE pkts[d] = <<>>
    BY <1>1, <1>2 DEF Written, TypeOK
  <1>3. CASE pkts[d] # <<>>
    <2>1. Len(pkts[d]) \in DOMAIN pkts[d]
      BY <1>1, <1>3
    <2>. QED BY <1>1, <1>3, <2>1, PacketFacts DEF Written, TypeOK
  <1>. QED BY <1>2, <1>3

-----------------------------------------------------------------------------
(* The shape of a step *)

LEMMA TakeShape ==
    ASSUME NEW d \in Ends, NEW from \in Nat, NEW n \in Nat, NEW m \in Nat,
           at[d] <= from, from + n <= m, m <= Written(d),
           at' = [at EXCEPT ![d] = m],
           got' = got \/ Handle(d, from, n, TRUE),
           UNCHANGED <<kind, keyLen, pkts>>
    PROVE  TakeStep
  BY DEF TakeStep

LEMMA ReadShapes ==
    ASSUME TypeOK, NEW d \in Ends,
           WebSocketRead(d) \/ QUICRead(d) \/ ObfsReadData(d), Ordered
    PROVE  TakeStep
  <1>. USE TransportAssumption
  <1>1. at[d] \in Nat /\ Written(d) \in Nat /\ at[d] <= Written(d)
    BY WrittenFacts
  <1>2. CASE WebSocketRead(d)
    <2>1. PICK i \in DOMAIN pkts[d] :
              /\ pkts[d][i].start <= at[d] /\ at[d] < End(pkts[d][i])
              /\ LET n == Smaller(ReadBuf, End(pkts[d][i]) - at[d])
                 IN  at' = [at EXCEPT ![d] = @ + n] /\ Handle(d, at[d], n, TRUE)
      BY <1>2 DEF WebSocketRead
    <2>. DEFINE n == Smaller(ReadBuf, End(pkts[d][i]) - at[d])
    <2>2. End(pkts[d][i]) \in Nat /\ End(pkts[d][i]) <= Written(d)
      BY PacketFacts DEF Ordered
    <2>3. n \in Nat /\ at[d] + n <= End(pkts[d][i])
      BY <1>1, <2>1, <2>2 DEF Smaller
    <2>4. at' = [at EXCEPT ![d] = at[d] + n] /\ Handle(d, at[d], n, TRUE)
      BY <2>1
    <2>5. UNCHANGED <<kind, keyLen, pkts>>
      BY <1>2 DEF WebSocketRead
    <2>. HIDE DEF n
    <2>6. at[d] + n \in Nat /\ at[d] + n <= Written(d)
      BY <1>1, <2>2, <2>3
    <2>7. at[d] <= at[d] /\ at[d] + n <= at[d] + n
      BY <1>1, <2>6
    <2>. QED BY <1>1, <2>3, <2>4, <2>5, <2>6, <2>7, TakeShape
  <1>3. CASE QUICRead(d)
    <2>1. PICK n \in 1 .. Smaller(ReadBuf, Written(d) - at[d]) :
              at' = [at EXCEPT ![d] = @ + n] /\ Handle(d, at[d], n, TRUE)
      BY <1>3 DEF QUICRead
    <2>2. n \in Nat /\ at[d] + n \in Nat /\ at[d] + n <= Written(d)
      BY <1>1, <2>1 DEF Smaller
    <2>3. UNCHANGED <<kind, keyLen, pkts>>
      BY <1>3 DEF QUICRead
    <2>4. at' = [at EXCEPT ![d] = at[d] + n]
      BY <2>1
    <2>5. at[d] <= at[d] /\ at[d] + n <= at[d] + n
      BY <1>1, <2>2
    <2>. QED BY <1>1, <2>1, <2>2, <2>3, <2>4, <2>5, TakeShape
  <1>4. CASE ObfsReadData(d)
    <2>. DEFINE from == at[d] + LenSize
                m    == at[d] + LenSize + reading[d]
                n    == Smaller(ReadBuf, reading[d])
    <2>1. reading[d] \in Nat
      BY <1>4 DEF ObfsReadData, TypeOK
    <2>2. from \in Nat /\ m \in Nat /\ n \in Nat /\ at[d] <= from /\ from + n <= m
      BY <1>1, <2>1 DEF LenSize, Smaller
    <2>3. m <= Written(d) /\ at' = [at EXCEPT ![d] = m] /\ UNCHANGED <<kind, keyLen, pkts>>
      BY <1>4, <1>1, <2>1 DEF ObfsReadData, LenSize
    <2>4. got' = got \/ Handle(d, from, n, TRUE)
      BY <1>4 DEF ObfsReadData, Handle, Unmarshals
    <2>. HIDE DEF from, m, n
    <2>. QED BY <2>2, <2>3, <2>4 DEF TakeStep
  <1>. QED BY <1>2, <1>3, <1>4

LEMMA WriteShapes ==
    ASSUME TypeOK, [Next]_vars,
           \A e \in Ends : ~WebSocketRead(e) /\ ~QUICRead(e) /\ ~ObfsReadData(e)
    PROVE  PutStep \/ QuietStep
  <1>1. CASE UNCHANGED vars
    BY <1>1 DEF vars, QuietStep
  <1>2. ASSUME NEW e \in Ends, NEW s \in Sizes, Write(e, s)
        PROVE  PutStep
    <2>1. Peer(e) \in Ends /\ 0 \in 0 .. keyLen - 1
      BY TransportAssumption DEF Peer, Ends, TypeOK
    <2>. QED BY <1>2, <2>1 DEF Write, PutStep
  <1>3. ASSUME NEW e \in Ends, NEW w \in Writers, ObfsWriteSend(e, w)
        PROVE  PutStep
    <2>1. Peer(e) \in Ends
      BY DEF Peer, Ends
    <2>2. writing[e][w].size \in Sizes /\ writing[e][w].pos \in 0 .. keyLen - 1
      BY <1>3 DEF ObfsWriteSend, TypeOK, NoOp
    <2>. QED BY <1>3, <2>1, <2>2 DEF ObfsWriteSend, PutStep
  <1>4. ASSUME NEW e \in Ends, NEW w \in Writers,
               (\E s \in Sizes : ObfsWriteBegin(e, w, s)) \/ ObfsWriteStore(e, w)
        PROVE  QuietStep
    BY <1>4 DEF ObfsWriteBegin, ObfsWriteStore, QuietStep
  <1>5. ASSUME NEW e \in Ends, ObfsReadPrefix(e)
        PROVE  QuietStep
    BY <1>5 DEF ObfsReadPrefix, QuietStep
  <1>. QED BY <1>1, <1>2, <1>3, <1>4, <1>5 DEF Next

LEMMA StepShapes ==
    ASSUME TypeOK, Ordered, [Next]_vars
    PROVE  PutStep \/ TakeStep \/ QuietStep
  BY ReadShapes, WriteShapes

-----------------------------------------------------------------------------
(* Types *)

(* Appending the next packet keeps the stream well typed. *)
LEMMA PutTypes ==
    ASSUME TypeOK, NEW d \in Ends, NEW s \in Sizes, NEW pos \in 0 .. keyLen - 1,
           PutOnWire(d, s, pos), UNCHANGED <<kind, keyLen>>
    PROVE  /\ pkts' \in [Ends -> Seq(Packet)]
           /\ pkts'[d] = Append(pkts[d], [start |-> Written(d), size |-> s, pos |-> pos])
           /\ \A e \in Ends : e # d => pkts'[e] = pkts[e]
           /\ Written(d)' = Written(d) + Overhead + HeaderSize + s
           /\ \A e \in Ends : e # d => Written(e)' = Written(e)
           /\ Overhead' = Overhead
  <1>. DEFINE p == [start |-> Written(d), size |-> s, pos |-> pos]
  <1>1. p \in Packet
    <2>1. Written(d) \in Nat /\ pos \in Nat
      BY WrittenFacts, TransportAssumption DEF TypeOK
    <2>. QED BY <2>1 DEF Packet
  <1>2. pkts \in [Ends -> Seq(Packet)] /\ pkts[d] \in Seq(Packet)
    BY DEF TypeOK
  <1>3. pkts' = [pkts EXCEPT ![d] = Append(pkts[d], p)]
    BY DEF PutOnWire
  <1>4. Append(pkts[d], p) \in Seq(Packet)
    BY <1>1, <1>2
  <1>5. /\ pkts' \in [Ends -> Seq(Packet)]
        /\ pkts'[d] = Append(pkts[d], p)
        /\ \A e \in Ends : e # d => pkts'[e] = pkts[e]
    BY <1>2, <1>3, <1>4
  <1>6. Overhead' = Overhead
    BY DEF Overhead
  <1>7. /\ pkts'[d] # <<>> /\ Len(pkts'[d]) = Len(pkts[d]) + 1
        /\ pkts'[d][Len(pkts[d]) + 1] = p
    BY <1>1, <1>2, <1>5
  <1>8. Written(d)' = Written(d) + Overhead + HeaderSize + s
    <2>. HIDE DEF p
    <2>1. Written(d)' = (p.start + Overhead) + (HeaderSize + p.size)
      BY <1>6, <1>7, <1>5, Len(pkts[d]) \in Nat DEF Written, End, Body, Total
    <2>2. p.start = Written(d) /\ p.size = s
      BY DEF p
    <2>3. Written(d) \in Nat /\ Overhead \in Nat /\ HeaderSize \in Nat /\ s \in Nat
      BY WrittenFacts, TransportAssumption DEF Overhead, LenSize
    <2>. QED BY <2>1, <2>2, <2>3
  <1>9. ASSUME NEW e \in Ends, e # d
        PROVE  Written(e)' = Written(e)
    BY <1>5, <1>6, <1>9 DEF Written, End, Body, Total
  <1>. QED BY <1>5, <1>6, <1>8, <1>9

LEMMA MovedType ==
    ASSUME keyLen \in Nat \ {0}, NEW pos \in Nat, NEW n \in Nat
    PROVE  Moved(pos, n) \in 0 .. keyLen - 1
  BY DEF Moved

(* The part of TypeOK that says how far the ends have read. *)
LEMMA StreamTypes ==
    ASSUME TypeOK, PutStep \/ TakeStep \/ QuietStep
    PROVE  /\ kind' \in Kinds /\ keyLen' \in KeyLens
           /\ pkts' \in [Ends -> Seq(Packet)]
           /\ at' \in [Ends -> Nat]
           /\ got' \in [Ends -> SUBSET (Nat \X Nat)]
           /\ \A d \in Ends : at'[d] <= Written(d)'
  <1>1. CASE PutStep
    <2>1. PICK d \in Ends, s \in Sizes, pos \in 0 .. keyLen - 1 :
              PutOnWire(d, s, pos) /\ UNCHANGED <<kind, keyLen, at, got>>
      BY <1>1 DEF PutStep
    <2>2. s \in Nat /\ HeaderSize \in Nat /\ Overhead \in Nat
      BY TransportAssumption DEF Overhead, LenSize
    <2>3. \A e \in Ends : Written(e) \in Nat /\ at[e] \in Nat /\ at[e] <= Written(e)
      BY WrittenFacts
    <2>4. ASSUME NEW e \in Ends
          PROVE  at[e] <= Written(e)'
      <3>1. CASE e = d
        <4>1. Written(d)' = Written(d) + Overhead + HeaderSize + s
          BY <2>1, PutTypes
        <4>. QED BY <2>2, <2>3, <3>1, <4>1
      <3>2. CASE e # d
        <4>1. Written(e)' = Written(e)
          BY <2>1, <3>2, PutTypes
        <4>. QED BY <2>3, <4>1
      <3>. QED BY <3>1, <3>2
    <2>5. pkts' \in [Ends -> Seq(Packet)]
      BY <2>1, PutTypes
    <2>. QED BY <2>1, <2>4, <2>5 DEF TypeOK
  <1>2. CASE TakeStep
    <2>1. PICK d \in Ends, from \in Nat, n \in Nat, m \in Nat :
              /\ at[d] <= from /\ from + n <= m /\ m <= Written(d)
              /\ at' = [at EXCEPT ![d] = m]
              /\ got' = got \/ Handle(d, from, n, TRUE)
              /\ UNCHANGED <<kind, keyLen, pkts>>
      BY <1>2 DEF TakeStep
    <2>2. \A e \in Ends : Written(e)' = Written(e)
      BY <2>1 DEF Written, End, Body, Total, Overhead
    <2>3. at' \in [Ends -> Nat] /\ \A e \in Ends : at'[e] <= Written(e)
      BY <2>1 DEF TypeOK
    <2>4. got' \in [Ends -> SUBSET (Nat \X Nat)]
      <3>1. <<from, n>> \in Nat \X Nat
        OBVIOUS
      <3>2. got[d] \cup {<<from, n>>} \in SUBSET (Nat \X Nat)
        BY <3>1 DEF TypeOK
      <3>3. got' \in {got, [got EXCEPT ![d] = got[d] \cup {<<from, n>>}]}
        BY <2>1 DEF Handle
      <3>. QED BY <3>2, <3>3 DEF TypeOK
    <2>. QED BY <2>1, <2>2, <2>3, <2>4 DEF TypeOK
  <1>3. CASE QuietStep
    <2>1. \A e \in Ends : Written(e)' = Written(e)
      BY <1>3 DEF QuietStep, Written, End, Body, Total, Overhead
    <2>. QED BY <1>3, <2>1 DEF QuietStep, TypeOK
  <1>. QED BY <1>1, <1>2, <1>3

(* The rest of TypeOK: key positions and the Reads and Writes under way. *)
LEMMA ControlTypes ==
    ASSUME TypeOK, [Next]_vars
    PROVE  /\ keyPos' \in [Ends -> 0 .. keyLen - 1]
           /\ writing' \in [Ends -> [Writers ->
                 {NoOp} \cup [size : Sizes, pos : 0 .. keyLen - 1, stored : BOOLEAN]]]
           /\ reading' \in [Ends -> {NoRead} \cup Nat]
           /\ collided' \in BOOLEAN /\ closed' \in BOOLEAN
           /\ keyLen' = keyLen
  <1>. DEFINE Op == [size : Sizes, pos : 0 .. keyLen - 1, stored : BOOLEAN]
              Rest == <<keyPos, writing, reading, collided, closed, keyLen>>
  <1>1. /\ keyLen \in Nat \ {0} /\ HeaderSize \in Nat
        /\ \A s \in Sizes : s \in Nat
        /\ keyPos \in [Ends -> 0 .. keyLen - 1]
        /\ writing \in [Ends -> [Writers -> {NoOp} \cup Op]]
        /\ reading \in [Ends -> {NoRead} \cup Nat]
        /\ collided \in BOOLEAN /\ closed \in BOOLEAN
    BY TransportAssumption DEF TypeOK
  <1>2. CASE UNCHANGED Rest
    BY <1>1, <1>2
  <1>3. ASSUME NEW e \in Ends, NEW w \in Writers, NEW s \in Sizes, ObfsWriteBegin(e, w, s)
        PROVE  writing' \in [Ends -> [Writers -> {NoOp} \cup Op]]
               /\ collided' \in BOOLEAN
               /\ UNCHANGED <<keyPos, reading, closed, keyLen>>
    <2>. DEFINE op == [size |-> s, pos |-> keyPos[e], stored |-> FALSE]
    <2>1. op \in Op
      BY <1>1
    <2>2. writing' = [writing EXCEPT ![e] = [writing[e] EXCEPT ![w] = op]]
      BY <1>1, <1>3 DEF ObfsWriteBegin
    <2>. HIDE DEF op, Op
    <2>3. writing' \in [Ends -> [Writers -> {NoOp} \cup Op]]
      BY <1>1, <2>1, <2>2
    <2>. QED BY <1>3, <2>3 DEF ObfsWriteBegin
  <1>4. ASSUME NEW e \in Ends, NEW w \in Writers, ObfsWriteStore(e, w)
        PROVE  /\ keyPos' \in [Ends -> 0 .. keyLen - 1]
               /\ writing' \in [Ends -> [Writers -> {NoOp} \cup Op]]
               /\ UNCHANGED <<reading, collided, closed, keyLen>>
    <2>1. writing[e][w] \in Op
      BY <1>1, <1>4 DEF ObfsWriteStore
    <2>2. [writing[e][w] EXCEPT !.stored = TRUE] \in Op
      BY <2>1
    <2>3. writing' = [writing EXCEPT ![e] =
                         [writing[e] EXCEPT ![w] = [writing[e][w] EXCEPT !.stored = TRUE]]]
      BY <1>1, <1>4 DEF ObfsWriteStore
    <2>4. /\ writing[e][w].pos \in Nat
          /\ LenSize + HeaderSize + writing[e][w].size \in Nat
      BY <1>1, <2>1 DEF LenSize
    <2>5. Moved(writing[e][w].pos, LenSize + HeaderSize + writing[e][w].size)
             \in 0 .. keyLen - 1
      BY <1>1, <2>4, MovedType
    <2>6. keyPos' \in [Ends -> 0 .. keyLen - 1]
      BY <1>1, <1>4, <2>5 DEF ObfsWriteStore
    <2>. HIDE DEF Op
    <2>7. writing' \in [Ends -> [Writers -> {NoOp} \cup Op]]
      BY <1>1, <2>2, <2>3
    <2>. QED BY <1>4, <2>6, <2>7 DEF ObfsWriteStore
  <1>5. ASSUME NEW e \in Ends, NEW w \in Writers, ObfsWriteSend(e, w)
        PROVE  /\ writing' \in [Ends -> [Writers -> {NoOp} \cup Op]]
               /\ UNCHANGED <<keyPos, reading, collided, closed, keyLen>>
    <2>1. writing' = [writing EXCEPT ![e] = [writing[e] EXCEPT ![w] = NoOp]]
      BY <1>1, <1>5 DEF ObfsWriteSend
    <2>. HIDE DEF Op
    <2>2. writing' \in [Ends -> [Writers -> {NoOp} \cup Op]]
      BY <1>1, <2>1
    <2>. QED BY <1>5, <2>2 DEF ObfsWriteSend
  <1>6. ASSUME NEW e \in Ends, ObfsReadPrefix(e)
        PROVE  /\ reading' \in [Ends -> {NoRead} \cup Nat]
               /\ closed' \in BOOLEAN
               /\ UNCHANGED <<keyPos, writing, collided, keyLen>>
    <2>1. \A i \in DOMAIN pkts[e] : Total(pkts[e][i]) \in Nat
      BY PacketFacts
    <2>2. \A n \in 0 .. MaxGarbled : n \in Nat
      BY TransportAssumption
    <2>. QED BY <1>1, <1>6, <2>1, <2>2 DEF ObfsReadPrefix
  <1>7. ASSUME NEW e \in Ends, ObfsReadData(e)
        PROVE  /\ keyPos' \in [Ends -> 0 .. keyLen - 1]
               /\ reading' \in [Ends -> {NoRead} \cup Nat]
               /\ UNCHANGED <<writing, collided, closed, keyLen>>
    <2>1. keyPos[e] \in Nat /\ reading[e] \in Nat
      BY <1>1, <1>7 DEF ObfsReadData
    <2>2. Moved(keyPos[e], reading[e]) \in 0 .. keyLen - 1
      BY <1>1, <2>1, MovedType
    <2>. QED BY <1>1, <1>7, <2>2 DEF ObfsReadData
  <1>8. ASSUME NEW e \in Ends,
               (\E s \in Sizes : Write(e, s)) \/ WebSocketRead(e) \/ QUICRead(e)
        PROVE  UNCHANGED Rest
    BY <1>8 DEF Write, WebSocketRead, QUICRead
  <1>9. CASE UNCHANGED vars
    BY <1>9, <1>2 DEF vars
  <1>. HIDE DEF Op, Rest
  <1>10. CASE Next
    <2>1. PICK e \in Ends :
            \/ (\E s \in Sizes : Write(e, s)) \/ WebSocketRead(e) \/ QUICRead(e)
            \/ \E w \in Writers :
                  \/ \E s \in Sizes : ObfsWriteBegin(e, w, s)
                  \/ ObfsWriteStore(e, w) \/ ObfsWriteSend(e, w)
            \/ ObfsReadPrefix(e) \/ ObfsReadData(e)
      BY <1>10 DEF Next
    <2>2. CASE (\E s \in Sizes : Write(e, s)) \/ WebSocketRead(e) \/ QUICRead(e)
      BY <1>2, <1>8, <2>2 DEF Op
    <2>3. CASE \E w \in Writers : \E s \in Sizes : ObfsWriteBegin(e, w, s)
      BY <1>1, <1>3, <2>3 DEF Op
    <2>4. CASE \E w \in Writers : ObfsWriteStore(e, w)
      BY <1>1, <1>4, <2>4 DEF Op
    <2>5. CASE \E w \in Writers : ObfsWriteSend(e, w)
      BY <1>1, <1>5, <2>5 DEF Op
    <2>6. CASE ObfsReadPrefix(e)
      BY <1>1, <1>6, <2>6 DEF Op
    <2>7. CASE ObfsReadData(e)
      BY <1>1, <1>7, <2>7 DEF Op
    <2>. QED BY <2>1, <2>2, <2>3, <2>4, <2>5, <2>6, <2>7
  <1>. QED BY <1>9, <1>10

LEMMA TypeInductive ==
    ASSUME TypeOK, Ordered, [Next]_vars
    PROVE  TypeOK'
  <1>1. PutStep \/ TakeStep \/ QuietStep
    BY StepShapes
  <1>. QED BY <1>1, StreamTypes, ControlTypes DEF TypeOK

LEMMA TypeInit == Init => TypeOK
  <1>. SUFFICES ASSUME Init PROVE TypeOK
    OBVIOUS
  <1>1. pkts = [d \in Ends |-> <<>>] /\ <<>> \in Seq(Packet)
    BY DEF Init
  <1>2. pkts \in [Ends -> Seq(Packet)]
    BY <1>1
  <1>3. \A d \in Ends : at[d] = 0 /\ Written(d) = 0
    BY <1>1 DEF Init, Written
  <1>4. keyLen \in Nat \ {0} /\ 0 \in 0 .. keyLen - 1
    BY TransportAssumption DEF Init
  <1>5. at \in [Ends -> Nat] /\ \A d \in Ends : at[d] <= Written(d)
    BY <1>3 DEF Init
  <1>6. keyPos \in [Ends -> 0 .. keyLen - 1]
    BY <1>4 DEF Init
  <1>7. writing \in [Ends -> [Writers ->
           {NoOp} \cup [size : Sizes, pos : 0 .. keyLen - 1, stored : BOOLEAN]]]
    BY DEF Init
  <1>8. /\ reading \in [Ends -> {NoRead} \cup Nat]
        /\ got \in [Ends -> SUBSET (Nat \X Nat)]
    BY DEF Init
  <1>. QED BY <1>2, <1>5, <1>6, <1>7, <1>8 DEF Init, TypeOK

-----------------------------------------------------------------------------
(* The order of the packets in a stream *)

(* A packet that is in the stream stays where it is; a new one begins at   *)
(* the old end of the stream and reaches to the new one.                   *)
LEMMA PutPlaces ==
    ASSUME TypeOK, NEW d \in Ends, NEW s \in Sizes, NEW pos \in 0 .. keyLen - 1,
           PutOnWire(d, s, pos), UNCHANGED <<kind, keyLen>>,
           NEW new, new = Len(pkts[d]) + 1
    PROVE  /\ \A e \in Ends : \A i \in DOMAIN pkts[e] :
                 /\ i \in DOMAIN pkts'[e] /\ pkts'[e][i] = pkts[e][i]
                 /\ Body(pkts[e][i])' = Body(pkts[e][i])
                 /\ Total(pkts[e][i])' = Total(pkts[e][i])
                 /\ End(pkts[e][i])' = End(pkts[e][i])
           /\ \A e \in Ends : \A i \in DOMAIN pkts'[e] :
                 i \in DOMAIN pkts[e] \/ (e = d /\ i = new)
           /\ pkts'[d][new].start = Written(d)
           /\ End(pkts[d][new])' = Written(d)'
  <1>. DEFINE p == [start |-> Written(d), size |-> s, pos |-> pos]
  <1>1. /\ pkts' \in [Ends -> Seq(Packet)] /\ Overhead' = Overhead
        /\ pkts'[d] = Append(pkts[d], p)
        /\ \A e \in Ends : e # d => pkts'[e] = pkts[e]
    BY PutTypes
  <1>2. \A e \in Ends : /\ pkts[e] \in Seq(Packet) /\ Len(pkts[e]) \in Nat
                        /\ DOMAIN pkts[e] = 1 .. Len(pkts[e])
    BY WrittenFacts
  <1>3. /\ DOMAIN pkts'[d] = 1 .. new /\ pkts'[d][new] = p
        /\ pkts'[d] # <<>> /\ Len(pkts'[d]) = new
        /\ \A i \in 1 .. Len(pkts[d]) : pkts'[d][i] = pkts[d][i]
    <2>. HIDE DEF p
    <2>. QED BY <1>1, <1>2
  <1>4. ASSUME NEW e \in Ends, NEW i \in DOMAIN pkts[e]
        PROVE  i \in DOMAIN pkts'[e] /\ pkts'[e][i] = pkts[e][i]
    <2>1. CASE e # d
      BY <1>1, <1>4, <2>1
    <2>2. CASE e = d
      <3>1. i \in 1 .. Len(pkts[d]) /\ Len(pkts[d]) \in Nat
        BY <1>2, <1>4, <2>2
      <3>2. i \in DOMAIN pkts'[d]
        BY <1>3, <3>1
      <3>3. pkts'[d][i] = pkts[d][i]
        BY <1>3, <3>1
      <3>. QED BY <2>2, <3>2, <3>3
    <2>. QED BY <2>1, <2>2
  <1>5. ASSUME NEW e \in Ends, NEW i \in DOMAIN pkts[e]
        PROVE  /\ Body(pkts[e][i])' = Body(pkts[e][i])
               /\ Total(pkts[e][i])' = Total(pkts[e][i])
               /\ End(pkts[e][i])' = End(pkts[e][i])
    BY <1>1, <1>4 DEF Body, Total, End
  <1>6. ASSUME NEW e \in Ends, NEW i \in DOMAIN pkts'[e]
        PROVE  i \in DOMAIN pkts[e] \/ (e = d /\ i = new)
    <2>1. CASE e # d
      BY <1>1, <1>6, <2>1
    <2>2. CASE e = d
      BY <1>2, <1>3, <1>6, <2>2
    <2>. QED BY <2>1, <2>2
  <1>7. pkts'[d][new].start = Written(d)
    BY <1>3
  <1>8. End(pkts[d][new])' = Written(d)'
    BY <1>3 DEF Written, End, Body, Total
  <1>. QED BY <1>4, <1>5, <1>6, <1>7, <1>8

(* Reading does not move packets. *)
LEMMA StillPlaces ==
    ASSUME UNCHANGED <<kind, pkts>>
    PROVE  /\ \A e \in Ends : Written(e)' = Written(e)
           /\ \A e \in Ends : \A i \in DOMAIN pkts[e] :
                 /\ Body(pkts[e][i])' = Body(pkts[e][i])
                 /\ Total(pkts[e][i])' = Total(pkts[e][i])
                 /\ End(pkts[e][i])' = End(pkts[e][i])
  BY DEF Written, End, Body, Total, Overhead

LEMMA OrderedInductive ==
    ASSUME TypeOK, Ordered, PutStep \/ TakeStep \/ QuietStep
    PROVE  Ordered'
  <1>1. CASE PutStep
    <2>1. PICK d \in Ends, s \in Sizes, pos \in 0 .. keyLen - 1 :
              PutOnWire(d, s, pos) /\ UNCHANGED <<kind, keyLen, at, got>>
      BY <1>1 DEF PutStep
    <2>. PICK new : new = Len(pkts[d]) + 1
      OBVIOUS
    <2>2. /\ \A e \in Ends : \A i \in DOMAIN pkts[e] :
                pkts'[e][i] = pkts[e][i] /\ End(pkts[e][i])' = End(pkts[e][i])
          /\ \A e \in Ends : \A i \in DOMAIN pkts'[e] :
                i \in DOMAIN pkts[e] \/ (e = d /\ i = new)
          /\ pkts'[d][new].start = Written(d)
          /\ End(pkts[d][new])' = Written(d)'
      BY <2>1, PutPlaces
    <2>3. \A e \in Ends : Written(e) \in Nat /\ DOMAIN pkts[e] = 1 .. Len(pkts[e])
                          /\ Len(pkts[e]) \in Nat
      BY WrittenFacts
    <2>4. \A e \in Ends : Written(e)' \in Nat /\ Written(e) <= Written(e)'
      <3>1. s \in Nat /\ HeaderSize \in Nat /\ Overhead \in Nat
        BY TransportAssumption DEF Overhead, LenSize
      <3>2. /\ Written(d)' = Written(d) + Overhead + HeaderSize + s
            /\ \A e \in Ends : e # d => Written(e)' = Written(e)
        BY <2>1, PutTypes
      <3>. QED BY <2>3, <3>1, <3>2
    <2>5. ASSUME NEW e \in Ends, NEW i \in DOMAIN pkts'[e]
          PROVE  End(pkts[e][i])' <= Written(e)'
      <3>1. CASE i \in DOMAIN pkts[e]
        <4>1. End(pkts[e][i]) <= Written(e) /\ End(pkts[e][i]) \in Nat
          BY <3>1, PacketFacts DEF Ordered
        <4>. QED BY <2>2, <2>3, <2>4, <3>1, <4>1
      <3>2. CASE e = d /\ i = new
        BY <2>2, <2>4, <3>2
      <3>. QED BY <2>2, <2>5, <3>1, <3>2
    <2>6. ASSUME NEW e \in Ends, NEW i \in DOMAIN pkts'[e], NEW j \in DOMAIN pkts'[e], i < j
          PROVE  End(pkts[e][i])' <= pkts'[e][j].start
      <3>1. i \in DOMAIN pkts[e]
        BY <2>2, <2>3, <2>6
      <3>2. CASE j \in DOMAIN pkts[e]
        BY <2>2, <2>6, <3>1, <3>2 DEF Ordered
      <3>3. CASE e = d /\ j = new
        BY <2>2, <3>1, <3>3 DEF Ordered
      <3>. QED BY <2>2, <2>6, <3>2, <3>3
    <2>. QED BY <2>5, <2>6 DEF Ordered
  <1>2. CASE TakeStep \/ QuietStep
    <2>1. UNCHANGED <<kind, pkts>>
      BY <1>2 DEF TakeStep, QuietStep
    <2>. QED BY <2>1, StillPlaces DEF Ordered
  <1>. QED BY <1>1, <1>2

LEMMA DeliveredInductive ==
    ASSUME ChannelInv, PutStep \/ TakeStep \/ QuietStep
    PROVE  DeliveredWhole'
  <1>. USE DEF ChannelInv
  <1>1. CASE PutStep
    <2>1. PICK d \in Ends, s \in Sizes, pos \in 0 .. keyLen - 1 :
              PutOnWire(d, s, pos) /\ UNCHANGED <<kind, keyLen, at, got>>
      BY <1>1 DEF PutStep
    <2>2. \A e \in Ends : \A i \in DOMAIN pkts[e] :
              /\ i \in DOMAIN pkts'[e]
              /\ Body(pkts[e][i])' = Body(pkts[e][i])
              /\ Total(pkts[e][i])' = Total(pkts[e][i])
              /\ End(pkts[e][i])' = End(pkts[e][i])
      BY <2>1, PutPlaces
    <2>. QED BY <2>1, <2>2 DEF DeliveredWhole
  <1>2. CASE TakeStep
    <2>1. PICK d \in Ends, from \in Nat, n \in Nat, m \in Nat :
              /\ at[d] <= from /\ from + n <= m /\ m <= Written(d)
              /\ at' = [at EXCEPT ![d] = m]
              /\ got' = got \/ Handle(d, from, n, TRUE)
              /\ UNCHANGED <<kind, keyLen, pkts>>
      BY <1>2 DEF TakeStep
    <2>2. \A e \in Ends : at[e] \in Nat /\ at'[e] \in Nat /\ at[e] <= at'[e] /\ at'[d] = m
      BY <2>1 DEF TypeOK
    <2>3. ASSUME NEW e \in Ends, NEW b \in got[e]
          PROVE  \E i \in DOMAIN pkts[e] :
                    b = <<Body(pkts[e][i]), Total(pkts[e][i])>> /\ End(pkts[e][i]) <= at'[e]
      <3>1. PICK i \in DOMAIN pkts[e] :
                b = <<Body(pkts[e][i]), Total(pkts[e][i])>> /\ End(pkts[e][i]) <= at[e]
        BY <2>3 DEF DeliveredWhole
      <3>2. End(pkts[e][i]) \in Nat
        BY PacketFacts
      <3>. QED BY <2>2, <3>1, <3>2
    <2>4. ASSUME Unmarshals(d, from, n, TRUE)
          PROVE  \E i \in DOMAIN pkts[d] :
                    <<from, n>> = <<Body(pkts[d][i]), Total(pkts[d][i])>>
                    /\ End(pkts[d][i]) <= at'[d]
      <3>1. PICK i \in DOMAIN pkts[d] :
                Body(pkts[d][i]) = from /\ LengthField(pkts[d][i]) = n - HeaderSize
        BY <2>4 DEF Unmarshals
      <3>2. LengthField(pkts[d][i]) \in Nat /\ HeaderSize \in Nat
        BY PacketFacts, TransportAssumption DEF LengthField, LenMod
      <3>3. Total(pkts[d][i]) = n
        BY <3>1, <3>2, PacketFacts
      <3>4. End(pkts[d][i]) = from + n
        BY <3>1, <3>3, PacketFacts
      <3>. QED BY <2>1, <2>2, <3>1, <3>3, <3>4
    <2>5. ASSUME NEW e \in Ends, NEW b \in got'[e]
          PROVE  \E i \in DOMAIN pkts[e] :
                    b = <<Body(pkts[e][i]), Total(pkts[e][i])>> /\ End(pkts[e][i]) <= at'[e]
      <3>1. b \in got[e] \/ (e = d /\ b = <<from, n>> /\ Unmarshals(d, from, n, TRUE))
        <4>1. CASE Unmarshals(d, from, n, TRUE)
          <5>1. got' = got \/ got' = [got EXCEPT ![d] = @ \cup {<<from, n>>}]
            BY <2>1, <4>1 DEF Handle
          <5>2. DOMAIN got = Ends
            BY DEF TypeOK
          <5>. QED BY <2>5, <4>1, <5>1, <5>2
        <4>2. CASE ~Unmarshals(d, from, n, TRUE)
          BY <2>1, <2>5, <4>2 DEF Handle
        <4>. QED BY <4>1, <4>2
      <3>. QED BY <2>3, <2>4, <3>1
    <2>. QED BY <2>1, <2>5, StillPlaces DEF DeliveredWhole
  <1>3. CASE QuietStep
    BY <1>3, StillPlaces DEF QuietStep, DeliveredWhole
  <1>. QED BY <1>1, <1>2, <1>3

-----------------------------------------------------------------------------
(* Theorems *)

(* Packets lie one behind the other, and what got past UnmarshalPacket is   *)
(* one whose bytes have all been read (protocol.go:103-138).               *)
THEOREM ChannelInvariant == Spec => []ChannelInv
  <1>1. Init => ChannelInv
    <2>1. Init => \A d \in Ends : got[d] = {} /\ DOMAIN pkts[d] = {}
      BY DEF Init
    <2>. QED BY <2>1, TypeInit DEF ChannelInv, Ordered, DeliveredWhole
  <1>2. ChannelInv /\ [Next]_vars => ChannelInv'
    BY TypeInductive, StepShapes, OrderedInductive, DeliveredInductive DEF ChannelInv
  <1>. QED BY <1>1, <1>2, PTL DEF Spec

(* Key positions stay inside the key (obfs.go:149-155), and no end has read *)
(* more than it was sent.                                                  *)
THEOREM TypeCorrect == Spec => []TypeOK
  <1>1. ChannelInv => TypeOK
    BY DEF ChannelInv
  <1>. QED BY <1>1, ChannelInvariant, PTL

-----------------------------------------------------------------------------
(* Transports implements PacketChannel *)

sentBar      == [d \in Ends |-> Len(pkts[d])]
deliveredBar == [d \in Ends |-> {Number(d, b) : b \in got[d]}]

(* No two packets occupy the same bytes. *)
NumbersUnique ==
    \A d \in Ends : \A i \in DOMAIN pkts[d] :
        Number(d, <<Body(pkts[d][i]), Total(pkts[d][i])>>) = i

LEMMA NumberUnique == TypeOK /\ Ordered => NumbersUnique
  <1>. SUFFICES ASSUME TypeOK, Ordered, NEW d \in Ends, NEW i \in DOMAIN pkts[d]
                PROVE  Number(d, <<Body(pkts[d][i]), Total(pkts[d][i])>>) = i
    BY DEF NumbersUnique
  <1>1. DOMAIN pkts[d] \subseteq Nat
    BY WrittenFacts
  <1>2. ASSUME NEW k \in DOMAIN pkts[d], NEW l \in DOMAIN pkts[d],
               Body(pkts[d][k]) = Body(pkts[d][l])
        PROVE  ~(k < l)
    <2>1. /\ Body(pkts[d][k]) \in Nat /\ End(pkts[d][k]) \in Nat
          /\ Body(pkts[d][k]) < End(pkts[d][k])
          /\ pkts[d][l].start \in Nat /\ pkts[d][l].start <= Body(pkts[d][l])
      BY PacketFacts
    <2>2. k < l => End(pkts[d][k]) <= pkts[d][l].start
      BY DEF Ordered
    <2>. QED BY <1>2, <2>1, <2>2
  <1>3. ASSUME NEW j \in DOMAIN pkts[d],
               <<Body(pkts[d][i]), Total(pkts[d][i])>> = <<Body(pkts[d][j]), Total(pkts[d][j])>>
        PROVE  j = i
    <2>1. Body(pkts[d][i]) = Body(pkts[d][j])
      BY <1>3
    <2>2. ~(i < j) /\ ~(j < i)
      BY <1>2, <2>1
    <2>. QED BY <1>1, <2>2
  <1>. DEFINE bytes == <<Body(pkts[d][i]), Total(pkts[d][i])>>
              whole == {j \in DOMAIN pkts[d] : bytes = <<Body(pkts[d][j]), Total(pkts[d][j])>>}
  <1>4. whole = {i}
    BY <1>3
  <1>5. Number(d, bytes) = IF whole = {} THEN 0 ELSE CHOOSE j \in whole : TRUE
    BY DEF Number
  <1>. HIDE DEF whole, bytes
  <1>6. Number(d, bytes) = i
    BY <1>4, <1>5
  <1>. QED BY <1>6 DEF bytes

LEMMA NumberUniqueNext == (TypeOK /\ Ordered => NumbersUnique)'
  BY NumberUnique, PTL

(* What was handed on keeps its number while packets are added. *)
LEMMA PutNumbers ==
    ASSUME ChannelInv, ChannelInv', PutStep
    PROVE  deliveredBar' = deliveredBar
  <1>. USE DEF ChannelInv
  <1>1. PICK d \in Ends, s \in Sizes, pos \in 0 .. keyLen - 1 :
            PutOnWire(d, s, pos) /\ UNCHANGED <<kind, keyLen, at, got>>
    BY DEF PutStep
  <1>2. PICK new : new = Len(pkts[d]) + 1
    OBVIOUS
  <1>3. \A e \in Ends : \A i \in DOMAIN pkts[e] :
            /\ i \in DOMAIN pkts'[e]
            /\ Body(pkts[e][i])' = Body(pkts[e][i])
            /\ Total(pkts[e][i])' = Total(pkts[e][i])
    BY <1>1, <1>2, PutPlaces
  <1>4. NumbersUnique'
    BY NumberUniqueNext
  <1>5. ASSUME NEW e \in Ends, NEW b \in got[e]
        PROVE  Number(e, b)' = Number(e, b)
    <2>1. PICK i \in DOMAIN pkts[e] : b = <<Body(pkts[e][i]), Total(pkts[e][i])>>
      BY DEF DeliveredWhole
    <2>2. Number(e, b) = i
      BY <2>1, NumberUnique DEF NumbersUnique
    <2>3. b = <<Body(pkts[e][i])', Total(pkts[e][i])'>> /\ i \in DOMAIN pkts'[e]
      BY <1>3, <2>1
    <2>4. Number(e, b)' = i
      BY <1>4, <2>3 DEF NumbersUnique
    <2>. QED BY <2>2, <2>4
  <1>6. \A e \in Ends : {Number(e, b)' : b \in got[e]} = {Number(e, b) : b \in got[e]}
    BY <1>5
  <1>. QED BY <1>1, <1>6 DEF deliveredBar

(* A Read that is accepted hands on a packet behind all the earlier ones. *)
LEMMA AcceptedIsNext ==
    ASSUME ChannelInv, NEW d \in Ends, NEW from \in Nat, NEW n \in Nat,
           at[d] <= from, Unmarshals(d, from, n, TRUE)
    PROVE  \E i \in 1 .. Len(pkts[d]) :
              /\ Number(d, <<from, n>>) = i
              /\ \A m \in deliveredBar[d] : m < i
  <1>. USE DEF ChannelInv
  <1>1. PICK i \in DOMAIN pkts[d] :
            Body(pkts[d][i]) = from /\ LengthField(pkts[d][i]) = n - HeaderSize
    BY DEF Unmarshals
  <1>2. DOMAIN pkts[d] = 1 .. Len(pkts[d]) /\ Len(pkts[d]) \in Nat /\ at[d] \in Nat
    BY WrittenFacts
  <1>3. LengthField(pkts[d][i]) \in Nat /\ HeaderSize \in Nat
    BY PacketFacts, TransportAssumption DEF LengthField, LenMod
  <1>4. Total(pkts[d][i]) = n
    BY <1>1, <1>3, PacketFacts
  <1>5. Number(d, <<from, n>>) = i
    BY <1>1, <1>4, NumberUnique DEF NumbersUnique
  <1>6. ASSUME NEW m \in deliveredBar[d]
        PROVE  m < i
    <2>1. PICK b \in got[d] : m = Number(d, b)
      BY DEF deliveredBar
    <2>2. PICK j \in DOMAIN pkts[d] :
              b = <<Body(pkts[d][j]), Total(pkts[d][j])>> /\ End(pkts[d][j]) <= at[d]
      BY DEF DeliveredWhole
    <2>3. m = j
      BY <2>1, <2>2, NumberUnique DEF NumbersUnique
    <2>4. /\ End(pkts[d][j]) \in Nat /\ End(pkts[d][i]) \in Nat
          /\ from < End(pkts[d][i]) /\ pkts[d][j].start \in Nat
          /\ pkts[d][j].start <= End(pkts[d][j])
      BY <1>1, PacketFacts
    <2>5. End(pkts[d][j]) <= from
      BY <1>2, <2>2, <2>4
    <2>6. j # i
      BY <2>4, <2>5
    <2>7. ~(i < j)
      <3>1. i < j => End(pkts[d][i]) <= pkts[d][j].start
        BY DEF Ordered
      <3>. QED BY <2>4, <2>5, <3>1
    <2>. QED BY <1>2, <2>3, <2>6, <2>7
  <1>. QED BY <1>2, <1>5, <1>6

(* The state of the channel after a step that writes nothing. *)
LEMMA TakeNumbers ==
    ASSUME UNCHANGED <<kind, pkts>>
    PROVE  /\ sentBar' = sentBar
           /\ \A e \in Ends : \A b : Number(e, b)' = Number(e, b)
  BY DEF sentBar, Number, Body, Total, Overhead

LEMMA ChannelStep ==
    ASSUME ChannelInv, ChannelInv', [Next]_vars
    PROVE  [Channel!Next]_(Channel!channelVars)
  <1>. USE DEF ChannelInv
  <1>1. CASE PutStep
    <2>1. PICK d \in Ends, s \in Sizes, pos \in 0 .. keyLen - 1 :
              PutOnWire(d, s, pos) /\ UNCHANGED <<kind, keyLen, at, got>>
      BY <1>1 DEF PutStep
    <2>2. sentBar' = [sentBar EXCEPT ![d] = @ + 1]
      <3>1. \A e \in Ends : pkts[e] \in Seq(Packet)
        BY DEF TypeOK
      <3>2. \A e \in Ends : Len(pkts'[e]) = IF e = d THEN Len(pkts[e]) + 1 ELSE Len(pkts[e])
        <4>1. ASSUME NEW e \in Ends, e = d
              PROVE  Len(pkts'[e]) = Len(pkts[e]) + 1
          <5>. DEFINE p == [start |-> Written(d), size |-> s, pos |-> pos]
          <5>1. pkts'[d] = Append(pkts[d], p)
            BY <2>1, PutTypes
          <5>. HIDE DEF p
          <5>. QED BY <3>1, <4>1, <5>1
        <4>2. ASSUME NEW e \in Ends, e # d
              PROVE  pkts'[e] = pkts[e]
          BY <2>1, <4>2, PutTypes
        <4>. QED BY <4>1, <4>2
      <3>. QED BY <3>2 DEF sentBar
    <2>3. deliveredBar' = deliveredBar
      BY <1>1, PutNumbers
    <2>4. Channel!Send(d)
      BY <2>2, <2>3 DEF Channel!Send, sentBar, deliveredBar
    <2>. QED BY <2>4 DEF Channel!Next
  <1>2. CASE TakeStep
    <2>1. PICK d \in Ends, from \in Nat, n \in Nat, m \in Nat :
              /\ at[d] <= from /\ from + n <= m /\ m <= Written(d)
              /\ at' = [at EXCEPT ![d] = m]
              /\ got' = got \/ Handle(d, from, n, TRUE)
              /\ UNCHANGED <<kind, keyLen, pkts>>
      BY <1>2 DEF TakeStep
    <2>2. sentBar' = sentBar /\ \A e \in Ends : \A b : Number(e, b)' = Number(e, b)
      BY <2>1, TakeNumbers
    <2>3. CASE got' = got
      <3>1. deliveredBar' = deliveredBar
        BY <2>2, <2>3 DEF deliveredBar
      <3>. QED BY <2>2, <3>1 DEF Channel!channelVars, sentBar, deliveredBar
    <2>4. CASE /\ Unmarshals(d, from, n, TRUE)
               /\ got' = [got EXCEPT ![d] = @ \cup {<<from, n>>}]
      <3>1. PICK i \in 1 .. Len(pkts[d]) :
                /\ Number(d, <<from, n>>) = i
                /\ \A k \in deliveredBar[d] : k < i
        BY <2>1, <2>4, AcceptedIsNext
      <3>2. got'[d] = got[d] \cup {<<from, n>>}
            /\ \A e \in Ends : e # d => got'[e] = got[e]
        BY <2>4 DEF TypeOK
      <3>3. /\ {Number(d, b)' : b \in got'[d]} = {Number(d, b) : b \in got[d]} \cup {i}
            /\ \A e \in Ends : e # d =>
                  {Number(e, b)' : b \in got'[e]} = {Number(e, b) : b \in got[e]}
        BY <2>2, <3>1, <3>2
      <3>4. deliveredBar' = [deliveredBar EXCEPT ![d] = @ \cup {i}]
        BY <3>3 DEF deliveredBar
      <3>5. i \in 1 .. sentBar[d]
        BY <3>1 DEF sentBar
      <3>6. Channel!Deliver(d, i)
        BY <2>2, <3>1, <3>4, <3>5 DEF Channel!Deliver, sentBar, deliveredBar
      <3>. QED BY <3>5, <3>6 DEF Channel!Next, sentBar
    <2>. QED BY <2>1, <2>3, <2>4 DEF Handle
  <1>3. CASE QuietStep
    <2>1. sentBar' = sentBar /\ \A e \in Ends : \A b : Number(e, b)' = Number(e, b)
      BY <1>3, TakeNumbers DEF QuietStep
    <2>2. deliveredBar' = deliveredBar
      BY <1>3, <2>1 DEF deliveredBar, QuietStep
    <2>. QED BY <2>1, <2>2 DEF Channel!channelVars, sentBar, deliveredBar
  <1>. QED BY <1>1, <1>2, <1>3, StepShapes

LEMMA ChannelInit == Init => Channel!Init
  <1>. SUFFICES ASSUME Init PROVE Channel!Init
    OBVIOUS
  <1>1. \A d \in Ends : pkts[d] = <<>> /\ Len(pkts[d]) = 0 /\ got[d] = {}
    BY DEF Init
  <1>2. \A d \in Ends : {Number(d, b) : b \in got[d]} = {}
    BY <1>1
  <1>. QED BY <1>1, <1>2 DEF Channel!Init

(* However the stream is cut into Reads and whatever happens to the key     *)
(* positions, UnmarshalPacket hands on whole packets, in order, once each   *)
(* (protocol.go:103-138 behind every transport's Read).                     *)
THEOREM ChannelRefinement == Spec => ImplementsPacketChannel
  <1>1. ChannelInv /\ ChannelInv' /\ [Next]_vars => [Channel!Next]_(Channel!channelVars)
    BY ChannelStep
  <1>. QED BY <1>1, ChannelInit, ChannelInvariant, PTL
           DEF Spec, ImplementsPacketChannel, Channel!Spec

-----------------------------------------------------------------------------
(* WebSocket loses nothing that fits *)

(* Only the obfuscated transport has a Read in two parts. *)
OneRead == kind = "obfuscated" \/ \A d \in Ends : reading[d] = NoRead

WebSocketInv == ChannelInv /\ OneRead /\ NotInside /\ WebSocketReliable

LEMMA OneReadInductive ==
    ASSUME TypeOK, OneRead, [Next]_vars
    PROVE  OneRead'
  <1>1. CASE UNCHANGED vars
    BY <1>1 DEF vars, OneRead
  <1>2. ASSUME NEW e \in Ends,
               \/ \E s \in Sizes : Write(e, s)
               \/ WebSocketRead(e) \/ QUICRead(e)
               \/ \E w \in Writers : \/ \E s \in Sizes : ObfsWriteBegin(e, w, s)
                                     \/ ObfsWriteStore(e, w) \/ ObfsWriteSend(e, w)
        PROVE  UNCHANGED <<kind, reading>>
    BY <1>2 DEF Write, WebSocketRead, QUICRead, ObfsWriteBegin, ObfsWriteStore, ObfsWriteSend
  <1>3. ASSUME NEW e \in Ends, ObfsReadPrefix(e)
        PROVE  kind' = "obfuscated"
    BY <1>3 DEF ObfsReadPrefix
  <1>4. ASSUME NEW e \in Ends, ObfsReadData(e)
        PROVE  kind' = kind /\ reading' = [reading EXCEPT ![e] = NoRead]
    BY <1>4 DEF ObfsReadData
  <1>5. ASSUME NEW e \in Ends, ObfsReadData(e)
        PROVE  OneRead'
    BY <1>4, <1>5 DEF OneRead, TypeOK
  <1>. QED BY <1>1, <1>2, <1>3, <1>5 DEF Next, OneRead

(* Writing puts the new packet at or behind what has been read. *)
LEMMA WebSocketPut ==
    ASSUME WebSocketInv, PutStep, kind = "websocket",
           NEW e \in Ends, NEW i \in DOMAIN pkts'[e], Total(pkts[e][i])' <= ReadBuf
    PROVE  /\ at'[e] <= pkts'[e][i].start \/ End(pkts[e][i])' <= at'[e]
           /\ End(pkts[e][i])' <= at'[e] => Arrived(e, i)'
  <1>. USE DEF WebSocketInv, ChannelInv
  <1>1. PICK d \in Ends, s \in Sizes, pos \in 0 .. keyLen - 1 :
            PutOnWire(d, s, pos) /\ UNCHANGED <<kind, keyLen, at, got>>
    BY DEF PutStep
  <1>2. PICK new : new = Len(pkts[d]) + 1
    OBVIOUS
  <1>3. /\ \A f \in Ends : \A j \in DOMAIN pkts[f] :
              /\ pkts'[f][j] = pkts[f][j]
              /\ Body(pkts[f][j])' = Body(pkts[f][j])
              /\ Total(pkts[f][j])' = Total(pkts[f][j])
              /\ End(pkts[f][j])' = End(pkts[f][j])
        /\ \A f \in Ends : \A j \in DOMAIN pkts'[f] :
              j \in DOMAIN pkts[f] \/ (f = d /\ j = new)
        /\ pkts'[d][new].start = Written(d)
        /\ End(pkts[d][new])' = Written(d)'
    BY <1>1, <1>2, PutPlaces
  <1>4. CASE i \in DOMAIN pkts[e]
    <2>1. at[e] <= pkts[e][i].start \/ End(pkts[e][i]) <= at[e]
      BY <1>3, <1>4 DEF NotInside
    <2>2. End(pkts[e][i]) <= at[e] => Arrived(e, i)
      BY <1>3, <1>4 DEF WebSocketReliable, FittingArrive
    <2>3. Arrived(e, i)' = Arrived(e, i)
      BY <1>1, <1>3, <1>4 DEF Arrived
    <2>. QED BY <1>1, <1>3, <1>4, <2>1, <2>2, <2>3
  <1>5. CASE e = d /\ i = new
    <2>1. at[d] \in Nat /\ Written(d) \in Nat /\ at[d] <= Written(d)
      BY WrittenFacts
    <2>2. Written(d)' = Written(d) + Overhead + HeaderSize + s
      BY <1>1, PutTypes
    <2>3. s \in Nat /\ HeaderSize \in Nat \ {0} /\ Overhead \in Nat
      BY TransportAssumption DEF Overhead, LenSize
    <2>. QED BY <1>1, <1>3, <1>5, <2>1, <2>2, <2>3
  <1>. QED BY <1>3, <1>4, <1>5

(* A Read that begins inside a packet ends in it; one that begins with a   *)
(* packet that fits takes all of it.                                       *)
LEMMA WebSocketTake ==
    ASSUME WebSocketInv, NEW d \in Ends, WebSocketRead(d),
           NEW e \in Ends, NEW j \in DOMAIN pkts[e], Total(pkts[e][j]) <= ReadBuf
    PROVE  /\ at'[e] <= pkts[e][j].start \/ End(pkts[e][j]) <= at'[e]
           /\ End(pkts[e][j]) <= at'[e] =>
                 <<Body(pkts[e][j]), Total(pkts[e][j])>> \in got'[e]
  <1>. USE DEF WebSocketInv, ChannelInv
  <1>1. PICK i \in DOMAIN pkts[d] :
            /\ pkts[d][i].start <= at[d] /\ at[d] < End(pkts[d][i])
            /\ LET n == Smaller(ReadBuf, End(pkts[d][i]) - at[d])
               IN  at' = [at EXCEPT ![d] = @ + n] /\ Handle(d, at[d], n, TRUE)
    BY DEF WebSocketRead
  <1>2. PICK n : n = Smaller(ReadBuf, End(pkts[d][i]) - at[d])
    OBVIOUS
  <1>3. at' = [at EXCEPT ![d] = at[d] + n] /\ Handle(d, at[d], n, TRUE)
    BY <1>1, <1>2
  <1>4. kind = "websocket" /\ Overhead = 0
    BY DEF WebSocketRead, Overhead
  <1>5. at[d] \in Nat /\ at[e] \in Nat /\ DOMAIN pkts[d] \subseteq Nat
    BY WrittenFacts
  <1>6. /\ pkts[d][i].start \in Nat /\ End(pkts[d][i]) \in Nat
        /\ Total(pkts[d][i]) \in Nat
        /\ Body(pkts[d][i]) = pkts[d][i].start
        /\ End(pkts[d][i]) = pkts[d][i].start + Total(pkts[d][i])
        /\ Total(pkts[d][i]) = HeaderSize + LengthField(pkts[d][i])
    BY <1>4, PacketFacts
  <1>7. n \in Nat /\ at[d] + n <= End(pkts[d][i])
    BY <1>1, <1>2, <1>5, <1>6, TransportAssumption DEF Smaller
  <1>8. /\ at[e] <= pkts[e][j].start \/ End(pkts[e][j]) <= at[e]
        /\ End(pkts[e][j]) <= at[e] =>
              <<Body(pkts[e][j]), Total(pkts[e][j])>> \in got[e]
    BY <1>4 DEF NotInside, WebSocketReliable, FittingArrive, Arrived
  <1>9. \A f \in Ends : got[f] \subseteq got'[f]
    BY <1>3 DEF Handle, TypeOK
  <1>10. CASE e # d
    BY <1>3, <1>8, <1>9, <1>10 DEF TypeOK
  <1>11. CASE e = d
    <2>1. at'[d] = at[d] + n
      BY <1>3 DEF TypeOK
    <2>2. /\ pkts[d][j].start \in Nat /\ End(pkts[d][j]) \in Nat
          /\ pkts[d][j].start < End(pkts[d][j])
      BY <1>11, PacketFacts
    <2>3. CASE j < i
      <3>1. End(pkts[d][j]) <= pkts[d][i].start
        BY <1>11, <2>3 DEF Ordered
      <3>2. End(pkts[d][j]) <= at[d]
        BY <1>1, <1>5, <1>6, <2>2, <3>1
      <3>. QED BY <1>5, <1>7, <1>8, <1>9, <1>11, <2>1, <2>2, <3>2
    <2>4. CASE i < j
      <3>1. End(pkts[d][i]) <= pkts[d][j].start
        BY <1>11, <2>4 DEF Ordered
      <3>. QED BY <1>5, <1>6, <1>7, <1>11, <2>1, <2>2, <3>1
    <2>5. CASE j = i
      <3>1. at[d] = pkts[d][i].start
        BY <1>1, <1>5, <1>6, <1>8, <1>11, <2>5
      <3>2. n = Total(pkts[d][i])
        BY <1>2, <1>5, <1>6, <1>11, <2>5, <3>1, TransportAssumption DEF Smaller
      <3>3. LengthField(pkts[d][i]) \in Nat /\ HeaderSize \in Nat
        BY PacketFacts, TransportAssumption DEF LengthField, LenMod
      <3>4. Unmarshals(d, at[d], n, TRUE)
        BY <1>6, <3>1, <3>2, <3>3 DEF Unmarshals
      <3>5. <<at[d], n>> \in got'[d]
        BY <1>3, <3>4 DEF Handle, TypeOK
      <3>. QED BY <1>6, <1>11, <2>1, <2>5, <3>1, <3>2, <3>5
    <2>. QED BY <1>5, <1>11, <2>3, <2>4, <2>5
  <1>. QED BY <1>10, <1>11

LEMMA KindFixed ==
    ASSUME [Next]_vars
    PROVE  kind' = kind
  BY ZenonT(60) DEF Next, vars, Write, WebSocketRead, QUICRead, ObfsWriteBegin,
                    ObfsWriteStore, ObfsWriteSend, ObfsReadPrefix, ObfsReadData

LEMMA WebSocketInductive ==
    ASSUME WebSocketInv, ChannelInv', [Next]_vars, kind' = "websocket"
    PROVE  NotInside' /\ WebSocketReliable'
  <1>. USE DEF WebSocketInv, ChannelInv
  <1>1. kind = "websocket"
    BY KindFixed
  <1>2. CASE PutStep
    BY <1>1, <1>2, WebSocketPut DEF NotInside, WebSocketReliable, FittingArrive
  <1>3. ASSUME NEW d \in Ends, WebSocketRead(d)
        PROVE  NotInside' /\ WebSocketReliable'
    <2>1. UNCHANGED <<kind, pkts>>
      BY <1>3 DEF WebSocketRead
    <2>2. \A e \in Ends : \A j \in DOMAIN pkts[e] :
              /\ Body(pkts[e][j])' = Body(pkts[e][j])
              /\ Total(pkts[e][j])' = Total(pkts[e][j])
              /\ End(pkts[e][j])' = End(pkts[e][j])
      BY <2>1, StillPlaces
    <2>. QED BY <1>3, <2>1, <2>2, WebSocketTake
             DEF NotInside, WebSocketReliable, FittingArrive, Arrived
  <1>4. CASE QuietStep
    <2>1. UNCHANGED <<kind, pkts, at, got>>
      BY <1>4 DEF QuietStep
    <2>. QED BY <2>1, StillPlaces DEF NotInside, WebSocketReliable, FittingArrive, Arrived
  <1>5. PutStep \/ QuietStep \/ \E d \in Ends : WebSocketRead(d)
    <2>1. ASSUME NEW e \in Ends
          PROVE  ~QUICRead(e) /\ ~ObfsReadData(e)
      BY <1>1 DEF QUICRead, ObfsReadData, OneRead
    <2>. QED BY <2>1, WriteShapes
  <1>. QED BY <1>2, <1>3, <1>4, <1>5

LEMMA WebSocketInvariant == Spec => []WebSocketInv
  <1>1. Init => WebSocketInv
    <2>1. Init => \A d \in Ends : reading[d] = NoRead /\ DOMAIN pkts[d] = {} /\ got[d] = {}
      BY DEF Init
    <2>. QED BY <2>1, TypeInit DEF WebSocketInv, ChannelInv, Ordered, DeliveredWhole,
                OneRead, NotInside, WebSocketReliable, FittingArrive
  <1>2. WebSocketInv /\ [Next]_vars => WebSocketInv'
    <2>. SUFFICES ASSUME WebSocketInv, [Next]_vars PROVE WebSocketInv'
      OBVIOUS
    <2>1. ChannelInv' /\ OneRead'
      BY TypeInductive, StepShapes, OrderedInductive, DeliveredInductive, OneReadInductive
         DEF ChannelInv, WebSocketInv
    <2>2. CASE kind' = "websocket"
      BY <2>1, <2>2, WebSocketInductive DEF WebSocketInv
    <2>3. CASE kind' # "websocket"
      BY <2>1, <2>3 DEF WebSocketInv, NotInside, WebSocketReliable
    <2>. QED BY <2>2, <2>3
  <1>. QED BY <1>1, <1>2, PTL DEF Spec

(* Over WebSocket every packet that fits the reader's buffer is handed on   *)
(* once its bytes are read, also behind packets that do not fit            *)
(* (websocket.go:118-141).                                                 *)
THEOREM WebSocketDelivers == Spec => []WebSocketReliable
  <1>1. WebSocketInv => WebSocketReliable
    BY DEF WebSocketInv
  <1>. QED BY <1>1, WebSocketInvariant, PTL
=============================================================================
