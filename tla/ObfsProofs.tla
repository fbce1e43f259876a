----------------------------- MODULE ObfsProofs -----------------------------
(***************************************************************************)
(* The first packet over the obfuscated transport to an end that has       *)
(* written nothing, for every key length, packet size and number of        *)
(* packets and writing goroutines: its Write starts at the first byte of   *)
(* the key, and so does the Read that takes it, with the data four bytes   *)
(* too early.                                                              *)
(***************************************************************************)
EXTENDS TransportsProofs

(* Only the peer of d has written, one packet at a time. *)
FirstUse(d) ==
    kind = "obfuscated" /\ ~collided /\ pkts[Peer(d)] = <<>> /\ Idle(d)

(* The first packet to d is written with the key from its first byte on. *)
FirstWritten(d) ==
    /\ pkts[d] = <<>> =>
          /\ Idle(Peer(d)) => keyPos[Peer(d)] = 0
          /\ \A w \in Writers : writing[Peer(d)][w] # NoOp => writing[Peer(d)][w].pos = 0
    /\ pkts[d] # <<>> => pkts[d][1].start = 0 /\ pkts[d][1].pos = 0

(* d reads it whole with the same, and has it or not, whatever comes next. *)
FirstRead(d) ==
    /\ at[d] = 0 =>
          /\ keyPos[d] = 0
          /\ reading[d] # NoRead => pkts[d] # <<>> /\ reading[d] = Total(pkts[d][1])
    /\ at[d] # 0 =>
          /\ pkts[d] # <<>> /\ End(pkts[d][1]) <= at[d]
          /\ Total(pkts[d][1]) <= ReadBuf => (Arrived(d, 1) <=> LenSize % keyLen = 0)

FirstInv ==
    /\ ChannelInv
    /\ \A d \in Ends : FirstUse(d) => FirstWritten(d) /\ FirstRead(d)

-----------------------------------------------------------------------------
(* Facts *)

LEMMA Peers ==
    \A d \in Ends : /\ Peer(d) \in Ends /\ Peer(d) # d /\ Peer(Peer(d)) = d
                    /\ \A f \in Ends : f = d \/ f = Peer(d)
  BY DEF Ends, Peer

(* The first packet of a stream is the only one at its beginning. *)
LEMMA FirstPlace ==
    ASSUME ChannelInv, NEW d \in Ends, pkts[d] # <<>>
    PROVE  /\ 1 \in DOMAIN pkts[d] /\ End(pkts[d][1]) \in Nat \ {0}
           /\ Total(pkts[d][1]) \in Nat /\ HeaderSize <= Total(pkts[d][1])
           /\ \A i \in DOMAIN pkts[d] : pkts[d][i].start = 0 => i = 1
           /\ \A i \in DOMAIN pkts[d] : End(pkts[d][i]) \in Nat \ {0}
  <1>. USE DEF ChannelInv
  <1>1. DOMAIN pkts[d] = 1 .. Len(pkts[d]) /\ Len(pkts[d]) \in Nat /\ 1 \in DOMAIN pkts[d]
    BY WrittenFacts
  <1>2. \A i \in DOMAIN pkts[d] : End(pkts[d][i]) \in Nat \ {0}
    <2>1. ASSUME NEW i \in DOMAIN pkts[d] PROVE End(pkts[d][i]) \in Nat \ {0}
      BY PacketFacts
    <2>. QED BY <2>1
  <1>3. ASSUME NEW i \in DOMAIN pkts[d], pkts[d][i].start = 0, i # 1
        PROVE  FALSE
    <2>1. 1 < i
      BY <1>1, <1>3
    <2>2. End(pkts[d][1]) <= pkts[d][i].start
      BY <1>1, <2>1 DEF Ordered
    <2>. QED BY <1>1, <1>2, <1>3, <2>2
  <1>4. Total(pkts[d][1]) \in Nat /\ HeaderSize <= Total(pkts[d][1])
    <2>1. LengthField(pkts[d][1]) \in Nat /\ HeaderSize \in Nat
      BY <1>1, PacketFacts, TransportAssumption DEF LengthField, LenMod
    <2>. QED BY <1>1, <2>1, PacketFacts
  <1>. QED BY <1>1, <1>2, <1>3, <1>4

(* The peer of d has nothing to read. *)
LEMMA PeerReadsNothing ==
    ASSUME TypeOK, NEW d \in Ends, FirstUse(d)
    PROVE  ~ObfsReadPrefix(Peer(d)) /\ ~ObfsReadData(Peer(d))
  <1>1. Written(Peer(d)) = 0 /\ at[Peer(d)] \in Nat /\ reading[Peer(d)] \in {NoRead} \cup Nat
    BY Peers DEF FirstUse, Written, TypeOK
  <1>2. ASSUME ObfsReadPrefix(Peer(d))
        PROVE  at[Peer(d)] + LenSize <= Written(Peer(d))
    BY <1>2, Zenon DEF ObfsReadPrefix
  <1>3. ASSUME ObfsReadData(Peer(d))
        PROVE  /\ reading[Peer(d)] # NoRead
               /\ at[Peer(d)] + LenSize + reading[Peer(d)] <= Written(Peer(d))
    BY <1>3, Zenon DEF ObfsReadData
  <1>. QED BY <1>1, <1>2, <1>3 DEF LenSize

(* Whoever writes is the peer of d. *)
LEMMA PeerWrites ==
    ASSUME TypeOK, NEW d \in Ends, FirstUse(d), NEW f \in Ends, NEW w \in Writers,
           writing[f][w] # NoOp
    PROVE  f = Peer(d)
  <1>1. f = d \/ f = Peer(d)
    BY Peers
  <1>2. writing[d][w] = NoOp
    BY DEF FirstUse, Idle
  <1>. QED BY <1>1, <1>2

-----------------------------------------------------------------------------
(* The steps *)

LEMMA BeginKeeps ==
    ASSUME FirstInv, NEW d \in Ends, FirstUse(d), FirstUse(d)',
           NEW f \in Ends, NEW w \in Writers, NEW s \in Sizes, ObfsWriteBegin(f, w, s)
    PROVE  FirstWritten(d)' /\ FirstRead(d)'
  <1>1. /\ UNCHANGED <<kind, keyLen, pkts, at, got, keyPos, reading>>
        /\ writing' = [writing EXCEPT ![f][w] = [size |-> s, pos |-> keyPos[f], stored |-> FALSE]]
        /\ MyTurn(f)
    BY DEF ObfsWriteBegin, FirstUse
  <1>2. writing \in [Ends -> [Writers ->
            {NoOp} \cup [size : Sizes, pos : 0 .. keyLen - 1, stored : BOOLEAN]]]
        /\ keyPos[f] \in Nat
    BY TransportAssumption DEF FirstInv, ChannelInv, TypeOK
  <1>3. writing'[f][w].pos = keyPos[f] /\ writing'[f][w] # NoOp
    <2>1. writing'[f][w] = [size |-> s, pos |-> keyPos[f], stored |-> FALSE]
      BY <1>1, <1>2
    <2>2. NoOp.pos = -1
      BY DEF NoOp
    <2>. QED BY <1>2, <2>1, <2>2
  <1>4. f = Peer(d)
    BY <1>3, Peers DEF FirstUse, Idle
  <1>5. \A v \in Writers : v # w => writing'[f][v] = NoOp
    BY <1>1, <1>2 DEF MyTurn, Idle
  <1>6. pkts[d] = <<>> => keyPos[f] = 0
    BY <1>1, <1>4 DEF MyTurn, FirstInv, FirstWritten
  <1>7. FirstWritten(d)'
    BY <1>1, <1>3, <1>4, <1>5, <1>6 DEF FirstInv, FirstWritten, Idle
  <1>8. FirstRead(d)'
    BY <1>1 DEF FirstInv, FirstRead, Arrived, Body, End, Total, Overhead
  <1>. QED BY <1>7, <1>8

LEMMA StoreKeeps ==
    ASSUME FirstInv, NEW d \in Ends, FirstUse(d), FirstUse(d)',
           NEW f \in Ends, NEW w \in Writers, ObfsWriteStore(f, w)
    PROVE  FirstWritten(d)' /\ FirstRead(d)'
  <1>1. /\ UNCHANGED <<kind, keyLen, pkts, at, got, reading>> /\ writing[f][w] # NoOp
        /\ writing' = [writing EXCEPT ![f][w].stored = TRUE]
        /\ \A g \in Ends \ {f} : keyPos'[g] = keyPos[g]
    BY DEF ObfsWriteStore, FirstInv, ChannelInv, TypeOK
  <1>2. f = Peer(d) /\ f # d
    BY <1>1, PeerWrites, Peers DEF FirstInv, ChannelInv
  <1>3. writing \in [Ends -> [Writers ->
            {NoOp} \cup [size : Sizes, pos : 0 .. keyLen - 1, stored : BOOLEAN]]]
    BY DEF FirstInv, ChannelInv, TypeOK
  <1>4. \A v \in Writers : v # w => writing'[f][v] = writing[f][v]
    BY <1>1, <1>3
  <1>5. writing'[f][w].pos = writing[f][w].pos /\ writing'[f][w] # NoOp
    <2>1. /\ writing[f][w] \in [size : Sizes, pos : 0 .. keyLen - 1, stored : BOOLEAN]
          /\ writing'[f][w] = [writing[f][w] EXCEPT !.stored = TRUE]
      BY <1>1, <1>3
    <2>2. writing'[f][w].stored = TRUE /\ NoOp.stored = FALSE
      BY <2>1 DEF NoOp
    <2>. QED BY <2>1, <2>2
  <1>6. FirstWritten(d)'
    BY <1>1, <1>2, <1>4, <1>5 DEF FirstInv, FirstWritten, Idle
  <1>7. FirstRead(d)'
    BY <1>1, <1>2 DEF FirstInv, FirstRead, Arrived, Body, End, Total, Overhead
  <1>. QED BY <1>6, <1>7

LEMMA SendKeeps ==
    ASSUME FirstInv, NEW d \in Ends, FirstUse(d), FirstUse(d)',
           NEW f \in Ends, NEW w \in Writers, ObfsWriteSend(f, w)
    PROVE  FirstWritten(d)' /\ FirstRead(d)'
  <1>. DEFINE op == writing[f][w]
  <1>1. /\ UNCHANGED <<kind, keyLen, at, got, keyPos, reading>> /\ op.stored
        /\ PutOnWire(Peer(f), op.size, op.pos)
    BY DEF ObfsWriteSend
  <1>2. TypeOK
    BY DEF FirstInv, ChannelInv
  <1>3. op # NoOp
    BY <1>1 DEF NoOp
  <1>4. f = Peer(d) /\ Peer(f) = d
    BY <1>2, <1>3, PeerWrites, Peers
  <1>5. op.size \in Sizes /\ op.pos \in 0 .. keyLen - 1
    BY <1>2, <1>3 DEF TypeOK
  <1>. DEFINE new == Len(pkts[d]) + 1
  <1>. HIDE DEF op
  <1>6. pkts'[d] = Append(pkts[d], [start |-> Written(d), size |-> op.size, pos |-> op.pos])
    BY <1>1, <1>2, <1>4, <1>5, PutTypes
  <1>7. CASE pkts[d] = <<>>
    <2>1. Written(d) = 0 /\ at[d] = 0 /\ op.pos = 0
      BY <1>2, <1>3, <1>4, <1>7, WrittenFacts DEF Written, FirstInv, FirstWritten, op
    <2>2. pkts'[d] # <<>> /\ pkts'[d][1].start = 0 /\ pkts'[d][1].pos = 0
      BY <1>6, <1>7, <2>1
    <2>3. keyPos[d] = 0 /\ reading[d] = NoRead
      BY <1>7, <2>1 DEF FirstInv, FirstRead
    <2>. QED BY <1>1, <2>1, <2>2, <2>3 DEF FirstWritten, FirstRead
  <1>8. CASE pkts[d] # <<>>
    <2>1. 1 \in DOMAIN pkts[d]
      BY <1>8, FirstPlace DEF FirstInv
    <2>. HIDE DEF new
    <2>2. /\ pkts'[d][1] = pkts[d][1] /\ 1 \in DOMAIN pkts'[d]
          /\ Body(pkts[d][1])' = Body(pkts[d][1])
          /\ Total(pkts[d][1])' = Total(pkts[d][1])
          /\ End(pkts[d][1])' = End(pkts[d][1])
      BY <1>1, <1>2, <1>4, <1>5, <2>1, PutPlaces DEF new
    <2>3. pkts'[d] # <<>>
      BY <2>2
    <2>. QED BY <1>1, <1>8, <2>2, <2>3 DEF FirstInv, FirstWritten, FirstRead, Arrived
  <1>. QED BY <1>7, <1>8

LEMMA PrefixKeeps ==
    ASSUME FirstInv, NEW d \in Ends, FirstUse(d), FirstUse(d)',
           NEW f \in Ends, ObfsReadPrefix(f)
    PROVE  FirstWritten(d)' /\ FirstRead(d)'
  <1>1. UNCHANGED <<kind, keyLen, pkts, at, got, keyPos, writing, collided>>
    BY DEF ObfsReadPrefix
  <1>2. f = d
    <2>1. f = d \/ f = Peer(d)
      BY Peers
    <2>2. ~ObfsReadPrefix(Peer(d))
      BY PeerReadsNothing DEF FirstInv, ChannelInv
    <2>. QED BY <2>1, <2>2
  <1>3. FirstWritten(d)'
    BY <1>1 DEF FirstInv, FirstWritten, Idle
  <1>4. CASE at[d] # 0
    <2>1. FirstRead(d)
      BY DEF FirstInv
    <2>2. /\ End(pkts[d][1])' = End(pkts[d][1]) /\ Total(pkts[d][1])' = Total(pkts[d][1])
          /\ Arrived(d, 1)' <=> Arrived(d, 1)
      BY <1>1 DEF Arrived, Body, End, Total, Overhead
    <2>. QED BY <1>1, <1>3, <1>4, <2>1, <2>2 DEF FirstRead
  <1>5. CASE at[d] = 0
    <2>1. pkts[d] # <<>>
      <3>1. at[d] + LenSize <= Written(d)
        BY <1>2, Zenon DEF ObfsReadPrefix
      <3>. QED BY <1>5, <3>1 DEF Written, LenSize
    <2>2. 1 \in DOMAIN pkts[d] /\ \A i \in DOMAIN pkts[d] : pkts[d][i].start = 0 => i = 1
      BY <2>1, FirstPlace DEF FirstInv
    <2>3. pkts[d][1].start = 0 /\ pkts[d][1].pos = 0 /\ keyPos[d] = 0
      BY <1>5, <2>1 DEF FirstInv, FirstWritten, FirstRead
    <2>4. ~MayDiffer(pkts[d][1].pos, keyPos[d])
      BY <2>3 DEF MayDiffer, FirstUse
    <2>5. reading' = [reading EXCEPT ![d] = Total(pkts[d][1])]
      BY <1>2, <1>5, <2>2, <2>3, <2>4 DEF ObfsReadPrefix
    <2>6. reading'[d] = Total(pkts[d][1])
      BY <2>5 DEF FirstInv, ChannelInv, TypeOK
    <2>. QED BY <1>1, <1>3, <1>5, <2>1, <2>3, <2>6 DEF FirstRead, Total
  <1>. QED BY <1>3, <1>4, <1>5

LEMMA DataKeeps ==
    ASSUME FirstInv, NEW d \in Ends, FirstUse(d), FirstUse(d)',
           NEW f \in Ends, ObfsReadData(f)
    PROVE  FirstWritten(d)' /\ FirstRead(d)'
  <1>. DEFINE clear == \E i \in DOMAIN pkts[d] :
                           /\ pkts[d][i].start = at[d]
                           /\ MayAgree(Moved(pkts[d][i].pos, LenSize), keyPos[d])
              from == at[d] + LenSize
              n    == Smaller(ReadBuf, reading[d])
  <1>1. f = d
    <2>1. f = d \/ f = Peer(d)
      BY Peers
    <2>2. ~ObfsReadData(Peer(d))
      BY PeerReadsNothing DEF FirstInv, ChannelInv
    <2>. QED BY <2>1, <2>2
  <1>2. /\ UNCHANGED <<kind, keyLen, pkts, writing, collided>>
        /\ reading[d] \in Nat /\ at[d] \in Nat
        /\ at'[d] = at[d] + LenSize + reading[d]
        /\ keyPos'[Peer(d)] = keyPos[Peer(d)]
        /\ at[d] + LenSize + reading[d] <= Written(d)
    BY <1>1, Peers DEF ObfsReadData, FirstInv, ChannelInv, TypeOK, LenSize
  <1>3. Handle(d, from, n, clear)
    BY <1>1 DEF ObfsReadData, FirstUse
  <1>. HIDE DEF clear, from, n
  <1>4. /\ Unmarshals(d, from, n, clear) => got'[d] = got[d] \cup {<<from, n>>}
        /\ ~Unmarshals(d, from, n, clear) => got'[d] = got[d]
    BY <1>3 DEF Handle, FirstInv, ChannelInv, TypeOK
  <1>5. FirstWritten(d)'
    BY <1>2 DEF FirstInv, FirstWritten, Idle
  <1>6. pkts[d] # <<>>
    BY <1>2 DEF Written, LenSize
  <1>7. /\ 1 \in DOMAIN pkts[d] /\ \A i \in DOMAIN pkts[d] : pkts[d][i].start = 0 => i = 1
        /\ End(pkts[d][1]) \in Nat \ {0} /\ Total(pkts[d][1]) \in Nat
        /\ HeaderSize <= Total(pkts[d][1])
        /\ pkts[d][1].start = 0 /\ pkts[d][1].pos = 0
        /\ Body(pkts[d][1]) = LenSize /\ End(pkts[d][1]) = LenSize + Total(pkts[d][1])
    BY <1>6, FirstPlace DEF FirstInv, FirstWritten, FirstUse, Body, End, Overhead, LenSize
  <1>8. Arrived(d, 1)' <=> <<LenSize, Total(pkts[d][1])>> \in got'[d]
    BY <1>2, <1>7 DEF Arrived, Body, Total, Overhead
  <1>9. at'[d] # 0 /\ End(pkts[d][1])' = End(pkts[d][1]) /\ Total(pkts[d][1])' = Total(pkts[d][1])
    BY <1>2 DEF LenSize, End, Body, Total, Overhead
  <1>10. CASE at[d] = 0
    <2>1. reading[d] = Total(pkts[d][1]) /\ keyPos[d] = 0
      BY <1>2, <1>10 DEF FirstInv, FirstRead, NoRead
    <2>2. at'[d] = End(pkts[d][1]) /\ from = LenSize
      BY <1>2, <1>7, <1>10, <2>1 DEF from, LenSize
    <2>3. clear <=> LenSize % keyLen = 0
      BY <1>7, <1>10, <2>1 DEF clear, MayAgree, Moved, FirstUse, LenSize
    <2>4. ASSUME Total(pkts[d][1]) <= ReadBuf
          PROVE  Arrived(d, 1)' <=> LenSize % keyLen = 0
      <3>1. n = Total(pkts[d][1])
        BY <1>7, <2>1, <2>4, TransportAssumption DEF n, Smaller
      <3>2. Unmarshals(d, from, n, clear) <=> clear
        <4>1. LengthField(pkts[d][1]) = n - HeaderSize
          <5>1. LengthField(pkts[d][1]) \in Nat /\ HeaderSize \in Nat
            BY <1>7, PacketFacts, TransportAssumption
               DEF LengthField, LenMod, FirstInv, ChannelInv
          <5>. QED BY <1>7, <3>1, <5>1, PacketFacts DEF FirstInv, ChannelInv
        <4>. QED BY <1>7, <2>2, <3>1, <4>1 DEF Unmarshals
      <3>3. <<LenSize, Total(pkts[d][1])>> \notin got[d]
        <4>1. \A i \in DOMAIN pkts[d] : End(pkts[d][i]) \in Nat \ {0}
          BY <1>6, FirstPlace DEF FirstInv
        <4>. QED BY <1>10, <4>1 DEF FirstInv, ChannelInv, DeliveredWhole
      <3>. QED BY <1>4, <1>8, <2>2, <2>3, <3>1, <3>2, <3>3
    <2>. QED BY <1>2, <1>5, <1>6, <1>7, <1>9, <2>2, <2>4 DEF FirstRead
  <1>11. CASE at[d] # 0
    <2>1. End(pkts[d][1]) <= at[d]
      BY <1>11 DEF FirstInv, FirstRead
    <2>2. End(pkts[d][1]) <= at'[d]
      BY <1>2, <1>7, <2>1 DEF LenSize
    <2>3. from # LenSize
      BY <1>2, <1>11 DEF from, LenSize
    <2>4. Arrived(d, 1)' <=> Arrived(d, 1)
      BY <1>4, <1>7, <1>8, <2>3 DEF Arrived
    <2>. QED BY <1>2, <1>5, <1>6, <1>9, <1>11, <2>2, <2>4 DEF FirstInv, FirstRead
  <1>. QED BY <1>10, <1>11

(* Nothing that d's peer does makes it look as if d had not written. *)
LEMMA UseStays ==
    ASSUME TypeOK, [Next]_vars, NEW d \in Ends, FirstUse(d)'
    PROVE  FirstUse(d)
  <1>1. kind' = kind
    BY KindFixed
  <1>2. ASSUME NEW f \in Ends, NEW w \in Writers, ObfsWriteSend(f, w)
        PROVE  f # d /\ pkts[Peer(d)] = <<>> /\ writing[d] = writing'[d] /\ ~collided
    <2>1. writing[f][w].size \in Sizes /\ writing[f][w].pos \in 0 .. keyLen - 1
      BY <1>2 DEF ObfsWriteSend, TypeOK, NoOp
    <2>2. pkts'[Peer(f)] # <<>> /\ \A e \in Ends \ {Peer(f)} : pkts'[e] = pkts[e]
      <3>1. /\ pkts'[Peer(f)] = Append(pkts[Peer(f)], [start |-> Written(Peer(f)),
                        size |-> writing[f][w].size, pos |-> writing[f][w].pos])
            /\ \A e \in Ends : e # Peer(f) => pkts'[e] = pkts[e]
        BY <1>2, <2>1, Peers, PutTypes DEF ObfsWriteSend
      <3>2. pkts[Peer(f)] \in Seq(Packet)
        BY Peers DEF TypeOK
      <3>. QED BY <3>1, <3>2
    <2>3. f # d /\ Peer(f) = d
      BY <2>2, Peers DEF FirstUse
    <2>4. pkts[Peer(d)] = <<>>
      BY <2>2, <2>3, Peers DEF FirstUse
    <2>5. writing[d] = writing'[d] /\ ~collided
      BY <1>2, <2>3 DEF ObfsWriteSend, TypeOK, FirstUse
    <2>. QED BY <2>3, <2>4, <2>5
  <1>3. ASSUME NEW f \in Ends, NEW w \in Writers, NEW s \in Sizes, ObfsWriteBegin(f, w, s)
        PROVE  ~collided /\ pkts' = pkts /\ Idle(d)
    <2>1. ~collided /\ MyTurn(f) /\ pkts' = pkts
      BY <1>3 DEF ObfsWriteBegin, FirstUse
    <2>. QED BY <2>1 DEF MyTurn
  <1>4. ASSUME NEW f \in Ends, NEW w \in Writers, ObfsWriteStore(f, w)
        PROVE  ~collided /\ pkts' = pkts /\ f # d /\ writing'[d] = writing[d]
    <2>1. /\ writing[f][w] # NoOp /\ writing' = [writing EXCEPT ![f][w].stored = TRUE]
          /\ UNCHANGED <<pkts, collided>>
      BY <1>4 DEF ObfsWriteStore
    <2>2. writing'[f][w] # NoOp
      <3>1. /\ writing[f][w] \in [size : Sizes, pos : 0 .. keyLen - 1, stored : BOOLEAN]
            /\ writing'[f][w] = [writing[f][w] EXCEPT !.stored = TRUE]
        BY <2>1 DEF TypeOK
      <3>2. writing'[f][w].stored = TRUE /\ NoOp.stored = FALSE
        BY <3>1 DEF NoOp
      <3>. QED BY <3>2
    <2>3. f # d
      BY <2>2 DEF FirstUse, Idle
    <2>. QED BY <2>1, <2>3 DEF TypeOK, FirstUse
  <1>5. ASSUME NEW f \in Ends,
               ObfsReadPrefix(f) \/ ObfsReadData(f) \/ UNCHANGED vars
        PROVE  UNCHANGED <<collided, pkts, writing>>
    BY <1>5 DEF ObfsReadPrefix, ObfsReadData, vars
  <1>6. ASSUME NEW f \in Ends,
               (\E s \in Sizes : Write(f, s)) \/ WebSocketRead(f) \/ QUICRead(f)
        PROVE  FALSE
    BY <1>1, <1>6 DEF Write, WebSocketRead, QUICRead, FirstUse
  <1>7. pkts[Peer(d)] = <<>> /\ Idle(d) /\ ~collided
    <2>1. CASE \E f \in Ends, w \in Writers : ObfsWriteSend(f, w)
      BY <1>2, <2>1 DEF FirstUse, Idle
    <2>2. CASE \E f \in Ends, w \in Writers : \E s \in Sizes : ObfsWriteBegin(f, w, s)
      BY <1>3, <2>2 DEF FirstUse
    <2>3. CASE \E f \in Ends, w \in Writers : ObfsWriteStore(f, w)
      BY <1>4, <2>3 DEF FirstUse, Idle
    <2>4. CASE \E f \in Ends : ObfsReadPrefix(f) \/ ObfsReadData(f) \/ UNCHANGED vars
      BY <1>5, <2>4 DEF FirstUse, Idle
    <2>. QED BY <1>6, <2>1, <2>2, <2>3, <2>4 DEF Next
  <1>. QED BY <1>1, <1>7 DEF FirstUse

-----------------------------------------------------------------------------
(* The theorems *)

(* How the two key positions stand while the first packet is under way     *)
(* (obfs.go:97-145).                                                       *)
THEOREM FirstPacketInvariant == Spec => []FirstInv
  <1>1. Init => FirstInv
    <2>. SUFFICES ASSUME Init PROVE FirstInv
      OBVIOUS
    <2>1. ChannelInv
      <3>1. \A d \in Ends : got[d] = {} /\ DOMAIN pkts[d] = {}
        BY DEF Init
      <3>. QED BY <3>1, TypeInit DEF ChannelInv, Ordered, DeliveredWhole
    <2>2. \A d \in Ends : /\ pkts[d] = <<>> /\ at[d] = 0 /\ keyPos[d] = 0
                         /\ reading[d] = NoRead /\ Idle(d)
      BY DEF Init, Idle
    <2>. QED BY <2>1, <2>2, Peers DEF FirstInv, FirstWritten, FirstRead, Idle
  <1>2. FirstInv /\ [Next]_vars => FirstInv'
    <2>. SUFFICES ASSUME FirstInv, [Next]_vars PROVE FirstInv'
      OBVIOUS
    <2>1. ChannelInv'
      BY TypeInductive, StepShapes, OrderedInductive, DeliveredInductive
         DEF ChannelInv, FirstInv
    <2>2. ASSUME NEW d \in Ends, FirstUse(d)'
          PROVE  FirstWritten(d)' /\ FirstRead(d)'
      <3>1. FirstUse(d)
        BY <2>2, UseStays DEF FirstInv, ChannelInv
      <3>2. CASE UNCHANGED vars
        BY <3>1, <3>2 DEF vars, FirstInv, FirstWritten, FirstRead, Idle, Arrived,
                          Body, End, Total, Overhead
      <3>3. ASSUME NEW f \in Ends
            PROVE  ~WebSocketRead(f) /\ ~QUICRead(f) /\ \A s \in Sizes : ~Write(f, s)
        BY <3>1 DEF FirstUse, WebSocketRead, QUICRead, Write
      <3>. QED BY <2>2, <3>1, <3>2, <3>3, BeginKeeps, StoreKeeps, SendKeeps,
                  PrefixKeeps, DataKeeps DEF Next
    <2>. QED BY <2>1, <2>2 DEF FirstInv
  <1>. QED BY <1>1, <1>2, PTL DEF Spec

(* The first packet arrives if and only if the key length divides the       *)
(* length prefix: never with the code's key of 32 bytes, so that no client *)
(* can complete a handshake over this transport (obfs.go:36, 105-145).     *)
THEOREM FirstPacketArrival == Spec => []ObfsFirstPacket
  <1>1. FirstInv => ObfsFirstPacket
    <2>. SUFFICES ASSUME FirstInv, NEW d \in Ends, FirstUse(d), pkts[d] # <<>>,
                         End(pkts[d][1]) <= at[d], Total(pkts[d][1]) <= ReadBuf
                  PROVE  Arrived(d, 1) <=> LenSize % keyLen = 0
      BY DEF ObfsFirstPacket, FirstUse
    <2>1. at[d] # 0
      BY FirstPlace DEF FirstInv
    <2>. QED BY <2>1 DEF FirstInv, FirstRead
  <1>. QED BY <1>1, FirstPacketInvariant, PTL
=============================================================================
