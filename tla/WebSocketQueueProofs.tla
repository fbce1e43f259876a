------------------------ MODULE WebSocketQueueProofs ------------------------
(***************************************************************************)
(* Until a packet is sent that does not fit the reader's buffer, a         *)
(* WebSocket connection is a queue of packets, for all packet sizes and    *)
(* buffer lengths and any number of packets under way.  What server and    *)
(* client take for granted of their connections, PacketQueue, is thus what *)
(* websocket.go and protocol.go do.                                        *)
(***************************************************************************)
EXTENDS TransportsProofs

(* Packets 1 to k of d were handed on, and no other. *)
UpTo(d, k) ==
    /\ k \in 0 .. Len(pkts[d])
    /\ \A j \in DOMAIN pkts[d] : Arrived(d, j) <=> j <= k

InOrder == kind = "websocket" => \A d \in Ends : AllFit(d) => \E k \in Nat : UpTo(d, k)

QueueInv == WebSocketInv /\ InOrder

linkBar ==
    [d \in Ends |-> IF kind # "websocket" THEN "none" ELSE IF AllFit(d) THEN "open" ELSE "lost"]
queueBar ==
    [d \in Ends |-> IF kind = "websocket" /\ AllFit(d) THEN Pending(d) ELSE <<>>]

-----------------------------------------------------------------------------
(* What was handed on *)

LEMMA LastIs ==
    TypeOK => \A d \in Ends : \A k \in Nat : UpTo(d, k) => LastDelivered(d) = k
  <1>. SUFFICES ASSUME TypeOK, NEW d \in Ends, NEW k \in Nat, UpTo(d, k)
                PROVE  LastDelivered(d) = k
    OBVIOUS
  <1>1. DOMAIN pkts[d] = 1 .. Len(pkts[d]) /\ Len(pkts[d]) \in Nat
    BY WrittenFacts
  <1>. DEFINE Last(m) == /\ m = 0 \/ Arrived(d, m)
                         /\ \A j \in DOMAIN pkts[d] : j > m => ~Arrived(d, j)
  <1>2. k \in 0 .. Len(pkts[d]) /\ \A j \in DOMAIN pkts[d] : Arrived(d, j) <=> j <= k
    BY DEF UpTo
  <1>3. Last(k)
    BY <1>1, <1>2
  <1>4. ASSUME NEW m \in 0 .. Len(pkts[d]), Last(m)
        PROVE  m = k
    BY <1>1, <1>2, <1>4
  <1>. HIDE DEF Last
  <1>5. LastDelivered(d) = CHOOSE m \in 0 .. Len(pkts[d]) : Last(m)
    BY DEF LastDelivered, Last
  <1>. QED BY <1>2, <1>3, <1>4, <1>5

LEMMA LastIsNext ==
    (TypeOK => \A d \in Ends : \A k \in Nat : UpTo(d, k) => LastDelivered(d) = k)'
  BY LastIs, PTL

(* What is pending, packet by packet. *)
LEMMA PendingIs ==
    TypeOK => \A d \in Ends : \A k \in Nat : UpTo(d, k) =>
        /\ Pending(d) \in Seq(Sizes) /\ Len(Pending(d)) = Len(pkts[d]) - k
        /\ \A i \in 1 .. (Len(pkts[d]) - k) : Pending(d)[i] = pkts[d][k + i].size
  <1>. SUFFICES ASSUME TypeOK, NEW d \in Ends, NEW k \in Nat, UpTo(d, k)
                PROVE  /\ Pending(d) \in Seq(Sizes) /\ Len(Pending(d)) = Len(pkts[d]) - k
                       /\ \A i \in 1 .. (Len(pkts[d]) - k) :
                             Pending(d)[i] = pkts[d][k + i].size
    OBVIOUS
  <1>1. /\ DOMAIN pkts[d] = 1 .. Len(pkts[d]) /\ Len(pkts[d]) \in Nat
        /\ k <= Len(pkts[d])
    BY WrittenFacts DEF UpTo
  <1>2. Pending(d) = [i \in 1 .. (Len(pkts[d]) - k) |-> pkts[d][k + i].size]
    BY LastIs DEF Pending
  <1>3. ASSUME NEW i \in 1 .. (Len(pkts[d]) - k)
        PROVE  pkts[d][k + i].size \in Sizes
    <2>1. k + i \in DOMAIN pkts[d]
      BY <1>1
    <2>. QED BY <2>1, PacketFacts DEF Packet
  <1>4. Len(pkts[d]) - k \in Nat
    BY <1>1
  <1>. QED BY <1>2, <1>3, <1>4

LEMMA PendingIsNext ==
    (TypeOK => \A d \in Ends : \A k \in Nat : UpTo(d, k) =>
        /\ Pending(d) \in Seq(Sizes) /\ Len(Pending(d)) = Len(pkts[d]) - k
        /\ \A i \in 1 .. (Len(pkts[d]) - k) : Pending(d)[i] = pkts[d][k + i].size)'
  BY PendingIs, PTL

LEMMA IsAppend ==
    ASSUME NEW S, NEW f \in Seq(S), NEW g \in Seq(S), NEW s \in S,
           Len(g) = Len(f) + 1, g[Len(g)] = s, \A i \in 1 .. Len(f) : g[i] = f[i]
    PROVE  g = Append(f, s)
  OBVIOUS

LEMMA IsTail ==
    ASSUME NEW S, NEW f \in Seq(S), NEW g \in Seq(S),
           Len(f) = Len(g) + 1, \A i \in 1 .. Len(g) : g[i] = f[i + 1]
    PROVE  f # <<>> /\ g = Tail(f)
  OBVIOUS

(* A packet is handed on when its bytes are taken, and not before. *)
LEMMA ArrivedTaken ==
    WebSocketInv /\ kind = "websocket" =>
        \A d \in Ends : AllFit(d) =>
            \A i \in DOMAIN pkts[d] : Arrived(d, i) <=> End(pkts[d][i]) <= at[d]
  <1>. SUFFICES ASSUME WebSocketInv, kind = "websocket",
                       NEW d \in Ends, AllFit(d), NEW i \in DOMAIN pkts[d]
                PROVE  Arrived(d, i) <=> End(pkts[d][i]) <= at[d]
    OBVIOUS
  <1>. USE DEF WebSocketInv, ChannelInv
  <1>1. ASSUME End(pkts[d][i]) <= at[d]
        PROVE  Arrived(d, i)
    BY <1>1 DEF AllFit, WebSocketReliable, FittingArrive
  <1>2. ASSUME Arrived(d, i)
        PROVE  End(pkts[d][i]) <= at[d]
    <2>1. PICK j \in DOMAIN pkts[d] :
              /\ <<Body(pkts[d][i]), Total(pkts[d][i])>>
                    = <<Body(pkts[d][j]), Total(pkts[d][j])>>
              /\ End(pkts[d][j]) <= at[d]
      BY <1>2 DEF DeliveredWhole, Arrived
    <2>2. Body(pkts[d][i]) = Body(pkts[d][j]) /\ Total(pkts[d][i]) = Total(pkts[d][j])
      BY <2>1
    <2>. QED BY <2>1, <2>2 DEF End
  <1>. QED BY <1>1, <1>2

LEMMA ArrivedTakenNext ==
    (WebSocketInv /\ kind = "websocket" =>
        \A d \in Ends : AllFit(d) =>
            \A i \in DOMAIN pkts[d] : Arrived(d, i) <=> End(pkts[d][i]) <= at[d])'
  BY ArrivedTaken, PTL

-----------------------------------------------------------------------------
(* The steps of the queue *)

(* A packet that fits goes to the end of what is pending. *)
LEMMA PutSends ==
    ASSUME QueueInv, WebSocketInv', kind = "websocket",
           NEW d \in Ends, NEW s \in Sizes, NEW pos \in 0 .. keyLen - 1,
           PutOnWire(d, s, pos), UNCHANGED <<kind, keyLen, at, got>>
    PROVE  /\ InOrder'
           /\ \A e \in Ends : e # d =>
                 linkBar'[e] = linkBar[e] /\ queueBar'[e] = queueBar[e]
           /\ AllFit(d)' => /\ linkBar[d] = "open" /\ linkBar'[d] = "open"
                            /\ queueBar'[d] = Append(queueBar[d], s)
  <1>. USE DEF QueueInv, WebSocketInv, ChannelInv
  <1>1. PICK new : new = Len(pkts[d]) + 1
    OBVIOUS
  <1>2. /\ \A e \in Ends : \A i \in DOMAIN pkts[e] :
              /\ i \in DOMAIN pkts'[e] /\ pkts'[e][i] = pkts[e][i]
              /\ Body(pkts[e][i])' = Body(pkts[e][i])
              /\ Total(pkts[e][i])' = Total(pkts[e][i])
        /\ End(pkts[d][new])' = Written(d)'
    BY <1>1, PutPlaces
  <1>3. \A e \in Ends : /\ Len(pkts[e]) \in Nat /\ DOMAIN pkts[e] = 1 .. Len(pkts[e])
                        /\ pkts[e] \in Seq(Packet)
    BY WrittenFacts
  <1>4. \A e \in Ends : \A i \in DOMAIN pkts[e] : Arrived(e, i)' = Arrived(e, i)
    BY <1>2 DEF Arrived
  <1>5. /\ Len(pkts'[d]) = new /\ DOMAIN pkts'[d] = 1 .. new /\ pkts'[d][new].size = s
        /\ \A e \in Ends : e # d => pkts'[e] = pkts[e]
    <2>. DEFINE p == [start |-> Written(d), size |-> s, pos |-> pos]
    <2>1. pkts'[d] = Append(pkts[d], p) /\ \A e \in Ends : e # d => pkts'[e] = pkts[e]
      BY PutTypes
    <2>2. p.size = s
      OBVIOUS
    <2>. HIDE DEF p
    <2>. QED BY <1>1, <1>3, <2>1, <2>2
  <1>0. /\ \A e \in Ends : AllFit(e)' => AllFit(e)
        /\ \A e \in Ends : e # d => AllFit(e)' = AllFit(e)
    <2>1. ASSUME NEW e \in Ends, AllFit(e)' PROVE AllFit(e)
      BY <1>2, <2>1 DEF AllFit
    <2>2. ASSUME NEW e \in Ends, e # d, AllFit(e) PROVE AllFit(e)'
      BY <1>2, <1>5, <2>2 DEF AllFit
    <2>3. \A e \in Ends : AllFit(e) \in BOOLEAN /\ AllFit(e)' \in BOOLEAN
      BY DEF AllFit
    <2>. QED BY <2>1, <2>2, <2>3
  <1>6. AllFit(d)' => ~Arrived(d, new)'
    <2>1. at[d] \in Nat /\ Written(d) \in Nat /\ at[d] <= Written(d)
      BY WrittenFacts
    <2>2. Written(d)' = Written(d) + Overhead + HeaderSize + s
      BY PutTypes
    <2>3. s \in Nat /\ HeaderSize \in Nat \ {0} /\ Overhead \in Nat
      BY TransportAssumption DEF Overhead, LenSize
    <2>4. ~(End(pkts[d][new])' <= at'[d])
      BY <1>2, <2>1, <2>2, <2>3
    <2>5. new \in DOMAIN pkts'[d] /\ kind' = "websocket"
      BY <1>1, <1>3, <1>5
    <2>. QED BY <2>4, <2>5, ArrivedTakenNext
  <1>7. ASSUME NEW e \in Ends, NEW k \in Nat, UpTo(e, k), AllFit(e)'
        PROVE  UpTo(e, k)' /\ Pending(e)' = IF e = d THEN Append(Pending(e), s)
                                                     ELSE Pending(e)
    <2>1. UpTo(e, k)'
      <3>1. CASE e = d
        BY <1>1, <1>3, <1>4, <1>5, <1>6, <1>7, <3>1 DEF UpTo
      <3>2. CASE e # d
        BY <1>3, <1>4, <1>5, <1>7, <3>2 DEF UpTo
      <3>. QED BY <3>1, <3>2
    <2>2. /\ Pending(e) \in Seq(Sizes) /\ Len(Pending(e)) = Len(pkts[e]) - k
          /\ \A i \in 1 .. (Len(pkts[e]) - k) : Pending(e)[i] = pkts[e][k + i].size
      BY <1>7, PendingIs
    <2>3. /\ Pending(e)' \in Seq(Sizes) /\ Len(Pending(e)') = Len(pkts'[e]) - k
          /\ \A i \in 1 .. (Len(pkts'[e]) - k) : Pending(e)'[i] = pkts'[e][k + i].size
      BY <2>1, PendingIsNext
    <2>4. CASE e # d
      <3>1. LastDelivered(e) = k /\ LastDelivered(e)' = k
        BY <1>7, <2>1, LastIs, LastIsNext
      <3>2. Pending(e)' = Pending(e)
        BY <1>5, <2>4, <3>1 DEF Pending
      <3>. QED BY <2>1, <2>4, <3>2
    <2>5. CASE e = d
      <3>1. k <= Len(pkts[d]) /\ Len(pkts'[d]) = Len(pkts[d]) + 1
        BY <1>1, <1>3, <1>5, <1>7, <2>5 DEF UpTo
      <3>2. Len(Pending(d)') = Len(Pending(d)) + 1
        BY <1>3, <2>2, <2>3, <2>5, <3>1
      <3>3. Pending(d)'[Len(Pending(d)')] = s
        <4>1. Len(pkts'[d]) = new /\ new \in Nat /\ k <= Len(pkts[d]) /\ Len(pkts[d]) = new - 1
          BY <1>1, <1>3, <1>5, <2>5, <3>1
        <4>2. Len(Pending(d)') = new - k
          BY <2>3, <2>5, <4>1
        <4>3. new - k \in 1 .. (Len(pkts'[d]) - k) /\ k + (new - k) = new
          BY <4>1
        <4>4. Pending(d)'[new - k] = pkts'[d][k + (new - k)].size
          BY <2>3, <2>5, <4>3
        <4>. QED BY <1>5, <4>2, <4>3, <4>4
      <3>4. \A i \in 1 .. Len(Pending(d)) : Pending(d)'[i] = Pending(d)[i]
        <4>. SUFFICES ASSUME NEW i \in 1 .. Len(Pending(d))
                      PROVE  Pending(d)'[i] = Pending(d)[i]
          OBVIOUS
        <4>1. /\ i \in 1 .. (Len(pkts[d]) - k) /\ i \in 1 .. (Len(pkts'[d]) - k)
              /\ k + i \in DOMAIN pkts[d]
          BY <1>3, <2>2, <2>5, <3>1
        <4>2. pkts'[d][k + i] = pkts[d][k + i]
          BY <1>2, <4>1
        <4>. QED BY <2>2, <2>3, <2>5, <4>1, <4>2
      <3>. QED BY <2>1, <2>2, <2>3, <2>5, <3>2, <3>3, <3>4, IsAppend
    <2>. QED BY <2>4, <2>5
  <1>8. \A e \in Ends : AllFit(e)' =>
            Pending(e)' = IF e = d THEN Append(Pending(e), s) ELSE Pending(e)
    BY <1>0, <1>7 DEF InOrder
  <1>9. InOrder'
    BY <1>0, <1>7 DEF InOrder
  <1>. QED BY <1>0, <1>8, <1>9 DEF linkBar, queueBar

(* A Read takes the first packet that is pending. *)
LEMMA ReadTakes ==
    ASSUME QueueInv, WebSocketInv', NEW d \in Ends, AllFit(d), WebSocketRead(d)
    PROVE  /\ \E k \in Nat : UpTo(d, k)'
           /\ Pending(d) # <<>> /\ Pending(d)' = Tail(Pending(d))
  <1>. USE DEF QueueInv, WebSocketInv, ChannelInv
  <1>1. PICK i \in DOMAIN pkts[d] :
            /\ pkts[d][i].start <= at[d] /\ at[d] < End(pkts[d][i])
            /\ at' = [at EXCEPT ![d] = @ + Smaller(ReadBuf, End(pkts[d][i]) - at[d])]
            /\ Handle(d, at[d], Smaller(ReadBuf, End(pkts[d][i]) - at[d]), TRUE)
    BY DEF WebSocketRead
  <1>2. /\ kind = "websocket" /\ UNCHANGED <<kind, keyLen, pkts>> /\ Overhead = 0
        /\ AllFit(d)'
    BY DEF WebSocketRead, Overhead, AllFit, Total
  <1>3. \A e \in Ends : /\ Len(pkts[e]) \in Nat /\ DOMAIN pkts[e] = 1 .. Len(pkts[e])
                        /\ at[e] \in Nat
    BY WrittenFacts
  <1>4. \A j \in DOMAIN pkts[d] :
            /\ pkts[d][j].start \in Nat /\ End(pkts[d][j]) \in Nat
            /\ Total(pkts[d][j]) \in Nat \ {0} /\ Total(pkts[d][j]) <= ReadBuf
            /\ End(pkts[d][j]) = pkts[d][j].start + Total(pkts[d][j])
    BY <1>2, PacketFacts DEF AllFit
  <1>5. at'[d] = End(pkts[d][i]) /\ \A e \in Ends : e # d => at'[e] = at[e]
    <2>1. at[d] = pkts[d][i].start
      BY <1>1, <1>2, <1>3, <1>4 DEF NotInside
    <2>2. Smaller(ReadBuf, End(pkts[d][i]) - at[d]) = Total(pkts[d][i])
      BY <1>4, <2>1, TransportAssumption DEF Smaller
    <2>3. /\ at'[d] = at[d] + Total(pkts[d][i])
          /\ \A e \in Ends : e # d => at'[e] = at[e]
      BY <1>1, <2>2 DEF TypeOK
    <2>. QED BY <1>4, <2>1, <2>3
  <1>6. \A e \in Ends : \A j \in DOMAIN pkts[e] : End(pkts[e][j])' = End(pkts[e][j])
    BY <1>2, StillPlaces
  <1>7. \A j \in DOMAIN pkts[d] :
            /\ Arrived(d, j) <=> End(pkts[d][j]) <= at[d]
            /\ Arrived(d, j)' <=> End(pkts[d][j]) <= at'[d]
    BY <1>2, <1>6, ArrivedTaken, ArrivedTakenNext
  <1>8. \A j \in DOMAIN pkts[d] :
            /\ Arrived(d, j) <=> j < i
            /\ Arrived(d, j)' <=> j <= i
    <2>. SUFFICES ASSUME NEW j \in DOMAIN pkts[d]
                  PROVE  /\ End(pkts[d][j]) <= at[d] <=> j < i
                         /\ End(pkts[d][j]) <= at'[d] <=> j <= i
      BY <1>7
    <2>1. CASE j < i
      <3>1. End(pkts[d][j]) <= pkts[d][i].start
        BY <2>1 DEF Ordered
      <3>. QED BY <1>1, <1>3, <1>4, <1>5, <2>1, <3>1
    <2>2. CASE i < j
      <3>1. End(pkts[d][i]) <= pkts[d][j].start
        BY <2>2 DEF Ordered
      <3>2. /\ at[d] \in Nat /\ at[d] < End(pkts[d][i]) /\ at'[d] = End(pkts[d][i])
            /\ End(pkts[d][i]) \in Nat /\ pkts[d][j].start \in Nat
        BY <1>1, <1>3, <1>4, <1>5
      <3>3. End(pkts[d][j]) \in Nat /\ pkts[d][j].start < End(pkts[d][j])
        BY <1>4
      <3>4. ~(End(pkts[d][j]) <= at[d]) /\ ~(End(pkts[d][j]) <= at'[d])
        BY <3>1, <3>2, <3>3
      <3>5. i \in Nat /\ j \in Nat
        BY <1>3
      <3>. QED BY <2>2, <3>4, <3>5
    <2>3. CASE i = j
      BY <1>1, <1>3, <1>4, <1>5, <2>3
    <2>. QED BY <1>3, <2>1, <2>2, <2>3
  <1>9. i - 1 \in Nat /\ UpTo(d, i - 1) /\ UpTo(d, i)'
    BY <1>2, <1>3, <1>8 DEF UpTo
  <1>10. /\ Pending(d) \in Seq(Sizes) /\ Pending(d)' \in Seq(Sizes)
         /\ Len(Pending(d)) = Len(Pending(d)') + 1
         /\ \A m \in 1 .. Len(Pending(d)') : Pending(d)'[m] = Pending(d)[m + 1]
    <2>1. /\ Pending(d) \in Seq(Sizes) /\ Len(Pending(d)) = Len(pkts[d]) - (i - 1)
          /\ \A m \in 1 .. (Len(pkts[d]) - (i - 1)) :
                Pending(d)[m] = pkts[d][(i - 1) + m].size
      BY <1>9, PendingIs
    <2>2. /\ Pending(d)' \in Seq(Sizes) /\ Len(Pending(d)') = Len(pkts[d]) - i
          /\ \A m \in 1 .. (Len(pkts[d]) - i) : Pending(d)'[m] = pkts[d][i + m].size
      <3>1. /\ Pending(d)' \in Seq(Sizes) /\ Len(Pending(d)') = Len(pkts'[d]) - i
            /\ \A m \in 1 .. (Len(pkts'[d]) - i) : Pending(d)'[m] = pkts'[d][i + m].size
        <4>1. i \in Nat /\ TypeOK' /\ UpTo(d, i)'
          BY <1>3, <1>9
        <4>. QED BY <4>1, PendingIsNext, Zenon
      <3>. QED BY <1>2, <3>1
    <2>3. ASSUME NEW m \in 1 .. (Len(pkts[d]) - i)
          PROVE  Pending(d)'[m] = Pending(d)[m + 1]
      <3>1. m + 1 \in 1 .. (Len(pkts[d]) - (i - 1)) /\ (i - 1) + (m + 1) = i + m
        BY <1>3
      <3>. QED BY <2>1, <2>2, <3>1
    <2>. QED BY <1>3, <2>1, <2>2, <2>3
  <1>11. Pending(d) # <<>> /\ Pending(d)' = Tail(Pending(d))
    BY <1>10, IsTail
  <1>12. \E k \in Nat : UpTo(d, k)'
    <2>1. i \in Nat /\ UpTo(d, i)'
      BY <1>3, <1>9
    <2>. QED BY <2>1
  <1>. QED BY <1>11, <1>12

(* What it does not concern stays. *)
LEMMA Untouched ==
    ASSUME TypeOK, TypeOK', UNCHANGED <<kind, pkts>>, NEW e \in Ends, got'[e] = got[e]
    PROVE  /\ \A k \in Nat : UpTo(e, k) => UpTo(e, k)'
           /\ (\E k \in Nat : UpTo(e, k)) => Pending(e)' = Pending(e)
  <1>1. \A j \in DOMAIN pkts[e] : Arrived(e, j)' <=> Arrived(e, j)
    BY StillPlaces DEF Arrived
  <1>2. \A k \in Nat : UpTo(e, k) => UpTo(e, k)'
    BY <1>1 DEF UpTo
  <1>3. ASSUME NEW k \in Nat, UpTo(e, k)
        PROVE  Pending(e)' = Pending(e)
    <2>1. LastDelivered(e) = k /\ LastDelivered(e)' = k
      BY <1>2, <1>3, LastIs, LastIsNext
    <2>. QED BY <2>1 DEF Pending
  <1>. QED BY <1>2, <1>3

LEMMA FitStays ==
    ASSUME UNCHANGED <<kind, pkts>>
    PROVE  (\A e \in Ends : AllFit(e)' = AllFit(e)) /\ linkBar' = linkBar
  <1>1. \A e \in Ends : AllFit(e)' = AllFit(e)
    BY DEF AllFit, Total
  <1>. QED BY <1>1 DEF linkBar

LEMMA ReadReceives ==
    ASSUME QueueInv, WebSocketInv', NEW d \in Ends, WebSocketRead(d)
    PROVE  /\ InOrder' /\ linkBar' = linkBar
           /\ \A e \in Ends : e # d => queueBar'[e] = queueBar[e]
           /\ \/ queueBar'[d] = queueBar[d]
              \/ queueBar[d] # <<>> /\ queueBar'[d] = Tail(queueBar[d])
  <1>. USE DEF QueueInv, WebSocketInv, ChannelInv
  <1>1. /\ kind = "websocket" /\ UNCHANGED <<kind, pkts>>
        /\ \A e \in Ends : e # d => got'[e] = got[e]
    BY DEF WebSocketRead, Handle, TypeOK
  <1>2. (\A e \in Ends : AllFit(e)' = AllFit(e)) /\ linkBar' = linkBar
    BY <1>1, FitStays
  <1>3. ASSUME NEW e \in Ends, e # d, AllFit(e)
        PROVE  (\E k \in Nat : UpTo(e, k)') /\ Pending(e)' = Pending(e)
    BY <1>1, <1>3, Untouched DEF InOrder
  <1>4. ASSUME AllFit(d)
        PROVE  /\ \E k \in Nat : UpTo(d, k)'
               /\ Pending(d) # <<>> /\ Pending(d)' = Tail(Pending(d))
    BY <1>4, ReadTakes
  <1>5. InOrder'
    BY <1>2, <1>3, <1>4 DEF InOrder
  <1>. QED BY <1>1, <1>2, <1>3, <1>4, <1>5 DEF queueBar

-----------------------------------------------------------------------------
(* The refinement *)

LEMMA QueueInit ==
    ASSUME Init
    PROVE  InOrder /\ Queue!Init
  <1>1. \A d \in Ends : pkts[d] = <<>> /\ Len(pkts[d]) = 0 /\ DOMAIN pkts[d] = {}
    BY DEF Init
  <1>2. \A d \in Ends : UpTo(d, 0) /\ AllFit(d)
    BY <1>1 DEF UpTo, AllFit
  <1>3. \A d \in Ends : LastDelivered(d) = 0
    BY <1>2, TypeInit, LastIs
  <1>4. \A d \in Ends : Pending(d) = <<>>
    <2>. SUFFICES ASSUME NEW d \in Ends PROVE Pending(d) = <<>>
      OBVIOUS
    <2>1. Pending(d) \in Seq(Sizes) /\ Len(Pending(d)) = 0
      BY <1>1, <1>2, TypeInit, PendingIs
    <2>. QED BY <2>1
  <1>5. linkBar \in [Ends -> {"none", "open"}]
    BY <1>2 DEF linkBar
  <1>6. queueBar = [d \in Ends |-> <<>>]
    BY <1>4 DEF queueBar
  <1>. QED BY <1>2, <1>5, <1>6 DEF InOrder, Queue!Init, linkBar, queueBar

(* A packet that does not fit breaks the queue. *)
LEMMA PutStepsQueue ==
    ASSUME QueueInv, WebSocketInv', kind = "websocket", PutStep
    PROVE  QueueInv' /\ Queue!Next
  <1>. USE DEF QueueInv
  <1>1. PICK d \in Ends, s \in Sizes, pos \in 0 .. keyLen - 1 :
            PutOnWire(d, s, pos) /\ UNCHANGED <<kind, keyLen, at, got>>
    BY DEF PutStep
  <1>2. /\ InOrder'
        /\ \A e \in Ends : e # d =>
              linkBar'[e] = linkBar[e] /\ queueBar'[e] = queueBar[e]
        /\ AllFit(d)' => /\ linkBar[d] = "open" /\ linkBar'[d] = "open"
                         /\ queueBar'[d] = Append(queueBar[d], s)
    BY <1>1, PutSends
  <1>3. CASE AllFit(d)'
    <2>1. linkBar' = linkBar /\ queueBar' = [queueBar EXCEPT ![d] = Append(@, s)]
      BY <1>2, <1>3 DEF linkBar, queueBar
    <2>2. Queue!Send(d, s)
      BY <1>2, <1>3, <2>1 DEF Queue!Send, linkBar, queueBar
    <2>. QED BY <1>2, <2>2 DEF Queue!Next
  <1>4. CASE ~AllFit(d)'
    <2>1. linkBar'[d] = "lost" /\ queueBar'[d] = <<>>
      BY <1>1, <1>4 DEF linkBar, queueBar
    <2>2. linkBar[d] # "none" /\ linkBar' \in [Ends -> {"none", "open", "lost"}]
      BY DEF linkBar
    <2>3. \A e \in Ends : linkBar'[e] # linkBar[e] =>
              linkBar[e] = "open" /\ linkBar'[e] = "lost"
      BY <1>2, <2>1 DEF linkBar
    <2>4. queueBar' = [e \in Ends |-> IF e \in {d} THEN <<>> ELSE queueBar[e]]
      BY <1>2, <2>1 DEF queueBar
    <2>5. {d} \in SUBSET {e \in Ends : linkBar'[e] = "lost"}
      BY <2>1
    <2>6. Queue!Break
      BY <2>2, <2>3, <2>4, <2>5, Zenon DEF Queue!Break, linkBar, queueBar
    <2>. QED BY <1>2, <2>6 DEF Queue!Next
  <1>. QED BY <1>3, <1>4

LEMMA QueueStep ==
    ASSUME QueueInv, WebSocketInv', [Next]_vars
    PROVE  QueueInv' /\ [Queue!Next]_(Queue!queueVars)
  <1>. USE DEF QueueInv, WebSocketInv, ChannelInv
  <1>1. kind' = kind
    BY KindFixed
  <1>2. CASE kind # "websocket"
    <2>1. UNCHANGED <<linkBar, queueBar>>
      BY <1>1, <1>2 DEF linkBar, queueBar
    <2>. QED BY <1>1, <1>2, <2>1 DEF InOrder, Queue!queueVars, linkBar, queueBar
  <1>3. ASSUME kind = "websocket", PutStep
        PROVE  QueueInv' /\ [Queue!Next]_(Queue!queueVars)
    BY <1>3, PutStepsQueue
  <1>4. ASSUME NEW d \in Ends, WebSocketRead(d)
        PROVE  QueueInv' /\ [Queue!Next]_(Queue!queueVars)
    <2>1. /\ InOrder' /\ linkBar' = linkBar
          /\ \A e \in Ends : e # d => queueBar'[e] = queueBar[e]
          /\ \/ queueBar'[d] = queueBar[d]
             \/ queueBar[d] # <<>> /\ queueBar'[d] = Tail(queueBar[d])
      BY <1>4, ReadReceives
    <2>2. CASE queueBar'[d] = queueBar[d]
      <3>1. queueBar' = queueBar
        BY <2>1, <2>2 DEF queueBar
      <3>. QED BY <2>1, <3>1 DEF Queue!queueVars, linkBar, queueBar
    <2>3. CASE queueBar[d] # <<>> /\ queueBar'[d] = Tail(queueBar[d])
      <3>1. queueBar' = [queueBar EXCEPT ![d] = Tail(@)]
        BY <2>1, <2>3 DEF queueBar
      <3>2. Queue!Receive(d)
        BY <2>1, <2>3, <3>1 DEF Queue!Receive, linkBar, queueBar
      <3>. QED BY <2>1, <3>2 DEF Queue!Next
    <2>. QED BY <2>1, <2>2, <2>3
  <1>5. ASSUME kind = "websocket", QuietStep
        PROVE  QueueInv' /\ [Queue!Next]_(Queue!queueVars)
    <2>1. UNCHANGED <<kind, pkts, at, got>>
      BY <1>5 DEF QuietStep
    <2>2. (\A e \in Ends : AllFit(e)' = AllFit(e)) /\ linkBar' = linkBar
      BY <2>1, FitStays
    <2>3. ASSUME NEW e \in Ends, AllFit(e)
          PROVE  (\E k \in Nat : UpTo(e, k)') /\ Pending(e)' = Pending(e)
      BY <1>5, <2>1, <2>3, Untouched DEF InOrder
    <2>4. InOrder'
      BY <2>2, <2>3 DEF InOrder
    <2>5. queueBar' = queueBar
      BY <2>1, <2>2, <2>3 DEF queueBar
    <2>. QED BY <2>2, <2>4, <2>5 DEF Queue!queueVars, linkBar, queueBar
  <1>6. kind = "websocket" => PutStep \/ QuietStep \/ \E d \in Ends : WebSocketRead(d)
    <2>1. ASSUME kind = "websocket", NEW e \in Ends
          PROVE  ~QUICRead(e) /\ ~ObfsReadData(e)
      BY <2>1 DEF QUICRead, ObfsReadData, OneRead
    <2>. QED BY <2>1, WriteShapes
  <1>. QED BY <1>2, <1>3, <1>4, <1>5, <1>6

(* Over WebSocket, until a packet is sent that does not fit the buffer     *)
(* given to Read, every packet is received, in the order of the Writes and *)
(* none twice: what Server, Client and Tunnel take a connection to be      *)
(* (websocket.go:118-141).                                                 *)
THEOREM WebSocketIsQueue == Spec => ImplementsPacketQueue
  <1>1. Init => InOrder /\ Queue!Init
    BY QueueInit
  <1>2. QueueInv /\ WebSocketInv' /\ [Next]_vars =>
            QueueInv' /\ [Queue!Next]_(Queue!queueVars)
    BY QueueStep
  <1>. QED BY <1>1, <1>2, WebSocketInvariant, PTL
           DEF Spec, ImplementsPacketQueue, Queue!Spec, QueueInv
=============================================================================
