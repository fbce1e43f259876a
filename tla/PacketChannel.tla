--------------------------- MODULE PacketChannel ---------------------------
(***************************************************************************)
(* What a connection promises whatever carries it: the packets an end is   *)
(* given are packets that were sent to it, whole, in the order they were   *)
(* sent, and none of them twice.  Any of them may be lost.                 *)
(***************************************************************************)
EXTENDS Naturals

CONSTANT Ends         \* the two ends of the connection

VARIABLES sent,       \* sent[d]: number of packets sent to end d
          delivered   \* delivered[d]: numbers of the packets given to d

channelVars == <<sent, delivered>>

Init ==
    /\ sent = [d \in Ends |-> 0]
    /\ delivered = [d \in Ends |-> {}]

Send(d) ==
    /\ sent' = [sent EXCEPT ![d] = @ + 1]
    /\ UNCHANGED delivered

Deliver(d, n) ==
    /\ n \in 1 .. sent[d]
    /\ \A m \in delivered[d] : m < n
    /\ delivered' = [delivered EXCEPT ![d] = @ \cup {n}]
    /\ UNCHANGED sent

Next == \E d \in Ends : Send(d) \/ \E n \in 1 .. sent[d] : Deliver(d, n)

Spec == Init /\ [][Next]_channelVars
=============================================================================
