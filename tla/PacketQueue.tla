---------------------------- MODULE PacketQueue ----------------------------
(***************************************************************************)
(* What server and client take a WebSocket connection to be: a queue of    *)
(* packets that loses, repeats and reorders nothing while the connection   *)
(* stands.  When it has broken nothing more is sent on it; what is still   *)
(* in the queue may be received or be dropped.                             *)
(***************************************************************************)
EXTENDS Sequences

CONSTANTS Conns,      \* connections, each in one direction
          Packets     \* what can be sent

VARIABLES link,       \* link[x]: "none", "open" or "lost"
          queue       \* queue[x]: packets sent and not yet received

queueVars == <<link, queue>>

Init ==
    /\ link \in [Conns -> {"none", "open"}]
    /\ queue = [x \in Conns |-> <<>>]

Open(x) ==
    /\ link[x] = "none"
    /\ link' = [link EXCEPT ![x] = "open"]
    /\ UNCHANGED queue

Send(x, p) ==
    /\ link[x] = "open"
    /\ queue' = [queue EXCEPT ![x] = Append(@, p)]
    /\ UNCHANGED link

Receive(x) ==
    /\ queue[x] # <<>>
    /\ queue' = [queue EXCEPT ![x] = Tail(@)]
    /\ UNCHANGED link

(* Some connections break, and what is under way on these, or on others    *)
(* that broke before, is dropped.                                          *)
Break ==
    /\ link' \in [Conns -> {"none", "open", "lost"}]
    /\ \A x \in Conns : link'[x] # link[x] => link[x] = "open" /\ link'[x] = "lost"
    /\ \E D \in SUBSET {x \in Conns : link'[x] = "lost"} :
          queue' = [x \in Conns |-> IF x \in D THEN <<>> ELSE queue[x]]

(* That nothing happens, which [Next]_queueVars allows anyway, comes first  *)
(* because it is what most steps of a connection's users do to the queue.  *)
Next ==
    \/ UNCHANGED queueVars
    \/ Break
    \/ \E x \in Conns :
          \/ Open(x) \/ Receive(x)
          \/ \E p \in Packets : Send(x, p)

Spec == Init /\ [][Next]_queueVars
=============================================================================
