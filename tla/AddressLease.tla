---------------------------- MODULE AddressLease ----------------------------
(***************************************************************************)
(* What the VPN server promises about addresses, with no handlers, locks   *)
(* or pool: a connection leases an address nobody else holds, traffic for  *)
(* the address may reach it only between Publish and Withdraw, and the     *)
(* address goes back only when no traffic can reach the old holder.        *)
(***************************************************************************)
CONSTANTS Conns,    \* connections
          Hosts,    \* addresses that can be leased
          NoHost    \* no lease

VARIABLES lease,     \* the address each connection holds, or NoHost
          routed,    \* connections that traffic for their address reaches
          sending    \* connections a packet is being sent to

leaseVars == <<lease, routed, sending>>

Init ==
    /\ lease = [c \in Conns |-> NoHost]
    /\ routed = {}
    /\ sending = {}

Grant(c, h) ==
    /\ lease[c] = NoHost
    /\ \A d \in Conns : lease[d] # h
    /\ lease' = [lease EXCEPT ![c] = h]
    /\ UNCHANGED <<routed, sending>>

Publish(c) ==
    /\ lease[c] # NoHost
    /\ routed' = routed \cup {c}
    /\ UNCHANGED <<lease, sending>>

BeginSend(c) ==
    /\ c \in routed
    /\ sending' = sending \cup {c}
    /\ UNCHANGED <<lease, routed>>

EndSend(c) ==
    /\ sending' = sending \ {c}
    /\ UNCHANGED <<lease, routed>>

Withdraw(c) ==
    /\ c \notin sending
    /\ routed' = routed \ {c}
    /\ UNCHANGED <<lease, sending>>

Revoke(c) ==
    /\ c \notin routed
    /\ c \notin sending
    /\ lease' = [lease EXCEPT ![c] = NoHost]
    /\ UNCHANGED <<routed, sending>>

Next ==
    \E c \in Conns :
        \/ \E h \in Hosts : Grant(c, h)
        \/ Publish(c) \/ Withdraw(c)
        \/ BeginSend(c) \/ EndSend(c)
        \/ Revoke(c)

Spec == Init /\ [][Next]_leaseVars
=============================================================================
