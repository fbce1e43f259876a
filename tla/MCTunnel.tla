------------------------------ MODULE MCTunnel ------------------------------
(* Two clients, one of which reconnects. *)
EXTENDS Tunnel

CONSTANTS a, b

MCMaxGen == [c \in {a, b} |-> IF c = a THEN 2 ELSE 1]
=============================================================================
