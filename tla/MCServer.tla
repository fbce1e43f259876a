------------------------------ MODULE MCServer ------------------------------
(* The server with interchangeable connections and session IDs. *)
EXTENDS Server, TLC

Symmetry == Permutations(Conns) \cup Permutations(SessionIDs)
=============================================================================
