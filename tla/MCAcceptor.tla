----------------------------- MODULE MCAcceptor -----------------------------
(* Clients and addresses of agents are interchangeable.  The symmetry is   *)
(* used by the run that checks invariants only.                            *)
EXTENDS Acceptor

MCSymmetry == Permutations(Client) \cup Permutations(Agent)
=============================================================================
