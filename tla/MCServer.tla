------------------------------ MODULE MCServer ------------------------------
(* Clients are interchangeable.  The symmetry is   *)
(* used by the run that checks invariants only.                            *)
EXTENDS Server

MCSymmetry == Permutations(Client)
=============================================================================
