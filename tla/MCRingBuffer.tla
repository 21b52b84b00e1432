---------------------------- MODULE MCRingBuffer ----------------------------
(***************************************************************************)
(* RingBuffer for TLC: messages of each of MessageLengths, filled with one *)
(* byte, among them the one that reads like a mark.                        *)
(***************************************************************************)
EXTENDS RingBuffer

CONSTANTS MessageLengths, Fillings

MCMessages ==
  {[i \in 1 .. n |-> b] : n \in MessageLengths, b \in Fillings}
=============================================================================
