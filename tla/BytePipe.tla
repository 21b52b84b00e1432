------------------------------ MODULE BytePipe ------------------------------
(***************************************************************************)
(* What both buffers of hs_net promise their users, whatever offsets and   *)
(* copies they use: a bounded pipe.  Bytes leave in the order they entered *)
(* and each of them once; no more than Capacity bytes are ever inside; a   *)
(* reset, when the connection is given up, empties the pipe.               *)
(***************************************************************************)
EXTENDS Integers, Sequences

CONSTANT Capacity

VARIABLES
  in,    \* every byte that entered since the last reset
  out    \* every byte that left since the last reset

vars == <<in, out>>

IsPrefixOf(s, t) ==
  /\ Len(s) <= Len(t)
  /\ \A i \in 1 .. Len(s) : s[i] = t[i]

Init == in = <<>> /\ out = <<>>

Put ==
  /\ IsPrefixOf(in, in')
  /\ Len(in') - Len(out) <= Capacity
  /\ UNCHANGED out

Take ==
  /\ IsPrefixOf(out, out')
  /\ IsPrefixOf(out', in)
  /\ UNCHANGED in

Reset == in' = <<>> /\ out' = <<>>

Next == Put \/ Take \/ Reset

Spec == Init /\ [][Next]_vars
=============================================================================
