------------------------------- MODULE Memory -------------------------------
(***************************************************************************)
(* The little of the C memory that the buffers of hslib work on: a block   *)
(* of cells obtained from malloc(), numbered from 0, and the copies the    *)
(* library makes into and inside such a block.  A sequence of bytes stands *)
(* for the argument of a call (a char* with its length).                   *)
(***************************************************************************)
EXTENDS Integers, Sequences

CONSTANTS
  Byte,     \* the bytes a program transports
  NoByte    \* the content of a cell nobody has written since malloc()

ASSUME NoByteAssumption == NoByte \notin Byte

Block(n) == [0 .. n-1 -> Byte \cup {NoByte}]

Malloc(n) == [i \in 0 .. n-1 |-> NoByte]

(* memcpy(block + at, bytes, Len(bytes)) *)
CopyInto(block, at, bytes) ==
  [i \in DOMAIN block |->
     IF i \in at .. at + Len(bytes) - 1 THEN bytes[i - at + 1] ELSE block[i]]

(* memmove(block, block + from, n) *)
MoveToFront(block, from, n) ==
  [i \in DOMAIN block |-> IF i \in 0 .. n-1 THEN block[i + from] ELSE block[i]]

(* The n bytes found at block + at, as a callee or the kernel sees them. *)
BytesAt(block, at, n) == [i \in 1 .. n |-> block[at + i - 1]]
=============================================================================
