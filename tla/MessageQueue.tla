---------------------------- MODULE MessageQueue ----------------------------
(***************************************************************************)
(* What a ring buffer promises a program: a queue of messages.  A message  *)
(* that is taken in leaves whole, once and in its turn; clearing empties   *)
(* the queue.                                                              *)
(***************************************************************************)
EXTENDS Sequences

CONSTANT Message

VARIABLES
  queue,   \* the messages taken in and not yet read
  got      \* the message read last

vars == <<queue, got>>

Init == queue = <<>> /\ got = <<>>

Put == \E m \in Message : queue' = Append(queue, m) /\ UNCHANGED got

Get ==
  /\ queue # <<>>
  /\ got' = Head(queue)
  /\ queue' = Tail(queue)

Clear == queue' = <<>> /\ UNCHANGED got

Next == Put \/ Get \/ Clear

Spec == Init /\ [][Next]_vars
=============================================================================
