--------------------------- MODULE RecvBuffStream ---------------------------
(***************************************************************************)
(* A receive buffer in the hands of its owner: the main loop fills it from *)
(* the socket, the application's data handler uses bytes from its front,   *)
(* and the owner clears it when the connection is gone - also from inside  *)
(* the handler, which may call hs_net_connector_disconnect.                *)
(***************************************************************************)
EXTENDS RecvBuff

CONSTANTS
  Length,              \* the length the buffer is created with
  ReturnsAfterClear    \* what a handler that cleared the buffer may return

ASSUME LengthAssumption == Length \in Nat \ {0}
ASSUME ReturnsAssumption == ReturnsAfterClear \subseteq Nat

VARIABLES
  hcb,         \* struct hs_recvbuff
  received,    \* bytes recv() delivered on this connection
  consumed     \* bytes the handler has said it used on this connection

vars == <<hcb, received, consumed>>

TypeOK ==
  /\ hcb \in RecvBuffs(Length)
  /\ received \in Seq(Byte)
  /\ consumed \in Seq(Byte)

Init ==
  /\ hcb = hs_recvbuff_init(Length)
  /\ received = <<>>
  /\ consumed = <<>>

(* hs_recvbuff_writeto: one recv() into the room that is left.  Without    *)
(* room, or when recv() fails or meets the end, the buffer is unchanged.   *)
WriteTo ==
  \E n \in 1 .. hs_recvbuff_leftwrite(hcb) :
    \E bytes \in [1 .. n -> Byte] :
      /\ hcb' = Received(hcb, bytes)
      /\ received' = received \o bytes
      /\ UNCHANGED consumed

(* hs_recvbuff_data_handle with a handler that uses n of the bytes offered.*)
DataHandle ==
  \E n \in 1 .. hs_recvbuff_leftread(hcb) :
    /\ hcb' = Handled(hcb, n)
    /\ consumed' = consumed \o SubSeq(Offered(hcb), 1, n)
    /\ UNCHANGED received

(* The same, with a handler that gives up the connection and returns n.    *)
DataHandleClears ==
  /\ hs_recvbuff_leftread(hcb) > 0
  /\ \E n \in ReturnsAfterClear : hcb' = Handled(hs_recvbuff_clear(hcb), n)
  /\ received' = <<>>
  /\ consumed' = <<>>

(* The owner gives up the connection outside the handler.                  *)
Clear ==
  /\ hcb' = hs_recvbuff_clear(hcb)
  /\ received' = <<>>
  /\ consumed' = <<>>

Next == WriteTo \/ DataHandle \/ DataHandleClears \/ Clear

Spec == Init /\ [][Next]_vars

-----------------------------------------------------------------------------
(* Conservation: the bytes received are the bytes used followed by the     *)
(* bytes the handler is offered next, whatever parts of its offers it      *)
(* used: none is skipped, offered again after use, or taken from a cell    *)
(* that recv() never filled.                                               *)
NothingLost == received = consumed \o Offered(hcb)

(* The rest is really moved to the front (hs_recvbuff.c:115): room that    *)
(* was used is room again at once, so a connection whose handler keeps up  *)
(* is never told that the buffer is full.                                  *)
UsedRoomIsRoom ==
  hs_recvbuff_leftwrite(hcb) = Length - (Len(received) - Len(consumed))

(* The buffer implements a pipe of its length.                             *)
Pipe == INSTANCE BytePipe WITH Capacity <- Length, in <- received, out <- consumed
IsAPipe == Pipe!Spec
=============================================================================
