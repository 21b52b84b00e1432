------------------------------ MODULE RecvBuff ------------------------------
(***************************************************************************)
(* hs_net/src/hs_recvbuff.c: the receive buffer of a connection, as        *)
(* operators on values of struct hs_recvbuff.  recv() appends at           *)
(* curr_write; the data handler is offered everything from curr_read on,   *)
(* says how much of it it has used, and the rest moves to the front.       *)
(***************************************************************************)
EXTENDS Memory

RecvBuffs(len) ==
  [data_ptr : Block(len), length : {len},
   curr_write : 0 .. len, curr_read : 0 .. len]

hs_recvbuff_init(len) ==
  [data_ptr |-> Malloc(len), length |-> len, curr_write |-> 0, curr_read |-> 0]

(* Faulty variant: only the read position returns to the start. *)
ClearedForReading(hcb) == [hcb EXCEPT !.curr_read = 0]

hs_recvbuff_clear(hcb) == [hcb EXCEPT !.curr_write = 0, !.curr_read = 0]

-----------------------------------------------------------------------------
(* hs_recvbuff_writeto *)

(* Faulty variant: the room is counted from the read position. *)
LeftAfterRead(hcb) == hcb.length - hcb.curr_read

hs_recvbuff_leftwrite(hcb) ==
  IF hcb.length > hcb.curr_write THEN hcb.length - hcb.curr_write ELSE 0

(* recv() has put `bytes', at most hs_recvbuff_leftwrite of them.          *)
Received(hcb, bytes) ==
  [hcb EXCEPT !.data_ptr = CopyInto(@, hcb.curr_write, bytes),
              !.curr_write = @ + Len(bytes)]

-----------------------------------------------------------------------------
(* hs_recvbuff_data_handle *)

hs_recvbuff_leftread(hcb) == hcb.curr_write - hcb.curr_read

(* What the handler is called with; it is not called when this is empty.   *)
Offered(hcb) == BytesAt(hcb.data_ptr, hcb.curr_read, hs_recvbuff_leftread(hcb))

(* Faulty variants: the rest stays where it is; nothing is kept of it.     *)
HandledWithoutMove(hcb, n) ==
  [hcb EXCEPT !.curr_read = 0, !.curr_write = @ - hcb.curr_read - n]

HandledDropsRest(hcb, n) == IF n = 0 THEN hcb ELSE hs_recvbuff_clear(hcb)

(* After the handler returned n >= 0 (an error, n < 0, changes nothing).   *)
(* hcb is the buffer as the handler leaves it: a handler that gives up the *)
(* connection has cleared it, the rest is then computed from the cleared   *)
(* offsets, and may be negative.                                           *)
Handled(hcb, n) ==
  LET left_read == hcb.curr_write - (hcb.curr_read + n)
  IN  IF n = 0 THEN hcb
      ELSE [hcb EXCEPT !.data_ptr = MoveToFront(@, hcb.curr_read + n, left_read),
                       !.curr_read = 0,
                       !.curr_write = left_read]
=============================================================================
