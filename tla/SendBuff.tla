------------------------------ MODULE SendBuff ------------------------------
(***************************************************************************)
(* hs_net/src/hs_sendbuff.c: the send buffer of a connection, as operators *)
(* on values of struct hs_sendbuff.  A write appends at write_offset and   *)
(* never wraps; a send takes from read_offset; only when everything has    *)
(* been sent do both offsets return to the start.  buff_state is written   *)
(* once and never read in the source, so the record leaves it out.         *)
(***************************************************************************)
EXTENDS Memory

SendBuffs(len) ==
  [data_ptr : Block(len), length : {len},
   write_offset : 0 .. len, read_offset : 0 .. len]

hs_sendbuff_init(len) ==
  [data_ptr |-> Malloc(len), length |-> len, write_offset |-> 0, read_offset |-> 0]

(* Faulty variant: only the read position returns to the start. *)
RewoundForReading(hs) == [hs EXCEPT !.read_offset = 0]

hs_sendbuff_clear(hs) == [hs EXCEPT !.write_offset = 0, !.read_offset = 0]

-----------------------------------------------------------------------------
(* hs_sendbuff_write *)

(* Faulty variant: room that was sent already counts as room, as in a ring. *)
FreeLikeARing(hs) == hs.length - (hs.write_offset - hs.read_offset)

(* `canwrite': nothing at all on the branch the source reports as an error *)
(* (offsets met somewhere else than at the start).                         *)
CanWrite(hs) ==
  IF hs.write_offset > hs.read_offset THEN hs.length - hs.write_offset
  ELSE IF hs.write_offset = 0 THEN hs.length
  ELSE 0

(* The value hs_sendbuff_write returns. *)
Writable(hs, data) ==
  /\ data # <<>>
  /\ hs.length # 0
  /\ Len(data) <= CanWrite(hs)

(* A write that keeps the part of the data that fits and still fails. *)
WriteThePartThatFits(hs, data) ==
  LET n == IF Len(data) <= CanWrite(hs) THEN Len(data) ELSE CanWrite(hs)
  IN  [hs EXCEPT !.data_ptr = CopyInto(@, hs.write_offset, SubSeq(data, 1, n)),
                 !.write_offset = @ + n]

hs_sendbuff_write(hs, data) ==
  IF Writable(hs, data)
  THEN [hs EXCEPT !.data_ptr = CopyInto(@, hs.write_offset, data),
                  !.write_offset = @ + Len(data)]
  ELSE hs

-----------------------------------------------------------------------------
(* hs_sendbuff_send: what it offers to send() and what it does when send() *)
(* has taken s > 0 bytes.  When send() fails, or nothing is waiting, the   *)
(* buffer stays as it is.                                                  *)

CanSend(hs) == hs.write_offset - hs.read_offset

Unsent(hs) == BytesAt(hs.data_ptr, hs.read_offset, CanSend(hs))

(* Faulty variants: the offsets never return to the start; they return to  *)
(* it after every send.                                                    *)
SentWithoutReset(hs, s) == [hs EXCEPT !.read_offset = @ + s]

SentAlwaysResets(hs, s) == hs_sendbuff_clear(hs)

Sent(hs, s) ==
  IF hs.read_offset + s = hs.write_offset
  THEN hs_sendbuff_clear(hs)
  ELSE [hs EXCEPT !.read_offset = @ + s]
=============================================================================
