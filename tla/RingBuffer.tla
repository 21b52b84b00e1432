----------------------------- MODULE RingBuffer -----------------------------
(***************************************************************************)
(* The ring buffer of hs_ds: messages of any length, each contiguous in    *)
(* the block and behind two bytes that hold its length.  When a message    *)
(* does not fit behind the last one, the writer goes back to the start and *)
(* leaves a mark (0xff, Base - 1 here) where the next length would be.     *)
(* Read and write offsets that meet mean empty or full; a flag tells.      *)
(*                                                                         *)
(* One writer and one reader of one thread, which call in any order.       *)
(***************************************************************************)
EXTENDS Memory

CONSTANTS
  Base,      \* the values of a byte: 256 in the source
  Length,    \* the length the buffer is created with
  Messages   \* what the program may write

ASSUME BaseAssumption == Base \in Nat /\ Base > 1 /\ Byte = 0 .. Base-1
ASSUME LengthAssumption == Length \in Nat \ {0}
ASSUME MessagesAssumption == Messages \subseteq Seq(Byte)

VARIABLES
  hr,       \* struct hs_ringbuffer
  unread,   \* the messages taken in and not yet read (history)
  got,      \* the bytes of the last read, when it returned
  lent      \* its *buff, an offset, while no later write has succeeded

vars == <<hr, unread, got, lent>>

NoLoan == -1

RingBuffers ==
  [data_ptr : Block(Length), length : {Length},
   curr_read : 0 .. Length-1, curr_write : 0 .. Length-1, is_full : BOOLEAN]

TypeOK ==
  /\ hr \in RingBuffers
  /\ unread \in Seq(Messages)
  /\ got \in Messages \cup {<<>>}
  /\ lent \in {NoLoan} \cup 0 .. Length

hs_ringbuffer_init(len) ==
  [data_ptr |-> Malloc(len), length |-> len,
   curr_read |-> 0, curr_write |-> 0, is_full |-> FALSE]

(* Faulty variant: the content is wiped.                                   *)
Wiped(r) == hs_ringbuffer_init(r.length)

hs_ringbuffer_clear_data(r) ==
  [r EXCEPT !.curr_write = 0, !.curr_read = 0, !.is_full = FALSE]

-----------------------------------------------------------------------------
(* hs_ringbuffer_can_write and hs_ringbuffer_write.  need is bufflen + 2.  *)

Mark == Base - 1

Need(m) == Len(m) + 2

(* Faulty variant: the cell that is kept free counts.                      *)
RoomToTheEnd(r) == r.length - r.curr_write

RoomBehind(r) == r.length - 1 - r.curr_write

StartsOver(r, need) == r.curr_write >= r.curr_read /\ RoomBehind(r) < need

WriteOffset(r, need) == IF StartsOver(r, need) THEN 0 ELSE r.curr_write

(* Faulty variant: a cell before the read offset is kept free as well.     *)
LeftButOne(r, need) ==
  IF r.curr_write < r.curr_read THEN r.curr_read - r.curr_write
  ELSE IF StartsOver(r, need) THEN r.curr_read - 1
  ELSE RoomBehind(r)

Left(r, need) ==
  IF r.curr_write < r.curr_read THEN r.curr_read - r.curr_write
  ELSE IF StartsOver(r, need) THEN r.curr_read
  ELSE RoomBehind(r)

(* Faulty variant: that the ring is full is not looked at.                 *)
CanWriteOver(r, need) == Left(r, need) >= need

CanWrite(r, need) == ~r.is_full /\ Left(r, need) >= need

(* The mark is set by the question, whatever its answer.                   *)
Marked(r, need) ==
  IF ~r.is_full /\ StartsOver(r, need) /\ r.curr_read > 0
  THEN [r EXCEPT !.data_ptr[r.curr_write] = Mark] ELSE r

(* Faulty variant: that the offsets have met is not noted.                 *)
NeverFull(r, end) == FALSE

IsFull(r, end) == end = r.curr_read

LengthBytes(n) == <<(n \div Base) % Base, n % Base>>

hs_ringbuffer_write(r, m) ==
  LET at  == WriteOffset(r, Need(m))
      end == at + Need(m)
  IN  IF ~CanWrite(r, Need(m)) THEN Marked(r, Need(m))
      ELSE [Marked(r, Need(m)) EXCEPT
              !.data_ptr = CopyInto(@, at, LengthBytes(Len(m)) \o m),
              !.curr_write = end,
              !.is_full = IsFull(r, end)]

-----------------------------------------------------------------------------
(* hs_ringbuffer_can_read and hs_ringbuffer_read.                          *)

TurnsBack(r) ==
  /\ r.curr_read >= r.curr_write
  /\ \/ r.length - 1 - r.curr_read < 2
     \/ r.data_ptr[r.curr_read] = Mark

ReadOffset(r) == IF TurnsBack(r) THEN 0 ELSE r.curr_read

(* The variable l: what may lie behind the offset.                         *)
Behind(r) ==
  IF TurnsBack(r) THEN r.curr_write
  ELSE IF r.curr_read >= r.curr_write THEN r.length - 1 - r.curr_read
  ELSE r.curr_write - r.curr_read

(* (c >> 8) & 0xff of a signed char: its sign, eight times.                *)
SignByte(c) == IF c < Base \div 2 THEN 0 ELSE Base - 1

DataLength(r) ==
  SignByte(r.data_ptr[ReadOffset(r)]) + r.data_ptr[ReadOffset(r) + 1]

(* l - 2 is compared as an unsigned number: below 0 it is very large.      *)
CanRead(r) ==
  /\ r.curr_read # r.curr_write \/ r.is_full
  /\ r.curr_read < r.curr_write => Behind(r) >= 2
  /\ Behind(r) >= 2 => DataLength(r) <= Behind(r) - 2

Found(r) == BytesAt(r.data_ptr, ReadOffset(r) + 2, DataLength(r))

hs_ringbuffer_read(r) ==
  [r EXCEPT !.curr_read = ReadOffset(r) + 2 + DataLength(r), !.is_full = FALSE]

-----------------------------------------------------------------------------
Init ==
  /\ hr = hs_ringbuffer_init(Length)
  /\ unread = <<>>
  /\ got = <<>>
  /\ lent = NoLoan

(* A refused write changes at most the mark; the caller is told.           *)
Write(m) ==
  /\ hr' = hs_ringbuffer_write(hr, m)
  /\ IF CanWrite(hr, Need(m))
     THEN unread' = Append(unread, m) /\ lent' = NoLoan
     ELSE UNCHANGED <<unread, lent>>
  /\ UNCHANGED got

(* hs_ringbuffer_can_write is public: a program may ask and not write.     *)
AskWrite(m) ==
  /\ hr' = Marked(hr, Need(m))
  /\ UNCHANGED <<unread, got, lent>>

(* The pointer returned leads into the block; nothing is copied.           *)
Read ==
  /\ CanRead(hr)
  /\ got' = Found(hr)
  /\ lent' = ReadOffset(hr) + 2
  /\ hr' = hs_ringbuffer_read(hr)
  /\ unread' = SubSeq(unread, 2, Len(unread))

ClearData ==
  /\ hr' = hs_ringbuffer_clear_data(hr)
  /\ unread' = <<>>
  /\ UNCHANGED <<got, lent>>

Next ==
  \/ \E m \in Messages : Write(m) \/ AskWrite(m)
  \/ Read
  \/ ClearData

Spec == Init /\ [][Next]_vars

-----------------------------------------------------------------------------
(* The messages a reader gets who reads until he is refused.  More than    *)
(* Length of them no ring can hold.                                        *)
OneAndThen(further) ==
  [r \in RingBuffers |->
     IF CanRead(r) THEN <<Found(r)>> \o further[hs_ringbuffer_read(r)] ELSE <<>>]

AtMost[n \in 0 .. Length] ==
  IF n = 0 THEN [r \in RingBuffers |-> <<>>] ELSE OneAndThen(AtMost[n - 1])

Stored(r) == AtMost[Length][r]

(* "Unless a message is longer than 64k, its first byte cannot be 0xff"    *)
(* (hs_ringbuffer.c:73): up to there lengths are stored and found again,   *)
(* so what a reader would get is what was written and not yet read -       *)
(* through every return to the start, every mark that was set and not      *)
(* needed, and with offsets that meet when the ring is full.               *)
StoredIsUnread == Stored(hr) = unread

(* hs_ringbuffer_read returns a pointer into the block and gives the room  *)
(* free.  What it points to stays as it was until a write succeeds: not    *)
(* even a refused write, or a question, puts its mark there.               *)
LentIsIntact == lent # NoLoan => BytesAt(hr.data_ptr, lent, Len(got)) = got

(* An empty ring does not go back to the start by itself, and what lies    *)
(* before and behind its offsets is never joined.  It can refuse for ever  *)
(* a message it had room for once - but none that takes half of it.        *)
EmptyTakesHalf ==
  unread = <<>> =>
    \A m \in Messages : 2 * Need(m) <= Length => CanWrite(hr, Need(m))

(* The ring implements a queue of messages: what a read returns is the     *)
(* oldest message that was written and not yet read, and only clearing     *)
(* drops any.                                                              *)
Queue == INSTANCE MessageQueue WITH Message <- Messages, queue <- unread
IsAQueue == Queue!Spec
=============================================================================
