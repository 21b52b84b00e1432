--------------------------- MODULE SendBuffProofs ---------------------------
(***************************************************************************)
(* Proofs about SendBuffStream, for every length, every set of messages    *)
(* and every set of bytes, whatever part of its offers the kernel takes.   *)
(***************************************************************************)
EXTENDS SendBuffStream, BufferLemmas

(* The offsets never meet but at the start, and the unsent bytes are a     *)
(* window of the stream that ends at write_offset.                         *)
OffsetsOK ==
  \/ hs.read_offset < hs.write_offset
  \/ hs.read_offset = 0 /\ hs.write_offset = 0

Inv ==
  /\ TypeOK
  /\ OffsetsOK
  /\ Window(accepted, handed, hs.data_ptr, hs.read_offset, CanSend(hs))

(* What the invariant says of the parts of the state.                      *)
LEMMA InvParts ==
  ASSUME Inv
  PROVE  /\ Length \in Nat /\ Length # 0 /\ hs.length = Length
         /\ hs.write_offset \in 0 .. Length /\ hs.read_offset \in 0 .. Length
         /\ hs.write_offset \in Nat /\ hs.read_offset \in Nat
         /\ CanSend(hs) \in Nat
         /\ CanSend(hs) = hs.write_offset - hs.read_offset
         /\ hs.data_ptr \in Block(Length)
         /\ accepted \in Seq(Byte) /\ handed \in Seq(Byte)
         /\ Len(accepted) \in Nat /\ Len(handed) \in Nat
         /\ Len(accepted) = Len(handed) + CanSend(hs)
         /\ Window(accepted, handed, hs.data_ptr, hs.read_offset, CanSend(hs))
         /\ CanWrite(hs) = Length - hs.write_offset
         /\ Unsent(hs) = BytesAt(hs.data_ptr, hs.read_offset, CanSend(hs))
<1>1. /\ Length \in Nat /\ Length # 0 /\ hs.length = Length
      /\ hs.write_offset \in 0 .. Length /\ hs.read_offset \in 0 .. Length
      /\ hs.data_ptr \in Block(Length)
      /\ accepted \in Seq(Byte) /\ handed \in Seq(Byte)
      /\ Window(accepted, handed, hs.data_ptr, hs.read_offset, CanSend(hs))
  BY LengthAssumption DEF Inv, TypeOK, SendBuffs
<1>2. CanSend(hs) \in Nat /\ CanSend(hs) = hs.write_offset - hs.read_offset
  BY <1>1 DEF Inv, OffsetsOK, CanSend
<1>3. CanWrite(hs) = Length - hs.write_offset
  BY <1>1 DEF Inv, OffsetsOK, CanWrite
<1>4. Len(accepted) \in Nat /\ Len(handed) \in Nat
  BY <1>1, LenProperties
<1>5. Len(accepted) = Len(handed) + CanSend(hs)
  BY <1>1 DEF Window
<1>6. Unsent(hs) = BytesAt(hs.data_ptr, hs.read_offset, CanSend(hs))
  BY DEF Unsent
<1> QED BY <1>1, <1>2, <1>3, <1>4, <1>5, <1>6

LEMMA InitInv == Init => Inv
<1> SUFFICES ASSUME Init PROVE Inv
  OBVIOUS
<1>1. hs \in SendBuffs(Length)
  BY LengthAssumption
  DEF Init, hs_sendbuff_init, SendBuffs, Malloc, Block
<1>2. hs.read_offset = 0 /\ hs.write_offset = 0 /\ CanSend(hs) = 0
  BY DEF Init, hs_sendbuff_init, CanSend
<1>3. accepted = <<>> /\ handed = <<>>
  BY DEF Init
<1> QED BY <1>1, <1>2, <1>3 DEF Inv, TypeOK, OffsetsOK, Window

LEMMA ClearedBuff ==
  ASSUME Inv
  PROVE  /\ hs_sendbuff_clear(hs) \in SendBuffs(Length)
         /\ hs_sendbuff_clear(hs).read_offset = 0
         /\ hs_sendbuff_clear(hs).write_offset = 0
<1>1. 0 \in 0 .. Length /\ hs \in SendBuffs(Length)
  BY LengthAssumption DEF Inv, TypeOK
<1> QED BY <1>1 DEF SendBuffs, hs_sendbuff_clear

(* A write that is accepted copies right behind the window; a refused one  *)
(* changes nothing.                                                        *)
LEMMA WriteInv ==
  ASSUME Inv, NEW data \in Messages, Write(data)
  PROVE  Inv'
<1>1. CASE Writable(hs, data)
  <2> DEFINE block == CopyInto(hs.data_ptr, hs.write_offset, data)
             new == hs.write_offset + Len(data)
  <2>1. data \in Seq(Byte)
    BY MessagesAssumption
  <2>2. Len(data) \in Nat /\ Len(data) # 0
    BY <1>1, <2>1, EmptySeq, LenProperties DEF Writable
  <2>3. Len(data) <= CanWrite(hs)
    BY <1>1 DEF Writable
  <2>4. /\ new \in 0 .. Length /\ hs.read_offset < new
        /\ new - hs.read_offset = CanSend(hs) + Len(data)
        /\ hs.read_offset + CanSend(hs) = hs.write_offset
        /\ hs.read_offset + CanSend(hs) + Len(data) <= Length
    <3>1. /\ Length \in Nat
          /\ hs.write_offset \in Nat /\ hs.read_offset \in Nat
          /\ CanSend(hs) \in Nat
          /\ CanSend(hs) = hs.write_offset - hs.read_offset
          /\ CanWrite(hs) = Length - hs.write_offset
      BY InvParts
    <3>2. Len(data) <= Length - hs.write_offset
      BY <2>3, <3>1
    <3>3. new \in 0 .. Length /\ hs.read_offset < new
      BY <2>2, <3>1, <3>2
    <3>4. hs.read_offset + CanSend(hs) = hs.write_offset
      BY <3>1
    <3> QED BY <2>2, <3>1, <3>2, <3>3, <3>4
  <2>5. block \in Block(Length)
    BY <2>1, InvParts, CopyIntoBlock
  <2>6. Window(accepted \o data, handed,
               CopyInto(hs.data_ptr, hs.read_offset + CanSend(hs), data),
               hs.read_offset, CanSend(hs) + Len(data))
    BY <2>1, <2>4, InvParts, CopyExtendsWindow
  <2>7. Window(accepted \o data, handed, block,
               hs.read_offset, CanSend(hs) + Len(data))
    BY <2>4, <2>6
  <2>8. /\ hs' = [hs EXCEPT !.data_ptr = block, !.write_offset = new]
        /\ accepted' = accepted \o data /\ handed' = handed
    BY <1>1 DEF Write, hs_sendbuff_write
  <2> HIDE DEF block, new
  <2>9. /\ hs' \in SendBuffs(Length)
        /\ hs'.data_ptr = block /\ hs'.write_offset = new
        /\ hs'.read_offset = hs.read_offset
    BY <2>4, <2>5, <2>8 DEF Inv, TypeOK, SendBuffs
  <2>10. OffsetsOK' /\ CanSend(hs)' = CanSend(hs) + Len(data)
    BY <2>4, <2>9 DEF OffsetsOK, CanSend
  <2>11. accepted' \in Seq(Byte)
    BY <2>1, <2>8, InvParts, ConcatProperties
  <2> QED BY <2>7, <2>8, <2>9, <2>10, <2>11, InvParts DEF Inv, TypeOK
<1>2. CASE ~ Writable(hs, data)
  <2>1. hs' = hs /\ accepted' = accepted /\ handed' = handed
    BY <1>2 DEF Write, hs_sendbuff_write
  <2> QED BY <2>1 DEF Inv, TypeOK, OffsetsOK, CanSend
<1> QED BY <1>1, <1>2

(* send() took s bytes from the front of the window.                       *)
LEMMA SendTakes ==
  ASSUME Inv, Send
  PROVE  \E s \in 1 .. CanSend(hs) :
           /\ hs' = Sent(hs, s)
           /\ accepted' = accepted
           /\ handed' \in Seq(Byte)
           /\ Len(handed') = Len(handed) + s
           /\ \A i \in 1 .. Len(handed) : handed'[i] = handed[i]
           /\ Window(accepted, handed', hs.data_ptr, hs.read_offset + s, CanSend(hs) - s)
<1> DEFINE offer == BytesAt(hs.data_ptr, hs.read_offset, CanSend(hs))
<1>1. PICK s \in 1 .. CanSend(hs) :
             /\ handed' = handed \o SubSeq(offer, 1, s)
             /\ hs' = Sent(hs, s)
             /\ accepted' = accepted
  BY InvParts DEF Send
<1>2. s \in 0 .. CanSend(hs)
  BY InvParts
<1>3. /\ handed \o SubSeq(offer, 1, s) \in Seq(Byte)
      /\ Len(handed \o SubSeq(offer, 1, s)) = Len(handed) + s
      /\ \A i \in 1 .. Len(handed) : (handed \o SubSeq(offer, 1, s))[i] = handed[i]
      /\ Window(accepted, handed \o SubSeq(offer, 1, s), hs.data_ptr,
                hs.read_offset + s, CanSend(hs) - s)
  BY <1>2, InvParts, TakeShrinksWindow
<1> QED BY <1>1, <1>3

LEMMA SendInv == ASSUME Inv, Send PROVE Inv'
<1>1. PICK s \in 1 .. CanSend(hs) :
             /\ hs' = Sent(hs, s)
             /\ accepted' = accepted
               /\ handed' \in Seq(Byte)
             /\ Window(accepted, handed', hs.data_ptr, hs.read_offset + s, CanSend(hs) - s)
  BY SendTakes
<1>2. accepted' \in Seq(Byte)
  BY <1>1, InvParts
<1>3. CASE hs.read_offset + s = hs.write_offset
  <2>1. /\ hs' \in SendBuffs(Length)
        /\ hs'.read_offset = 0 /\ hs'.write_offset = 0
    BY <1>1, <1>3, ClearedBuff DEF Sent
  <2>2. CanSend(hs') = 0 /\ CanSend(hs) - s = 0
    BY <1>3, <2>1, InvParts DEF CanSend
  <2>3. Window(accepted', handed', hs'.data_ptr, 0, 0)
    BY <1>1, <2>2 DEF Window
  <2> QED BY <1>1, <1>2, <2>1, <2>2, <2>3 DEF Inv, TypeOK, OffsetsOK
<1>4. CASE hs.read_offset + s # hs.write_offset
  <2> DEFINE new == hs.read_offset + s
  <2>1. /\ new \in 0 .. Length /\ new < hs.write_offset
        /\ CanSend(hs) - s = hs.write_offset - new
    <3>1. /\ Length \in Nat /\ hs.read_offset \in Nat
          /\ hs.write_offset \in Nat /\ hs.write_offset <= Length
          /\ CanSend(hs) = hs.write_offset - hs.read_offset
      BY InvParts
    <3> QED BY <1>4, <3>1
  <2>2. hs' = [hs EXCEPT !.read_offset = new]
    BY <1>1, <1>4 DEF Sent
  <2> HIDE DEF new
  <2>3. /\ hs' \in SendBuffs(Length)
        /\ hs'.read_offset = new /\ hs'.write_offset = hs.write_offset
        /\ hs'.data_ptr = hs.data_ptr
    BY <2>1, <2>2 DEF Inv, TypeOK, SendBuffs
  <2>4. CanSend(hs') = CanSend(hs) - s
    BY <2>1, <2>3 DEF CanSend
  <2>5. OffsetsOK'
    BY <2>1, <2>3 DEF OffsetsOK
  <2> QED BY <1>1, <1>2, <2>3, <2>4, <2>5 DEF Inv, TypeOK, new
<1> QED BY <1>3, <1>4

LEMMA ClearInv == ASSUME Inv, Clear PROVE Inv'
<1>1. /\ hs' \in SendBuffs(Length)
      /\ hs'.read_offset = 0 /\ hs'.write_offset = 0
  BY ClearedBuff DEF Clear
<1>2. CanSend(hs') = 0
  BY <1>1 DEF CanSend
<1>3. accepted' = <<>> /\ handed' = <<>>
  BY DEF Clear
<1> QED BY <1>1, <1>2, <1>3 DEF Inv, TypeOK, OffsetsOK, Window

LEMMA NextInv == ASSUME Inv, [Next]_vars PROVE Inv'
<1>1. CASE \E data \in Messages : Write(data)
  BY <1>1, WriteInv
<1>2. CASE Send
  BY <1>2, SendInv
<1>3. CASE Clear
  BY <1>3, ClearInv
<1>4. CASE UNCHANGED vars
  BY <1>4 DEF vars, Inv, TypeOK, OffsetsOK, CanSend
<1> QED BY <1>1, <1>2, <1>3, <1>4 DEF Next

LEMMA SpecInv == Spec => []Inv
BY InitInv, NextInv, PTL DEF Spec

-----------------------------------------------------------------------------
(* The offsets stay inside the block and only bytes travel: no memcpy()    *)
(* and no send() of hs_sendbuff.c leaves what malloc() returned.           *)
THEOREM TypeCorrect == Spec => []TypeOK
<1>1. Inv => TypeOK
  BY DEF Inv
<1> QED BY <1>1, SpecInv, PTL

(* Conservation: accepted = handed followed by unsent.                     *)
THEOREM Conservation == Spec => []NothingLost
<1>1. Inv => NothingLost
  <2> SUFFICES ASSUME Inv PROVE NothingLost
    OBVIOUS
  <2>1. Conserved(accepted, handed, hs.data_ptr, hs.read_offset, CanSend(hs))
    BY InvParts, WindowConserves
  <2> QED BY <2>1, InvParts DEF NothingLost, Conserved
<1> QED BY <1>1, SpecInv, PTL

(* The branch hs_sendbuff.c:88 reports as an error is never taken: an      *)
(* empty buffer takes a message of its whole length.                       *)
THEOREM DrainedIsWhole == Spec => []EmptyIsAllFree
<1>1. Inv => EmptyIsAllFree
  <2> SUFFICES ASSUME Inv, CanSend(hs) = 0 PROVE CanWrite(hs) = hs.length
    BY DEF EmptyIsAllFree
  <2>1. hs.write_offset = 0
    BY InvParts DEF Inv, OffsetsOK
  <2> QED BY <2>1, InvParts
<1> QED BY <1>1, SpecInv, PTL

(* Each step of the buffer is a step of the pipe.                          *)
LEMMA StepIsPipeStep ==
  ASSUME Inv, [Next]_vars
  PROVE  [Pipe!Next]_Pipe!vars
<1>1. ASSUME NEW data \in Messages, Write(data)
      PROVE  [Pipe!Next]_Pipe!vars
  <2>1. CASE Writable(hs, data)
    <3>1. data \in Seq(Byte) /\ Len(data) <= CanWrite(hs)
      BY <2>1, MessagesAssumption DEF Writable
    <3>2. /\ Len(accepted \o data) = Len(accepted) + Len(data)
          /\ \A i \in 1 .. Len(accepted) + Len(data) : (accepted \o data)[i] =
                IF i <= Len(accepted) THEN accepted[i] ELSE data[i - Len(accepted)]
          /\ Len(data) \in Nat
      BY <3>1, InvParts, ConcatProperties, LenProperties
    <3>3. accepted' = accepted \o data /\ handed' = handed
      BY <1>1, <2>1 DEF Write
    <3>4. Len(accepted') - Len(handed) <= Length
      <4>1. Len(accepted') = Len(handed) + CanSend(hs) + Len(data)
        BY <3>2, <3>3, InvParts
      <4>2. CanSend(hs) + CanWrite(hs) <= Length /\ CanWrite(hs) \in Int
        BY InvParts DEF CanWrite
      <4> QED BY <3>1, <3>2, <4>1, <4>2, InvParts
    <3>5. Pipe!IsPrefixOf(accepted, accepted')
      BY <3>2, <3>3, InvParts DEF Pipe!IsPrefixOf
    <3> QED BY <3>3, <3>4, <3>5 DEF Pipe!Put, Pipe!Next
  <2>2. CASE ~ Writable(hs, data)
    BY <1>1, <2>2 DEF Write, Pipe!vars
  <2> QED BY <2>1, <2>2
<1>2. CASE Send
  <2>1. PICK s \in 1 .. CanSend(hs) :
               /\ accepted' = accepted
               /\ Len(handed') = Len(handed) + s
               /\ \A i \in 1 .. Len(handed) : handed'[i] = handed[i]
               /\ Window(accepted, handed', hs.data_ptr,
                         hs.read_offset + s, CanSend(hs) - s)
    BY <1>2, SendTakes
  <2>2. Pipe!Take
    BY <2>1, InvParts DEF Pipe!Take, Pipe!IsPrefixOf, Window
  <2> QED BY <2>2 DEF Pipe!Next
<1>3. CASE Clear
  BY <1>3 DEF Clear, Pipe!Next, Pipe!Reset
<1>4. CASE UNCHANGED vars
  BY <1>4 DEF vars, Pipe!vars
<1> QED BY <1>1, <1>2, <1>3, <1>4 DEF Next

(* Refinement: the bytes of accepted writes leave in their order, each     *)
(* once, and never more than Length of them wait.                          *)
THEOREM ImplementsPipe == Spec => IsAPipe
<1>1. Init => Pipe!Init
  BY DEF Init, Pipe!Init
<1> QED BY <1>1, StepIsPipeStep, SpecInv, PTL DEF Spec, IsAPipe, Pipe!Spec
=============================================================================
