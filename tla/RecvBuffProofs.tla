--------------------------- MODULE RecvBuffProofs ---------------------------
(***************************************************************************)
(* Proofs about RecvBuffStream, for every length and every set of bytes,   *)
(* under the one assumption the runs show to be needed: a handler that     *)
(* gave up the connection does not claim to have used bytes of it.         *)
(***************************************************************************)
EXTENDS RecvBuffStream, BufferLemmas

(* NothingLost and UsedRoomIsRoom are not inductive: they do not say where *)
(* in the block the bytes are.  The window does.                           *)
Inv ==
  /\ TypeOK
  /\ hcb.curr_read = 0
  /\ Window(received, consumed, hcb.data_ptr, 0, hcb.curr_write)

LEMMA InitInv == Init => Inv
<1> SUFFICES ASSUME Init PROVE Inv
  OBVIOUS
<1>1. hcb \in RecvBuffs(Length)
  BY LengthAssumption
  DEF Init, hs_recvbuff_init, RecvBuffs, Malloc, Block
<1>2. hcb.curr_read = 0 /\ hcb.curr_write = 0
  BY DEF Init, hs_recvbuff_init
<1>3. received = <<>> /\ consumed = <<>>
  BY DEF Init
<1> QED BY <1>1, <1>2, <1>3 DEF Inv, TypeOK, Window

(* What the invariant says of the parts of the state.                      *)
LEMMA InvParts ==
  ASSUME Inv
  PROVE  /\ Length \in Nat /\ hcb.length = Length
         /\ hcb.curr_write \in 0 .. Length /\ hcb.curr_write \in Nat
         /\ hcb.curr_read = 0
         /\ hcb.data_ptr \in Block(Length)
         /\ received \in Seq(Byte) /\ consumed \in Seq(Byte)
         /\ Len(received) \in Nat /\ Len(consumed) \in Nat
         /\ Len(received) = Len(consumed) + hcb.curr_write
         /\ Window(received, consumed, hcb.data_ptr, 0, hcb.curr_write)
         /\ hs_recvbuff_leftread(hcb) = hcb.curr_write
         /\ hs_recvbuff_leftwrite(hcb) = Length - hcb.curr_write
         /\ Offered(hcb) = BytesAt(hcb.data_ptr, 0, hcb.curr_write)
<1>1. /\ Length \in Nat /\ hcb.length = Length
      /\ hcb.curr_write \in 0 .. Length /\ hcb.curr_read = 0
      /\ hcb.data_ptr \in Block(Length)
      /\ received \in Seq(Byte) /\ consumed \in Seq(Byte)
      /\ Window(received, consumed, hcb.data_ptr, 0, hcb.curr_write)
  BY LengthAssumption DEF Inv, TypeOK, RecvBuffs
<1>2. hs_recvbuff_leftread(hcb) = hcb.curr_write
  BY <1>1 DEF hs_recvbuff_leftread
<1>3. hs_recvbuff_leftwrite(hcb) = Length - hcb.curr_write
  BY <1>1 DEF hs_recvbuff_leftwrite
<1>4. Offered(hcb) = BytesAt(hcb.data_ptr, 0, hcb.curr_write)
  BY <1>1, <1>2 DEF Offered
<1>5. Len(received) \in Nat /\ Len(consumed) \in Nat
  BY <1>1, LenProperties
<1>6. Len(received) = Len(consumed) + hcb.curr_write
  BY <1>1 DEF Window
<1> QED BY <1>1, <1>2, <1>3, <1>4, <1>5, <1>6

(* One recv() puts bytes into the room that is left.                       *)
LEMMA WriteToPuts ==
  ASSUME Inv, WriteTo
  PROVE  \E bytes \in Seq(Byte) :
           /\ hcb.curr_write + Len(bytes) <= Length
           /\ hcb' = Received(hcb, bytes)
           /\ received' = received \o bytes
           /\ consumed' = consumed
<1>1. PICK n \in 1 .. hs_recvbuff_leftwrite(hcb) :
             \E bytes \in [1 .. n -> Byte] :
               /\ hcb' = Received(hcb, bytes)
               /\ received' = received \o bytes
               /\ UNCHANGED consumed
  BY DEF WriteTo
<1>2. PICK bytes \in [1 .. n -> Byte] :
             /\ hcb' = Received(hcb, bytes)
             /\ received' = received \o bytes
             /\ UNCHANGED consumed
  BY <1>1
<1>3. n \in Nat /\ hcb.curr_write + n <= Length
  BY InvParts
<1>4. bytes \in Seq(Byte)
  BY <1>3, SeqDef
<1>5. Len(bytes) = n
  BY <1>3, <1>4, LenProperties
<1> QED BY <1>2, <1>3, <1>4, <1>5

LEMMA WriteToInv == ASSUME Inv, WriteTo PROVE Inv'
<1>1. PICK bytes \in Seq(Byte) :
             /\ hcb.curr_write + Len(bytes) <= Length
             /\ hcb' = Received(hcb, bytes)
             /\ received' = received \o bytes
             /\ consumed' = consumed
  BY WriteToPuts
<1> DEFINE block == CopyInto(hcb.data_ptr, hcb.curr_write, bytes)
           new == hcb.curr_write + Len(bytes)
<1>2. block \in Block(Length)
  BY InvParts, CopyIntoBlock
<1>3. Len(bytes) \in Nat /\ new \in 0 .. Length
  BY <1>1, InvParts, LenProperties
<1>4. hcb' = [hcb EXCEPT !.data_ptr = block, !.curr_write = new]
  BY <1>1 DEF Received
<1>5. /\ 0 \in Nat /\ hcb.curr_write \in Nat /\ 0 + hcb.curr_write = hcb.curr_write
      /\ 0 + hcb.curr_write + Len(bytes) <= Length
  BY <1>1, <1>3, InvParts
<1>6. Window(received \o bytes, consumed,
             CopyInto(hcb.data_ptr, 0 + hcb.curr_write, bytes),
             0, hcb.curr_write + Len(bytes))
  BY <1>5, InvParts, CopyExtendsWindow
<1>7. Window(received', consumed', block, 0, new)
  BY <1>1, <1>5, <1>6
<1> HIDE DEF block, new
<1>8. /\ hcb' \in RecvBuffs(Length)
      /\ hcb'.curr_read = 0 /\ hcb'.curr_write = new /\ hcb'.data_ptr = block
  BY <1>2, <1>3, <1>4 DEF Inv, TypeOK, RecvBuffs
<1>9. received' \in Seq(Byte) /\ consumed' \in Seq(Byte)
  BY <1>1, InvParts, ConcatProperties
<1> QED BY <1>7, <1>8, <1>9 DEF Inv, TypeOK

(* The handler takes n bytes from the front of what it is offered.         *)
LEMMA DataHandleTakes ==
  ASSUME Inv, DataHandle
  PROVE  \E n \in 1 .. hcb.curr_write :
           /\ hcb' = Handled(hcb, n)
           /\ received' = received
           /\ consumed' \in Seq(Byte)
           /\ Len(consumed') = Len(consumed) + n
           /\ \A i \in 1 .. Len(consumed) : consumed'[i] = consumed[i]
           /\ Window(received, consumed', hcb.data_ptr, n, hcb.curr_write - n)
<1> DEFINE taken(n) == SubSeq(BytesAt(hcb.data_ptr, 0, hcb.curr_write), 1, n)
<1>1. PICK n \in 1 .. hcb.curr_write :
             /\ hcb' = Handled(hcb, n)
             /\ consumed' = consumed \o taken(n)
             /\ received' = received
  BY InvParts DEF DataHandle
<1>2. 0 \in Nat /\ hcb.curr_write \in Nat /\ n \in 0 .. hcb.curr_write /\ 0 + n = n
  BY InvParts
<1>3. /\ consumed \o taken(n) \in Seq(Byte)
      /\ Len(consumed \o taken(n)) = Len(consumed) + n
      /\ \A i \in 1 .. Len(consumed) : (consumed \o taken(n))[i] = consumed[i]
      /\ Window(received, consumed \o taken(n), hcb.data_ptr, 0 + n, hcb.curr_write - n)
  BY <1>2, InvParts, TakeShrinksWindow
<1> QED BY <1>1, <1>2, <1>3

(* The handler used n bytes and the rest moved to the front.               *)
LEMMA DataHandleInv == ASSUME Inv, DataHandle PROVE Inv'
<1>1. PICK n \in 1 .. hcb.curr_write :
             /\ hcb' = Handled(hcb, n)
             /\ received' = received
             /\ consumed' \in Seq(Byte)
             /\ Window(received, consumed', hcb.data_ptr, n, hcb.curr_write - n)
  BY DataHandleTakes
<1> DEFINE left == hcb.curr_write - n
           block == MoveToFront(hcb.data_ptr, n, left)
<1>2. n \in Nat /\ left \in Nat /\ n + left <= Length /\ left \in 0 .. Length
  BY InvParts
<1>3. hcb' = [hcb EXCEPT !.data_ptr = block, !.curr_read = 0, !.curr_write = left]
  <2>1. n # 0 /\ hcb.curr_read + n = n
    BY InvParts
  <2> QED BY <1>1, <2>1 DEF Handled
<1> HIDE DEF left
<1>4. Window(received, consumed', block, 0, left)
  BY <1>1, <1>2, InvParts, MoveKeepsWindow DEF left
<1>5. block \in Block(Length)
  BY <1>1, <1>2, InvParts, MoveKeepsWindow DEF left
<1> HIDE DEF block
<1>6. /\ hcb' \in RecvBuffs(Length)
      /\ hcb'.curr_read = 0 /\ hcb'.curr_write = left /\ hcb'.data_ptr = block
  BY <1>2, <1>3, <1>5 DEF Inv, TypeOK, RecvBuffs
<1>7. received' \in Seq(Byte)
  BY <1>1, InvParts
<1> QED BY <1>1, <1>4, <1>6, <1>7 DEF Inv, TypeOK

(* A cleared buffer shows an empty window of an empty stream.              *)
LEMMA ClearedInv ==
  ASSUME Inv, hcb' = hs_recvbuff_clear(hcb), received' = <<>>, consumed' = <<>>
  PROVE  Inv'
<1>1. hcb' \in RecvBuffs(Length)
  BY LengthAssumption DEF Inv, TypeOK, RecvBuffs, hs_recvbuff_clear
<1>2. hcb'.curr_read = 0 /\ hcb'.curr_write = 0
  BY DEF Inv, TypeOK, RecvBuffs, hs_recvbuff_clear
<1> QED BY <1>1, <1>2 DEF Inv, TypeOK, Window

LEMMA NextInv ==
  ASSUME ReturnsAfterClear \subseteq {0}, Inv, [Next]_vars
  PROVE  Inv'
<1>1. CASE WriteTo
  BY <1>1, WriteToInv
<1>2. CASE DataHandle
  BY <1>2, DataHandleInv
<1>3. CASE DataHandleClears
  <2>1. hcb' = hs_recvbuff_clear(hcb) /\ received' = <<>> /\ consumed' = <<>>
    BY <1>3 DEF DataHandleClears, Handled
  <2> QED BY <2>1, ClearedInv
<1>4. CASE Clear
  BY <1>4, ClearedInv DEF Clear
<1>5. CASE UNCHANGED vars
  BY <1>5 DEF vars, Inv, TypeOK
<1> QED BY <1>1, <1>2, <1>3, <1>4, <1>5 DEF Next

LEMMA SpecInv == ASSUME ReturnsAfterClear \subseteq {0} PROVE Spec => []Inv
BY InitInv, NextInv, PTL DEF Spec

-----------------------------------------------------------------------------
(* The offsets of the buffer stay inside its block, and what it transports *)
(* are bytes (hs_recvbuff.c: no recv() and no memmove() leaves the block). *)
THEOREM TypeCorrect ==
  ASSUME ReturnsAfterClear \subseteq {0} PROVE Spec => []TypeOK
<1>1. Inv => TypeOK
  BY DEF Inv
<1> QED BY <1>1, SpecInv, PTL

(* Conservation: what recv() delivered is what the handler used followed   *)
(* by what it is offered next.                                             *)
THEOREM Conservation ==
  ASSUME ReturnsAfterClear \subseteq {0} PROVE Spec => []NothingLost
<1>1. Inv => NothingLost
  <2> SUFFICES ASSUME Inv PROVE NothingLost
    OBVIOUS
  <2>1. /\ 0 \in Nat /\ hcb.curr_write \in Nat
        /\ received \in Seq(Byte) /\ consumed \in Seq(Byte)
        /\ Window(received, consumed, hcb.data_ptr, 0, hcb.curr_write)
    BY InvParts
  <2>2. Conserved(received, consumed, hcb.data_ptr, 0, hcb.curr_write)
    BY <2>1, WindowConserves
  <2> QED BY <2>2, InvParts DEF NothingLost, Conserved
<1> QED BY <1>1, SpecInv, PTL

(* The room of used bytes is room again at once.                           *)
THEOREM RoomComesBack ==
  ASSUME ReturnsAfterClear \subseteq {0} PROVE Spec => []UsedRoomIsRoom
<1>1. Inv => UsedRoomIsRoom
  BY InvParts DEF UsedRoomIsRoom
<1> QED BY <1>1, SpecInv, PTL

(* The buffer implements the pipe: its first state is the empty pipe, and  *)
(* each of its steps puts, takes or resets.                                *)
LEMMA StepIsPipeStep ==
  ASSUME ReturnsAfterClear \subseteq {0}, Inv, [Next]_vars
  PROVE  [Pipe!Next]_Pipe!vars
<1>1. CASE WriteTo
  <2>1. PICK bytes \in Seq(Byte) :
               /\ hcb.curr_write + Len(bytes) <= Length
               /\ received' = received \o bytes
               /\ consumed' = consumed
    BY <1>1, WriteToPuts
  <2>2. /\ Len(received') = Len(received) + Len(bytes)
        /\ \A i \in 1 .. Len(received) : received'[i] = received[i]
        /\ Len(bytes) \in Nat
    <3>1. /\ Len(received \o bytes) = Len(received) + Len(bytes)
          /\ \A i \in 1 .. Len(received) + Len(bytes) : (received \o bytes)[i] =
                IF i <= Len(received) THEN received[i] ELSE bytes[i - Len(received)]
          /\ Len(bytes) \in Nat
      BY InvParts, ConcatProperties, LenProperties
    <3> QED BY <2>1, <3>1, InvParts
  <2>3. Pipe!Put
    BY <2>1, <2>2, InvParts DEF Pipe!Put, Pipe!IsPrefixOf
  <2> QED BY <2>3 DEF Pipe!Next
<1>2. CASE DataHandle
  <2>1. PICK n \in 1 .. hcb.curr_write :
               /\ received' = received
               /\ Len(consumed') = Len(consumed) + n
               /\ \A i \in 1 .. Len(consumed) : consumed'[i] = consumed[i]
               /\ Window(received, consumed', hcb.data_ptr, n, hcb.curr_write - n)
    BY <1>2, DataHandleTakes
  <2>2. Pipe!Take
    BY <2>1, InvParts DEF Pipe!Take, Pipe!IsPrefixOf, Window
  <2> QED BY <2>2 DEF Pipe!Next
<1>3. CASE DataHandleClears \/ Clear
  BY <1>3 DEF DataHandleClears, Clear, Pipe!Next, Pipe!Reset
<1>4. CASE UNCHANGED vars
  BY <1>4 DEF vars, Pipe!vars
<1> QED BY <1>1, <1>2, <1>3, <1>4 DEF Next

(* Refinement: in the order they came, each byte once, never more than     *)
(* Length of them inside.                                                  *)
THEOREM ImplementsPipe ==
  ASSUME ReturnsAfterClear \subseteq {0} PROVE Spec => IsAPipe
<1>1. Init => Pipe!Init
  BY DEF Init, Pipe!Init
<1> QED BY <1>1, StepIsPipeStep, SpecInv, PTL DEF Spec, IsAPipe, Pipe!Spec
=============================================================================
