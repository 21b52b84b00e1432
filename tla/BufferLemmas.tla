---------------------------- MODULE BufferLemmas ----------------------------
(***************************************************************************)
(* Facts about the copies of module Memory and about the buffers built on  *)
(* them, which the other proof modules share.                              *)
(***************************************************************************)
EXTENDS SendBuff, RecvBuff, SequencesExt, SequenceTheorems, WellFoundedInduction, TLAPS

-----------------------------------------------------------------------------
(* A buffer holds a window of a stream: the n bytes that entered it and    *)
(* have not left are the cells at .. at+n-1 of its block.  A copy behind   *)
(* the window, a take from its front and a move of the window to the front *)
(* of the block keep it a window.                                          *)

Window(in, out, block, at, n) ==
  /\ Len(in) = Len(out) + n
  /\ \A i \in 1 .. Len(out) : in[i] = out[i]
  /\ \A i \in 1 .. n : in[Len(out) + i] = block[at + i - 1]

(* What entered is what left followed by what the window shows.            *)
Conserved(in, out, block, at, n) == in = out \o BytesAt(block, at, n)

(* A window shows bytes only, never a cell nobody wrote, and n of them.    *)
LEMMA WindowShowsBytes ==
  ASSUME NEW in \in Seq(Byte), NEW out \in Seq(Byte), NEW block,
         NEW at \in Nat, NEW n \in Nat, Window(in, out, block, at, n)
  PROVE  BytesAt(block, at, n) \in [1 .. n -> Byte]
<1>1. ASSUME NEW i \in 1 .. n
      PROVE  block[at + i - 1] \in Byte
  <2>1. Len(out) + i \in 1 .. Len(in)
    BY LenProperties DEF Window
  <2>2. in[Len(out) + i] \in Byte
    BY <2>1, ElementOfSeq
  <2> QED BY <2>2 DEF Window
<1> QED BY <1>1 DEF BytesAt

(* The bytes of a stream are conserved by what holds its window.           *)
LEMMA WindowConserves ==
  ASSUME NEW in \in Seq(Byte), NEW out \in Seq(Byte), NEW block,
         NEW at \in Nat, NEW n \in Nat, Window(in, out, block, at, n)
  PROVE  Conserved(in, out, block, at, n)
<1> DEFINE b == BytesAt(block, at, n)
<1>1. /\ b \in Seq(Byte)
      /\ Len(b) = n
      /\ \A i \in 1 .. n : b[i] = block[at + i - 1]
  <2>1. b \in [1 .. n -> Byte]
    BY WindowShowsBytes
  <2>2. b \in Seq(Byte)
    BY <2>1, SeqDef
  <2> QED BY <2>1, <2>2, LenProperties DEF BytesAt
<1> HIDE DEF b
<1>2. /\ out \o b \in Seq(Byte)
      /\ Len(out \o b) = Len(out) + n
      /\ \A i \in 1 .. Len(out) + n :
           (out \o b)[i] = IF i <= Len(out) THEN out[i] ELSE b[i - Len(out)]
      /\ Len(out) \in Nat
  BY <1>1, ConcatProperties, LenProperties
<1>3. ASSUME NEW i \in 1 .. Len(in)
      PROVE  in[i] = (out \o b)[i]
  <2>1. CASE i <= Len(out)
    BY <1>2, <2>1 DEF Window
  <2>2. CASE i > Len(out)
    <3>1. i - Len(out) \in 1 .. n /\ Len(out) + (i - Len(out)) = i
      BY <1>2, <2>2 DEF Window
    <3>2. in[i] = block[at + (i - Len(out)) - 1]
      BY <3>1 DEF Window
    <3> QED BY <1>1, <1>2, <2>2, <3>1, <3>2 DEF Window
  <2> QED BY <1>2, <2>1, <2>2 DEF Window
<1>4. in = out \o b
  BY <1>2, <1>3, SeqEqual DEF Window
<1> QED BY <1>4 DEF Conserved, b

(* A copy right behind the window, inside the block, appends to it.        *)
LEMMA CopyExtendsWindow ==
  ASSUME NEW in \in Seq(Byte), NEW out \in Seq(Byte), NEW bytes \in Seq(Byte),
         NEW len \in Nat, NEW block \in Block(len),
         NEW at \in Nat, NEW n \in Nat,
         Window(in, out, block, at, n), at + n + Len(bytes) <= len
  PROVE  Window(in \o bytes, out, CopyInto(block, at + n, bytes), at, n + Len(bytes))
<1> DEFINE c == CopyInto(block, at + n, bytes)
<1>1. /\ Len(in \o bytes) = Len(in) + Len(bytes)
      /\ \A i \in 1 .. Len(in) + Len(bytes) : (in \o bytes)[i] =
            IF i <= Len(in) THEN in[i] ELSE bytes[i - Len(in)]
      /\ Len(in) \in Nat /\ Len(out) \in Nat /\ Len(bytes) \in Nat
  BY ConcatProperties, LenProperties
<1>2. ASSUME NEW i \in 1 .. n + Len(bytes)
      PROVE  (in \o bytes)[Len(out) + i] = c[at + i - 1]
  <2>0. at + i - 1 \in DOMAIN block /\ Len(out) + i \in 1 .. Len(in) + Len(bytes)
    BY <1>1 DEF Window, Block
  <2>1. CASE i <= n
    <3>1. c[at + i - 1] = block[at + i - 1]
      BY <1>1, <2>0, <2>1 DEF CopyInto
    <3>2. Len(out) + i <= Len(in) /\ i \in 1 .. n
      BY <1>1, <2>1 DEF Window
    <3> QED BY <1>1, <2>0, <3>1, <3>2 DEF Window
  <2>2. CASE i > n
    <3>1. c[at + i - 1] = bytes[at + i - 1 - (at + n) + 1]
      BY <1>1, <2>0, <2>2 DEF CopyInto
    <3>2. Len(in) = Len(out) + n
      BY DEF Window
    <3>3. /\ at + i - 1 - (at + n) + 1 = i - n
          /\ Len(out) + i - Len(in) = i - n
          /\ ~(Len(out) + i <= Len(in))
      BY <1>1, <2>2, <3>2
    <3>4. (in \o bytes)[Len(out) + i] = bytes[Len(out) + i - Len(in)]
      BY <1>1, <2>0, <3>3
    <3> QED BY <3>1, <3>3, <3>4
  <2>3. i <= n \/ i > n
    BY <1>1
  <2> QED BY <2>1, <2>2, <2>3
<1>3. /\ Len(in \o bytes) = Len(out) + (n + Len(bytes))
      /\ \A i \in 1 .. Len(out) : (in \o bytes)[i] = out[i]
  <2>1. Len(in) = Len(out) + n /\ \A i \in 1 .. Len(out) : in[i] = out[i]
    BY DEF Window
  <2>2. \A i \in 1 .. Len(out) : i <= Len(in) /\ i \in 1 .. Len(in) + Len(bytes)
    BY <1>1, <2>1
  <2> QED BY <1>1, <2>1, <2>2
<1> QED BY <1>2, <1>3 DEF Window

(* A copy keeps a block a block.                                           *)
LEMMA CopyIntoBlock ==
  ASSUME NEW len \in Nat, NEW block \in Block(len), NEW at \in Nat,
         NEW bytes \in Seq(Byte)
  PROVE  CopyInto(block, at, bytes) \in Block(len)
<1>1. ASSUME NEW i \in 0 .. len-1
      PROVE  (IF i \in at .. at + Len(bytes) - 1 THEN bytes[i - at + 1] ELSE block[i])
               \in Byte \cup {NoByte}
  <2>1. CASE i \in at .. at + Len(bytes) - 1
    <3>1. i - at + 1 \in 1 .. Len(bytes)
      BY <2>1, LenProperties
    <3> QED BY <2>1, <3>1, ElementOfSeq
  <2>2. CASE i \notin at .. at + Len(bytes) - 1
    BY <2>2 DEF Block
  <2> QED BY <2>1, <2>2
<1> QED BY <1>1 DEF Block, CopyInto

(* Taking s of the bytes the window shows leaves the window of the rest.   *)
LEMMA TakeShrinksWindow ==
  ASSUME NEW in \in Seq(Byte), NEW out \in Seq(Byte), NEW block,
         NEW at \in Nat, NEW n \in Nat, Window(in, out, block, at, n),
         NEW s \in 0 .. n
  PROVE  /\ out \o SubSeq(BytesAt(block, at, n), 1, s) \in Seq(Byte)
         /\ Len(out \o SubSeq(BytesAt(block, at, n), 1, s)) = Len(out) + s
         /\ \A i \in 1 .. Len(out) :
              (out \o SubSeq(BytesAt(block, at, n), 1, s))[i] = out[i]
         /\ Window(in, out \o SubSeq(BytesAt(block, at, n), 1, s),
                   block, at + s, n - s)
<1> DEFINE b == BytesAt(block, at, n)
           taken == SubSeq(b, 1, s)
<1>1. /\ b \in Seq(Byte)
      /\ Len(b) = n
      /\ \A i \in 1 .. n : b[i] = block[at + i - 1]
  <2>1. b \in [1 .. n -> Byte]
    BY WindowShowsBytes
  <2>2. b \in Seq(Byte)
    BY <2>1, SeqDef
  <2> QED BY <2>1, <2>2, LenProperties DEF BytesAt
<1> HIDE DEF b
<1>2. \A i \in 1 .. s : b[i] \in Byte
  BY <1>1, ElementOfSeq
<1>3. /\ taken \in Seq(Byte)
      /\ Len(taken) = s
      /\ \A i \in 1 .. s : taken[i] = b[i]
  BY <1>2, SubSeqProperties
<1> HIDE DEF taken
<1>4. /\ out \o taken \in Seq(Byte)
      /\ Len(out \o taken) = Len(out) + s
      /\ \A i \in 1 .. Len(out) + s : (out \o taken)[i] =
            IF i <= Len(out) THEN out[i] ELSE taken[i - Len(out)]
      /\ Len(out) \in Nat
  BY <1>3, ConcatProperties, LenProperties
<1>5. ASSUME NEW i \in 1 .. Len(out) + s
      PROVE  in[i] = (out \o taken)[i]
  <2>1. CASE i <= Len(out)
    BY <1>4, <2>1 DEF Window
  <2>2. CASE i > Len(out)
    <3>1. i - Len(out) \in 1 .. s /\ Len(out) + (i - Len(out)) = i
      BY <1>4, <2>2
    <3>2. i - Len(out) \in 1 .. n
      BY <3>1
    <3>3. in[Len(out) + (i - Len(out))] = block[at + (i - Len(out)) - 1]
      BY <3>2 DEF Window
    <3>4. (out \o taken)[i] = b[i - Len(out)]
      BY <1>3, <1>4, <2>2, <3>1
    <3> QED BY <1>1, <3>1, <3>2, <3>3, <3>4
  <2> QED BY <1>4, <2>1, <2>2
<1>6. ASSUME NEW i \in 1 .. n - s
      PROVE  in[Len(out) + s + i] = block[at + s + i - 1]
  <2>1. s + i \in 1 .. n /\ Len(out) + (s + i) = Len(out) + s + i
        /\ at + (s + i) - 1 = at + s + i - 1
    BY <1>4
  <2> QED BY <2>1 DEF Window
<1>7. Window(in, out \o taken, block, at + s, n - s)
  BY <1>4, <1>5, <1>6 DEF Window
<1> QED BY <1>3, <1>4, <1>7 DEF taken, b

(* Moving the window to the front of the block changes nothing it shows.   *)
LEMMA MoveKeepsWindow ==
  ASSUME NEW in \in Seq(Byte), NEW out \in Seq(Byte),
         NEW len \in Nat, NEW block \in Block(len),
         NEW at \in Nat, NEW n \in Nat, at + n <= len,
         Window(in, out, block, at, n)
  PROVE  /\ Window(in, out, MoveToFront(block, at, n), 0, n)
         /\ MoveToFront(block, at, n) \in Block(len)
<1> DEFINE m == MoveToFront(block, at, n)
<1>1. ASSUME NEW i \in 1 .. n
      PROVE  m[0 + i - 1] = block[at + i - 1]
  <2>1. i - 1 \in 0 .. len-1 /\ i - 1 \in 0 .. n-1 /\ i - 1 + at = at + i - 1
    OBVIOUS
  <2> QED BY <2>1 DEF MoveToFront, Block
<1>2. m \in Block(len)
  BY DEF MoveToFront, Block
<1> QED BY <1>1, <1>2 DEF Window

-----------------------------------------------------------------------------
(* In connector, acceptor and server a byte is a tag: it names the         *)
(* connection it belongs to.  A buffer holds only p when each cell between *)
(* its two offsets does; the lemmas say which operators of RecvBuff and    *)
(* SendBuff keep it so, and that the offsets stay inside the block.        *)

RecvHolds(hcb, len, p) ==
  /\ hcb \in RecvBuffs(len)
  /\ hcb.curr_read = 0
  /\ \A k \in 0 .. hcb.curr_write - 1 : hcb.data_ptr[k] = p

SendHolds(hs, len, p) ==
  /\ hs \in SendBuffs(len)
  /\ hs.read_offset <= hs.write_offset
  /\ \A k \in hs.read_offset .. hs.write_offset - 1 : hs.data_ptr[k] = p

-----------------------------------------------------------------------------
(* The kernel gives the lowest descriptor that is free: there is one.      *)
LEMMA LeastExists ==
  ASSUME NEW S, S \subseteq Nat, S # {}
  PROVE  \E x \in S : \A y \in S : x <= y
<1>1. PICK x \in S : \A y \in S : <<y, x>> \notin OpToRel(<, Nat)
  BY NatLessThanWellFounded, WFMin
<1>2. ASSUME NEW y \in S
      PROVE  x <= y
  <2>1. x \in Nat /\ y \in Nat /\ ~ (y < x)
    BY <1>1 DEF OpToRel
  <2> QED BY <2>1
<1> QED BY <1>2

-----------------------------------------------------------------------------
(* An element is taken out of a sequence.                                  *)
LEMMA RemovedAt ==
  ASSUME NEW S, NEW s \in Seq(S), NEW j \in 1 .. Len(s)
  PROVE  /\ RemoveAt(s, j) \in Seq(S)
         /\ Len(RemoveAt(s, j)) = Len(s) - 1
         /\ \A k \in 1 .. Len(s) - 1 :
              RemoveAt(s, j)[k] = IF k < j THEN s[k] ELSE s[k + 1]
<1> DEFINE x == SubSeq(s, 1, j - 1)
           y == SubSeq(s, j + 1, Len(s))
<1>1. Len(s) \in Nat /\ j \in Nat /\ \A k \in 1 .. Len(s) : s[k] \in S
  BY LenProperties, ElementOfSeq
<1>2. /\ x \in Seq(S) /\ Len(x) = j - 1
      /\ \A k \in 1 .. j - 1 : x[k] = s[k]
  <2>1. \A k \in 1 .. j - 1 : s[k] \in S /\ 1 + k - 1 = k
    BY <1>1
  <2>2. /\ x \in Seq(S) /\ Len(x) = IF 1 <= j - 1 THEN j - 1 - 1 + 1 ELSE 0
        /\ \A k \in 1 .. j - 1 - 1 + 1 : x[k] = s[1 + k - 1]
    BY <1>1, <2>1, SubSeqProperties
  <2> QED BY <1>1, <2>1, <2>2
<1>3. /\ y \in Seq(S) /\ Len(y) = Len(s) - j
      /\ \A k \in 1 .. Len(s) - j : y[k] = s[j + k]
  <2>1. \A k \in j + 1 .. Len(s) : s[k] \in S
    BY <1>1
  <2>2. /\ y \in Seq(S)
        /\ Len(y) = IF j + 1 <= Len(s) THEN Len(s) - (j + 1) + 1 ELSE 0
        /\ \A k \in 1 .. Len(s) - (j + 1) + 1 : y[k] = s[j + 1 + k - 1]
    BY <1>1, <2>1, SubSeqProperties
  <2>3. \A k \in 1 .. Len(s) - j : j + 1 + k - 1 = j + k
    BY <1>1
  <2> QED BY <1>1, <2>2, <2>3
<1> HIDE DEF x, y
<1>4. /\ x \o y \in Seq(S) /\ Len(x \o y) = Len(x) + Len(y)
      /\ \A k \in 1 .. Len(x) + Len(y) :
           (x \o y)[k] = IF k <= Len(x) THEN x[k] ELSE y[k - Len(x)]
  BY <1>2, <1>3, ConcatProperties
<1>5. ASSUME NEW k \in 1 .. Len(s) - 1
      PROVE  (x \o y)[k] = IF k < j THEN s[k] ELSE s[k + 1]
  <2>1. CASE k < j
    <3>1. k <= Len(x) /\ k \in 1 .. j - 1 /\ k \in 1 .. Len(x) + Len(y)
      BY <1>1, <1>2, <1>3, <2>1
    <3> QED BY <1>2, <1>4, <2>1, <3>1
  <2>2. CASE ~(k < j)
    <3>1. /\ ~(k <= Len(x)) /\ k - Len(x) \in 1 .. Len(s) - j
          /\ k \in 1 .. Len(x) + Len(y) /\ j + (k - Len(x)) = k + 1
      BY <1>1, <1>2, <1>3, <2>2
    <3> QED BY <1>3, <1>4, <2>2, <3>1
  <2> QED BY <2>1, <2>2
<1>6. Len(x \o y) = Len(s) - 1
  BY <1>1, <1>2, <1>3, <1>4
<1> QED BY <1>4, <1>5, <1>6 DEF RemoveAt, x, y

-----------------------------------------------------------------------------
(* Streams of one connection: what is cut from them and added to them.     *)
LEMMA CutOnly ==
  ASSUME NEW s \in Seq(Byte), NEW p, \A i \in 1 .. Len(s) : s[i] = p,
         NEW n \in 0 .. Len(s)
  PROVE  /\ SubSeq(s, 1, n) \in Seq(Byte) /\ Len(SubSeq(s, 1, n)) = n
         /\ \A i \in 1 .. n : SubSeq(s, 1, n)[i] = p
         /\ SubSeq(s, n + 1, Len(s)) \in Seq(Byte)
         /\ Len(SubSeq(s, n + 1, Len(s))) = Len(s) - n
         /\ \A i \in 1 .. Len(s) - n : SubSeq(s, n + 1, Len(s))[i] = p
<1>1. Len(s) \in Nat /\ \A i \in 1 .. Len(s) : s[i] \in Byte
  BY LenProperties, ElementOfSeq
<1>2. /\ SubSeq(s, 1, n) \in Seq(Byte) /\ Len(SubSeq(s, 1, n)) = n
      /\ \A i \in 1 .. n : SubSeq(s, 1, n)[i] = s[i]
  <2>1. \A i \in 1 .. n : s[i] \in Byte
    BY <1>1
  <2> QED BY <1>1, <2>1, SubSeqProperties
<1>3. /\ SubSeq(s, n + 1, Len(s)) \in Seq(Byte)
      /\ Len(SubSeq(s, n + 1, Len(s))) = Len(s) - n
      /\ \A i \in 1 .. Len(s) - n : SubSeq(s, n + 1, Len(s))[i] = s[n + i]
  <2>1. \A i \in n + 1 .. Len(s) : s[i] \in Byte
    BY <1>1
  <2> DEFINE t == SubSeq(s, n + 1, Len(s))
  <2>2. /\ t \in Seq(Byte)
        /\ Len(t) = IF n + 1 <= Len(s) THEN Len(s) - (n + 1) + 1 ELSE 0
        /\ \A i \in 1 .. Len(s) - (n + 1) + 1 : t[i] = s[n + 1 + i - 1]
    BY <1>1, <2>1, SubSeqProperties
  <2> HIDE DEF t
  <2>3. Len(s) - (n + 1) + 1 = Len(s) - n
    BY <1>1
  <2>4. \A i \in 1 .. Len(s) - n : n + 1 + i - 1 = n + i
    BY <1>1
  <2>5. Len(t) = Len(s) - n
    BY <1>1, <2>2
  <2>6. t \in Seq(Byte) /\ \A i \in 1 .. Len(s) - n : t[i] = s[n + i]
    BY <2>2, <2>3, <2>4
  <2> QED BY <2>5, <2>6 DEF t
<1>4. \A i \in 1 .. n : i \in 1 .. Len(s)
  BY <1>1
<1>5. \A i \in 1 .. Len(s) - n : n + i \in 1 .. Len(s)
  BY <1>1
<1> QED BY <1>2, <1>3, <1>4, <1>5

LEMMA AppendOnly ==
  ASSUME NEW s \in Seq(Byte), NEW p \in Byte, \A i \in 1 .. Len(s) : s[i] = p
  PROVE  /\ Append(s, p) \in Seq(Byte) /\ Len(Append(s, p)) = Len(s) + 1
         /\ \A i \in 1 .. Len(s) + 1 : Append(s, p)[i] = p
<1>1. /\ Append(s, p) \in Seq(Byte) /\ Len(Append(s, p)) = Len(s) + 1
      /\ \A i \in 1 .. Len(s) : Append(s, p)[i] = s[i]
      /\ Append(s, p)[Len(s) + 1] = p /\ Len(s) \in Nat
  BY AppendProperties, LenProperties
<1>2. \A i \in 1 .. Len(s) + 1 : i \in 1 .. Len(s) \/ i = Len(s) + 1
  BY <1>1
<1> QED BY <1>1, <1>2

-----------------------------------------------------------------------------
(* A copy writes the cells behind `at' and no other.                       *)
LEMMA CopyIntoKeeps ==
  ASSUME NEW len \in Nat, NEW block \in Block(len), NEW at \in Nat,
         NEW bytes \in Seq(Byte), NEW k \in 0 .. len - 1, k < at
  PROVE  CopyInto(block, at, bytes)[k] = block[k]
<1>1. Len(bytes) \in Nat /\ k \in DOMAIN block
  BY LenProperties DEF Block
<1> QED BY <1>1 DEF CopyInto

LEMMA CopyIntoPuts ==
  ASSUME NEW len \in Nat, NEW block \in Block(len), NEW at \in Nat,
         NEW bytes \in Seq(Byte), NEW k \in 0 .. len - 1,
         k \in at .. at + Len(bytes) - 1
  PROVE  /\ k - at + 1 \in 1 .. Len(bytes)
         /\ CopyInto(block, at, bytes)[k] = bytes[k - at + 1]
<1>1. Len(bytes) \in Nat /\ k \in DOMAIN block
  BY LenProperties DEF Block
<1>2. k - at + 1 \in 1 .. Len(bytes)
  BY <1>1
<1> QED BY <1>1, <1>2 DEF CopyInto

-----------------------------------------------------------------------------
(* The receive buffer: new or cleared it holds nothing, so anything.       *)
LEMMA RecvInitHolds ==
  ASSUME NEW len \in Nat, NEW p
  PROVE  RecvHolds(hs_recvbuff_init(len), len, p)
<1>1. Malloc(len) \in Block(len)
  BY DEF Malloc, Block
<1> QED BY <1>1 DEF RecvHolds, hs_recvbuff_init, RecvBuffs

LEMMA RecvClearHolds ==
  ASSUME NEW len \in Nat, NEW hcb \in RecvBuffs(len), NEW p
  PROVE  RecvHolds(hs_recvbuff_clear(hcb), len, p)
<1> DEFINE cleared == hs_recvbuff_clear(hcb)
<1>0. 0 \in 0 .. len
  OBVIOUS
<1>1. cleared \in RecvBuffs(len)
  BY <1>0 DEF hs_recvbuff_clear, RecvBuffs
<1>2. cleared.curr_read = 0 /\ cleared.curr_write = 0
  BY DEF hs_recvbuff_clear, RecvBuffs
<1> HIDE DEF cleared
<1>3. RecvHolds(cleared, len, p)
  BY <1>1, <1>2 DEF RecvHolds
<1> QED BY <1>3 DEF cleared

(* recv() puts bytes of the connection into the room that is left.         *)
LEMMA ReceivedHolds ==
  ASSUME NEW len \in Nat, NEW p, NEW hcb, RecvHolds(hcb, len, p),
         NEW bytes \in Seq(Byte), Len(bytes) <= hs_recvbuff_leftwrite(hcb),
         \A i \in 1 .. Len(bytes) : bytes[i] = p
  PROVE  RecvHolds(Received(hcb, bytes), len, p)
<1> DEFINE w == hcb.curr_write
           block == CopyInto(hcb.data_ptr, w, bytes)
<1>1. /\ hcb.data_ptr \in Block(len) /\ hcb.length = len
      /\ w \in 0 .. len /\ hcb.curr_read = 0
  BY DEF RecvHolds, RecvBuffs
<1>2. Len(bytes) \in Nat /\ w + Len(bytes) \in 0 .. len
  BY <1>1, LenProperties DEF hs_recvbuff_leftwrite
<1>3. block \in Block(len)
  BY <1>1, CopyIntoBlock
<1>4. ASSUME NEW k \in 0 .. w + Len(bytes) - 1
      PROVE  block[k] = p
  <2>1. k \in 0 .. len - 1
    BY <1>1, <1>2
  <2>2. CASE k < w
    <3>1. block[k] = hcb.data_ptr[k]
      BY <1>1, <2>1, <2>2, CopyIntoKeeps
    <3>2. k \in 0 .. hcb.curr_write - 1
      BY <1>1, <2>2
    <3> QED BY <3>1, <3>2 DEF RecvHolds
  <2>3. CASE k \in w .. w + Len(bytes) - 1
    <3>1. w \in Nat /\ hcb.data_ptr \in Block(len)
      BY <1>1
    <3> HIDE DEF w
    <3>2. k - w + 1 \in 1 .. Len(bytes) /\ block[k] = bytes[k - w + 1]
      BY <2>1, <2>3, <3>1, CopyIntoPuts
    <3> QED BY <3>2
  <2> QED BY <1>1, <1>2, <2>2, <2>3
<1> DEFINE new == [hcb EXCEPT !.data_ptr = block, !.curr_write = w + Len(bytes)]
<1>5. Received(hcb, bytes) = new
  BY DEF Received
<1> HIDE DEF block
<1>6. new \in RecvBuffs(len)
  BY <1>2, <1>3 DEF RecvHolds, RecvBuffs
<1>7. /\ new.curr_read = 0 /\ new.curr_write = w + Len(bytes)
      /\ new.data_ptr = block
  BY DEF RecvHolds, RecvBuffs
<1> HIDE DEF new, w
<1>8. \A k \in 0 .. new.curr_write - 1 : new.data_ptr[k] = p
  BY <1>1, <1>2, <1>4, <1>7
<1> QED BY <1>5, <1>6, <1>7, <1>8 DEF RecvHolds

(* The handler used n of the bytes it was offered.                         *)
LEMMA HandledHolds ==
  ASSUME NEW len \in Nat, NEW p, NEW hcb, RecvHolds(hcb, len, p),
         NEW n \in 0 .. hs_recvbuff_leftread(hcb)
  PROVE  RecvHolds(Handled(hcb, n), len, p)
<1> DEFINE left == hcb.curr_write - n
           block == MoveToFront(hcb.data_ptr, n, left)
<1>1. /\ hcb.data_ptr \in Block(len) /\ hcb.length = len
      /\ hcb.curr_write \in 0 .. len /\ hcb.curr_read = 0
      /\ n \in 0 .. hcb.curr_write
  BY DEF RecvHolds, RecvBuffs, hs_recvbuff_leftread
<1>2. CASE n = 0
  BY <1>2 DEF Handled
<1>3. CASE n # 0
  <2>1. left \in 0 .. len /\ hcb.curr_read + n = n
    BY <1>1
  <2>2. block \in Block(len)
    <3>1. ASSUME NEW k \in 0 .. len - 1
          PROVE  (IF k \in 0 .. left - 1 THEN hcb.data_ptr[k + n] ELSE hcb.data_ptr[k])
                   \in Byte \cup {NoByte}
      <4>1. k \in 0 .. left - 1 => k + n \in 0 .. len - 1
        BY <1>1
      <4> QED BY <1>1, <4>1 DEF Block
    <3>2. DOMAIN hcb.data_ptr = 0 .. len - 1
      BY <1>1 DEF Block
    <3> QED BY <3>1, <3>2 DEF MoveToFront, Block
  <2>3. ASSUME NEW k \in 0 .. left - 1
        PROVE  block[k] = p
    <3>1. k \in DOMAIN hcb.data_ptr /\ k + n \in 0 .. hcb.curr_write - 1
      BY <1>1 DEF Block
    <3>2. block[k] = hcb.data_ptr[k + n]
      BY <3>1 DEF MoveToFront
    <3> QED BY <3>1, <3>2 DEF RecvHolds
  <2>4. Handled(hcb, n) =
          [hcb EXCEPT !.data_ptr = block, !.curr_read = 0, !.curr_write = left]
    BY <1>3, <2>1 DEF Handled
  <2> HIDE DEF block, left
  <2> DEFINE new == [hcb EXCEPT !.data_ptr = block, !.curr_read = 0,
                                !.curr_write = left]
  <2>5. new \in RecvBuffs(len)
    BY <2>1, <2>2 DEF RecvHolds, RecvBuffs
  <2>6. new.curr_read = 0 /\ new.curr_write = left /\ new.data_ptr = block
    BY DEF RecvHolds, RecvBuffs
  <2>7. Handled(hcb, n) = new
    BY <2>4
  <2> HIDE DEF new
  <2> QED BY <2>3, <2>5, <2>6, <2>7 DEF RecvHolds
<1> QED BY <1>2, <1>3

LEMMA OfferedHolds ==
  ASSUME NEW len \in Nat, NEW p, NEW hcb, RecvHolds(hcb, len, p)
  PROVE  \A i \in DOMAIN Offered(hcb) : Offered(hcb)[i] = p
<1>1. hcb.curr_write \in 0 .. len /\ hcb.curr_read = 0
  BY DEF RecvHolds, RecvBuffs
<1>2. /\ DOMAIN Offered(hcb) = 1 .. hcb.curr_write
      /\ \A i \in 1 .. hcb.curr_write : Offered(hcb)[i] = hcb.data_ptr[0 + i - 1]
  BY <1>1 DEF Offered, BytesAt, hs_recvbuff_leftread
<1>3. \A i \in 1 .. hcb.curr_write : 0 + i - 1 \in 0 .. hcb.curr_write - 1
  BY <1>1
<1> QED BY <1>2, <1>3 DEF RecvHolds

-----------------------------------------------------------------------------
(* The send buffer.                                                        *)
LEMMA SendInitHolds ==
  ASSUME NEW len \in Nat, NEW p
  PROVE  SendHolds(hs_sendbuff_init(len), len, p)
<1>1. Malloc(len) \in Block(len)
  BY DEF Malloc, Block
<1> QED BY <1>1 DEF SendHolds, hs_sendbuff_init, SendBuffs

LEMMA SendClearHolds ==
  ASSUME NEW len \in Nat, NEW hs \in SendBuffs(len), NEW p
  PROVE  SendHolds(hs_sendbuff_clear(hs), len, p)
<1> DEFINE cleared == hs_sendbuff_clear(hs)
<1>0. 0 \in 0 .. len
  OBVIOUS
<1>1. cleared \in SendBuffs(len)
  BY <1>0 DEF hs_sendbuff_clear, SendBuffs
<1>2. cleared.read_offset = 0 /\ cleared.write_offset = 0
  BY DEF hs_sendbuff_clear, SendBuffs
<1> HIDE DEF cleared
<1>3. SendHolds(cleared, len, p)
  BY <1>1, <1>2 DEF SendHolds
<1> QED BY <1>3 DEF cleared

(* A write, taken or refused, of data for the connection.                  *)
LEMMA WrittenHolds ==
  ASSUME NEW len \in Nat, NEW p, NEW hs, SendHolds(hs, len, p),
         NEW data \in Seq(Byte), \A i \in 1 .. Len(data) : data[i] = p
  PROVE  SendHolds(hs_sendbuff_write(hs, data), len, p)
<1> DEFINE w == hs.write_offset
           block == CopyInto(hs.data_ptr, w, data)
<1>1. /\ hs.data_ptr \in Block(len) /\ hs.length = len
      /\ w \in 0 .. len /\ hs.read_offset \in 0 .. w
  BY DEF SendHolds, SendBuffs
<1>2. CASE ~ Writable(hs, data)
  BY <1>2 DEF hs_sendbuff_write
<1>3. CASE Writable(hs, data)
  <2>1. Len(data) \in Nat /\ w + Len(data) \in 0 .. len
    <3>1. Len(data) \in Nat /\ Len(data) <= CanWrite(hs)
      BY <1>3, LenProperties DEF Writable
    <3>2. CanWrite(hs) \in 0 .. len - w
      BY <1>1 DEF CanWrite
    <3> QED BY <1>1, <3>1, <3>2
  <2>2. block \in Block(len)
    BY <1>1, CopyIntoBlock
  <2>3. ASSUME NEW k \in hs.read_offset .. w + Len(data) - 1
        PROVE  block[k] = p
    <3>1. k \in 0 .. len - 1
      BY <1>1, <2>1
    <3>2. CASE k < w
      <4>1. block[k] = hs.data_ptr[k]
        BY <1>1, <3>1, <3>2, CopyIntoKeeps
      <4>2. k \in hs.read_offset .. hs.write_offset - 1
        BY <1>1, <3>2
      <4> QED BY <4>1, <4>2 DEF SendHolds
    <3>3. CASE k \in w .. w + Len(data) - 1
      <4>1. w \in Nat /\ hs.data_ptr \in Block(len)
        BY <1>1
      <4> HIDE DEF w
      <4>2. k - w + 1 \in 1 .. Len(data) /\ block[k] = data[k - w + 1]
        BY <3>1, <3>3, <4>1, CopyIntoPuts
      <4> QED BY <4>2
    <3> QED BY <1>1, <2>1, <3>2, <3>3
  <2> DEFINE new == [hs EXCEPT !.data_ptr = block, !.write_offset = w + Len(data)]
  <2>4. hs_sendbuff_write(hs, data) = new
    BY <1>3 DEF hs_sendbuff_write
  <2> HIDE DEF block
  <2>5. new \in SendBuffs(len)
    BY <2>1, <2>2 DEF SendHolds, SendBuffs
  <2>6. /\ new.read_offset = hs.read_offset /\ new.write_offset = w + Len(data)
        /\ new.data_ptr = block
    BY DEF SendHolds, SendBuffs
  <2> HIDE DEF new
  <2>7. new.read_offset <= new.write_offset
    BY <1>1, <2>1, <2>6
  <2>8. \A k \in new.read_offset .. new.write_offset - 1 : new.data_ptr[k] = p
    BY <1>1, <2>1, <2>3, <2>6
  <2> QED BY <2>4, <2>5, <2>7, <2>8 DEF SendHolds
<1> QED BY <1>2, <1>3

(* send() took s bytes.                                                    *)
LEMMA SentHolds ==
  ASSUME NEW len \in Nat, NEW p, NEW hs, SendHolds(hs, len, p),
         NEW s \in 0 .. CanSend(hs)
  PROVE  SendHolds(Sent(hs, s), len, p)
<1>1. /\ hs.data_ptr \in Block(len) /\ hs.length = len
      /\ hs.write_offset \in 0 .. len /\ hs.read_offset \in 0 .. hs.write_offset
      /\ s \in Nat /\ hs.read_offset + s <= hs.write_offset
  BY DEF SendHolds, SendBuffs, CanSend
<1>2. CASE hs.read_offset + s = hs.write_offset
  BY <1>2, SendClearHolds DEF Sent, SendHolds
<1>3. CASE hs.read_offset + s # hs.write_offset
  <2>1. Sent(hs, s) = [hs EXCEPT !.read_offset = hs.read_offset + s]
    BY <1>3 DEF Sent
  <2>2. \A k \in hs.read_offset + s .. hs.write_offset - 1 :
          k \in hs.read_offset .. hs.write_offset - 1
    BY <1>1
  <2> DEFINE new == [hs EXCEPT !.read_offset = hs.read_offset + s]
  <2>3. new \in SendBuffs(len)
    <3>1. hs.read_offset + s \in 0 .. len
      BY <1>1
    <3> QED BY <3>1 DEF SendHolds, SendBuffs
  <2>4. /\ new.read_offset = hs.read_offset + s
        /\ new.write_offset = hs.write_offset /\ new.data_ptr = hs.data_ptr
    BY DEF SendHolds, SendBuffs
  <2> HIDE DEF new
  <2>5. new.read_offset <= new.write_offset
    BY <1>1, <2>4
  <2>6. \A k \in new.read_offset .. new.write_offset - 1 : new.data_ptr[k] = p
    BY <2>2, <2>4 DEF SendHolds
  <2> QED BY <2>1, <2>3, <2>5, <2>6 DEF SendHolds, new
<1> QED BY <1>2, <1>3

LEMMA UnsentHolds ==
  ASSUME NEW len \in Nat, NEW p, NEW hs, SendHolds(hs, len, p)
  PROVE  \A i \in DOMAIN Unsent(hs) : Unsent(hs)[i] = p
<1> DEFINE n == hs.write_offset - hs.read_offset
<1>1. /\ hs.write_offset \in 0 .. len /\ hs.read_offset \in 0 .. hs.write_offset
      /\ n \in Nat
  BY DEF SendHolds, SendBuffs
<1>2. /\ DOMAIN Unsent(hs) = 1 .. n
      /\ \A i \in 1 .. n : Unsent(hs)[i] = hs.data_ptr[hs.read_offset + i - 1]
  BY <1>1 DEF Unsent, BytesAt, CanSend
<1>3. \A i \in 1 .. n :
        hs.read_offset + i - 1 \in hs.read_offset .. hs.write_offset - 1
  BY <1>1
<1> QED BY <1>2, <1>3 DEF SendHolds

-----------------------------------------------------------------------------
(* Whatever is written and however much is sent, of one connection or of   *)
(* several, the offsets of the send buffer stay inside its block.          *)
LEMMA WrittenInBlock ==
  ASSUME NEW len \in Nat, NEW hs \in SendBuffs(len), NEW data \in Seq(Byte)
  PROVE  hs_sendbuff_write(hs, data) \in SendBuffs(len)
<1> DEFINE w == hs.write_offset
           block == CopyInto(hs.data_ptr, w, data)
<1>1. /\ hs.data_ptr \in Block(len) /\ hs.length = len
      /\ w \in 0 .. len /\ hs.read_offset \in 0 .. len
  BY DEF SendBuffs
<1>2. CASE ~ Writable(hs, data)
  BY <1>2 DEF hs_sendbuff_write
<1>3. CASE Writable(hs, data)
  <2>1. w + Len(data) \in 0 .. len
    <3>1. Len(data) \in Nat /\ Len(data) <= CanWrite(hs)
      BY <1>3, LenProperties DEF Writable
    <3>2. CanWrite(hs) \in 0 .. len - w
      BY <1>1 DEF CanWrite
    <3> QED BY <1>1, <3>1, <3>2
  <2>2. block \in Block(len)
    BY <1>1, CopyIntoBlock
  <2>3. hs_sendbuff_write(hs, data)
          = [hs EXCEPT !.data_ptr = block, !.write_offset = w + Len(data)]
    BY <1>3 DEF hs_sendbuff_write
  <2> HIDE DEF block
  <2> QED BY <2>1, <2>2, <2>3 DEF SendBuffs
<1> QED BY <1>2, <1>3

LEMMA SentInBlock ==
  ASSUME NEW len \in Nat, NEW hs \in SendBuffs(len), NEW s \in 0 .. CanSend(hs)
  PROVE  Sent(hs, s) \in SendBuffs(len)
<1>1. CASE hs.read_offset + s = hs.write_offset
  <2>1. 0 \in 0 .. len
    OBVIOUS
  <2> QED BY <1>1, <2>1 DEF Sent, hs_sendbuff_clear, SendBuffs
<1>2. CASE hs.read_offset + s # hs.write_offset
  <2>1. hs.read_offset + s \in 0 .. len
    BY DEF SendBuffs, CanSend
  <2>2. Sent(hs, s) = [hs EXCEPT !.read_offset = hs.read_offset + s]
    BY <1>2 DEF Sent
  <2> QED BY <2>1, <2>2 DEF SendBuffs
<1> QED BY <1>1, <1>2

=============================================================================
