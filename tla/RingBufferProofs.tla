-------------------------- MODULE RingBufferProofs --------------------------
(***************************************************************************)
(* The ring of messages, for every length of the ring and every set of     *)
(* messages shorter than Base: what a reader finds behind the read offset  *)
(* is always the oldest unread message, whole.                             *)
(*                                                                         *)
(* The inductive invariant says where the unread messages lie.  Either     *)
(* they are chained from the read to the write offset (Straight), or they  *)
(* are chained from the read offset to a cell that holds the mark, and     *)
(* from the start of the block to the write offset (Wrapped).              *)
(***************************************************************************)
EXTENDS RingBuffer, SequenceTheorems, FiniteSetTheorems, WellFoundedInduction, TLAPS

(* A length of Base or more does not survive the two bytes it is stored    *)
(* in: run ring_buffer_long shows what a reader gets then.                 *)
ShortMessages == \A m \in Messages : Len(m) < Base

Holds(block, at, m) ==
  /\ block[at] = 0
  /\ block[at + 1] = Len(m)
  /\ \A i \in 1 .. Len(m) : block[at + 1 + i] = m[i]

(* pos tells where the messages begin, and at last where the chain ends.   *)
ChainAt(block, msgs, from, to, pos) ==
  /\ pos[1] = from
  /\ pos[Len(msgs) + 1] = to
  /\ \A k \in 1 .. Len(msgs) :
       Holds(block, pos[k], msgs[k]) /\ pos[k + 1] = pos[k] + Need(msgs[k])
  /\ \A k, l \in 1 .. Len(msgs) + 1 : k < l => pos[k] + Need(msgs[k]) <= pos[l]

Chain(block, msgs, from, to) ==
  \E pos \in [1 .. Len(msgs) + 1 -> Nat] : ChainAt(block, msgs, from, to, pos)

Straight(r, msgs) ==
  /\ ~r.is_full
  /\ r.curr_read <= r.curr_write
  /\ Chain(r.data_ptr, msgs, r.curr_read, r.curr_write)

WrappedAt(r, first, second, end) ==
  /\ second # <<>>
  /\ Chain(r.data_ptr, first, r.curr_read, end)
  /\ Chain(r.data_ptr, second, 0, r.curr_write)
  /\ r.curr_write <= r.curr_read
  /\ r.data_ptr[end] = Mark
  /\ r.is_full = (r.curr_write = r.curr_read)

Wrapped(r, msgs) ==
  \E first, second \in Seq(Messages), end \in 0 .. Length-1 :
    msgs = first \o second /\ WrappedAt(r, first, second, end)

Laid(r, msgs) == Straight(r, msgs) \/ Wrapped(r, msgs)

Layout == Laid(hr, unread)

(* What was lent lies before the read offset, where no mark is set.        *)
Lent ==
  lent # NoLoan =>
    /\ LentIsIntact
    /\ hr.curr_read = 0 \/ hr.curr_read = lent + Len(got)

Inv == TypeOK /\ Layout /\ Lent

-----------------------------------------------------------------------------
(* Messages and their frames.                                              *)

LEMMA Bytes ==
  ASSUME NEW m \in Messages
  PROVE  m \in Seq(Byte) /\ Len(m) \in Nat /\ Need(m) \in Nat /\ Need(m) >= 2
                         /\ Need(m) = Len(m) + 2
<1>1. m \in Seq(Byte) /\ Len(m) \in Nat
  BY MessagesAssumption, LenProperties
<1> QED BY <1>1 DEF Need

LEMMA BehindNeed ==
  ASSUME NEW at \in Nat, NEW m \in Messages
  PROVE  at + Need(m) = at + 2 + Len(m)
<1>1. Len(m) \in Nat
  BY Bytes
<1> QED BY <1>1 DEF Need

Frame(m) == LengthBytes(Len(m)) \o m

LEMMA Framed ==
  ASSUME ShortMessages, NEW m \in Messages
  PROVE  /\ Frame(m) \in Seq(Byte)
         /\ Len(Frame(m)) = Need(m)
         /\ Frame(m)[1] = 0
         /\ Frame(m)[2] = Len(m)
         /\ \A i \in 1 .. Len(m) : Frame(m)[2 + i] = m[i]
<1> DEFINE n == Len(m)
           lb == LengthBytes(n)
<1>1. n \in Nat /\ n < Base /\ Base \in Nat /\ Base > 1 /\ m \in Seq(Byte)
  BY Bytes, BaseAssumption DEF ShortMessages
<1>0. n = Len(m)
  OBVIOUS
<1> HIDE DEF n
<1>2. n \div Base = 0 /\ n % Base = n
  BY <1>1
<1>3. 0 \in Byte /\ n \in Byte /\ 0 % Base = 0
  BY <1>1, BaseAssumption
<1>4. lb = <<0, n>>
  BY <1>2, <1>3 DEF LengthBytes
<1>5. lb \in Seq(Byte) /\ Len(lb) = 2 /\ lb[1] = 0 /\ lb[2] = n
  BY <1>3, <1>4
<1> HIDE DEF lb
<1>6. /\ lb \o m \in Seq(Byte)
      /\ Len(lb \o m) = 2 + n
      /\ \A i \in 1 .. 2 + n : (lb \o m)[i] = IF i <= 2 THEN lb[i] ELSE m[i - 2]
  <2>1. /\ lb \o m \in Seq(Byte)
        /\ Len(lb \o m) = Len(lb) + Len(m)
        /\ \A i \in 1 .. Len(lb) + Len(m) :
             (lb \o m)[i] = IF i <= Len(lb) THEN lb[i] ELSE m[i - Len(lb)]
    BY <1>1, <1>5, ConcatProperties
  <2> QED BY <1>0, <1>5, <2>1
<1>7. (lb \o m)[1] = 0 /\ (lb \o m)[2] = n
  BY <1>1, <1>5, <1>6
<1>8. ASSUME NEW i \in 1 .. n
      PROVE  (lb \o m)[2 + i] = m[i]
  <2>1. 2 + i \in 1 .. 2 + n /\ ~(2 + i <= 2) /\ 2 + i - 2 = i
    BY <1>1
  <2> QED BY <1>6, <2>1
<1>9. Need(m) = 2 + n
  BY <1>0, <1>1 DEF Need
<1> QED BY <1>0, <1>6, <1>7, <1>8, <1>9 DEF Frame, lb

(* What the copy of a frame puts into a block, and what it leaves alone.   *)
LEMMA FrameCopied ==
  ASSUME ShortMessages, NEW m \in Messages, NEW len \in Nat,
         NEW block \in Block(len), NEW at \in Nat, at + Need(m) <= len
  PROVE  /\ CopyInto(block, at, Frame(m)) \in Block(len)
         /\ Holds(CopyInto(block, at, Frame(m)), at, m)
         /\ \A k \in 0 .. len-1 :
              k < at \/ k >= at + Need(m) =>
                CopyInto(block, at, Frame(m))[k] = block[k]
<1> DEFINE f == Frame(m)
           c == CopyInto(block, at, f)
           need == Need(m)
<1>1. /\ f \in Seq(Byte) /\ Len(f) = need /\ f[1] = 0 /\ f[2] = Len(m)
      /\ \A i \in 1 .. Len(m) : f[2 + i] = m[i]
      /\ need \in Nat /\ need = Len(m) + 2 /\ Len(m) \in Nat
  BY Framed, Bytes
<1> HIDE DEF f, need
<1>2. c \in Block(len)
  <2> SUFFICES ASSUME NEW i \in 0 .. len-1
               PROVE  (IF i \in at .. at + need - 1 THEN f[i - at + 1] ELSE block[i])
                        \in Byte \cup {NoByte}
    BY <1>1 DEF Block, CopyInto
  <2>1. CASE i \in at .. at + need - 1
    <3>1. i - at + 1 \in 1 .. Len(f)
      BY <1>1, <2>1
    <3> QED BY <1>1, <2>1, <3>1, ElementOfSeq
  <2>2. CASE i \notin at .. at + need - 1
    BY <2>2 DEF Block
  <2> QED BY <2>1, <2>2
<1>3. DOMAIN block = 0 .. len-1
  BY DEF Block
<1>4. ASSUME NEW k \in 0 .. len-1, k < at \/ k >= at + need
      PROVE  c[k] = block[k]
  <2>1. k \in DOMAIN block /\ k \notin at .. at + Len(f) - 1
    BY <1>1, <1>3, <1>4
  <2> QED BY <2>1 DEF CopyInto
<1>5. ASSUME NEW j \in 1 .. need
      PROVE  c[at + j - 1] = f[j]
  <2>1. /\ at + j - 1 \in DOMAIN block
        /\ at + j - 1 \in at .. at + Len(f) - 1
        /\ at + j - 1 - at + 1 = j
    BY <1>1, <1>3 DEF need
  <2> QED BY <2>1 DEF CopyInto
<1>6. c[at] = 0 /\ c[at + 1] = Len(m)
  <2>1. 1 \in 1 .. need /\ 2 \in 1 .. need /\ at + 1 - 1 = at /\ at + 2 - 1 = at + 1
    BY <1>1
  <2> HIDE DEF c
  <2>2. c[at + 1 - 1] = f[1] /\ c[at + 2 - 1] = f[2]
    BY <1>5, <2>1
  <2> QED BY <1>1, <2>1, <2>2
<1>7. ASSUME NEW i \in 1 .. Len(m)
      PROVE  c[at + 1 + i] = m[i]
  <2>1. 2 + i \in 1 .. need /\ at + (2 + i) - 1 = at + 1 + i
    BY <1>1
  <2> HIDE DEF c
  <2>2. c[at + (2 + i) - 1] = f[2 + i]
    BY <1>5, <2>1
  <2> QED BY <1>1, <2>1, <2>2
<1> QED BY <1>2, <1>4, <1>6, <1>7 DEF Holds, f, need

-----------------------------------------------------------------------------
(* Chains of messages.                                                     *)

LEMMA ChainOfNone ==
  ASSUME NEW block, NEW from \in Nat
  PROVE  /\ Chain(block, <<>>, from, from)
         /\ \A to : Chain(block, <<>>, from, to) => to = from
<1> DEFINE pos == [k \in 1 .. 1 |-> from]
<1>1. pos \in [1 .. Len(<<>>) + 1 -> Nat] /\ ChainAt(block, <<>>, from, from, pos)
  BY DEF ChainAt
<1>2. ASSUME NEW to, Chain(block, <<>>, from, to)
      PROVE  to = from
  BY <1>2 DEF Chain, ChainAt
<1> QED BY <1>1, <1>2 DEF Chain

(* A chain starts with its first message and does not run backwards.       *)
LEMMA ChainStarts ==
  ASSUME NEW block, NEW msgs \in Seq(Messages), NEW from \in Nat, NEW to,
         Chain(block, msgs, from, to)
  PROVE  /\ to \in Nat /\ from <= to
         /\ msgs # <<>> => /\ Head(msgs) \in Messages
                           /\ Holds(block, from, Head(msgs))
                           /\ from + Need(Head(msgs)) <= to
         /\ msgs = <<>> => from = to
<1>1. PICK pos \in [1 .. Len(msgs) + 1 -> Nat] : ChainAt(block, msgs, from, to, pos)
  BY DEF Chain
<1>2. Len(msgs) \in Nat /\ pos[1] = from /\ pos[Len(msgs) + 1] = to /\ to \in Nat
  BY <1>1, LenProperties DEF ChainAt
<1>3. CASE msgs = <<>>
  BY <1>2, <1>3
<1>4. CASE msgs # <<>>
  <2>1. /\ 1 \in 1 .. Len(msgs) /\ Head(msgs) = msgs[1] /\ Head(msgs) \in Messages
        /\ 1 \in 1 .. Len(msgs) + 1 /\ Len(msgs) + 1 \in 1 .. Len(msgs) + 1
        /\ 1 < Len(msgs) + 1
    BY <1>2, <1>4, EmptySeq, HeadTailProperties
  <2>2. Holds(block, from, Head(msgs)) /\ from + Need(Head(msgs)) <= to
    BY <1>1, <1>2, <2>1 DEF ChainAt
  <2>3. Need(Head(msgs)) \in Nat
    BY <2>1, Bytes
  <2> QED BY <1>2, <1>4, <2>1, <2>2, <2>3
<1> QED BY <1>3, <1>4

(* What is written outside a chain does not touch it.                      *)
LEMMA ChainFramed ==
  ASSUME NEW block, NEW c, NEW msgs \in Seq(Messages), NEW from \in Nat, NEW to \in Nat,
         Chain(block, msgs, from, to),
         \A k \in from .. to - 1 : c[k] = block[k]
  PROVE  Chain(c, msgs, from, to)
<1>1. PICK pos \in [1 .. Len(msgs) + 1 -> Nat] : ChainAt(block, msgs, from, to, pos)
  BY DEF Chain
<1>2. Len(msgs) \in Nat
  BY LenProperties
<1>3. ASSUME NEW k \in 1 .. Len(msgs)
      PROVE  Holds(c, pos[k], msgs[k])
  <2>1. /\ msgs[k] \in Messages /\ k \in 1 .. Len(msgs) + 1 /\ pos[k] \in Nat
        /\ Len(msgs) + 1 \in 1 .. Len(msgs) + 1 /\ k < Len(msgs) + 1
        /\ 1 \in 1 .. Len(msgs) + 1
    BY <1>2, ElementOfSeq
  <2>2. pos[k] + Need(msgs[k]) <= to
    BY <1>1, <2>1 DEF ChainAt
  <2>3. from <= pos[k]
    <3>1. CASE k = 1
      BY <1>1, <2>1, <3>1 DEF ChainAt
    <3>2. CASE 1 < k
      <4>1. 1 \in 1 .. Len(msgs) /\ msgs[1] \in Messages
        BY <1>2, ElementOfSeq, <3>2
      <4>2. Need(msgs[1]) \in Nat
        BY <4>1, Bytes
      <4>3. pos[1] + Need(msgs[1]) <= pos[k] /\ pos[1] = from
        BY <1>1, <2>1, <3>2 DEF ChainAt
      <4> QED BY <2>1, <4>2, <4>3
    <3> QED BY <3>1, <3>2
  <2>4. Need(msgs[k]) = Len(msgs[k]) + 2 /\ Len(msgs[k]) \in Nat
    BY <2>1, Bytes
  <2>5. /\ pos[k] \in from .. to - 1 /\ pos[k] + 1 \in from .. to - 1
        /\ \A i \in 1 .. Len(msgs[k]) : pos[k] + 1 + i \in from .. to - 1
    <3> DEFINE p == pos[k]
               n == Len(msgs[k])
    <3>1. p \in Nat /\ n \in Nat /\ from <= p /\ p + (n + 2) <= to
      BY <2>1, <2>2, <2>3, <2>4
    <3> HIDE DEF p, n
    <3>2. /\ p \in from .. to - 1 /\ p + 1 \in from .. to - 1
          /\ \A i \in 1 .. n : p + 1 + i \in from .. to - 1
      BY <3>1
    <3> QED BY <3>2 DEF p, n
  <2>6. Holds(block, pos[k], msgs[k])
    BY <1>1 DEF ChainAt
  <2> QED BY <2>5, <2>6 DEF Holds
<1>4. ChainAt(c, msgs, from, to, pos)
  BY <1>1, <1>3 DEF ChainAt
<1> QED BY <1>4 DEF Chain

LEMMA ChainGrows ==
  ASSUME NEW block, NEW msgs \in Seq(Messages), NEW m \in Messages,
         NEW from \in Nat, NEW to \in Nat,
         Chain(block, msgs, from, to), Holds(block, to, m)
  PROVE  Chain(block, Append(msgs, m), from, to + Need(m))
<1> DEFINE n == Len(msgs)
           more == Append(msgs, m)
<1>1. PICK pos \in [1 .. n + 1 -> Nat] : ChainAt(block, msgs, from, to, pos)
  BY DEF Chain
<1> DEFINE new == [k \in 1 .. n + 2 |-> IF k = n + 2 THEN to + Need(m) ELSE pos[k]]
<1>2. /\ n \in Nat /\ Len(more) = n + 1 /\ more[n + 1] = m
      /\ \A k \in 1 .. n : more[k] = msgs[k]
      /\ Need(m) \in Nat
  BY AppendProperties, LenProperties, Bytes
<1>10. /\ pos[1] = from /\ pos[n + 1] = to
       /\ \A k \in 1 .. n : Holds(block, pos[k], msgs[k]) /\ pos[k + 1] = pos[k] + Need(msgs[k])
       /\ \A k, l \in 1 .. n + 1 : k < l => pos[k] + Need(msgs[k]) <= pos[l]
  BY <1>1 DEF ChainAt
<1>3. \A k \in 1 .. n : Need(msgs[k]) \in Nat
  BY ElementOfSeq, Bytes
<1> HIDE DEF n, more
<1>4. new[n + 2] = to + Need(m) /\ \A k \in 1 .. n + 1 : new[k] = pos[k]
  BY <1>2
<1>5. new \in [1 .. n + 2 -> Nat]
  BY <1>2
<1> HIDE DEF new
<1>6. new[1] = from /\ new[n + 1 + 1] = to + Need(m)
  BY <1>2, <1>10, <1>4
<1>7. ASSUME NEW k \in 1 .. n + 1
      PROVE  Holds(block, new[k], more[k]) /\ new[k + 1] = new[k] + Need(more[k])
  <2>1. CASE k = n + 1
    <3>1. new[k] = to /\ more[k] = m /\ k + 1 = n + 2
      BY <1>2, <1>10, <1>4, <2>1
    <3> QED BY <1>4, <3>1
  <2>2. CASE k # n + 1
    <3>1. k \in 1 .. n /\ k + 1 \in 1 .. n + 1
      BY <1>2, <1>10, <2>2
    <3>2. new[k] = pos[k] /\ new[k + 1] = pos[k + 1] /\ more[k] = msgs[k]
      BY <1>2, <1>10, <1>4, <3>1
    <3> QED BY <1>2, <1>10, <3>1, <3>2
  <2> QED BY <2>1, <2>2
<1>8. ASSUME NEW k \in 1 .. n + 2, NEW l \in 1 .. n + 2, k < l
      PROVE  new[k] + Need(more[k]) <= new[l]
  <2>1. CASE l # n + 2
    <3>1. k \in 1 .. n /\ k \in 1 .. n + 1 /\ l \in 1 .. n + 1
      BY <1>2, <1>10, <1>8, <2>1
    <3>2. new[k] = pos[k] /\ new[l] = pos[l] /\ more[k] = msgs[k]
      BY <1>2, <1>10, <1>4, <3>1
    <3> QED BY <1>2, <1>10, <1>8, <3>1, <3>2
  <2>2. CASE l = n + 2 /\ k = n + 1
    <3>1. new[k] = to /\ more[k] = m
      BY <1>2, <1>10, <1>4, <2>2
    <3> QED BY <1>2, <1>10, <1>4, <2>2, <3>1
  <2>3. CASE l = n + 2 /\ k # n + 1
    <3>1. k \in 1 .. n /\ k \in 1 .. n + 1 /\ n + 1 \in 1 .. n + 1 /\ k < n + 1
      BY <1>2, <1>10, <1>8, <2>3
    <3>2. new[k] = pos[k] /\ more[k] = msgs[k] /\ pos[k] + Need(msgs[k]) <= pos[n + 1]
      BY <1>2, <1>10, <1>4, <3>1
    <3>3. pos[k] \in Nat /\ Need(msgs[k]) \in Nat
      BY <1>3, <3>1
    <3> QED BY <1>2, <1>10, <1>4, <2>3, <3>2, <3>3
  <2> QED BY <2>1, <2>2, <2>3
<1>9. new \in [1 .. Len(more) + 1 -> Nat] /\ ChainAt(block, more, from, to + Need(m), new)
  <2>1. Len(more) + 1 = n + 2
    BY <1>2, <1>10
  <2>2. Len(more) = n + 1
    BY <1>2, <1>10
  <2> QED BY <1>5, <1>6, <1>7, <1>8, <2>1, <2>2 DEF ChainAt
<1> QED BY <1>9 DEF Chain, more

LEMMA ChainShrinks ==
  ASSUME NEW block, NEW msgs \in Seq(Messages), msgs # <<>>,
         NEW from \in Nat, NEW to \in Nat, Chain(block, msgs, from, to)
  PROVE  Chain(block, Tail(msgs), from + Need(Head(msgs)), to)
<1> DEFINE n == Len(msgs)
           rest == Tail(msgs)
<1>1. PICK pos \in [1 .. n + 1 -> Nat] : ChainAt(block, msgs, from, to, pos)
  BY DEF Chain
<1> DEFINE new == [k \in 1 .. n |-> pos[k + 1]]
<1>2. /\ n \in Nat /\ n >= 1 /\ rest \in Seq(Messages) /\ Len(rest) = n - 1
      /\ \A k \in 1 .. n - 1 : rest[k] = msgs[k + 1]
      /\ Head(msgs) = msgs[1]
  BY EmptySeq, HeadTailProperties, LenProperties
<1>3. /\ pos[1] = from /\ pos[n + 1] = to
      /\ \A k \in 1 .. n : Holds(block, pos[k], msgs[k]) /\ pos[k + 1] = pos[k] + Need(msgs[k])
      /\ \A k, l \in 1 .. n + 1 : k < l => pos[k] + Need(msgs[k]) <= pos[l]
  BY <1>1 DEF ChainAt
<1> HIDE DEF n, rest
<1>4. \A k \in 1 .. n : new[k] = pos[k + 1]
  OBVIOUS
<1>5. new \in [1 .. n -> Nat]
  BY <1>2
<1> HIDE DEF new
<1>6. new[1] = from + Need(Head(msgs)) /\ new[n] = to
  <2>1. 1 \in 1 .. n /\ n \in 1 .. n
    BY <1>2
  <2> QED BY <1>2, <1>3, <1>4, <2>1
<1>7. ASSUME NEW k \in 1 .. n - 1
      PROVE  Holds(block, new[k], rest[k]) /\ new[k + 1] = new[k] + Need(rest[k])
  <2>1. k \in 1 .. n /\ k + 1 \in 1 .. n
    BY <1>2
  <2>2. new[k] = pos[k + 1] /\ new[k + 1] = pos[k + 1 + 1] /\ rest[k] = msgs[k + 1]
    BY <1>2, <1>4, <2>1
  <2> QED BY <1>3, <2>1, <2>2
<1>8. ASSUME NEW k \in 1 .. n, NEW l \in 1 .. n, k < l
      PROVE  new[k] + Need(rest[k]) <= new[l]
  <2>1. k \in 1 .. n - 1 /\ k + 1 \in 1 .. n + 1 /\ l + 1 \in 1 .. n + 1 /\ k + 1 < l + 1
    BY <1>2, <1>8
  <2>2. new[k] = pos[k + 1] /\ new[l] = pos[l + 1] /\ rest[k] = msgs[k + 1]
    BY <1>2, <1>4, <2>1
  <2> QED BY <1>3, <2>1, <2>2
<1>9. new \in [1 .. Len(rest) + 1 -> Nat]
      /\ ChainAt(block, rest, from + Need(Head(msgs)), to, new)
  <2>1. Len(rest) + 1 = n /\ Len(rest) = n - 1
    BY <1>2
  <2> QED BY <1>5, <1>6, <1>7, <1>8, <2>1 DEF ChainAt
<1> QED BY <1>9 DEF Chain, rest

LEMMA HeadOfConcat ==
  ASSUME NEW S, NEW s \in Seq(S), NEW t \in Seq(S), s # <<>>
  PROVE  s \o t # <<>> /\ Head(s \o t) = Head(s) /\ Tail(s \o t) = Tail(s) \o t
<1>1. /\ s \o t \in Seq(S) /\ Len(s \o t) = Len(s) + Len(t)
      /\ \A i \in 1 .. Len(s) + Len(t) :
           (s \o t)[i] = IF i <= Len(s) THEN s[i] ELSE t[i - Len(s)]
      /\ Len(s) \in Nat /\ Len(t) \in Nat /\ Len(s) >= 1
  BY ConcatProperties, LenProperties, EmptySeq
<1>2. s \o t # <<>>
  BY ConcatEqualIffEmpty
<1>3. /\ Tail(s) \in Seq(S) /\ Len(Tail(s)) = Len(s) - 1
      /\ \A i \in 1 .. Len(Tail(s)) : Tail(s)[i] = s[i + 1]
  BY HeadTailProperties
<1>4. /\ Tail(s \o t) \in Seq(S) /\ Len(Tail(s \o t)) = Len(s) + Len(t) - 1
      /\ \A i \in 1 .. Len(s) + Len(t) - 1 : Tail(s \o t)[i] = (s \o t)[i + 1]
  BY <1>1, <1>2, HeadTailProperties
<1>5. /\ Tail(s) \o t \in Seq(S) /\ Len(Tail(s) \o t) = Len(s) - 1 + Len(t)
      /\ \A i \in 1 .. Len(s) - 1 + Len(t) :
           (Tail(s) \o t)[i] = IF i <= Len(s) - 1 THEN Tail(s)[i] ELSE t[i - (Len(s) - 1)]
  <2>1. /\ Tail(s) \o t \in Seq(S) /\ Len(Tail(s) \o t) = Len(Tail(s)) + Len(t)
        /\ \A i \in 1 .. Len(Tail(s)) + Len(t) :
             (Tail(s) \o t)[i] =
               IF i <= Len(Tail(s)) THEN Tail(s)[i] ELSE t[i - Len(Tail(s))]
    BY <1>3, ConcatProperties
  <2> QED BY <1>3, <2>1
<1>6. ASSUME NEW i \in 1 .. Len(s) + Len(t) - 1
      PROVE  Tail(s \o t)[i] = (Tail(s) \o t)[i]
  <2>1. /\ i + 1 \in 1 .. Len(s) + Len(t) /\ i \in 1 .. Len(s) - 1 + Len(t)
        /\ i + 1 - Len(s) = i - (Len(s) - 1)
        /\ (i + 1 <= Len(s)) = (i <= Len(s) - 1)
    BY <1>1
  <2>2. Tail(s \o t)[i] = IF i + 1 <= Len(s) THEN s[i + 1] ELSE t[i + 1 - Len(s)]
    BY <1>1, <1>4, <2>1
  <2>3. CASE i <= Len(s) - 1
    <3>1. i \in 1 .. Len(Tail(s))
      BY <1>3, <2>3
    <3> QED BY <1>3, <1>5, <2>1, <2>2, <2>3, <3>1
  <2>4. CASE ~(i <= Len(s) - 1)
    BY <1>5, <2>1, <2>2, <2>4
  <2> QED BY <2>3, <2>4
<1>7. Tail(s \o t) = Tail(s) \o t
  <2>1. Len(Tail(s \o t)) = Len(Tail(s) \o t)
    BY <1>1, <1>4, <1>5
  <2> QED BY <1>4, <1>5, <1>6, <2>1, SeqEqual
<1>8. Head(s \o t) = Head(s)
  <2>1. 1 \in 1 .. Len(s) + Len(t) /\ 1 <= Len(s)
    BY <1>1
  <2> QED BY <1>1, <1>2, <2>1
<1> QED BY <1>2, <1>7, <1>8

-----------------------------------------------------------------------------
(* Reading: what lies at the read offset is taken for a message, and is    *)
(* the oldest one.                                                         *)

LEMMA FoundAtOffset ==
  ASSUME ShortMessages, NEW r \in RingBuffers, NEW m \in Messages,
         Holds(r.data_ptr, ReadOffset(r), m), ReadOffset(r) \in Nat
  PROVE  DataLength(r) = Len(m) /\ Found(r) = m
<1>1. m \in Seq(Byte) /\ Len(m) \in Nat /\ Base \in Nat /\ Base > 1
  BY Bytes, BaseAssumption
<1>2. SignByte(0) = 0
  BY <1>1 DEF SignByte
<1>3. DataLength(r) = Len(m)
  BY <1>1, <1>2 DEF DataLength, Holds
<1>4. Found(r) = [i \in 1 .. Len(m) |-> m[i]]
  <2>1. \A i \in 1 .. Len(m) : r.data_ptr[ReadOffset(r) + 2 + i - 1] = m[i]
    <3>1. \A i \in 1 .. Len(m) : ReadOffset(r) + 2 + i - 1 = ReadOffset(r) + 1 + i
      BY <1>1
    <3> QED BY <3>1 DEF Holds
  <2> QED BY <1>3, <2>1 DEF Found, BytesAt
<1>5. m = [i \in 1 .. Len(m) |-> m[i]]
  BY <1>1, LenProperties
<1> QED BY <1>3, <1>4, <1>5

LEMMA ReadAt ==
  ASSUME NEW r \in RingBuffers, NEW n \in Nat,
         ReadOffset(r) \in Nat, DataLength(r) = n, ReadOffset(r) + 2 + n \in 0 .. Length-1
  PROVE  /\ hs_ringbuffer_read(r) \in RingBuffers
         /\ hs_ringbuffer_read(r).data_ptr = r.data_ptr
         /\ hs_ringbuffer_read(r).curr_read = ReadOffset(r) + 2 + n
         /\ hs_ringbuffer_read(r).curr_write = r.curr_write
         /\ hs_ringbuffer_read(r).is_full = FALSE
BY DEF hs_ringbuffer_read, RingBuffers

LEMMA OldestIsRead ==
  ASSUME ShortMessages, NEW r \in RingBuffers, NEW msgs \in Seq(Messages),
         Laid(r, msgs)
  PROVE  /\ msgs = <<>> => ~CanRead(r)
         /\ msgs # <<>> =>
              /\ CanRead(r)
              /\ Found(r) = Head(msgs) /\ DataLength(r) = Len(Head(msgs))
              /\ ReadOffset(r) \in Nat
              /\ hs_ringbuffer_read(r) \in RingBuffers
              /\ hs_ringbuffer_read(r).data_ptr = r.data_ptr
              /\ hs_ringbuffer_read(r).curr_read = ReadOffset(r) + 2 + Len(Head(msgs))
              /\ Laid(hs_ringbuffer_read(r), Tail(msgs))
<1> DEFINE m == Head(msgs)
           next == hs_ringbuffer_read(r)
<1>1. /\ r.curr_read \in 0 .. Length-1 /\ r.curr_write \in 0 .. Length-1
      /\ r.length = Length /\ Length \in Nat /\ Base \in Nat /\ Base > 1
  BY LengthAssumption, BaseAssumption DEF RingBuffers
<1>2. CASE Straight(r, msgs) /\ msgs = <<>>
  <2>1. r.curr_read = r.curr_write /\ ~r.is_full
    <3>1. /\ Chain(r.data_ptr, <<>>, r.curr_read, r.curr_write)
          /\ r.curr_read \in Nat /\ ~r.is_full
      BY <1>1, <1>2 DEF Straight
    <3> QED BY ONLY <3>1, ChainOfNone
  <2> QED BY <1>2, <2>1 DEF CanRead
<1>3. CASE Straight(r, msgs) /\ msgs # <<>>
  <2>1. /\ m \in Messages /\ Holds(r.data_ptr, r.curr_read, m)
        /\ r.curr_read + Need(m) <= r.curr_write
        /\ Chain(r.data_ptr, Tail(msgs), r.curr_read + Need(m), r.curr_write)
    BY <1>1, <1>3, ChainStarts, ChainShrinks DEF Straight
  <2>2. Len(m) \in Nat /\ Need(m) = Len(m) + 2
    BY <2>1, Bytes
  <2> HIDE DEF m
  <2>3. r.curr_read < r.curr_write /\ ~TurnsBack(r)
    BY <1>1, <2>1, <2>2 DEF TurnsBack
  <2>4. ReadOffset(r) = r.curr_read /\ Behind(r) = r.curr_write - r.curr_read
    BY <1>1, <2>3 DEF ReadOffset, Behind
  <2>5. DataLength(r) = Len(m) /\ Found(r) = m
    BY <1>1, <2>1, <2>4, FoundAtOffset
  <2>6. CanRead(r)
    BY <1>1, <2>1, <2>2, <2>3, <2>4, <2>5 DEF CanRead
  <2>7. r.curr_read + Need(m) = ReadOffset(r) + 2 + Len(m)
    BY ONLY <1>1, <2>2, <2>4
  <2>8. /\ next \in RingBuffers /\ next.data_ptr = r.data_ptr
        /\ next.curr_read = ReadOffset(r) + 2 + Len(m)
        /\ next.curr_write = r.curr_write /\ next.is_full = FALSE
    <3>1. ReadOffset(r) + 2 + Len(m) \in 0 .. Length-1 /\ ReadOffset(r) \in Nat
      BY <1>1, <2>1, <2>2, <2>4
    <3> QED BY <2>2, <2>5, <3>1, ReadAt
  <2>9. Straight(next, Tail(msgs))
    BY <2>1, <2>7, <2>8 DEF Straight
  <2> QED BY <1>1, <1>3, <2>4, <2>5, <2>6, <2>8, <2>9 DEF Laid, m
<1>4. CASE Wrapped(r, msgs)
  <2>1. PICK first \in Seq(Messages), second \in Seq(Messages), end \in 0 .. Length-1 :
          msgs = first \o second /\ WrappedAt(r, first, second, end)
    BY <1>4 DEF Wrapped
  <2>2. /\ second # <<>> /\ Chain(r.data_ptr, first, r.curr_read, end)
        /\ Chain(r.data_ptr, second, 0, r.curr_write)
        /\ r.curr_write <= r.curr_read /\ r.data_ptr[end] = Mark
        /\ r.is_full = (r.curr_write = r.curr_read)
    BY <2>1 DEF WrappedAt
  <2>3. r.curr_read # r.curr_write \/ r.is_full
    BY <2>2
  <2>4. msgs # <<>>
    BY <2>1, <2>2, ConcatEqualIffEmpty
  <2>5. CASE first = <<>>
    <3>1. msgs = second /\ r.curr_read = end
      <4>1. r.curr_read \in Nat /\ Chain(r.data_ptr, <<>>, r.curr_read, end)
        BY <1>1, <2>2, <2>5
      <4>2. r.curr_read = end
        BY ONLY <4>1, ChainOfNone
      <4>3. msgs = second
        BY <2>1, <2>5, ConcatEmptySeq
      <4> QED BY <4>2, <4>3
    <3>2. /\ m \in Messages /\ Holds(r.data_ptr, 0, m) /\ 0 + Need(m) <= r.curr_write
          /\ Chain(r.data_ptr, Tail(msgs), 0 + Need(m), r.curr_write)
      BY <1>1, <2>2, <3>1, ChainStarts, ChainShrinks
    <3>3. Len(m) \in Nat /\ Need(m) = Len(m) + 2
      BY <3>2, Bytes
    <3> HIDE DEF m
    <3>4. TurnsBack(r)
      BY <1>1, <2>2, <3>1 DEF TurnsBack
    <3>5. ReadOffset(r) = 0 /\ Behind(r) = r.curr_write
      BY <3>4 DEF ReadOffset, Behind
    <3>6. DataLength(r) = Len(m) /\ Found(r) = m
      BY <3>2, <3>5, FoundAtOffset
    <3>7. CanRead(r)
      BY <1>1, <2>2, <2>3, <3>2, <3>3, <3>5, <3>6 DEF CanRead
    <3>8. /\ next \in RingBuffers /\ next.data_ptr = r.data_ptr
          /\ next.curr_read = ReadOffset(r) + 2 + Len(m)
          /\ next.curr_write = r.curr_write /\ next.is_full = FALSE
      <4>1. ReadOffset(r) + 2 + Len(m) \in 0 .. Length-1 /\ ReadOffset(r) \in Nat
        BY <1>1, <3>2, <3>3, <3>5
      <4>2. DataLength(r) = Len(m) /\ Len(m) \in Nat /\ r \in RingBuffers
        BY <3>3, <3>6
      <4> QED BY <4>1, <4>2, ReadAt DEF next
    <3>9. Straight(next, Tail(msgs))
      <4>1. 0 + Need(m) = next.curr_read
        BY <3>3, <3>5, <3>8
      <4> QED BY <3>2, <3>8, <4>1 DEF Straight
    <3> QED BY <2>4, <3>5, <3>6, <3>7, <3>8, <3>9 DEF Laid, m
  <2>6. CASE first # <<>>
    <3>1. m = Head(first) /\ Tail(msgs) = Tail(first) \o second
      BY <2>1, <2>6, HeadOfConcat
    <3>2. /\ m \in Messages /\ Holds(r.data_ptr, r.curr_read, m)
          /\ r.curr_read + Need(m) <= end
          /\ Chain(r.data_ptr, Tail(first), r.curr_read + Need(m), end)
      BY <1>1, <2>2, <2>6, <3>1, ChainStarts, ChainShrinks
    <3>3. Len(m) \in Nat /\ Need(m) = Len(m) + 2
      BY <3>2, Bytes
    <3> HIDE DEF m
    <3>4. ~TurnsBack(r)
      <4>1. r.data_ptr[r.curr_read] = 0 /\ 0 # Mark
        BY <1>1, <3>2 DEF Holds, Mark
      <4>2. r.length - 1 - r.curr_read >= 2
        BY <1>1, <3>2, <3>3
      <4> QED BY <1>1, <4>1, <4>2 DEF TurnsBack
    <3>5. ReadOffset(r) = r.curr_read /\ Behind(r) = Length - 1 - r.curr_read
      BY <1>1, <2>2, <3>4 DEF ReadOffset, Behind
    <3>6. DataLength(r) = Len(m) /\ Found(r) = m
      BY <1>1, <3>2, <3>5, FoundAtOffset
    <3>7. CanRead(r)
      BY <1>1, <2>2, <2>3, <3>2, <3>3, <3>5, <3>6 DEF CanRead
    <3>8. /\ next \in RingBuffers /\ next.data_ptr = r.data_ptr
          /\ next.curr_read = ReadOffset(r) + 2 + Len(m)
          /\ next.curr_write = r.curr_write /\ next.is_full = FALSE
      <4>1. ReadOffset(r) + 2 + Len(m) \in 0 .. Length-1 /\ ReadOffset(r) \in Nat
        BY <1>1, <3>2, <3>3, <3>5
      <4>2. DataLength(r) = Len(m) /\ Len(m) \in Nat /\ r \in RingBuffers
        BY <3>3, <3>6
      <4> QED BY <4>1, <4>2, ReadAt DEF next
    <3> HIDE DEF next
    <3>9. WrappedAt(next, Tail(first), second, end)
      <4>0. r.curr_read \in Nat /\ r.curr_write \in Nat
        BY <1>1
      <4>1. r.curr_read + Need(m) = r.curr_read + 2 + Len(m)
        BY <3>2, <4>0, BehindNeed
      <4>2. r.curr_read + Need(m) = next.curr_read
        BY <3>5, <3>8, <4>1
      <4>3. next.curr_write < next.curr_read
        BY <1>1, <2>2, <3>3, <3>5, <3>8
      <4>4. Chain(next.data_ptr, Tail(first), next.curr_read, end)
        BY <3>2, <3>8, <4>2
      <4>5. next.is_full = (next.curr_write = next.curr_read)
            /\ next.curr_write <= next.curr_read
        <5>1. next.curr_write \in Nat /\ next.curr_read \in Nat
          BY <3>8 DEF RingBuffers
        <5>2. next.curr_write # next.curr_read /\ next.curr_write <= next.curr_read
          BY <4>3, <5>1
        <5> QED BY <3>8, <5>2
      <4> QED BY <2>2, <3>8, <4>4, <4>5 DEF WrappedAt
    <3>10. Wrapped(next, Tail(msgs))
      BY <2>6, <3>1, <3>9, HeadTailProperties DEF Wrapped
    <3> QED BY <1>1, <2>4, <3>5, <3>6, <3>7, <3>8, <3>10 DEF Laid, m, next
  <2> QED BY <2>5, <2>6
<1> QED BY <1>2, <1>3, <1>4 DEF Laid

-----------------------------------------------------------------------------
(* Writing and asking.                                                     *)

LEMMA WrappedIsBehind ==
  ASSUME NEW r \in RingBuffers, NEW msgs, Wrapped(r, msgs), ~r.is_full
  PROVE  r.curr_write < r.curr_read
<1>1. r.curr_write <= r.curr_read /\ r.is_full = (r.curr_write = r.curr_read)
  BY DEF Wrapped, WrappedAt
<1>2. r.curr_write # r.curr_read
  BY <1>1
<1> QED BY <1>1, <1>2 DEF RingBuffers

(* The mark of a refused write, or of a question, lies in no message: at   *)
(* the write offset, which is no cell of a chain that has not wrapped.     *)
LEMMA MarkIsOutside ==
  ASSUME NEW r \in RingBuffers, NEW msgs \in Seq(Messages), Laid(r, msgs), NEW need
  PROVE  /\ Marked(r, need) \in RingBuffers
         /\ Marked(r, need).curr_read = r.curr_read
         /\ Marked(r, need).curr_write = r.curr_write
         /\ Marked(r, need).is_full = r.is_full
         /\ Marked(r, need).length = r.length
         /\ \A k \in 0 .. Length-1 :
              k < r.curr_read => Marked(r, need).data_ptr[k] = r.data_ptr[k]
         /\ Laid(Marked(r, need), msgs)
<1> DEFINE block == [r.data_ptr EXCEPT ![r.curr_write] = Mark]
           new == [r EXCEPT !.data_ptr = block]
<1>1. /\ r.curr_read \in 0 .. Length-1 /\ r.curr_write \in 0 .. Length-1
      /\ r.data_ptr \in Block(Length) /\ r.length = Length /\ Length \in Nat
  BY LengthAssumption DEF RingBuffers
<1>2. Mark \in Byte
  BY BaseAssumption DEF Mark
<1>3. block \in Block(Length) /\ \A k \in 0 .. Length-1 :
         block[k] = IF k = r.curr_write THEN Mark ELSE r.data_ptr[k]
  BY <1>1, <1>2 DEF Block
<1> HIDE DEF block
<1>4. CASE ~(~r.is_full /\ StartsOver(r, need) /\ r.curr_read > 0)
  BY <1>4 DEF Marked
<1>5. CASE ~r.is_full /\ StartsOver(r, need) /\ r.curr_read > 0
  <2>1. Marked(r, need) = new
    BY <1>5 DEF Marked, block
  <2>2. /\ new \in RingBuffers /\ new.data_ptr = block
        /\ new.curr_read = r.curr_read /\ new.curr_write = r.curr_write
        /\ new.is_full = r.is_full /\ new.length = r.length
    BY <1>3 DEF RingBuffers
  <2> HIDE DEF new
  <2>3. r.curr_write >= r.curr_read
    BY <1>5 DEF StartsOver
  <2>4. ~Wrapped(r, msgs)
    <3>1. ~(r.curr_write < r.curr_read)
      BY <1>1, <2>3
    <3> QED BY <1>5, <3>1, WrappedIsBehind
  <2>5. Straight(new, msgs)
    <3>1. Chain(r.data_ptr, msgs, r.curr_read, r.curr_write)
          /\ ~r.is_full /\ r.curr_read <= r.curr_write
      BY <2>4 DEF Laid, Straight
    <3>2. \A k \in r.curr_read .. r.curr_write - 1 : block[k] = r.data_ptr[k]
      BY <1>1, <1>3
    <3>3. r.curr_read \in Nat /\ r.curr_write \in Nat
      BY <1>1
    <3>4. Chain(block, msgs, r.curr_read, r.curr_write)
      BY <3>1, <3>2, <3>3, ChainFramed
    <3> QED BY <2>2, <3>1, <3>4 DEF Straight
  <2>6. \A k \in 0 .. Length-1 : k < r.curr_read => block[k] = r.data_ptr[k]
    BY <1>1, <1>3, <2>3
  <2> QED BY <2>1, <2>2, <2>5, <2>6 DEF Laid
<1> QED BY <1>4, <1>5

LEMMA OneChained ==
  ASSUME NEW block, NEW at \in Nat, NEW m \in Messages, Holds(block, at, m)
  PROVE  Chain(block, <<m>>, at, at + Need(m))
<1>1. Chain(block, <<>>, at, at) /\ <<>> \in Seq(Messages)
  BY ChainOfNone, EmptySeq
<1>2. Append(<<>>, m) = <<m>>
  OBVIOUS
<1> QED BY <1>1, <1>2, ChainGrows

LEMMA NewestIsWritten ==
  ASSUME ShortMessages, NEW r \in RingBuffers, NEW msgs \in Seq(Messages),
         Laid(r, msgs), NEW m \in Messages, CanWrite(r, Need(m))
  PROVE  /\ hs_ringbuffer_write(r, m) \in RingBuffers
         /\ Laid(hs_ringbuffer_write(r, m), Append(msgs, m))
<1> DEFINE need == Need(m)
           at == WriteOffset(r, need)
           marked == Marked(r, need)
           block == CopyInto(marked.data_ptr, at, Frame(m))
           new == [marked EXCEPT !.data_ptr = block, !.curr_write = at + need,
                                 !.is_full = at + need = r.curr_read]
<1>1. /\ r.curr_read \in 0 .. Length-1 /\ r.curr_write \in 0 .. Length-1
      /\ r.data_ptr \in Block(Length) /\ r.length = Length /\ Length \in Nat
      /\ need \in Nat /\ need >= 2
  BY LengthAssumption, Bytes DEF RingBuffers
<1>2. hs_ringbuffer_write(r, m) = new
  BY DEF hs_ringbuffer_write, IsFull, Frame
<1>3. ~r.is_full /\ Left(r, need) >= need
  BY DEF CanWrite
<1>4. /\ marked \in RingBuffers /\ marked.curr_read = r.curr_read
      /\ marked.data_ptr \in Block(Length)
      /\ \A k \in 0 .. Length-1 :
           k < r.curr_read => marked.data_ptr[k] = r.data_ptr[k]
      /\ Laid(marked, msgs) /\ marked.curr_write = r.curr_write
      /\ marked.is_full = r.is_full
  BY MarkIsOutside DEF RingBuffers
<1>5. at \in Nat /\ at + need \in 0 .. Length-1
  <2>1. CASE StartsOver(r, need)
    BY <1>1, <1>3, <2>1 DEF StartsOver, WriteOffset, Left
  <2>2. CASE ~StartsOver(r, need)
    BY <1>1, <1>3, <2>2 DEF StartsOver, WriteOffset, Left, RoomBehind
  <2> QED BY <2>1, <2>2
<1>6. /\ block \in Block(Length) /\ Holds(block, at, m)
      /\ \A k \in 0 .. Length-1 :
           k < at \/ k >= at + need => block[k] = marked.data_ptr[k]
  <2>1. at + Need(m) <= Length
    BY <1>1, <1>5
  <2> QED BY <1>1, <1>4, <1>5, <2>1, FrameCopied
<1> HIDE DEF block
<1>7. /\ new \in RingBuffers /\ new.data_ptr = block /\ new.curr_read = r.curr_read
      /\ new.curr_write = at + need /\ new.is_full = (at + need = r.curr_read)
  BY <1>4, <1>5, <1>6 DEF RingBuffers
<1> HIDE DEF new, marked
<1>8. CASE StartsOver(r, need)
  <2>1. at = 0 /\ r.curr_write >= r.curr_read /\ r.curr_read >= need
    BY <1>1, <1>3, <1>8 DEF StartsOver, WriteOffset, Left
  <2>2. marked.data_ptr[r.curr_write] = Mark
    BY <1>1, <1>3, <1>8, <2>1 DEF marked, Marked, RingBuffers, Block
  <2>3. ~Wrapped(marked, msgs)
    <3>1. ~(marked.curr_write < marked.curr_read)
      BY <1>1, <1>4, <2>1
    <3>2. ~marked.is_full
      BY <1>3, <1>4
    <3> QED BY <1>4, <3>1, <3>2, WrappedIsBehind
  <2>4. Chain(marked.data_ptr, msgs, r.curr_read, r.curr_write)
    BY <1>4, <2>3 DEF Laid, Straight
  <2>5. \A k \in r.curr_read .. r.curr_write - 1 : block[k] = marked.data_ptr[k]
    <3>1. \A k \in r.curr_read .. r.curr_write - 1 : k \in 0 .. Length-1 /\ k >= at + need
      BY <1>1, <2>1
    <3> QED BY <1>6, <3>1
  <2>6. Chain(block, msgs, r.curr_read, r.curr_write)
    <3>1. r.curr_read \in Nat /\ r.curr_write \in Nat
      BY <1>1
    <3> QED BY <2>4, <2>5, <3>1, ChainFramed
  <2>7. Chain(block, <<m>>, 0, at + need)
    BY <1>5, <1>6, <2>1, OneChained
  <2>8. block[r.curr_write] = Mark
    BY <1>1, <1>6, <2>1, <2>2
  <2>9. new.curr_write <= new.curr_read
        /\ new.is_full = (new.curr_write = new.curr_read)
    BY <1>1, <1>7, <2>1
  <2>10. WrappedAt(new, msgs, <<m>>, r.curr_write)
    BY <1>7, <2>6, <2>7, <2>8, <2>9 DEF WrappedAt
  <2>11. Append(msgs, m) = msgs \o <<m>> /\ <<m>> \in Seq(Messages)
    BY AppendIsConcat
  <2>12. Wrapped(new, Append(msgs, m))
    BY <1>1, <2>10, <2>11 DEF Wrapped
  <2> QED BY <1>2, <1>7, <2>12 DEF Laid
<1>9. CASE ~StartsOver(r, need) /\ r.curr_write >= r.curr_read
  <2>1. at = r.curr_write
    BY <1>9 DEF WriteOffset
  <2>2. ~Wrapped(r, msgs)
    <3>1. ~(r.curr_write < r.curr_read)
      BY <1>1, <1>9
    <3> QED BY <1>3, <3>1, WrappedIsBehind
  <2>3. marked = r
    BY <1>9 DEF marked, Marked
  <2>4. Chain(r.data_ptr, msgs, r.curr_read, r.curr_write)
    BY <2>2 DEF Laid, Straight
  <2>5. r.curr_read \in Nat /\ r.curr_write \in Nat
    BY <1>1
  <2>6. \A k \in r.curr_read .. r.curr_write - 1 : block[k] = r.data_ptr[k]
    <3>1. \A k \in r.curr_read .. r.curr_write - 1 : k \in 0 .. Length-1 /\ k < at
      BY <1>1, <2>1
    <3> QED BY <1>6, <2>3, <3>1
  <2>7. Chain(block, msgs, r.curr_read, r.curr_write)
    BY <2>4, <2>5, <2>6, ChainFramed
  <2>8. Chain(block, Append(msgs, m), r.curr_read, at + need)
    BY <1>6, <2>1, <2>5, <2>7, ChainGrows
  <2>9. ~new.is_full /\ new.curr_read <= new.curr_write
    <3>1. at + need > r.curr_read /\ at + need # r.curr_read
      BY <1>1, <1>9, <2>1
    <3>2. ~new.is_full
      BY <1>7, <3>1
    <3> QED BY <1>1, <1>7, <2>1, <3>1, <3>2
  <2>10. Straight(new, Append(msgs, m))
    BY <1>7, <2>8, <2>9 DEF Straight
  <2> QED BY <1>2, <1>7, <2>10 DEF Laid
<1>10. CASE r.curr_write < r.curr_read
  <2>1. ~StartsOver(r, need) /\ Left(r, need) = r.curr_read - r.curr_write
    BY <1>1, <1>10 DEF StartsOver, Left
  <2>2. at = r.curr_write /\ at + need <= r.curr_read
    BY <1>1, <1>3, <2>1 DEF WriteOffset
  <2>3. marked = r
    BY <2>1 DEF marked, Marked
  <2>4. ~Straight(r, msgs)
    BY <1>1, <1>10 DEF Straight
  <2>5. PICK first \in Seq(Messages), second \in Seq(Messages), end \in 0 .. Length-1 :
          msgs = first \o second /\ WrappedAt(r, first, second, end)
    BY <2>4 DEF Laid, Wrapped
  <2>6. /\ second # <<>> /\ Chain(r.data_ptr, first, r.curr_read, end)
        /\ Chain(r.data_ptr, second, 0, r.curr_write) /\ r.data_ptr[end] = Mark
    BY <2>5 DEF WrappedAt
  <2>7. r.curr_read \in Nat /\ r.curr_write \in Nat /\ end \in Nat
        /\ r.curr_read <= end
    <3>1. r.curr_read \in Nat /\ r.curr_write \in Nat /\ end \in Nat
      BY <1>1
    <3>2. r.curr_read <= end
      BY <2>6, <3>1, ChainStarts
    <3> QED BY <3>1, <3>2
  <2>8. Chain(block, first, r.curr_read, end)
    <3>1. \A k \in r.curr_read .. end - 1 : k \in 0 .. Length-1 /\ k >= at + need
      BY <1>1, <1>5, <2>2, <2>7
    <3>2. \A k \in r.curr_read .. end - 1 : block[k] = r.data_ptr[k]
      BY <1>6, <2>3, <3>1
    <3> QED BY <2>6, <2>7, <3>2, ChainFramed
  <2>9. Chain(block, second, 0, r.curr_write)
    <3>1. \A k \in 0 .. r.curr_write - 1 : k \in 0 .. Length-1 /\ k < at
      BY <1>1, <2>2
    <3>2. \A k \in 0 .. r.curr_write - 1 : block[k] = r.data_ptr[k]
      BY <1>6, <2>3, <3>1
    <3> QED BY <2>6, <2>7, <3>2, ChainFramed
  <2>10. Chain(block, Append(second, m), 0, at + need)
    BY <1>6, <2>2, <2>7, <2>9, ChainGrows
  <2>11. block[end] = Mark
    <3>1. end \in 0 .. Length-1 /\ end >= at + need
      BY <1>1, <1>5, <2>2, <2>7
    <3> QED BY <1>6, <2>3, <2>6, <3>1
  <2>12. /\ Append(second, m) \in Seq(Messages) /\ Append(second, m) # <<>>
         /\ Append(msgs, m) = first \o Append(second, m)
    <3>1. <<m>> \in Seq(Messages)
      OBVIOUS
    <3>2. (first \o second) \o <<m>> = first \o (second \o <<m>>)
      BY <3>1, ConcatAssociative
    <3> QED BY <2>5, <3>2, AppendIsConcat, AppendProperties
  <2>13. new.curr_write <= new.curr_read
        /\ new.is_full = (new.curr_write = new.curr_read)
    BY <1>7, <2>2
  <2>14. WrappedAt(new, first, Append(second, m), end)
    BY <1>7, <2>8, <2>10, <2>11, <2>12, <2>13 DEF WrappedAt
  <2>15. Wrapped(new, Append(msgs, m))
    BY <2>12, <2>14 DEF Wrapped
  <2> QED BY <1>2, <1>7, <2>15 DEF Laid
<1>11. r.curr_write >= r.curr_read \/ r.curr_write < r.curr_read
  BY <1>1
<1> QED BY <1>8, <1>9, <1>10, <1>11

-----------------------------------------------------------------------------
(* What a reader gets who reads until he is refused.                       *)

LEMMA LeastOf ==
  ASSUME NEW B, B \subseteq Nat, B # {}
  PROVE  \E x \in B : \A y \in B : x <= y
<1>1. PICK x \in B : \A y \in B : <<y, x>> \notin OpToRel(<, Nat)
  BY NatLessThanWellFounded, WFMin
<1>2. ASSUME NEW y \in B
      PROVE  x <= y
  <2>1. x \in Nat /\ y \in Nat /\ ~ (y < x)
    BY <1>1 DEF OpToRel
  <2> QED BY <2>1
<1> QED BY <1>2

(* AtMost is defined: up to each n there is a function like it.            *)
IsAtMost(f, n) ==
  f = [i \in 0 .. n |-> IF i = 0 THEN [r \in RingBuffers |-> <<>>] ELSE OneAndThen(f[i - 1])]

LEMMA AtMostExists ==
  ASSUME NEW n \in Nat
  PROVE  \E f : IsAtMost(f, n)
<1> DEFINE B == {i \in Nat : ~ \E f : IsAtMost(f, i)}
           None == [r \in RingBuffers |-> <<>>]
<1>1. SUFFICES ASSUME B # {} PROVE FALSE
  OBVIOUS
<1>2. PICK x \in B : \A y \in B : x <= y
  BY <1>1, LeastOf
<1>3. x \in Nat /\ ~ \E f : IsAtMost(f, x)
  BY <1>2
<1> HIDE DEF None
<1>4. CASE x = 0
  <2> DEFINE f == [i \in 0 .. 0 |-> None]
  <2>1. f = [i \in 0 .. 0 |-> IF i = 0 THEN None ELSE OneAndThen(f[i - 1])]
    <3> DEFINE g == [i \in 0 .. 0 |-> IF i = 0 THEN None ELSE OneAndThen(f[i - 1])]
    <3> HIDE DEF f
    <3>1. g = [i \in 0 .. 0 |-> None]
      OBVIOUS
    <3> QED BY <3>1 DEF f
  <2> HIDE DEF f
  <2> QED BY <1>3, <1>4, <2>1 DEF IsAtMost, None
<1>5. CASE x # 0
  <2>1. x - 1 \in Nat /\ ~ (x <= x - 1)
    BY <1>3, <1>5
  <2>2. \E f : IsAtMost(f, x - 1)
    BY <1>2, <2>1
  <2>3. PICK g : IsAtMost(g, x - 1)
    BY <2>2
  <2> DEFINE h == [i \in 0 .. x |-> IF i = x THEN OneAndThen(g[x - 1]) ELSE g[i]]
  <2>4. \A i \in 0 .. x - 1 : g[i] = IF i = 0 THEN None ELSE OneAndThen(g[i - 1])
    BY <2>3 DEF IsAtMost, None
  <2>5. \A i \in 0 .. x : h[i] = IF i = x THEN OneAndThen(g[x - 1]) ELSE g[i]
    OBVIOUS
  <2>6. h = [i \in 0 .. x |-> h[i]]
    OBVIOUS
  <2> HIDE DEF h
  <2>7. ASSUME NEW i \in 0 .. x
        PROVE  h[i] = IF i = 0 THEN None ELSE OneAndThen(h[i - 1])
    <3>1. CASE i = 0
      <4>1. i # x /\ i \in 0 .. x - 1
        BY <1>3, <1>5, <3>1
      <4> QED BY <2>4, <2>5, <3>1, <4>1
    <3>2. CASE i # 0
      <4>1. i - 1 \in 0 .. x /\ i - 1 # x
        BY <1>3, <3>2
      <4>2. h[i - 1] = g[i - 1]
        BY <2>5, <4>1
      <4>3. CASE i = x
        BY <2>5, <3>2, <4>2, <4>3
      <4>4. CASE i # x
        <5>1. i \in 0 .. x - 1
          BY <1>3, <4>4
        <5> QED BY <2>4, <2>5, <3>2, <4>2, <4>4, <5>1
      <4> QED BY <4>3, <4>4
    <3> QED BY <3>1, <3>2
  <2>8. h = [i \in 0 .. x |-> IF i = 0 THEN None ELSE OneAndThen(h[i - 1])]
    BY <2>6, <2>7
  <2> QED BY <1>3, <2>8 DEF IsAtMost, None
<1> QED BY <1>4, <1>5

LEMMA AtMostIs ==
  /\ \A r \in RingBuffers : AtMost[0][r] = <<>>
  /\ \A n \in 1 .. Length : \A r \in RingBuffers :
       AtMost[n][r] =
         IF CanRead(r) THEN <<Found(r)>> \o AtMost[n - 1][hs_ringbuffer_read(r)] ELSE <<>>
<1>1. Length \in Nat
  BY LengthAssumption
<1>2. \E f : IsAtMost(f, Length)
  BY <1>1, AtMostExists
<1>3. AtMost = CHOOSE f : IsAtMost(f, Length)
  BY DEF AtMost, IsAtMost
<1>4. IsAtMost(AtMost, Length)
  BY <1>2, <1>3
<1>5. \A n \in 0 .. Length :
        AtMost[n] = IF n = 0 THEN [r \in RingBuffers |-> <<>>] ELSE OneAndThen(AtMost[n - 1])
  BY <1>4 DEF IsAtMost
<1>6. AtMost[0] = [r \in RingBuffers |-> <<>>]
  BY <1>1, <1>5
<1>7. \A n \in 1 .. Length : AtMost[n] = OneAndThen(AtMost[n - 1])
  BY <1>1, <1>5
<1> QED BY <1>6, <1>7 DEF OneAndThen

LEMMA HeadAndTail ==
  ASSUME NEW S, NEW s \in Seq(S), s # <<>>
  PROVE  s = <<Head(s)>> \o Tail(s)
<1>1. <<Head(s)>> \in Seq(S) /\ <<Head(s)>> # <<>> /\ Tail(s) \in Seq(S) /\ Head(s) \in S
  BY HeadTailProperties
<1> QED BY <1>1

(* A chain takes a cell for each of its messages, at least.                *)
LEMMA ChainFits ==
  ASSUME NEW block, NEW msgs \in Seq(Messages), NEW from \in Nat, NEW to \in Nat,
         Chain(block, msgs, from, to)
  PROVE  Len(msgs) <= to - from
<1> DEFINE n == Len(msgs)
           K == 1 .. n
           C == from .. to - 1
<1>1. PICK pos \in [1 .. n + 1 -> Nat] : ChainAt(block, msgs, from, to, pos)
  BY DEF Chain
<1>2. n \in Nat /\ \A k \in 1 .. n : Need(msgs[k]) \in Nat /\ Need(msgs[k]) >= 2
  <2>1. \A k \in 1 .. n : msgs[k] \in Messages
    BY ElementOfSeq
  <2> QED BY <2>1, Bytes, LenProperties DEF Need
<1>3. /\ pos[1] = from /\ pos[n + 1] = to
      /\ \A k, l \in 1 .. n + 1 : k < l => pos[k] + Need(msgs[k]) <= pos[l]
  BY <1>1 DEF ChainAt
<1> DEFINE f == [k \in K |-> pos[k]]
<1> HIDE DEF n
<1>4. ASSUME NEW k \in K, NEW l \in 1 .. n + 1, k < l
      PROVE  pos[k] < pos[l]
  <2>1. k \in 1 .. n + 1 /\ pos[k] \in Nat /\ pos[l] \in Nat
    BY <1>1, <1>2
  <2>2. pos[k] + Need(msgs[k]) <= pos[l]
    BY <1>3, <1>4, <2>1
  <2> QED BY <1>2, <2>1, <2>2
<1>5. ASSUME NEW k \in K
      PROVE  pos[k] \in C
  <2>1. /\ 1 \in K /\ k \in 1 .. n + 1 /\ n + 1 \in 1 .. n + 1 /\ k < n + 1
        /\ k = 1 \/ 1 < k
    BY <1>2
  <2>2. pos[k] < to
    BY <1>3, <1>4, <2>1
  <2>3. from <= pos[k]
    <3>1. pos[k] \in Nat
      BY <1>1, <2>1
    <3>2. CASE k = 1
      BY <1>3, <3>2
    <3>3. CASE 1 < k
      <4>1. pos[1] < pos[k]
        BY <1>4, <2>1, <3>3
      <4> QED BY <1>3, <3>1, <4>1
    <3> QED BY <2>1, <3>2, <3>3
  <2>4. pos[k] \in Nat
    BY <1>1, <2>1
  <2> QED BY <2>2, <2>3, <2>4
<1>6. ASSUME NEW k \in K, NEW l \in K, k # l
      PROVE  pos[k] # pos[l]
  <2>1. k \in 1 .. n + 1 /\ l \in 1 .. n + 1 /\ (k < l \/ l < k)
    BY <1>2, <1>6
  <2>2. pos[k] < pos[l] \/ pos[l] < pos[k]
    BY <1>4, <2>1
  <2>3. pos[k] \in Nat /\ pos[l] \in Nat
    BY <1>1, <2>1
  <2> QED BY <2>2, <2>3
<1>7. f \in Injection(K, C)
  <2>1. f \in [K -> C]
    BY <1>5
  <2>2. \A k, l \in K : f[k] = f[l] => k = l
    BY <1>6
  <2> HIDE DEF f, K, C
  <2> QED BY <2>1, <2>2 DEF Injection, IsInjective
<1>8. /\ IsFiniteSet(C) /\ Cardinality(C) = IF from > to - 1 THEN 0 ELSE (to - 1) - from + 1
      /\ Cardinality(K) = IF 1 > n THEN 0 ELSE n - 1 + 1
  <2>1. from \in Int /\ to - 1 \in Int /\ 1 \in Int /\ n \in Int
    BY <1>2
  <2>2. IsFiniteSet(C) /\ Cardinality(C) = IF from > to - 1 THEN 0 ELSE (to - 1) - from + 1
    BY <2>1, FS_Interval
  <2>3. Cardinality(K) = IF 1 > n THEN 0 ELSE n - 1 + 1
    BY <2>1, FS_Interval
  <2> QED BY <2>2, <2>3
<1> HIDE DEF f, K, C
<1>9. Cardinality(K) <= Cardinality(C)
  BY <1>7, <1>8, FS_Injection
<1>10. from <= to
  <2>1. CASE n = 0
    BY <1>3, <2>1
  <2>2. CASE n # 0
    <3>1. 1 \in K /\ n + 1 \in 1 .. n + 1 /\ 1 < n + 1
      BY <1>2, <2>2 DEF K
    <3>2. pos[1] < pos[n + 1]
      BY <1>4, <3>1
    <3> QED BY <1>3, <3>2
  <2> QED BY <2>1, <2>2
<1> QED BY <1>2, <1>8, <1>9, <1>10 DEF n

LEMMA LaidFits ==
  ASSUME NEW r \in RingBuffers, NEW msgs \in Seq(Messages), Laid(r, msgs)
  PROVE  Len(msgs) \in 0 .. Length
<1>1. r.curr_read \in 0 .. Length-1 /\ r.curr_write \in 0 .. Length-1 /\ Length \in Nat
  BY LengthAssumption DEF RingBuffers
<1>2. Len(msgs) \in Nat
  BY LenProperties
<1>3. CASE Straight(r, msgs)
  <2>1. Len(msgs) <= r.curr_write - r.curr_read
    BY <1>1, <1>3, ChainFits DEF Straight
  <2> QED BY <1>1, <1>2, <2>1
<1>4. CASE Wrapped(r, msgs)
  <2>1. PICK first \in Seq(Messages), second \in Seq(Messages), end \in 0 .. Length-1 :
          msgs = first \o second /\ WrappedAt(r, first, second, end)
    BY <1>4 DEF Wrapped
  <2>2. r.curr_write <= r.curr_read
    BY <2>1 DEF WrappedAt
  <2>3. Len(first) <= end - r.curr_read
    BY <1>1, <2>1, ChainFits DEF WrappedAt
  <2>4. Len(second) <= r.curr_write - 0
    BY <1>1, <2>1, ChainFits DEF WrappedAt
  <2>5. Len(msgs) = Len(first) + Len(second) /\ Len(first) \in Nat /\ Len(second) \in Nat
    BY <2>1, ConcatProperties, LenProperties
  <2> QED BY <1>1, <1>2, <2>2, <2>3, <2>4, <2>5
<1> QED BY <1>3, <1>4 DEF Laid

(* A reader who goes on reading gets all messages, in their order.         *)
LEMMA AllAreRead ==
  ASSUME ShortMessages, NEW r \in RingBuffers, NEW msgs \in Seq(Messages), Laid(r, msgs)
  PROVE  Stored(r) = msgs
<1> DEFINE Fails(n) == \E q \in RingBuffers, ms \in Seq(Messages) :
                         Laid(q, ms) /\ Len(ms) <= n /\ AtMost[n][q] # ms
           B == {n \in 0 .. Length : Fails(n)}
<1>1. B = {}
  <2> SUFFICES ASSUME B # {} PROVE FALSE
    OBVIOUS
  <2>1. PICK x \in B : \A y \in B : x <= y
    <3>1. B \subseteq Nat
      BY LengthAssumption
    <3> HIDE DEF B
    <3> QED BY <3>1, LeastOf
  <2>2. x \in 0 .. Length /\ Fails(x)
    BY <2>1
  <2>3. PICK q \in RingBuffers, ms \in Seq(Messages) :
          Laid(q, ms) /\ Len(ms) <= x /\ AtMost[x][q] # ms
    BY <2>2
  <2>4. Len(ms) \in Nat
    BY LenProperties
  <2>5. CASE ms = <<>>
    <3>1. ~ CanRead(q)
      BY <2>3, <2>5, OldestIsRead
    <3>2. AtMost[x][q] = <<>>
      <4>1. CASE x = 0
        BY <4>1, AtMostIs
      <4>2. CASE x # 0
        <5>1. x \in 1 .. Length
          BY <2>2, <4>2, LengthAssumption
        <5> QED BY <3>1, <5>1, AtMostIs
      <4> QED BY <4>1, <4>2
    <3> QED BY <2>3, <2>5, <3>2
  <2>6. CASE ms # <<>>
    <3> DEFINE next == hs_ringbuffer_read(q)
    <3>1. CanRead(q) /\ Found(q) = Head(ms) /\ next \in RingBuffers /\ Laid(next, Tail(ms))
      BY <2>3, <2>6, OldestIsRead
    <3>2. Tail(ms) \in Seq(Messages) /\ Len(Tail(ms)) = Len(ms) - 1 /\ Len(ms) >= 1
      BY <2>4, <2>6, HeadTailProperties, EmptySeq
    <3>3. /\ x \in 1 .. Length /\ x - 1 \in 0 .. Length /\ ~ (x <= x - 1)
          /\ Len(Tail(ms)) <= x - 1
      BY <2>2, <2>3, <2>4, <3>2, LengthAssumption
    <3>4. ~ Fails(x - 1)
      BY <2>1, <3>3
    <3> HIDE DEF next
    <3>5. AtMost[x - 1][next] = Tail(ms)
      BY <3>1, <3>2, <3>3, <3>4
    <3>6. AtMost[x][q] = <<Head(ms)>> \o Tail(ms)
      BY <3>1, <3>3, <3>5, AtMostIs DEF next
    <3> QED BY <2>3, <2>6, <3>6, HeadAndTail
  <2> QED BY <2>5, <2>6
<1>2. Length \in 0 .. Length /\ Len(msgs) <= Length
  BY LaidFits, LengthAssumption
<1>3. ~ Fails(Length)
  BY <1>1, <1>2
<1> QED BY <1>2, <1>3 DEF Stored

-----------------------------------------------------------------------------
(* The invariant is inductive.                                             *)

LEMMA InvInit == Init => Inv
<1> SUFFICES ASSUME Init PROVE Inv
  OBVIOUS
<1>1. hr = hs_ringbuffer_init(Length) /\ unread = <<>> /\ got = <<>> /\ lent = NoLoan
  BY DEF Init
<1>2. Length \in Nat \ {0} /\ Malloc(Length) \in Block(Length) /\ 0 \in 0 .. Length-1
  BY LengthAssumption DEF Malloc, Block
<1>3. hr \in RingBuffers
  BY <1>1, <1>2 DEF hs_ringbuffer_init, RingBuffers
<1>4. TypeOK
  BY <1>1, <1>3, EmptySeq DEF TypeOK
<1>5. hr.curr_read = 0 /\ hr.curr_write = 0 /\ hr.is_full = FALSE
  BY <1>1 DEF hs_ringbuffer_init
<1>6. Straight(hr, unread)
  <2>1. Chain(hr.data_ptr, <<>>, 0, 0)
    BY ChainOfNone
  <2> QED BY <1>1, <1>5, <2>1 DEF Straight
<1> QED BY <1>1, <1>4, <1>6 DEF Inv, Layout, Laid, Lent

(* A mark spoils nothing that was lent.                                    *)
LEMMA LentUnderMark ==
  ASSUME Inv, NEW need, hr' = Marked(hr, need), UNCHANGED <<got, lent>>
  PROVE  Lent'
<1> SUFFICES ASSUME lent' # NoLoan
             PROVE  /\ BytesAt(hr'.data_ptr, lent, Len(got)) = got
                    /\ hr'.curr_read = 0 \/ hr'.curr_read = lent + Len(got)
  BY DEF Lent, LentIsIntact
<1>1. /\ hr \in RingBuffers /\ unread \in Seq(Messages) /\ Laid(hr, unread)
      /\ lent \in Nat /\ BytesAt(hr.data_ptr, lent, Len(got)) = got
      /\ hr.curr_read = 0 \/ hr.curr_read = lent + Len(got)
      /\ Len(got) \in Nat /\ hr.curr_read \in 0 .. Length-1
  <2>1. lent # NoLoan
    OBVIOUS
  <2>2. Len(got) \in Nat
    BY Bytes DEF Inv, TypeOK
  <2> QED BY <2>1, <2>2 DEF Inv, TypeOK, Layout, Lent, LentIsIntact, RingBuffers
<1>2. hr'.curr_read = hr.curr_read
  BY <1>1, MarkIsOutside
<1>3. CASE hr.curr_read = 0
  <2>1. hr' = hr
    BY <1>3 DEF Marked
  <2> QED BY <1>1, <2>1
<1>4. CASE hr.curr_read = lent + Len(got)
  <2>1. \A i \in 1 .. Len(got) : hr'.data_ptr[lent + i - 1] = hr.data_ptr[lent + i - 1]
    <3>1. \A i \in 1 .. Len(got) :
             lent + i - 1 \in 0 .. Length-1 /\ lent + i - 1 < hr.curr_read
      BY <1>1, <1>4, LengthAssumption
    <3> QED BY <1>1, <3>1, MarkIsOutside
  <2>2. BytesAt(hr'.data_ptr, lent, Len(got)) = BytesAt(hr.data_ptr, lent, Len(got))
    BY <2>1 DEF BytesAt
  <2> QED BY <1>1, <1>2, <2>2
<1> QED BY <1>1, <1>3, <1>4

LEMMA WriteKeepsInv ==
  ASSUME ShortMessages, Inv, NEW m \in Messages, Write(m)
  PROVE  Inv'
<1>1. hr \in RingBuffers /\ unread \in Seq(Messages) /\ Laid(hr, unread)
  BY DEF Inv, TypeOK, Layout
<1>2. CASE CanWrite(hr, Need(m))
  <2>1. /\ hr' = hs_ringbuffer_write(hr, m) /\ unread' = Append(unread, m)
        /\ lent' = NoLoan /\ got' = got
    BY <1>2 DEF Write
  <2>2. hr' \in RingBuffers /\ Laid(hr', unread') /\ unread' \in Seq(Messages)
    BY <1>1, <1>2, <2>1, NewestIsWritten, AppendProperties
  <2> QED BY <2>1, <2>2 DEF Inv, TypeOK, Layout, Lent
<1>3. CASE ~CanWrite(hr, Need(m))
  <2>1. hr' = Marked(hr, Need(m)) /\ UNCHANGED <<unread, got, lent>>
    BY <1>3 DEF Write, hs_ringbuffer_write
  <2>2. hr' \in RingBuffers /\ Laid(hr', unread)
    BY <1>1, <2>1, MarkIsOutside
  <2>3. Lent'
    BY <2>1, LentUnderMark
  <2>4. TypeOK' /\ Layout'
    BY <2>1, <2>2 DEF Inv, TypeOK, Layout
  <2> QED BY <2>3, <2>4 DEF Inv
<1> QED BY <1>2, <1>3

LEMMA AskWriteKeepsInv ==
  ASSUME Inv, NEW m \in Messages, AskWrite(m)
  PROVE  Inv'
<1>1. hr' = Marked(hr, Need(m)) /\ UNCHANGED <<unread, got, lent>>
  BY DEF AskWrite
<1>2. hr' \in RingBuffers /\ Laid(hr', unread)
  BY <1>1, MarkIsOutside DEF Inv, TypeOK, Layout
<1>3. Lent'
  BY <1>1, LentUnderMark
<1>4. TypeOK' /\ Layout'
  BY <1>1, <1>2 DEF Inv, TypeOK, Layout
<1> QED BY <1>3, <1>4 DEF Inv

(* What a read does to the history: it takes the head, which is returned.  *)
LEMMA ReadTakesHead ==
  ASSUME ShortMessages, Inv, Read
  PROVE  /\ unread # <<>> /\ got' = Head(unread) /\ unread' = Tail(unread)
         /\ Inv'
<1>1. /\ hr \in RingBuffers /\ unread \in Seq(Messages) /\ Laid(hr, unread)
      /\ CanRead(hr) /\ got' = Found(hr) /\ lent' = ReadOffset(hr) + 2
      /\ hr' = hs_ringbuffer_read(hr) /\ unread' = SubSeq(unread, 2, Len(unread))
  BY DEF Inv, TypeOK, Layout, Read
<1>2. unread # <<>>
  BY <1>1, OldestIsRead
<1>3. /\ got' = Head(unread) /\ DataLength(hr) = Len(Head(unread))
      /\ ReadOffset(hr) \in Nat /\ hr' \in RingBuffers
      /\ hr'.data_ptr = hr.data_ptr
      /\ hr'.curr_read = ReadOffset(hr) + 2 + Len(Head(unread))
      /\ Laid(hr', Tail(unread))
  BY <1>1, <1>2, OldestIsRead
<1>4. unread' = Tail(unread) /\ Tail(unread) \in Seq(Messages) /\ Head(unread) \in Messages
  BY <1>1, <1>2, TailIsSubSeq, HeadTailProperties
<1>5. lent' \in 0 .. Length /\ Len(got') \in Nat
  <2>1. Len(Head(unread)) \in Nat /\ hr'.curr_read \in 0 .. Length-1 /\ Length \in Nat
    BY <1>3, <1>4, Bytes, LengthAssumption DEF RingBuffers
  <2> QED BY <1>1, <1>3, <2>1
<1>6. LentIsIntact'
  BY <1>1, <1>3 DEF LentIsIntact, Found
<1>7. Lent'
  BY <1>1, <1>3, <1>6 DEF Lent
<1>8. TypeOK' /\ Layout'
  BY <1>3, <1>4, <1>5 DEF TypeOK, Layout
<1> QED BY <1>2, <1>3, <1>4, <1>7, <1>8 DEF Inv

LEMMA ClearDataKeepsInv ==
  ASSUME Inv, ClearData
  PROVE  Inv'
<1>1. /\ hr \in RingBuffers /\ hr' = hs_ringbuffer_clear_data(hr)
      /\ unread' = <<>> /\ UNCHANGED <<got, lent>>
  BY DEF Inv, TypeOK, ClearData
<1>2. 0 \in 0 .. Length-1
  BY LengthAssumption
<1>3. /\ hr' \in RingBuffers /\ hr'.data_ptr = hr.data_ptr
      /\ hr'.curr_read = 0 /\ hr'.curr_write = 0 /\ hr'.is_full = FALSE
  BY <1>1, <1>2 DEF hs_ringbuffer_clear_data, RingBuffers
<1>4. Straight(hr', unread')
  <2>1. Chain(hr'.data_ptr, <<>>, 0, 0)
    BY ChainOfNone
  <2> QED BY <1>1, <1>3, <2>1 DEF Straight
<1>5. TypeOK' /\ Layout'
  BY <1>1, <1>3, <1>4, EmptySeq DEF Inv, TypeOK, Layout, Laid
<1>6. Lent'
  BY <1>1, <1>3 DEF Inv, Lent, LentIsIntact
<1> QED BY <1>5, <1>6 DEF Inv

LEMMA InvNext ==
  ASSUME ShortMessages
  PROVE  Inv /\ [Next]_vars => Inv'
<1> SUFFICES ASSUME Inv, [Next]_vars PROVE Inv'
  OBVIOUS
<1>1. ASSUME NEW m \in Messages, Write(m)
      PROVE  Inv'
  BY <1>1, WriteKeepsInv
<1>2. ASSUME NEW m \in Messages, AskWrite(m)
      PROVE  Inv'
  BY <1>2, AskWriteKeepsInv
<1>3. CASE Read
  BY <1>3, ReadTakesHead
<1>4. CASE ClearData
  BY <1>4, ClearDataKeepsInv
<1>5. CASE UNCHANGED vars
  BY <1>5 DEF vars, Inv, TypeOK, Layout, Lent, LentIsIntact
<1> QED BY <1>1, <1>2, <1>3, <1>4, <1>5 DEF Next

THEOREM Invariance ==
  ASSUME ShortMessages
  PROVE  Spec => []Inv
<1>1. Inv /\ [Next]_vars => Inv'
  BY InvNext
<1> QED BY <1>1, InvInit, PTL DEF Spec

-----------------------------------------------------------------------------
(* The offsets of the ring stay inside its block, and the messages stay    *)
(* messages.                                                               *)
THEOREM TypeCorrect ==
  ASSUME ShortMessages
  PROVE  Spec => []TypeOK
<1>1. Inv => TypeOK
  BY DEF Inv
<1> QED BY <1>1, Invariance, PTL

(* The bytes a reader was lent stay as they were until a write succeeds.   *)
THEOREM LentStaysIntact ==
  ASSUME ShortMessages
  PROVE  Spec => []LentIsIntact
<1>1. Inv => LentIsIntact
  BY DEF Inv, Lent, LentIsIntact
<1> QED BY <1>1, Invariance, PTL

(* An empty ring takes every message that needs no more than half of it,   *)
(* wherever its offsets have met.                                          *)
THEOREM HalfAlwaysFits ==
  ASSUME ShortMessages
  PROVE  Spec => []EmptyTakesHalf
<1>1. Inv => EmptyTakesHalf
  <2> SUFFICES ASSUME Inv, unread = <<>>, NEW m \in Messages, 2 * Need(m) <= Length
               PROVE  CanWrite(hr, Need(m))
    BY DEF EmptyTakesHalf
  <2>1. /\ hr \in RingBuffers /\ hr.curr_read \in 0 .. Length-1
        /\ hr.curr_write \in 0 .. Length-1 /\ hr.length = Length /\ Length \in Nat
        /\ Laid(hr, unread) /\ Need(m) \in Nat
    BY LengthAssumption, Bytes DEF Inv, TypeOK, Layout, RingBuffers
  <2>2. ~Wrapped(hr, unread)
    <3>1. ASSUME NEW first \in Seq(Messages), NEW second \in Seq(Messages), second # <<>>
          PROVE  first \o second # <<>>
      BY <3>1, ConcatEqualIffEmpty
    <3> QED BY <3>1 DEF Wrapped, WrappedAt
  <2>3. ~hr.is_full /\ Chain(hr.data_ptr, <<>>, hr.curr_read, hr.curr_write)
    BY <2>1, <2>2 DEF Laid, Straight
  <2>4. hr.curr_write = hr.curr_read
    <3>1. hr.curr_read \in Nat
      BY <2>1
    <3> QED BY <2>3, <3>1, ChainOfNone
  <2>5. Left(hr, Need(m)) >= Need(m)
    BY <2>1, <2>4 DEF Left, StartsOver, RoomBehind
  <2> QED BY <2>3, <2>5 DEF CanWrite
<1> QED BY <1>1, Invariance, PTL

(* hs_ringbuffer_can_read says yes exactly when a message was taken in and *)
(* has not been read: no reader is refused what is there, or given what is *)
(* not.                                                                    *)
ReaderIsServed == CanRead(hr) <=> unread # <<>>

THEOREM EveryReaderIsServed ==
  ASSUME ShortMessages
  PROVE  Spec => []ReaderIsServed
<1>1. Inv => ReaderIsServed
  BY OldestIsRead DEF Inv, TypeOK, Layout, ReaderIsServed
<1> QED BY <1>1, Invariance, PTL

(* What a reader would find in the block is what was written and not yet   *)
(* read, whole and in its order (hs_ringbuffer.c:73).                      *)
THEOREM UnreadIsFound ==
  ASSUME ShortMessages
  PROVE  Spec => []StoredIsUnread
<1>1. Inv => StoredIsUnread
  BY AllAreRead DEF Inv, TypeOK, Layout, StoredIsUnread
<1> QED BY <1>1, Invariance, PTL

(* The ring implements a queue of messages: what a read returns is the     *)
(* oldest of the messages that were written and not yet read, whole, and   *)
(* only clearing drops any.  (That those are what lies in the block is     *)
(* UnreadIsFound; that a reader is refused only when there are none is     *)
(* EveryReaderIsServed.)                                                   *)
THEOREM RingIsAQueue ==
  ASSUME ShortMessages
  PROVE  Spec => IsAQueue
<1>1. Init => Queue!Init
  BY DEF Init, Queue!Init
<1>2. Inv /\ [Next]_vars => [Queue!Next]_(Queue!vars)
  <2> SUFFICES ASSUME Inv, [Next]_vars
               PROVE  Queue!Next \/ UNCHANGED Queue!vars
    OBVIOUS
  <2>1. ASSUME NEW m \in Messages, Write(m)
        PROVE  Queue!Next \/ UNCHANGED Queue!vars
    BY <2>1 DEF Write, Queue!Put, Queue!Next, Queue!vars
  <2>2. ASSUME NEW m \in Messages, AskWrite(m)
        PROVE  UNCHANGED Queue!vars
    BY <2>2 DEF AskWrite, Queue!vars
  <2>3. CASE Read
    BY <2>3, ReadTakesHead DEF Queue!Get, Queue!Next
  <2>4. CASE ClearData
    BY <2>4 DEF ClearData, Queue!Clear, Queue!Next
  <2>5. CASE UNCHANGED vars
    BY <2>5 DEF vars, Queue!vars
  <2> QED BY <2>1, <2>2, <2>3, <2>4, <2>5 DEF Next
<1> QED BY <1>1, <1>2, Invariance, PTL DEF Spec, IsAQueue, Queue!Spec
=============================================================================
