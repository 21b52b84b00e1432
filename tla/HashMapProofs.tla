--------------------------- MODULE HashMapProofs ---------------------------
(***************************************************************************)
(* A hash map of any size, with buckets of any size, under a program that  *)
(* calls it as it likes: the types hold, and the map implements stacks of  *)
(* values, one for each key (KeyedStacks).                                 *)
(*                                                                         *)
(* First the places of a set of slots, that is their order, in which the   *)
(* stack of a key is read from its bucket; then what a pair that comes to  *)
(* a bucket or leaves it does to the stacks; then the table, and what each *)
(* of its operations does; at last the steps of the program.               *)
(***************************************************************************)
EXTENDS HashMapUse, SequenceTheorems, FiniteSetTheorems, WellFoundedInduction, TLAPS

LEMMA SmallestIs ==
  ASSUME NEW S, S \subseteq Slot, S # {}
  PROVE  Min(S) \in S /\ \A j \in S : Min(S) <= j
<1>1. S \subseteq Nat
  BY HashMapAssumption DEF Slot
<1>2. PICK x \in S : \A y \in S : <<y, x>> \notin OpToRel(<, Nat)
  BY <1>1, NatLessThanWellFounded, WFMin
<1>3. \A y \in S : x <= y
  <2> SUFFICES ASSUME NEW y \in S PROVE x <= y
    OBVIOUS
  <2>1. x \in Nat /\ y \in Nat /\ ~ (y < x)
    BY <1>1, <1>2 DEF OpToRel
  <2> QED BY <2>1
<1> QED BY <1>3 DEF Min

Rank(S, j) == Cardinality({i \in S : i <= j})

LEMMA SlotsAreFinite ==
  ASSUME NEW S, S \subseteq Slot
  PROVE  IsFiniteSet(S) /\ Cardinality(S) \in Nat /\ S \subseteq Nat
<1>1. IsFiniteSet(Slot) /\ Slot \subseteq Nat
  BY HashMapAssumption, FS_Interval DEF Slot
<1>2. IsFiniteSet(S)
  BY <1>1, FS_Subset
<1> QED BY <1>1, <1>2, FS_CardinalityType

(* The ranks of the slots of a set are different, and reach its size.      *)
LEMMA RankGrows ==
  ASSUME NEW S, S \subseteq Slot, NEW i \in S, NEW j \in S, i < j
  PROVE  Rank(S, i) < Rank(S, j)
<1> DEFINE A == {x \in S : x <= i}
           B == {x \in S : x <= j}
<1>1. S \subseteq Nat /\ A \subseteq Slot /\ B \subseteq Slot
  BY SlotsAreFinite
<1>2. IsFiniteSet(A) /\ IsFiniteSet(B) /\ Cardinality(A) \in Nat /\ Cardinality(B) \in Nat
  BY <1>1, SlotsAreFinite
<1>3. A \subseteq B /\ j \in B /\ j \notin A
  <2>1. i \in Nat /\ j \in Nat /\ j <= j /\ ~ (j <= i)
    BY <1>1
  <2>2. \A x \in S : x <= i => x <= j
    BY <1>1, <2>1
  <2> QED BY <2>1, <2>2
<1> HIDE DEF A, B
<1>4. Cardinality(A) <= Cardinality(B) /\ Cardinality(A) # Cardinality(B)
  BY <1>2, <1>3, FS_Subset
<1>5. Cardinality(A) < Cardinality(B)
  BY <1>2, <1>4
<1> QED BY <1>5 DEF Rank, A, B

LEMMA PlaceIs ==
  ASSUME NEW S, S \subseteq Slot
  PROVE  /\ \A n \in 1 .. Cardinality(S) : Place(S, n) \in S /\ Rank(S, Place(S, n)) = n
         /\ \A j \in S : Rank(S, j) \in 1 .. Cardinality(S) /\ Place(S, Rank(S, j)) = j
<1> DEFINE N == 1 .. Cardinality(S)
           f == [j \in S |-> Rank(S, j)]
<1>1. IsFiniteSet(S) /\ Cardinality(S) \in Nat /\ S \subseteq Nat
  BY SlotsAreFinite
<1>2. IsFiniteSet(N) /\ Cardinality(N) = Cardinality(S)
  BY <1>1, FS_Interval
<1>3. ASSUME NEW j \in S
      PROVE  Rank(S, j) \in N
  <2> DEFINE A == {x \in S : x <= j}
  <2>1. A \subseteq S /\ A \subseteq Slot /\ j \in A
    <3>1. j \in Nat /\ j <= j
      BY <1>1
    <3> QED BY <3>1
  <2> HIDE DEF A
  <2>2. IsFiniteSet(A) /\ Cardinality(A) \in Nat
    BY <2>1, SlotsAreFinite
  <2>3. Cardinality(A) <= Cardinality(S) /\ Cardinality(A) # 0
    BY <1>1, <2>1, <2>2, FS_Subset, FS_EmptySet
  <2>4. Cardinality(A) \in N
    BY <1>1, <2>2, <2>3
  <2> QED BY <2>4 DEF Rank, A
<1>4. \A i, j \in S : Rank(S, i) = Rank(S, j) => i = j
  <2> SUFFICES ASSUME NEW i \in S, NEW j \in S, i # j
               PROVE  Rank(S, i) # Rank(S, j)
    OBVIOUS
  <2>1. i < j \/ j < i
    BY <1>1
  <2>2. Rank(S, i) < Rank(S, j) \/ Rank(S, j) < Rank(S, i)
    BY <2>1, RankGrows
  <2>3. Rank(S, i) \in Nat /\ Rank(S, j) \in Nat
    BY <1>1, <1>3
  <2> QED BY <2>2, <2>3
<1>5. f \in Injection(S, N)
  BY <1>3, <1>4 DEF Injection, IsInjective
<1>6. f \in Surjection(S, N)
  BY <1>1, <1>2, <1>5, FS_Injection
<1>7. \A n \in N : \E j \in S : Rank(S, j) = n
  BY <1>6 DEF Surjection
<1> HIDE DEF f, N
<1>8. \A n \in N : Place(S, n) \in S /\ Rank(S, Place(S, n)) = n
  BY <1>7 DEF Place, Rank
<1>9. \A j \in S : Place(S, Rank(S, j)) = j
  BY <1>3, <1>4, <1>8
<1> QED BY <1>3, <1>8, <1>9 DEF N

(* A slot in front of all others is the first place and moves the others   *)
(* by one.                                                                 *)
LEMMA PlacesBehind ==
  ASSUME NEW S, S \subseteq Slot, NEW m \in Slot, \A j \in S : m < j
  PROVE  /\ Cardinality(S \cup {m}) = Cardinality(S) + 1
         /\ Place(S \cup {m}, 1) = m
         /\ \A n \in 1 .. Cardinality(S) : Place(S \cup {m}, n + 1) = Place(S, n)
<1> DEFINE T == S \cup {m}
<1>1. /\ IsFiniteSet(S) /\ Cardinality(S) \in Nat /\ S \subseteq Nat
      /\ T \subseteq Slot /\ m \in Nat /\ m \notin S /\ m \in T
  <2>1. S \subseteq Nat /\ m \in Nat
    BY SlotsAreFinite, HashMapAssumption DEF Slot
  <2>2. m \notin S
    BY <2>1
  <2> QED BY <2>1, <2>2, SlotsAreFinite
<1>2. Cardinality(T) = Cardinality(S) + 1
  BY <1>1, FS_AddElement
<1>3. Rank(T, m) = 1
  <2>1. {i \in T : i <= m} = {m}
    <3>1. m <= m /\ \A i \in S : ~ (i <= m)
      BY <1>1
    <3> QED BY <3>1
  <2> QED BY <2>1, FS_Singleton DEF Rank
<1>4. ASSUME NEW j \in S
      PROVE  Rank(T, j) = Rank(S, j) + 1
  <2> DEFINE A == {i \in S : i <= j}
  <2>1. {i \in T : i <= j} = A \cup {m}
    BY <1>1
  <2>2. A \subseteq Slot /\ m \notin A
    BY <1>1
  <2>3. IsFiniteSet(A) /\ Cardinality(A \cup {m}) = Cardinality(A) + 1
    BY <2>2, SlotsAreFinite, FS_AddElement
  <2> QED BY <2>1, <2>3 DEF Rank
<1>5. \A j \in T : Place(T, Rank(T, j)) = j
  BY <1>1, PlaceIs
<1>6. Place(T, 1) = m
  BY <1>1, <1>3, <1>5
<1>7. ASSUME NEW n \in 1 .. Cardinality(S)
      PROVE  Place(T, n + 1) = Place(S, n)
  <2>1. Place(S, n) \in S /\ Rank(S, Place(S, n)) = n
    BY PlaceIs
  <2>2. Rank(T, Place(S, n)) = n + 1
    BY <1>4, <2>1
  <2> QED BY <1>5, <2>1, <2>2
<1> QED BY <1>2, <1>6, <1>7

-----------------------------------------------------------------------------
(* A pair comes to a bucket, in front of those of its key, or leaves it.   *)

Pair == [key : Key, value : Value]

Pairs == [Slot -> {NULL} \cup Pair]

LEMMA UnderIs ==
  ASSUME NEW kvp \in Pairs, NEW k
  PROVE  /\ PairsOf(kvp, k) \subseteq Slot /\ Cardinality(PairsOf(kvp, k)) \in Nat
         /\ Under(kvp, k) \in Seq(Value)
         /\ Len(Under(kvp, k)) = Cardinality(PairsOf(kvp, k))
         /\ \A n \in 1 .. Cardinality(PairsOf(kvp, k)) :
              Under(kvp, k)[n] = kvp[Place(PairsOf(kvp, k), n)].value
<1> DEFINE S == PairsOf(kvp, k)
           N == Cardinality(S)
           u == Under(kvp, k)
<1>1. S \subseteq Slot
  BY DEF PairsOf
<1>2. N \in Nat
  BY <1>1, SlotsAreFinite
<1>3. \A n \in 1 .. N : Place(S, n) \in S
  BY <1>1, PlaceIs
<1>4. \A j \in S : kvp[j] \in Pair
  BY DEF Pairs, PairsOf
<1>5. u = [n \in 1 .. N |-> kvp[Place(S, n)].value]
  BY DEF Under
<1>6. \A n \in 1 .. N : kvp[Place(S, n)].value \in Value
  BY <1>3, <1>4 DEF Pair
<1> HIDE DEF S, N, u
<1>7. u \in [1 .. N -> Value]
  BY <1>5, <1>6
<1>8. u \in Seq(Value) /\ Len(u) = N
  BY <1>2, <1>7, LenProperties
<1>9. \A n \in 1 .. N : u[n] = kvp[Place(S, n)].value
  BY <1>5
<1> QED BY <1>1, <1>2, <1>8, <1>9 DEF S, N, u

(* The pair e comes to the free slot m, and q is what the bucket becomes.  *)
PutAt(kvp, m, e, q) ==
  /\ kvp \in Pairs /\ m \in Slot /\ kvp[m] = NULL /\ e \in Pair /\ e # NULL
  /\ \A j \in PairsOf(kvp, e.key) : m < j
  /\ q = [kvp EXCEPT ![m] = e]

(* The first pair of the key leaves.                                       *)
TakenAt(kvp, k, m, q) ==
  /\ kvp \in Pairs /\ PairsOf(kvp, k) # {} /\ m = Min(PairsOf(kvp, k))
  /\ q = [kvp EXCEPT ![m] = NULL]

ValuesAt(kvp, S) == [n \in 1 .. Cardinality(S) |-> kvp[Place(S, n)].value]

OnTop(w, v, u) == w = <<v>> \o u

OthersKeep(q, kvp, k) == \A o : o # k => Under(q, o) = Under(kvp, o)

LEMMA Pushed ==
  ASSUME NEW kvp, NEW m, NEW e, NEW q, PutAt(kvp, m, e, q)
  PROVE  /\ q \in Pairs /\ OthersKeep(q, kvp, e.key)
         /\ OnTop(Under(q, e.key), e.value, Under(kvp, e.key))
<1> USE DEF PutAt
<1> DEFINE k == e.key
           S == PairsOf(kvp, k)
           N == Cardinality(S)
           u == Under(kvp, k)
           w == Under(q, k)
           x == <<e.value>> \o u
<1>1. q \in Pairs /\ q[m] = e /\ \A j \in Slot : j # m => q[j] = kvp[j]
  BY DEF Pairs
<1>2. PairsOf(q, k) = S \cup {m}
  BY <1>1 DEF PairsOf
<1>3. /\ S \subseteq Slot /\ N \in Nat /\ u \in Seq(Value) /\ Len(u) = N
      /\ \A n \in 1 .. N : u[n] = kvp[Place(S, n)].value
  BY UnderIs
<1>4. /\ Cardinality(S \cup {m}) = N + 1 /\ Place(S \cup {m}, 1) = m
      /\ \A n \in 1 .. N : Place(S \cup {m}, n + 1) = Place(S, n)
  BY <1>3, PlacesBehind
<1>5. /\ w \in Seq(Value) /\ Len(w) = N + 1
      /\ \A n \in 1 .. N + 1 : w[n] = q[Place(S \cup {m}, n)].value
  <2> DEFINE T == PairsOf(q, k)
  <2>1. /\ w \in Seq(Value) /\ Len(w) = Cardinality(T)
        /\ \A n \in 1 .. Cardinality(T) : w[n] = q[Place(T, n)].value
    BY <1>1, UnderIs
  <2>2. T = S \cup {m} /\ Cardinality(T) = N + 1
    BY <1>2, <1>4
  <2> HIDE DEF T, w, S, N
  <2> QED BY <2>1, <2>2
<1>6. \A n \in 1 .. N : Place(S, n) \in Slot /\ Place(S, n) # m
  BY <1>3, PlaceIs DEF PairsOf
<1>7. e.value \in Value
  BY DEF Pair
<1> HIDE DEF S, N, u, w, k
<1>8. w[1] = e.value
  <2>1. 1 \in 1 .. N + 1
    BY <1>3
  <2>2. w[1] = q[m].value
    BY <1>4, <1>5, <2>1
  <2> QED BY <1>1, <2>2
<1>9. \A n \in 1 .. N : w[n + 1] = u[n]
  <2> SUFFICES ASSUME NEW n \in 1 .. N PROVE w[n + 1] = u[n]
    OBVIOUS
  <2>1. n + 1 \in 1 .. N + 1
    BY <1>3
  <2>2. w[n + 1] = q[Place(S, n)].value
    BY <1>4, <1>5, <2>1
  <2> QED BY <1>1, <1>3, <1>6, <2>2
<1>10. /\ x \in Seq(Value) /\ Len(x) = N + 1 /\ x[1] = e.value
       /\ \A n \in 1 .. N : x[n + 1] = u[n]
  <2>1. <<e.value>> \in Seq(Value) /\ Len(<<e.value>>) = 1 /\ <<e.value>>[1] = e.value
    BY <1>7
  <2>2. /\ x \in Seq(Value) /\ Len(x) = 1 + N
        /\ \A i \in 1 .. 1 + N : x[i] = IF i <= 1 THEN <<e.value>>[i] ELSE u[i - 1]
    BY <1>3, <2>1, ConcatProperties
  <2> HIDE DEF x
  <2>3. 1 \in 1 .. 1 + N /\ 1 + N = N + 1 /\ 1 <= 1
    BY <1>3
  <2>4. x[1] = e.value
    BY <2>1, <2>2, <2>3
  <2>5. ASSUME NEW n \in 1 .. N
        PROVE  x[n + 1] = u[n]
    <3>1. n + 1 \in 1 .. 1 + N /\ ~ (n + 1 <= 1) /\ (n + 1) - 1 = n
      BY <1>3
    <3>2. x[n + 1] = u[(n + 1) - 1]
      BY <2>2, <3>1
    <3> QED BY <3>1, <3>2
  <2> QED BY <2>2, <2>3, <2>4, <2>5
<1> HIDE DEF x
<1>11. w = x
  <2>1. \A i \in 1 .. N + 1 : w[i] = x[i]
    <3> SUFFICES ASSUME NEW i \in 1 .. N + 1 PROVE w[i] = x[i]
      OBVIOUS
    <3>1. CASE i = 1
      BY <1>8, <1>10, <3>1
    <3>2. CASE i # 1
      <4>1. i - 1 \in 1 .. N /\ (i - 1) + 1 = i
        BY <1>3, <3>2
      <4>2. w[(i - 1) + 1] = x[(i - 1) + 1]
        BY <1>9, <1>10, <4>1
      <4> QED BY <4>1, <4>2
    <3> QED BY <3>1, <3>2
  <2> QED BY <1>5, <1>10, <2>1, SeqEqual
<1>12. ASSUME NEW o, o # k
       PROVE  Under(q, o) = Under(kvp, o)
  <2>1. PairsOf(q, o) = PairsOf(kvp, o)
    BY <1>1, <1>12 DEF PairsOf, k
  <2>2. \A n \in 1 .. Cardinality(PairsOf(kvp, o)) :
          Place(PairsOf(kvp, o), n) \in Slot /\ Place(PairsOf(kvp, o), n) # m
    <3>1. PairsOf(kvp, o) \subseteq Slot /\ m \notin PairsOf(kvp, o)
      BY DEF PairsOf
    <3> QED BY <3>1, PlaceIs
  <2>3. Under(q, o) = ValuesAt(q, PairsOf(q, o)) /\ Under(kvp, o) = ValuesAt(kvp, PairsOf(kvp, o))
    BY DEF Under, ValuesAt
  <2>4. ValuesAt(q, PairsOf(kvp, o)) = ValuesAt(kvp, PairsOf(kvp, o))
    BY <1>1, <2>2 DEF ValuesAt
  <2> QED BY <2>1, <2>3, <2>4
<1> QED BY <1>1, <1>11, <1>12 DEF w, x, u, k, OthersKeep, OnTop

LEMMA Popped ==
  ASSUME NEW kvp, NEW k, NEW m, NEW q, TakenAt(kvp, k, m, q)
  PROVE  /\ q \in Pairs /\ OthersKeep(q, kvp, k)
         /\ OnTop(Under(kvp, k), kvp[m].value, Under(q, k))
         /\ m \in PairsOf(kvp, k)
<1> USE DEF TakenAt
<1> DEFINE e == kvp[m]
<1>1. m \in PairsOf(kvp, k) /\ \A j \in PairsOf(kvp, k) : m <= j
  <2>1. PairsOf(kvp, k) \subseteq Slot
    BY DEF PairsOf
  <2> QED BY <2>1, SmallestIs
<1>2. m \in Slot /\ e \in Pair /\ e # NULL /\ e.key = k
  BY <1>1 DEF PairsOf, Pairs
<1>3. q \in Pairs /\ q[m] = NULL /\ kvp = [q EXCEPT ![m] = e]
  BY <1>2 DEF Pairs
<1>4. \A j \in PairsOf(q, k) : m < j
  <2> SUFFICES ASSUME NEW j \in PairsOf(q, k) PROVE m < j
    OBVIOUS
  <2>1. j # m /\ j \in PairsOf(kvp, k)
    BY <1>2 DEF PairsOf, Pairs
  <2>2. j \in Nat /\ m \in Nat
    BY <1>2, <2>1, SlotsAreFinite DEF PairsOf
  <2> QED BY <1>1, <2>1, <2>2
<1>5. PutAt(q, m, e, kvp)
  BY <1>2, <1>3, <1>4 DEF PutAt
<1> HIDE DEF e
<1>6. OnTop(Under(kvp, k), e.value, Under(q, k)) /\ OthersKeep(kvp, q, k)
  BY <1>2, <1>5, Pushed
<1> QED BY <1>1, <1>3, <1>6 DEF e, OthersKeep

-----------------------------------------------------------------------------
(* The table: each pair lies in the bucket of its key.                     *)

Buckets == hs_hashmap_create(MapSize).size

Keyed(p, h) ==
  p \in Pairs /\ \A j \in Slot : p[j] # NULL => p[j].key % Buckets = h

MapOK(hm) ==
  /\ hm \in HashMaps(Buckets, Key, Value)
  /\ \A h \in 0 .. Buckets - 1 : hm.data_ptr[h] # NULL => Keyed(hm.data_ptr[h], h)

LEMMA Constants ==
  /\ Buckets \in Nat /\ Buckets # 0 /\ Buckets >= MapSize
  /\ \A k \in Key : k \in Nat /\ k % Buckets \in 0 .. Buckets - 1
  /\ NULL \notin Slot /\ NULL \notin Value /\ NULL \notin Pair /\ NULL \notin Pairs
  /\ s_bucket_size \in Nat /\ IsFiniteSet(Slot) /\ Cardinality(Slot) = s_bucket_size
<1> DEFINE m == s_min_hash_size
           n == (MapSize - 1) \div m + 1
<1>1. /\ m \in Nat \ {0} /\ MapSize \in Nat \ {0} /\ Key \subseteq Nat
      /\ s_bucket_size \in Nat /\ s_bucket_size >= 2 /\ NULL \notin Int
  BY HashMapAssumption, HashMapUseAssumption
<1>2. n \in Nat \ {0}
  BY <1>1
<1>3. Buckets = m * n
  BY DEF Buckets, hs_hashmap_create
<1>4. m * n >= MapSize
  <2>1. MapSize - 1 = m * ((MapSize - 1) \div m) + ((MapSize - 1) % m)
    BY <1>1
  <2>2. (MapSize - 1) % m \in 0 .. m - 1
    BY <1>1
  <2> DEFINE d == (MapSize - 1) \div m
             r == (MapSize - 1) % m
  <2>3. d \in Nat /\ MapSize - 1 = m * d + r /\ r \in 0 .. m - 1
    BY <1>1, <2>1, <2>2
  <2> HIDE DEF d, r
  <2>4. m * (d + 1) = m * d + m
    BY <1>1, <2>3
  <2>5. m * d \in Nat
    BY <1>1, <2>3
  <2>6. m * (d + 1) >= MapSize
    BY <1>1, <2>3, <2>4, <2>5
  <2> QED BY <2>6 DEF d
<1>5. m * n \in Nat \ {0}
  BY <1>1, <1>2
<1> HIDE DEF m, n
<1>6. Buckets \in Nat /\ Buckets # 0 /\ Buckets >= MapSize
  BY <1>3, <1>4, <1>5
<1>7. \A k \in Key : k \in Nat /\ k % Buckets \in 0 .. Buckets - 1
  BY <1>1, <1>6
<1>8. IsFiniteSet(Slot) /\ Cardinality(Slot) = s_bucket_size
  BY <1>1, FS_Interval DEF Slot
<1>9. NULL \notin Value /\ NULL \notin Pair /\ NULL \notin Pairs
  BY HashMapUseAssumption DEF Pair, Pairs
<1> QED BY <1>1, <1>6, <1>7, <1>8, <1>9 DEF Slot

LEMMA BucketKeyed ==
  ASSUME NEW hm, MapOK(hm), NEW k \in Key
  PROVE  /\ Keyed(Bucket(hm, k), k % Buckets) /\ Bucket(hm, k) \in Pairs
         /\ hm.size = Buckets /\ k % Buckets \in 0 .. Buckets - 1
<1>1. hm.size = Buckets /\ k % Buckets \in 0 .. Buckets - 1
  BY Constants DEF MapOK, HashMaps
<1>2. Keyed(NoPair, k % Buckets)
  BY DEF Keyed, NoPair, Pairs
<1>3. Keyed(Bucket(hm, k), k % Buckets)
  BY <1>1, <1>2 DEF MapOK, Bucket
<1> QED BY <1>1, <1>3 DEF Keyed

Replaces(hm, k, q, new) == new = [hm EXCEPT !.data_ptr[k % hm.size] = q]

LEMMA BucketReplaced ==
  ASSUME NEW hm, MapOK(hm), NEW k \in Key, NEW q, Keyed(q, k % Buckets),
         NEW new, Replaces(hm, k, q, new)
  PROVE  /\ MapOK(new) /\ new.dangling = hm.dangling
         /\ \A o \in Key : Bucket(new, o) = IF o % Buckets = k % Buckets THEN q
                                            ELSE Bucket(hm, o)
<1> DEFINE h == k % Buckets
           ptr == [hm.data_ptr EXCEPT ![h] = q]
           Cells == [0 .. Buckets - 1 -> {NULL} \cup Pairs]
<1>1. hm.size = Buckets /\ h \in 0 .. Buckets - 1 /\ q \in Pairs /\ q # NULL
  BY BucketKeyed, Constants DEF Keyed
<1>2. HashMaps(Buckets, Key, Value) = [data_ptr : Cells, size : {Buckets}, dangling : BOOLEAN]
  BY DEF HashMaps, Pairs, Pair
<1>3. /\ hm \in [data_ptr : Cells, size : {Buckets}, dangling : BOOLEAN]
      /\ \A i \in 0 .. Buckets - 1 : hm.data_ptr[i] # NULL => Keyed(hm.data_ptr[i], i)
  BY <1>2 DEF MapOK
<1>4. new = [hm EXCEPT !.data_ptr = ptr]
  BY <1>1, <1>3 DEF Replaces
<1>5. hm.data_ptr \in Cells
  BY <1>3
<1>6. ptr \in Cells /\ ptr[h] = q /\ \A i \in 0 .. Buckets - 1 : i # h => ptr[i] = hm.data_ptr[i]
  BY <1>1, <1>5
<1> HIDE DEF ptr, Cells
<1>7. /\ new \in [data_ptr : Cells, size : {Buckets}, dangling : BOOLEAN]
      /\ new.data_ptr = ptr /\ new.dangling = hm.dangling /\ new.size = Buckets
  BY <1>3, <1>4, <1>6
<1>8. MapOK(new)
  <2>1. \A i \in 0 .. Buckets - 1 : ptr[i] # NULL => Keyed(ptr[i], i)
    BY <1>3, <1>6
  <2> QED BY <1>2, <1>7, <2>1 DEF MapOK
<1>9. ASSUME NEW o \in Key
      PROVE  Bucket(new, o) = IF o % Buckets = h THEN q ELSE Bucket(hm, o)
  <2> DEFINE i == o % Buckets
  <2>1. i \in 0 .. Buckets - 1
    BY Constants
  <2>2. /\ Bucket(new, o) = IF ptr[i] = NULL THEN NoPair ELSE ptr[i]
        /\ Bucket(hm, o) = IF hm.data_ptr[i] = NULL THEN NoPair ELSE hm.data_ptr[i]
    <3>1. /\ Bucket(new, o) = IF new.data_ptr[o % new.size] = NULL THEN NoPair
                                ELSE new.data_ptr[o % new.size]
          /\ Bucket(hm, o) = IF hm.data_ptr[o % hm.size] = NULL THEN NoPair
                              ELSE hm.data_ptr[o % hm.size]
      BY DEF Bucket
    <3> QED BY <1>1, <1>7, <3>1
  <2> HIDE DEF i, h
  <2>3. Bucket(new, o) = IF i = h THEN q ELSE Bucket(hm, o)
    BY <1>1, <1>6, <2>1, <2>2
  <2> QED BY <2>3 DEF i, h
<1> QED BY <1>7, <1>8, <1>9

-----------------------------------------------------------------------------
(* What each operation does to the stacks.                                 *)

StacksOf(hm) ==
  [k \in Key |-> IF hm.dangling THEN <<>> ELSE Under(Bucket(hm, k), k)]

(* Everything the operations of one key change is in one bucket.           *)
LEMMA OneStackChanges ==
  ASSUME NEW hm, MapOK(hm), ~ hm.dangling, NEW k \in Key, NEW q, Keyed(q, k % Buckets),
         OthersKeep(q, Bucket(hm, k), k),
         NEW new, Replaces(hm, k, q, new)
  PROVE  /\ MapOK(new) /\ new.dangling = FALSE
         /\ StacksOf(new) = [StacksOf(hm) EXCEPT ![k] = Under(q, k)]
<1>1. /\ MapOK(new) /\ new.dangling = hm.dangling
      /\ \A o \in Key : Bucket(new, o) = IF o % Buckets = k % Buckets THEN q
                                         ELSE Bucket(hm, o)
  BY BucketReplaced
<1>2. hm.dangling = FALSE
  BY DEF MapOK, HashMaps
<1>3. \A o \in Key : o % Buckets = k % Buckets => Bucket(hm, o) = Bucket(hm, k)
  BY BucketKeyed DEF Bucket
<1>4. ASSUME NEW o \in Key
      PROVE  Under(Bucket(new, o), o) = IF o = k THEN Under(q, k) ELSE Under(Bucket(hm, o), o)
  BY <1>1, <1>3 DEF OthersKeep
<1>5. StacksOf(new) = [o \in Key |-> Under(Bucket(new, o), o)]
  BY <1>1, <1>2 DEF StacksOf
<1>6. StacksOf(hm) = [o \in Key |-> Under(Bucket(hm, o), o)]
  BY <1>2 DEF StacksOf
<1>7. StacksOf(new) = [StacksOf(hm) EXCEPT ![k] = Under(q, k)]
  BY <1>4, <1>5, <1>6
<1> QED BY <1>1, <1>2, <1>7

LEMMA FoundAt ==
  ASSUME NEW hm, MapOK(hm), ~ hm.dangling, NEW k \in Key,
         NEW p, p = Bucket(hm, k), NEW S, S = PairsOf(p, k)
  PROVE  /\ S = {} => PairAt(hm, k) = NULL
         /\ S # {} => PairAt(hm, k) = Min(S) /\ PairAt(hm, k) # NULL /\ Min(S) \in S
         /\ StacksOf(hm)[k] = Under(p, k)
         /\ (Under(p, k) = <<>>) <=> (S = {})
<1> DEFINE u == Under(p, k)
<1>1. S \subseteq Slot /\ Cardinality(S) \in Nat /\ u \in Seq(Value) /\ Len(u) = Cardinality(S)
  BY BucketKeyed, UnderIs
<1>2. u = <<>> <=> S = {}
  <2>1. Cardinality(S) = 0 <=> S = {}
    BY <1>1, SlotsAreFinite, FS_EmptySet
  <2> HIDE DEF u
  <2> QED BY <1>1, <2>1, EmptySeq
<1>3. S # {} => Min(S) \in S /\ Min(S) # NULL
  BY <1>1, SmallestIs, Constants
<1>4. PairAt(hm, k) = IF S = {} THEN NULL ELSE Min(S)
  BY DEF PairAt, PairsOf
<1>5. StacksOf(hm)[k] = u
  BY DEF StacksOf
<1> QED BY <1>2, <1>3, <1>4, <1>5

LEMMA InsertPushes ==
  ASSUME NEW hm, MapOK(hm), ~ hm.dangling, NEW k \in Key, NEW v \in Value,
         Stops(Bucket(hm, k), k) # {}, Inserts(hm, k),
         NEW new, new = hs_hashmap_insert(hm, k, v)
  PROVE  /\ MapOK(new) /\ new.dangling = FALSE
         /\ StacksOf(new) = [StacksOf(hm) EXCEPT ![k] = <<v>> \o @]
<1> DEFINE p == Bucket(hm, k)
           stops == Stops(p, k)
           m == Min(stops)
           e == [key |-> k, value |-> v]
           q == [p EXCEPT ![m] = e]
<1>1. Keyed(p, k % Buckets) /\ p \in Pairs
  BY BucketKeyed
<1>2. stops \subseteq Slot /\ m \in stops /\ \A j \in stops : m <= j
  <2>1. stops \subseteq Slot
    BY DEF Stops
  <2> QED BY <2>1, SmallestIs
<1>3. p[m] = NULL
  BY DEF Inserts
<1>4. e \in Pair /\ e # NULL /\ e.key = k /\ e.value = v
  BY Constants DEF Pair
<1>5. Replaces(hm, k, q, new)
  BY DEF hs_hashmap_insert, Replaces
<1>6. \A j \in PairsOf(p, k) : m < j
  <2> SUFFICES ASSUME NEW j \in PairsOf(p, k) PROVE m < j
    OBVIOUS
  <2>1. j \in stops /\ j \in Slot /\ p[j] # NULL
    BY DEF PairsOf, Stops
  <2>2. j # m /\ m <= j /\ j \in Nat /\ m \in Nat
    BY <1>2, <1>3, <2>1, SlotsAreFinite
  <2> QED BY <2>2
<1>7. m \in Slot
  BY <1>2
<1> HIDE DEF m, stops, e
<1>8. q \in Pairs /\ OnTop(Under(q, k), v, Under(p, k)) /\ OthersKeep(q, p, k)
  <2>1. PutAt(p, m, e, q)
    BY <1>1, <1>3, <1>4, <1>6, <1>7 DEF PutAt
  <2> HIDE DEF q, p
  <2> QED BY <1>4, <2>1, Pushed
<1>9. Keyed(q, k % Buckets)
  <2>1. \A j \in Slot : q[j] = IF j = m THEN e ELSE p[j]
    BY <1>1, <1>7 DEF Pairs
  <2> QED BY <1>1, <1>4, <1>8, <2>1 DEF Keyed
<1> HIDE DEF q
<1>10. /\ MapOK(new) /\ new.dangling = FALSE
       /\ StacksOf(new) = [StacksOf(hm) EXCEPT ![k] = Under(q, k)]
  <2>1. OthersKeep(q, Bucket(hm, k), k)
    BY <1>8
  <2> QED BY <1>5, <1>9, <2>1, OneStackChanges
<1>11. StacksOf(hm)[k] = Under(p, k)
  BY DEF StacksOf
<1>12. Under(q, k) = <<v>> \o Under(p, k)
  BY <1>8 DEF OnTop
<1> QED BY <1>10, <1>11, <1>12

LEMMA InsertRefuses ==
  ASSUME NEW hm, MapOK(hm), ~ hm.dangling, NEW k \in Key, NEW v,
         Stops(Bucket(hm, k), k) # {}, ~ Inserts(hm, k)
  PROVE  hs_hashmap_insert(hm, k, v) = hm /\ StacksOf(hm)[k] # <<>>
<1> DEFINE p == Bucket(hm, k)
           m == Min(Stops(p, k))
<1>1. hs_hashmap_insert(hm, k, v) = hm
  BY DEF hs_hashmap_insert
<1>2. m \in Stops(p, k)
  <2>1. Stops(p, k) \subseteq Slot
    BY DEF Stops
  <2> QED BY <2>1, SmallestIs
<1>3. p[m] # NULL
  BY DEF Inserts
<1>4. m \in PairsOf(p, k)
  BY <1>2, <1>3 DEF Stops, PairsOf
<1> QED BY <1>1, <1>4, FoundAt

LEMMA DeletePops ==
  ASSUME NEW hm, MapOK(hm), ~ hm.dangling, NEW k \in Key,
         NEW new, new = hs_hashmap_delete(hm, k)
  PROVE  /\ MapOK(new) /\ new.dangling = FALSE
         /\ (PairAt(hm, k) # NULL) = (StacksOf(hm)[k] # <<>>)
         /\ StacksOf(new) =
              [StacksOf(hm) EXCEPT ![k] = IF @ = <<>> THEN <<>> ELSE Tail(@)]
<1> DEFINE p == Bucket(hm, k)
           S == PairsOf(p, k)
           m == Min(S)
           q == [p EXCEPT ![m] = NULL]
           st == StacksOf(hm)
<1>1. /\ S = {} => PairAt(hm, k) = NULL
      /\ S # {} => PairAt(hm, k) = m /\ PairAt(hm, k) # NULL /\ m \in S
      /\ st[k] = Under(p, k) /\ ((Under(p, k) = <<>>) <=> (S = {}))
  BY FoundAt
<1>2. hm.dangling = FALSE /\ Keyed(p, k % Buckets) /\ p \in Pairs
  BY BucketKeyed DEF MapOK, HashMaps
<1>3. st = [o \in Key |-> st[o]]
  BY DEF StacksOf
<1>4. CASE S = {}
  <2>1. new = hm
    BY <1>1, <1>4 DEF hs_hashmap_delete
  <2>2. st[k] = <<>>
    BY <1>1, <1>4
  <2> HIDE DEF st
  <2>3. st = [st EXCEPT ![k] = IF @ = <<>> THEN <<>> ELSE Tail(@)]
    BY <1>3, <2>2
  <2>4. (PairAt(hm, k) # NULL) = (st[k] # <<>>)
    BY <1>1, <1>4, <2>2
  <2> QED BY <1>2, <2>1, <2>3, <2>4 DEF st
<1>5. CASE S # {}
  <2>1. q \in Pairs /\ OnTop(Under(p, k), p[m].value, Under(q, k)) /\ OthersKeep(q, p, k)
    <3>1. TakenAt(p, k, m, q)
      BY <1>2, <1>5 DEF TakenAt
    <3> HIDE DEF m, q, p
    <3> QED BY <3>1, Popped
  <2>2. m \in Slot /\ p[m] # NULL /\ p[m] \in Pair
    BY <1>1, <1>2, <1>5 DEF PairsOf, Pairs
  <2>3. Keyed(q, k % Buckets)
    <3>1. \A j \in Slot : q[j] = IF j = m THEN NULL ELSE p[j]
      BY <1>2, <2>2 DEF Pairs
    <3> QED BY <1>2, <2>1, <3>1 DEF Keyed
  <2>4. Replaces(hm, k, q, new)
    <3>1. new = [hm EXCEPT !.data_ptr[k % hm.size][m] = NULL]
      BY <1>1, <1>5 DEF hs_hashmap_delete
    <3>2. hm.size = Buckets /\ k % Buckets \in 0 .. Buckets - 1
      BY BucketKeyed
    <3>3. hm.data_ptr[k % hm.size] = p
      <4>1. hm.data_ptr[k % hm.size] = NULL => p[m] = NULL
        BY <2>2 DEF Bucket, NoPair
      <4> QED BY <2>2, <4>1 DEF Bucket
    <3> QED BY <3>1, <3>2, <3>3 DEF Replaces
  <2> DEFINE u == Under(q, k)
  <2>5. u \in Seq(Value) /\ p[m].value \in Value
    BY <2>1, <2>2, UnderIs DEF Pair
  <2>6. /\ MapOK(new) /\ new.dangling = FALSE
        /\ StacksOf(new) = [st EXCEPT ![k] = u]
    <3> HIDE DEF q, m, S, p
    <3>1. OthersKeep(q, Bucket(hm, k), k)
      BY <2>1 DEF p
    <3> QED BY <2>3, <2>4, <3>1, OneStackChanges
  <2>7. st[k] # <<>> /\ Tail(st[k]) = u
    <3>1. st[k] = <<p[m].value>> \o u
      BY <1>1, <2>1 DEF OnTop
    <3>2. st[k] # <<>>
      BY <1>1, <1>5
    <3> HIDE DEF u, st, p, m
    <3>3. Tail(<<p[m].value>> \o u) = u
      BY <2>5
    <3> QED BY <3>1, <3>2, <3>3
  <2> HIDE DEF st, u
  <2>8. StacksOf(new) = [st EXCEPT ![k] = IF @ = <<>> THEN <<>> ELSE Tail(@)]
    BY <1>3, <2>6, <2>7
  <2>9. (PairAt(hm, k) # NULL) = (st[k] # <<>>)
    BY <1>1, <1>5, <2>7
  <2> QED BY <2>6, <2>8, <2>9 DEF st
<1> QED BY <1>4, <1>5

LEMMA FindsTop ==
  ASSUME NEW hm, MapOK(hm), ~ hm.dangling, NEW k \in Key
  PROVE  hs_hashmap_find(hm, k) =
           IF StacksOf(hm)[k] = <<>> THEN NULL ELSE Head(StacksOf(hm)[k])
<1> DEFINE p == Bucket(hm, k)
           S == PairsOf(p, k)
           m == Min(S)
<1>1. /\ S = {} => PairAt(hm, k) = NULL
      /\ S # {} => PairAt(hm, k) = m /\ PairAt(hm, k) # NULL /\ m \in S
      /\ StacksOf(hm)[k] = Under(p, k) /\ ((Under(p, k) = <<>>) <=> (S = {}))
  BY FoundAt
<1>2. p \in Pairs
  BY BucketKeyed
<1>3. CASE S = {}
  BY <1>1, <1>3 DEF hs_hashmap_find
<1>4. CASE S # {}
  <2> DEFINE q == [p EXCEPT ![m] = NULL]
  <2>1. q \in Pairs /\ OnTop(Under(p, k), p[m].value, Under(q, k))
    <3>1. TakenAt(p, k, m, q)
      BY <1>2, <1>4 DEF TakenAt
    <3> HIDE DEF m, q, p
    <3> QED BY <3>1, Popped
  <2>2. p[m] \in Pair
    BY <1>1, <1>2, <1>4 DEF PairsOf, Pairs
  <2>3. Under(q, k) \in Seq(Value) /\ p[m].value \in Value
    BY <2>1, <2>2, UnderIs DEF Pair
  <2> HIDE DEF q
  <2>4. Head(Under(p, k)) = p[m].value
    BY <2>1, <2>3 DEF OnTop
  <2>5. hs_hashmap_find(hm, k) = p[m].value
    BY <1>1, <1>4 DEF hs_hashmap_find
  <2> QED BY <1>1, <1>4, <2>4, <2>5
<1> QED BY <1>3, <1>4

(* The places in the stacks of the keys of a bucket that are taken.        *)
Held(st, g) == UNION {{o} \X (1 .. Len(st[o])) : o \in {o \in Key : o % Buckets = g}}

LEMMA SameBucket ==
  ASSUME NEW hm, MapOK(hm), ~ hm.dangling, NEW k \in Key, NEW o \in Key,
         o % Buckets = k % Buckets
  PROVE  /\ StacksOf(hm)[o] = Under(Bucket(hm, k), o)
         /\ Len(StacksOf(hm)[o]) = Cardinality(PairsOf(Bucket(hm, k), o))
<1>1. Bucket(hm, o) = Bucket(hm, k)
  BY BucketKeyed DEF Bucket
<1>2. StacksOf(hm)[o] = Under(Bucket(hm, k), o)
  BY <1>1 DEF StacksOf
<1>3. Bucket(hm, k) \in Pairs
  BY BucketKeyed
<1> QED BY <1>2, <1>3, UnderIs

NoStacks == [k \in Key |-> <<>>]

(* A full bucket without the key: each slot is a place in a stack.         *)
LEMMA FullBucket ==
  ASSUME NEW hm, MapOK(hm), ~ hm.dangling, NEW k \in Key, NEW g, g = k % Buckets,
         Stops(Bucket(hm, k), k) = {}
  PROVE  Cardinality(Held(StacksOf(hm), g)) = s_bucket_size
<1> DEFINE p == Bucket(hm, k)
           st == StacksOf(hm)
           T == Held(st, g)
           Of(j) == PairsOf(p, p[j].key)
           f == [j \in Slot |-> <<p[j].key, Rank(Of(j), j)>>]
<1>1. Keyed(p, g) /\ p \in Pairs
  BY BucketKeyed
<1>2. \A j \in Slot : p[j] # NULL
  BY DEF Stops
<1>3. \A j \in Slot : p[j].key \in Key /\ p[j].key % Buckets = g /\ j \in Of(j)
  BY <1>1, <1>2 DEF Keyed, Pairs, Pair, PairsOf
<1>4. \A o \in Key : o % Buckets = g => Len(st[o]) = Cardinality(PairsOf(p, o))
  BY SameBucket
<1>5. \A o : PairsOf(p, o) \subseteq Slot
  BY DEF PairsOf
<1>6. \A x : x \in T <=> \E o \in Key : o % Buckets = g /\ x \in {o} \X (1 .. Len(st[o]))
  BY DEF Held
<1> HIDE DEF p, st, T
<1>7. ASSUME NEW j \in Slot
      PROVE  f[j] \in T
  <2> DEFINE o == p[j].key
             n == Rank(PairsOf(p, o), j)
  <2>1. o \in Key /\ o % Buckets = g /\ j \in PairsOf(p, o)
    BY <1>3
  <2>2. n \in 1 .. Cardinality(PairsOf(p, o))
    BY <1>5, <2>1, PlaceIs
  <2>3. Len(st[o]) = Cardinality(PairsOf(p, o))
    BY <1>4, <2>1
  <2>4. f[j] = <<o, n>>
    OBVIOUS
  <2> HIDE DEF f, o, n
  <2>5. <<o, n>> \in {o} \X (1 .. Len(st[o]))
    BY <2>2, <2>3
  <2> QED BY <1>6, <2>1, <2>4, <2>5
<1>8. ASSUME NEW i \in Slot, NEW j \in Slot, f[i] = f[j]
      PROVE  i = j
  <2>1. p[i].key = p[j].key /\ Rank(Of(i), i) = Rank(Of(j), j)
    BY <1>8
  <2>2. i \in Of(j) /\ j \in Of(j) /\ Rank(Of(j), i) = Rank(Of(j), j)
    BY <1>3, <2>1
  <2>3. Place(Of(j), Rank(Of(j), i)) = i /\ Place(Of(j), Rank(Of(j), j)) = j
    BY <1>5, <2>2, PlaceIs
  <2> QED BY <2>2, <2>3
<1>9. ASSUME NEW x \in T
      PROVE  \E j \in Slot : f[j] = x
  <2>1. PICK o \in Key : o % Buckets = g /\ x \in {o} \X (1 .. Len(st[o]))
    BY <1>6
  <2>2. PICK n \in 1 .. Len(st[o]) : x = <<o, n>>
    BY <2>1
  <2> DEFINE S == PairsOf(p, o)
             j == Place(S, n)
  <2>3. n \in 1 .. Cardinality(S)
    BY <1>4, <2>1
  <2>4. j \in S /\ Rank(S, j) = n
    BY <1>5, <2>3, PlaceIs
  <2>5. j \in Slot /\ p[j].key = o
    BY <2>4 DEF PairsOf
  <2>6. Of(j) = S
    BY <2>5
  <2>7. f[j] = <<o, n>>
    BY <2>4, <2>5, <2>6
  <2> QED BY <2>2, <2>5, <2>7
<1> HIDE DEF f
<1>10. f = [j \in Slot |-> f[j]]
  BY DEF f
<1>11. f \in Bijection(Slot, T)
  <2>1. f \in [Slot -> T]
    BY <1>7, <1>10
  <2>2. f \in Injection(Slot, T)
    BY <1>8, <2>1 DEF Injection, IsInjective
  <2>3. f \in Surjection(Slot, T)
    BY <1>9, <2>1 DEF Surjection
  <2> QED BY <2>2, <2>3 DEF Bijection
<1>12. Cardinality(T) = Cardinality(Slot)
  BY <1>11, Constants, FS_Bijection DEF ExistsBijection
<1> QED BY <1>12, Constants DEF T, st

LEMMA InsertLoses ==
  ASSUME NEW hm, MapOK(hm), ~ hm.dangling, NEW k \in Key, NEW v,
         Stops(Bucket(hm, k), k) = {},
         NEW new, new = hs_hashmap_insert(hm, k, v)
  PROVE  /\ MapOK(new) /\ new.dangling = TRUE
         /\ StacksOf(new) = NoStacks
         /\ StacksOf(hm)[k] = <<>>
         /\ Cardinality(Held(StacksOf(hm), k % Buckets)) >= s_bucket_size
<1>1. new = [hm EXCEPT !.dangling = TRUE]
  BY DEF hs_hashmap_insert
<1>2. MapOK(new) /\ new.dangling = TRUE
  <2>1. /\ new \in HashMaps(Buckets, Key, Value) /\ new.data_ptr = hm.data_ptr
        /\ new.dangling = TRUE
    BY <1>1 DEF MapOK, HashMaps
  <2> QED BY <2>1 DEF MapOK
<1>3. StacksOf(new) = NoStacks
  BY <1>2 DEF StacksOf, NoStacks
<1>4. PairsOf(Bucket(hm, k), k) = {}
  BY DEF Stops, PairsOf
<1>5. StacksOf(hm)[k] = <<>>
  BY <1>4, FoundAt
<1>6. s_bucket_size \in Nat /\ s_bucket_size >= s_bucket_size
  BY Constants
<1> QED BY <1>2, <1>3, <1>5, <1>6, FullBucket

-----------------------------------------------------------------------------
(* The program that uses the map.                                          *)

Inv == MapOK(map) /\ reply \in BOOLEAN \cup Value \cup {NULL}

LEMMA InitInv ==
  ASSUME Init
  PROVE  Inv /\ map.dangling = FALSE /\ StacksOf(map) = [k \in Key |-> <<>>]
<1>1. map = [data_ptr |-> [h \in 0 .. Buckets - 1 |-> NULL], size |-> Buckets,
             dangling |-> FALSE]
  BY DEF Init, Buckets, hs_hashmap_create
<1>2. MapOK(map) /\ map.dangling = FALSE
  BY <1>1 DEF MapOK, HashMaps
<1>3. \A k \in Key : Bucket(map, k) = NoPair
  BY <1>1, Constants DEF Bucket
<1>4. ASSUME NEW k \in Key
      PROVE  StacksOf(map)[k] = <<>>
  <2>1. PairsOf(NoPair, k) = {}
    BY DEF PairsOf, NoPair
  <2> QED BY <1>2, <1>3, <2>1, FoundAt
<1>5. StacksOf(map) = [k \in Key |-> <<>>]
  BY <1>4 DEF StacksOf
<1> QED BY <1>2, <1>5 DEF Inv, Init

LEMMA InsertStep ==
  ASSUME Inv, NEW k \in Key, NEW v \in Value, Insert(k, v)
  PROVE  Inv' /\ (Stacks!Push(k, v) \/ Stacks!Refuse(k) \/ Stacks!Lose(k))
<1> DEFINE st == StacksOf(map)
           new == StacksOf(map')
<1>1. MapOK(map) /\ ~ map.dangling /\ map.dangling = FALSE
  BY DEF Inv, Insert, MapOK, HashMaps
<1>2. map' = hs_hashmap_insert(map, k, v) /\ reply' = Inserts(map, k)
  BY DEF Insert
<1>3. reply' \in BOOLEAN
  BY <1>2 DEF Inserts
<1>4. CASE Stops(Bucket(map, k), k) = {}
  <2>1. reply' = TRUE
    BY <1>2, <1>4 DEF Inserts
  <2>2. /\ MapOK(map') /\ map'.dangling = TRUE /\ new = NoStacks
        /\ st[k] = <<>> /\ Cardinality(Held(st, k % Buckets)) >= s_bucket_size
    BY <1>1, <1>2, <1>4, InsertLoses
  <2>3. Stacks!HeldBy(Stacks!Group(k)) = Held(st, k % Buckets)
    BY DEF Stacks!HeldBy, Stacks!Group, Held, Buckets, StacksOf
  <2>4. Stacks!Cardinality(Stacks!HeldBy(Stacks!Group(k))) >= s_bucket_size
    <3>1. \A S : Stacks!Cardinality(S) = Cardinality(S)
      BY DEF Stacks!Cardinality, Cardinality
    <3> QED BY <2>2, <2>3, <3>1
  <2>5. Stacks!Lose(k)
    BY <1>1, <2>1, <2>2, <2>4 DEF Stacks!Lose, StacksOf, NoStacks
  <2> QED BY <1>3, <2>2, <2>5 DEF Inv
<1>5. CASE Stops(Bucket(map, k), k) # {} /\ Inserts(map, k)
  <2>1. reply' = TRUE
    BY <1>2, <1>5
  <2>2. /\ MapOK(map') /\ map'.dangling = FALSE /\ new = [st EXCEPT ![k] = <<v>> \o @]
    BY <1>1, <1>2, <1>5, InsertPushes
  <2>3. Stacks!Push(k, v)
    BY <1>1, <2>1, <2>2 DEF Stacks!Push, StacksOf
  <2> QED BY <1>3, <2>2, <2>3 DEF Inv
<1>6. CASE Stops(Bucket(map, k), k) # {} /\ ~ Inserts(map, k)
  <2>1. reply' = FALSE
    BY <1>2, <1>6
  <2>2. map' = map /\ st[k] # <<>>
    BY <1>1, <1>2, <1>6, InsertRefuses
  <2>3. Stacks!Refuse(k)
    BY <1>1, <2>1, <2>2 DEF Stacks!Refuse, StacksOf
  <2> QED BY <1>1, <1>3, <2>2, <2>3 DEF Inv
<1> QED BY <1>4, <1>5, <1>6

LEMMA FindStep ==
  ASSUME Inv, NEW k \in Key, Find(k)
  PROVE  Inv' /\ Stacks!Find(k)
<1> DEFINE st == StacksOf(map)
<1>1. MapOK(map) /\ ~ map.dangling /\ map' = map
  BY DEF Inv, Find
<1>2. reply' = IF st[k] = <<>> THEN NULL ELSE Head(st[k])
  BY <1>1, FindsTop DEF Find
<1>3. st[k] \in Seq(Value)
  BY <1>1, SameBucket, BucketKeyed, UnderIs
<1>4. reply' \in Value \cup {NULL}
  <2> HIDE DEF st
  <2> QED BY <1>2, <1>3
<1>5. Stacks!Find(k)
  BY <1>1, <1>2 DEF Stacks!Find, StacksOf
<1> QED BY <1>1, <1>4, <1>5 DEF Inv

LEMMA DeleteStep ==
  ASSUME Inv, NEW k \in Key, Delete(k)
  PROVE  Inv' /\ Stacks!Delete(k)
<1> DEFINE st == StacksOf(map)
           new == StacksOf(map')
<1>1. MapOK(map) /\ ~ map.dangling /\ map.dangling = FALSE
  BY DEF Inv, Delete, MapOK, HashMaps
<1>2. map' = hs_hashmap_delete(map, k) /\ reply' = (PairAt(map, k) # NULL)
  BY DEF Delete
<1>3. /\ MapOK(map') /\ map'.dangling = FALSE
      /\ (PairAt(map, k) # NULL) = (st[k] # <<>>)
      /\ new = [st EXCEPT ![k] = IF @ = <<>> THEN <<>> ELSE Tail(@)]
  BY <1>1, <1>2, DeletePops
<1>4. reply' = (st[k] # <<>>)
  BY <1>2, <1>3
<1>5. reply' \in BOOLEAN
  BY <1>2
<1>6. Stacks!Delete(k)
  BY <1>1, <1>3, <1>4 DEF Stacks!Delete, StacksOf
<1> QED BY <1>3, <1>5, <1>6 DEF Inv

LEMMA StepIsStacksStep ==
  ASSUME Inv, [Next]_vars
  PROVE  Inv' /\ [Stacks!Next]_Stacks!vars
<1>1. ASSUME NEW k \in Key, NEW v \in Value, Insert(k, v)
      PROVE  Inv' /\ [Stacks!Next]_Stacks!vars
  BY <1>1, InsertStep DEF Stacks!Next
<1>2. ASSUME NEW k \in Key, Find(k)
      PROVE  Inv' /\ [Stacks!Next]_Stacks!vars
  BY <1>2, FindStep DEF Stacks!Next
<1>3. ASSUME NEW k \in Key, Delete(k)
      PROVE  Inv' /\ [Stacks!Next]_Stacks!vars
  BY <1>3, DeleteStep DEF Stacks!Next
<1>4. CASE UNCHANGED vars
  BY <1>4 DEF vars, Inv, Stacks!vars
<1> QED BY <1>1, <1>2, <1>3, <1>4 DEF Next, Lost

LEMMA SpecInv == Spec => []Inv
<1>1. Init => Inv
  BY InitInv
<1>2. Inv /\ [Next]_vars => Inv'
  BY StepIsStacksStep
<1> QED BY <1>1, <1>2, PTL DEF Spec

(* Whatever the program does, the map and the answers have their types,    *)
(* and the table is as large as it was asked to be (hs_hashmap.c:38-49).   *)
THEOREM TypeCorrect == Spec => []TypeOK
<1>1. Inv => TypeOK
  <2> SUFFICES ASSUME Inv PROVE TypeOK
    OBVIOUS
  <2>1. map.size = Buckets /\ map \in HashMaps(Buckets, Key, Value)
    BY DEF Inv, MapOK, HashMaps
  <2> QED BY <2>1, Constants DEF Inv, TypeOK
<1> QED BY <1>1, SpecInv, PTL

(* What hs_hashmap_insert, hs_hashmap_find and hs_hashmap_delete return is *)
(* what stacks of values return, for any keys that share a bucket of any   *)
(* size, and an insertion loses the map only when as many values as the    *)
(* bucket has slots are held under its keys (hs_hashmap.c:102).            *)
THEOREM ImplementsStacks == Spec => IsKeyedStacks
<1>1. Init => Stacks!Init
  BY InitInv DEF Init, Stacks!Init, StacksOf
<1> QED BY <1>1, StepIsStacksStep, SpecInv, PTL DEF Spec, IsKeyedStacks, Stacks!Spec

=============================================================================
