---------------------------- MODULE ServerProofs ----------------------------
(***************************************************************************)
(* The epoll server, for any number of clients, agents and descriptors and *)
(* buffers of any length, with and without signals, and with callbacks     *)
(* that write to and close any agent but their own.                        *)
(*                                                                         *)
(* The first part is about the hash map: what hs_hashmap_find returns      *)
(* after an insertion and a deletion.  What follows uses the map through   *)
(* these lemmas only.                                                      *)
(***************************************************************************)
EXTENDS Server, BufferLemmas, FiniteSetTheorems

MapSize == hs_hashmap_create(agent_size).size

Pair == [key : Fd, value : Agent]

BucketOf(f) == {g \in Fd : g % MapSize = f % MapSize}

(* Each pair lies in the bucket of its key, and no key has two.            *)
Sorted(p, h) ==
  /\ p \in [Slot -> {NULL} \cup Pair]
  /\ \A j \in Slot : p[j] # NULL => p[j].key % MapSize = h
  /\ \A j, k \in Slot : p[j] # NULL /\ p[k] # NULL /\ p[j].key = p[k].key => j = k

MapOK(hm) ==
  /\ hm \in HashMaps(MapSize, Fd, Agent) /\ ~ hm.dangling
  /\ \A h \in 0 .. MapSize - 1 : hm.data_ptr[h] # NULL => Sorted(hm.data_ptr[h], h)

-----------------------------------------------------------------------------
LEMMA MapSizeIsPositive ==
  /\ MapSize \in Nat /\ MapSize # 0
  /\ \A f \in Fd \cup {listen_socket} : f \in Nat /\ f % MapSize \in 0 .. MapSize - 1
  /\ listen_socket \notin Fd
<1> DEFINE n == (agent_size - 1) \div s_min_hash_size + 1
<1>1. s_min_hash_size \in Nat \ {0} /\ agent_size \in Nat \ {0} /\ Fd \subseteq Nat \ {0}
  BY HashMapAssumption, ServerAssumption
<1>2. n \in Nat \ {0}
  BY <1>1
<1>3. MapSize = s_min_hash_size * n
  BY DEF MapSize, hs_hashmap_create
<1> HIDE DEF n
<1>4. MapSize \in Nat \ {0}
  BY <1>1, <1>2, <1>3
<1> QED BY <1>1, <1>4 DEF listen_socket

LEMMA Slots ==
  /\ Slot \subseteq Nat /\ NULL \notin Slot
  /\ NULL \notin Pair /\ NULL \notin [Slot -> {NULL} \cup Pair]
  /\ NULL \notin Agent
  /\ IsFiniteSet(Slot) /\ Cardinality(Slot) = s_bucket_size
<1>1. s_bucket_size \in Nat /\ s_bucket_size >= 2 /\ NULL \notin Int
  BY HashMapAssumption
<1>2. IsFiniteSet(Slot) /\ Cardinality(Slot) = s_bucket_size
  BY <1>1, FS_Interval DEF Slot
<1>3. NULL \notin Pair \cup [Slot -> {NULL} \cup Pair] /\ NULL \notin Agent
  BY ServerAssumption DEF Pair
<1> QED BY <1>1, <1>2, <1>3 DEF Slot

(* The bucket that a key is looked for in.                                 *)
LEMMA BucketSorted ==
  ASSUME NEW hm, MapOK(hm), NEW f \in Fd \cup {listen_socket}
  PROVE  Sorted(Bucket(hm, f), f % MapSize)
<1>1. hm.size = MapSize /\ f % MapSize \in 0 .. MapSize - 1
  BY MapSizeIsPositive DEF MapOK, HashMaps
<1>2. Sorted(NoPair, f % MapSize)
  <2>1. NoPair \in [Slot -> {NULL} \cup Pair] /\ \A j \in Slot : NoPair[j] = NULL
    BY DEF NoPair
  <2> QED BY <2>1 DEF Sorted
<1> QED BY <1>1, <1>2 DEF Bucket, MapOK

(* One bucket of the map is given another content.                         *)
LEMMA BucketChanged ==
  ASSUME NEW hm, MapOK(hm), NEW f \in Fd, NEW p, Sorted(p, f % MapSize)
  PROVE  LET new == [hm EXCEPT !.data_ptr[f % hm.size] = p]
         IN  /\ MapOK(new)
             /\ \A g \in Fd : Bucket(new, g) =
                  IF g % MapSize = f % MapSize THEN p ELSE Bucket(hm, g)
<1> DEFINE h == f % MapSize
           new == [hm EXCEPT !.data_ptr[f % hm.size] = p]
           table == [hm.data_ptr EXCEPT ![h] = p]
<1>1. hm.size = MapSize /\ hm \in HashMaps(MapSize, Fd, Agent) /\ ~ hm.dangling
  BY DEF MapOK, HashMaps
<1>2. p \in [Slot -> {NULL} \cup Pair] /\ p # NULL
  BY Slots DEF Sorted
<1>3. h \in 0 .. MapSize - 1 /\ \A g \in Fd : g % MapSize \in 0 .. MapSize - 1
  BY MapSizeIsPositive
<1>4. new = [hm EXCEPT !.data_ptr = table]
  BY <1>1
<1>5. /\ hm.data_ptr \in [0 .. MapSize - 1 -> {NULL} \cup [Slot -> {NULL} \cup Pair]]
      /\ hm = [data_ptr |-> hm.data_ptr, size |-> MapSize, dangling |-> hm.dangling]
      /\ hm.dangling \in BOOLEAN
  BY <1>1 DEF HashMaps, Pair
<1> HIDE DEF h
<1>6. /\ table \in [0 .. MapSize - 1 -> {NULL} \cup [Slot -> {NULL} \cup Pair]]
      /\ table[h] = p
      /\ \A k \in 0 .. MapSize - 1 : k # h => table[k] = hm.data_ptr[k]
  BY <1>2, <1>3, <1>5
<1> HIDE DEF table
<1>7. /\ new \in HashMaps(MapSize, Fd, Agent) /\ new.dangling = hm.dangling
      /\ new.data_ptr = table /\ new.size = MapSize
  <2>1. new = [data_ptr |-> table, size |-> MapSize, dangling |-> hm.dangling]
    BY <1>4, <1>5
  <2> HIDE DEF new
  <2> QED BY <1>5, <1>6, <2>1 DEF HashMaps, Pair
<1> HIDE DEF new
<1>8. MapOK(new)
  <2>1. \A k \in 0 .. MapSize - 1 : table[k] # NULL => Sorted(table[k], k)
    BY <1>6 DEF MapOK, h
  <2> QED BY <1>1, <1>7, <2>1 DEF MapOK
<1>9. ASSUME NEW g \in Fd
      PROVE  Bucket(new, g) = IF g % MapSize = h THEN p ELSE Bucket(hm, g)
  <2>1. CASE g % MapSize = h
    BY <1>2, <1>6, <1>7, <2>1 DEF Bucket
  <2>2. CASE g % MapSize # h
    <3>1. table[g % MapSize] = hm.data_ptr[g % MapSize]
      BY <1>3, <1>6, <2>2
    <3> QED BY <1>1, <1>7, <2>2, <3>1 DEF Bucket
  <2> QED BY <2>1, <2>2
<1> QED BY <1>8, <1>9 DEF h, new

(* What is found is the value of the pair of the key, if there is one.     *)
LEMMA FoundIn ==
  ASSUME NEW hm, MapOK(hm), NEW f \in Fd \cup {listen_socket}
  PROVE  /\ \A j \in Slot : Bucket(hm, f)[j] # NULL /\ Bucket(hm, f)[j].key = f =>
              /\ PairAt(hm, f) = j
              /\ hs_hashmap_find(hm, f) = Bucket(hm, f)[j].value
              /\ hs_hashmap_find(hm, f) \in Agent
         /\ (\A j \in Slot : Bucket(hm, f)[j] # NULL => Bucket(hm, f)[j].key # f) =>
              PairAt(hm, f) = NULL /\ hs_hashmap_find(hm, f) = NULL
<1> DEFINE p == Bucket(hm, f)
           at == {j \in Slot : p[j] # NULL /\ p[j].key = f}
<1>1. Sorted(p, f % MapSize)
  BY BucketSorted
<1>2. PairAt(hm, f) = IF at = {} THEN NULL ELSE Min(at)
  BY DEF PairAt
<1> HIDE DEF p
<1>3. ASSUME NEW j \in Slot, p[j] # NULL, p[j].key = f
      PROVE  /\ PairAt(hm, f) = j
             /\ hs_hashmap_find(hm, f) = p[j].value /\ hs_hashmap_find(hm, f) \in Agent
  <2>1. at = {j}
    BY <1>1, <1>3 DEF Sorted
  <2>2. Min({j}) = j
    BY Slots DEF Min
  <2>3. PairAt(hm, f) = j /\ j # NULL
    BY <1>2, <2>1, <2>2, Slots
  <2>4. p[j] \in Pair
    BY <1>1, <1>3 DEF Sorted
  <2> QED BY <2>3, <2>4 DEF hs_hashmap_find, p, Pair
<1>4. ASSUME \A j \in Slot : p[j] # NULL => p[j].key # f
      PROVE  PairAt(hm, f) = NULL /\ hs_hashmap_find(hm, f) = NULL
  <2>1. at = {}
    BY <1>4
  <2> QED BY <1>2, <2>1 DEF hs_hashmap_find
<1> QED BY <1>3, <1>4 DEF p

LEMMA FindTyped ==
  ASSUME NEW hm, MapOK(hm), NEW f \in Fd \cup {listen_socket}
  PROVE  hs_hashmap_find(hm, f) \in Agent \cup {NULL}
BY FoundIn

IsPairOf(x, g) == x # NULL /\ x.key = g

LEMMA SameFound ==
  ASSUME NEW hm, NEW new, MapOK(hm), MapOK(new), NEW g \in Fd,
         \A j \in Slot : \/ Bucket(new, g)[j] = Bucket(hm, g)[j]
                         \/ ~ IsPairOf(Bucket(new, g)[j], g) /\ ~ IsPairOf(Bucket(hm, g)[j], g)
  PROVE  hs_hashmap_find(new, g) = hs_hashmap_find(hm, g)
<1>1. CASE \E j \in Slot : IsPairOf(Bucket(hm, g)[j], g)
  <2>1. PICK j \in Slot : IsPairOf(Bucket(hm, g)[j], g)
    BY <1>1
  <2>2. Bucket(new, g)[j] = Bucket(hm, g)[j]
    BY <2>1
  <2>3. hs_hashmap_find(hm, g) = Bucket(hm, g)[j].value
    BY <2>1, FoundIn DEF IsPairOf
  <2>4. hs_hashmap_find(new, g) = Bucket(new, g)[j].value
    BY <2>1, <2>2, FoundIn DEF IsPairOf
  <2> QED BY <2>2, <2>3, <2>4
<1>2. CASE \A j \in Slot : ~ IsPairOf(Bucket(hm, g)[j], g)
  <2>1. \A j \in Slot : ~ IsPairOf(Bucket(new, g)[j], g)
    BY <1>2
  <2>2. hs_hashmap_find(hm, g) = NULL
    BY <1>2, FoundIn DEF IsPairOf
  <2>3. hs_hashmap_find(new, g) = NULL
    BY <2>1, FoundIn DEF IsPairOf
  <2> QED BY <2>2, <2>3
<1> QED BY <1>1, <1>2

(* A new map has nothing in it.                                            *)
LEMMA CreatedIsEmpty ==
  LET hm == hs_hashmap_create(agent_size)
  IN  MapOK(hm) /\ \A f \in Fd : hs_hashmap_find(hm, f) = NULL
<1> DEFINE hm == hs_hashmap_create(agent_size)
<1>1. hm = [data_ptr |-> [h \in 0 .. MapSize - 1 |-> NULL], size |-> MapSize, dangling |-> FALSE]
  BY DEF hs_hashmap_create, MapSize
<1> HIDE DEF hm
<1>2. /\ hm.data_ptr = [h \in 0 .. MapSize - 1 |-> NULL] /\ hm.size = MapSize
      /\ hm.dangling = FALSE
  BY <1>1
<1>3. hm \in HashMaps(MapSize, Fd, Agent)
  BY <1>1 DEF HashMaps
<1>4. MapOK(hm)
  BY <1>2, <1>3 DEF MapOK
<1>5. ASSUME NEW f \in Fd
      PROVE  hs_hashmap_find(hm, f) = NULL
  <2>1. Bucket(hm, f) = NoPair
    BY <1>2, MapSizeIsPositive DEF Bucket
  <2> QED BY <1>4, <2>1, FoundIn DEF NoPair
<1> QED BY <1>4, <1>5 DEF hm

(* A key that is not in the map finds a place for its pair: with EachHasA- *)
(* Slot the other keys do not fill the bucket.                             *)
LEMMA HasAPlace ==
  ASSUME NEW hm, MapOK(hm), NEW f \in Fd, hs_hashmap_find(hm, f) = NULL
  PROVE  LET p == Bucket(hm, f)
         IN  /\ Stops(p, f) # {} /\ Min(Stops(p, f)) \in Slot
             /\ p[Min(Stops(p, f))] = NULL
             /\ \A j \in Slot : p[j] # NULL => p[j].key # f
<1> DEFINE p == Bucket(hm, f)
           others == BucketOf(f) \ {f}
<1>1. Sorted(p, f % MapSize)
  BY BucketSorted
<1>2. \A j \in Slot : p[j] # NULL => p[j].key # f
  BY FoundIn, Slots
<1> HIDE DEF p
<1>3. \E j \in Slot : p[j] = NULL
  <2> SUFFICES ASSUME \A j \in Slot : p[j] # NULL
               PROVE  FALSE
    OBVIOUS
  <2>1. IsFiniteSet(BucketOf(f)) /\ f \in BucketOf(f)
    BY ServerAssumption, FS_Subset DEF BucketOf
  <2>2. Cardinality(BucketOf(f)) <= s_bucket_size
    BY ServerAssumption DEF EachHasASlot, BucketOf, MapSize
  <2>3. /\ IsFiniteSet(others) /\ Cardinality(others) = Cardinality(BucketOf(f)) - 1
        /\ Cardinality(BucketOf(f)) \in Nat
    BY <2>1, FS_RemoveElement, FS_CardinalityType
  <2>4. Cardinality(others) < Cardinality(Slot)
    BY <2>2, <2>3, Slots, HashMapAssumption
  <2> DEFINE keys == [j \in Slot |-> p[j].key]
  <2>5. \A j \in Slot : p[j].key \in others
    BY <1>1, <1>2 DEF Sorted, Pair, BucketOf
  <2>6. keys \in [Slot -> others]
    BY <2>5
  <2> HIDE DEF others
  <2>7. PICK j, k \in Slot : j # k /\ keys[j] = keys[k]
    <3> HIDE DEF keys
    <3> QED BY <2>3, <2>4, <2>6, Slots, FS_PigeonHole
  <2> QED BY <1>1, <2>7 DEF Sorted
<1>4. Stops(p, f) = {j \in Slot : p[j] = NULL}
  BY <1>2 DEF Stops
<1>5. Stops(p, f) # {} /\ Stops(p, f) \subseteq Nat
  BY <1>3, <1>4, Slots
<1>6. Min(Stops(p, f)) \in Stops(p, f)
  <2>1. \E j \in Stops(p, f) : \A k \in Stops(p, f) : j <= k
    BY <1>5, LeastExists
  <2> QED BY <2>1 DEF Min
<1> QED BY <1>2, <1>4, <1>5, <1>6 DEF p

LEMMA Inserted ==
  ASSUME NEW hm, MapOK(hm), NEW f \in Fd, hs_hashmap_find(hm, f) = NULL, NEW a \in Agent
  PROVE  /\ Inserts(hm, f)
         /\ MapOK(hs_hashmap_insert(hm, f, a))
         /\ \A g \in Fd : hs_hashmap_find(hs_hashmap_insert(hm, f, a), g) =
              IF g = f THEN a ELSE hs_hashmap_find(hm, g)
<1> DEFINE p == Bucket(hm, f)
           at == Min(Stops(p, f))
           pair == [key |-> f, value |-> a]
           q == [p EXCEPT ![at] = pair]
           new == [hm EXCEPT !.data_ptr[f % hm.size] = q]
<1>1. /\ Stops(p, f) # {} /\ at \in Slot /\ p[at] = NULL
      /\ \A j \in Slot : p[j] # NULL => p[j].key # f
  BY HasAPlace
<1>2. Inserts(hm, f) /\ hs_hashmap_insert(hm, f, a) = new
  BY <1>1 DEF Inserts, hs_hashmap_insert
<1>3. Sorted(p, f % MapSize)
  BY BucketSorted
<1>4. pair \in Pair /\ pair # NULL /\ pair.key = f /\ pair.value = a
  BY Slots DEF Pair
<1> HIDE DEF p, at, pair
<1>5. /\ q \in [Slot -> {NULL} \cup Pair] /\ q[at] = pair
      /\ \A j \in Slot : j # at => q[j] = p[j]
  BY <1>1, <1>3, <1>4 DEF Sorted
<1> HIDE DEF q
<1>6. Sorted(q, f % MapSize)
  <2>1. \A j \in Slot : q[j] # NULL => q[j].key % MapSize = f % MapSize
    BY <1>3, <1>4, <1>5 DEF Sorted
  <2>2. ASSUME NEW j \in Slot, NEW k \in Slot, q[j] # NULL, q[k] # NULL,
               q[j].key = q[k].key
        PROVE  j = k
    BY <1>1, <1>3, <1>4, <1>5, <2>2 DEF Sorted
  <2> QED BY <1>5, <2>1, <2>2 DEF Sorted
<1>7. /\ MapOK(new)
      /\ \A g \in Fd : Bucket(new, g) =
           IF g % MapSize = f % MapSize THEN q ELSE Bucket(hm, g)
  BY <1>6, BucketChanged
<1> HIDE DEF new
<1>8. ASSUME NEW g \in Fd
      PROVE  hs_hashmap_find(new, g) = IF g = f THEN a ELSE hs_hashmap_find(hm, g)
  <2>1. CASE g = f
    <3>1. Bucket(new, g)[at] = pair
      BY <1>5, <1>7, <2>1
    <3> QED BY <1>1, <1>4, <1>7, <2>1, <3>1, FoundIn
  <2>2. CASE g # f
    <3>1. ASSUME NEW j \in Slot
          PROVE  \/ Bucket(new, g)[j] = Bucket(hm, g)[j]
                 \/ ~ IsPairOf(Bucket(new, g)[j], g) /\ ~ IsPairOf(Bucket(hm, g)[j], g)
      <4>1. CASE g % MapSize = f % MapSize
        <5>1. Bucket(new, g) = q /\ Bucket(hm, g) = p
          BY <1>7, <4>1 DEF Bucket, p, MapOK, HashMaps
        <5> QED BY <1>1, <1>4, <1>5, <2>2, <5>1 DEF IsPairOf
      <4>2. CASE g % MapSize # f % MapSize
        BY <1>7, <4>2
      <4> QED BY <4>1, <4>2
    <3>2. hs_hashmap_find(new, g) = hs_hashmap_find(hm, g)
      BY <1>7, <3>1, SameFound
    <3> QED BY <2>2, <3>2
  <2> QED BY <2>1, <2>2
<1> QED BY <1>2, <1>7, <1>8

LEMMA Deleted ==
  ASSUME NEW hm, MapOK(hm), NEW f \in Fd
  PROVE  /\ MapOK(hs_hashmap_delete(hm, f))
         /\ \A g \in Fd : hs_hashmap_find(hs_hashmap_delete(hm, f), g) =
              IF g = f THEN NULL ELSE hs_hashmap_find(hm, g)
<1> DEFINE p == Bucket(hm, f)
<1>1. Sorted(p, f % MapSize)
  BY BucketSorted
<1>2. CASE \A j \in Slot : ~ IsPairOf(p[j], f)
  <2>1. PairAt(hm, f) = NULL /\ hs_hashmap_find(hm, f) = NULL
    BY <1>2, FoundIn DEF IsPairOf
  <2> QED BY <2>1 DEF hs_hashmap_delete
<1>3. CASE \E j \in Slot : IsPairOf(p[j], f)
  <2>1. PICK at \in Slot : IsPairOf(p[at], f)
    BY <1>3
  <2>2. PairAt(hm, f) = at /\ at # NULL
    BY <2>1, FoundIn, Slots DEF IsPairOf
  <2> DEFINE q == [p EXCEPT ![at] = NULL]
             new == [hm EXCEPT !.data_ptr[f % hm.size] = q]
  <2>3. hs_hashmap_delete(hm, f) = new
    <3>1. /\ hm \in HashMaps(MapSize, Fd, Agent) /\ hm.size = MapSize
          /\ f % hm.size \in 0 .. MapSize - 1
      BY MapSizeIsPositive DEF MapOK, HashMaps
    <3>2. p = hm.data_ptr[f % hm.size]
      <4>1. hm.data_ptr[f % hm.size] = NULL => p[at] = NULL
        BY DEF Bucket, NoPair
      <4> QED BY <2>1, <4>1 DEF Bucket, IsPairOf
    <3>3. hs_hashmap_delete(hm, f) = [hm EXCEPT !.data_ptr[f % hm.size][at] = NULL]
      BY <2>2 DEF hs_hashmap_delete
    <3> HIDE DEF p
    <3> QED BY <3>1, <3>2, <3>3 DEF HashMaps
  <2> HIDE DEF p
  <2>4. /\ q \in [Slot -> {NULL} \cup Pair] /\ q[at] = NULL
        /\ \A j \in Slot : j # at => q[j] = p[j]
    BY <1>1 DEF Sorted
  <2> HIDE DEF q
  <2>5. Sorted(q, f % MapSize)
    BY <1>1, <2>4 DEF Sorted
  <2>6. /\ MapOK(new)
        /\ \A g \in Fd : Bucket(new, g) =
             IF g % MapSize = f % MapSize THEN q ELSE Bucket(hm, g)
    BY <2>5, BucketChanged
  <2> HIDE DEF new
  <2>7. hs_hashmap_find(new, f) = NULL
    <3>1. \A j \in Slot : ~ IsPairOf(q[j], f)
      BY <1>1, <2>1, <2>4 DEF Sorted, IsPairOf
    <3>2. Bucket(new, f) = q
      BY <2>6
    <3> QED BY <2>6, <3>1, <3>2, FoundIn DEF IsPairOf
  <2>8. ASSUME NEW g \in Fd, g # f
        PROVE  hs_hashmap_find(new, g) = hs_hashmap_find(hm, g)
    <3>1. ASSUME NEW j \in Slot
          PROVE  \/ Bucket(new, g)[j] = Bucket(hm, g)[j]
                 \/ ~ IsPairOf(Bucket(new, g)[j], g) /\ ~ IsPairOf(Bucket(hm, g)[j], g)
      <4>1. CASE g % MapSize = f % MapSize
        <5>1. Bucket(new, g) = q /\ Bucket(hm, g) = p
          BY <2>6, <4>1 DEF Bucket, p, MapOK, HashMaps
        <5> QED BY <2>1, <2>4, <2>8, <5>1 DEF IsPairOf
      <4>2. CASE g % MapSize # f % MapSize
        BY <2>6, <4>2
      <4> QED BY <4>1, <4>2
    <3> QED BY <2>6, <3>1, SameFound
  <2> QED BY <2>3, <2>6, <2>7, <2>8
<1> QED BY <1>2, <1>3 DEF IsPairOf

(* The iterator never leaves the first slot, whose value is in the map.    *)
LEMMA FirstIsFound ==
  ASSUME NEW hm, MapOK(hm), hs_hashmap_iter_data(hm) # NULL
  PROVE  \E f \in Fd : hs_hashmap_find(hm, f) = hs_hashmap_iter_data(hm)
<1> DEFINE p == hm.data_ptr[0]
<1>1. p # NULL /\ p[1] # NULL /\ hs_hashmap_iter_data(hm) = p[1].value
  BY DEF hs_hashmap_iter_data
<1>2. 0 \in 0 .. MapSize - 1 /\ hm.size = MapSize
  BY MapSizeIsPositive DEF MapOK, HashMaps
<1>3. Sorted(p, 0) /\ 1 \in Slot
  BY <1>1, <1>2, HashMapAssumption DEF MapOK, Slot
<1> HIDE DEF p
<1>4. p[1] \in Pair /\ p[1].key \in Fd /\ p[1].key % MapSize = 0
  BY <1>1, <1>3 DEF Sorted, Pair
<1>5. Bucket(hm, p[1].key) = p
  BY <1>1, <1>2, <1>4 DEF Bucket, p
<1> QED BY <1>1, <1>3, <1>4, <1>5, FoundIn

-----------------------------------------------------------------------------
(* The inductive invariant.  The map gives each open descriptor its agent  *)
(* and each allocated agent is that of its descriptor.                     *)
Mapped ==
  /\ MapOK(agents)
  /\ live \subseteq Agent
  /\ sock \in [Fd -> Client \cup {NULL}]
  /\ \A f \in Fd :
       IF sock[f] = NULL THEN hs_hashmap_find(agents, f) = NULL
       ELSE /\ hs_hashmap_find(agents, f) \in live
            /\ heap[hs_hashmap_find(agents, f)].socket = f
  /\ \A a \in live : /\ heap[a].socket \in Fd /\ sock[heap[a].socket] # NULL
                     /\ hs_hashmap_find(agents, heap[a].socket) = a

(* Each client is at one place: at one descriptor, or once in the queue.   *)
(* The application knows the agents that are allocated.                    *)
Paired ==
  /\ queue \in Seq(Client)
  /\ client \in [Client -> {"away", "up", "fin", "rst"}]
  /\ \A f, g \in Fd : sock[f] = sock[g] /\ sock[f] # NULL => f = g
  /\ \A f \in Fd : sock[f] # NULL => client[sock[f]] # "away"
  /\ \A j \in 1 .. Len(queue) :
       client[queue[j]] # "away" /\ \A f \in Fd : sock[f] # queue[j]
  /\ \A j, k \in 1 .. Len(queue) : queue[j] = queue[k] => j = k
  /\ known = {[agent |-> a, fd |-> heap[a].socket, client |-> sock[heap[a].socket]] :
                a \in live}

(* What the kernel has for each client, one way, comes from it or is meant *)
(* for it.                                                                 *)
Carries(q) ==
  /\ q \in [Client -> Seq(Byte)]
  /\ \A c \in Client : Len(q[c]) <= KernelRoom /\ \A j \in 1 .. Len(q[c]) : q[c][j] = c

Tagged ==
  /\ Carries(inq) /\ Carries(outq)
  /\ heap \in [Agent -> NetAgents(Fd \cup {0})]
  /\ \A a \in live :
       /\ RecvHolds(heap[a].recv_buff, RecvLength, sock[heap[a].socket])
       /\ SendHolds(heap[a].send_buff, SendLength, sock[heap[a].socket])

(* Only descriptors that are open are ready, none twice.                   *)
Waiting ==
  /\ ready \in Seq(Fd \cup {listen_socket})
  /\ \A j, k \in 1 .. Len(ready) : ready[j] = ready[k] => j = k
  /\ \A j \in 1 .. Len(ready) : ready[j] \in Fd => sock[ready[j]] # NULL
  /\ sent \in [Client -> Nat]

Event == [fd : Fd \cup {listen_socket}, events : Mask]

AtAgent == {"recv", "handler", "again", "send", "ends"}

(* While an event is processed its agent is still the one the map has.     *)
InBatch ==
  /\ events \in Seq(Event) /\ Len(events) <= agent_size
  /\ agent \in Agent \cup {NULL}
  /\ pc \in {"app", "accept", "conn"} \cup AtAgent \cup Down
  /\ pc \in {"accept", "conn"} \cup AtAgent => events # <<>>
  /\ pc \in AtAgent => /\ Head(events).fd \in Fd /\ agent # NULL
                       /\ agent = hs_hashmap_find(agents, Head(events).fd)

Inv == Mapped /\ Paired /\ Tagged /\ Waiting /\ InBatch

-----------------------------------------------------------------------------
(* Init                                                                    *)

LEMMA Constants ==
  /\ agent_size \in Nat /\ agent_size # 0 /\ KernelRoom \in Nat
  /\ Fd \subseteq Nat /\ IsFiniteSet(Fd) /\ IsFiniteSet(Client)
  /\ Byte = Client /\ NULL \notin Client /\ NULL \notin Agent
BY ServerAssumption

LEMMA NewAgentHolds ==
  ASSUME NEW f \in Fd \cup {0}, NEW c
  PROVE  /\ hs_net_new_agent(f) \in NetAgents(Fd \cup {0})
         /\ RecvHolds(hs_net_new_agent(f).recv_buff, RecvLength, c)
         /\ SendHolds(hs_net_new_agent(f).send_buff, SendLength, c)
<1>1. RecvLength \in Nat /\ SendLength \in Nat
  BY NetAgentAssumption
<1>2. /\ RecvHolds(hs_recvbuff_init(RecvLength), RecvLength, c)
      /\ SendHolds(hs_sendbuff_init(SendLength), SendLength, c)
  BY <1>1, RecvInitHolds, SendInitHolds
<1>3. /\ hs_recvbuff_init(RecvLength) \in RecvBuffs(RecvLength)
      /\ hs_sendbuff_init(SendLength) \in SendBuffs(SendLength)
  BY <1>2 DEF RecvHolds, SendHolds
<1> QED BY <1>2, <1>3 DEF hs_net_new_agent, NetAgents

LEMMA InvInit == Init => Inv
<1> SUFFICES ASSUME Init PROVE Inv
  OBVIOUS
<1>1. /\ agents = hs_hashmap_create(agent_size) /\ events = <<>> /\ agent = NULL
      /\ live = {} /\ heap = [a \in Agent |-> Unallocated] /\ pc = "app"
      /\ sock = [f \in Fd |-> NULL] /\ ready = <<>> /\ queue = <<>>
      /\ client = [c \in Client |-> "away"] /\ sent = [c \in Client |-> 0]
      /\ inq = [c \in Client |-> <<>>] /\ outq = [c \in Client |-> <<>>]
      /\ known = {}
  BY DEF Init
<1>2. agent_size \in Nat /\ KernelRoom \in Nat
  BY ServerAssumption
<1>3. /\ <<>> \in Seq(Byte) /\ Len(<<>>) = 0 /\ <<>> \in Seq(Client) /\ <<>> \in Seq(Event)
      /\ <<>> \in Seq(Fd \cup {listen_socket})
  OBVIOUS
<1>4. Mapped
  BY <1>1, CreatedIsEmpty DEF Mapped
<1>5. Paired
  BY <1>1, <1>3 DEF Paired
<1>6. Tagged
  <2>1. Unallocated \in NetAgents(Fd \cup {0})
    BY NewAgentHolds DEF Unallocated
  <2>2. Carries([c \in Client |-> <<>>])
    BY <1>2, <1>3 DEF Carries
  <2> QED BY <1>1, <2>1, <2>2 DEF Tagged
<1>7. Waiting
  BY <1>1, <1>3 DEF Waiting
<1>8. InBatch
  BY <1>1, <1>2, <1>3 DEF InBatch, AtAgent
<1> QED BY <1>4, <1>5, <1>6, <1>7, <1>8 DEF Inv

-----------------------------------------------------------------------------
(* The batch.                                                              *)

LEMMA AgentIsLive ==
  ASSUME Mapped, InBatch, pc \in AtAgent
  PROVE  /\ agent \in live /\ agent \in Agent
         /\ heap[agent].socket = Head(events).fd
<1>1. /\ Head(events).fd \in Fd /\ agent # NULL
      /\ agent = hs_hashmap_find(agents, Head(events).fd)
  BY DEF InBatch
<1> QED BY <1>1 DEF Mapped

LEMMA RestOfBatch ==
  ASSUME InBatch, pc \in {"accept", "conn"} \cup AtAgent
  PROVE  /\ Tail(events) \in Seq(Event) /\ Len(Tail(events)) <= agent_size
         /\ Head(events) \in Event
<1>1. events \in Seq(Event) /\ events # <<>> /\ Len(events) <= agent_size
  BY DEF InBatch
<1>2. /\ Head(events) \in Event /\ Tail(events) \in Seq(Event)
      /\ Len(Tail(events)) = Len(events) - 1 /\ Len(events) \in Nat
  BY <1>1, HeadTailProperties, LenProperties
<1>3. Len(Tail(events)) <= agent_size
  BY <1>1, <1>2, Constants
<1> QED BY <1>1, <1>2, <1>3

(* Events without an effect are skipped; what is left is processed for the *)
(* agent the map has now.                                                  *)
LEMMA ProcessKeepsBatch ==
  ASSUME MapOK(agents'), NEW es \in Seq(Event), Len(es) <= agent_size, Process(es)
  PROVE  InBatch'
<1>1. PICK n \in 0 .. Len(es) :
        /\ events' = SubSeq(es, n + 1, Len(es))
        /\ IF n = Len(es) THEN agent' = NULL /\ pc' = "app"
           ELSE /\ Effective(es[n + 1])
                /\ agent' = hs_hashmap_find(agents', es[n + 1].fd)
                /\ pc' = Entry(es[n + 1])
  BY DEF Process
<1>2. /\ events' \in Seq(Event) /\ Len(events') = Len(es) - n
      /\ Len(es) \in Nat /\ n < Len(es) => events'[1] = es[n + 1] /\ es[n + 1] \in Event
  <2>1. Len(es) \in Nat /\ \A k \in 1 .. Len(es) : es[k] \in Event
    BY LenProperties, ElementOfSeq
  <2>2. \A k \in n + 1 .. Len(es) : es[k] \in Event
    BY <2>1
  <2>3. /\ events' \in Seq(Event)
        /\ Len(events') = IF n + 1 <= Len(es) THEN Len(es) - (n + 1) + 1 ELSE 0
        /\ \A k \in 1 .. Len(es) - (n + 1) + 1 : events'[k] = es[n + 1 + k - 1]
    BY <1>1, <2>1, <2>2, SubSeqProperties
  <2>4. n < Len(es) => 1 \in 1 .. Len(es) - (n + 1) + 1 /\ n + 1 + 1 - 1 = n + 1
    BY <2>1
  <2>5. n < Len(es) => events'[1] = es[n + 1]
    <3>1. ASSUME n < Len(es)
          PROVE  events'[1] = es[n + 1 + 1 - 1] /\ n + 1 + 1 - 1 = n + 1
      BY <2>3, <2>4, <3>1
    <3> QED BY <3>1
  <2>6. Len(events') = Len(es) - n
    BY <2>1, <2>3
  <2>7. n < Len(es) => es[n + 1] \in Event
    BY <2>1
  <2> QED BY <2>1, <2>3, <2>5, <2>6, <2>7
<1>3. Len(events') <= agent_size
  BY <1>2, Constants
<1>4. CASE n = Len(es)
  BY <1>1, <1>2, <1>3, <1>4 DEF InBatch, AtAgent
<1>5. CASE n # Len(es)
  <2> DEFINE e == es[n + 1]
  <2>1. /\ Effective(e) /\ agent' = hs_hashmap_find(agents', e.fd) /\ pc' = Entry(e)
        /\ e \in Event /\ events'[1] = e /\ events' # <<>>
    <3>1. n < Len(es) /\ Len(events') # 0 /\ Len(<<>>) = 0
      BY <1>2, <1>5
    <3>2. events' # <<>>
      BY <3>1
    <3>3. events'[1] = e /\ e \in Event
      BY <1>2, <3>1
    <3>4. Effective(e) /\ agent' = hs_hashmap_find(agents', e.fd) /\ pc' = Entry(e)
      BY <1>1, <1>5
    <3> QED BY <3>2, <3>3, <3>4
  <2>2. Head(events') = e
    BY <2>1
  <2> HIDE DEF e
  <2>3. e.fd \in Fd \cup {listen_socket} /\ agent' \in Agent \cup {NULL}
    <3>1. e.fd \in Fd \cup {listen_socket}
      BY <2>1 DEF Event
    <3> QED BY <2>1, <3>1, FindTyped
  <2>4. CASE e.fd = listen_socket
    <3>1. pc' = "accept"
      BY <2>1, <2>4 DEF Entry
    <3> QED BY <1>2, <1>3, <2>1, <2>3, <3>1 DEF InBatch, AtAgent
  <2>5. CASE e.fd # listen_socket
    <3>1. pc' \in AtAgent
      BY <2>1, <2>5 DEF Entry, CanRecv, AtAgent
    <3>2. agent' # NULL
      BY <2>1, <2>5 DEF Effective
    <3>3. /\ Head(events').fd \in Fd
          /\ agent' = hs_hashmap_find(agents', Head(events').fd)
      BY <2>1, <2>2, <2>3, <2>5
    <3> QED BY <1>2, <1>3, <2>1, <2>3, <3>1, <3>2, <3>3 DEF InBatch
  <2> QED BY <2>4, <2>5
<1> QED BY <1>4, <1>5

LEMMA NextEventKeepsBatch ==
  ASSUME InBatch, pc \in {"accept", "conn"} \cup AtAgent, MapOK(agents'), NextEvent
  PROVE  InBatch'
<1>1. Process(Tail(events))
  BY DEF NextEvent
<1> QED BY <1>1, RestOfBatch, ProcessKeepsBatch

LEMMA AfterSendKeepsBatch ==
  ASSUME InBatch, pc \in AtAgent, MapOK(agents), agents' = agents, AfterSend
  PROVE  InBatch'
<1>1. CASE IsEnd(ee)
  <2>1. pc' = "ends" /\ UNCHANGED <<events, agent, agents>>
    BY <1>1 DEF AfterSend, batch
  <2> QED BY <2>1 DEF InBatch, AtAgent
<1>2. CASE NextEvent
  BY <1>2, NextEventKeepsBatch
<1> QED BY <1>1, <1>2 DEF AfterSend

LEMMA AfterRecvKeepsBatch ==
  ASSUME InBatch, pc \in AtAgent, MapOK(agents), agents' = agents, AfterRecv
  PROVE  InBatch'
<1>1. CASE pc' = "send" /\ UNCHANGED batch
  BY <1>1 DEF InBatch, AtAgent, batch
<1>2. CASE AfterSend
  BY <1>2, AfterSendKeepsBatch
<1> QED BY <1>1, <1>2 DEF AfterRecv

-----------------------------------------------------------------------------
(* hs_net_agent_close: with an agent go its descriptor, its pair in the    *)
(* map, its client, what was on its way and what was known of it.          *)

LEMMA CloseKeepsMapped ==
  ASSUME Mapped, NEW a \in live, hs_net_agent_close(a),
         heap \in [Agent -> NetAgents(Fd \cup {0})]
  PROVE  Mapped'
<1> DEFINE s == heap[a].socket
<1>1. /\ sock' = [sock EXCEPT ![s] = NULL] /\ agents' = hs_hashmap_delete(agents, s)
      /\ live' = live \ {a} /\ heap' = [heap EXCEPT ![a] = hs_net_new_agent(s)]
  BY DEF hs_net_agent_close, Closed, WithoutAgent
<1>2. /\ s \in Fd /\ hs_hashmap_find(agents, s) = a /\ MapOK(agents)
      /\ live \subseteq Agent /\ sock \in [Fd -> Client \cup {NULL}]
  BY DEF Mapped
<1>3. /\ MapOK(agents')
      /\ \A g \in Fd : hs_hashmap_find(agents', g) =
           IF g = s THEN NULL ELSE hs_hashmap_find(agents, g)
  BY <1>1, <1>2, Deleted
<1>4. \A b \in live : b # a => heap[b].socket # s
  BY <1>2 DEF Mapped
<1> HIDE DEF s
<1>5. /\ sock' \in [Fd -> Client \cup {NULL}] /\ sock'[s] = NULL
      /\ \A f \in Fd : f # s => sock'[f] = sock[f]
  BY <1>1, <1>2
<1>6. \A b \in live' : b \in live /\ b # a /\ heap'[b] = heap[b]
  BY <1>1, <1>2
<1>7. ASSUME NEW f \in Fd
      PROVE  IF sock'[f] = NULL THEN hs_hashmap_find(agents', f) = NULL
             ELSE /\ hs_hashmap_find(agents', f) \in live'
                  /\ heap'[hs_hashmap_find(agents', f)].socket = f
  <2>1. CASE f = s
    BY <1>3, <1>5, <2>1
  <2>2. CASE f # s /\ sock[f] = NULL
    BY <1>3, <1>5, <2>2 DEF Mapped
  <2>3. CASE f # s /\ sock[f] # NULL
    <3>1. /\ hs_hashmap_find(agents', f) = hs_hashmap_find(agents, f)
          /\ hs_hashmap_find(agents, f) \in live
          /\ heap[hs_hashmap_find(agents, f)].socket = f
      BY <1>3, <2>3 DEF Mapped
    <3>2. hs_hashmap_find(agents, f) # a
      BY <2>3, <3>1 DEF s
    <3> QED BY <1>1, <1>5, <1>6, <2>3, <3>1, <3>2
  <2> QED BY <2>1, <2>2, <2>3
<1>8. ASSUME NEW b \in live'
      PROVE  /\ heap'[b].socket \in Fd /\ sock'[heap'[b].socket] # NULL
             /\ hs_hashmap_find(agents', heap'[b].socket) = b
  <2>1. b \in live /\ heap'[b] = heap[b] /\ heap[b].socket # s
    BY <1>4, <1>6
  <2>2. /\ heap[b].socket \in Fd /\ sock[heap[b].socket] # NULL
        /\ hs_hashmap_find(agents, heap[b].socket) = b
    BY <2>1 DEF Mapped
  <2> QED BY <1>3, <1>5, <2>1, <2>2
<1>9. live' \subseteq Agent
  BY <1>1, <1>2
<1> QED BY <1>3, <1>5, <1>7, <1>8, <1>9 DEF Mapped

LEMMA CloseKeepsPaired ==
  ASSUME Mapped, Paired, NEW a \in live, hs_net_agent_close(a),
         heap \in [Agent -> NetAgents(Fd \cup {0})]
  PROVE  Paired'
<1> DEFINE s == heap[a].socket
           c == sock[s]
<1>1. /\ sock' = [sock EXCEPT ![s] = NULL] /\ client' = [client EXCEPT ![c] = "away"]
      /\ live' = live \ {a} /\ heap' = [heap EXCEPT ![a] = hs_net_new_agent(s)]
      /\ known' = {k \in known : k.fd # s} /\ queue' = queue
  BY DEF hs_net_agent_close, Closed, KnownWithout
<1>2. /\ s \in Fd /\ c \in Client /\ c # NULL /\ live \subseteq Agent
      /\ sock \in [Fd -> Client \cup {NULL}]
  BY DEF Mapped
<1>3. \A b \in live : b # a => heap[b].socket \in Fd /\ heap[b].socket # s
                            /\ heap'[b] = heap[b]
  BY <1>1, <1>2 DEF Mapped
<1> HIDE DEF s, c
<1>4. /\ sock'[s] = NULL
      /\ \A f \in Fd : f # s => sock'[f] = sock[f]
  BY <1>1, <1>2
<1>5. /\ client' \in [Client -> {"away", "up", "fin", "rst"}]
      /\ \A d \in Client : d # c => client'[d] = client[d]
  BY <1>1, <1>2 DEF Paired
<1>6. \A f, g \in Fd : sock'[f] = sock'[g] /\ sock'[f] # NULL => f = g
  BY <1>4 DEF Paired
<1>7. \A f \in Fd : sock'[f] # NULL => client'[sock'[f]] # "away"
  <2>1. \A f \in Fd : f # s /\ sock[f] # NULL => sock[f] # c
    BY <1>2 DEF Paired, c
  <2>2. \A f \in Fd : sock[f] # NULL => sock[f] \in Client /\ client[sock[f]] # "away"
    BY <1>2 DEF Paired
  <2> QED BY <1>4, <1>5, <2>1, <2>2
<1>8. \A j \in 1 .. Len(queue') :
        client'[queue'[j]] # "away" /\ \A f \in Fd : sock'[f] # queue'[j]
  <2>1. \A j \in 1 .. Len(queue) :
          /\ queue[j] \in Client /\ client[queue[j]] # "away"
          /\ \A f \in Fd : sock[f] # queue[j]
    BY ElementOfSeq DEF Paired
  <2>2. \A j \in 1 .. Len(queue) : queue[j] # c /\ queue[j] # NULL
    BY <1>2, <2>1, Constants DEF c
  <2> QED BY <1>1, <1>4, <1>5, <2>1, <2>2
<1>9. known' = {[agent |-> b, fd |-> heap'[b].socket, client |-> sock'[heap'[b].socket]] :
                   b \in live'}
  <2>1. known = {[agent |-> b, fd |-> heap[b].socket, client |-> sock[heap[b].socket]] :
                   b \in live}
    BY DEF Paired
  <2> DEFINE was(b) == [agent |-> b, fd |-> heap[b].socket, client |-> sock[heap[b].socket]]
             is(b) == [agent |-> b, fd |-> heap'[b].socket, client |-> sock'[heap'[b].socket]]
  <2>2. \A b \in live \ {a} : was(b) = is(b) /\ was(b).fd # s
    BY <1>3, <1>4
  <2>3. was(a).fd = s
    BY DEF s
  <2>4. known = {was(b) : b \in live}
    BY <2>1
  <2> HIDE DEF was, is
  <2>5. known' = {is(b) : b \in live'}
    BY <1>1, <2>2, <2>3, <2>4
  <2> QED BY <2>5 DEF is
<1> QED BY <1>1, <1>5, <1>6, <1>7, <1>8, <1>9 DEF Paired

LEMMA CarriesWith ==
  ASSUME NEW q, Carries(q), NEW c \in Client, NEW s \in Seq(Byte),
         Len(s) <= KernelRoom, \A j \in 1 .. Len(s) : s[j] = c
  PROVE  Carries([q EXCEPT ![c] = s])
<1> DEFINE r == [q EXCEPT ![c] = s]
<1>1. /\ r \in [Client -> Seq(Byte)] /\ r[c] = s
      /\ \A d \in Client : d # c => r[d] = q[d]
  BY DEF Carries
<1> HIDE DEF r
<1>2. \A d \in Client : Len(r[d]) <= KernelRoom /\ \A j \in 1 .. Len(r[d]) : r[d][j] = d
  BY <1>1 DEF Carries
<1>3. Carries(r)
  BY <1>1, <1>2 DEF Carries
<1> QED BY <1>3 DEF r

LEMMA CarriesNothing ==
  ASSUME NEW q, Carries(q), NEW c \in Client
  PROVE  Carries([q EXCEPT ![c] = <<>>])
<1> DEFINE none == <<>>
<1>1. none \in Seq(Byte) /\ Len(none) = 0 /\ KernelRoom \in Nat
  BY Constants
<1> HIDE DEF none
<1>2. Len(none) <= KernelRoom /\ 1 .. Len(none) = {}
  BY <1>1
<1>3. Carries([q EXCEPT ![c] = none])
  BY <1>1, <1>2, CarriesWith
<1> QED BY <1>3 DEF none

LEMMA CloseKeepsTagged ==
  ASSUME Mapped, Tagged, NEW a \in live, hs_net_agent_close(a)
  PROVE  Tagged'
<1> DEFINE s == heap[a].socket
           c == sock[s]
<1>1. /\ sock' = [sock EXCEPT ![s] = NULL] /\ live' = live \ {a}
      /\ heap' = [heap EXCEPT ![a] = hs_net_new_agent(s)]
      /\ inq' = [inq EXCEPT ![c] = <<>>] /\ outq' = [outq EXCEPT ![c] = <<>>]
  BY DEF hs_net_agent_close, Closed
<1>2. s \in Fd /\ c \in Client /\ live \subseteq Agent /\ sock \in [Fd -> Client \cup {NULL}]
  BY DEF Mapped
<1>3. \A b \in live : b # a => heap[b].socket # s /\ heap[b].socket \in Fd
  BY DEF Mapped
<1> HIDE DEF s, c
<1>4. heap' \in [Agent -> NetAgents(Fd \cup {0})]
  <2>1. hs_net_new_agent(s) \in NetAgents(Fd \cup {0})
    BY <1>2, NewAgentHolds
  <2> QED BY <1>1, <2>1 DEF Tagged
<1>5. \A b \in live' : /\ b \in live /\ heap'[b] = heap[b]
                      /\ sock'[heap'[b].socket] = sock[heap[b].socket]
  <2>1. \A b \in live' : b \in live /\ b \in Agent /\ b # a
    BY <1>1, <1>2
  <2>2. \A b \in live' : heap'[b] = heap[b]
    BY <1>1, <2>1 DEF Tagged
  <2> QED BY <1>1, <1>2, <1>3, <2>1, <2>2
<1>6. \A b \in live' :
        /\ RecvHolds(heap'[b].recv_buff, RecvLength, sock'[heap'[b].socket])
        /\ SendHolds(heap'[b].send_buff, SendLength, sock'[heap'[b].socket])
  BY <1>5 DEF Tagged
<1>7. Carries(inq') /\ Carries(outq')
  BY <1>1, <1>2, CarriesNothing DEF Tagged
<1>8. Carries(inq)' /\ Carries(outq)'
  BY <1>7 DEF Carries
<1>9. \A b \in live' :
        /\ RecvHolds(heap[b].recv_buff, RecvLength, sock[heap[b].socket])'
        /\ SendHolds(heap[b].send_buff, SendLength, sock[heap[b].socket])'
  BY <1>6 DEF RecvHolds, SendHolds, RecvBuffs, SendBuffs, Block
<1> QED BY <1>4, <1>8, <1>9 DEF Tagged

-----------------------------------------------------------------------------
(* The list of ready descriptors.                                          *)

NoneTwice(s) == \A j, k \in 1 .. Len(s) : s[j] = s[k] => j = k

LEMMA FirstRemoved ==
  ASSUME NEW S, NEW s \in Seq(S), NEW e, NoneTwice(s)
  PROVE  /\ RemoveFirst(s, e) \in Seq(S) /\ NoneTwice(RemoveFirst(s, e))
         /\ \A j \in 1 .. Len(RemoveFirst(s, e)) :
              RemoveFirst(s, e)[j] # e /\ \E k \in 1 .. Len(s) : RemoveFirst(s, e)[j] = s[k]
<1>1. CASE ~ \E j \in 1 .. Len(s) : s[j] = e
  BY <1>1 DEF RemoveFirst
<1>2. CASE \E j \in 1 .. Len(s) : s[j] = e
  <2> DEFINE I == {j \in 1 .. Len(s) : s[j] = e}
             at == SelectInSeq(s, LAMBDA v : v = e)
             t == RemoveAt(s, at)
  <2>1. I # {} /\ I \subseteq Nat
    BY <1>2
  <2>2. at = Min(I)
    BY <2>1 DEF SelectInSeq
  <2>3. Min(I) \in I
    <3>1. \E j \in I : \A k \in I : j <= k
      BY <2>1, LeastExists
    <3> QED BY <3>1 DEF Min
  <2>4. at \in 1 .. Len(s) /\ s[at] = e /\ Len(s) \in Nat
    BY <2>2, <2>3, LenProperties
  <2>5. RemoveFirst(s, e) = t
    BY <1>2 DEF RemoveFirst
  <2> HIDE DEF at
  <2>6. /\ t \in Seq(S) /\ Len(t) = Len(s) - 1
        /\ \A k \in 1 .. Len(s) - 1 : t[k] = IF k < at THEN s[k] ELSE s[k + 1]
    BY <2>4, RemovedAt
  <2> HIDE DEF t
  <2> DEFINE was(k) == IF k < at THEN k ELSE k + 1
  <2>7. \A k \in 1 .. Len(t) : was(k) \in 1 .. Len(s) /\ was(k) # at /\ t[k] = s[was(k)]
    BY <2>4, <2>6
  <2>8. \A j, k \in 1 .. Len(t) : was(j) = was(k) => j = k
    BY <2>4, <2>6
  <2> HIDE DEF was
  <2>9. NoneTwice(t)
    BY <2>7, <2>8 DEF NoneTwice
  <2>10. \A j \in 1 .. Len(t) : t[j] # e /\ \E k \in 1 .. Len(s) : t[j] = s[k]
    BY <2>4, <2>7 DEF NoneTwice
  <2> QED BY <2>5, <2>6, <2>9, <2>10
<1> QED BY <1>1, <1>2

LEMMA Appended ==
  ASSUME NEW S, NEW s \in Seq(S), NEW e \in S, NoneTwice(s),
         \A j \in 1 .. Len(s) : s[j] # e
  PROVE  /\ Append(s, e) \in Seq(S) /\ NoneTwice(Append(s, e))
         /\ \A j \in 1 .. Len(Append(s, e)) :
              Append(s, e)[j] = e \/ \E k \in 1 .. Len(s) : Append(s, e)[j] = s[k]
<1> DEFINE t == Append(s, e)
<1>1. /\ t \in Seq(S) /\ Len(t) = Len(s) + 1 /\ Len(s) \in Nat
      /\ \A j \in 1 .. Len(s) : t[j] = s[j]
      /\ t[Len(s) + 1] = e
  BY AppendProperties, LenProperties
<1> HIDE DEF t
<1>2. \A j \in 1 .. Len(t) : j \in 1 .. Len(s) \/ j = Len(s) + 1
  BY <1>1
<1>3. NoneTwice(t)
  BY <1>1, <1>2 DEF NoneTwice
<1>4. \A j \in 1 .. Len(t) : t[j] = e \/ \E k \in 1 .. Len(s) : t[j] = s[k]
  BY <1>1, <1>2
<1> QED BY <1>1, <1>3, <1>4 DEF t

(* A descriptor that has news is open.                                     *)
LEMMA WokenKeepsWaiting ==
  ASSUME Waiting, NEW fds, fds \subseteq Fd \cup {listen_socket},
         \A f \in fds : f \in Fd => sock[f] # NULL,
         ready' = Woken(fds), UNCHANGED sock, sent' \in [Client -> Nat]
  PROVE  Waiting'
<1> DEFINE new == {f \in fds : ~ Contains(ready, f)}
<1>1. CASE new = {}
  <2>1. ready' = ready
    BY <1>1 DEF Woken
  <2> QED BY <2>1 DEF Waiting
<1>2. CASE new # {}
  <2> DEFINE f == CHOOSE x \in new : TRUE
  <2>1. f \in new /\ ready' = Append(ready, f)
    BY <1>2 DEF Woken
  <2> HIDE DEF f
  <2>2. /\ f \in Fd \cup {listen_socket} /\ f \in Fd => sock[f] # NULL
        /\ \A j \in 1 .. Len(ready) : ready[j] # f
    BY <2>1 DEF Contains
  <2>3. ready \in Seq(Fd \cup {listen_socket}) /\ NoneTwice(ready)
    BY DEF Waiting, NoneTwice
  <2>4. /\ ready' \in Seq(Fd \cup {listen_socket}) /\ NoneTwice(ready')
        /\ \A j \in 1 .. Len(ready') :
             ready'[j] = f \/ \E k \in 1 .. Len(ready) : ready'[j] = ready[k]
    BY <2>1, <2>2, <2>3, Appended
  <2>5. \A j \in 1 .. Len(ready') : ready'[j] \in Fd => sock'[ready'[j]] # NULL
    BY <2>2, <2>4 DEF Waiting
  <2> QED BY <2>4, <2>5 DEF Waiting, NoneTwice
<1> QED BY <1>1, <1>2

LEMMA CloseKeepsWaiting ==
  ASSUME Mapped, Waiting, NEW a \in live, hs_net_agent_close(a)
  PROVE  Waiting'
<1> DEFINE s == heap[a].socket
           c == sock[s]
<1>1. /\ sock' = [sock EXCEPT ![s] = NULL] /\ ready' = RemoveFirst(ready, s)
      /\ sent' = [sent EXCEPT ![c] = 0]
  BY DEF hs_net_agent_close, Closed
<1>2. s \in Fd /\ sock \in [Fd -> Client \cup {NULL}]
  BY DEF Mapped
<1> HIDE DEF s, c
<1>3. ready \in Seq(Fd \cup {listen_socket}) /\ NoneTwice(ready)
  BY DEF Waiting, NoneTwice
<1>4. /\ ready' \in Seq(Fd \cup {listen_socket}) /\ NoneTwice(ready')
      /\ \A j \in 1 .. Len(ready') :
           ready'[j] # s /\ \E k \in 1 .. Len(ready) : ready'[j] = ready[k]
  BY <1>1, <1>3, FirstRemoved
<1>5. \A f \in Fd : f # s => sock'[f] = sock[f]
  BY <1>1, <1>2
<1>6. \A j \in 1 .. Len(ready') : ready'[j] \in Fd => sock'[ready'[j]] # NULL
  BY <1>4, <1>5 DEF Waiting
<1>7. sent' \in [Client -> Nat]
  BY <1>1 DEF Waiting
<1> QED BY <1>4, <1>6, <1>7 DEF Waiting, NoneTwice

(* The walk over the map closes at most the agent of the first slot.       *)
LEMMA CloseKeeps ==
  ASSUME Mapped, Paired, Tagged, Waiting, NEW a \in live, hs_net_agent_close(a)
  PROVE  Mapped' /\ Paired' /\ Tagged' /\ Waiting'
<1>1. heap \in [Agent -> NetAgents(Fd \cup {0})]
  BY DEF Tagged
<1> QED BY <1>1, CloseKeepsMapped, CloseKeepsPaired, CloseKeepsTagged, CloseKeepsWaiting

LEMMA MappedUntouched ==
  ASSUME Mapped, UNCHANGED <<agents, live, heap, sock>>
  PROVE  Mapped'
<1>1. MapOK(agents') /\ live' \subseteq Agent /\ sock' \in [Fd -> Client \cup {NULL}]
  BY DEF Mapped
<1>2. \A f \in Fd :
        IF sock'[f] = NULL THEN hs_hashmap_find(agents', f) = NULL
        ELSE /\ hs_hashmap_find(agents', f) \in live'
             /\ heap'[hs_hashmap_find(agents', f)].socket = f
  BY DEF Mapped
<1>3. \A a \in live' : /\ heap'[a].socket \in Fd /\ sock'[heap'[a].socket] # NULL
                      /\ hs_hashmap_find(agents', heap'[a].socket) = a
  BY DEF Mapped
<1> QED BY <1>1, <1>2, <1>3 DEF Mapped

LEMMA Untouched ==
  ASSUME Mapped, Paired, Tagged, Waiting,
         UNCHANGED <<memory, links, ready, queue, sent, known>>
  PROVE  Mapped' /\ Paired' /\ Tagged' /\ Waiting'
<1>1. UNCHANGED <<agents, live, heap, sock, client, inq, outq, ready, queue, sent, known>>
  BY DEF memory, links
<1>2. Mapped'
  BY <1>1, MappedUntouched
<1>3. Paired'
  BY <1>1 DEF Paired
<1>4. Tagged'
  BY <1>1 DEF Tagged, Carries, RecvHolds, SendHolds, RecvBuffs, SendBuffs, Block
<1>5. Waiting'
  BY <1>1 DEF Waiting
<1> QED BY <1>2, <1>3, <1>4, <1>5

LEMMA WalkKeepsInv == ASSUME Inv, Walk PROVE Inv'
<1> DEFINE first == hs_hashmap_iter_data(agents)
<1>1. Mapped /\ Paired /\ Tagged /\ Waiting /\ InBatch
  BY DEF Inv
<1>2. Mapped' /\ Paired' /\ Tagged' /\ Waiting'
  <2>1. CASE first = NULL
    BY <1>1, <2>1, Untouched DEF Walk
  <2>2. CASE first # NULL
    <3>1. hs_net_agent_close(first)
      BY <2>2 DEF Walk
    <3>2. PICK f \in Fd : hs_hashmap_find(agents, f) = first
      BY <1>1, <2>2, FirstIsFound DEF Mapped
    <3>3. first \in live
      BY <1>1, <2>2, <3>2 DEF Mapped
    <3> HIDE DEF first
    <3> QED BY <1>1, <3>1, <3>3, CloseKeeps
  <2> QED BY <2>1, <2>2
<1>3. pc' \in Down /\ events' = <<>> /\ agent' = NULL
  BY DEF Walk, Down
<1>4. InBatch'
  <2>1. <<>> \in Seq(Event) /\ Len(<<>>) <= agent_size
    BY Constants
  <2>2. pc' \notin {"accept", "conn"} \cup AtAgent
    BY <1>3 DEF Down, AtAgent
  <2> QED BY <1>3, <2>1, <2>2 DEF InBatch
<1> QED BY <1>2, <1>4 DEF Inv

-----------------------------------------------------------------------------
(* _accept_event: a client, a descriptor and an agent that are free are    *)
(* brought together.                                                       *)

(* Each allocated agent has a descriptor and a client of its own, so that  *)
(* with a client and a descriptor that have none there is an agent.        *)
LEMMA AnAgentIsFree ==
  ASSUME Mapped, Paired, NEW f \in Fd, sock[f] = NULL,
         NEW c \in Client, \A g \in Fd : sock[g] # c
  PROVE  \E a \in Agent : a \notin live
<1> SUFFICES ASSUME Agent \subseteq live
             PROVE  FALSE
  OBVIOUS
<1>1. /\ live = Agent /\ IsFiniteSet(Fd) /\ IsFiniteSet(Client)
      /\ \A a \in Agent : /\ heap[a].socket \in Fd \ {f}
                          /\ sock[heap[a].socket] \in Client \ {c}
  BY Constants DEF Mapped
<1>2. \A a, b \in Agent : heap[a].socket = heap[b].socket => a = b
  BY <1>1 DEF Mapped
<1>3. \A a, b \in Agent : sock[heap[a].socket] = sock[heap[b].socket] => a = b
  BY <1>1, <1>2, Constants DEF Paired
<1> DEFINE fds == [a \in Agent |-> heap[a].socket]
           clients == [a \in Agent |-> sock[heap[a].socket]]
           m == Cardinality(Fd)
           n == Cardinality(Client)
<1>4. /\ m \in Nat /\ IsFiniteSet(Fd \ {f}) /\ Cardinality(Fd \ {f}) = m - 1
      /\ n \in Nat /\ IsFiniteSet(Client \ {c}) /\ Cardinality(Client \ {c}) = n - 1
  BY <1>1, FS_CardinalityType, FS_RemoveElement
<1>5. fds \in [Agent -> Fd \ {f}] /\ clients \in [Agent -> Client \ {c}]
  BY <1>1
<1>6. /\ \A a, b \in Agent : fds[a] = fds[b] => a = b
      /\ \A a, b \in Agent : clients[a] = clients[b] => a = b
  BY <1>2, <1>3
<1> HIDE DEF fds, clients
<1>7. IsFiniteSet(Agent) /\ Cardinality(Agent) \in Nat
  <2>1. fds \in Injection(Agent, Fd \ {f})
    BY <1>5, <1>6 DEF Injection, IsInjective
  <2>2. IsFiniteSet(Agent)
    BY <1>4, <2>1, FS_Injection
  <2> QED BY <2>2, FS_CardinalityType
<1>8. Cardinality(Agent) >= Min({m, n})
  BY ServerAssumption
<1>9. Min({m, n}) \in {m, n}
  <2>1. \E x \in {m, n} : \A y \in {m, n} : x <= y
    <3> HIDE DEF m, n
    <3> QED BY <1>4
  <2> QED BY <2>1 DEF Min
<1>10. CASE Min({m, n}) = m
  <2>1. Cardinality(Fd \ {f}) < Cardinality(Agent)
    <3> HIDE DEF m, n
    <3> QED BY <1>4, <1>7, <1>8, <1>10
  <2> QED BY <1>4, <1>5, <1>6, <1>7, <2>1, FS_PigeonHole
<1>11. CASE Min({m, n}) = n
  <2>1. Cardinality(Client \ {c}) < Cardinality(Agent)
    <3> HIDE DEF m, n
    <3> QED BY <1>4, <1>7, <1>8, <1>11
  <2> QED BY <1>4, <1>5, <1>6, <1>7, <2>1, FS_PigeonHole
<1> QED BY <1>9, <1>10, <1>11

Brings(a, f) ==
  /\ sock[f] = NULL /\ sock' = [sock EXCEPT ![f] = Head(queue)]
  /\ ready' = Append(ready, f)
  /\ live' = live \cup {a}
  /\ heap' = [heap EXCEPT ![a] = hs_net_new_agent(f)]
  /\ agents' = hs_hashmap_insert(agents, f, a)
  /\ known' = known \cup {[agent |-> a, fd |-> f, client |-> Head(queue)]}
  /\ queue' = Tail(queue) /\ pc' = "conn"
  /\ UNCHANGED <<client, inq, outq, sent, events, agent>>

LEMMA AcceptBrings ==
  ASSUME Mapped, Paired, Accept
  PROVE  /\ \E a \in Agent \ live, f \in Fd : Brings(a, f)
         /\ Head(queue) \in Client /\ queue # <<>>
<1> DEFINE a == CHOOSE x \in Agent : x \notin live
           f == Min(FreeFds)
           c == Head(queue)
<1>1. f \in Fd /\ sock[f] = NULL
  <2>1. FreeFds \subseteq Nat /\ FreeFds # {}
    BY Constants DEF FreeFds, Accept
  <2>2. \E x \in FreeFds : \A y \in FreeFds : x <= y
    BY <2>1, LeastExists
  <2>3. f \in FreeFds
    BY <2>2 DEF Min
  <2> QED BY <2>3 DEF FreeFds
<1>2. c \in Client /\ \A g \in Fd : sock[g] # c
  <2>1. /\ queue \in Seq(Client) /\ queue # <<>>
        /\ \A j \in 1 .. Len(queue) : \A g \in Fd : sock[g] # queue[j]
    BY DEF Paired, Accept
  <2>2. c = queue[1] /\ 1 \in 1 .. Len(queue) /\ c \in Client
    BY <2>1, EmptySeq, HeadTailProperties
  <2> QED BY <2>1, <2>2
<1>3. a \in Agent /\ a \notin live
  <2>1. \E x \in Agent : x \notin live
    <3> HIDE DEF f, c
    <3> QED BY <1>1, <1>2, AnAgentIsFree
  <2> QED BY <2>1
<1>4. /\ sock' = [sock EXCEPT ![f] = c] /\ ready' = Append(ready, f)
      /\ live' = live \cup {a} /\ heap' = [heap EXCEPT ![a] = hs_net_new_agent(f)]
      /\ agents' = hs_hashmap_insert(agents, f, a)
      /\ queue' = Tail(queue) /\ UNCHANGED <<client, inq, outq, sent>>
      /\ Inserts(agents, f) =>
           /\ known' = known \cup {[agent |-> a, fd |-> f, client |-> c]}
           /\ pc' = "conn" /\ UNCHANGED batch
  BY DEF Accept
<1> HIDE DEF a, f
<1>5. Inserts(agents, f)
  <2>1. MapOK(agents) /\ hs_hashmap_find(agents, f) = NULL
    BY <1>1 DEF Mapped
  <2> QED BY <1>1, <1>3, <2>1, Inserted
<1>6. Brings(a, f)
  BY <1>1, <1>4, <1>5 DEF Brings, batch
<1> QED BY <1>1, <1>2, <1>3, <1>6 DEF Accept

LEMMA AcceptKeepsMapped ==
  ASSUME Mapped, Tagged, NEW a \in Agent \ live, NEW f \in Fd, Brings(a, f),
         Head(queue) \in Client
  PROVE  Mapped'
<1> DEFINE c == Head(queue)
<1>1. /\ sock[f] = NULL /\ sock' = [sock EXCEPT ![f] = c] /\ live' = live \cup {a}
      /\ heap' = [heap EXCEPT ![a] = hs_net_new_agent(f)]
      /\ agents' = hs_hashmap_insert(agents, f, a)
  BY DEF Brings
<1>2. /\ MapOK(agents) /\ hs_hashmap_find(agents, f) = NULL
      /\ live \subseteq Agent /\ sock \in [Fd -> Client \cup {NULL}]
      /\ c \in Client /\ c # NULL
  BY <1>1, Constants DEF Mapped
<1>3. /\ MapOK(agents')
      /\ \A g \in Fd : hs_hashmap_find(agents', g) =
           IF g = f THEN a ELSE hs_hashmap_find(agents, g)
  BY <1>1, <1>2, Inserted
<1> HIDE DEF c
<1>4. /\ sock' \in [Fd -> Client \cup {NULL}] /\ sock'[f] # NULL
      /\ \A g \in Fd : g # f => sock'[g] = sock[g]
  BY <1>1, <1>2
<1>5. heap'[a].socket = f /\ \A b \in live : heap'[b] = heap[b]
  <2>1. heap'[a] = hs_net_new_agent(f)
    BY <1>1 DEF Tagged
  <2>2. \A b \in live : b \in Agent /\ b # a
    BY <1>2
  <2>3. \A b \in live : heap'[b] = heap[b]
    BY <1>1, <2>2 DEF Tagged
  <2> QED BY <2>1, <2>3 DEF hs_net_new_agent
<1>6. ASSUME NEW g \in Fd
      PROVE  IF sock'[g] = NULL THEN hs_hashmap_find(agents', g) = NULL
             ELSE /\ hs_hashmap_find(agents', g) \in live'
                  /\ heap'[hs_hashmap_find(agents', g)].socket = g
  <2>1. CASE g = f
    BY <1>1, <1>3, <1>4, <1>5, <2>1
  <2>2. CASE g # f /\ sock[g] = NULL
    BY <1>3, <1>4, <2>2 DEF Mapped
  <2>3. CASE g # f /\ sock[g] # NULL
    <3>1. /\ hs_hashmap_find(agents', g) = hs_hashmap_find(agents, g)
          /\ hs_hashmap_find(agents, g) \in live
          /\ heap[hs_hashmap_find(agents, g)].socket = g
      BY <1>3, <2>3 DEF Mapped
    <3> QED BY <1>1, <1>4, <1>5, <2>3, <3>1
  <2> QED BY <2>1, <2>2, <2>3
<1>7. ASSUME NEW b \in live'
      PROVE  /\ heap'[b].socket \in Fd /\ sock'[heap'[b].socket] # NULL
             /\ hs_hashmap_find(agents', heap'[b].socket) = b
  <2>1. CASE b = a
    BY <1>3, <1>4, <1>5, <2>1
  <2>2. CASE b \in live
    <3>1. /\ heap'[b] = heap[b] /\ heap[b].socket \in Fd
          /\ sock[heap[b].socket] # NULL /\ heap[b].socket # f
          /\ hs_hashmap_find(agents, heap[b].socket) = b
      BY <1>1, <1>5, <2>2 DEF Mapped
    <3> QED BY <1>3, <1>4, <3>1
  <2> QED BY <1>1, <2>1, <2>2
<1>8. live' \subseteq Agent
  BY <1>1, <1>2
<1> QED BY <1>3, <1>4, <1>6, <1>7, <1>8 DEF Mapped

LEMMA AcceptKeepsPaired ==
  ASSUME Mapped, Paired, Tagged, NEW a \in Agent \ live, NEW f \in Fd, Brings(a, f),
         Head(queue) \in Client, queue # <<>>
  PROVE  Paired'
<1> DEFINE c == Head(queue)
<1>1. /\ sock' = [sock EXCEPT ![f] = c] /\ sock[f] = NULL /\ live' = live \cup {a}
      /\ heap' = [heap EXCEPT ![a] = hs_net_new_agent(f)]
      /\ known' = known \cup {[agent |-> a, fd |-> f, client |-> c]}
  BY DEF Brings
<1>2. /\ queue' = Tail(queue) /\ client' = client
      /\ queue \in Seq(Client) /\ Len(queue) \in Nat \ {0}
      /\ \A j \in 1 .. Len(queue) : queue[j] \in Client
      /\ queue' \in Seq(Client) /\ Len(queue') = Len(queue) - 1
      /\ \A j \in 1 .. Len(queue') : queue'[j] = queue[j + 1]
  <2>1. queue' = Tail(queue) /\ client' = client /\ queue \in Seq(Client)
    BY DEF Brings, Paired
  <2> QED BY <2>1, ElementOfSeq, HeadTailProperties, EmptySeq
<1>3. /\ c = queue[1] /\ 1 \in 1 .. Len(queue) /\ c \in Client
      /\ \A j \in 1 .. Len(queue') : j + 1 \in 1 .. Len(queue) /\ j + 1 # 1
  <2>1. c = queue[1] /\ 1 \in 1 .. Len(queue)
    BY <1>2
  <2>2. \A j \in 1 .. Len(queue') : j + 1 \in 1 .. Len(queue) /\ j + 1 # 1
    BY <1>2
  <2> QED BY <2>1, <2>2
<1>4. /\ c # NULL /\ client[c] # "away" /\ \A g \in Fd : sock[g] # c
  BY <1>3, Constants DEF Paired
<1>5. sock \in [Fd -> Client \cup {NULL}] /\ live \subseteq Agent
  BY DEF Mapped
<1> HIDE DEF c
<1>6. /\ heap'[a].socket = f
      /\ \A b \in live : /\ heap'[b] = heap[b] /\ heap[b].socket \in Fd
                         /\ heap[b].socket # f
  <2>1. heap'[a] = hs_net_new_agent(f)
    BY <1>1 DEF Tagged
  <2>2. \A b \in live : b \in Agent /\ b # a
    BY <1>5
  <2>3. \A b \in live : heap'[b] = heap[b]
    BY <1>1, <2>2 DEF Tagged
  <2>4. \A b \in live : heap[b].socket \in Fd /\ heap[b].socket # f
    BY <1>1 DEF Mapped
  <2> QED BY <2>1, <2>3, <2>4 DEF hs_net_new_agent
<1>7. sock'[f] = c /\ \A g \in Fd : g # f => sock'[g] = sock[g]
  BY <1>1, <1>5
<1>8. \A g, h \in Fd : sock'[g] = sock'[h] /\ sock'[g] # NULL => g = h
  <2>1. \A g, h \in Fd : sock[g] = sock[h] /\ sock[g] # NULL => g = h
    BY DEF Paired
  <2> QED BY <1>4, <1>7, <2>1
<1>9. \A g \in Fd : sock'[g] # NULL => client'[sock'[g]] # "away"
  <2>1. \A g \in Fd : sock[g] # NULL => client[sock[g]] # "away"
    BY DEF Paired
  <2> QED BY <1>2, <1>4, <1>7, <2>1
<1>10. \A j, k \in 1 .. Len(queue) : queue[j] = queue[k] => j = k
  BY DEF Paired
<1>11. \A j \in 1 .. Len(queue') :
         client'[queue'[j]] # "away" /\ \A g \in Fd : sock'[g] # queue'[j]
  <2>1. \A j \in 1 .. Len(queue) :
          client[queue[j]] # "away" /\ \A g \in Fd : sock[g] # queue[j]
    BY DEF Paired
  <2>2. \A j \in 1 .. Len(queue') : queue'[j] # c
    BY <1>2, <1>3, <1>10
  <2> QED BY <1>2, <1>3, <1>7, <2>1, <2>2
<1>12. \A j, k \in 1 .. Len(queue') : queue'[j] = queue'[k] => j = k
  <2>1. ASSUME NEW j \in 1 .. Len(queue'), NEW k \in 1 .. Len(queue'), queue'[j] = queue'[k]
        PROVE  j + 1 = k + 1
    BY <1>2, <1>3, <1>10, <2>1
  <2> QED BY <2>1
<1>13. known' = {[agent |-> b, fd |-> heap'[b].socket, client |-> sock'[heap'[b].socket]] :
                   b \in live'}
  <2>1. known = {[agent |-> b, fd |-> heap[b].socket, client |-> sock[heap[b].socket]] :
                   b \in live}
    BY DEF Paired
  <2> DEFINE was(b) == [agent |-> b, fd |-> heap[b].socket, client |-> sock[heap[b].socket]]
             is(b) == [agent |-> b, fd |-> heap'[b].socket, client |-> sock'[heap'[b].socket]]
  <2>2. \A b \in live : was(b) = is(b)
    BY <1>6, <1>7
  <2>3. [agent |-> a, fd |-> f, client |-> c] = is(a)
    BY <1>6, <1>7
  <2>4. known = {was(b) : b \in live}
    BY <2>1
  <2> HIDE DEF was, is
  <2>5. known' = {is(b) : b \in live'}
    BY <1>1, <2>2, <2>3, <2>4
  <2> QED BY <2>5 DEF is
<1>14. client' \in [Client -> {"away", "up", "fin", "rst"}]
  BY <1>2 DEF Paired
<1> QED BY <1>2, <1>8, <1>9, <1>11, <1>12, <1>13, <1>14 DEF Paired

(* A new agent is empty, whatever descriptor it is given.                  *)
LEMMA AcceptKeepsTagged ==
  ASSUME Mapped, Tagged, NEW a \in Agent \ live, NEW f \in Fd, Brings(a, f)
  PROVE  Tagged'
<1>1. /\ sock' = [sock EXCEPT ![f] = Head(queue)] /\ sock[f] = NULL
      /\ live' = live \cup {a} /\ heap' = [heap EXCEPT ![a] = hs_net_new_agent(f)]
  BY DEF Brings
<1>2. live \subseteq Agent /\ sock \in [Fd -> Client \cup {NULL}]
  BY DEF Mapped
<1>3. /\ heap' \in [Agent -> NetAgents(Fd \cup {0})] /\ heap'[a] = hs_net_new_agent(f)
      /\ \A b \in live : heap'[b] = heap[b]
  <2>1. hs_net_new_agent(f) \in NetAgents(Fd \cup {0})
    BY NewAgentHolds
  <2>2. \A b \in live : b \in Agent /\ b # a
    BY <1>2
  <2> QED BY <1>1, <2>1, <2>2 DEF Tagged
<1>4. \A b \in live : sock'[heap[b].socket] = sock[heap[b].socket]
  <2>1. \A b \in live : heap[b].socket \in Fd /\ heap[b].socket # f
    BY <1>1 DEF Mapped
  <2> QED BY <1>1, <1>2, <2>1
<1>5. \A b \in live' :
        /\ RecvHolds(heap'[b].recv_buff, RecvLength, sock'[heap'[b].socket])
        /\ SendHolds(heap'[b].send_buff, SendLength, sock'[heap'[b].socket])
  <2>1. /\ RecvHolds(heap'[a].recv_buff, RecvLength, sock'[heap'[a].socket])
        /\ SendHolds(heap'[a].send_buff, SendLength, sock'[heap'[a].socket])
    BY <1>3, NewAgentHolds
  <2>2. \A b \in live :
          /\ RecvHolds(heap'[b].recv_buff, RecvLength, sock'[heap'[b].socket])
          /\ SendHolds(heap'[b].send_buff, SendLength, sock'[heap'[b].socket])
    BY <1>3, <1>4 DEF Tagged
  <2> QED BY <1>1, <2>1, <2>2
<1>6. Carries(inq)' /\ Carries(outq)'
  BY DEF Brings, Tagged, Carries
<1>7. \A b \in live' :
        /\ RecvHolds(heap[b].recv_buff, RecvLength, sock[heap[b].socket])'
        /\ SendHolds(heap[b].send_buff, SendLength, sock[heap[b].socket])'
  BY <1>5 DEF RecvHolds, SendHolds, RecvBuffs, SendBuffs, Block
<1> QED BY <1>3, <1>6, <1>7 DEF Tagged

LEMMA AcceptKeepsWaiting ==
  ASSUME Mapped, Waiting, NEW a \in Agent \ live, NEW f \in Fd, Brings(a, f),
         Head(queue) \in Client
  PROVE  Waiting'
<1>1. /\ sock' = [sock EXCEPT ![f] = Head(queue)] /\ sock[f] = NULL
      /\ ready' = Append(ready, f) /\ sent' = sent
      /\ sock \in [Fd -> Client \cup {NULL}]
  BY DEF Brings, Mapped
<1>2. /\ ready \in Seq(Fd \cup {listen_socket}) /\ NoneTwice(ready)
      /\ \A j \in 1 .. Len(ready) : ready[j] # f
  BY <1>1 DEF Waiting, NoneTwice
<1>3. /\ ready' \in Seq(Fd \cup {listen_socket}) /\ NoneTwice(ready')
      /\ \A j \in 1 .. Len(ready') :
           ready'[j] = f \/ \E k \in 1 .. Len(ready) : ready'[j] = ready[k]
  BY <1>1, <1>2, Appended
<1>4. sock'[f] # NULL /\ \A g \in Fd : g # f => sock'[g] = sock[g]
  BY <1>1, Constants
<1>5. ASSUME NEW j \in 1 .. Len(ready'), ready'[j] \in Fd
      PROVE  sock'[ready'[j]] # NULL
  <2>1. CASE ready'[j] = f
    BY <1>4, <2>1
  <2>2. CASE ready'[j] # f
    <3>1. PICK k \in 1 .. Len(ready) : ready'[j] = ready[k]
      BY <1>3, <2>2
    <3>2. sock[ready[k]] # NULL
      BY <1>5, <3>1 DEF Waiting
    <3> QED BY <1>4, <1>5, <2>2, <3>1, <3>2
  <2> QED BY <2>1, <2>2
<1> QED BY <1>1, <1>3, <1>5 DEF Waiting, NoneTwice

LEMMA AcceptKeepsInv ==
  ASSUME Inv, Accept
  PROVE  Inv'
<1>1. Mapped /\ Paired /\ Tagged /\ Waiting /\ InBatch
  BY DEF Inv
<1>2. Head(queue) \in Client /\ queue # <<>>
  BY <1>1, AcceptBrings
<1>3. PICK a \in Agent \ live, f \in Fd : Brings(a, f)
  BY <1>1, AcceptBrings
<1>4. Mapped'
  BY <1>1, <1>2, <1>3, AcceptKeepsMapped
<1>5. Paired'
  BY <1>1, <1>2, <1>3, AcceptKeepsPaired
<1>6. Tagged'
  BY <1>1, <1>3, AcceptKeepsTagged
<1>7. Waiting'
  BY <1>1, <1>2, <1>3, AcceptKeepsWaiting
<1>8. InBatch'
  <2>1. pc = "accept" /\ pc' = "conn" /\ events' = events /\ agent' = agent
    BY <1>3 DEF Accept, Brings
  <2> QED BY <1>1, <2>1 DEF InBatch, AtAgent
<1> QED BY <1>4, <1>5, <1>6, <1>7, <1>8 DEF Inv

-----------------------------------------------------------------------------
(* The buffers of one agent change, and with them what the kernel has.     *)

LEMMA AgentHolds ==
  ASSUME Mapped, Tagged, NEW a \in live
  PROVE  /\ a \in Agent /\ heap[a] \in NetAgents(Fd \cup {0})
         /\ heap[a].socket \in Fd /\ sock[heap[a].socket] \in Client
         /\ RecvHolds(heap[a].recv_buff, RecvLength, sock[heap[a].socket])
         /\ SendHolds(heap[a].send_buff, SendLength, sock[heap[a].socket])
<1>1. /\ a \in Agent /\ heap[a].socket \in Fd /\ sock[heap[a].socket] # NULL
      /\ sock \in [Fd -> Client \cup {NULL}]
  BY DEF Mapped
<1> QED BY <1>1 DEF Tagged

LEMMA TaggedUntouched ==
  ASSUME Tagged, UNCHANGED <<live, heap, sock>>, Carries(inq'), Carries(outq')
  PROVE  Tagged'
<1>1. Carries(inq)' /\ Carries(outq)'
  BY DEF Carries
<1> QED BY <1>1 DEF Tagged

LEMMA BuffersKeepTagged ==
  ASSUME Mapped, Tagged, NEW a \in live, NEW x \in NetAgents(Fd \cup {0}),
         heap' = [heap EXCEPT ![a] = x], x.socket = heap[a].socket,
         RecvHolds(x.recv_buff, RecvLength, sock[x.socket]),
         SendHolds(x.send_buff, SendLength, sock[x.socket]),
         UNCHANGED <<live, sock>>, Carries(inq'), Carries(outq')
  PROVE  Tagged'
<1>1. Carries(inq)' /\ Carries(outq)'
  BY DEF Carries
<1>2. live \subseteq Agent
  BY DEF Mapped
<1>3. /\ heap' \in [Agent -> NetAgents(Fd \cup {0})] /\ heap'[a] = x
      /\ \A b \in live : b # a => heap'[b] = heap[b]
  BY <1>2 DEF Tagged
<1>4. \A b \in live' :
        /\ RecvHolds(heap'[b].recv_buff, RecvLength, sock'[heap'[b].socket])
        /\ SendHolds(heap'[b].send_buff, SendLength, sock'[heap'[b].socket])
  BY <1>3 DEF Tagged
<1>5. \A b \in live' :
        /\ RecvHolds(heap[b].recv_buff, RecvLength, sock[heap[b].socket])'
        /\ SendHolds(heap[b].send_buff, SendLength, sock[heap[b].socket])'
  BY <1>4 DEF RecvHolds, SendHolds, RecvBuffs, SendBuffs, Block
<1> QED BY <1>1, <1>3, <1>5 DEF Tagged

(* The sockets of the agents stay, and what the map has.                   *)
LEMMA BuffersKeepMapped ==
  ASSUME Mapped, Paired, Tagged, NEW a \in live, NEW x,
         heap' = [heap EXCEPT ![a] = x], x.socket = heap[a].socket,
         UNCHANGED <<agents, live, sock, queue, client, known>>
  PROVE  Mapped' /\ Paired'
<1>1. \A b \in live : heap'[b].socket = heap[b].socket
  BY DEF Tagged, Mapped
<1>2. Mapped'
  <2>1. MapOK(agents') /\ live' \subseteq Agent /\ sock' \in [Fd -> Client \cup {NULL}]
    BY DEF Mapped
  <2>2. \A f \in Fd :
          IF sock'[f] = NULL THEN hs_hashmap_find(agents', f) = NULL
          ELSE /\ hs_hashmap_find(agents', f) \in live'
               /\ heap'[hs_hashmap_find(agents', f)].socket = f
    BY <1>1 DEF Mapped
  <2>3. \A b \in live' : /\ heap'[b].socket \in Fd /\ sock'[heap'[b].socket] # NULL
                        /\ hs_hashmap_find(agents', heap'[b].socket) = b
    BY <1>1 DEF Mapped
  <2> QED BY <2>1, <2>2, <2>3 DEF Mapped
<1>3. Paired'
  <2> DEFINE was(b) == [agent |-> b, fd |-> heap[b].socket, client |-> sock[heap[b].socket]]
             is(b) == [agent |-> b, fd |-> heap'[b].socket, client |-> sock'[heap'[b].socket]]
  <2>1. \A b \in live : was(b) = is(b)
    BY <1>1
  <2>2. known = {was(b) : b \in live}
    BY DEF Paired
  <2> HIDE DEF was, is
  <2>3. known' = {is(b) : b \in live'}
    BY <2>1, <2>2
  <2>4. known' = {[agent |-> b, fd |-> heap'[b].socket, client |-> sock'[heap'[b].socket]] :
                    b \in live'}
    BY <2>3 DEF is
  <2> QED BY <2>4 DEF Paired
<1> QED BY <1>2, <1>3

LEMMA RecvKeeps ==
  ASSUME Mapped, Paired, Tagged, InBatch, Recv
  PROVE  Mapped' /\ Paired' /\ Tagged'
<1> DEFINE c == sock[heap[agent].socket]
           n == Min({Len(inq[c]), hs_recvbuff_leftwrite(heap[agent].recv_buff)})
           got == SubSeq(inq[c], 1, n)
           rest == SubSeq(inq[c], n + 1, Len(inq[c]))
           buff == Received(heap[agent].recv_buff, got)
           x == [heap[agent] EXCEPT !.recv_buff = buff]
<1>1. agent \in live
  BY AgentIsLive DEF Recv, AtAgent
<1>2. /\ agent \in Agent /\ heap[agent] \in NetAgents(Fd \cup {0})
      /\ heap[agent].socket \in Fd /\ c \in Client
      /\ RecvHolds(heap[agent].recv_buff, RecvLength, c)
      /\ SendHolds(heap[agent].send_buff, SendLength, c)
  BY <1>1, AgentHolds
<1>3. /\ UNCHANGED <<agents, live, sock, queue, client, known, outq>> /\ Carries(outq')
      /\ Carries(inq) /\ heap \in [Agent -> NetAgents(Fd \cup {0})]
  BY DEF Recv, Tagged
<1>4. /\ inq[c] \in Seq(Byte) /\ Len(inq[c]) <= KernelRoom /\ Len(inq[c]) \in Nat
      /\ \A j \in 1 .. Len(inq[c]) : inq[c][j] = c
  BY <1>2, <1>3, LenProperties DEF Carries
<1>5. heap' = [heap EXCEPT ![agent] = x] /\ inq' = [inq EXCEPT ![c] = rest]
  BY <1>2, <1>3 DEF Recv, Peer, recv_buff, Carries
<1>6. n \in 0 .. Len(inq[c]) /\ n <= hs_recvbuff_leftwrite(heap[agent].recv_buff)
  <2> DEFINE l == Len(inq[c])
             r == hs_recvbuff_leftwrite(heap[agent].recv_buff)
  <2>1. r \in Nat
    BY <1>2, NetAgentAssumption DEF RecvHolds, RecvBuffs, hs_recvbuff_leftwrite
  <2>2. l \in Nat
    BY <1>4
  <2> HIDE DEF l, r
  <2>3. \E y \in {l, r} : \A z \in {l, r} : y <= z
    BY <2>1, <2>2
  <2>4. Min({l, r}) \in {l, r} /\ Min({l, r}) <= l /\ Min({l, r}) <= r
    BY <2>3 DEF Min
  <2>5. Min({l, r}) \in 0 .. l /\ Min({l, r}) <= r
    BY <2>1, <2>2, <2>4
  <2> QED BY <2>5 DEF l, r
<1> HIDE DEF n
<1>7. /\ got \in Seq(Byte) /\ Len(got) = n /\ \A j \in 1 .. n : got[j] = c
      /\ rest \in Seq(Byte) /\ Len(rest) = Len(inq[c]) - n
      /\ \A j \in 1 .. Len(inq[c]) - n : rest[j] = c
  <2> DEFINE q == inq[c]
  <2>1. q \in Seq(Byte) /\ n \in 0 .. Len(q) /\ \A j \in 1 .. Len(q) : q[j] = c
    BY <1>4, <1>6
  <2> HIDE DEF q, c
  <2>2. /\ SubSeq(q, 1, n) \in Seq(Byte) /\ Len(SubSeq(q, 1, n)) = n
        /\ \A j \in 1 .. n : SubSeq(q, 1, n)[j] = c
        /\ SubSeq(q, n + 1, Len(q)) \in Seq(Byte)
        /\ Len(SubSeq(q, n + 1, Len(q))) = Len(q) - n
        /\ \A j \in 1 .. Len(q) - n : SubSeq(q, n + 1, Len(q))[j] = c
    BY <2>1, CutOnly
  <2> QED BY <2>2 DEF q, c
<1> HIDE DEF got, rest
<1>8. RecvHolds(buff, RecvLength, c)
  <2>1. RecvLength \in Nat /\ Len(got) <= hs_recvbuff_leftwrite(heap[agent].recv_buff)
    BY <1>6, <1>7, NetAgentAssumption
  <2> QED BY <1>2, <1>7, <2>1, ReceivedHolds
<1> HIDE DEF buff
<1>9. /\ x \in NetAgents(Fd \cup {0}) /\ x.socket = heap[agent].socket
      /\ x.recv_buff = buff /\ x.send_buff = heap[agent].send_buff
  BY <1>2, <1>8 DEF NetAgents, RecvHolds
<1> HIDE DEF x
<1>10. Carries(inq')
  <2>1. Len(rest) <= KernelRoom /\ KernelRoom \in Nat
    BY <1>4, <1>6, <1>7, Constants
  <2> QED BY <1>2, <1>3, <1>5, <1>7, <2>1, CarriesWith
<1>11. Tagged'
  BY <1>1, <1>2, <1>3, <1>5, <1>8, <1>9, <1>10, BuffersKeepTagged
<1>12. Mapped' /\ Paired'
  BY <1>1, <1>3, <1>5, <1>9, BuffersKeepMapped
<1> QED BY <1>11, <1>12

LEMMA HandlerReturnsKeeps ==
  ASSUME Mapped, Paired, Tagged, InBatch, HandlerReturns
  PROVE  Mapped' /\ Paired' /\ Tagged'
<1> DEFINE c == sock[heap[agent].socket]
<1>1. agent \in live
  BY AgentIsLive DEF HandlerReturns, AtAgent
<1>2. /\ agent \in Agent /\ heap[agent] \in NetAgents(Fd \cup {0})
      /\ RecvHolds(heap[agent].recv_buff, RecvLength, c)
      /\ SendHolds(heap[agent].send_buff, SendLength, c)
  BY <1>1, AgentHolds
<1>3. /\ UNCHANGED <<agents, live, sock, queue, client, known>>
      /\ Carries(inq') /\ Carries(outq') /\ heap \in [Agent -> NetAgents(Fd \cup {0})]
  BY DEF HandlerReturns, links, Tagged
<1>4. PICK n \in 0 .. hs_recvbuff_leftread(recv_buff) :
        heap' = [heap EXCEPT ![agent].recv_buff = Handled(@, n)]
  BY DEF HandlerReturns
<1> DEFINE buff == Handled(heap[agent].recv_buff, n)
           x == [heap[agent] EXCEPT !.recv_buff = buff]
<1>5. heap' = [heap EXCEPT ![agent] = x]
  BY <1>2, <1>3, <1>4
<1>6. RecvHolds(buff, RecvLength, c)
  <2>1. RecvLength \in Nat /\ n \in 0 .. hs_recvbuff_leftread(heap[agent].recv_buff)
    BY NetAgentAssumption DEF recv_buff
  <2> QED BY <1>2, <2>1, HandledHolds
<1> HIDE DEF buff
<1>7. /\ x \in NetAgents(Fd \cup {0}) /\ x.socket = heap[agent].socket
      /\ x.recv_buff = buff /\ x.send_buff = heap[agent].send_buff
  BY <1>2, <1>6 DEF NetAgents, RecvHolds
<1> HIDE DEF x
<1>8. Tagged'
  BY <1>1, <1>2, <1>3, <1>5, <1>6, <1>7, BuffersKeepTagged
<1>9. Mapped' /\ Paired'
  BY <1>1, <1>3, <1>5, <1>7, BuffersKeepMapped
<1> QED BY <1>8, <1>9

LEMMA SendKeeps ==
  ASSUME Mapped, Paired, Tagged, InBatch, Send
  PROVE  Mapped' /\ Paired' /\ Tagged'
<1> DEFINE c == sock[heap[agent].socket]
           hs == heap[agent].send_buff
           room == KernelRoom - Len(outq[c])
           s == Min({CanSend(hs), room})
           all == Unsent(hs)
           put == SubSeq(all, 1, s)
           out == outq[c] \o put
           buff == Sent(hs, s)
           x == [heap[agent] EXCEPT !.send_buff = buff]
<1>1. agent \in live
  BY AgentIsLive DEF Send, AtAgent
<1>2. /\ agent \in Agent /\ heap[agent] \in NetAgents(Fd \cup {0}) /\ c \in Client
      /\ RecvHolds(heap[agent].recv_buff, RecvLength, c)
      /\ SendHolds(hs, SendLength, c)
  BY <1>1, AgentHolds
<1>3. /\ UNCHANGED <<agents, live, sock, queue, client, known>> /\ Carries(inq')
      /\ Carries(outq) /\ heap \in [Agent -> NetAgents(Fd \cup {0})]
  BY DEF Send, Tagged
<1>4. heap' = [heap EXCEPT ![agent] = x] /\ outq' = [outq EXCEPT ![c] = out]
  BY <1>2, <1>3 DEF Send, Peer, Room, send_buff, Carries
<1>5. /\ outq[c] \in Seq(Byte) /\ Len(outq[c]) \in Nat /\ Len(outq[c]) <= KernelRoom
      /\ \A j \in 1 .. Len(outq[c]) : outq[c][j] = c
  BY <1>2, <1>3, LenProperties DEF Carries
<1>6. CanSend(hs) \in Nat /\ s \in 0 .. CanSend(hs) /\ s <= room
  <2> DEFINE m == CanSend(hs)
  <2>1. m \in Nat
    BY <1>2 DEF SendHolds, SendBuffs, CanSend
  <2>2. room \in Nat
    BY <1>5, Constants
  <2> HIDE DEF m, room
  <2>3. \E y \in {m, room} : \A z \in {m, room} : y <= z
    BY <2>1, <2>2
  <2>4. Min({m, room}) \in {m, room} /\ Min({m, room}) <= m /\ Min({m, room}) <= room
    BY <2>3 DEF Min
  <2>5. Min({m, room}) \in 0 .. m /\ Min({m, room}) <= room
    BY <2>1, <2>2, <2>4
  <2> QED BY <2>1, <2>5 DEF m
<1> HIDE DEF s
<1>7. all \in Seq(Byte) /\ Len(all) = CanSend(hs) /\ \A j \in 1 .. Len(all) : all[j] = c
  <2> DEFINE m == CanSend(hs)
  <2>1. DOMAIN all = 1 .. m /\ m \in Nat /\ \A j \in 1 .. m : all[j] = c
    <3>1. SendLength \in Nat
      BY NetAgentAssumption
    <3>2. \A j \in DOMAIN all : all[j] = c
      BY <1>2, <3>1, UnsentHolds
    <3> QED BY <1>6, <3>2 DEF Unsent, BytesAt
  <2>2. c \in Byte
    BY <1>2, Constants
  <2>3. all = [j \in 1 .. m |-> all[j]]
    BY DEF Unsent, BytesAt
  <2> HIDE DEF all, m
  <2>4. all \in Seq(Byte) /\ Len(all) = m
    BY <2>1, <2>2, <2>3, IsASeq
  <2> QED BY <2>1, <2>4 DEF m
<1> HIDE DEF all
<1>8. put \in Seq(Byte) /\ Len(put) = s /\ \A j \in 1 .. s : put[j] = c
  <2>1. s \in 0 .. Len(all)
    BY <1>6, <1>7
  <2> QED BY <1>7, <2>1, CutOnly
<1> HIDE DEF put
<1>9. /\ out \in Seq(Byte) /\ Len(out) = Len(outq[c]) + s
      /\ \A j \in 1 .. Len(out) : out[j] = c
  <2>1. /\ out \in Seq(Byte) /\ Len(out) = Len(outq[c]) + Len(put)
        /\ \A j \in 1 .. Len(outq[c]) + Len(put) :
             out[j] = IF j <= Len(outq[c]) THEN outq[c][j] ELSE put[j - Len(outq[c])]
    BY <1>5, <1>8, ConcatProperties
  <2>2. ASSUME NEW j \in 1 .. Len(outq[c]) + s
        PROVE  out[j] = c
    <3>1. CASE j <= Len(outq[c])
      BY <1>5, <1>8, <2>1, <3>1
    <3>2. CASE ~(j <= Len(outq[c]))
      <4>1. j - Len(outq[c]) \in 1 .. s
        BY <1>5, <1>6, <3>2
      <4> QED BY <1>8, <2>1, <3>2, <4>1
    <3> QED BY <3>1, <3>2
  <2> QED BY <1>8, <2>1, <2>2
<1>10. SendHolds(buff, SendLength, c)
  <2>1. SendLength \in Nat
    BY NetAgentAssumption
  <2> QED BY <1>2, <1>6, <2>1, SentHolds
<1> HIDE DEF buff
<1>11. /\ x \in NetAgents(Fd \cup {0}) /\ x.socket = heap[agent].socket
       /\ x.send_buff = buff /\ x.recv_buff = heap[agent].recv_buff
  BY <1>2, <1>10 DEF NetAgents, SendHolds
<1> HIDE DEF x, out
<1>12. Carries(outq')
  <2>1. Len(out) <= KernelRoom
    BY <1>5, <1>6, <1>9, Constants
  <2> QED BY <1>2, <1>3, <1>4, <1>9, <2>1, CarriesWith
<1>13. Tagged'
  BY <1>1, <1>2, <1>3, <1>4, <1>10, <1>11, <1>12, BuffersKeepTagged
<1>14. Mapped' /\ Paired'
  BY <1>1, <1>3, <1>4, <1>11, BuffersKeepMapped
<1> QED BY <1>13, <1>14

(* What the application knows of an agent is true, so what it writes for a *)
(* client goes into the buffer of that client's agent.                     *)
LEMMA AppWritesKeeps ==
  ASSUME Mapped, Paired, Tagged, AppWrites
  PROVE  Mapped' /\ Paired' /\ Tagged'
<1>1. PICK k \in known :
        heap' = [heap EXCEPT ![k.agent] = hs_net_agent_write(@, <<k.client>>)]
  BY DEF AppWrites
<1>2. /\ UNCHANGED <<agents, live, sock, queue, client, known>>
      /\ Carries(inq') /\ Carries(outq') /\ heap \in [Agent -> NetAgents(Fd \cup {0})]
  BY DEF AppWrites, links, Tagged
<1>3. PICK a \in live : k = [agent |-> a, fd |-> heap[a].socket, client |-> sock[heap[a].socket]]
  BY <1>1 DEF Paired
<1> DEFINE c == sock[heap[a].socket]
           buff == hs_sendbuff_write(heap[a].send_buff, <<c>>)
           x == [heap[a] EXCEPT !.send_buff = buff]
<1>4. /\ a \in Agent /\ heap[a] \in NetAgents(Fd \cup {0}) /\ c \in Client
      /\ RecvHolds(heap[a].recv_buff, RecvLength, c)
      /\ SendHolds(heap[a].send_buff, SendLength, c)
  BY AgentHolds
<1>5. heap' = [heap EXCEPT ![a] = x]
  BY <1>1, <1>2, <1>3, <1>4 DEF hs_net_agent_write
<1>6. SendHolds(buff, SendLength, c)
  <2> DEFINE data == <<c>>
  <2>1. SendLength \in Nat /\ data \in Seq(Byte) /\ \A j \in 1 .. Len(data) : data[j] = c
    BY <1>4, NetAgentAssumption, Constants
  <2> HIDE DEF data
  <2>2. SendHolds(hs_sendbuff_write(heap[a].send_buff, data), SendLength, c)
    BY <1>4, <2>1, WrittenHolds
  <2> QED BY <2>2 DEF data
<1> HIDE DEF buff
<1>7. /\ x \in NetAgents(Fd \cup {0}) /\ x.socket = heap[a].socket
      /\ x.send_buff = buff /\ x.recv_buff = heap[a].recv_buff
  BY <1>4, <1>6 DEF NetAgents, SendHolds
<1> HIDE DEF x
<1>8. Tagged'
  BY <1>2, <1>4, <1>5, <1>6, <1>7, BuffersKeepTagged
<1>9. Mapped' /\ Paired'
  BY <1>2, <1>5, <1>7, BuffersKeepMapped
<1> QED BY <1>8, <1>9

-----------------------------------------------------------------------------
(* The clients.                                                            *)

LEMMA EndsKeepPaired ==
  ASSUME Mapped, Paired, NEW c \in Client, client[c] # "away",
         NEW state \in {"fin", "rst"}, client' = [client EXCEPT ![c] = state],
         UNCHANGED <<live, heap, sock, queue, known>>
  PROVE  Paired'
<1>1. /\ client' \in [Client -> {"away", "up", "fin", "rst"}]
      /\ \A d \in Client : client[d] # "away" => client'[d] # "away"
  BY DEF Paired
<1>2. \A f \in Fd : sock'[f] # NULL => client'[sock'[f]] # "away"
  BY <1>1 DEF Mapped, Paired
<1>3. \A j \in 1 .. Len(queue) : queue[j] \in Client
  BY ElementOfSeq DEF Paired
<1>4. \A j \in 1 .. Len(queue') :
        client'[queue'[j]] # "away" /\ \A f \in Fd : sock'[f] # queue'[j]
  BY <1>1, <1>3 DEF Paired
<1> QED BY <1>1, <1>2, <1>4 DEF Paired

LEMMA ConnectsKeepsPaired ==
  ASSUME Mapped, Paired, NEW c \in Client, ClientConnects(c)
  PROVE  Paired'
<1>1. /\ client[c] = "away" /\ client' = [client EXCEPT ![c] = "up"]
      /\ queue' = Append(queue, c) /\ UNCHANGED <<live, heap, sock, known>>
  BY DEF ClientConnects, memory
<1>2. /\ client \in [Client -> {"away", "up", "fin", "rst"}] /\ queue \in Seq(Client)
      /\ Len(queue) \in Nat /\ sock \in [Fd -> Client \cup {NULL}]
      /\ \A f \in Fd : sock[f] # NULL => client[sock[f]] # "away"
      /\ \A j \in 1 .. Len(queue) :
           client[queue[j]] # "away" /\ \A f \in Fd : sock[f] # queue[j]
      /\ \A j, k \in 1 .. Len(queue) : queue[j] = queue[k] => j = k
      /\ \A j \in 1 .. Len(queue) : queue[j] \in Client
  BY LenProperties, ElementOfSeq DEF Mapped, Paired
<1>3. /\ queue' \in Seq(Client) /\ Len(queue') = Len(queue) + 1
      /\ \A j \in 1 .. Len(queue) : queue'[j] = queue[j]
      /\ queue'[Len(queue) + 1] = c
      /\ \A j \in 1 .. Len(queue) + 1 : j \in 1 .. Len(queue) \/ j = Len(queue) + 1
  BY <1>1, <1>2, AppendProperties
<1>4. /\ client' \in [Client -> {"away", "up", "fin", "rst"}] /\ client'[c] = "up"
      /\ \A d \in Client : client[d] # "away" => client'[d] # "away"
  BY <1>1, <1>2
<1>5. c # NULL /\ \A f \in Fd : sock[f] # c
  BY <1>1, <1>2, Constants
<1>6. \A j \in 1 .. Len(queue) : queue[j] # c
  BY <1>1, <1>2
<1>7. \A f \in Fd : sock'[f] # NULL => client'[sock'[f]] # "away"
  BY <1>1, <1>2, <1>4
<1>8. \A j \in 1 .. Len(queue') :
        client'[queue'[j]] # "away" /\ \A f \in Fd : sock'[f] # queue'[j]
  BY <1>1, <1>2, <1>3, <1>4, <1>5
<1>9. \A j, k \in 1 .. Len(queue') : queue'[j] = queue'[k] => j = k
  BY <1>2, <1>3, <1>6
<1> QED BY <1>1, <1>3, <1>4, <1>7, <1>8, <1>9 DEF Paired

LEMMA ClientKeepsTagged ==
  ASSUME Tagged, NEW c \in Client,
         \/ ClientConnects(c) \/ ClientSends(c) \/ ClientReads(c)
         \/ ClientCloses(c) \/ ClientResets(c)
  PROVE  Tagged'
<1>1. /\ UNCHANGED <<live, heap, sock>> /\ Carries(inq) /\ Carries(outq)
      /\ KernelRoom \in Nat
  BY Constants
    DEF ClientConnects, ClientSends, ClientReads, ClientCloses, ClientResets, memory, Tagged
<1>2. CASE UNCHANGED <<inq, outq>>
  <2>1. Carries(inq') /\ Carries(outq')
    BY <1>1, <1>2
  <2> QED BY <1>1, <2>1, TaggedUntouched
<1>3. CASE ClientSends(c)
  <2> DEFINE s == Append(inq[c], c)
  <2>1. /\ inq' = [inq EXCEPT ![c] = s] /\ outq' = outq /\ Len(inq[c]) < KernelRoom
    BY <1>1, <1>3 DEF ClientSends, Carries
  <2>2. /\ inq[c] \in Seq(Byte) /\ c \in Byte /\ Len(inq[c]) \in Nat
        /\ \A j \in 1 .. Len(inq[c]) : inq[c][j] = c
    BY <1>1, Constants, LenProperties DEF Carries
  <2>3. s \in Seq(Byte) /\ Len(s) = Len(inq[c]) + 1 /\ \A j \in 1 .. Len(inq[c]) + 1 : s[j] = c
    BY <2>2, AppendOnly
  <2> HIDE DEF s
  <2>4. Len(s) <= KernelRoom
    BY <1>1, <2>1, <2>2, <2>3
  <2>5. Carries(inq')
    BY <1>1, <2>1, <2>3, <2>4, CarriesWith
  <2>6. Carries(outq')
    BY <1>1, <2>1
  <2> QED BY <1>1, <2>5, <2>6, TaggedUntouched
<1>4. CASE ClientReads(c)
  <2> DEFINE s == Tail(outq[c])
  <2>1. outq' = [outq EXCEPT ![c] = s] /\ inq' = inq /\ outq[c] # <<>>
    BY <1>1, <1>4 DEF ClientReads, Carries
  <2>2. /\ outq[c] \in Seq(Byte) /\ Len(outq[c]) <= KernelRoom
        /\ \A j \in 1 .. Len(outq[c]) : outq[c][j] = c
    BY <1>1 DEF Carries
  <2>3. /\ s \in Seq(Byte) /\ Len(s) = Len(outq[c]) - 1 /\ Len(outq[c]) \in Nat \ {0}
        /\ \A j \in 1 .. Len(s) : s[j] = outq[c][j + 1]
    BY <2>1, <2>2, HeadTailProperties, EmptySeq
  <2> HIDE DEF s
  <2>4. \A j \in 1 .. Len(s) : j + 1 \in 1 .. Len(outq[c])
    BY <2>3
  <2>5. Len(s) <= KernelRoom /\ \A j \in 1 .. Len(s) : s[j] = c
    BY <1>1, <2>2, <2>3, <2>4
  <2>6. Carries(outq')
    BY <1>1, <2>1, <2>3, <2>5, CarriesWith
  <2>7. Carries(inq')
    BY <1>1, <2>1
  <2> QED BY <1>1, <2>6, <2>7, TaggedUntouched
<1>5. CASE ClientResets(c)
  <2>1. outq' = [outq EXCEPT ![c] = <<>>] /\ inq' = inq
    BY <1>5 DEF ClientResets
  <2>2. Carries(outq') /\ Carries(inq')
    BY <1>1, <2>1, CarriesNothing
  <2> QED BY <1>1, <2>2, TaggedUntouched
<1>6. ClientConnects(c) \/ ClientCloses(c) => UNCHANGED <<inq, outq>>
  BY DEF ClientConnects, ClientCloses
<1> QED BY <1>2, <1>3, <1>4, <1>5, <1>6

LEMMA ClientKeepsWaiting ==
  ASSUME Waiting, NEW c \in Client,
         \/ ClientConnects(c) \/ ClientSends(c) \/ ClientReads(c)
         \/ ClientCloses(c) \/ ClientResets(c)
  PROVE  Waiting'
<1>1. sock' = sock /\ sent' \in [Client -> Nat]
  <2>1. sent \in [Client -> Nat]
    BY DEF Waiting
  <2>2. CASE ClientSends(c)
    BY <2>1, <2>2 DEF ClientSends
  <2>3. CASE ~ ClientSends(c)
    BY <2>1, <2>3 DEF ClientConnects, ClientReads, ClientCloses, ClientResets
  <2> QED BY <2>2, <2>3
<1>2. CASE ready' = ready
  BY <1>1, <1>2 DEF Waiting
<1>3. CASE ready' = Woken({listen_socket})
  <2>1. {listen_socket} \subseteq Fd \cup {listen_socket} /\ listen_socket \notin Fd
    BY MapSizeIsPositive
  <2> QED BY <1>1, <1>3, <2>1, WokenKeepsWaiting
<1>4. CASE ready' = Woken(FdsOf(c))
  <2>1. FdsOf(c) \subseteq Fd \cup {listen_socket} /\ \A f \in FdsOf(c) : sock[f] # NULL
    BY Constants DEF FdsOf
  <2> QED BY <1>1, <1>4, <2>1, WokenKeepsWaiting
<1> QED BY <1>2, <1>3, <1>4
      DEF ClientConnects, ClientSends, ClientReads, ClientCloses, ClientResets

LEMMA ClientKeepsInv ==
  ASSUME Inv, NEW c \in Client,
         \/ ClientConnects(c) \/ ClientSends(c) \/ ClientReads(c)
         \/ ClientCloses(c) \/ ClientResets(c)
  PROVE  Inv'
<1>1. Mapped /\ Paired /\ Tagged /\ Waiting /\ InBatch
  BY DEF Inv
<1>2. UNCHANGED <<agents, live, heap, sock, known, events, agent, pc>>
  BY DEF ClientConnects, ClientSends, ClientReads, ClientCloses, ClientResets, memory, batch
<1>3. Mapped'
  BY <1>1, <1>2, MappedUntouched
<1>4. Paired'
  <2>1. CASE ClientConnects(c)
    BY <1>1, <2>1, ConnectsKeepsPaired
  <2>2. CASE ClientCloses(c)
    <3>1. /\ client[c] # "away" /\ client' = [client EXCEPT ![c] = "fin"] /\ queue' = queue
      BY <2>2 DEF ClientCloses
    <3> QED BY <1>1, <1>2, <3>1, EndsKeepPaired
  <2>3. CASE ClientResets(c)
    <3>1. /\ client[c] # "away" /\ client' = [client EXCEPT ![c] = "rst"] /\ queue' = queue
      BY <2>3 DEF ClientResets
    <3> QED BY <1>1, <1>2, <3>1, EndsKeepPaired
  <2>4. CASE UNCHANGED <<client, queue>>
    BY <1>1, <1>2, <2>4 DEF Paired
  <2> QED BY <2>1, <2>2, <2>3, <2>4 DEF ClientSends, ClientReads
<1>5. Tagged'
  BY <1>1, ClientKeepsTagged
<1>6. Waiting'
  BY <1>1, ClientKeepsWaiting
<1>7. InBatch'
  BY <1>1, <1>2 DEF InBatch
<1> QED BY <1>3, <1>4, <1>5, <1>6, <1>7 DEF Inv

-----------------------------------------------------------------------------
(* epoll_wait takes descriptors from the front of the list, or all.        *)

LEMMA RestOf ==
  ASSUME NEW S, NEW s \in Seq(S), NEW m \in 0 .. Len(s)
  PROVE  LET t == SubSeq(s, m + 1, Len(s))
         IN  /\ t \in Seq(S) /\ Len(t) = Len(s) - m
             /\ \A k \in m + 1 .. Len(s) : k - m \in 1 .. Len(t) /\ t[k - m] = s[k]
<1> DEFINE t == SubSeq(s, m + 1, Len(s))
<1>1. Len(s) \in Nat /\ \A k \in 1 .. Len(s) : s[k] \in S
  BY LenProperties, ElementOfSeq
<1>2. \A k \in m + 1 .. Len(s) : s[k] \in S
  BY <1>1
<1>3. /\ t \in Seq(S)
      /\ Len(t) = IF m + 1 <= Len(s) THEN Len(s) - (m + 1) + 1 ELSE 0
      /\ \A k \in 1 .. Len(s) - (m + 1) + 1 : t[k] = s[m + 1 + k - 1]
  BY <1>1, <1>2, SubSeqProperties
<1> HIDE DEF t
<1>4. Len(t) = Len(s) - m
  BY <1>1, <1>3
<1>5. ASSUME NEW k \in m + 1 .. Len(s)
      PROVE  k - m \in 1 .. Len(t) /\ t[k - m] = s[k]
  <2>1. k - m \in 1 .. Len(s) - (m + 1) + 1 /\ m + 1 + (k - m) - 1 = k
    BY <1>1
  <2>2. t[k - m] = s[m + 1 + (k - m) - 1]
    BY <1>3, <2>1
  <2>3. t[k - m] = s[k]
    BY <2>1, <2>2
  <2> QED BY <1>1, <1>4, <2>3
<1> QED BY <1>3, <1>4, <1>5 DEF t

LEMMA FrontTaken ==
  ASSUME NEW S, NEW s \in Seq(S), NEW m \in 0 .. Len(s), NoneTwice(s)
  PROVE  LET t == SubSeq(s, m + 1, Len(s))
         IN  /\ t \in Seq(S) /\ NoneTwice(t)
             /\ \A j \in 1 .. Len(t) : \E k \in 1 .. Len(s) : t[j] = s[k]
<1> DEFINE t == SubSeq(s, m + 1, Len(s))
<1>1. /\ t \in Seq(S) /\ Len(t) = Len(s) - m /\ Len(s) \in Nat
      /\ \A k \in m + 1 .. Len(s) : k - m \in 1 .. Len(t) /\ t[k - m] = s[k]
  BY RestOf, LenProperties
<1> HIDE DEF t
<1>2. ASSUME NEW j \in 1 .. Len(t)
      PROVE  m + j \in 1 .. Len(s) /\ t[j] = s[m + j]
  <2>1. m + j \in m + 1 .. Len(s) /\ (m + j) - m = j
    BY <1>1
  <2>2. t[(m + j) - m] = s[m + j]
    BY <1>1, <2>1
  <2> QED BY <2>1, <2>2
<1>3. NoneTwice(t)
  <2>1. ASSUME NEW j \in 1 .. Len(t), NEW k \in 1 .. Len(t), t[j] = t[k]
        PROVE  m + j = m + k
    BY <1>2, <2>1 DEF NoneTwice
  <2>2. \A j, k \in 1 .. Len(t) : m + j = m + k => j = k
    OBVIOUS
  <2> QED BY <2>1, <2>2 DEF NoneTwice
<1> QED BY <1>1, <1>2, <1>3 DEF t

LEMMA SeqOfLength ==
  ASSUME NEW S, NEW n \in Nat, NEW r \in [1 .. n -> S]
  PROVE  r \in Seq(S) /\ Len(r) = n
<1>1. r \in Seq(S)
  OBVIOUS
<1> QED BY <1>1, LenProperties

UpTo(P, k) == {p \in P : p <= k}

(* `at' enumerates the least elements of P.                                *)
Enumerates(P, n, at) ==
  at \in [1 .. n -> P] /\ \A j \in 1 .. n : Cardinality(UpTo(P, at[j])) = j

Taken(P, n, at, q) == n = Cardinality(P) \/ (n > 0 /\ q <= at[n])

LEMMA Enumerated ==
  ASSUME NEW P, P \subseteq Nat, IsFiniteSet(P), NEW n \in Nat, NEW at,
         Enumerates(P, n, at), NEW q \in P, Taken(P, n, at, q)
  PROVE  \E j \in 1 .. n : at[j] = q
<1> DEFINE r == Cardinality(UpTo(P, q))
<1>0. /\ at \in [1 .. n -> P] /\ \A j \in 1 .. n : Cardinality(UpTo(P, at[j])) = j
      /\ n = Cardinality(P) \/ (n > 0 /\ q <= at[n])
  BY DEF Enumerates, Taken
<1>1. \A k : UpTo(P, k) \subseteq P /\ IsFiniteSet(UpTo(P, k))
  <2>1. \A k : UpTo(P, k) \subseteq P
    BY DEF UpTo
  <2> QED BY <2>1, FS_Subset
<1>2. /\ \A x, y \in Nat : x <= y => UpTo(P, x) \subseteq UpTo(P, y)
      /\ \A x \in P : x \in Nat /\ x \in UpTo(P, x)
  <2>1. ASSUME NEW x \in Nat, NEW y \in Nat, x <= y, NEW p \in UpTo(P, x)
        PROVE  p \in UpTo(P, y)
    BY <2>1 DEF UpTo
  <2>2. \A x \in P : x \in Nat /\ x \in UpTo(P, x)
    BY DEF UpTo
  <2> QED BY <2>1, <2>2
<1>3. r \in Nat /\ r # 0
  BY <1>1, <1>2, FS_CardinalityType, FS_EmptySet
<1>4. r <= n
  <2>1. CASE n = Cardinality(P)
    BY <1>1, <2>1, FS_Subset
  <2>2. CASE n > 0 /\ q <= at[n]
    <3>1. n \in 1 .. n /\ at[n] \in P /\ q <= at[n]
      BY <1>0, <2>2
    <3>2. UpTo(P, q) \subseteq UpTo(P, at[n])
      BY <1>2, <3>1
    <3>3. Cardinality(UpTo(P, at[n])) = n
      BY <1>0, <3>1
    <3> QED BY <1>1, <3>2, <3>3, FS_Subset
  <2> QED BY <1>0, <2>1, <2>2
<1>5. r \in 1 .. n
  BY <1>3, <1>4
<1>6. at[r] \in P /\ Cardinality(UpTo(P, at[r])) = r
  BY <1>0, <1>5
<1>7. ASSUME NEW x \in P, NEW y \in P, x < y
      PROVE  Cardinality(UpTo(P, x)) # Cardinality(UpTo(P, y))
  <2>1. x \in Nat /\ y \in Nat /\ x <= y /\ ~ (y <= x)
    BY <1>2, <1>7
  <2>2. UpTo(P, x) \subseteq UpTo(P, y) /\ y \in UpTo(P, y)
    BY <1>2, <2>1
  <2>3. y \notin UpTo(P, x)
    BY <2>1 DEF UpTo
  <2> QED BY <1>1, <2>2, <2>3, FS_Subset
<1> HIDE DEF r
<1>8. at[r] = q
  <2>1. ~ (at[r] < q) /\ ~ (q < at[r])
    BY <1>6, <1>7 DEF r
  <2>2. at[r] \in Nat /\ q \in Nat
    BY <1>2, <1>6
  <2> QED BY <2>1, <2>2
<1> QED BY <1>5, <1>8

(* A batch has no two events of one descriptor.                            *)
OneEventEach(es) == \A j, k \in 1 .. Len(es) : es[j].fd = es[k].fd => j = k

(* What is taken from the list and has something to report is reported,    *)
(* and nothing else is.                                                    *)
LEMMA BatchTaken ==
  ASSUME Waiting, WaitEvents
  PROVE  \E es \in Seq(Event), m \in 0 .. Len(ready) :
           /\ Len(es) <= agent_size /\ Process(es)
           /\ ready' = SubSeq(ready, m + 1, Len(ready))
           /\ OneEventEach(es)
           /\ \A j \in 1 .. Len(es) :
                es[j].events = Reports(es[j].fd) /\ Contains(ready, es[j].fd)
           /\ \A q \in 1 .. m : Reports(ready[q]) # {} =>
                \E j \in 1 .. Len(es) :
                  es[j] = [fd |-> ready[q], events |-> Reports(ready[q])]
<1> DEFINE takes(polled, n, at) ==
             /\ \A j \in 1 .. n : Cardinality({q \in polled : q <= at[j]}) = j
             /\ ready' = IF n < events_maxnum THEN <<>>
                         ELSE SubSeq(ready, at[n] + 1, Len(ready))
             /\ \E reported \in {[j \in 1 .. n |->
                                    [fd |-> ready[at[j]], events |-> Reports(ready[at[j]])]]} :
                  Process(reported)
<1>1. PICK polled \in {{p \in 1 .. Len(ready) : Reports(ready[p]) # {}}} :
        \E n \in {Min({events_maxnum, Cardinality(polled)})} :
          \E at \in [1 .. n -> polled] : takes(polled, n, at)
  BY DEF WaitEvents
<1>2. PICK n \in {Min({events_maxnum, Cardinality(polled)})} :
        \E at \in [1 .. n -> polled] : takes(polled, n, at)
  BY <1>1
<1>3. PICK at \in [1 .. n -> polled] : takes(polled, n, at)
  BY <1>2
<1>4. /\ Len(ready) \in Nat /\ ready \in Seq(Fd \cup {listen_socket})
      /\ \A k \in 1 .. Len(ready) : ready[k] \in Fd \cup {listen_socket}
  BY LenProperties, ElementOfSeq DEF Waiting
<1>5. polled \subseteq 1 .. Len(ready) /\ polled \subseteq Nat /\ IsFiniteSet(polled)
  <2>1. polled \subseteq 1 .. Len(ready) /\ 1 .. Len(ready) \subseteq Nat
    OBVIOUS
  <2>2. IsFiniteSet(1 .. Len(ready))
    BY <1>4, FS_Interval
  <2> QED BY <2>1, <2>2, FS_Subset
<1>6. /\ n \in Nat /\ n <= agent_size /\ agent_size \in Nat \ {0}
      /\ n < agent_size => n = Cardinality(polled)
  <2> DEFINE m == Cardinality(polled)
  <2>1. m \in Nat
    BY <1>5, FS_CardinalityType
  <2>2. agent_size \in Nat \ {0}
    BY Constants
  <2> HIDE DEF m
  <2>3. \E y \in {agent_size, m} : \A z \in {agent_size, m} : y <= z
    BY <2>1, <2>2
  <2>4. Min({agent_size, m}) \in {agent_size, m} /\ Min({agent_size, m}) <= agent_size
    BY <2>3 DEF Min
  <2> QED BY <2>1, <2>2, <2>4 DEF m, events_maxnum
<1>7. \A j \in 1 .. n : at[j] \in 1 .. Len(ready)
  BY <1>5
<1> DEFINE report(j) == [fd |-> ready[at[j]], events |-> Reports(ready[at[j]])]
           es == [j \in 1 .. n |-> report(j)]
           m == IF n < agent_size THEN Len(ready) ELSE at[n]
<1>8. \A j \in 1 .. n : report(j) \in Event
  <2>1. \A f : Reports(f) \in Mask
    BY DEF Reports, Mask
  <2>2. \A j \in 1 .. n : ready[at[j]] \in Fd \cup {listen_socket}
    BY <1>4, <1>7
  <2> QED BY <2>1, <2>2 DEF Event
<1>9. Process(es)
  BY <1>3
<1>10. \A j \in 1 .. n : es[j] = [fd |-> ready[at[j]], events |-> Reports(ready[at[j]])]
  OBVIOUS
<1> HIDE DEF report
<1>11. es \in Seq(Event) /\ Len(es) = n
  <2> DEFINE r == es
  <2>1. DOMAIN r = 1 .. n /\ r = [j \in 1 .. n |-> r[j]] /\ \A j \in 1 .. n : r[j] \in Event
    BY <1>8
  <2> HIDE DEF r
  <2>2. r \in [1 .. n -> Event] /\ n \in Nat
    BY <1>6, <2>1
  <2> QED BY <2>2, SeqOfLength DEF r
<1> HIDE DEF es
<1>12. \A j \in 1 .. n : es[j].fd = ready[at[j]] /\ es[j].events = Reports(es[j].fd)
  <2> SUFFICES ASSUME NEW j \in 1 .. n
               PROVE  es[j].fd = ready[at[j]] /\ es[j].events = Reports(es[j].fd)
    OBVIOUS
  <2>1. es[j] = [fd |-> ready[at[j]], events |-> Reports(ready[at[j]])]
    BY <1>10
  <2> QED BY <2>1
<1>13. OneEventEach(es)
  <2> SUFFICES ASSUME NEW j \in 1 .. n, NEW k \in 1 .. n, es[j].fd = es[k].fd
               PROVE  j = k
    BY <1>11 DEF OneEventEach
  <2>1. at[j] = at[k]
    <3>1. ready[at[j]] = ready[at[k]]
      BY <1>12
    <3>2. at[j] \in 1 .. Len(ready) /\ at[k] \in 1 .. Len(ready)
      BY <1>7
    <3> QED BY <3>1, <3>2 DEF Waiting
  <2>2. /\ Cardinality({q \in polled : q <= at[j]}) = j
        /\ Cardinality({q \in polled : q <= at[k]}) = k
    BY <1>3
  <2> QED BY <2>1, <2>2
<1>14. m \in 0 .. Len(ready) /\ ready' = SubSeq(ready, m + 1, Len(ready))
  <2>1. CASE n < agent_size
    <3>1. ready' = <<>> /\ m = Len(ready)
      BY <1>3, <2>1 DEF events_maxnum
    <3>2. m \in 0 .. Len(ready)
      BY <1>4, <3>1
    <3> DEFINE t == SubSeq(ready, m + 1, Len(ready))
    <3> HIDE DEF m
    <3>3. t \in Seq(Fd \cup {listen_socket}) /\ Len(t) = Len(ready) - m
      BY <1>4, <3>2, RestOf
    <3> HIDE DEF t
    <3>4. Len(t) = 0
      BY <1>4, <3>1, <3>3
    <3>5. t = <<>>
      BY <3>3, <3>4, EmptySeq
    <3> QED BY <3>1, <3>2, <3>5 DEF t
  <2>2. CASE ~ (n < agent_size)
    <3>1. n \in 1 .. n
      BY <1>6, <2>2
    <3>2. at[n] \in 1 .. Len(ready) /\ m = at[n]
      BY <1>7, <2>2, <3>1
    <3>3. ready' = SubSeq(ready, at[n] + 1, Len(ready))
      BY <1>3, <2>2 DEF events_maxnum
    <3>4. m \in 0 .. Len(ready)
      BY <1>4, <3>2
    <3> HIDE DEF m
    <3> QED BY <3>2, <3>3, <3>4
  <2> QED BY <2>1, <2>2
<1>15. ASSUME NEW q \in 1 .. m, Reports(ready[q]) # {}
       PROVE  \E j \in 1 .. Len(es) :
                es[j] = [fd |-> ready[q], events |-> Reports(ready[q])]
  <2> HIDE DEF m
  <2>1. q \in 1 .. Len(ready)
    BY <1>4, <1>14
  <2>2. q \in polled
    BY <1>15, <2>1
  <2>3. Taken(polled, n, at, q)
    BY <1>6 DEF m, Taken
  <2>4. Enumerates(polled, n, at)
    BY <1>3 DEF UpTo, Enumerates
  <2>5. \E j \in 1 .. n : at[j] = q
    BY <1>5, <1>6, <2>2, <2>3, <2>4, Enumerated
  <2> QED BY <1>10, <1>11, <2>5
<1> HIDE DEF m
<1>16. \A j \in 1 .. Len(es) :
         es[j].events = Reports(es[j].fd) /\ Contains(ready, es[j].fd)
  BY <1>7, <1>11, <1>12 DEF Contains
<1> QED BY <1>6, <1>9, <1>11, <1>13, <1>14, <1>15, <1>16

LEMMA WaitEventsKeepsInv ==
  ASSUME Inv, WaitEvents
  PROVE  Inv'
<1>1. Mapped /\ Paired /\ Tagged /\ Waiting /\ InBatch
  BY DEF Inv
<1>2. UNCHANGED <<agents, live, heap, sock, client, inq, outq, queue, sent, known>>
  BY DEF WaitEvents, memory, links
<1>3. PICK es \in Seq(Event), m \in 0 .. Len(ready) :
        /\ Len(es) <= agent_size /\ Process(es)
        /\ ready' = SubSeq(ready, m + 1, Len(ready))
  BY <1>1, BatchTaken
<1>4. Mapped'
  BY <1>1, <1>2, MappedUntouched
<1>5. Paired'
  BY <1>1, <1>2 DEF Paired
<1>6. Tagged'
  <2>1. Carries(inq') /\ Carries(outq')
    BY <1>1, <1>2 DEF Tagged
  <2> QED BY <1>1, <1>2, <2>1, TaggedUntouched
<1>7. Waiting'
  <2>1. ready \in Seq(Fd \cup {listen_socket}) /\ NoneTwice(ready)
    BY <1>1 DEF Waiting, NoneTwice
  <2>2. /\ ready' \in Seq(Fd \cup {listen_socket}) /\ NoneTwice(ready')
        /\ \A j \in 1 .. Len(ready') : \E k \in 1 .. Len(ready) : ready'[j] = ready[k]
    BY <1>3, <2>1, FrontTaken
  <2>3. \A j \in 1 .. Len(ready') : ready'[j] \in Fd => sock'[ready'[j]] # NULL
    BY <1>1, <1>2, <2>2 DEF Waiting
  <2>4. sent' \in [Client -> Nat]
    BY <1>1, <1>2 DEF Waiting
  <2> QED BY <2>2, <2>3, <2>4 DEF Waiting, NoneTwice
<1>8. InBatch'
  <2>1. MapOK(agents')
    BY <1>4 DEF Mapped
  <2> QED BY <1>3, <2>1, ProcessKeepsBatch
<1> QED BY <1>4, <1>5, <1>6, <1>7, <1>8 DEF Inv

-----------------------------------------------------------------------------
(* The invariant is inductive.                                             *)

LEMMA WaitingUntouched ==
  ASSUME Waiting, UNCHANGED <<ready, sock, sent>>
  PROVE  Waiting'
BY DEF Waiting

(* An agent is closed and the next event is looked at.                     *)
LEMMA CloseKeepsInv ==
  ASSUME Inv, pc \in AtAgent, hs_net_agent_close(agent), NextEvent
  PROVE  Inv'
<1>1. Mapped /\ Paired /\ Tagged /\ Waiting /\ InBatch
  BY DEF Inv
<1>2. agent \in live
  BY <1>1, AgentIsLive
<1>3. Mapped' /\ Paired' /\ Tagged' /\ Waiting'
  BY <1>1, <1>2, CloseKeeps
<1>4. MapOK(agents')
  BY <1>3 DEF Mapped
<1>5. InBatch'
  BY <1>1, <1>4, NextEventKeepsBatch
<1> QED BY <1>3, <1>5 DEF Inv

(* The application closes any agent; in a handler, any but its own.        *)
LEMMA AppClosesKeepsInv ==
  ASSUME Inv, AppCloses
  PROVE  Inv'
<1>1. Mapped /\ Paired /\ Tagged /\ Waiting /\ InBatch
  BY DEF Inv
<1>2. PICK k \in known : (InHandler => k.agent # agent) /\ hs_net_agent_close(k.agent)
  BY DEF AppCloses
<1>3. PICK a \in live : k.agent = a
  BY <1>1 DEF Paired
<1>4. Mapped' /\ Paired' /\ Tagged' /\ Waiting'
  BY <1>1, <1>2, <1>3, CloseKeeps
<1>5. /\ UNCHANGED <<events, agent, pc>>
      /\ pc \in {"app", "conn", "handler", "again"}
  <2>1. ClosesFrom \subseteq {"app", "conn", "handler", "again"}
    BY ServerAssumption
  <2> QED BY <2>1 DEF AppCloses, batch
<1>6. InBatch'
  <2>1. CASE pc \in {"app", "conn"}
    BY <1>1, <1>5, <2>1 DEF InBatch, AtAgent
  <2>2. CASE pc \in {"handler", "again"}
    <3> DEFINE s == heap[a].socket
               f == Head(events).fd
    <3>1. a # agent /\ pc \in AtAgent
      BY <1>2, <1>3, <2>2 DEF InHandler, AtAgent
    <3>2. f \in Fd /\ agent # NULL /\ agent = hs_hashmap_find(agents, f)
      BY <1>1, <3>1 DEF InBatch
    <3>3. s \in Fd /\ hs_hashmap_find(agents, s) = a /\ MapOK(agents)
      BY <1>1 DEF Mapped
    <3>4. agents' = hs_hashmap_delete(agents, s)
      BY <1>2, <1>3 DEF hs_net_agent_close, WithoutAgent
    <3> HIDE DEF s, f
    <3>5. hs_hashmap_find(agents', f) = agent
      BY <3>1, <3>2, <3>3, <3>4, Deleted
    <3>6. /\ Head(events').fd \in Fd /\ agent' # NULL
          /\ agent' = hs_hashmap_find(agents', Head(events').fd)
      BY <1>5, <3>2, <3>5 DEF f
    <3>7. /\ events' \in Seq(Event) /\ Len(events') <= agent_size /\ events' # <<>>
          /\ agent' \in Agent \cup {NULL}
      BY <1>1, <1>5, <3>1 DEF InBatch
    <3> QED BY <1>5, <3>1, <3>6, <3>7 DEF InBatch
  <2> QED BY <1>5, <2>1, <2>2
<1> QED BY <1>4, <1>6 DEF Inv

(* What leaves map, kernel and application alone.                          *)
LEMMA ControlKeepsInv ==
  ASSUME Inv, AcceptedAll \/ AcceptInterrupted \/ ConnReturns \/ RecvNothing
  PROVE  Inv'
<1>1. Mapped /\ Paired /\ Tagged /\ Waiting /\ InBatch
  BY DEF Inv
<1>2. UNCHANGED <<memory, links, ready, queue, sent, known>>
  BY DEF AcceptedAll, AcceptInterrupted, ConnReturns, RecvNothing
<1>3. Mapped' /\ Paired' /\ Tagged' /\ Waiting'
  BY <1>1, <1>2, Untouched
<1>4. agents' = agents /\ MapOK(agents) /\ MapOK(agents')
  BY <1>1, <1>2 DEF Mapped, memory
<1>5. InBatch'
  <2>1. CASE AcceptedAll \/ AcceptInterrupted
    BY <1>1, <1>4, <2>1, NextEventKeepsBatch DEF AcceptedAll, AcceptInterrupted
  <2>2. CASE ConnReturns
    BY <1>1, <2>2 DEF ConnReturns, AcceptOn, batch, InBatch, AtAgent
  <2>3. CASE RecvNothing
    BY <1>1, <1>4, <2>3, AfterRecvKeepsBatch DEF RecvNothing, AtAgent
  <2> QED BY <2>1, <2>2, <2>3
<1> QED BY <1>3, <1>5 DEF Inv

LEMMA BuffersKeepInv ==
  ASSUME Inv, Recv \/ HandlerReturns \/ Send \/ AppWrites
  PROVE  Inv'
<1>1. Mapped /\ Paired /\ Tagged /\ Waiting /\ InBatch
  BY DEF Inv
<1>2. UNCHANGED <<agents, ready, sock, sent>> /\ MapOK(agents)
  BY <1>1 DEF Recv, HandlerReturns, Send, AppWrites, links, Mapped
<1>3. Mapped' /\ Paired' /\ Tagged'
  BY <1>1, RecvKeeps, HandlerReturnsKeeps, SendKeeps, AppWritesKeeps
<1>4. Waiting'
  BY <1>1, <1>2, WaitingUntouched
<1>5. InBatch'
  <2>1. CASE Recv
    <3>1. pc = "recv" /\ pc' = "handler" /\ UNCHANGED <<events, agent, agents>>
      BY <2>1 DEF Recv, batch
    <3> QED BY <1>1, <3>1 DEF InBatch, AtAgent
  <2>2. CASE HandlerReturns
    <3>1. pc \in {"handler", "again"} /\ pc \in AtAgent
      BY <2>2 DEF HandlerReturns, AtAgent
    <3>2. CASE AfterRecv
      BY <1>1, <1>2, <3>1, <3>2, AfterRecvKeepsBatch
    <3>3. CASE pc' = CanRecv(agent) /\ UNCHANGED batch
      <4>1. pc' \in {"recv", "again"} /\ UNCHANGED <<events, agent, agents>>
        BY <1>2, <3>3 DEF CanRecv, batch
      <4> QED BY <1>1, <3>1, <4>1 DEF InBatch, AtAgent
    <3> QED BY <2>2, <3>2, <3>3 DEF HandlerReturns, AfterHandler
  <2>3. CASE Send
    BY <1>1, <1>2, <2>3, AfterSendKeepsBatch DEF Send, AtAgent
  <2>4. CASE AppWrites
    <3>1. UNCHANGED <<events, agent, agents, pc>>
      BY <2>4 DEF AppWrites, batch
    <3> QED BY <1>1, <3>1 DEF InBatch
  <2> QED BY <2>1, <2>2, <2>3, <2>4
<1> QED BY <1>3, <1>4, <1>5 DEF Inv

LEMMA StutterKeepsInv ==
  ASSUME Inv, UNCHANGED vars
  PROVE  Inv'
<1>1. Mapped /\ Paired /\ Tagged /\ Waiting /\ InBatch
  BY DEF Inv
<1>2. /\ UNCHANGED <<memory, links, ready, queue, sent, known>>
      /\ UNCHANGED <<agents, events, agent, pc>>
  BY DEF vars, memory, batch
<1>3. Mapped' /\ Paired' /\ Tagged' /\ Waiting'
  BY <1>1, <1>2, Untouched
<1>4. InBatch'
  BY <1>1, <1>2 DEF InBatch
<1> QED BY <1>3, <1>4 DEF Inv

LEMMA InvNext == Inv /\ [Next]_vars => Inv'
<1> SUFFICES ASSUME Inv, [Next]_vars PROVE Inv'
  OBVIOUS
<1>1. CASE WaitEvents
  BY <1>1, WaitEventsKeepsInv
<1>2. CASE Accept
  BY <1>2, AcceptKeepsInv
<1>3. CASE AcceptedAll \/ AcceptInterrupted \/ ConnReturns \/ RecvNothing
  BY <1>3, ControlKeepsInv
<1>4. CASE Recv \/ HandlerReturns \/ Send \/ AppWrites
  BY <1>4, BuffersKeepInv
<1>5. CASE RecvFails \/ HandlerFails \/ SendFails \/ ClientDisconnect
  BY <1>5, CloseKeepsInv DEF RecvFails, HandlerFails, SendFails, ClientDisconnect, AtAgent
<1>6. CASE AcceptFails \/ ServerCloses
  BY <1>6, WalkKeepsInv DEF AcceptFails, ServerCloses
<1>7. CASE AppCloses
  BY <1>7, AppClosesKeepsInv
<1>8. CASE Clients
  BY <1>8, ClientKeepsInv DEF Clients
<1>9. CASE UNCHANGED vars
  BY <1>9, StutterKeepsInv
<1> QED BY <1>1, <1>2, <1>3, <1>4, <1>5, <1>6, <1>7, <1>8, <1>9
      DEF Next, Run, Errors, IsDown

-----------------------------------------------------------------------------
(* What the system does.                                                   *)

(* The inductive invariant holds of every state of the server              *)
(* (hs_net_server_run with its callbacks), interrupted by the clients      *)
(* anywhere.                                                               *)
THEOREM Invariance == Spec => []Inv
<1>1. Init => Inv
  BY InvInit
<1>2. Inv /\ [Next]_vars => Inv'
  BY InvNext
<1> QED BY <1>1, <1>2, PTL DEF Spec

(* Types, bounds and widths: the batch never exceeds what was allocated    *)
(* for it, the map is never left with freed buckets, and no descriptor is  *)
(* ready twice.                                                            *)
THEOREM TypeCorrect == Spec => []TypeOK
<1>1. Inv => TypeOK
  <2> SUFFICES ASSUME Inv PROVE TypeOK
    OBVIOUS
  <2>1. Mapped /\ Paired /\ Tagged /\ Waiting /\ InBatch
    BY DEF Inv
  <2>2. agents \in HashMaps(agents.size, Fd, Agent) /\ ~ agents.dangling
    <3>1. /\ agents \in HashMaps(MapSize, Fd, Agent) /\ ~ agents.dangling
          /\ agents.size = MapSize
      BY <2>1 DEF Mapped, MapOK, HashMaps
    <3> QED BY <3>1
  <2>3. /\ events \in Seq([fd : Fd \cup {listen_socket}, events : Mask])
        /\ Len(events) <= agent_size /\ agent \in Agent \cup {NULL}
    BY <2>1 DEF InBatch, Event
  <2>4. live \subseteq Agent /\ sock \in [Fd -> Client \cup {NULL}]
    BY <2>1 DEF Mapped
  <2>5. /\ queue \in Seq(Client) /\ client \in [Client -> {"away", "up", "fin", "rst"}]
    BY <2>1 DEF Paired
  <2>6. heap \in [Agent -> NetAgents(Fd \cup {0})]
    BY <2>1 DEF Tagged
  <2>7. \A c \in Client : /\ inq[c] \in Seq(Byte) /\ Len(inq[c]) <= KernelRoom
                         /\ outq[c] \in Seq(Byte) /\ Len(outq[c]) <= KernelRoom
    BY <2>1 DEF Tagged, Carries
  <2>8. ready \in Seq(Fd \cup {listen_socket}) /\ IsInjective(ready)
    <3>1. ready \in Seq(Fd \cup {listen_socket})
      BY <2>1 DEF Waiting
    <3>2. DOMAIN ready = 1 .. Len(ready)
      BY <3>1, LenProperties
    <3> QED BY <2>1, <3>1, <3>2 DEF Waiting, IsInjective
  <2>9. sent \in [Client -> Nat]
    BY <2>1 DEF Waiting
  <2>10. known \subseteq [agent : Agent, fd : Fd, client : Client]
    <3>1. \A a \in live : /\ a \in Agent /\ heap[a].socket \in Fd
                          /\ sock[heap[a].socket] \in Client
      BY <2>1, AgentHolds
    <3> QED BY <2>1, <3>1 DEF Paired
  <2>11. pc \in {"app", "accept", "conn", "recv", "handler", "again", "send", "ends"}
                \cup Down
    BY <2>1 DEF InBatch, AtAgent
  <2> QED BY <2>2, <2>3, <2>4, <2>5, <2>6, <2>7, <2>8, <2>9, <2>10, <2>11 DEF TypeOK
<1> QED BY <1>1, Invariance, PTL

(* Wherever the application has control, map, buffers, descriptors and     *)
(* what the application knows agree one to one: no path that closes an     *)
(* agent keeps its buffers, frees or closes them twice or leaves a pair    *)
(* behind, whichever agents the callbacks close in the middle of a batch.  *)
THEOREM AgentsMatchConnections == Spec => []AgentsAreConnections
<1>1. Inv => AgentsAreConnections
  <2> SUFFICES ASSUME Inv PROVE AgentsAreConnections
    OBVIOUS
  <2>1. Mapped /\ Paired
    BY DEF Inv
  <2> DEFINE T == Fd \ FreeFds
             at(f) == hs_hashmap_find(agents, f)
  <2>2. T = {f \in Fd : sock[f] # NULL}
    BY DEF FreeFds
  <2>3. \A f \in Fd : (at(f) # NULL) = (sock[f] # NULL)
    BY <2>1, Constants DEF Mapped
  <2>4. \A f \in T : at(f) \in live /\ heap[at(f)].socket = f
    BY <2>1, <2>2 DEF Mapped
  <2>5. \A a \in live : heap[a].socket \in T /\ at(heap[a].socket) = a
    BY <2>1, <2>2 DEF Mapped
  <2> HIDE DEF T
  <2>6. live = {at(f) : f \in T}
    <3> HIDE DEF at
    <3> QED BY <2>4, <2>5
  <2>7. known = {[agent |-> at(f), fd |-> f, client |-> sock[f]] : f \in T}
    <3> DEFINE pairOf(a) == [agent |-> a, fd |-> heap[a].socket,
                             client |-> sock[heap[a].socket]]
               knownAt(f) == [agent |-> at(f), fd |-> f, client |-> sock[f]]
    <3>1. known = {pairOf(a) : a \in live}
      BY <2>1 DEF Paired
    <3>2. \A f \in T : pairOf(at(f)) = knownAt(f)
      BY <2>4
    <3>3. \A a \in live : pairOf(a) = knownAt(heap[a].socket)
      BY <2>5
    <3> HIDE DEF pairOf, knownAt, at
    <3>4. known = {knownAt(f) : f \in T}
      BY <2>4, <2>5, <3>1, <3>2, <3>3
    <3> QED BY <3>4 DEF knownAt
  <2> QED BY <2>3, <2>4, <2>6, <2>7 DEF AgentsAreConnections, T
<1> QED BY <1>1, Invariance, PTL

(* No byte of one client reaches another or is taken for one of another,   *)
(* although descriptors and agents are used again at once, in the same     *)
(* batch even.                                                             *)
THEOREM NoByteGoesAstray == Spec => []NoCrossTalk
<1>1. Inv => NoCrossTalk
  <2> SUFFICES ASSUME Inv PROVE NoCrossTalk
    OBVIOUS
  <2>1. Mapped /\ Tagged
    BY DEF Inv
  <2>2. ASSUME NEW a \in live
        PROVE  Range(Offered(heap[a].recv_buff)) \cup Range(Unsent(heap[a].send_buff))
                 \subseteq {sock[heap[a].socket]}
    <3> DEFINE c == sock[heap[a].socket]
    <3>1. /\ RecvHolds(heap[a].recv_buff, RecvLength, c)
          /\ SendHolds(heap[a].send_buff, SendLength, c)
          /\ RecvLength \in Nat /\ SendLength \in Nat
      BY <2>1, AgentHolds, NetAgentAssumption
    <3> HIDE DEF c
    <3>2. \A j \in DOMAIN Offered(heap[a].recv_buff) : Offered(heap[a].recv_buff)[j] = c
      BY <3>1, OfferedHolds
    <3>3. \A j \in DOMAIN Unsent(heap[a].send_buff) : Unsent(heap[a].send_buff)[j] = c
      BY <3>1, UnsentHolds
    <3>4. Range(Offered(heap[a].recv_buff)) \cup Range(Unsent(heap[a].send_buff)) \subseteq {c}
      BY <3>2, <3>3 DEF Range
    <3> QED BY <3>4 DEF c
  <2>3. ASSUME NEW c \in Client
        PROVE  Range(inq[c]) \cup Range(outq[c]) \subseteq {c}
    <3>1. /\ DOMAIN inq[c] = 1 .. Len(inq[c]) /\ \A j \in 1 .. Len(inq[c]) : inq[c][j] = c
          /\ DOMAIN outq[c] = 1 .. Len(outq[c]) /\ \A j \in 1 .. Len(outq[c]) : outq[c][j] = c
      BY <2>1, LenProperties DEF Tagged, Carries
    <3> QED BY <3>1 DEF Range
  <2> QED BY <2>2, <2>3 DEF NoCrossTalk
<1> QED BY <1>1, Invariance, PTL

-----------------------------------------------------------------------------
(* No news is lost.  What a connection or a waiting client has for the     *)
(* server is in the list of the kernel or in the part of the batch that is *)
(* not processed yet.                                                      *)

Reading == {"recv", "handler", "again"}

Arrived(a) ==
  inq[sock[heap[a].socket]] # <<>> /\ hs_recvbuff_leftwrite(heap[a].recv_buff) > 0

Ended(a) == client[sock[heap[a].socket]] \in {"fin", "rst"}

Reported(es, f, news) == \E j \in 1 .. Len(es) : es[j].fd = f /\ news \in es[j].events

Due(es) ==
  /\ queue # <<>> =>
       Contains(ready, listen_socket) \/ \E j \in 1 .. Len(es) : es[j].fd = listen_socket
  /\ \A a \in live :
       /\ Arrived(a) =>
            Contains(ready, heap[a].socket) \/ Reported(es, heap[a].socket, "IN")
       /\ Ended(a) =>
            Contains(ready, heap[a].socket) \/ Reported(es, heap[a].socket, "RDHUP")

(* Once the server sends, it has received what the event announced.        *)
Heard ==
  /\ pc = "app" => events = <<>>
  /\ pc \in {"accept", "conn"} => Head(events).fd = listen_socket
  /\ pc \in Reading => "IN" \in Head(events).events
  /\ pc = "again" => hs_recvbuff_leftwrite(heap[agent].recv_buff) = 0
  /\ pc \notin Down => Due(events)
  /\ pc \in {"send", "ends"} /\ Arrived(agent) =>
       \/ Contains(ready, heap[agent].socket)
       \/ Reported(Tail(events), heap[agent].socket, "IN")

LEMMA HeardInit == Init => Heard
<1> SUFFICES ASSUME Init PROVE Heard
  OBVIOUS
<1>1. events = <<>> /\ pc = "app" /\ live = {} /\ queue = <<>>
  BY DEF Init
<1> QED BY <1>1 DEF Heard, Due, Reading

(* What a step does not disturb, and what it puts on the list, is not      *)
(* lost.                                                                   *)
Undisturbed(a, es) ==
  /\ a \in live /\ heap'[a].socket = heap[a].socket
  /\ sock'[heap[a].socket] = sock[heap[a].socket]
  /\ client'[sock[heap[a].socket]] = client[sock[heap[a].socket]]
  /\ Contains(ready, heap[a].socket) => Contains(ready', heap[a].socket)
  /\ \/ /\ inq'[sock[heap[a].socket]] = inq[sock[heap[a].socket]]
        /\ hs_recvbuff_leftwrite(heap'[a].recv_buff) = hs_recvbuff_leftwrite(heap[a].recv_buff)
     \/ Reported(es, heap[a].socket, "IN")

LEMMA DueStays ==
  ASSUME NEW es, Due(es),
         \A a \in live' : Contains(ready', heap'[a].socket) \/ Undisturbed(a, es),
         queue' # <<>> => queue # <<>> \/ Contains(ready', listen_socket),
         Contains(ready, listen_socket) => Contains(ready', listen_socket)
  PROVE  Due(es)'
<1>1. queue' # <<>> =>
        \/ Contains(ready', listen_socket)
        \/ \E j \in 1 .. Len(es) : es[j].fd = listen_socket
  BY DEF Due
<1>2. ASSUME NEW a \in live'
      PROVE  /\ Arrived(a)' =>
                  Contains(ready', heap'[a].socket) \/ Reported(es, heap'[a].socket, "IN")
             /\ Ended(a)' =>
                  Contains(ready', heap'[a].socket) \/ Reported(es, heap'[a].socket, "RDHUP")
  <2>1. CASE Contains(ready', heap'[a].socket)
    BY <2>1
  <2>2. CASE Undisturbed(a, es)
    <3>1. /\ Arrived(a) => Contains(ready, heap[a].socket) \/ Reported(es, heap[a].socket, "IN")
          /\ Ended(a) => Contains(ready, heap[a].socket) \/ Reported(es, heap[a].socket, "RDHUP")
      BY <2>2 DEF Due, Undisturbed
    <3>2. Ended(a)' => Ended(a)
      BY <2>2 DEF Undisturbed, Ended
    <3>3. Arrived(a)' => Arrived(a) \/ Reported(es, heap[a].socket, "IN")
      BY <2>2 DEF Undisturbed, Arrived
    <3> QED BY <2>2, <3>1, <3>2, <3>3 DEF Undisturbed
  <2> QED BY <2>1, <2>2
<1> QED BY <1>1, <1>2 DEF Due

(* The first event is done with.                                           *)
LEMMA ReportedBehind ==
  ASSUME NEW es \in Seq(Event), es # <<>>, NEW f, NEW news,
         Reported(es, f, news), Head(es).fd # f \/ news \notin Head(es).events
  PROVE  Reported(Tail(es), f, news)
<1>1. /\ Len(es) \in Nat /\ Len(es) # 0 /\ Head(es) = es[1]
      /\ Len(Tail(es)) = Len(es) - 1
      /\ \A k \in 1 .. Len(Tail(es)) : Tail(es)[k] = es[k + 1]
  BY HeadTailProperties, EmptySeq
<1>2. PICK j \in 1 .. Len(es) : es[j].fd = f /\ news \in es[j].events
  BY DEF Reported
<1>3. j # 1
  BY <1>1, <1>2
<1>4. j - 1 \in 1 .. Len(Tail(es)) /\ (j - 1) + 1 = j
  BY <1>1, <1>3
<1>5. Tail(es)[j - 1] = es[j]
  BY <1>1, <1>4
<1> QED BY <1>2, <1>4, <1>5 DEF Reported

LEMMA FirstIsDone ==
  ASSUME NEW es \in Seq(Event), es # <<>>, Due(es)',
         Head(es).fd = listen_socket => queue' = <<>>,
         \A a \in live' : heap'[a].socket = Head(es).fd =>
           /\ Arrived(a)' => \/ Contains(ready', heap'[a].socket)
                             \/ Reported(Tail(es), heap'[a].socket, "IN")
           /\ Ended(a)' => \/ Contains(ready', heap'[a].socket)
                           \/ Reported(Tail(es), heap'[a].socket, "RDHUP")
  PROVE  Due(Tail(es))'
<1>1. ASSUME queue' # <<>>
      PROVE  \/ Contains(ready', listen_socket)
             \/ \E j \in 1 .. Len(Tail(es)) : Tail(es)[j].fd = listen_socket
  <2>1. CASE \E j \in 1 .. Len(es) : es[j].fd = listen_socket
    <3>1. /\ Len(es) \in Nat /\ Len(es) # 0 /\ Head(es) = es[1]
          /\ Len(Tail(es)) = Len(es) - 1
          /\ \A k \in 1 .. Len(Tail(es)) : Tail(es)[k] = es[k + 1]
      BY HeadTailProperties, EmptySeq
    <3>2. PICK j \in 1 .. Len(es) : es[j].fd = listen_socket
      BY <2>1
    <3>3. j # 1
      BY <1>1, <3>1, <3>2
    <3>4. j - 1 \in 1 .. Len(Tail(es)) /\ (j - 1) + 1 = j
      BY <3>1, <3>3
    <3>5. Tail(es)[j - 1] = es[j]
      BY <3>1, <3>4
    <3> QED BY <3>2, <3>4, <3>5
  <2> QED BY <1>1, <2>1 DEF Due
<1>2. ASSUME NEW a \in live'
      PROVE  /\ Arrived(a)' => \/ Contains(ready', heap'[a].socket)
                               \/ Reported(Tail(es), heap'[a].socket, "IN")
             /\ Ended(a)' => \/ Contains(ready', heap'[a].socket)
                             \/ Reported(Tail(es), heap'[a].socket, "RDHUP")
  <2>1. CASE heap'[a].socket = Head(es).fd
    BY <2>1
  <2>2. CASE heap'[a].socket # Head(es).fd
    <3>1. /\ Arrived(a)' => \/ Contains(ready', heap'[a].socket)
                            \/ Reported(es, heap'[a].socket, "IN")
          /\ Ended(a)' => \/ Contains(ready', heap'[a].socket)
                          \/ Reported(es, heap'[a].socket, "RDHUP")
      BY DEF Due
    <3> DEFINE f == heap'[a].socket
    <3>2. \A news : Reported(es, f, news) => Reported(Tail(es), f, news)
      BY <2>2, ReportedBehind
    <3> QED BY <3>1, <3>2
  <2> QED BY <2>1, <2>2
<1> QED BY <1>1, <1>2 DEF Due

-----------------------------------------------------------------------------
(* Events are skipped only when no news depends on them.                   *)

LEMMA SkippedIsNotDue ==
  ASSUME Mapped', NEW es \in Seq(Event), NEW n \in 0 .. Len(es), Due(es)',
         \A j \in 1 .. n : ~ Effective(es[j])
  PROVE  Due(SubSeq(es, n + 1, Len(es)))'
<1> DEFINE t == SubSeq(es, n + 1, Len(es))
<1>1. Len(es) \in Nat
  BY LenProperties
<1>2. \A j \in n + 1 .. Len(es) : j - n \in 1 .. Len(t) /\ t[j - n] = es[j]
  BY RestOf
<1> HIDE DEF t
<1>3. \A j \in 1 .. Len(es) : Effective(es[j]) => \E k \in 1 .. Len(t) : t[k] = es[j]
  <2> SUFFICES ASSUME NEW j \in 1 .. Len(es), Effective(es[j])
               PROVE  \E k \in 1 .. Len(t) : t[k] = es[j]
    OBVIOUS
  <2>1. j \in n + 1 .. Len(es)
    BY <1>1
  <2> QED BY <1>2, <2>1
<1>4. ASSUME NEW j \in 1 .. Len(es), es[j].fd = listen_socket
      PROVE  \E k \in 1 .. Len(t) : t[k].fd = listen_socket
  <2>1. Effective(es[j])
    BY <1>4 DEF Effective
  <2> QED BY <1>3, <1>4, <2>1
<1>5. ASSUME NEW a \in live', NEW news \in {"IN", "RDHUP"},
             Reported(es, heap'[a].socket, news)
      PROVE  Reported(t, heap'[a].socket, news)
  <2> DEFINE f == heap'[a].socket
  <2>1. PICK j \in 1 .. Len(es) : es[j].fd = f /\ news \in es[j].events
    BY <1>5 DEF Reported
  <2>2. hs_hashmap_find(agents', f) = a /\ a # NULL
    BY Constants DEF Mapped
  <2>3. Effective(es[j])
    BY <2>1, <2>2 DEF Effective, IsEnd
  <2> HIDE DEF f
  <2>4. PICK k \in 1 .. Len(t) : t[k] = es[j]
    BY <1>3, <2>3
  <2>5. Reported(t, f, news)
    BY <2>1, <2>4 DEF Reported
  <2> QED BY <2>5 DEF f
<1>6. queue' # <<>> =>
        \/ Contains(ready', listen_socket)
        \/ \E k \in 1 .. Len(t) : t[k].fd = listen_socket
  BY <1>4 DEF Due
<1>7. ASSUME NEW a \in live'
      PROVE  /\ Arrived(a)' =>
                  Contains(ready', heap'[a].socket) \/ Reported(t, heap'[a].socket, "IN")
             /\ Ended(a)' =>
                  Contains(ready', heap'[a].socket) \/ Reported(t, heap'[a].socket, "RDHUP")
  <2>1. /\ Arrived(a)' =>
             Contains(ready', heap'[a].socket) \/ Reported(es, heap'[a].socket, "IN")
        /\ Ended(a)' =>
             Contains(ready', heap'[a].socket) \/ Reported(es, heap'[a].socket, "RDHUP")
    BY DEF Due
  <2> QED BY <1>5, <2>1
<1>8. Due(t)'
  BY <1>6, <1>7 DEF Due
<1> QED BY <1>8 DEF t

(* Of a descriptor that can be read the event has EPOLLIN; "again" stands  *)
(* for a buffer without room.                                              *)
LEMMA ProcessHears ==
  ASSUME Mapped', Tagged', NEW es \in Seq(Event), Process(es), Due(es)'
  PROVE  Heard'
<1>1. PICK n \in 0 .. Len(es) :
        /\ \A j \in 1 .. n : ~ Effective(es[j])
        /\ events' = SubSeq(es, n + 1, Len(es))
        /\ IF n = Len(es) THEN agent' = NULL /\ pc' = "app"
           ELSE /\ Effective(es[n + 1])
                /\ agent' = hs_hashmap_find(agents', es[n + 1].fd)
                /\ pc' = Entry(es[n + 1])
  BY DEF Process
<1> DEFINE t == SubSeq(es, n + 1, Len(es))
<1>2. Due(t)' /\ events' = t
  BY <1>1, SkippedIsNotDue
<1>3. /\ t \in Seq(Event) /\ Len(t) = Len(es) - n /\ Len(es) \in Nat
      /\ \A j \in n + 1 .. Len(es) : j - n \in 1 .. Len(t) /\ t[j - n] = es[j]
  BY RestOf, LenProperties
<1> HIDE DEF t
<1>4. Due(events)'
  BY <1>2 DEF Due, Reported
<1>5. CASE n = Len(es)
  <2>1. events' = <<>>
    BY <1>2, <1>3, <1>5, EmptySeq
  <2> QED BY <1>1, <1>4, <1>5, <2>1 DEF Heard, Reading
<1>6. CASE n # Len(es)
  <2> DEFINE e == es[n + 1]
  <2>1. /\ Effective(e) /\ agent' = hs_hashmap_find(agents', e.fd) /\ pc' = Entry(e)
    BY <1>1, <1>6
  <2>2. n + 1 \in n + 1 .. Len(es) /\ (n + 1) - n = 1
    BY <1>3, <1>6
  <2>3. 1 \in 1 .. Len(t) /\ t[1] = e
    BY <1>3, <2>2
  <2>4. t # <<>> /\ Head(t) = e /\ e \in Event
    <3>1. t # <<>> /\ Head(t) = t[1]
      BY <1>3, <2>3, EmptySeq
    <3>2. t[1] \in Event
      BY <1>3, <2>3, ElementOfSeq
    <3> QED BY <2>3, <3>1, <3>2
  <2> HIDE DEF e
  <2>5. CASE e.fd = listen_socket
    <3>1. pc' = "accept"
      BY <2>1, <2>5 DEF Entry
    <3> QED BY <1>2, <1>4, <2>4, <2>5, <3>1 DEF Heard, Reading
  <2>6. CASE e.fd # listen_socket
    <3>1. e.fd \in Fd /\ agent' # NULL
      BY <2>1, <2>4, <2>6 DEF Event, Effective
    <3>2. agent' \in live' /\ heap'[agent'].socket = e.fd
      BY <2>1, <3>1 DEF Mapped
    <3>3. CASE "IN" \in e.events
      <4>1. pc' = CanRecv(agent')
        BY <2>1, <2>6, <3>3 DEF Entry
      <4>2. hs_recvbuff_leftwrite(heap'[agent'].recv_buff) \in Nat
        BY <3>2, NetAgentAssumption
          DEF Mapped, Tagged, RecvHolds, RecvBuffs, hs_recvbuff_leftwrite
      <4>3. /\ pc' \in {"recv", "again"}
            /\ pc' = "again" => hs_recvbuff_leftwrite(heap'[agent'].recv_buff) = 0
        BY <4>1, <4>2 DEF CanRecv
      <4> QED BY <1>2, <1>4, <2>4, <3>3, <4>3 DEF Heard, Down
    <3>4. CASE "IN" \notin e.events
      <4>1. pc' \in {"send", "ends"}
        BY <2>1, <2>6, <3>4 DEF Entry
      <4>2. Arrived(agent)' =>
              \/ Contains(ready', heap'[agent'].socket)
              \/ Reported(t, heap'[agent'].socket, "IN")
        BY <1>2, <3>2 DEF Due, Arrived
      <4>3. Reported(t, heap'[agent'].socket, "IN") =>
              Reported(Tail(t), heap'[agent'].socket, "IN")
        BY <1>3, <2>4, <3>4, ReportedBehind
      <4>4. Arrived(agent)' =>
              \/ Contains(ready', heap'[agent'].socket)
              \/ Reported(Tail(events'), heap'[agent'].socket, "IN")
        BY <1>2, <4>2, <4>3
      <4> QED BY <1>4, <4>1, <4>4 DEF Heard, Reading, Reported
    <3> QED BY <3>3, <3>4
  <2> QED BY <2>5, <2>6
<1> QED BY <1>5, <1>6

(* The same event is gone on with, or is done.                             *)
LEMMA SameEventHears ==
  ASSUME NEW es, NEW a, events' = es, agent' = a, pc' \in {"send", "ends"}, Due(es)',
         Arrived(a)' => \/ Contains(ready', heap'[a].socket)
                        \/ Reported(Tail(es), heap'[a].socket, "IN")
  PROVE  Heard'
<1>1. Due(events)'
  BY DEF Due, Reported
<1>2. Arrived(agent)' =>
        \/ Contains(ready', heap'[agent'].socket)
        \/ Reported(Tail(events'), heap'[agent'].socket, "IN")
  BY DEF Arrived
<1> QED BY <1>1, <1>2 DEF Heard, Reading, Reported

LEMMA AgentDoneHears ==
  ASSUME Mapped', Tagged', NEW es \in Seq(Event), es # <<>>, es = events, NEW a,
         Head(es).fd \in Fd, a = hs_hashmap_find(agents', Head(es).fd), a \in live',
         heap'[a].socket = Head(es).fd,
         NextEvent, Due(es)', ~ IsEnd(Head(es)),
         Arrived(a)' => \/ Contains(ready', heap'[a].socket)
                        \/ Reported(Tail(es), heap'[a].socket, "IN")
  PROVE  Heard'
<1>1. Process(Tail(es)) /\ Tail(es) \in Seq(Event)
  BY HeadTailProperties DEF NextEvent
<1>2. ASSUME NEW b \in live', heap'[b].socket = Head(es).fd
      PROVE  /\ Arrived(b)' => \/ Contains(ready', heap'[b].socket)
                               \/ Reported(Tail(es), heap'[b].socket, "IN")
             /\ Ended(b)' => \/ Contains(ready', heap'[b].socket)
                             \/ Reported(Tail(es), heap'[b].socket, "RDHUP")
  <2>1. b = a
    BY <1>2 DEF Mapped
  <2>2. Ended(a)' => Contains(ready', heap'[a].socket) \/ Reported(es, heap'[a].socket, "RDHUP")
    BY DEF Due
  <2>3. "RDHUP" \notin Head(es).events
    BY DEF IsEnd
  <2>4. Reported(es, heap'[a].socket, "RDHUP") => Reported(Tail(es), heap'[a].socket, "RDHUP")
    BY <2>3, ReportedBehind
  <2> QED BY <2>1, <2>2, <2>4
<1>3. Head(es).fd # listen_socket
  BY MapSizeIsPositive
<1>4. Due(Tail(es))'
  BY <1>2, <1>3, FirstIsDone
<1> QED BY <1>1, <1>4, ProcessHears

LEMMA AfterRecvHears ==
  ASSUME Mapped, Mapped', Tagged', InBatch, pc \in AtAgent, agents' = agents,
         NEW es, es = events, NEW a, a = agent, Due(es)',
         AfterRecv \/ AfterSend,
         Arrived(a)' => \/ Contains(ready', heap'[a].socket)
                        \/ Reported(Tail(es), heap'[a].socket, "IN")
  PROVE  Heard'
<1>1. CASE (pc' = "send" \/ pc' = "ends") /\ UNCHANGED batch
  BY <1>1, SameEventHears DEF batch
<1>2. CASE ~ IsEnd(ee) /\ NextEvent
  <2>1. /\ es \in Seq(Event) /\ es # <<>> /\ Head(es).fd \in Fd /\ a # NULL
        /\ a = hs_hashmap_find(agents', Head(es).fd) /\ ~ IsEnd(Head(es))
    BY <1>2 DEF InBatch, AtAgent, ee
  <2>2. a \in live' /\ heap'[a].socket = Head(es).fd
    BY <2>1 DEF Mapped
  <2> QED BY <1>2, <2>1, <2>2, AgentDoneHears
<1> QED BY <1>1, <1>2 DEF AfterRecv, AfterSend

-----------------------------------------------------------------------------
(* The list keeps what it has but for what is removed.                     *)

LEMMA OthersRemain ==
  ASSUME NEW S, NEW s \in Seq(S), NEW e, NEW f, f # e, Contains(s, f)
  PROVE  Contains(RemoveFirst(s, e), f)
<1>1. CASE ~ \E j \in 1 .. Len(s) : s[j] = e
  BY <1>1 DEF RemoveFirst
<1>2. CASE \E j \in 1 .. Len(s) : s[j] = e
  <2> DEFINE I == {j \in 1 .. Len(s) : s[j] = e}
             at == SelectInSeq(s, LAMBDA v : v = e)
             t == RemoveAt(s, at)
  <2>1. I # {} /\ I \subseteq Nat
    BY <1>2
  <2>2. at = Min(I)
    BY <2>1 DEF SelectInSeq
  <2>3. Min(I) \in I
    <3>1. \E j \in I : \A k \in I : j <= k
      BY <2>1, LeastExists
    <3> QED BY <3>1 DEF Min
  <2>4. at \in 1 .. Len(s) /\ s[at] = e /\ Len(s) \in Nat
    BY <2>2, <2>3, LenProperties
  <2>5. RemoveFirst(s, e) = t
    BY <1>2 DEF RemoveFirst
  <2> HIDE DEF at
  <2>6. /\ Len(t) = Len(s) - 1
        /\ \A k \in 1 .. Len(s) - 1 : t[k] = IF k < at THEN s[k] ELSE s[k + 1]
    BY <2>4, RemovedAt
  <2> HIDE DEF t
  <2>7. PICK k \in 1 .. Len(s) : s[k] = f
    BY DEF Contains
  <2>8. CASE k < at
    <3>1. k \in 1 .. Len(t) /\ t[k] = f
      BY <2>4, <2>6, <2>7, <2>8
    <3> QED BY <2>5, <3>1 DEF Contains
  <2>9. CASE ~ (k < at)
    <3>1. k - 1 \in 1 .. Len(t) /\ ~ (k - 1 < at) /\ (k - 1) + 1 = k
      BY <2>4, <2>6, <2>7, <2>9
    <3>2. t[k - 1] = f
      BY <2>6, <2>7, <3>1
    <3> QED BY <2>5, <3>1, <3>2 DEF Contains
  <2> QED BY <2>8, <2>9
<1> QED BY <1>1, <1>2

LEMMA AppendHas ==
  ASSUME NEW S, NEW s \in Seq(S), NEW e \in S
  PROVE  /\ Contains(Append(s, e), e)
         /\ \A f : Contains(s, f) => Contains(Append(s, e), f)
<1> DEFINE t == Append(s, e)
<1>1. /\ Len(t) = Len(s) + 1 /\ Len(s) \in Nat /\ t[Len(s) + 1] = e
      /\ \A j \in 1 .. Len(s) : t[j] = s[j]
  BY AppendProperties, LenProperties
<1> HIDE DEF t
<1>2. Contains(t, e)
  <2>1. Len(s) + 1 \in 1 .. Len(t)
    BY <1>1
  <2> QED BY <1>1, <2>1 DEF Contains
<1>3. \A f : Contains(s, f) => Contains(t, f)
  <2>1. \A j \in 1 .. Len(s) : j \in 1 .. Len(t)
    BY <1>1
  <2> QED BY <1>1, <2>1 DEF Contains
<1> QED BY <1>2, <1>3 DEF t

LEMMA WokenHas ==
  ASSUME Waiting, NEW fds, fds \subseteq Fd \cup {listen_socket}
  PROVE  /\ \A g : Contains(ready, g) => Contains(Woken(fds), g)
         /\ \A f : fds = {f} => Contains(Woken(fds), f)
<1> DEFINE new == {f \in fds : ~ Contains(ready, f)}
           g == CHOOSE f \in new : TRUE
<1>1. CASE new = {}
  BY <1>1 DEF Woken
<1>2. CASE new # {}
  <2>1. Woken(fds) = Append(ready, g) /\ g \in new
    BY <1>2 DEF Woken
  <2> HIDE DEF g
  <2>2. ready \in Seq(Fd \cup {listen_socket}) /\ g \in Fd \cup {listen_socket}
    BY <2>1 DEF Waiting
  <2>3. /\ Contains(Append(ready, g), g)
        /\ \A f : Contains(ready, f) => Contains(Append(ready, g), f)
    BY <2>2, AppendHas
  <2> QED BY <2>1, <2>3
<1> QED BY <1>1, <1>2

-----------------------------------------------------------------------------
(* Each step keeps what is due.                                            *)

LEMMA OneEach ==
  ASSUME Mapped, Paired, NEW a \in live, NEW b \in live, a # b
  PROVE  /\ heap[a].socket # heap[b].socket
         /\ sock[heap[a].socket] # sock[heap[b].socket]
<1>1. /\ heap[a].socket \in Fd /\ hs_hashmap_find(agents, heap[a].socket) = a
      /\ heap[b].socket \in Fd /\ hs_hashmap_find(agents, heap[b].socket) = b
      /\ sock[heap[a].socket] # NULL
  BY DEF Mapped
<1>2. heap[a].socket # heap[b].socket
  BY <1>1
<1> QED BY <1>1, <1>2 DEF Paired

LEMMA CloseDisturbsNoOther ==
  ASSUME Mapped, Paired, Tagged, Waiting, NEW a \in live, hs_net_agent_close(a), NEW es
  PROVE  /\ \A b \in live' : b # a /\ Undisturbed(b, es)
         /\ Contains(ready, listen_socket) => Contains(ready', listen_socket)
         /\ queue' = queue
<1> DEFINE s == heap[a].socket
           c == sock[s]
<1>1. /\ sock' = [sock EXCEPT ![s] = NULL] /\ ready' = RemoveFirst(ready, s)
      /\ client' = [client EXCEPT ![c] = "away"] /\ inq' = [inq EXCEPT ![c] = <<>>]
      /\ live' = live \ {a} /\ heap' = [heap EXCEPT ![a] = hs_net_new_agent(s)]
      /\ queue' = queue
  BY DEF hs_net_agent_close, Closed
<1>2. /\ sock \in [Fd -> Client \cup {NULL}]
      /\ client \in [Client -> {"away", "up", "fin", "rst"}]
      /\ inq \in [Client -> Seq(Byte)] /\ heap \in [Agent -> NetAgents(Fd \cup {0})]
      /\ ready \in Seq(Fd \cup {listen_socket})
  BY DEF Mapped, Paired, Tagged, Carries, Waiting
<1>3. \A f : f # s /\ Contains(ready, f) => Contains(ready', f)
  BY <1>1, <1>2, OthersRemain
<1>4. s \in Fd /\ s # listen_socket
  BY MapSizeIsPositive DEF Mapped
<1>5. ASSUME NEW b \in live'
      PROVE  b # a /\ Undisturbed(b, es)
  <2> DEFINE f == heap[b].socket
             d == sock[f]
  <2>1. b \in live /\ b # a
    BY <1>1
  <2>2. f # s /\ d # c
    BY <2>1, OneEach
  <2>3. b \in Agent /\ f \in Fd /\ d \in Client
    BY <2>1, AgentHolds
  <2> HIDE DEF s, c
  <2>4. heap'[b] = heap[b]
    BY <1>1, <1>2, <2>1, <2>3
  <2> HIDE DEF f
  <2>5. sock'[f] = d
    BY <1>1, <1>2, <2>2, <2>3
  <2> HIDE DEF d
  <2>6. client'[d] = client[d] /\ inq'[d] = inq[d]
    BY <1>1, <1>2, <2>2, <2>3
  <2>7. Contains(ready, f) => Contains(ready', f)
    BY <1>3, <2>2
  <2> QED BY <2>1, <2>4, <2>5, <2>6, <2>7 DEF Undisturbed, f, d
<1> HIDE DEF s, c
<1> QED BY <1>1, <1>3, <1>4, <1>5

(* The batch, its agent and the place of the server stay.                  *)
LEMMA QuietHears ==
  ASSUME Heard, UNCHANGED <<events, agent, pc>>,
         \A b \in live' : Contains(ready', heap'[b].socket) \/ Undisturbed(b, <<>>),
         queue' # <<>> => queue # <<>> \/ Contains(ready', listen_socket),
         Contains(ready, listen_socket) => Contains(ready', listen_socket),
         pc \in AtAgent => agent \in live',
         pc = "again" => heap'[agent].recv_buff = heap[agent].recv_buff
  PROVE  Heard'
<1>1. ASSUME pc \notin Down
      PROVE  Due(events)'
  <2> DEFINE Kept == \A b \in live' :
                       Contains(ready', heap'[b].socket) \/ Undisturbed(b, events)
  <2>1. Kept
    BY DEF Undisturbed, Reported
  <2> HIDE DEF Kept
  <2>2. PICK es : es = events
    OBVIOUS
  <2>3. Due(es)
    BY <1>1, <2>2 DEF Heard
  <2>4. \A b \in live' : Contains(ready', heap'[b].socket) \/ Undisturbed(b, es)
    BY <2>1, <2>2 DEF Kept
  <2>5. Due(es)'
    BY <2>3, <2>4, DueStays
  <2> QED BY <2>2, <2>5 DEF Due, Reported
<1>2. ASSUME pc \in {"send", "ends"}, Arrived(agent)'
      PROVE  \/ Contains(ready', heap'[agent'].socket)
             \/ Reported(Tail(events'), heap'[agent'].socket, "IN")
  <2>1. CASE Contains(ready', heap'[agent].socket)
    BY <2>1
  <2>2. CASE Undisturbed(agent, <<>>)
    <3>1. ~ Reported(<<>>, heap[agent].socket, "IN")
      BY DEF Reported
    <3>2. Arrived(agent)
      BY <1>2, <2>2, <3>1 DEF Undisturbed, Arrived
    <3>3. \/ Contains(ready, heap[agent].socket)
          \/ Reported(Tail(events), heap[agent].socket, "IN")
      BY <1>2, <3>2 DEF Heard
    <3> QED BY <2>2, <3>3 DEF Undisturbed
  <2>3. agent \in live'
    BY <1>2 DEF AtAgent
  <2> QED BY <2>1, <2>2, <2>3
<1> QED BY <1>1, <1>2 DEF Heard, Reading

LEMMA CloseHears ==
  ASSUME Inv, Inv', Heard, pc \in AtAgent, hs_net_agent_close(agent), NextEvent
  PROVE  Heard'
<1>1. Mapped /\ Paired /\ Tagged /\ Waiting /\ InBatch /\ Mapped' /\ Tagged'
  BY DEF Inv
<1>2. PICK es \in Seq(Event) : es = events
  BY <1>1 DEF InBatch
<1>3. PICK a : a = agent
  OBVIOUS
<1>4. /\ es # <<>> /\ Head(es).fd \in Fd /\ a \in live /\ heap[a].socket = Head(es).fd
      /\ Process(Tail(es)) /\ Tail(es) \in Seq(Event)
  <2>1. es # <<>> /\ Head(es).fd \in Fd
    BY <1>1, <1>2 DEF InBatch
  <2>2. a \in live /\ heap[a].socket = Head(es).fd
    BY <1>1, <1>2, <1>3, AgentIsLive
  <2>3. Process(Tail(es)) /\ Tail(es) \in Seq(Event)
    BY <1>2, <2>1, HeadTailProperties DEF NextEvent
  <2> QED BY <2>1, <2>2, <2>3
<1>5. Due(es)
  BY <1>2 DEF Heard, AtAgent, Down
<1>6. /\ \A b \in live' : b # a /\ Undisturbed(b, es)
      /\ Contains(ready, listen_socket) => Contains(ready', listen_socket)
      /\ queue' = queue
  BY <1>1, <1>3, <1>4, CloseDisturbsNoOther
<1>7. Due(es)'
  BY <1>5, <1>6, DueStays
<1>8. \A b \in live' : heap'[b].socket # Head(es).fd
  <2> SUFFICES ASSUME NEW b \in live' PROVE heap'[b].socket # Head(es).fd
    OBVIOUS
  <2>1. b # a /\ b \in live /\ heap'[b].socket = heap[b].socket
    BY <1>6 DEF Undisturbed
  <2> QED BY <1>1, <1>4, <2>1, OneEach
<1>9. Head(es).fd # listen_socket
  BY <1>4, MapSizeIsPositive
<1>10. Due(Tail(es))'
  BY <1>4, <1>7, <1>8, <1>9, FirstIsDone
<1> QED BY <1>1, <1>4, <1>10, ProcessHears

LEMMA AppClosesHears ==
  ASSUME Inv, Heard, AppCloses
  PROVE  Heard'
<1>1. Mapped /\ Paired /\ Tagged /\ Waiting /\ InBatch
  BY DEF Inv
<1>2. PICK k \in known : (InHandler => k.agent # agent) /\ hs_net_agent_close(k.agent)
  BY DEF AppCloses
<1>3. PICK a \in live : k.agent = a
  BY <1>1 DEF Paired
<1>4. /\ UNCHANGED <<events, agent, pc>>
      /\ pc \in {"app", "conn", "handler", "again"}
  <2>1. ClosesFrom \subseteq {"app", "conn", "handler", "again"}
    BY ServerAssumption
  <2> QED BY <2>1 DEF AppCloses, batch
<1>5. /\ \A b \in live' : b # a /\ Undisturbed(b, <<>>)
      /\ Contains(ready, listen_socket) => Contains(ready', listen_socket)
      /\ queue' = queue
  BY <1>1, <1>2, <1>3, CloseDisturbsNoOther
<1>6. live' = live \ {a} /\ heap' = [heap EXCEPT ![a] = hs_net_new_agent(heap[a].socket)]
  BY <1>2, <1>3 DEF hs_net_agent_close
<1>7. ASSUME pc \in AtAgent
      PROVE  agent \in live' /\ heap'[agent].recv_buff = heap[agent].recv_buff
  <2>1. agent # a
    BY <1>2, <1>3, <1>4, <1>7 DEF InHandler, AtAgent
  <2>2. agent \in live
    BY <1>1, <1>7, AgentIsLive
  <2>3. heap'[agent] = heap[agent]
    BY <1>1, <1>6, <2>1, <2>2 DEF Mapped, Tagged
  <2> QED BY <1>6, <2>1, <2>2, <2>3
<1>8. pc = "again" => pc \in AtAgent
  BY DEF AtAgent
<1> QED BY <1>4, <1>5, <1>7, <1>8, QuietHears

LEMMA AcceptHears ==
  ASSUME Inv, Heard, Accept
  PROVE  Heard'
<1>1. Mapped /\ Paired /\ Tagged /\ Waiting /\ InBatch
  BY DEF Inv
<1>2. PICK a \in Agent \ live, f \in Fd : Brings(a, f)
  BY <1>1, AcceptBrings
<1> DEFINE c == Head(queue)
<1>3. /\ sock[f] = NULL /\ sock' = [sock EXCEPT ![f] = c] /\ ready' = Append(ready, f)
      /\ live' = live \cup {a} /\ heap' = [heap EXCEPT ![a] = hs_net_new_agent(f)]
      /\ queue' = Tail(queue) /\ pc' = "conn" /\ UNCHANGED <<client, inq, events, agent>>
  BY <1>2 DEF Brings
<1> HIDE DEF c
<1>4. /\ sock \in [Fd -> Client \cup {NULL}] /\ heap \in [Agent -> NetAgents(Fd \cup {0})]
      /\ ready \in Seq(Fd \cup {listen_socket})
  BY <1>1 DEF Mapped, Tagged, Waiting
<1>5. /\ Contains(ready', f)
      /\ \A g : Contains(ready, g) => Contains(ready', g)
  BY <1>3, <1>4, AppendHas
<1>6. PICK es : es = events
  OBVIOUS
<1>7. Due(es) /\ pc = "accept" /\ Head(es).fd = listen_socket /\ queue # <<>>
  BY <1>6 DEF Accept, Heard, Down
<1>8. ASSUME NEW b \in live'
      PROVE  Contains(ready', heap'[b].socket) \/ Undisturbed(b, es)
  <2>1. CASE b = a
    <3>1. heap'[b].socket = f
      BY <1>3, <1>4, <2>1 DEF hs_net_new_agent
    <3> QED BY <1>5, <3>1
  <2>2. CASE b # a
    <3>1. b \in live /\ b \in Agent /\ heap'[b] = heap[b]
      BY <1>1, <1>3, <1>4, <2>2 DEF Mapped
    <3>2. heap[b].socket \in Fd /\ heap[b].socket # f
      BY <1>1, <1>3, <3>1 DEF Mapped
    <3>3. sock'[heap[b].socket] = sock[heap[b].socket]
      BY <1>3, <1>4, <3>2
    <3> QED BY <1>3, <1>5, <3>1, <3>3 DEF Undisturbed
  <2> QED BY <2>1, <2>2
<1>9. Due(es)'
  BY <1>5, <1>7, <1>8, DueStays
<1>10. Due(events)'
  BY <1>3, <1>6, <1>9 DEF Due, Reported
<1> QED BY <1>3, <1>6, <1>7, <1>10 DEF Heard, Reading

LEMMA ControlHears ==
  ASSUME Inv, Inv', Heard, AcceptedAll \/ ConnReturns \/ RecvNothing
  PROVE  Heard'
<1>1. Mapped /\ Paired /\ Tagged /\ Waiting /\ InBatch /\ Mapped' /\ Tagged'
  BY DEF Inv
<1>2. UNCHANGED <<agents, live, heap, sock, client, inq, outq, ready, queue>>
  BY DEF AcceptedAll, ConnReturns, RecvNothing, memory, links
<1>3. PICK es \in Seq(Event) : es = events
  BY <1>1 DEF InBatch
<1>4. es # <<>> /\ Due(es) /\ pc \in {"accept", "conn", "recv"}
  <2>1. pc \in {"accept", "conn", "recv"}
    BY DEF AcceptedAll, ConnReturns, RecvNothing
  <2>2. es # <<>>
    BY <1>1, <1>3, <2>1 DEF InBatch, AtAgent
  <2>3. Due(es)
    BY <1>3, <2>1 DEF Heard, Down
  <2> QED BY <2>1, <2>2, <2>3
<1>5. Due(es)'
  BY <1>2, <1>4, DueStays DEF Undisturbed
<1>6. CASE AcceptedAll
  <2>1. Process(Tail(es)) /\ Tail(es) \in Seq(Event) /\ queue' = <<>>
        /\ Head(es).fd = listen_socket
    BY <1>2, <1>3, <1>4, <1>6, HeadTailProperties DEF AcceptedAll, NextEvent, Heard
  <2>2. \A b \in live' : heap'[b].socket # Head(es).fd
    BY <1>1, <2>1, MapSizeIsPositive DEF Mapped
  <2>3. Due(Tail(es))'
    BY <1>4, <1>5, <2>1, <2>2, FirstIsDone
  <2> QED BY <1>1, <2>1, <2>3, ProcessHears
<1>7. CASE ConnReturns
  <2>1. /\ pc' = "accept" /\ UNCHANGED <<events, agent>>
        /\ Head(events).fd = listen_socket
    BY <1>7 DEF ConnReturns, AcceptOn, batch, Heard
  <2>2. Due(events)'
    BY <1>3, <1>5, <2>1 DEF Due, Reported
  <2> QED BY <2>1, <2>2 DEF Heard, Reading
<1>8. CASE RecvNothing
  <2>1. PICK a : a = agent
    OBVIOUS
  <2>2. ~ Arrived(a)'
    BY <1>2, <1>8, <2>1 DEF RecvNothing, Peer, Arrived
  <2>3. pc \in AtAgent /\ AfterRecv
    BY <1>8 DEF RecvNothing, AtAgent
  <2> QED BY <1>1, <1>2, <1>3, <1>5, <2>1, <2>2, <2>3, AfterRecvHears
<1> QED BY <1>6, <1>7, <1>8

(* The news of an agent that is received from are announced until nothing  *)
(* is left to receive, or no room.                                         *)
LEMMA BuffersHear ==
  ASSUME Inv, NEW a \in live, NEW b \in live, NEW x, heap' = [heap EXCEPT ![a] = x],
         x.socket = heap[a].socket, UNCHANGED <<sock, client, ready>>, NEW es,
         \/ /\ inq' = inq
            /\ hs_recvbuff_leftwrite(x.recv_buff) = hs_recvbuff_leftwrite(heap[a].recv_buff)
         \/ /\ Reported(es, heap[a].socket, "IN")
            /\ \A c \in Client : c # sock[heap[a].socket] => inq'[c] = inq[c]
  PROVE  Undisturbed(b, es)
<1>1. Mapped /\ Paired /\ Tagged
  BY DEF Inv
<1>2. a \in Agent /\ heap'[a] = x
  BY <1>1, AgentHolds DEF Tagged
<1>3. CASE b = a
  BY <1>2, <1>3 DEF Undisturbed
<1>4. CASE b # a
  <2>1. b \in Agent /\ sock[heap[b].socket] \in Client
    BY <1>1, AgentHolds
  <2>2. heap'[b] = heap[b]
    BY <1>1, <1>2, <1>4, <2>1 DEF Tagged
  <2>3. sock[heap[b].socket] # sock[heap[a].socket]
    BY <1>1, <1>4, OneEach
  <2>4. inq'[sock[heap[b].socket]] = inq[sock[heap[b].socket]]
    BY <2>1, <2>3
  <2> QED BY <2>2, <2>4 DEF Undisturbed
<1> QED BY <1>3, <1>4

LEMMA AnnouncedStillDue ==
  ASSUME Inv, Heard, pc \in Reading, NEW x, heap' = [heap EXCEPT ![agent] = x],
         x.socket = heap[agent].socket, UNCHANGED <<live, sock, client, ready, queue>>,
         \A c \in Client : c # sock[heap[agent].socket] => inq'[c] = inq[c],
         NEW es, es = events
  PROVE  Due(es)'
<1>1. Mapped /\ InBatch /\ pc \in AtAgent
  BY DEF Inv, Reading, AtAgent
<1>2. agent \in live /\ heap[agent].socket = Head(es).fd
  BY <1>1, AgentIsLive
<1>3. es \in Seq(Event) /\ es # <<>> /\ "IN" \in Head(es).events /\ Due(es)
  BY <1>1 DEF InBatch, Heard, Reading, Down
<1>4. Reported(es, heap[agent].socket, "IN")
  <2>1. 1 \in 1 .. Len(es) /\ Head(es) = es[1]
    BY <1>3, EmptySeq, HeadTailProperties
  <2> QED BY <1>2, <1>3, <2>1 DEF Reported
<1>5. \A b \in live' : Undisturbed(b, es)
  BY <1>2, <1>4, BuffersHear
<1> QED BY <1>3, <1>5, DueStays

LEMMA RecvHears ==
  ASSUME Inv, Heard, Recv
  PROVE  Heard'
<1>1. Mapped /\ Paired /\ Tagged /\ Waiting /\ InBatch
  BY DEF Inv
<1>2. /\ pc = "recv" /\ pc' = "handler" /\ UNCHANGED <<events, agent>>
      /\ UNCHANGED <<live, sock, client, ready, queue>>
      /\ \E y : heap' = [heap EXCEPT ![agent].recv_buff = y]
      /\ \E y : inq' = [inq EXCEPT ![Peer] = y]
  BY DEF Recv, batch
<1>3. PICK y : heap' = [heap EXCEPT ![agent].recv_buff = y]
  BY <1>2
<1> DEFINE x == [heap[agent] EXCEPT !.recv_buff = y]
<1>4. agent \in live /\ agent \in Agent /\ heap[agent] \in NetAgents(Fd \cup {0})
  BY <1>1, <1>2, AgentIsLive DEF AtAgent, Tagged
<1>5. heap' = [heap EXCEPT ![agent] = x] /\ x.socket = heap[agent].socket
  BY <1>1, <1>3, <1>4 DEF Tagged, NetAgents
<1> HIDE DEF x
<1>6. \A c \in Client : c # sock[heap[agent].socket] => inq'[c] = inq[c]
  BY <1>1, <1>2 DEF Peer, Tagged, Carries
<1>7. PICK es : es = events
  OBVIOUS
<1>8. pc \in Reading /\ "IN" \in Head(events).events
  BY <1>2 DEF Reading, Heard
<1>9. Due(es)'
  BY <1>2, <1>5, <1>6, <1>7, <1>8, AnnouncedStillDue
<1>10. Due(events)'
  BY <1>2, <1>7, <1>9 DEF Due, Reported
<1> QED BY <1>2, <1>8, <1>10 DEF Heard

LEMMA HandlerReturnsHears ==
  ASSUME Inv, Inv', Heard, HandlerReturns
  PROVE  Heard'
<1>1. Mapped /\ Paired /\ Tagged /\ Waiting /\ InBatch /\ Mapped' /\ Tagged'
  BY DEF Inv
<1>2. /\ pc \in {"handler", "again"} /\ pc \in AtAgent /\ pc \in Reading
      /\ UNCHANGED <<agents, live, sock, client, inq, ready, queue>>
  BY DEF HandlerReturns, links, AtAgent, Reading
<1>3. PICK n \in 0 .. hs_recvbuff_leftread(recv_buff) :
        /\ heap' = [heap EXCEPT ![agent].recv_buff = Handled(@, n)]
        /\ AfterHandler(n)
  BY DEF HandlerReturns
<1> DEFINE buff == Handled(heap[agent].recv_buff, n)
           x == [heap[agent] EXCEPT !.recv_buff = buff]
<1>4. agent \in live /\ agent \in Agent /\ heap[agent] \in NetAgents(Fd \cup {0})
  BY <1>1, <1>2, AgentIsLive DEF Tagged
<1>5. /\ heap' = [heap EXCEPT ![agent] = x] /\ x.socket = heap[agent].socket
      /\ heap'[agent].recv_buff = buff
  BY <1>1, <1>3, <1>4 DEF Tagged, NetAgents
<1> HIDE DEF x
<1>6. PICK es : es = events
  OBVIOUS
<1>7. Due(es)'
  BY <1>2, <1>5, <1>6, AnnouncedStillDue
<1>8. CASE pc = "again" /\ n = 0
  <2>1. PICK a : a = agent
    OBVIOUS
  <2>2. hs_recvbuff_leftwrite(heap'[a].recv_buff) = 0
    BY <1>5, <1>8, <2>1 DEF Handled, Heard
  <2>3. ~ Arrived(a)'
    BY <2>2 DEF Arrived
  <2>4. AfterRecv
    BY <1>3, <1>8 DEF AfterHandler
  <2> QED BY <1>1, <1>2, <1>6, <1>7, <2>1, <2>3, <2>4, AfterRecvHears
<1>9. CASE ~ (pc = "again" /\ n = 0)
  <2>1. pc' = CanRecv(agent) /\ UNCHANGED <<events, agent>>
    BY <1>3, <1>9 DEF AfterHandler, batch
  <2>2. hs_recvbuff_leftwrite(heap'[agent].recv_buff) \in Nat
    BY <1>1, <1>2, <1>4, NetAgentAssumption
      DEF Tagged, RecvHolds, RecvBuffs, hs_recvbuff_leftwrite
  <2>3. /\ pc' \in {"recv", "again"}
        /\ pc' = "again" => hs_recvbuff_leftwrite(heap'[agent'].recv_buff) = 0
    BY <2>1, <2>2 DEF CanRecv
  <2>4. Due(events)'
    BY <1>6, <1>7, <2>1 DEF Due, Reported
  <2>5. "IN" \in Head(events').events
    BY <1>2, <2>1 DEF Heard
  <2> QED BY <2>3, <2>4, <2>5 DEF Heard, Reading
<1> QED BY <1>8, <1>9

LEMMA SendHears ==
  ASSUME Inv, Inv', Heard, Send
  PROVE  Heard'
<1>1. Mapped /\ Paired /\ Tagged /\ Waiting /\ InBatch /\ Mapped' /\ Tagged'
  BY DEF Inv
<1>2. /\ pc = "send" /\ pc \in AtAgent /\ AfterSend
      /\ UNCHANGED <<agents, live, sock, client, inq, ready, queue>>
      /\ \E y : heap' = [heap EXCEPT ![agent].send_buff = y]
  BY DEF Send, AtAgent
<1>3. PICK y : heap' = [heap EXCEPT ![agent].send_buff = y]
  BY <1>2
<1> DEFINE x == [heap[agent] EXCEPT !.send_buff = y]
<1>4. agent \in live /\ agent \in Agent /\ heap[agent] \in NetAgents(Fd \cup {0})
  BY <1>1, <1>2, AgentIsLive DEF Tagged
<1>5. /\ heap' = [heap EXCEPT ![agent] = x] /\ x.socket = heap[agent].socket
      /\ x.recv_buff = heap[agent].recv_buff /\ heap'[agent] = x
  BY <1>1, <1>3, <1>4 DEF Tagged, NetAgents
<1> HIDE DEF x
<1>6. PICK es : es = events
  OBVIOUS
<1>7. PICK a : a = agent
  OBVIOUS
<1>8. \A b \in live' : Undisturbed(b, es)
  BY <1>2, <1>4, <1>5, BuffersHear
<1>9. Due(es)
  BY <1>2, <1>6 DEF Heard, Down
<1>10. Due(es)'
  BY <1>2, <1>8, <1>9, DueStays
<1>11. Arrived(a)' => \/ Contains(ready', heap'[a].socket)
                      \/ Reported(Tail(es), heap'[a].socket, "IN")
  <2>1. Arrived(a)' => Arrived(agent)
    BY <1>2, <1>5, <1>7 DEF Arrived
  <2>2. Arrived(agent) => \/ Contains(ready, heap[agent].socket)
                          \/ Reported(Tail(es), heap[agent].socket, "IN")
    BY <1>2, <1>6 DEF Heard
  <2> QED BY <1>2, <1>5, <1>7, <2>1, <2>2
<1> QED BY <1>1, <1>2, <1>6, <1>7, <1>10, <1>11, AfterRecvHears

LEMMA AppWritesHears ==
  ASSUME Inv, Heard, AppWrites
  PROVE  Heard'
<1>1. Mapped /\ Paired /\ Tagged /\ Waiting /\ InBatch
  BY DEF Inv
<1>2. PICK k \in known :
        heap' = [heap EXCEPT ![k.agent] = hs_net_agent_write(@, <<k.client>>)]
  BY DEF AppWrites
<1>3. UNCHANGED <<live, sock, client, inq, ready, queue, events, agent, pc>>
  BY DEF AppWrites, links, batch
<1>4. PICK a \in live : k.agent = a
  BY <1>1 DEF Paired
<1> DEFINE x == hs_net_agent_write(heap[a], <<k.client>>)
<1>5. a \in Agent /\ heap[a] \in NetAgents(Fd \cup {0})
  BY <1>1, AgentHolds
<1>6. /\ heap' = [heap EXCEPT ![a] = x] /\ x.socket = heap[a].socket
      /\ x.recv_buff = heap[a].recv_buff
  BY <1>1, <1>2, <1>4, <1>5 DEF Tagged, NetAgents, hs_net_agent_write
<1> HIDE DEF x
<1>7. \A b \in live' : Undisturbed(b, <<>>)
  BY <1>3, <1>6, BuffersHear
<1>8. pc \in AtAgent => agent \in live' /\ agent \in Agent
  BY <1>1, <1>3, AgentIsLive
<1>9. pc = "again" => heap'[agent].recv_buff = heap[agent].recv_buff
  BY <1>1, <1>6, <1>8 DEF Tagged, AtAgent
<1> QED BY <1>3, <1>7, <1>8, <1>9, QuietHears

(* What a client does about its connection puts it on the list, reading    *)
(* alone does not have to.                                                 *)
LEMMA ClientHears ==
  ASSUME Inv, Heard, NEW c \in Client,
         \/ ClientConnects(c) \/ ClientSends(c) \/ ClientReads(c)
         \/ ClientCloses(c) \/ ClientResets(c)
  PROVE  Heard'
<1>1. Mapped /\ Paired /\ Tagged /\ Waiting /\ InBatch
  BY DEF Inv
<1>2. UNCHANGED <<agents, live, heap, sock, events, agent, pc>>
  BY DEF ClientConnects, ClientSends, ClientReads, ClientCloses, ClientResets, memory, batch
<1>3. ASSUME NEW fds, fds \subseteq Fd \cup {listen_socket}, ready' = Woken(fds)
      PROVE  /\ \A g : Contains(ready, g) => Contains(ready', g)
             /\ \A f : fds = {f} => Contains(ready', f)
  BY <1>1, <1>3, WokenHas
<1>4. \A g : Contains(ready, g) => Contains(ready', g)
  <2>1. FdsOf(c) \subseteq Fd \cup {listen_socket} /\ {listen_socket} \subseteq Fd \cup {listen_socket}
    BY DEF FdsOf
  <2>2. ready' \in {Woken({listen_socket}), Woken(FdsOf(c)), ready}
    BY DEF ClientConnects, ClientSends, ClientReads, ClientCloses, ClientResets
  <2> QED BY <1>3, <2>1, <2>2
<1>5. queue' # <<>> => queue # <<>> \/ Contains(ready', listen_socket)
  <2>1. CASE ClientConnects(c)
    <3>1. ready' = Woken({listen_socket})
      BY <2>1 DEF ClientConnects
    <3> QED BY <1>3, <3>1
  <2>2. CASE ~ ClientConnects(c)
    BY <2>2 DEF ClientSends, ClientReads, ClientCloses, ClientResets
  <2> QED BY <2>1, <2>2
<1>6. ASSUME NEW b \in live
      PROVE  Contains(ready', heap'[b].socket) \/ Undisturbed(b, <<>>)
  <2> DEFINE f == heap[b].socket
             d == sock[f]
  <2>1. f \in Fd /\ d \in Client /\ client[d] # "away"
    BY <1>1, AgentHolds, Constants DEF Paired
  <2>2. /\ client \in [Client -> {"away", "up", "fin", "rst"}]
        /\ inq \in [Client -> Seq(Byte)]
    BY <1>1 DEF Paired, Tagged, Carries
  <2>3. CASE d = c /\ (ClientSends(c) \/ ClientCloses(c) \/ ClientResets(c))
    <3>1. FdsOf(c) = {f}
      <4>1. \A g \in Fd : sock[g] = d => g = f
        BY <1>1, <2>1, Constants DEF Paired
      <4> QED BY <2>1, <2>3, <4>1 DEF FdsOf
    <3>2. ready' = Woken(FdsOf(c)) /\ FdsOf(c) \subseteq Fd \cup {listen_socket}
      BY <2>3 DEF ClientSends, ClientCloses, ClientResets, FdsOf
    <3>3. Contains(ready', f)
      BY <1>3, <3>1, <3>2
    <3> QED BY <1>2, <3>3
  <2>4. CASE d # c \/ ClientConnects(c) \/ ClientReads(c)
    <3>1. client'[d] = client[d] /\ inq'[d] = inq[d]
      <4>1. d # c \/ ClientReads(c)
        BY <2>1, <2>4 DEF ClientConnects
      <4>2. CASE ClientReads(c)
        BY <4>2 DEF ClientReads
      <4>3. CASE d # c
        <5>1. client' = client \/ \E y : client' = [client EXCEPT ![c] = y]
          BY DEF ClientConnects, ClientSends, ClientReads, ClientCloses, ClientResets
        <5>2. inq' = inq \/ \E y : inq' = [inq EXCEPT ![c] = y]
          BY DEF ClientConnects, ClientSends, ClientReads, ClientCloses, ClientResets
        <5>3. client'[d] = client[d]
          BY <2>1, <2>2, <4>3, <5>1
        <5>4. inq'[d] = inq[d]
          BY <2>1, <2>2, <4>3, <5>2
        <5> QED BY <5>3, <5>4
      <4> QED BY <4>1, <4>2, <4>3
    <3> QED BY <1>2, <1>4, <3>1 DEF Undisturbed
  <2> QED BY <2>3, <2>4
<1>7. pc \in AtAgent => agent \in live'
  BY <1>1, <1>2, AgentIsLive
<1> QED BY <1>2, <1>4, <1>5, <1>6, <1>7, QuietHears

(* What has news when the server waits is on the list, and so reported or  *)
(* still on it.                                                            *)
LEMMA WaitEventsHears ==
  ASSUME Inv, Inv', Heard, WaitEvents
  PROVE  Heard'
<1>1. Waiting /\ Mapped /\ Mapped' /\ Tagged'
  BY DEF Inv
<1>2. UNCHANGED <<live, heap, sock, client, inq, queue>> /\ pc = "app"
  BY DEF WaitEvents, memory, links
<1>3. PICK es \in Seq(Event), m \in 0 .. Len(ready) :
        /\ Len(es) <= agent_size /\ Process(es)
        /\ ready' = SubSeq(ready, m + 1, Len(ready))
        /\ \A q \in 1 .. m : Reports(ready[q]) # {} =>
             \E j \in 1 .. Len(es) : es[j] = [fd |-> ready[q], events |-> Reports(ready[q])]
  BY <1>1, BatchTaken
<1>4. ASSUME NEW f, Contains(ready, f), Reports(f) # {}
      PROVE  \/ Contains(ready', f)
             \/ \E j \in 1 .. Len(es) : es[j] = [fd |-> f, events |-> Reports(f)]
  <2>1. /\ ready \in Seq(Fd \cup {listen_socket}) /\ Len(ready) \in Nat
    BY <1>1, LenProperties DEF Waiting
  <2>2. PICK q \in 1 .. Len(ready) : ready[q] = f
    BY <1>4 DEF Contains
  <2>3. CASE q <= m
    <3>1. q \in 1 .. m
      BY <2>1, <2>3
    <3> QED BY <1>3, <1>4, <2>2, <3>1
  <2>4. CASE ~ (q <= m)
    <3>1. q \in m + 1 .. Len(ready)
      BY <2>1, <2>4
    <3>2. q - m \in 1 .. Len(ready') /\ ready'[q - m] = f
      BY <1>3, <2>1, <2>2, <3>1, RestOf
    <3> QED BY <3>2 DEF Contains
  <2> QED BY <2>3, <2>4
<1>5. Due(<<>>)
  BY <1>2 DEF Heard, Down
<1>6. ASSUME queue' # <<>>
      PROVE  \/ Contains(ready', listen_socket)
             \/ \E j \in 1 .. Len(es) : es[j].fd = listen_socket
  <2>1. Contains(ready, listen_socket)
    BY <1>2, <1>5, <1>6 DEF Due
  <2>2. Reports(listen_socket) # {}
    BY <1>2, <1>6 DEF Reports
  <2>3. CASE Contains(ready', listen_socket)
    BY <2>3
  <2>4. ASSUME NEW j \in 1 .. Len(es),
               es[j] = [fd |-> listen_socket, events |-> Reports(listen_socket)]
        PROVE  es[j].fd = listen_socket
    BY <2>4
  <2> QED BY <1>4, <2>1, <2>2, <2>3, <2>4
<1>7. ASSUME NEW a \in live', NEW news \in {"IN", "RDHUP"},
             (Arrived(a)' /\ news = "IN") \/ (Ended(a)' /\ news = "RDHUP")
      PROVE  Contains(ready', heap'[a].socket) \/ Reported(es, heap'[a].socket, news)
  <2> DEFINE f == heap[a].socket
  <2>1. f # listen_socket
    BY <1>1, <1>2, MapSizeIsPositive DEF Mapped
  <2>2. \/ Arrived(a) /\ news = "IN"
        \/ Ended(a) /\ news = "RDHUP"
    BY <1>2, <1>7 DEF Arrived, Ended
  <2>3. Contains(ready, f)
    BY <1>2, <1>5, <2>2 DEF Due, Reported
  <2>4. news \in Reports(f)
    BY <2>1, <2>2 DEF Reports, Arrived, Ended
  <2>5. CASE Contains(ready', f)
    BY <1>2, <2>5
  <2>6. CASE \E j \in 1 .. Len(es) : es[j] = [fd |-> f, events |-> Reports(f)]
    <3> HIDE DEF f
    <3>1. Reported(es, f, news)
      BY <2>4, <2>6 DEF Reported
    <3> QED BY <1>2, <3>1 DEF f
  <2> QED BY <1>4, <2>3, <2>4, <2>5, <2>6
<1>8. Due(es)'
  BY <1>6, <1>7 DEF Due
<1> QED BY <1>1, <1>3, <1>8, ProcessHears

LEMMA HeardNext ==
  ASSUME ~ Signals, Inv, Inv', Heard, [Next]_vars
  PROVE  Heard'
<1>1. CASE WaitEvents
  BY <1>1, WaitEventsHears
<1>2. CASE AcceptedAll \/ ConnReturns \/ RecvNothing
  BY <1>2, ControlHears
<1>3. CASE Accept
  BY <1>3, AcceptHears
<1>4. CASE Recv \/ HandlerReturns \/ Send \/ AppWrites
  BY <1>4, RecvHears, HandlerReturnsHears, SendHears, AppWritesHears
<1>5. CASE RecvFails \/ HandlerFails \/ SendFails \/ ClientDisconnect
  BY <1>5, CloseHears DEF RecvFails, HandlerFails, SendFails, ClientDisconnect, AtAgent
<1>6. CASE AcceptFails \/ ServerCloses
  <2>1. pc' \in Down
    BY <1>6 DEF AcceptFails, ServerCloses, Walk, Down
  <2> QED BY <2>1 DEF Heard, Down, Reading
<1>7. CASE AppCloses
  BY <1>7, AppClosesHears
<1>8. CASE Clients
  BY <1>8, ClientHears DEF Clients
<1>9. CASE UNCHANGED vars
  <2>1. UNCHANGED <<events, agent, pc, live, heap, sock, client, inq, ready, queue>>
    BY <1>9 DEF vars, memory, batch, links
  <2> QED BY <2>1 DEF Heard, Due, Arrived, Ended, Reported, Reading
<1>10. ~ AcceptInterrupted
  BY DEF AcceptInterrupted
<1> QED BY <1>1, <1>2, <1>3, <1>4, <1>5, <1>6, <1>7, <1>8, <1>9, <1>10
      DEF Next, Run, Errors, IsDown

(* Edge-triggered events are reported once, the batch is bounded and       *)
(* callbacks close agents in the middle of it; yet whenever a server that  *)
(* no signals reach waits for events (hs_net_server_run), every connection *)
(* with bytes to receive or an end to notice and every client to accept is *)
(* still to be reported.                                                   *)
THEOREM NothingGoesUnheard == ASSUME ~ Signals PROVE Spec => []NothingIsMissed
<1>1. Inv /\ Heard => NothingIsMissed
  <2> SUFFICES ASSUME Heard, pc = "app"
               PROVE  /\ queue # <<>> => Contains(ready, listen_socket)
                      /\ \A a \in live :
                           Arrived(a) \/ Ended(a) => Contains(ready, heap[a].socket)
    BY DEF NothingIsMissed, Arrived, Ended
  <2>1. Due(<<>>)
    BY DEF Heard, Down
  <2> QED BY <2>1 DEF Due, Reported
<1>2. Init => Heard
  BY HeardInit
<1>3. Inv /\ Inv' /\ Heard /\ [Next]_vars => Heard'
  BY HeardNext
<1> QED BY <1>1, <1>2, <1>3, Invariance, PTL DEF Spec

-----------------------------------------------------------------------------
(* Why connections are closed.  What an event said of its connection still *)
(* holds when its turn comes: the connection is there, has ended if it had *)
(* ended, and has room to send if it had.                                  *)

Stands(e) ==
  e.fd \in Fd => /\ sock[e.fd] # NULL
                 /\ IsEnd(e) => client[sock[e.fd]] \in {"fin", "rst"}

HasRoom(e) ==
  e.fd \in Fd /\ "OUT" \in e.events =>
    client[sock[e.fd]] = "rst" \/ Len(outq[sock[e.fd]]) < KernelRoom

(* From the m-th on the events have room.                                  *)
Grounds(es, m) ==
  /\ OneEventEach(es)
  /\ \A j \in 1 .. Len(es) : Stands(es[j]) /\ (j >= m => HasRoom(es[j]))

(* An event that was sent for has used its room.                           *)
Grounded ==
  /\ pc = "app" => events = <<>>
  /\ pc = "send" => "OUT" \in Head(events).events
  /\ pc = "ends" => IsEnd(Head(events))
  /\ Grounds(events, IF pc = "ends" THEN 2 ELSE 1)

Steady(e) == Stands(e) => Stands(e)' /\ (HasRoom(e) => HasRoom(e)')

LEMMA SteadyStays ==
  ASSUME NEW es, NEW m, Grounds(es, m), \A j \in 1 .. Len(es) : Steady(es[j])
  PROVE  Grounds(es, m)'
BY DEF Grounds, OneEventEach, Steady

LEMMA UntouchedIsSteady ==
  ASSUME UNCHANGED <<sock, client, outq>>
  PROVE  \A e : Steady(e)
BY DEF Steady, Stands, HasRoom

LEMMA RestGrounds ==
  ASSUME NEW es \in Seq(Event), es # <<>>, NEW m \in {1, 2}, Grounds(es, m)
  PROVE  /\ Tail(es) \in Seq(Event) /\ Grounds(Tail(es), 1)
         /\ \A j \in 1 .. Len(Tail(es)) : Tail(es)[j].fd # Head(es).fd
         /\ Stands(Head(es)) /\ Head(es) \in Event
<1> DEFINE t == Tail(es)
<1>1. /\ t \in Seq(Event) /\ Len(t) = Len(es) - 1 /\ Len(es) \in Nat \ {0}
      /\ \A j \in 1 .. Len(t) : t[j] = es[j + 1]
      /\ Head(es) = es[1] /\ Head(es) \in Event
  BY HeadTailProperties, LenProperties, EmptySeq
<1> HIDE DEF t
<1>2. \A j \in 1 .. Len(t) : j + 1 \in 1 .. Len(es) /\ j + 1 >= m /\ j + 1 # 1
  BY <1>1
<1>3. OneEventEach(t)
  <2> SUFFICES ASSUME NEW j \in 1 .. Len(t), NEW k \in 1 .. Len(t), t[j].fd = t[k].fd
               PROVE  j = k
    BY DEF OneEventEach
  <2>1. j + 1 = k + 1
    BY <1>1, <1>2 DEF Grounds, OneEventEach
  <2> QED BY <2>1
<1>4. \A j \in 1 .. Len(t) : Stands(t[j]) /\ HasRoom(t[j])
  BY <1>1, <1>2 DEF Grounds
<1>5. 1 \in 1 .. Len(es)
  BY <1>1
<1>6. \A j \in 1 .. Len(t) : t[j].fd # Head(es).fd
  BY <1>1, <1>2, <1>5 DEF Grounds, OneEventEach
<1>7. Stands(Head(es))
  BY <1>1, <1>5 DEF Grounds
<1> QED BY <1>1, <1>3, <1>4, <1>6, <1>7 DEF Grounds, t

LEMMA ProcessGrounds ==
  ASSUME NEW es \in Seq(Event), Process(es), Grounds(es, 1)'
  PROVE  Grounded'
<1>1. PICK n \in 0 .. Len(es) :
        /\ events' = SubSeq(es, n + 1, Len(es))
        /\ IF n = Len(es) THEN agent' = NULL /\ pc' = "app"
           ELSE /\ Effective(es[n + 1])
                /\ agent' = hs_hashmap_find(agents', es[n + 1].fd)
                /\ pc' = Entry(es[n + 1])
  BY DEF Process
<1> DEFINE t == SubSeq(es, n + 1, Len(es))
<1>2. /\ t \in Seq(Event) /\ Len(t) = Len(es) - n /\ Len(es) \in Nat
      /\ \A j \in n + 1 .. Len(es) : j - n \in 1 .. Len(t) /\ t[j - n] = es[j]
  BY RestOf, LenProperties
<1> HIDE DEF t
<1>3. \A j \in 1 .. Len(t) : n + j \in 1 .. Len(es) /\ n + j >= 1 /\ t[j] = es[n + j]
  <2> SUFFICES ASSUME NEW j \in 1 .. Len(t)
               PROVE  n + j \in 1 .. Len(es) /\ n + j >= 1 /\ t[j] = es[n + j]
    OBVIOUS
  <2>1. n + j \in n + 1 .. Len(es) /\ (n + j) - n = j /\ n + j >= 1
    BY <1>2
  <2>2. t[(n + j) - n] = es[n + j]
    BY <1>2, <2>1
  <2> QED BY <2>1, <2>2
<1>4. OneEventEach(t)
  <2> SUFFICES ASSUME NEW j \in 1 .. Len(t), NEW k \in 1 .. Len(t), t[j].fd = t[k].fd
               PROVE  j = k
    BY DEF OneEventEach
  <2>1. n + j = n + k
    BY <1>3 DEF Grounds, OneEventEach
  <2> QED BY <2>1
<1>5. \A j \in 1 .. Len(t) : Stands(t[j])' /\ HasRoom(t[j])'
  BY <1>3 DEF Grounds
<1>6. events' = t
  BY <1>1 DEF t
<1>7. Grounds(t, 1)' /\ Grounds(t, 2)'
  BY <1>4, <1>5 DEF Grounds, OneEventEach
<1>9. Grounds(events, IF pc = "ends" THEN 2 ELSE 1)'
  BY <1>6, <1>7 DEF Grounds, OneEventEach
<1>10. CASE n = Len(es)
  <2>1. events' = <<>> /\ pc' = "app"
    BY <1>1, <1>2, <1>6, <1>10, EmptySeq
  <2> QED BY <1>9, <2>1 DEF Grounded
<1>11. CASE n # Len(es)
  <2> DEFINE e == es[n + 1]
  <2>1. /\ Effective(e) /\ agent' = hs_hashmap_find(agents', e.fd) /\ pc' = Entry(e)
    BY <1>1, <1>11
  <2>2. n + 1 \in n + 1 .. Len(es) /\ (n + 1) - n = 1
    BY <1>2, <1>11
  <2>3. 1 \in 1 .. Len(t) /\ t[1] = e
    BY <1>2, <2>2
  <2>4. Head(t) = e
    BY <1>2, <2>3, EmptySeq
  <2> HIDE DEF e
  <2>5. pc' = "send" => "OUT" \in e.events
    BY <2>1 DEF Entry, CanRecv, HasToSend
  <2>6. pc' = "ends" => IsEnd(e)
    BY <2>1 DEF Entry, CanRecv, HasToSend, Effective
  <2>7. pc' # "app"
    BY <2>1 DEF Entry, CanRecv
  <2> QED BY <1>6, <1>9, <2>4, <2>5, <2>6, <2>7 DEF Grounded
<1> QED BY <1>10, <1>11

(* A batch that is gone on with.                                           *)
LEMMA NextEventGrounds ==
  ASSUME InBatch, pc \in {"accept", "conn"} \cup AtAgent, Grounded, NextEvent,
         \A e \in Event : (e.fd # Head(events).fd \/ UNCHANGED links) => Steady(e)
  PROVE  Grounded'
<1>1. PICK es \in Seq(Event) : es = events
  BY DEF InBatch
<1>2. es # <<>> /\ Process(Tail(es))
  BY <1>1 DEF InBatch, NextEvent
<1>3. \E m \in {1, 2} : Grounds(es, m)
  BY <1>1 DEF Grounded
<1>4. /\ Tail(es) \in Seq(Event) /\ Grounds(Tail(es), 1)
      /\ \A j \in 1 .. Len(Tail(es)) : Tail(es)[j].fd # Head(es).fd
  BY <1>2, <1>3, RestGrounds
<1>5. \A j \in 1 .. Len(Tail(es)) : Steady(Tail(es)[j])
  BY <1>1, <1>4, ElementOfSeq
<1>6. Grounds(Tail(es), 1)'
  BY <1>4, <1>5, SteadyStays
<1> QED BY <1>2, <1>4, <1>6, ProcessGrounds

(* The batch stays as it is.                                               *)
LEMMA SameBatchGrounds ==
  ASSUME Grounded, events' = events,
         \/ pc' = pc
         \/ pc \notin {"app", "ends"} /\ pc' \notin {"app", "send", "ends"},
         events \in Seq(Event), \A e \in Event : Steady(e)
  PROVE  Grounded'
<1>1. PICK es \in Seq(Event) : es = events
  OBVIOUS
<1>2. PICK m : m = IF pc = "ends" THEN 2 ELSE 1
  OBVIOUS
<1>3. Grounds(es, m)
  BY <1>1, <1>2 DEF Grounded
<1>4. \A j \in 1 .. Len(es) : Steady(es[j])
  BY <1>1, ElementOfSeq
<1>5. Grounds(es, m)'
  BY <1>3, <1>4, SteadyStays
<1>6. m = (IF pc = "ends" THEN 2 ELSE 1)'
  BY <1>2
<1>7. Grounds(events, IF pc = "ends" THEN 2 ELSE 1)'
  BY <1>1, <1>5, <1>6 DEF Grounds, OneEventEach
<1> QED BY <1>7 DEF Grounded

(* After receiving nothing has changed that the events spoke of; after     *)
(* sending, the room of the event at hand.                                 *)
LEMMA AfterRecvGrounds ==
  ASSUME InBatch, pc \in AtAgent, pc # "ends", Grounded, AfterRecv,
         UNCHANGED <<sock, client, outq>>
  PROVE  Grounded'
<1>1. \A e : Steady(e)
  BY UntouchedIsSteady
<1>2. CASE NextEvent
  BY <1>1, <1>2, NextEventGrounds
<1>3. CASE /\ \/ pc' = "send" /\ HasToSend(ee, agent)
              \/ pc' = "ends" /\ IsEnd(ee)
           /\ UNCHANGED batch
  <2>1. PICK es \in Seq(Event) : es = events
    BY DEF InBatch
  <2>2. Grounds(es, 1)
    BY <2>1 DEF Grounded
  <2>3. Grounds(es, 1)'
    BY <1>1, <2>2, SteadyStays
  <2>4. \A m \in {1, 2} : Grounds(es, m)'
    BY <2>3 DEF Grounds
  <2>5. events' = es /\ pc' \in {"send", "ends"}
    BY <1>3, <2>1 DEF batch
  <2>6. Grounds(events, IF pc = "ends" THEN 2 ELSE 1)'
    BY <2>4, <2>5 DEF Grounds, OneEventEach
  <2> QED BY <1>3, <2>1, <2>5, <2>6 DEF Grounded, ee, HasToSend
<1> QED BY <1>2, <1>3 DEF AfterRecv, AfterSend

LEMMA SendGrounds ==
  ASSUME Inv, Grounded, Send
  PROVE  Grounded'
<1>1. Mapped /\ Paired /\ Tagged /\ InBatch
  BY DEF Inv
<1> DEFINE s == heap[agent].socket
           c == sock[s]
<1>2. pc = "send" /\ pc \in AtAgent /\ AfterSend /\ UNCHANGED <<sock, client>>
  BY DEF Send, AtAgent
<1>3. \E y : outq' = [outq EXCEPT ![c] = y]
  BY DEF Send, Peer
<1>4. agent \in live /\ s = Head(events).fd /\ s \in Fd /\ c # NULL
  BY <1>1, <1>2, AgentIsLive DEF Mapped
<1>5. ASSUME NEW e \in Event, e.fd # Head(events).fd
      PROVE  Steady(e)
  <2> SUFFICES ASSUME e.fd \in Fd, Stands(e)
               PROVE  Stands(e)' /\ (HasRoom(e) => HasRoom(e)')
    BY DEF Steady, Stands, HasRoom
  <2> DEFINE d == sock[e.fd]
  <2>1. d # NULL /\ d # c /\ d \in Client
    BY <1>1, <1>4, <1>5 DEF Stands, Paired, Mapped
  <2> HIDE DEF c
  <2>2. outq'[d] = outq[d] /\ sock' = sock /\ client' = client
    BY <1>1, <1>2, <1>3, <2>1 DEF Tagged, Carries
  <2> QED BY <2>2 DEF Stands, HasRoom
<1>6. CASE NextEvent
  <2>1. \A e \in Event : (e.fd # Head(events).fd \/ UNCHANGED links) => Steady(e)
    BY <1>5, UntouchedIsSteady DEF links
  <2> QED BY <1>1, <1>2, <1>6, <2>1, NextEventGrounds
<1>7. CASE pc' = "ends" /\ IsEnd(ee) /\ UNCHANGED batch
  <2>1. PICK es \in Seq(Event) : es = events
    BY <1>1 DEF InBatch
  <2>2. Grounds(es, 1) /\ es # <<>>
    BY <1>1, <1>2, <2>1 DEF Grounded, InBatch
  <2>3. /\ Head(es) = es[1] /\ Len(es) \in Nat \ {0}
        /\ \A j \in 1 .. Len(es) : es[j] \in Event
    BY <2>2, HeadTailProperties, ElementOfSeq, LenProperties, EmptySeq
  <2>4. \A j \in 1 .. Len(es) : Stands(es[j])'
    BY <1>2, <2>2 DEF Grounds, Stands
  <2>5. ASSUME NEW j \in 1 .. Len(es), j >= 2
        PROVE  HasRoom(es[j])'
    <3>1. es[j].fd # es[1].fd
      BY <2>2, <2>3, <2>5 DEF Grounds, OneEventEach
    <3>2. Steady(es[j])
      BY <1>5, <2>1, <2>3, <3>1
    <3> QED BY <2>2, <2>3, <2>5, <3>2 DEF Grounds, Steady
  <2>6. Grounds(es, 2)'
    BY <2>2, <2>4, <2>5 DEF Grounds, OneEventEach
  <2>7. events' = es /\ pc' = "ends" /\ IsEnd(Head(es))
    BY <1>7, <2>1 DEF batch, ee
  <2>8. Grounds(events, IF pc = "ends" THEN 2 ELSE 1)'
    BY <2>6, <2>7 DEF Grounds, OneEventEach
  <2> QED BY <2>7, <2>8 DEF Grounded
<1> QED BY <1>2, <1>6, <1>7 DEF AfterSend

LEMMA CloseGrounds ==
  ASSUME Inv, pc \in AtAgent, Grounded, hs_net_agent_close(agent), NextEvent
  PROVE  Grounded'
<1>1. Mapped /\ Paired /\ Tagged /\ InBatch
  BY DEF Inv
<1> DEFINE s == heap[agent].socket
           c == sock[s]
<1>2. /\ sock' = [sock EXCEPT ![s] = NULL]
      /\ client' = [client EXCEPT ![c] = "away"] /\ outq' = [outq EXCEPT ![c] = <<>>]
  BY DEF hs_net_agent_close, Closed
<1>3. agent \in live /\ s = Head(events).fd /\ s \in Fd /\ c # NULL
  BY <1>1, AgentIsLive DEF Mapped
<1>4. ASSUME NEW e \in Event, e.fd # Head(events).fd
      PROVE  Steady(e)
  <2> SUFFICES ASSUME e.fd \in Fd, Stands(e)
               PROVE  Stands(e)' /\ (HasRoom(e) => HasRoom(e)')
    BY DEF Steady, Stands, HasRoom
  <2> DEFINE d == sock[e.fd]
  <2>1. d # NULL /\ d # c /\ d \in Client /\ e.fd # s
    BY <1>1, <1>3, <1>4 DEF Stands, Paired, Mapped
  <2> HIDE DEF c, s
  <2>2. sock'[e.fd] = d /\ client'[d] = client[d] /\ outq'[d] = outq[d]
    BY <1>1, <1>2, <2>1 DEF Tagged, Carries, Mapped, Paired
  <2> QED BY <2>2 DEF Stands, HasRoom
<1>5. \A e \in Event : (e.fd # Head(events).fd \/ UNCHANGED links) => Steady(e)
  BY <1>4, UntouchedIsSteady DEF links
<1> QED BY <1>1, <1>5, NextEventGrounds

(* No event names the descriptor that is taken: it was free.               *)
LEMMA AcceptGrounds ==
  ASSUME Inv, Grounded, Accept
  PROVE  Grounded'
<1>1. Mapped /\ Paired /\ Tagged /\ Waiting /\ InBatch
  BY DEF Inv
<1>2. PICK a \in Agent \ live, f \in Fd : Brings(a, f)
  BY <1>1, AcceptBrings
<1>3. /\ sock[f] = NULL /\ sock' = [sock EXCEPT ![f] = Head(queue)]
      /\ pc' = "conn" /\ UNCHANGED <<client, outq, events>> /\ pc = "accept"
  BY <1>2 DEF Brings, Accept
<1>4. ASSUME NEW e \in Event
      PROVE  Steady(e)
  <2> SUFFICES ASSUME e.fd \in Fd, Stands(e)
               PROVE  Stands(e)' /\ (HasRoom(e) => HasRoom(e)')
    BY DEF Steady, Stands, HasRoom
  <2>1. e.fd # f
    BY <1>3 DEF Stands
  <2>2. sock'[e.fd] = sock[e.fd]
    BY <1>1, <1>3, <2>1 DEF Mapped
  <2> QED BY <1>3, <2>2 DEF Stands, HasRoom
<1>5. events \in Seq(Event)
  BY <1>1 DEF InBatch
<1> QED BY <1>3, <1>4, <1>5, SameBatchGrounds

(* A client that has ended does not come back over this connection, and    *)
(* what it does gives room and takes none.                                 *)
LEMMA ClientGrounds ==
  ASSUME Inv, Grounded, NEW c \in Client,
         \/ ClientConnects(c) \/ ClientSends(c) \/ ClientReads(c)
         \/ ClientCloses(c) \/ ClientResets(c)
  PROVE  Grounded'
<1>1. Mapped /\ Paired /\ Tagged /\ InBatch
  BY DEF Inv
<1>2. UNCHANGED <<sock, events, pc>>
  BY DEF ClientConnects, ClientSends, ClientReads, ClientCloses, ClientResets, batch
<1>3. ASSUME NEW d \in Client, client[d] # "away"
      PROVE  /\ client[d] \in {"fin", "rst"} => client'[d] \in {"fin", "rst"}
             /\ client[d] = "rst" => client'[d] = "rst"
  <2>1. client \in [Client -> {"away", "up", "fin", "rst"}]
    BY <1>1 DEF Paired
  <2> QED BY <1>3, <2>1
        DEF ClientConnects, ClientSends, ClientReads, ClientCloses, ClientResets
<1>4. ASSUME NEW d \in Client, Len(outq[d]) < KernelRoom
      PROVE  Len(outq'[d]) < KernelRoom
  <2>1. outq \in [Client -> Seq(Byte)] /\ KernelRoom \in Nat
    BY <1>1, Constants DEF Tagged, Carries
  <2>2. CASE ClientReads(c)
    <3>1. outq[c] # <<>> /\ outq' = [outq EXCEPT ![c] = Tail(@)]
      BY <2>2 DEF ClientReads
    <3>2. Len(Tail(outq[c])) = Len(outq[c]) - 1 /\ Len(outq[c]) \in Nat
      BY <2>1, <3>1, HeadTailProperties, LenProperties
    <3>3. CASE d = c
      <4>1. outq'[d] = Tail(outq[c])
        BY <2>1, <3>1, <3>3
      <4> QED BY <1>4, <2>1, <3>2, <3>3, <4>1
    <3>4. CASE d # c
      <4>1. outq'[d] = outq[d]
        BY <2>1, <3>1, <3>4
      <4> QED BY <1>4, <4>1
    <3> QED BY <3>3, <3>4
  <2>3. CASE ClientResets(c)
    <3>1. outq' = [outq EXCEPT ![c] = <<>>]
      BY <2>3 DEF ClientResets
    <3>2. Len(<<>>) = 0 /\ Len(outq[d]) \in Nat
      BY <2>1, EmptySeq, LenProperties
    <3>3. outq'[d] \in {outq[d], <<>>}
      BY <2>1, <3>1
    <3> QED BY <1>4, <2>1, <3>2, <3>3
  <2>4. CASE outq' = outq
    BY <1>4, <2>4
  <2> QED BY <2>2, <2>3, <2>4 DEF ClientConnects, ClientSends, ClientCloses
<1>5. ASSUME NEW e \in Event
      PROVE  Steady(e)
  <2> SUFFICES ASSUME e.fd \in Fd, Stands(e)
               PROVE  Stands(e)' /\ (HasRoom(e) => HasRoom(e)')
    BY DEF Steady, Stands, HasRoom
  <2>1. sock[e.fd] \in Client /\ client[sock[e.fd]] # "away"
    BY <1>1 DEF Stands, Mapped, Paired
  <2> QED BY <1>2, <1>3, <1>4, <2>1 DEF Stands, HasRoom
<1>6. events \in Seq(Event)
  BY <1>1 DEF InBatch
<1> QED BY <1>2, <1>5, <1>6, SameBatchGrounds

(* The mask is that of the moment of the wait.                             *)
LEMMA WaitEventsGrounds ==
  ASSUME Inv, WaitEvents
  PROVE  Grounded'
<1>1. Waiting
  BY DEF Inv
<1>2. PICK es \in Seq(Event), m \in 0 .. Len(ready) :
        /\ Len(es) <= agent_size /\ Process(es)
        /\ ready' = SubSeq(ready, m + 1, Len(ready))
        /\ OneEventEach(es)
        /\ \A j \in 1 .. Len(es) :
             es[j].events = Reports(es[j].fd) /\ Contains(ready, es[j].fd)
  BY <1>1, BatchTaken
<1>3. ASSUME NEW j \in 1 .. Len(es)
      PROVE  Stands(es[j]) /\ HasRoom(es[j])
  <2> DEFINE f == es[j].fd
  <2>1. CASE f \in Fd
    <3>1. f # listen_socket /\ sock[f] # NULL
      BY <1>1, <1>2, <2>1, MapSizeIsPositive DEF Waiting, Contains
    <3>2. es[j].events = Reports(f)
      BY <1>2
    <3>3. "OUT" \in Reports(f) => client[sock[f]] = "rst" \/ Len(outq[sock[f]]) < KernelRoom
      BY <3>1 DEF Reports
    <3>4. Reports(f) \cap {"ERR", "RDHUP"} # {} => client[sock[f]] \in {"fin", "rst"}
      BY <3>1 DEF Reports
    <3> QED BY <3>1, <3>2, <3>3, <3>4 DEF Stands, HasRoom, IsEnd
  <2>2. CASE f \notin Fd
    BY <2>2 DEF Stands, HasRoom
  <2> QED BY <2>1, <2>2
<1>4. Grounds(es, 1)
  BY <1>2, <1>3 DEF Grounds
<1>5. UNCHANGED <<sock, client, outq>>
  BY DEF WaitEvents, links
<1>6. Grounds(es, 1)'
  BY <1>4, <1>5, UntouchedIsSteady, SteadyStays
<1> QED BY <1>2, <1>6, ProcessGrounds

LEMMA GroundedNext ==
  ASSUME ClosesFrom \subseteq {"app"}, Inv, Grounded, [Next]_vars
  PROVE  Grounded'
<1>1. InBatch /\ events \in Seq(Event)
  BY DEF Inv, InBatch
<1>2. UNCHANGED <<sock, client, outq>> => \A e \in Event : Steady(e)
  BY UntouchedIsSteady
<1>3. CASE WaitEvents
  BY <1>3, WaitEventsGrounds
<1>4. CASE AcceptedAll \/ AcceptInterrupted
  BY <1>1, <1>2, <1>4, NextEventGrounds DEF AcceptedAll, AcceptInterrupted, links
<1>5. CASE Accept
  BY <1>5, AcceptGrounds
<1>6. CASE ConnReturns \/ Recv \/ AppWrites
  <2>1. /\ UNCHANGED <<sock, client, outq, events>>
        /\ \/ pc' = pc
           \/ pc \in {"conn", "recv"} /\ pc' \in {"accept", "handler"}
    BY <1>6 DEF ConnReturns, AcceptOn, Recv, AppWrites, links, batch
  <2> QED BY <1>1, <1>2, <2>1, SameBatchGrounds
<1>7. CASE RecvNothing
  BY <1>1, <1>7, AfterRecvGrounds DEF RecvNothing, links, AtAgent
<1>8. CASE HandlerReturns
  <2>1. pc \in {"handler", "again"} /\ pc \in AtAgent /\ UNCHANGED <<sock, client, outq>>
    BY <1>8 DEF HandlerReturns, AtAgent, links
  <2>2. CASE AfterRecv
    BY <1>1, <2>1, <2>2, AfterRecvGrounds
  <2>3. CASE pc' = CanRecv(agent) /\ UNCHANGED batch
    <3>1. pc' \in {"recv", "again"} /\ events' = events
      BY <2>3 DEF CanRecv, batch
    <3> QED BY <1>1, <1>2, <2>1, <3>1, SameBatchGrounds
  <2> QED BY <1>8, <2>2, <2>3 DEF HandlerReturns, AfterHandler
<1>9. CASE Send
  BY <1>9, SendGrounds
<1>10. CASE RecvFails \/ HandlerFails \/ SendFails \/ ClientDisconnect
  BY <1>10, CloseGrounds DEF RecvFails, HandlerFails, SendFails, ClientDisconnect, AtAgent
<1>11. CASE AcceptFails \/ ServerCloses
  <2>1. pc' \in Down /\ events' = <<>>
    BY <1>11 DEF AcceptFails, ServerCloses, Walk, Down
  <2>2. 1 .. Len(<<>>) = {}
    BY EmptySeq
  <2> QED BY <2>1, <2>2 DEF Grounded, Grounds, OneEventEach, Down
<1>12. CASE AppCloses
  <2>1. events = <<>> /\ UNCHANGED <<events, pc>> /\ pc = "app"
    BY <1>12 DEF AppCloses, Grounded, batch
  <2>2. 1 .. Len(<<>>) = {}
    BY EmptySeq
  <2> QED BY <2>1, <2>2 DEF Grounded, Grounds, OneEventEach
<1>13. CASE Clients
  BY <1>13, ClientGrounds DEF Clients
<1>14. CASE UNCHANGED vars
  BY <1>1, <1>2, <1>14, SameBatchGrounds DEF vars, batch, links
<1> QED BY <1>3, <1>4, <1>5, <1>6, <1>7, <1>8, <1>9, <1>10, <1>11, <1>12, <1>13, <1>14
      DEF Next, Run, Errors, IsDown

(* Without signals, and with an application that closes agents between     *)
(* runs only, no descriptor of a batch changes hands before its event is   *)
(* processed.  What the event said still holds then, so _recv_event,       *)
(* _send_event and the end of process_event close a connection only if its *)
(* client has ended it.  Applications that close during a batch are not    *)
(* covered: for them the statement is false.                               *)
THEOREM ClosedWithCause ==
  ASSUME ~ Signals, ClosesFrom \subseteq {"app"}
  PROVE  Spec => ClosedForCause
<1> DEFINE Cause ==
      \A f \in Fd :
        pc \in {"recv", "send", "ends"} /\ sock[f] # NULL /\ sock'[f] = NULL
          => client[sock[f]] \in {"fin", "rst"}
<1>1. ASSUME Inv, Grounded, [Next]_vars
      PROVE  Cause
  <2> SUFFICES ASSUME NEW f \in Fd, pc \in {"recv", "send", "ends"},
                      sock[f] # NULL, sock'[f] = NULL
               PROVE  client[sock[f]] \in {"fin", "rst"}
    OBVIOUS
  <2>1. Mapped /\ Paired /\ InBatch
    BY <1>1 DEF Inv
  <2>2. sock' # sock
    OBVIOUS
  <2>3. (RecvFails \/ SendFails \/ ClientDisconnect) /\ hs_net_agent_close(agent)
    <3>1. ~ (WaitEvents \/ AcceptedAll \/ Accept \/ ConnReturns \/ HandlerReturns)
      BY DEF WaitEvents, AcceptedAll, Accept, ConnReturns, HandlerReturns
    <3>2. ~ (Recv \/ RecvNothing \/ Send \/ AppWrites)
      BY <2>2 DEF Recv, RecvNothing, Send, AppWrites, links
    <3>3. ~ (AcceptInterrupted \/ AcceptFails \/ HandlerFails \/ ServerCloses \/ AppCloses)
      BY DEF AcceptInterrupted, AcceptFails, HandlerFails, ServerCloses, AppCloses
    <3>4. ~ Clients
      BY <2>2 DEF Clients, ClientConnects, ClientSends, ClientReads, ClientCloses, ClientResets
    <3>5. ~ UNCHANGED vars
      BY <2>2 DEF vars, links
    <3>6. RecvFails \/ SendFails \/ ClientDisconnect
      BY <1>1, <3>1, <3>2, <3>3, <3>4, <3>5 DEF Next, Run, Errors, IsDown
    <3> QED BY <3>6 DEF RecvFails, SendFails, ClientDisconnect
  <2>4. heap[agent].socket = f /\ Head(events).fd = f /\ pc \in AtAgent
    <3>1. sock' = [sock EXCEPT ![heap[agent].socket] = NULL]
      BY <2>3 DEF hs_net_agent_close, Closed
    <3>2. heap[agent].socket = f
      BY <2>1, <3>1 DEF Mapped
    <3>3. pc \in AtAgent
      BY DEF AtAgent
    <3> QED BY <2>1, <3>2, <3>3, AgentIsLive
  <2>5. PICK es \in Seq(Event) : es = events
    BY <2>1 DEF InBatch
  <2>6. es # <<>> /\ Head(es) = es[1] /\ 1 \in 1 .. Len(es)
    <3>1. es # <<>>
      BY <2>1, <2>4, <2>5 DEF InBatch
    <3> QED BY <3>1, HeadTailProperties, EmptySeq
  <2>7. CASE RecvFails
    BY <2>4, <2>7 DEF RecvFails, Peer
  <2>8. CASE SendFails
    <3>1. /\ "OUT" \in es[1].events /\ es[1].fd = f /\ Grounds(es, 1)
      BY <1>1, <2>4, <2>5, <2>6, <2>8 DEF SendFails, Grounded
    <3>2. client[sock[f]] = "rst" \/ Len(outq[sock[f]]) < KernelRoom
      BY <2>6, <3>1 DEF Grounds, HasRoom
    <3>3. client[sock[f]] = "rst" \/ KernelRoom - Len(outq[sock[f]]) = 0
      BY <2>4, <2>8 DEF SendFails, Peer, Room
    <3>4. KernelRoom \in Nat /\ Len(outq[sock[f]]) \in Nat
      <4>1. sock[f] \in Client /\ outq \in [Client -> Seq(Byte)]
        BY <1>1, <2>1 DEF Inv, Mapped, Tagged, Carries
      <4> QED BY <4>1, Constants, LenProperties
    <3> QED BY <3>2, <3>3, <3>4
  <2>9. CASE ClientDisconnect
    <3>1. IsEnd(es[1]) /\ es[1].fd = f /\ Grounds(es, 2)
      BY <1>1, <2>4, <2>5, <2>6, <2>9 DEF ClientDisconnect, Grounded
    <3> QED BY <2>6, <3>1 DEF Grounds, Stands
  <2> QED BY <2>3, <2>7, <2>8, <2>9
<1>2. Init => Grounded
  <2> SUFFICES ASSUME Init PROVE Grounded
    OBVIOUS
  <2>1. events = <<>> /\ pc = "app" /\ 1 .. Len(<<>>) = {}
    BY EmptySeq DEF Init
  <2> QED BY <2>1 DEF Grounded, Grounds, OneEventEach
<1>3. Inv /\ Grounded /\ [Next]_vars => Grounded'
  BY GroundedNext
<1>4. Inv /\ Grounded /\ [Next]_vars => [Cause]_vars
  BY <1>1
<1>5. ClosedForCause <=> [][Cause]_vars
  BY DEF ClosedForCause
<1> HIDE DEF Cause
<1> QED BY <1>2, <1>3, <1>4, <1>5, Invariance, PTL DEF Spec

=============================================================================
