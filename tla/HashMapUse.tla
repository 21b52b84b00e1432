----------------------------- MODULE HashMapUse -----------------------------
(***************************************************************************)
(* A hash map and a program that inserts, finds and deletes any key at any *)
(* time, as long as the map is there.                                      *)
(***************************************************************************)
EXTENDS HashMap

CONSTANTS
  Key, Value,
  MapSize      \* what the program asks hs_hashmap_create for

ASSUME HashMapUseAssumption ==
  /\ MapSize \in Nat \ {0} /\ Key \subseteq Nat
  /\ NULL \notin Value
  /\ LET Pair == [key : Key, value : Value]
     IN  NULL \notin Pair \cup [Slot -> {NULL} \cup Pair]

VARIABLES
  map,
  reply    \* what the last call returned

vars == <<map, reply>>

Init == map = hs_hashmap_create(MapSize) /\ reply = NULL

TypeOK ==
  /\ map \in HashMaps(map.size, Key, Value) /\ map.size >= MapSize
  /\ reply \in BOOLEAN \cup Value \cup {NULL}

Insert(k, v) ==
  /\ ~ map.dangling
  /\ map' = hs_hashmap_insert(map, k, v)
  /\ reply' = Inserts(map, k)

Find(k) ==
  /\ ~ map.dangling
  /\ reply' = hs_hashmap_find(map, k)
  /\ UNCHANGED map

Delete(k) ==
  /\ ~ map.dangling
  /\ map' = hs_hashmap_delete(map, k)
  /\ reply' = (PairAt(map, k) # NULL)

(* The map was freed under the program, which can only stop using it.      *)
Lost == map.dangling /\ UNCHANGED vars

Next ==
  \/ \E k \in Key : (\E v \in Value : Insert(k, v)) \/ Find(k) \/ Delete(k)
  \/ Lost

Spec == Init /\ [][Next]_vars

-----------------------------------------------------------------------------
(* The n-th of a set of slots.                                             *)
Place(S, n) == CHOOSE j \in S : Cardinality({i \in S : i <= j}) = n

PairsOf(kvp, k) == {j \in Slot : kvp[j] # NULL /\ kvp[j].key = k}

(* The values a bucket has for a key, in the order of their slots.         *)
Under(kvp, k) ==
  [n \in 1 .. Cardinality(PairsOf(kvp, k)) |-> kvp[Place(PairsOf(kvp, k), n)].value]

Stacks == INSTANCE KeyedStacks WITH
  stacks <- [k \in Key |-> IF map.dangling THEN <<>> ELSE Under(Bucket(map, k), k)],
  lost <- map.dangling,
  Groups <- hs_hashmap_create(MapSize).size,
  GroupSize <- s_bucket_size

(* However insertions and deletions mix in a bucket, what hs_hashmap_find, *)
(* hs_hashmap_insert and hs_hashmap_delete return is what stacks of values *)
(* return, and the map is lost at a full bucket only (hs_hashmap.c:102).   *)
IsKeyedStacks == Stacks!Spec
=============================================================================
