------------------------------ MODULE HashMap ------------------------------
(***************************************************************************)
(* hs_ds/src/hs_hashmap.c: a table of buckets with a fixed number of       *)
(* slots, as operators on values of struct hs_hashmap.  A bucket is        *)
(* allocated when the first pair comes; a slot holds a pair or is not      *)
(* valid (NULL), and nothing is read from one that is not.  elem_num is    *)
(* counted up and never used.  The cells of a new table are taken to be    *)
(* NULL, as in fresh memory: the source does not set them.                 *)
(***************************************************************************)
EXTENDS Integers, FiniteSetsExt

CONSTANTS
  NULL,
  s_min_hash_size,   \* 128 in the source
  s_bucket_size      \* 8

ASSUME HashMapAssumption ==
  /\ s_min_hash_size \in Nat \ {0}
  /\ s_bucket_size \in Nat /\ s_bucket_size >= 2
  /\ NULL \notin Int

Slot == 1 .. s_bucket_size

NoPair == [j \in Slot |-> NULL]

(* `dangling' says that the buckets were freed and are still referred to.  *)
hs_hashmap_create(s) ==
  LET size == s_min_hash_size * ((s - 1) \div s_min_hash_size + 1)
  IN  [data_ptr |-> [h \in 0 .. size - 1 |-> NULL], size |-> size, dangling |-> FALSE]

HashMaps(size, Key, Value) ==
  [data_ptr : [0 .. size - 1 ->
                 {NULL} \cup [Slot -> {NULL} \cup [key : Key, value : Value]]],
   size : {size}, dangling : BOOLEAN]

-----------------------------------------------------------------------------
(* hs_hashmap_insert and _rehash                                           *)

Bucket(hm, key) ==
  LET p == hm.data_ptr[key % hm.size]
  IN  IF p = NULL THEN NoPair ELSE p

(* Where the scan for a place stops: at a pair of the key, or a free slot. *)
Stops(kvp, key) == {j \in Slot : IF kvp[j] = NULL THEN TRUE ELSE kvp[j].key = key}

(* The value hs_hashmap_insert returns.                                    *)
Inserts(hm, key) ==
  LET kvp == Bucket(hm, key)
  IN  Stops(kvp, key) = {} \/ kvp[Min(Stops(kvp, key))] = NULL

(* A full bucket has everything moved to a larger table, which only the    *)
(* callee sees: the caller is left with the freed one.                     *)
hs_hashmap_insert(hm, key, value) ==
  LET kvp == Bucket(hm, key)
      stops == Stops(kvp, key)
  IN  CASE stops = {} -> [hm EXCEPT !.dangling = TRUE]
        [] stops # {} /\ Inserts(hm, key) ->
             [hm EXCEPT !.data_ptr[key % hm.size] =
                [kvp EXCEPT ![Min(stops)] = [key |-> key, value |-> value]]]
        [] OTHER -> hm

-----------------------------------------------------------------------------
(* hs_hashmap_find and hs_hashmap_delete                                   *)

(* Faulty variant: the last pair of the key is taken.                      *)
LastPairAt(hm, key) ==
  LET kvp == Bucket(hm, key)
      at == {j \in Slot : kvp[j] # NULL /\ kvp[j].key = key}
  IN  IF at = {} THEN NULL ELSE Max(at)

(* _hashmap_get: the slot of the first pair of the key.                    *)
PairAt(hm, key) ==
  LET kvp == Bucket(hm, key)
      at == {j \in Slot : kvp[j] # NULL /\ kvp[j].key = key}
  IN  IF at = {} THEN NULL ELSE Min(at)

(* The value found, NULL for a key that is not there.                      *)
hs_hashmap_find(hm, key) ==
  IF PairAt(hm, key) = NULL THEN NULL ELSE Bucket(hm, key)[PairAt(hm, key)].value

hs_hashmap_delete(hm, key) ==
  IF PairAt(hm, key) = NULL THEN hm
  ELSE [hm EXCEPT !.data_ptr[key % hm.size][PairAt(hm, key)] = NULL]

-----------------------------------------------------------------------------
(* The iterator: iter_init sets it on the first slot of the first bucket,  *)
(* and it stays there, because iter_next does not store how far it came.   *)

(* hs_hashmap_iter_data: the value there, NULL when it returns false.      *)
hs_hashmap_iter_data(hm) ==
  LET p == hm.data_ptr[0]
  IN  IF p = NULL THEN NULL ELSE IF p[1] = NULL THEN NULL ELSE p[1].value

(* hs_hashmap_iter_next: whether there is a pair behind it, unless the     *)
(* scan comes to a bucket that was never allocated before it finds one: it *)
(* goes on to the second slot of that bucket.                              *)
hs_hashmap_iter_next(hm) ==
  LET met(h) == \/ hm.data_ptr[h] = NULL
                \/ \E j \in Slot : hm.data_ptr[h][j] # NULL /\ (h = 0 => j # 1)
      ends == {h \in 0 .. hm.size - 1 : met(h)}
  IN  CASE ends = {} -> "none"
        [] ends # {} /\ hm.data_ptr[Min(ends)] = NULL -> "crashes"
        [] OTHER -> "more"
=============================================================================
