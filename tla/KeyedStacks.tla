----------------------------- MODULE KeyedStacks -----------------------------
(***************************************************************************)
(* What the hash map promises a program: for each key a stack of values.   *)
(* A value put under a key that has none is found until it is deleted; one *)
(* put under a key that has some is refused, or lies on top of them until  *)
(* it is deleted and the older one is found again.  A program that lets    *)
(* one group of keys have as many values as a bucket has slots may lose    *)
(* the map with the next insertion.                                        *)
(***************************************************************************)
EXTENDS Integers, Sequences, FiniteSets

CONSTANTS Key, Value, NULL, Groups, GroupSize

VARIABLES
  stacks,   \* the values under each key, newest first
  lost,
  reply     \* what the last call returned

vars == <<stacks, lost, reply>>

Group(k) == k % Groups

Init == stacks = [k \in Key |-> <<>>] /\ lost = FALSE /\ reply = NULL

Push(k, v) ==
  /\ ~ lost
  /\ stacks' = [stacks EXCEPT ![k] = <<v>> \o @]
  /\ reply' = TRUE
  /\ UNCHANGED lost

Refuse(k) ==
  /\ ~ lost /\ stacks[k] # <<>>
  /\ reply' = FALSE
  /\ UNCHANGED <<stacks, lost>>

(* The places in the stacks of a group that are taken.                     *)
HeldBy(g) == UNION {{o} \X (1 .. Len(stacks[o])) : o \in {o \in Key : Group(o) = g}}

Lose(k) ==
  /\ ~ lost /\ stacks[k] = <<>>
  /\ Cardinality(HeldBy(Group(k))) >= GroupSize
  /\ stacks' = [other \in Key |-> <<>>] /\ lost' = TRUE
  /\ reply' = TRUE

Find(k) ==
  /\ ~ lost
  /\ reply' = IF stacks[k] = <<>> THEN NULL ELSE Head(stacks[k])
  /\ UNCHANGED <<stacks, lost>>

Delete(k) ==
  /\ ~ lost
  /\ reply' = (stacks[k] # <<>>)
  /\ stacks' = [stacks EXCEPT ![k] = IF @ = <<>> THEN <<>> ELSE Tail(@)]
  /\ UNCHANGED lost

Next == \E k \in Key :
  \/ \E v \in Value : Push(k, v)
  \/ Refuse(k) \/ Lose(k) \/ Find(k) \/ Delete(k)

Spec == Init /\ [][Next]_vars
=============================================================================
