------------------------------- MODULE Array -------------------------------
(***************************************************************************)
(* hs_ds/src/hs_array.c: the growing array of pointers, as operators on    *)
(* values of struct hs_array.  The first elem_num cells of data_ptr are    *)
(* the sequence elems; no operation reads a cell behind them.  Indices     *)
(* are those of the source and start at 0.                                 *)
(***************************************************************************)
EXTENDS Integers, SequencesExt

CONSTANT NULL

hs_array_create(cap) == [elems |-> <<>>, capacity |-> cap]

hs_array_elem_num(array) == Len(array.elems)

hs_array_capacity(array) == array.capacity

(* _grow_capacity doubles.                                                 *)
hs_array_push_elem(array, data) ==
  [elems |-> Append(array.elems, data),
   capacity |-> IF array.capacity <= Len(array.elems)
                THEN 2 * array.capacity ELSE array.capacity]

hs_array_get_elem(array, index) ==
  IF index \in 0 .. Len(array.elems) - 1 THEN array.elems[index + 1] ELSE NULL

hs_array_delete_byindex(array, index) ==
  IF index \in 0 .. Len(array.elems) - 1
  THEN [array EXCEPT !.elems = RemoveAt(@, index + 1)]
  ELSE array

(* Only the first cell that holds data.                                    *)
hs_array_delete_first(array, data) ==
  [array EXCEPT !.elems = RemoveFirst(@, data)]
=============================================================================
