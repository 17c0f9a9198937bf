------------------------------- MODULE DArray -------------------------------
(***************************************************************************)
(* The array every bank of the game keeps its items in                     *)
(* (src/lib/tosser/src/darray.cpp): slots that are used or not, as its     *)
(* shadow array says, and a size that does not follow the number of used   *)
(* slots.  An array is a sequence; the slot with index i of the code is    *)
(* its element i + 1.                                                      *)
(***************************************************************************)
EXTENDS Integers, Sequences, FiniteSets

CONSTANT Unused  (* the content of a slot whose shadow is 0                *)

\* The used slots.
UsedSlots(a) == {i \in 1..Len(a) : a[i] # Unused}

ValidIndex(a, i) == i \in 1..Len(a) /\ a[i] # Unused

\* Cut off at the end, or lengthened with unused slots.
SetSize(a, newsize) ==
  [i \in 1..(IF newsize <= 0 THEN 0 ELSE newsize) |->
     IF i <= Len(a) THEN a[i] ELSE Unused]

\* PutData with an index, which has to lie inside the array.
PutData(a, i, newdata) == [a EXCEPT ![i] = newdata]

RemoveData(a, i) == [a EXCEPT ![i] = Unused]
=============================================================================
