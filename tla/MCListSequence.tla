---------------------------- MODULE MCListSequence ----------------------------
(***************************************************************************)
(* The items inserted are not those of the arrays, so that it shows where  *)
(* an item went; an empty and a full array.                                *)
(***************************************************************************)
EXTENDS ListSequence

MCItem == {1, 2, 3}
MCFunc == [item \in MCItem |-> IF item = 1 THEN 2 ELSE 1]
MCInitial == { <<>>, <<1, 2>> }
MCIndex == {-2, 0, 1, 3}
=============================================================================
