-------------------------- MODULE MCThreadPrograms --------------------------
(* Slices of equal and of different lengths, one thread, one element each, *)
(* a shape whose last slice is empty and an empty vector.                  *)
EXTENDS ThreadPrograms

MCShapes == {[sz |-> 4, n |-> 2], [sz |-> 5, n |-> 3], [sz |-> 3, n |-> 3],
             [sz |-> 2, n |-> 1], [sz |-> 4, n |-> 3],
             [sz |-> 0, n |-> 1]}
=============================================================================
