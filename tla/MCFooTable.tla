----------------------------- MODULE MCFooTable -----------------------------
(* FooTable for TLC: threads, objects and references are interchangeable.  *)
EXTENDS FooTable, TLC

Symmetry == Permutations(Threads) \cup Permutations(Objs) \cup Permutations(Refs)
=============================================================================
