----------------------------- MODULE MCFooTable -----------------------------
(* Small tables: ids 0 and 2 share a chain when HASH_NUMBER is 2. *)
EXTENDS FooTable, TLC

Symmetry == Permutations(Thread) \cup Permutations(Foo)
=============================================================================
