------------------------------ MODULE MCKVStore ------------------------------
(* A small store: the keys are interchangeable.                              *)
EXTENDS KVStore, TLC

Symmetry == Permutations(Keys)
==============================================================================
