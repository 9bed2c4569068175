--------------------------- MODULE MCMemoryStore ---------------------------
(* MemoryStore with three interchangeable tasks. *)
EXTENDS MemoryStore, TLC
TaskSymmetry == Permutations(Task)
=============================================================================
