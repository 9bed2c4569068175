--------------------------- MODULE MCSqliteStore ---------------------------
(* SqliteStore with interchangeable tasks. *)
EXTENDS SqliteStore, TLC
TaskSymmetry == Permutations(Task)
=============================================================================
