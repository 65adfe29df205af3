------------------------- MODULE MCFileMemoryStore -------------------------
(* Instances of FileMemoryStore for TLC. *)
EXTENDS FileMemoryStore, TLC

Writers == Permutations(Writer)
=============================================================================
