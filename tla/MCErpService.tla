---------------------------- MODULE MCErpService ----------------------------
(* Finite instances of ErpService for TLC.                                 *)
EXTENDS ErpService, TLC

(* Threads, keys and uuids are interchangeable: nothing orders them.       *)
Symmetry == Permutations(Workers) \cup Permutations(Keys) \cup Permutations(EntryIds)
=============================================================================
