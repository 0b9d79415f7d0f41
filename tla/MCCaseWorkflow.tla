--------------------------- MODULE MCCaseWorkflow ---------------------------
(* Finite instances of CaseWorkflow for TLC.                               *)
EXTENDS CaseWorkflow, TLC

(* Every statement line carries the same transaction, so cases stay        *)
(* interchangeable, as invocations and uuids are.                          *)
MCStatement == [c \in Cases |-> CHOOSE t \in Txn : TRUE]

Symmetry == Permutations(Invs) \cup Permutations(Cases) \cup Permutations(EntryIds)

(* States that differ only in what reviewers decided last and in how often *)
(* a case went round are one: no step and no property of the posting run   *)
(* depends on either.                                                      *)
PostingView ==
  <<ckpt, caseIndex, claims, inv, stuck, net, journal, keys, trail, acked, approved, used>>
=============================================================================
