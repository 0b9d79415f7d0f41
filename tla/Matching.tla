------------------------------ MODULE Matching ------------------------------
(***************************************************************************)
(* matcher/: which ledger entry a transaction may clear against.  A ledger *)
(* is a set of entries: neither the service nor the evaluation asks the    *)
(* database for an order, so a matcher that takes the last or the first of *)
(* several may take any of them.  What identifies a transaction or an entry*)
(* to the matcher is its key.                                              *)
(***************************************************************************)
EXTENDS Integers, Sequences, FiniteSetsExt

CONSTANT NoEntry   \* Python's None, where an entry or an invoice is expected

(* Mutant of _key: the date does not count.                                *)
_key_undated(x) == <<x.amount, x.currency, x.reference>>

_key(x) == <<x.amount, x.currency, x.date, x.reference>>

SameKey(ledger, txn) == {entry \in ledger : _key(entry) = _key(txn)}

(* What it may return, looking the key up in the dict of the ledger by key.*)
match_deterministic(txn, ledger) ==
  IF SameKey(ledger, txn) = {} THEN {NoEntry} ELSE SameKey(ledger, txn)

check_invoice_exists(entry, valid) ==
  entry.invoice_number # NoEntry /\ entry.invoice_number \in valid

(* reconcile up to claim_fn: the entry it asks a claim for, if any.  The   *)
(* claim is the caller's: a table in the service, a set in the evaluation. *)
Claimed(hit, valid) ==
  IF hit # NoEntry /\ check_invoice_exists(hit, valid) THEN hit ELSE NoEntry

(* baseline.py: one of the entries whose description is most like the      *)
(* transaction's, if it is like enough.                                    *)
CONFIDENCE_THRESHOLD == 85

BestScore(scores) == Max({scores[entry] : entry \in DOMAIN scores} \cup {0})

match_baseline(scores, ledger) ==
  IF BestScore(scores) < CONFIDENCE_THRESHOLD THEN {NoEntry}
  ELSE {entry \in ledger : scores[entry] = BestScore(scores)}
=============================================================================
