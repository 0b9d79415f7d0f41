------------------------------ MODULE ErpLedger ------------------------------
(***************************************************************************)
(* What the mock ERP promises its callers, with every write atomic: a      *)
(* journal of entries, a table that remembers which entry an idempotency   *)
(* key produced, and an audit trail that gains exactly one fact for each   *)
(* entry written.  There are no threads, sessions or locks here; module    *)
(* ErpService has them and is shown to implement this one.                 *)
(***************************************************************************)
EXTENDS Integers

CONSTANTS
  Cases,       \* case ids that may be posted
  Amounts,     \* amounts a posting may carry, in whole units
  Parties,     \* (currency, entity) pairs, opaque to the ERP
  Keys,        \* idempotency keys
  EntryIds,    \* the ids uuid4 can draw
  ExactLimit,  \* 2^53 in CPython: every integer up to it is an exact float
  None         \* SQL NULL, and the absent row

VARIABLES
  journal,     \* journal_entries: entry id -> row, None when there is no row
  keys,        \* idempotency_keys: key -> entry id, None when there is no row
  trail,       \* the facts of the audit log, without its chain
  acked        \* <<key, entry>> pairs some 201 response has carried

ledgerVars == <<journal, keys, trail, acked>>

-----------------------------------------------------------------------------
(* Data                                                                    *)

(* What compute_detail_hash commits to.  SHA-256 is taken to be injective, *)
(* so a detail is its own hash.                                            *)
Detail == [case: Cases, amount: Int, party: Parties]
PostDetail == [case: Cases, amount: Amounts, party: Parties]

Row == [detail: Detail, status: {"posted", "reversed"},
        orig: EntryIds \cup {None}, rev: EntryIds \cup {None}]

Fact == [type: {"posted", "reversed"}, entry: EntryIds]

(* float(a): exact up to ExactLimit and, between it and twice it, the      *)
(* nearest even integer, a tie going to the even significand.              *)
FloatOf(a) ==
  CASE a \in -ExactLimit .. ExactLimit \/ a % 2 = 0 -> a
    [] a % 4 = 1 -> a - 1
    [] OTHER     -> a + 1

(* The reversing row's amount goes through a float: str(-float(amount)).   *)
Negated(d) == [d EXCEPT !.amount = -FloatOf(@)]

NewRow(d, orig) ==
  [detail |-> d, status |-> "posted", orig |-> orig, rev |-> None]

(* Mutant of WithReversal: reversed_entry_id is not set.                   *)
WithReversalUnlinked(j, o, e) ==
  [j EXCEPT ![o].status = "reversed", ![e] = NewRow(Negated(j[o].detail), o)]

(* Mutant of WithReversal: the amount is negated in place as well.         *)
WithReversalInPlace(j, o, e) ==
  [j EXCEPT ![o].status = "reversed", ![o].rev = e, ![o].detail = Negated(@),
            ![e] = NewRow(Negated(j[o].detail), o)]

(* The journal once row e reverses row o.                                  *)
WithReversal(j, o, e) ==
  [j EXCEPT ![o].status = "reversed", ![o].rev = e,
            ![e] = NewRow(Negated(j[o].detail), o)]

-----------------------------------------------------------------------------

Init ==
  /\ journal = [e \in EntryIds |-> None]
  /\ keys = [k \in Keys |-> None]
  /\ trail = {}
  /\ acked = {}

(* A key used for the first time gets a new entry ...                      *)
Post(k, d, e) ==
  /\ keys[k] = None
  /\ journal[e] = None
  /\ journal' = [journal EXCEPT ![e] = NewRow(d, None)]
  /\ keys' = [keys EXCEPT ![k] = e]
  /\ trail' = trail \cup {[type |-> "posted", entry |-> e]}
  /\ acked' = acked \cup {<<k, e>>}

(* ... as does a reversal of an existing entry o ...                       *)
Reverse(k, o, e) ==
  /\ keys[k] = None
  /\ journal[o] # None
  /\ journal[e] = None
  /\ journal' = WithReversal(journal, o, e)
  /\ keys' = [keys EXCEPT ![k] = e]
  /\ trail' = trail \cup {[type |-> "reversed", entry |-> e]}
  /\ acked' = acked \cup {<<k, e>>}

(* ... and a key used again is answered with the entry it made, whatever   *)
(* else the request says.                                                  *)
Replay(k) ==
  /\ keys[k] # None
  /\ acked' = acked \cup {<<k, keys[k]>>}
  /\ UNCHANGED <<journal, keys, trail>>

Next ==
  \E k \in Keys :
    \/ \E d \in PostDetail, e \in EntryIds : Post(k, d, e)
    \/ \E o, e \in EntryIds : Reverse(k, o, e)
    \/ Replay(k)

Spec == Init /\ [][Next]_ledgerVars
=============================================================================
