----------------------------- MODULE Evaluation -----------------------------
(***************************************************************************)
(* The benchmark behind README.md's table of results: generate_split makes *)
(* a labelled split, load_split puts it into the tables, and one of the two*)
(* evaluation scripts runs a matcher over it and writes metrics.           *)
(*                                                                         *)
(* Amounts and dates are small integers and a draw of the generator's rng  *)
(* is any value of its range.  References are drawn without repetition, as *)
(* they are under both seeds in use: no two ledger entries of              *)
(* data/generated share one.  What a description looks like only matters   *)
(* to the baseline, whose scores are any numbers.                          *)
(***************************************************************************)
EXTENDS Matching, FiniteSets

CONSTANTS
  Plan,        \* EXCEPTION_COUNTS, as the sequence of labels it unrolls to
  BaseDates, BaseAmounts,        \* what randint and randrange draw
  AmountShifts, DateShifts,      \* how a mismatching entry differs
  PolicyShift, EarlyDates,       \* ... and a policy-sensitive one
  Currencies,                    \* "USD" and what rng.choice draws
  Scores,                        \* token_sort_ratio
  Split, Others,                 \* the split at hand and the other ones
  Leftovers                      \* what the three tables may hold before

ExceptionType == {"clean_match", "amount_mismatch", "date_mismatch", "duplicate",
                  "currency_issue", "missing_invoice", "policy_sensitive"}

Splits == {Split} \cup Others

Transaction == [id: Int, date: Int, amount: Int, currency: Currencies, reference: Int,
                label_exception_type: ExceptionType, dataset_split: Splits]

LedgerEntry == [id: Int, date: Int, amount: Int, currency: Currencies, reference: Int,
                invoice_number: Int]

ASSUME EvaluationAssumption ==
  /\ Plan \in Seq(ExceptionType) /\ Plan # <<>>
  /\ BaseDates \cup BaseAmounts \cup DateShifts \cup AmountShifts \cup EarlyDates \subseteq Int
  /\ 0 \notin AmountShifts \cup DateShifts
  /\ PolicyShift \in Int \ {0}
  /\ "USD" \in Currencies
  /\ Scores \subseteq 0 .. 100
  /\ Split \notin Others
  /\ \A tables \in Leftovers :
       /\ tables.transactions \subseteq Transaction /\ IsFiniteSet(tables.transactions)
       /\ tables.ledger_entries \subseteq Splits \X LedgerEntry
       /\ tables.invoices \subseteq Splits \X Int
  /\ NoEntry \notin Int /\ NoEntry \notin LedgerEntry /\ NoEntry \notin {"agent", "baseline"}

VARIABLES
  pc,          \* "generate", "load", "evaluate", "written" or "raised"
  made,        \* labels of Plan worked off
  transactions, ledger_entries, invoices,   \* the split's JSON files
  stored,      \* the table of transactions, all splits
  stored_ledger, stored_invoices,   \* the other two, as <<dataset_split, row>>
  script,      \* which evaluation runs
  evaluated,   \* rows evaluated so far
  claimed_ids, \* ledger entries some transaction has cleared against
  tp, fp, fn, manual_review_count, n_investigated,
  cleared,     \* <<transaction, ledger entry>> matched by the agent (history)
  metrics      \* what is written in the end, NoEntry before

genVars == <<made, transactions, ledger_entries, invoices>>
countVars == <<tp, fp, fn, manual_review_count, n_investigated>>
tableVars == <<stored, stored_ledger, stored_invoices>>
vars == <<pc, genVars, tableVars, script, evaluated, claimed_ids, countVars, cleared, metrics>>

-----------------------------------------------------------------------------
(* Types                                                                   *)

TypeOK ==
  /\ pc \in {"generate", "load", "evaluate", "written", "raised"}
  /\ made \in 0 .. Len(Plan)
  /\ transactions \in Seq(Transaction) /\ ledger_entries \in Seq(LedgerEntry)
  /\ stored \subseteq Transaction /\ IsFiniteSet(stored)
  /\ stored_ledger \subseteq Splits \X LedgerEntry /\ stored_invoices \subseteq Splits \X Int
  /\ evaluated \subseteq stored
  /\ \A n \in {tp, fp, fn, manual_review_count, n_investigated} : n \in 0 .. Cardinality(evaluated)
  /\ cleared \subseteq (DOMAIN transactions) \X {ledger_entries[i].id : i \in DOMAIN ledger_entries}
  /\ claimed_ids = {c[2] : c \in cleared}

-----------------------------------------------------------------------------
(* data/generate_synthetic_data.py                                         *)

NoInvoice == 0   \* "INV-00000", which is never issued

(* The next record: a base, what its label changes in the ledger, and for  *)
(* a duplicate the same transaction under another id and the same label.   *)
generate_split ==
  LET exc_type == Plan[made + 1]
      n        == Len(transactions) + 1   \* counter
  IN
  /\ pc = "generate" /\ made < Len(Plan)
  /\ made' = made + 1
  /\ \E base_date \in BaseDates, base_amount \in BaseAmounts,
        amountShift \in AmountShifts, dateShift \in DateShifts,
        other \in Currencies \ {"USD"}, early \in EarlyDates \cup {NoEntry} :
       LET date == IF exc_type = "policy_sensitive" /\ early # NoEntry THEN early ELSE base_date
           txn  == [id |-> n, date |-> date, amount |-> base_amount, currency |-> "USD",
                    reference |-> n, label_exception_type |-> exc_type, dataset_split |-> Split]
           led  == [id |-> n,
                    date |-> IF exc_type = "date_mismatch" THEN base_date + dateShift ELSE base_date,
                    amount |-> CASE exc_type = "amount_mismatch"  -> base_amount + amountShift
                                 [] exc_type = "policy_sensitive" -> base_amount + PolicyShift
                                 [] OTHER -> base_amount,
                    currency |-> IF exc_type = "currency_issue" THEN other ELSE "USD",
                    reference |-> n,
                    invoice_number |-> IF exc_type = "missing_invoice" THEN NoInvoice ELSE n]
       IN /\ transactions' = transactions \o
               (IF exc_type = "duplicate" THEN <<txn, [txn EXCEPT !.id = n + 1]>> ELSE <<txn>>)
          /\ ledger_entries' = Append(ledger_entries, led)
  /\ invoices' = IF exc_type = "missing_invoice" THEN invoices ELSE invoices \cup {n}
  /\ UNCHANGED <<pc, tableVars, script, evaluated, claimed_ids, countVars, cleared, metrics>>

write_split ==
  /\ pc = "generate" /\ made = Len(Plan)
  /\ pc' = "load"
  /\ UNCHANGED <<genVars, tableVars, script, evaluated, claimed_ids, countVars, cleared, metrics>>

-----------------------------------------------------------------------------
(* data/load_to_postgres.py: the split's rows of each table are deleted,   *)
(* then the file's merged, all in one transaction; other splits' rows stay.*)
(* A table is a set of rows; the ids of a split have a prefix of their own,*)
(* so that a merge meets rows of its split only.                           *)

InSplit(t) == t.dataset_split = Split

Rows(file) == {file[i] : i \in DOMAIN file}

OtherSplits(table) == {r \in table : r[1] # Split}

(* Mutant of load_split: rows are merged over what is there.               *)
load_split_merging ==
  /\ pc = "load"
  /\ stored' = {t \in stored : InSplit(t) => \A r \in Rows(transactions) : r.id # t.id}
               \cup Rows(transactions)
  /\ stored_ledger' = {r \in stored_ledger :
                         r[1] = Split => \A e \in Rows(ledger_entries) : e.id # r[2].id}
                      \cup {Split} \X Rows(ledger_entries)
  /\ stored_invoices' = stored_invoices \cup {Split} \X invoices
  /\ pc' = "evaluate"
  /\ UNCHANGED <<genVars, script, evaluated, claimed_ids, countVars, cleared, metrics>>

load_split ==
  /\ pc = "load"
  /\ stored' = {t \in stored : ~InSplit(t)} \cup Rows(transactions)
  /\ stored_ledger' = OtherSplits(stored_ledger) \cup {Split} \X Rows(ledger_entries)
  /\ stored_invoices' = OtherSplits(stored_invoices) \cup {Split} \X invoices
  /\ pc' = "evaluate"
  /\ UNCHANGED <<genVars, script, evaluated, claimed_ids, countVars, cleared, metrics>>

-----------------------------------------------------------------------------
(* scripts/run_agent_eval.py and run_baseline_eval.py                      *)

txn_rows == {t \in stored : InSplit(t)}

OfSplit(table) == {r[2] : r \in table \ OtherSplits(table)}

led_rows == OfSplit(stored_ledger)

valid_invoices == OfSplit(stored_invoices)

(* The rows are evaluated in the order of their ids.                       *)
row == CHOOSE t \in txn_rows \ evaluated : \A u \in txn_rows \ evaluated : t.id <= u.id

should_match(txn) == txn.label_exception_type = "clean_match"

choose_script ==
  /\ pc = "evaluate" /\ script = NoEntry
  /\ script' \in {"agent", "baseline"}
  /\ UNCHANGED <<pc, genVars, tableVars, evaluated, claimed_ids, countVars, cleared, metrics>>

CountMatched(txn) ==
  /\ tp' = IF should_match(txn) THEN tp + 1 ELSE tp
  /\ fp' = IF should_match(txn) THEN fp ELSE fp + 1
  /\ UNCHANGED <<fn, manual_review_count>>

(* Mutant of CountUnmatched: a missed match is counted twice.              *)
CountUnmatched_twice(txn) ==
  /\ manual_review_count' = manual_review_count + (IF should_match(txn) THEN 2 ELSE 1)
  /\ fn' = IF should_match(txn) THEN fn + 1 ELSE fn
  /\ UNCHANGED <<tp, fp>>

CountUnmatched(txn) ==
  /\ manual_review_count' = manual_review_count + 1
  /\ fn' = IF should_match(txn) THEN fn + 1 ELSE fn
  /\ UNCHANGED <<tp, fp>>

(* Mutant of _claim: any entry may be claimed.                             *)
_claim_granted(id) == TRUE

_claim(id) == id \notin claimed_ids

(* reconcile with the loop's claim_fn: an entry clears one transaction.    *)
agent_match(hit) ==
  LET asked == Claimed(hit, valid_invoices)
  IN  IF asked # NoEntry /\ _claim(asked.id) THEN asked ELSE NoEntry

Clear(matched) ==
  /\ CountMatched(row)
  /\ claimed_ids' = claimed_ids \cup {matched.id}
  /\ cleared' = cleared \cup {<<row.id, matched.id>>}
  /\ UNCHANGED <<pc, n_investigated>>

investigate ==
  /\ CountUnmatched(row)
  /\ \/ n_investigated' = n_investigated + 1 /\ UNCHANGED pc
     \/ pc' = "raised" /\ UNCHANGED n_investigated   \* investigate raises
  /\ UNCHANGED <<claimed_ids, cleared>>

agent_row ==
  /\ pc = "evaluate" /\ script = "agent" /\ evaluated # txn_rows
  /\ evaluated' = evaluated \cup {row}
  /\ \E hit \in match_deterministic(row, led_rows) :
       \/ agent_match(hit) # NoEntry /\ Clear(agent_match(hit))
       \/ agent_match(hit) = NoEntry /\ investigate
  /\ UNCHANGED <<genVars, tableVars, script, metrics>>

baseline_row ==
  /\ pc = "evaluate" /\ script = "baseline" /\ evaluated # txn_rows
  /\ evaluated' = evaluated \cup {row}
  /\ \E scores \in [led_rows -> Scores] :
       IF NoEntry \notin match_baseline(scores, led_rows)
       THEN CountMatched(row)
       ELSE CountUnmatched(row)
  /\ UNCHANGED <<pc, genVars, tableVars, script, claimed_ids, n_investigated, cleared, metrics>>

(* eval/metrics.py, in fractions <<numerator, denominator>>.               *)
Guarded(num, den) == IF den # 0 THEN <<num, den>> ELSE <<0, 1>>

precision == Guarded(tp, tp + fp)

recall == Guarded(tp, tp + fn)

(* Mutant of f1: the arithmetic mean of the two.                           *)
f1_mean == Guarded(precision[1] * recall[2] + recall[1] * precision[2],
                   2 * precision[2] * recall[2])

f1 == Guarded(2 * precision[1] * recall[1], precision[1] * recall[2] + recall[1] * precision[2])

write_metrics ==
  /\ pc = "evaluate" /\ script # NoEntry /\ evaluated = txn_rows
  /\ metrics' = [precision |-> precision, recall |-> recall, f1 |-> f1,
                 pct_manual_review |-> <<manual_review_count, Cardinality(txn_rows)>>,
                 n_transactions |-> Cardinality(txn_rows)]
  /\ pc' = "written"
  /\ UNCHANGED <<genVars, tableVars, script, evaluated, claimed_ids, countVars, cleared>>

-----------------------------------------------------------------------------
(* The tables hold what an earlier generation and the other splits left.   *)
Init ==
  /\ pc = "generate" /\ made = 0
  /\ transactions = <<>> /\ ledger_entries = <<>> /\ invoices = {}
  /\ \E tables \in Leftovers :
       /\ stored = tables.transactions /\ stored_ledger = tables.ledger_entries
       /\ stored_invoices = tables.invoices
  /\ script = NoEntry /\ evaluated = {} /\ claimed_ids = {} /\ cleared = {} /\ metrics = NoEntry
  /\ tp = 0 /\ fp = 0 /\ fn = 0 /\ manual_review_count = 0 /\ n_investigated = 0

Stopped == pc \in {"written", "raised"} /\ UNCHANGED vars

Next == \/ generate_split \/ write_split \/ load_split
        \/ choose_script \/ agent_row \/ baseline_row \/ write_metrics \/ Stopped

Spec == Init /\ [][Next]_vars

-----------------------------------------------------------------------------
(* Properties                                                              *)

WithLabel(labels) == {i \in DOMAIN transactions : transactions[i].label_exception_type \in labels}

(* What the metrics are about is the split just generated, every row of it *)
(* once, whatever an older generation or another split left in the tables: *)
(* a row is a match or a review, and a clean row a true positive or a      *)
(* false negative.                                                         *)
Accounted ==
  pc = "written" =>
    /\ metrics.n_transactions = Len(transactions)
    /\ tp + fp + manual_review_count = Len(transactions)
    /\ tp + fn = Cardinality(WithLabel({"clean_match"}))
    /\ script = "agent" => n_investigated = manual_review_count

(* What the labels promise of the matcher the service uses: a clean row    *)
(* clears, exactly one of two duplicates does, and no row of another label.*)
(* The duplicates are therefore the only false positives, one per pair.    *)
ClearsAsLabelled ==
  pc = "written" /\ script = "agent" =>
    /\ fn = 0
    /\ 2 * fp = Cardinality(WithLabel({"duplicate"}))
    /\ \A c \in cleared :
         transactions[c[1]].label_exception_type \in {"clean_match", "duplicate"}

(* A ledger entry clears one transaction, also where two have its key.     *)
ClearedOnce == \A c, d \in cleared : c[2] = d[2] => c = d

(* The F1 written is that of the counts, 2tp / (2tp + fp + fn), and no     *)
(* count makes the division fail.                                          *)
MetricsExact ==
  metrics # NoEntry =>
    /\ \A m \in {"precision", "recall", "f1", "pct_manual_review"} :
         metrics[m][2] > 0 /\ metrics[m][1] \in 0 .. metrics[m][2]
    /\ metrics.f1[1] * (2 * tp + fp + fn) = 2 * tp * metrics.f1[2]
=============================================================================
