-------------------------- MODULE EvaluationProofs --------------------------
(***************************************************************************)
(* The benchmark, for any plan of labels, any draws of the generator and   *)
(* any rows left in the tables.                                            *)
(***************************************************************************)
EXTENDS Evaluation, DataLemmas

-----------------------------------------------------------------------------
(* The split that is made                                                  *)

Clears(t) == t.label_exception_type \in {"clean_match", "duplicate"}

(* Not the copy that follows a duplicate.                                  *)
Original(t) == t.reference = t.id

IsDuplicate(t) == t.label_exception_type = "duplicate"

(* Transactions are numbered in their order; a copy is that of the one     *)
(* before it, and every duplicate has one.                                 *)
TransactionsInv ==
  \A i \in DOMAIN transactions :
    /\ transactions[i].id = i /\ InSplit(transactions[i])
    /\ transactions[i].reference \in DOMAIN transactions
    /\ ~Original(transactions[i]) =>
         /\ i - 1 \in DOMAIN transactions /\ transactions[i].reference = i - 1
         /\ IsDuplicate(transactions[i]) /\ IsDuplicate(transactions[i - 1])
         /\ Original(transactions[i - 1])
    /\ Original(transactions[i]) /\ IsDuplicate(transactions[i]) =>
         /\ i + 1 \in DOMAIN transactions /\ transactions[i + 1].reference = i
         /\ IsDuplicate(transactions[i + 1])

(* One entry per reference, which the matcher takes and whose invoice is   *)
(* there just if the label says so.                                        *)
LedgerInv ==
  /\ invoices \subseteq DOMAIN transactions
  /\ \A k \in DOMAIN ledger_entries :
       /\ ledger_entries[k].id = ledger_entries[k].reference
       /\ ledger_entries[k].reference \in DOMAIN transactions
       /\ ledger_entries[k].invoice_number \in {NoInvoice, ledger_entries[k].id}
       /\ \A l \in DOMAIN ledger_entries : ledger_entries[k].id = ledger_entries[l].id => k = l
  /\ \A i \in DOMAIN transactions :
       \E k \in DOMAIN ledger_entries : ledger_entries[k].id = transactions[i].reference
  /\ \A i \in DOMAIN transactions, k \in DOMAIN ledger_entries :
       transactions[i].reference = ledger_entries[k].reference =>
         (Clears(transactions[i]) <=> /\ _key(ledger_entries[k]) = _key(transactions[i])
                                      /\ ledger_entries[k].invoice_number \in invoices)

FilesType ==
  /\ made \in 0 .. Len(Plan)
  /\ transactions \in Seq(Transaction) /\ ledger_entries \in Seq(LedgerEntry)
  /\ made > 0 => transactions # <<>>

SplitInv == FilesType /\ TransactionsInv /\ LedgerInv

LEMMA SplitInit == Init => SplitInv
<1> SUFFICES ASSUME Init PROVE SplitInv
  OBVIOUS
<1>1. transactions = <<>> /\ ledger_entries = <<>> /\ invoices = {} /\ made = 0
  BY DEF Init
<1>2. Len(Plan) \in Nat
  BY EvaluationAssumption
<1> QED BY <1>1, <1>2 DEF SplitInv, FilesType, TransactionsInv, LedgerInv

(* What one more record adds to the files.                                 *)
NewRecord(txn, led) ==
  LET n == Len(transactions) + 1 IN
  /\ txn \in Transaction /\ led \in LedgerEntry
  /\ txn.id = n /\ txn.reference = n /\ InSplit(txn)
  /\ led.id = n /\ led.reference = n
  /\ Clears(txn) <=> /\ _key(led) = _key(txn)
                     /\ led.invoice_number \in invoices'
  /\ invoices' \subseteq invoices \cup {n}
  /\ invoices \subseteq invoices'
  /\ led.invoice_number \in {NoInvoice, n}

LEMMA RecordMade ==
  ASSUME SplitInv, generate_split
  PROVE  \E txn, led :
           /\ NewRecord(txn, led)
           /\ transactions' = transactions \o
                (IF IsDuplicate(txn) THEN <<txn, [txn EXCEPT !.id = Len(transactions) + 2]>>
                 ELSE <<txn>>)
           /\ ledger_entries' = Append(ledger_entries, led)
<1> DEFINE exc_type == Plan[made + 1]
           n == Len(transactions) + 1
<1>1. /\ Plan \in Seq(ExceptionType) /\ made \in Nat /\ made < Len(Plan)
      /\ n \in Nat /\ n > 0
  BY EvaluationAssumption DEF SplitInv, FilesType, generate_split
<1>2. exc_type \in ExceptionType
  BY <1>1, made + 1 \in 1 .. Len(Plan), ElementOfSeq
<1>3. PICK base_date \in BaseDates, base_amount \in BaseAmounts,
           amountShift \in AmountShifts, dateShift \in DateShifts,
           other \in Currencies \ {"USD"}, early \in EarlyDates \cup {NoEntry} :
        LET date == IF exc_type = "policy_sensitive" /\ early # NoEntry THEN early ELSE base_date
            txn  == [id |-> n, date |-> date, amount |-> base_amount, currency |-> "USD",
                     reference |-> n, label_exception_type |-> exc_type, dataset_split |-> Split]
            led  == [id |-> n,
                     date |-> IF exc_type = "date_mismatch" THEN base_date + dateShift ELSE base_date,
                     amount |-> CASE exc_type = "amount_mismatch"  -> base_amount + amountShift
                                  [] exc_type = "policy_sensitive" -> base_amount + PolicyShift
                                  [] OTHER -> base_amount,
                     currency |-> IF exc_type = "currency_issue" THEN other ELSE "USD",
                     reference |-> n,
                     invoice_number |-> IF exc_type = "missing_invoice" THEN NoInvoice ELSE n]
        IN /\ transactions' = transactions \o
                (IF exc_type = "duplicate" THEN <<txn, [txn EXCEPT !.id = n + 1]>> ELSE <<txn>>)
           /\ ledger_entries' = Append(ledger_entries, led)
  BY DEF generate_split
<1>4. invoices' = IF exc_type = "missing_invoice" THEN invoices ELSE invoices \cup {n}
  BY DEF generate_split
<1> DEFINE date == IF exc_type = "policy_sensitive" /\ early # NoEntry THEN early ELSE base_date
           txn  == [id |-> n, date |-> date, amount |-> base_amount, currency |-> "USD",
                    reference |-> n, label_exception_type |-> exc_type, dataset_split |-> Split]
           led_date   == IF exc_type = "date_mismatch" THEN base_date + dateShift ELSE base_date
           led_amount == CASE exc_type = "amount_mismatch"  -> base_amount + amountShift
                           [] exc_type = "policy_sensitive" -> base_amount + PolicyShift
                           [] OTHER -> base_amount
           led_currency   == IF exc_type = "currency_issue" THEN other ELSE "USD"
           invoice_number == IF exc_type = "missing_invoice" THEN NoInvoice ELSE n
           led == [id |-> n, date |-> led_date, amount |-> led_amount, currency |-> led_currency,
                   reference |-> n, invoice_number |-> invoice_number]
<1>5. /\ base_date \in Int /\ base_amount \in Int /\ date \in Int
      /\ amountShift \in Int \ {0} /\ dateShift \in Int \ {0} /\ PolicyShift \in Int \ {0}
      /\ "USD" \in Currencies
  BY EvaluationAssumption
<1>6. /\ exc_type \in {"clean_match", "duplicate", "missing_invoice", "policy_sensitive", "currency_issue"}
           => led_date = base_date
      /\ exc_type \in {"clean_match", "duplicate", "missing_invoice", "date_mismatch", "currency_issue"}
           => led_amount = base_amount
      /\ exc_type = "amount_mismatch" => led_amount = base_amount + amountShift
      /\ exc_type = "policy_sensitive" => led_amount = base_amount + PolicyShift
      /\ exc_type = "date_mismatch" => led_date = base_date + dateShift /\ date = base_date
      /\ exc_type \in {"clean_match", "duplicate"} =>
           led_currency = "USD" /\ date = base_date /\ invoice_number = n
      /\ exc_type = "currency_issue" => led_currency # "USD"
      /\ exc_type = "missing_invoice" => invoice_number = NoInvoice
  OBVIOUS
<1>7. led_date \in Int /\ led_amount \in Int /\ led_currency \in Currencies /\ invoice_number \in Int
  BY <1>1, <1>2, <1>5 DEF NoInvoice, ExceptionType
<1>8. invoice_number \in {NoInvoice, n}
  OBVIOUS
<1>9. NoInvoice \notin invoices
  BY DEF SplitInv, FilesType, LedgerInv, NoInvoice
<1> HIDE DEF exc_type, date, led_date, led_amount, led_currency, invoice_number, n
<1>10. txn \in Transaction /\ led \in LedgerEntry
  BY <1>1, <1>2, <1>5, <1>7 DEF Transaction, LedgerEntry, Splits
<1>11. exc_type \in {"clean_match", "duplicate"} <=>
         <<led_amount, led_currency, led_date, n>> = <<base_amount, "USD", date, n>>
         /\ invoice_number \in invoices'
  <2>1. CASE exc_type \in {"clean_match", "duplicate"}
    BY <2>1, <1>4, <1>6
  <2>2. CASE exc_type = "missing_invoice"
    BY <2>2, <1>4, <1>6, <1>9
  <2>3. CASE exc_type = "currency_issue"
    BY <2>3, <1>6
  <2>4. CASE exc_type = "amount_mismatch"
    BY <2>4, <1>5, <1>6
  <2>5. CASE exc_type = "policy_sensitive"
    BY <2>5, <1>5, <1>6
  <2>6. CASE exc_type = "date_mismatch"
    BY <2>6, <1>5, <1>6
  <2> QED BY <1>2, <2>1, <2>2, <2>3, <2>4, <2>5, <2>6 DEF ExceptionType
<1>12. NewRecord(txn, led)
  BY <1>4, <1>8, <1>10, <1>11 DEF NewRecord, Clears, _key, InSplit, n
<1>13. /\ transactions' = transactions \o
            (IF exc_type = "duplicate" THEN <<txn, [txn EXCEPT !.id = n + 1]>> ELSE <<txn>>)
       /\ ledger_entries' = Append(ledger_entries, led)
  BY <1>3 DEF date, led_date, led_amount, led_currency, invoice_number
<1>14. IsDuplicate(txn) <=> exc_type = "duplicate"
  BY DEF IsDuplicate
<1>15. n + 1 = Len(transactions) + 2
  BY DEF n, SplitInv, FilesType
<1> QED BY <1>12, <1>13, <1>14, <1>15

(* The record and its copy, one entry, and what was there stays.           *)
counter == Len(transactions) + 1

GrownBy(txn, led) ==
  /\ NewRecord(txn, led)
  /\ transactions' \in Seq(Transaction) /\ ledger_entries' \in Seq(LedgerEntry)
  /\ counter \in Nat \ {0} /\ DOMAIN transactions = 1 .. counter - 1
  /\ DOMAIN transactions' = 1 .. (IF IsDuplicate(txn) THEN counter + 1 ELSE counter)
  /\ \A i \in DOMAIN transactions : transactions'[i] = transactions[i]
  /\ transactions'[counter] = txn
  /\ IsDuplicate(txn) => transactions'[counter + 1] = [txn EXCEPT !.id = counter + 1]
  /\ DOMAIN ledger_entries = 1 .. Len(ledger_entries)
  /\ DOMAIN ledger_entries' = 1 .. Len(ledger_entries) + 1
  /\ \A k \in DOMAIN ledger_entries : ledger_entries'[k] = ledger_entries[k]
  /\ ledger_entries'[Len(ledger_entries) + 1] = led

LEMMA Grown ==
  ASSUME SplitInv, generate_split
  PROVE  \E txn, led : GrownBy(txn, led)
<1>1. transactions \in Seq(Transaction) /\ ledger_entries \in Seq(LedgerEntry)
  BY DEF SplitInv, FilesType
<1>2. PICK txn, led :
        /\ NewRecord(txn, led)
        /\ transactions' = transactions \o
             (IF IsDuplicate(txn) THEN <<txn, [txn EXCEPT !.id = Len(transactions) + 2]>>
              ELSE <<txn>>)
        /\ ledger_entries' = Append(ledger_entries, led)
  BY RecordMade
<1> DEFINE n == counter
           copy == [txn EXCEPT !.id = n + 1]
           new == IF IsDuplicate(txn) THEN <<txn, copy>> ELSE <<txn>>
<1>3. /\ n \in Nat \ {0} /\ DOMAIN transactions = 1 .. n - 1 /\ n + 1 = Len(transactions) + 2
      /\ Len(transactions) = n - 1
  BY <1>1 DEF counter
<1>4. txn \in Transaction /\ led \in LedgerEntry
  BY <1>2 DEF NewRecord
<1>5. copy \in Transaction
  BY <1>3, <1>4 DEF Transaction
<1>6. /\ new \in Seq(Transaction) /\ Len(new) = (IF IsDuplicate(txn) THEN 2 ELSE 1)
      /\ new[1] = txn
      /\ IsDuplicate(txn) => new[2] = copy
  <2> HIDE DEF copy
  <2> QED BY <1>4, <1>5
<1>7. transactions' = transactions \o new
  BY <1>2, <1>3
<1> HIDE DEF new, copy, n
<1>8. /\ transactions \o new \in Seq(Transaction)
      /\ Len(transactions \o new) = Len(transactions) + Len(new)
      /\ \A i \in 1 .. Len(transactions) + Len(new) :
           (transactions \o new)[i] = IF i <= Len(transactions) THEN transactions[i]
                                      ELSE new[i - Len(transactions)]
  BY <1>1, <1>6, ConcatProperties
<1>9. /\ transactions' \in Seq(Transaction)
      /\ DOMAIN transactions' = 1 .. (IF IsDuplicate(txn) THEN n + 1 ELSE n)
      /\ \A i \in DOMAIN transactions : transactions'[i] = transactions[i]
      /\ transactions'[n] = txn
      /\ IsDuplicate(txn) => transactions'[n + 1] = copy
  <2>1. DOMAIN (transactions \o new) = 1 .. n - 1 + Len(new)
    BY <1>3, <1>8
  <2>2. n \in 1 .. n - 1 + Len(new) /\ (IsDuplicate(txn) => n + 1 \in 1 .. n - 1 + Len(new))
    BY <1>3, <1>6
  <2>3. /\ \A i \in 1 .. n - 1 : (transactions \o new)[i] = transactions[i]
        /\ (transactions \o new)[n] = new[1]
        /\ IsDuplicate(txn) => (transactions \o new)[n + 1] = new[2]
    BY <2>2, <1>3, <1>6, <1>8
  <2>4. n - 1 + Len(new) = (IF IsDuplicate(txn) THEN n + 1 ELSE n)
    BY <1>3, <1>6
  <2>5. DOMAIN transactions' = 1 .. (IF IsDuplicate(txn) THEN n + 1 ELSE n)
    BY <2>1, <2>4, <1>7
  <2>6. transactions' \in Seq(Transaction)
    BY <1>7, <1>8
  <2>7. /\ \A i \in DOMAIN transactions : transactions'[i] = transactions[i]
        /\ transactions'[n] = new[1]
        /\ IsDuplicate(txn) => transactions'[n + 1] = new[2]
    BY <2>3, <1>3, <1>7
  <2> QED BY <2>5, <2>6, <2>7, <1>6
<1>10. /\ ledger_entries' \in Seq(LedgerEntry)
       /\ DOMAIN ledger_entries = 1 .. Len(ledger_entries)
       /\ DOMAIN ledger_entries' = 1 .. Len(ledger_entries) + 1
       /\ \A k \in DOMAIN ledger_entries : ledger_entries'[k] = ledger_entries[k]
       /\ ledger_entries'[Len(ledger_entries) + 1] = led
  BY <1>1, <1>2, <1>4, AppendProperties
<1>11. GrownBy(txn, led)
  BY <1>2, <1>3, <1>9, <1>10 DEF GrownBy, n, copy
<1> QED BY <1>11

LEMMA SplitGrows ==
  ASSUME SplitInv, generate_split
  PROVE  SplitInv'
<1>1. PICK txn, led : GrownBy(txn, led)
  BY Grown
<1> DEFINE m == Len(ledger_entries) + 1
           n == counter
           copy == [txn EXCEPT !.id = n + 1]
<1>2. Len(ledger_entries) \in Nat /\ m \in Nat \ {0}
  BY DEF SplitInv, FilesType
<1>3. /\ txn \in Transaction /\ txn.id = n /\ txn.reference = n /\ InSplit(txn)
      /\ led.id = n /\ led.reference = n /\ led.invoice_number \in {NoInvoice, n}
      /\ Clears(txn) <=> _key(led) = _key(txn) /\ led.invoice_number \in invoices'
      /\ invoices \subseteq invoices' /\ invoices' \subseteq invoices \cup {n}
  BY <1>1 DEF GrownBy, NewRecord, counter
<1>4. /\ copy.id = n + 1 /\ copy.reference = n /\ InSplit(copy)
      /\ _key(copy) = _key(txn) /\ (Clears(copy) <=> Clears(txn))
      /\ IsDuplicate(copy) <=> IsDuplicate(txn)
  BY <1>3 DEF Transaction, InSplit, _key, Clears, IsDuplicate
<1>5. /\ transactions' \in Seq(Transaction) /\ ledger_entries' \in Seq(LedgerEntry)
      /\ n \in Nat \ {0} /\ DOMAIN transactions = 1 .. n - 1
      /\ DOMAIN transactions' = 1 .. (IF IsDuplicate(txn) THEN n + 1 ELSE n)
      /\ \A i \in DOMAIN transactions : transactions'[i] = transactions[i]
      /\ transactions'[n] = txn
      /\ IsDuplicate(txn) => transactions'[n + 1] = copy
      /\ DOMAIN ledger_entries = 1 .. m - 1
      /\ DOMAIN ledger_entries' = 1 .. m
      /\ \A k \in DOMAIN ledger_entries : ledger_entries'[k] = ledger_entries[k]
      /\ ledger_entries'[m] = led
  BY <1>1, <1>2 DEF GrownBy
<1> HIDE DEF copy, n, m
<1>6. \A i \in DOMAIN transactions' :
        \/ i \in DOMAIN transactions /\ transactions'[i] = transactions[i]
        \/ i = n /\ transactions'[i] = txn
        \/ IsDuplicate(txn) /\ i = n + 1 /\ transactions'[i] = copy
  BY <1>5
<1>7. \A k \in DOMAIN ledger_entries' :
        \/ k \in DOMAIN ledger_entries /\ ledger_entries'[k] = ledger_entries[k]
        \/ k = m /\ ledger_entries'[k] = led
  BY <1>5, <1>2
<1>8. /\ DOMAIN transactions \subseteq DOMAIN transactions'
      /\ n \in DOMAIN transactions' /\ n \notin DOMAIN transactions
      /\ n + 1 \notin DOMAIN transactions
      /\ DOMAIN ledger_entries \subseteq DOMAIN ledger_entries'
      /\ m \in DOMAIN ledger_entries' /\ m \notin DOMAIN ledger_entries
  BY <1>5, <1>2
<1>9. FilesType'
  <2>1. made' \in 0 .. Len(Plan)
    BY EvaluationAssumption DEF SplitInv, FilesType, generate_split
  <2>2. transactions' # <<>>
    BY <1>8
  <2> QED BY <1>5, <2>1, <2>2 DEF FilesType
<1>10. TransactionsInv'
  <2> SUFFICES ASSUME NEW i \in DOMAIN transactions'
               PROVE  /\ transactions'[i].id = i /\ InSplit(transactions'[i])
                      /\ transactions'[i].reference \in DOMAIN transactions'
                      /\ ~Original(transactions'[i]) =>
                           /\ i - 1 \in DOMAIN transactions' /\ transactions'[i].reference = i - 1
                           /\ IsDuplicate(transactions'[i]) /\ IsDuplicate(transactions'[i - 1])
                           /\ Original(transactions'[i - 1])
                      /\ Original(transactions'[i]) /\ IsDuplicate(transactions'[i]) =>
                           /\ i + 1 \in DOMAIN transactions' /\ transactions'[i + 1].reference = i
                           /\ IsDuplicate(transactions'[i + 1])
    BY DEF TransactionsInv, InSplit
  <2>1. CASE i \in DOMAIN transactions /\ transactions'[i] = transactions[i]
    BY <2>1, <1>5, <1>8 DEF SplitInv, TransactionsInv
  <2>2. CASE i = n /\ transactions'[i] = txn
    <3>1. Original(txn)
      BY <1>3 DEF Original
    <3>2. IsDuplicate(txn) => n + 1 \in DOMAIN transactions'
      BY <1>5
    <3> QED BY <2>2, <3>1, <3>2, <1>3, <1>4, <1>5, <1>8
  <2>3. CASE IsDuplicate(txn) /\ i = n + 1 /\ transactions'[i] = copy
    <3>1. ~Original(copy) /\ Original(txn) /\ i - 1 = n
      BY <2>3, <1>3, <1>4, <1>5 DEF Original
    <3> QED BY <2>3, <3>1, <1>5, <1>3, <1>4, <1>8
  <2> QED BY <1>6, <2>1, <2>2, <2>3
<1>11. LedgerInv'
  <2>1. invoices' \subseteq DOMAIN transactions'
    BY <1>3, <1>8 DEF SplitInv, LedgerInv
  <2>2. \A k \in DOMAIN ledger_entries :
          ledger_entries[k].id # n /\ ledger_entries[k].reference # n
    BY <1>8 DEF SplitInv, LedgerInv
  <2>3. ASSUME NEW k \in DOMAIN ledger_entries'
        PROVE  /\ ledger_entries'[k].id = ledger_entries'[k].reference
               /\ ledger_entries'[k].reference \in DOMAIN transactions'
               /\ ledger_entries'[k].invoice_number \in {NoInvoice, ledger_entries'[k].id}
    BY <1>3, <1>7, <1>8 DEF SplitInv, LedgerInv
  <2>4. ASSUME NEW k \in DOMAIN ledger_entries', NEW l \in DOMAIN ledger_entries',
               ledger_entries'[k].id = ledger_entries'[l].id
        PROVE  k = l
    BY <2>2, <2>4, <1>3, <1>7 DEF SplitInv, LedgerInv
  <2>5. ASSUME NEW i \in DOMAIN transactions'
        PROVE  \E k \in DOMAIN ledger_entries' : ledger_entries'[k].id = transactions'[i].reference
    <3>1. CASE i \in DOMAIN transactions /\ transactions'[i] = transactions[i]
      BY <3>1, <1>5, <1>8 DEF SplitInv, LedgerInv
    <3>2. CASE transactions'[i].reference = n
      BY <3>2, <1>5, <1>3, <1>8
    <3> QED BY <3>1, <3>2, <1>3, <1>4, <1>6
  <2>6. ASSUME NEW i \in DOMAIN transactions', NEW k \in DOMAIN ledger_entries',
               transactions'[i].reference = ledger_entries'[k].reference
        PROVE  Clears(transactions'[i]) <=>
                 /\ _key(ledger_entries'[k]) = _key(transactions'[i])
                 /\ ledger_entries'[k].invoice_number \in invoices'
    <3>1. CASE i \in DOMAIN transactions /\ transactions'[i] = transactions[i]
      <4>1. transactions[i].reference # n
        BY <3>1, <1>8 DEF SplitInv, TransactionsInv
      <4>2. k \in DOMAIN ledger_entries /\ ledger_entries'[k] = ledger_entries[k]
        BY <2>6, <3>1, <4>1, <1>3, <1>7
      <4>3. Clears(transactions[i]) <=>
              /\ _key(ledger_entries[k]) = _key(transactions[i])
              /\ ledger_entries[k].invoice_number \in invoices
        BY <2>6, <3>1, <4>2 DEF SplitInv, LedgerInv
      <4>4. ledger_entries[k].invoice_number # n
        BY <2>2, <4>2, <1>5 DEF SplitInv, LedgerInv, NoInvoice
      <4> QED BY <3>1, <4>2, <4>3, <4>4, <1>3
    <3>2. CASE transactions'[i] \in {txn, copy}
      <4>1. k = m /\ ledger_entries'[k] = led
        BY <2>2, <2>6, <3>2, <1>3, <1>4, <1>7
      <4> QED BY <3>2, <4>1, <1>3, <1>4
    <3> QED BY <3>1, <3>2, <1>6
  <2> QED BY <2>1, <2>3, <2>4, <2>5, <2>6 DEF LedgerInv, Clears, _key
<1> QED BY <1>9, <1>10, <1>11 DEF SplitInv

-----------------------------------------------------------------------------
(* What the matcher makes of a row                                         *)

(* A row is found by its id.                                               *)
LEMMA RowsById ==
  ASSUME SplitInv
  PROVE  /\ IsFiniteSet(Rows(transactions))
         /\ Cardinality(Rows(transactions)) = Len(transactions)
         /\ \A t \in Rows(transactions) :
              /\ t \in Transaction /\ InSplit(t)
              /\ t.id \in DOMAIN transactions /\ transactions[t.id] = t
<1>1. transactions \in Seq(Transaction) /\ DOMAIN transactions = 1 .. Len(transactions)
      /\ Len(transactions) \in Nat
  BY DEF SplitInv, FilesType
<1>2. ASSUME NEW i \in DOMAIN transactions
      PROVE  transactions[i].id = i /\ InSplit(transactions[i]) /\ transactions[i] \in Transaction
  BY <1>1 DEF SplitInv, TransactionsInv
<1>3. \A t \in Rows(transactions) :
        /\ t \in Transaction /\ InSplit(t)
        /\ t.id \in DOMAIN transactions /\ transactions[t.id] = t
  BY <1>2 DEF Rows
<1>4. ExistsBijection(1 .. Len(transactions), Rows(transactions))
  <2>1. [i \in 1 .. Len(transactions) |-> transactions[i]]
          \in Bijection(1 .. Len(transactions), Rows(transactions))
    <3> DEFINE f == [i \in 1 .. Len(transactions) |-> transactions[i]]
    <3>1. f \in [1 .. Len(transactions) -> Rows(transactions)]
      BY <1>1 DEF Rows
    <3>2. \A i, j \in 1 .. Len(transactions) : f[i] = f[j] => i = j
      BY <1>1, <1>2
    <3>3. \A t \in Rows(transactions) : \E i \in 1 .. Len(transactions) : f[i] = t
      BY <1>1 DEF Rows
    <3> HIDE DEF f
    <3>4. f \in Bijection(1 .. Len(transactions), Rows(transactions))
      BY <3>1, <3>2, <3>3 DEF Bijection, Injection, Surjection, IsInjective
    <3> QED BY <3>4 DEF f
  <2> QED BY <2>1 DEF ExistsBijection
<1>5. IsFiniteSet(1 .. Len(transactions)) /\ Cardinality(1 .. Len(transactions)) = Len(transactions)
  BY <1>1, FS_Interval
<1>6. IsFiniteSet(Rows(transactions)) /\ Cardinality(Rows(transactions)) = Len(transactions)
  BY <1>4, <1>5, FS_Bijection
<1> QED BY <1>3, <1>6

(* Of the split's ledger the matcher finds at most the entry of the row's  *)
(* reference, and asks for it just if the row's label says so.             *)
MatchIsRight(t, hit) ==
  /\ ~Clears(t) => Claimed(hit, invoices) = NoEntry
  /\ Clears(t) => Claimed(hit, invoices) # NoEntry /\ Claimed(hit, invoices).id = t.reference

LEMMA MatcherAsks ==
  ASSUME SplitInv, NEW t \in Rows(transactions),
         NEW hit \in match_deterministic(t, Rows(ledger_entries))
  PROVE  MatchIsRight(t, hit)
<1>1. PICK i \in DOMAIN transactions : transactions[i] = t
  BY DEF Rows
<1>2. PICK k \in DOMAIN ledger_entries : ledger_entries[k].id = t.reference
  BY <1>1 DEF SplitInv, LedgerInv
<1> DEFINE entry == ledger_entries[k]
<1>3. entry # NoEntry /\ entry.invoice_number # NoEntry
  <2>1. entry \in LedgerEntry
    BY DEF SplitInv, FilesType
  <2>2. entry.invoice_number \in Int
    BY <2>1 DEF LedgerEntry
  <2> QED BY <2>1, <2>2, EvaluationAssumption
<1>4. /\ Clears(t) <=> _key(entry) = _key(t) /\ entry.invoice_number \in invoices
      /\ entry.reference = t.reference
  BY <1>1, <1>2 DEF SplitInv, LedgerInv
<1>5. SameKey(Rows(ledger_entries), t) \subseteq {entry}
  <2> SUFFICES ASSUME NEW l \in DOMAIN ledger_entries,
                      _key(ledger_entries[l]) = _key(t)
               PROVE  l = k
    BY DEF SameKey, Rows
  <2>1. ledger_entries[l].reference = t.reference
    BY DEF _key
  <2> QED BY <1>2, <2>1 DEF SplitInv, LedgerInv
<1>6. CASE _key(entry) = _key(t)
  <2>1. SameKey(Rows(ledger_entries), t) = {entry}
    BY <1>5, <1>6 DEF SameKey, Rows
  <2>2. hit = entry
    BY <2>1 DEF match_deterministic
  <2> QED BY <1>2, <1>3, <1>4, <1>6, <2>2 DEF MatchIsRight, Claimed, check_invoice_exists
<1>7. CASE _key(entry) # _key(t)
  <2>1. SameKey(Rows(ledger_entries), t) = {}
    BY <1>5, <1>7 DEF SameKey
  <2>2. hit = NoEntry
    BY <2>1 DEF match_deterministic
  <2> QED BY <1>4, <1>7, <2>2 DEF MatchIsRight, Claimed
<1> QED BY <1>6, <1>7

-----------------------------------------------------------------------------
(* The evaluation                                                          *)

Fresh ==
  /\ evaluated = {} /\ cleared = {} /\ claimed_ids = {}
  /\ tp = 0 /\ fp = 0 /\ fn = 0 /\ manual_review_count = 0 /\ n_investigated = 0
  /\ script = NoEntry /\ metrics = NoEntry

(* From the load on the split's rows are those that were made.             *)
RunInv ==
  /\ pc \in {"generate", "load", "evaluate", "written", "raised"}
  /\ stored \subseteq Transaction /\ IsFiniteSet(stored)
  /\ stored_ledger \subseteq Splits \X LedgerEntry /\ stored_invoices \subseteq Splits \X Int
  /\ pc \in {"generate", "load"} \/ script = NoEntry => Fresh
  /\ pc # "generate" => made = Len(Plan)
  /\ pc \in {"evaluate", "written", "raised"} =>
       /\ txn_rows = Rows(transactions)
       /\ led_rows = Rows(ledger_entries) /\ valid_invoices = invoices

(* The rows evaluated are the first ones, and the counts are about them.   *)
CountInv ==
  /\ evaluated \subseteq txn_rows
  /\ \A t \in evaluated, u \in txn_rows : u.id <= t.id => u \in evaluated
  /\ tp \in Nat /\ fp \in Nat /\ fn \in Nat
  /\ manual_review_count \in Nat /\ n_investigated \in Nat
  /\ tp + fp + manual_review_count = Cardinality(evaluated)
  /\ tp + fn = Cardinality({t \in evaluated : should_match(t)})
  /\ n_investigated <= manual_review_count

(* With the agent: the clean rows and the originals of the duplicates have *)
(* cleared, each against the entry that has its number.                    *)
FirstCopies(rows) == {t \in rows : IsDuplicate(t) /\ Original(t)}

Cleared(rows) == {t \in rows : Clears(t) /\ Original(t)}

AgentInv ==
  /\ claimed_ids = {c[2] : c \in cleared}
  /\ script # "agent" => cleared = {}
  /\ script = "agent" =>
       /\ fn = 0 /\ fp = Cardinality(FirstCopies(evaluated))
       /\ cleared = {<<t.id, t.id>> : t \in Cleared(evaluated)}
       /\ pc # "raised" => n_investigated = manual_review_count

Written ==
  [precision |-> precision, recall |-> recall, f1 |-> f1,
   pct_manual_review |-> <<manual_review_count, Cardinality(txn_rows)>>,
   n_transactions |-> Cardinality(txn_rows)]

MetricsInv ==
  /\ metrics # NoEntry => pc = "written"
  /\ pc = "written" => script # NoEntry /\ evaluated = txn_rows /\ metrics = Written

BenchmarkInv == SplitInv /\ RunInv /\ CountInv /\ AgentInv /\ MetricsInv

LEMMA BenchmarkInit == Init => BenchmarkInv
<1> SUFFICES ASSUME Init PROVE BenchmarkInv
  OBVIOUS
<1>1. SplitInv
  BY SplitInit
<1>2. RunInv
  BY EvaluationAssumption DEF Init, RunInv, Fresh
<1>3. CountInv
  <2>1. evaluated = {} /\ {t \in evaluated : should_match(t)} = {}
    BY DEF Init
  <2> QED BY <2>1, FS_EmptySet DEF Init, CountInv
<1>4. AgentInv
  BY EvaluationAssumption DEF Init, AgentInv
<1>5. MetricsInv
  BY DEF Init, MetricsInv
<1> QED BY <1>1, <1>2, <1>3, <1>4, <1>5 DEF BenchmarkInv

LEMMA GenerateKeeps ==
  ASSUME BenchmarkInv, generate_split \/ write_split
  PROVE  BenchmarkInv'
<1>1. pc = "generate" /\ pc' \in {"generate", "load"} /\ Fresh
  BY DEF generate_split, write_split, BenchmarkInv, RunInv
<1>2. /\ UNCHANGED tableVars /\ evaluated' = evaluated /\ cleared' = cleared
      /\ claimed_ids' = claimed_ids /\ script' = script /\ metrics' = metrics
      /\ tp' = tp /\ fp' = fp /\ fn' = fn
      /\ manual_review_count' = manual_review_count /\ n_investigated' = n_investigated
  BY DEF generate_split, write_split, countVars
<1>3. SplitInv'
  <2>1. CASE generate_split
    BY <2>1, SplitGrows DEF BenchmarkInv
  <2>2. CASE write_split
    BY <2>2 DEF write_split, genVars, BenchmarkInv, SplitInv, FilesType, TransactionsInv,
       LedgerInv, Original, Clears, IsDuplicate, InSplit, _key
  <2> QED BY <2>1, <2>2
<1>4. Fresh'
  BY <1>1, <1>2 DEF Fresh
<1>5. RunInv'
  <2>1. pc' # "generate" => made' = Len(Plan)
    BY DEF generate_split, write_split, genVars
  <2> QED BY <1>1, <1>2, <1>4, <2>1 DEF BenchmarkInv, RunInv, tableVars
<1>6. CountInv'
  BY <1>2 DEF BenchmarkInv, CountInv, txn_rows, InSplit, should_match, tableVars
<1>7. AgentInv'
  BY <1>1, <1>4, EvaluationAssumption DEF AgentInv, Fresh
<1>8. MetricsInv'
  BY <1>1, <1>4 DEF MetricsInv, Fresh
<1> QED BY <1>3, <1>5, <1>6, <1>7, <1>8 DEF BenchmarkInv

(* Whatever was there before.                                              *)
LEMMA LoadKeeps ==
  ASSUME BenchmarkInv, load_split
  PROVE  BenchmarkInv'
<1>1. /\ pc = "load" /\ pc' = "evaluate" /\ Fresh
      /\ stored' = {t \in stored : ~InSplit(t)} \cup Rows(transactions)
      /\ stored_ledger' = OtherSplits(stored_ledger) \cup {Split} \X Rows(ledger_entries)
      /\ stored_invoices' = OtherSplits(stored_invoices) \cup {Split} \X invoices
      /\ UNCHANGED <<genVars, script, evaluated, claimed_ids, countVars, cleared, metrics>>
  BY DEF load_split, BenchmarkInv, RunInv
<1>2. SplitInv'
  BY <1>1 DEF genVars, BenchmarkInv, SplitInv, FilesType, TransactionsInv,
     LedgerInv, Original, Clears, IsDuplicate, InSplit, _key
<1>3. Fresh'
  BY <1>1 DEF Fresh, countVars
<1>4. /\ IsFiniteSet(Rows(transactions)) /\ Rows(transactions) \subseteq Transaction
      /\ \A t \in Rows(transactions) : InSplit(t)
  BY RowsById DEF BenchmarkInv
<1>5. txn_rows' = Rows(transactions)'
  <2>1. {t \in stored' : InSplit(t)} = Rows(transactions)
    BY <1>1, <1>4
  <2>2. txn_rows' = {t \in stored' : InSplit(t)} /\ Rows(transactions)' = Rows(transactions)
    BY <1>1 DEF txn_rows, InSplit, Rows, genVars
  <2> QED BY <2>1, <2>2
<1>6. stored' \subseteq Transaction /\ IsFiniteSet(stored')
  <2>1. {t \in stored : ~InSplit(t)} \in SUBSET stored /\ stored \subseteq Transaction
        /\ IsFiniteSet(stored)
    BY DEF BenchmarkInv, RunInv
  <2>2. IsFiniteSet({t \in stored : ~InSplit(t)})
    BY <2>1, FS_Subset
  <2>3. IsFiniteSet({t \in stored : ~InSplit(t)} \cup Rows(transactions))
    BY <2>2, <1>4, FS_Union
  <2> QED BY <1>1, <1>4, <2>1, <2>3
<1>7. ASSUME NEW table, NEW file
       PROVE  OfSplit(OtherSplits(table) \cup {Split} \X file) = file
  <2> DEFINE loaded == OtherSplits(table) \cup {Split} \X file
  <2>1. loaded \ OtherSplits(loaded) = {Split} \X file
    BY DEF OtherSplits
  <2>2. OfSplit(loaded) = {r[2] : r \in {Split} \X file}
    BY <2>1 DEF OfSplit
  <2>3. ASSUME NEW x \in file
        PROVE  x \in {r[2] : r \in {Split} \X file}
    <3>1. <<Split, x>> \in {Split} \X file /\ <<Split, x>>[2] = x
      OBVIOUS
    <3> DEFINE pair == <<Split, x>>
    <3> HIDE DEF pair
    <3>2. pair \in {Split} \X file => pair[2] \in {r[2] : r \in {Split} \X file}
      OBVIOUS
    <3> QED BY <3>1, <3>2 DEF pair
  <2>4. \A r \in {Split} \X file : r[2] \in file
    OBVIOUS
  <2> QED BY <2>2, <2>3, <2>4
<1>8. led_rows' = Rows(ledger_entries)' /\ valid_invoices' = invoices'
  <2>1. OfSplit(stored_ledger') = Rows(ledger_entries) /\ OfSplit(stored_invoices') = invoices
    BY <1>1, <1>7
  <2>2. led_rows' = OfSplit(stored_ledger') /\ valid_invoices' = OfSplit(stored_invoices')
    BY DEF led_rows, valid_invoices, OfSplit, OtherSplits
  <2>3. Rows(ledger_entries)' = Rows(ledger_entries) /\ invoices' = invoices
    BY <1>1 DEF Rows, genVars
  <2> QED BY <2>1, <2>2, <2>3
<1>9. stored_ledger' \subseteq Splits \X LedgerEntry /\ stored_invoices' \subseteq Splits \X Int
  <2>1. Split \in Splits /\ Rows(ledger_entries) \subseteq LedgerEntry
    BY DEF Splits, Rows, BenchmarkInv, SplitInv, FilesType
  <2>2. invoices \subseteq Int
    BY DEF BenchmarkInv, SplitInv, FilesType, LedgerInv
  <2>3. /\ OtherSplits(stored_ledger) \subseteq Splits \X LedgerEntry
        /\ OtherSplits(stored_invoices) \subseteq Splits \X Int
    BY DEF OtherSplits, BenchmarkInv, RunInv
  <2>4. /\ {Split} \X Rows(ledger_entries) \subseteq Splits \X LedgerEntry
        /\ {Split} \X invoices \subseteq Splits \X Int
    BY <2>1, <2>2
  <2> QED BY <1>1, <2>3, <2>4
<1>10. RunInv'
  BY <1>1, <1>3, <1>5, <1>6, <1>8, <1>9 DEF BenchmarkInv, RunInv, genVars
<1>11. CountInv'
  <2>1. evaluated' = {} /\ {t \in evaluated' : should_match(t)} = {}
    BY <1>3 DEF Fresh
  <2>2. {t \in evaluated : should_match(t)}' = {}
    BY <2>1 DEF should_match
  <2> QED BY <2>1, <2>2, <1>3, FS_EmptySet DEF CountInv, Fresh
<1>12. AgentInv'
  BY <1>3, EvaluationAssumption DEF AgentInv, Fresh
<1>13. MetricsInv'
  BY <1>1, <1>3 DEF MetricsInv, Fresh
<1> QED BY <1>2, <1>10, <1>11, <1>12, <1>13 DEF BenchmarkInv

(* What an evaluation reads stays as it was loaded.                        *)
TablesAndFiles ==
  <<txn_rows, led_rows, valid_invoices, Rows(transactions), Rows(ledger_entries)>>

LEMMA TablesStay ==
  ASSUME UNCHANGED <<genVars, tableVars>>
  PROVE  UNCHANGED TablesAndFiles
BY DEF TablesAndFiles, txn_rows, led_rows, valid_invoices, OfSplit, OtherSplits, InSplit,
   Rows, genVars, tableVars

LEMMA ChooseKeeps ==
  ASSUME BenchmarkInv, choose_script
  PROVE  BenchmarkInv'
<1>1. /\ pc = "evaluate" /\ pc' = pc /\ script = NoEntry /\ script' \in {"agent", "baseline"}
      /\ UNCHANGED <<genVars, tableVars, evaluated, claimed_ids, countVars, cleared, metrics>>
  BY DEF choose_script
<1>2. Fresh
  BY <1>1 DEF BenchmarkInv, RunInv
<1>3. SplitInv'
  BY <1>1 DEF genVars, BenchmarkInv, SplitInv, FilesType, TransactionsInv,
     LedgerInv, Original, Clears, IsDuplicate, InSplit, _key
<1>4. RunInv'
  <2>1. UNCHANGED TablesAndFiles
    BY <1>1, TablesStay
  <2> QED BY <1>1, <2>1, EvaluationAssumption
      DEF BenchmarkInv, RunInv, genVars, tableVars, TablesAndFiles
<1>5. CountInv'
  BY <1>1 DEF BenchmarkInv, CountInv, txn_rows, InSplit, should_match, countVars, tableVars
<1>6. AgentInv'
  <2>1. evaluated' = {} /\ cleared' = {} /\ claimed_ids' = {}
        /\ fn' = 0 /\ fp' = 0 /\ n_investigated' = manual_review_count'
    BY <1>1, <1>2 DEF Fresh, countVars
  <2>2. FirstCopies(evaluated)' = {} /\ Cleared(evaluated)' = {}
    BY <2>1 DEF FirstCopies, Cleared
  <2> QED BY <2>1, <2>2, FS_EmptySet DEF AgentInv
<1>7. MetricsInv'
  BY <1>1, <1>2 DEF MetricsInv, Fresh
<1> QED BY <1>3, <1>4, <1>5, <1>6, <1>7 DEF BenchmarkInv

(* The next row has the least id of those left, so that what is evaluated  *)
(* stays a beginning; each set counted grows by it or stays.               *)
LEMMA NextRow ==
  ASSUME BenchmarkInv, pc = "evaluate", evaluated # txn_rows
  PROVE  /\ row \in txn_rows \ evaluated /\ row \in Rows(transactions)
         /\ \A u \in txn_rows : u.id < row.id => u \in evaluated
         /\ IsFiniteSet(evaluated)
<1>1. txn_rows = Rows(transactions) /\ evaluated \subseteq txn_rows
  BY DEF BenchmarkInv, RunInv, CountInv
<1>2. \A t \in txn_rows : t.id \in Nat
  <2>1. DOMAIN transactions \subseteq Nat
    BY DEF BenchmarkInv, SplitInv, FilesType
  <2> QED BY <1>1, <2>1, RowsById DEF BenchmarkInv
<1> DEFINE left == txn_rows \ evaluated
           ids  == {t.id : t \in left}
<1>3. ids \subseteq Nat /\ ids # {}
  BY <1>1, <1>2
<1>4. PICK least \in ids : \A n \in ids : least <= n
  BY <1>3, LeastExists
<1>5. \E t \in left : \A u \in left : t.id <= u.id
  BY <1>4
<1>6. row \in left /\ \A u \in left : row.id <= u.id
  BY <1>5 DEF row
<1>7. \A u \in txn_rows : u.id < row.id => u \in evaluated
  BY <1>2, <1>6
<1>8. IsFiniteSet(evaluated)
  BY <1>1, RowsById, FS_Subset DEF BenchmarkInv
<1> QED BY <1>1, <1>6, <1>7, <1>8

LEMMA CountedRow ==
  ASSUME BenchmarkInv, pc = "evaluate", evaluated # txn_rows,
         NEW P \in SUBSET txn_rows
  PROVE  /\ IsFiniteSet(P \cap evaluated) /\ Cardinality(P \cap evaluated) \in Nat
         /\ Cardinality(P \cap (evaluated \cup {row})) =
              Cardinality(P \cap evaluated) + (IF row \in P THEN 1 ELSE 0)
<1>1. row \notin evaluated /\ IsFiniteSet(evaluated)
  BY NextRow
<1>2. IsFiniteSet(P \cap evaluated)
  BY <1>1, FS_Intersection
<1>3. Cardinality(P \cap evaluated) \in Nat
  BY <1>2, FS_CardinalityType
<1>4. CASE row \in P
  <2>1. P \cap (evaluated \cup {row}) = (P \cap evaluated) \cup {row}
    BY <1>4
  <2> QED BY <1>1, <1>2, <1>3, <1>4, <2>1, FS_AddElement
<1>5. CASE row \notin P
  <2>1. P \cap (evaluated \cup {row}) = P \cap evaluated
    BY <1>5
  <2> QED BY <1>2, <1>3, <1>5, <2>1
<1> QED BY <1>2, <1>3, <1>4, <1>5

(* A row clears just if it is the first with its reference and has the     *)
(* label for it: the entry of a copy is taken by its original.             *)
LEMMA AgentClears ==
  ASSUME BenchmarkInv, pc = "evaluate", script = "agent", evaluated # txn_rows,
         NEW hit \in match_deterministic(row, led_rows)
  PROVE  /\ row \in Cleared({row}) =>
              agent_match(hit) # NoEntry /\ agent_match(hit).id = row.id
         /\ row \notin Cleared({row}) => agent_match(hit) = NoEntry /\ ~should_match(row)
<1>1. /\ row \in Rows(transactions) /\ row \notin evaluated
      /\ \A u \in txn_rows : u.id < row.id => u \in evaluated
      /\ txn_rows = Rows(transactions) /\ evaluated \subseteq Rows(transactions)
  BY NextRow DEF BenchmarkInv, RunInv, CountInv
<1>2. SplitInv
  BY DEF BenchmarkInv
<1>3. claimed_ids = {t.id : t \in Cleared(evaluated)}
  <2>1. claimed_ids = {c[2] : c \in {<<t.id, t.id>> : t \in Cleared(evaluated)}}
    BY DEF BenchmarkInv, AgentInv
  <2> DEFINE S == Cleared(evaluated)
             pairs == {<<t.id, t.id>> : t \in S}
  <2> HIDE DEF S
  <2>2. {c[2] : c \in pairs} \subseteq {t.id : t \in S}
    OBVIOUS
  <2>3. ASSUME NEW t \in S
        PROVE  t.id \in {c[2] : c \in pairs}
    <3>1. <<t.id, t.id>> \in pairs /\ <<t.id, t.id>>[2] = t.id
      OBVIOUS
    <3> HIDE DEF pairs
    <3> QED BY <3>1
  <2> QED BY <2>1, <2>2, <2>3 DEF S
<1>4. MatchIsRight(row, hit) /\ valid_invoices = invoices
  <2>1. led_rows = Rows(ledger_entries) /\ valid_invoices = invoices
    BY DEF BenchmarkInv, RunInv
  <2> QED BY <2>1, <1>1, <1>2, MatcherAsks
<1>5. CASE ~Clears(row)
  BY <1>5, <1>4 DEF MatchIsRight, agent_match, Cleared, Clears, should_match
<1>6. CASE Clears(row) /\ Original(row)
  <2>1. row.id \notin claimed_ids
    <3>1. ASSUME NEW t \in Cleared(evaluated), t.id = row.id
          PROVE  FALSE
      <4>1. t \in evaluated /\ t \in Rows(transactions)
        BY <1>1 DEF Cleared
      <4>2. t = row
        BY <3>1, <4>1, <1>1, <1>2, RowsById
      <4> QED BY <4>1, <4>2, <1>1
    <3> QED BY <1>3, <3>1
  <2>2. row.reference = row.id
    BY <1>6 DEF Original
  <2> QED BY <1>6, <1>4, <2>1, <2>2 DEF MatchIsRight, agent_match, Cleared, _claim
<1>7. CASE Clears(row) /\ ~Original(row)
  <2>1. row.id \in DOMAIN transactions /\ transactions[row.id] = row
    BY <1>1, <1>2, RowsById
  <2> DEFINE first == transactions[row.id - 1]
  <2>2. /\ row.id - 1 \in DOMAIN transactions /\ row.reference = row.id - 1
        /\ IsDuplicate(row) /\ IsDuplicate(first) /\ Original(first)
        /\ first.id = row.id - 1
    BY <1>2, <1>7, <2>1 DEF SplitInv, TransactionsInv
  <2>3. first \in Rows(transactions) /\ first.id < row.id
    <3>1. row.id \in Nat
      BY <1>2, <2>1 DEF SplitInv, FilesType
    <3> QED BY <2>2, <3>1 DEF Rows
  <2>4. first \in Cleared(evaluated)
    BY <1>1, <2>2, <2>3 DEF Cleared, Clears, IsDuplicate
  <2>5. row.reference \in claimed_ids
    BY <1>3, <2>2, <2>4
  <2>6. ~should_match(row)
    BY <2>2 DEF IsDuplicate, should_match
  <2> QED BY <1>7, <1>4, <2>5, <2>6 DEF MatchIsRight, agent_match, Cleared, _claim
<1> QED BY <1>5, <1>6, <1>7

LEMMA EvaluateKeeps ==
  ASSUME BenchmarkInv, agent_row \/ baseline_row
  PROVE  BenchmarkInv'
<1>1. /\ pc = "evaluate" /\ pc' \in {"evaluate", "raised"} /\ evaluated # txn_rows
      /\ evaluated' = evaluated \cup {row}
      /\ script \in {"agent", "baseline"} /\ script' = script
      /\ UNCHANGED <<genVars, tableVars, metrics>>
      /\ CountMatched(row) \/ CountUnmatched(row)
      /\ script = "agent" => agent_row
      /\ script = "baseline" => baseline_row
  BY DEF agent_row, baseline_row, Clear, investigate
<1>2. /\ row \in txn_rows \ evaluated /\ row \in Rows(transactions)
      /\ \A u \in txn_rows : u.id < row.id => u \in evaluated
      /\ IsFiniteSet(evaluated) /\ evaluated \subseteq txn_rows
      /\ txn_rows = Rows(transactions)
  BY <1>1, NextRow DEF BenchmarkInv, CountInv, RunInv
<1>3. SplitInv'
  BY <1>1 DEF genVars, BenchmarkInv, SplitInv, FilesType, TransactionsInv,
     LedgerInv, Original, Clears, IsDuplicate, InSplit, _key
<1>4. UNCHANGED TablesAndFiles /\ txn_rows' = txn_rows
  BY <1>1, TablesStay DEF TablesAndFiles
<1>5. RunInv'
  BY <1>1, <1>4, EvaluationAssumption
     DEF BenchmarkInv, RunInv, genVars, tableVars, TablesAndFiles
<1> DEFINE Clean == {t \in txn_rows : should_match(t)}
<1>6. /\ {t \in evaluated : should_match(t)} = Clean \cap evaluated
      /\ {t \in evaluated : should_match(t)}' = Clean \cap (evaluated \cup {row})
      /\ row \in Clean <=> should_match(row)
  BY <1>1, <1>2 DEF should_match
<1>7. /\ Cardinality(evaluated) \in Nat
      /\ Cardinality(evaluated') = Cardinality(evaluated) + 1
  BY <1>1, <1>2, FS_AddElement, FS_CardinalityType
<1>8. /\ Cardinality(Clean \cap evaluated) \in Nat
      /\ Cardinality(Clean \cap (evaluated \cup {row})) =
           Cardinality(Clean \cap evaluated) + (IF should_match(row) THEN 1 ELSE 0)
  BY <1>1, <1>6, CountedRow
<1>9. /\ tp' \in Nat /\ fp' \in Nat /\ fn' \in Nat /\ manual_review_count' \in Nat
      /\ tp' + fp' + manual_review_count' = tp + fp + manual_review_count + 1
      /\ tp' + fn' = tp + fn + (IF should_match(row) THEN 1 ELSE 0)
  BY <1>1 DEF CountMatched, CountUnmatched, BenchmarkInv, CountInv
<1>10. n_investigated' \in Nat /\ n_investigated' <= manual_review_count'
  BY DEF agent_row, baseline_row, Clear, investigate, CountMatched, CountUnmatched,
     BenchmarkInv, CountInv
<1>11. CountInv'
  <2>1. evaluated' \subseteq txn_rows'
    BY <1>1, <1>2, <1>4
  <2>2. ASSUME NEW t \in evaluated', NEW u \in txn_rows', u.id <= t.id
        PROVE  u \in evaluated'
    <3>1. CASE t \in evaluated
      BY <3>1, <2>2, <1>1, <1>4 DEF BenchmarkInv, CountInv
    <3>2. CASE t = row /\ u.id # row.id
      <4>1. u.id \in Nat /\ row.id \in Nat
        BY <1>2, <1>4, RowsById DEF BenchmarkInv, SplitInv, FilesType
      <4> QED BY <2>2, <3>2, <4>1, <1>1, <1>2, <1>4
    <3>3. CASE t = row /\ u.id = row.id
      BY <3>3, <1>1, <1>2, <1>4, RowsById DEF BenchmarkInv
    <3> QED BY <3>1, <3>2, <3>3, <1>1
  <2>3. tp' + fp' + manual_review_count' = Cardinality(evaluated')
    BY <1>7, <1>9 DEF BenchmarkInv, CountInv
  <2>4. tp' + fn' = Cardinality({t \in evaluated : should_match(t)}')
    <3>1. tp + fn = Cardinality(Clean \cap evaluated)
      BY <1>6 DEF BenchmarkInv, CountInv
    <3>2. Cardinality({t \in evaluated : should_match(t)}') = Cardinality(Clean \cap (evaluated \cup {row}))
      BY <1>6
    <3> QED BY <3>1, <3>2, <1>8, <1>9
  <2> QED BY <2>1, <2>2, <2>3, <2>4, <1>9, <1>10 DEF CountInv
<1>12. AgentInv'
  <2>1. CASE script = "baseline"
    BY <2>1, <1>1 DEF baseline_row, BenchmarkInv, AgentInv
  <2>2. CASE script = "agent"
    <3>1. /\ agent_row /\ n_investigated = manual_review_count
          /\ fn = 0 /\ fp = Cardinality(FirstCopies(evaluated))
          /\ cleared = {<<t.id, t.id>> : t \in Cleared(evaluated)}
          /\ claimed_ids = {c[2] : c \in cleared}
      BY <2>2, <1>1 DEF BenchmarkInv, AgentInv
    <3>2. PICK hit \in match_deterministic(row, led_rows) :
            \/ agent_match(hit) # NoEntry /\ Clear(agent_match(hit))
            \/ agent_match(hit) = NoEntry /\ investigate
      BY <3>1 DEF agent_row
    <3> DEFINE Firsts == FirstCopies(txn_rows)
    <3>3. /\ FirstCopies(evaluated) = Firsts \cap evaluated
          /\ FirstCopies(evaluated)' = Firsts \cap (evaluated \cup {row})
          /\ Firsts \subseteq txn_rows
          /\ row \in Firsts <=> IsDuplicate(row) /\ Original(row)
      BY <1>1, <1>2 DEF FirstCopies, IsDuplicate, Original
    <3>4. /\ fp \in Nat
          /\ Cardinality(FirstCopies(evaluated)') =
               fp + (IF IsDuplicate(row) /\ Original(row) THEN 1 ELSE 0)
      <4>1. /\ Cardinality(Firsts \cap evaluated) \in Nat
            /\ Cardinality(Firsts \cap (evaluated \cup {row})) =
                 Cardinality(Firsts \cap evaluated) + (IF row \in Firsts THEN 1 ELSE 0)
        BY <1>1, <3>3, CountedRow
      <4> QED BY <4>1, <3>1, <3>3
    <3>5. CASE row \in Cleared({row})
      <4>1. agent_match(hit) # NoEntry /\ agent_match(hit).id = row.id
        BY <2>2, <3>5, <1>1, AgentClears
      <4>2. /\ CountMatched(row) /\ pc' = pc /\ n_investigated' = n_investigated
            /\ claimed_ids' = claimed_ids \cup {row.id}
            /\ cleared' = cleared \cup {<<row.id, row.id>>}
        BY <3>2, <4>1 DEF Clear
      <4>3. Cleared(evaluated)' = Cleared(evaluated) \cup {row}
        BY <3>5, <1>1 DEF Cleared, Clears, Original
      <4>4. cleared' = {<<t.id, t.id>> : t \in Cleared(evaluated)'}
        BY <3>1, <4>2, <4>3
      <4>5. claimed_ids' = {c[2] : c \in cleared'}
        <5>1. <<row.id, row.id>>[2] = row.id
          OBVIOUS
        <5> DEFINE pair == <<row.id, row.id>>
        <5> HIDE DEF pair
        <5>2. {c[2] : c \in cleared \cup {pair}} = {c[2] : c \in cleared} \cup {pair[2]}
          OBVIOUS
        <5> QED BY <3>1, <4>2, <5>1, <5>2 DEF pair
      <4>6. fp' = Cardinality(FirstCopies(evaluated)') /\ fn' = 0
        <5>1. Clears(row) /\ Original(row)
          BY <3>5 DEF Cleared
        <5> QED BY <3>1, <3>4, <4>2, <5>1 DEF CountMatched, Clears, IsDuplicate, should_match
      <4>7. n_investigated' = manual_review_count'
        BY <3>1, <4>2 DEF CountMatched
      <4> QED BY <2>2, <4>4, <4>5, <4>6, <4>7, <1>1 DEF AgentInv
    <3>6. CASE row \notin Cleared({row})
      <4>1. agent_match(hit) = NoEntry /\ ~should_match(row)
        BY <2>2, <3>6, <1>1, AgentClears
      <4>2. /\ CountUnmatched(row)
            /\ claimed_ids' = claimed_ids /\ cleared' = cleared
            /\ pc' # "raised" => n_investigated' = n_investigated + 1
        BY <3>2, <4>1 DEF investigate
      <4>3. Cleared(evaluated)' = Cleared(evaluated)
        BY <3>6, <1>1 DEF Cleared, Clears, Original
      <4>4. fp' = Cardinality(FirstCopies(evaluated)') /\ fn' = 0
        <5>1. ~(Clears(row) /\ Original(row))
          BY <3>6 DEF Cleared
        <5>2. ~(IsDuplicate(row) /\ Original(row))
          BY <5>1 DEF Clears, IsDuplicate
        <5> QED BY <3>1, <3>4, <4>1, <4>2, <5>2 DEF CountUnmatched
      <4>5. pc' # "raised" => n_investigated' = manual_review_count'
        BY <3>1, <4>2 DEF CountUnmatched
      <4> QED BY <2>2, <3>1, <4>2, <4>3, <4>4, <4>5, <1>1 DEF AgentInv
    <3> QED BY <3>5, <3>6
  <2> QED BY <2>1, <2>2, <1>1
<1>13. MetricsInv'
  BY <1>1 DEF BenchmarkInv, MetricsInv
<1> QED BY <1>3, <1>5, <1>11, <1>12, <1>13 DEF BenchmarkInv

LEMMA WriteKeeps ==
  ASSUME BenchmarkInv, write_metrics
  PROVE  BenchmarkInv'
<1>1. /\ pc = "evaluate" /\ pc' = "written" /\ script # NoEntry /\ evaluated = txn_rows
      /\ metrics' = Written
      /\ UNCHANGED <<genVars, tableVars, script, evaluated, claimed_ids, countVars, cleared>>
  BY DEF write_metrics, Written
<1>2. SplitInv'
  BY <1>1 DEF genVars, BenchmarkInv, SplitInv, FilesType, TransactionsInv,
     LedgerInv, Original, Clears, IsDuplicate, InSplit, _key
<1>3. UNCHANGED TablesAndFiles /\ txn_rows' = txn_rows
  BY <1>1, TablesStay DEF TablesAndFiles
<1>4. RunInv'
  BY <1>1, <1>3 DEF BenchmarkInv, RunInv, genVars, tableVars, TablesAndFiles
<1>5. CountInv'
  BY <1>1, <1>3 DEF BenchmarkInv, CountInv, should_match, countVars
<1>6. AgentInv'
  BY <1>1 DEF BenchmarkInv, AgentInv, FirstCopies, Cleared, Clears, IsDuplicate,
     Original, countVars
<1>7. Written' = Written
  BY <1>1, <1>3 DEF Written, precision, recall, f1, Guarded, countVars
<1>8. MetricsInv'
  BY <1>1, <1>3, <1>7 DEF MetricsInv
<1> QED BY <1>2, <1>4, <1>5, <1>6, <1>8 DEF BenchmarkInv

LEMMA StutterKeeps ==
  ASSUME BenchmarkInv, UNCHANGED vars
  PROVE  BenchmarkInv'
<1> USE DEF vars, genVars, tableVars, countVars
<1>1. SplitInv'
  BY DEF BenchmarkInv, SplitInv, FilesType, TransactionsInv,
     LedgerInv, Original, Clears, IsDuplicate, InSplit, _key
<1>2. UNCHANGED TablesAndFiles /\ txn_rows' = txn_rows
  BY TablesStay DEF TablesAndFiles
<1>3. RunInv'
  BY <1>2 DEF BenchmarkInv, RunInv, Fresh, TablesAndFiles
<1>4. CountInv'
  BY <1>2 DEF BenchmarkInv, CountInv, should_match
<1>5. AgentInv'
  BY DEF BenchmarkInv, AgentInv, FirstCopies, Cleared, Clears, IsDuplicate, Original
<1>6. MetricsInv'
  BY <1>2 DEF BenchmarkInv, MetricsInv, Written, precision, recall, f1, Guarded
<1> QED BY <1>1, <1>3, <1>4, <1>5, <1>6 DEF BenchmarkInv

(* The inductive invariant of the benchmark: the files are as generated,   *)
(* the tables hold them, and the counts and claims are those of the rows   *)
(* evaluated so far.                                                       *)
THEOREM BenchmarkInvariance == Spec => []BenchmarkInv
<1>1. ASSUME BenchmarkInv, [Next]_vars
      PROVE  BenchmarkInv'
  BY <1>1, GenerateKeeps, LoadKeeps, ChooseKeeps, EvaluateKeeps, WriteKeeps, StutterKeeps
     DEF Next, Stopped
<1> QED BY <1>1, BenchmarkInit, PTL DEF Spec

-----------------------------------------------------------------------------
(* What follows                                                            *)

(* Counts are bounded by the rows evaluated, and what has cleared are rows *)
(* of the split and entries of its ledger (data/, scripts/run_agent_eval). *)
THEOREM TypeCorrect == Spec => []TypeOK
<1>1. ASSUME BenchmarkInv
      PROVE  TypeOK
  <2>1. /\ SplitInv /\ RunInv /\ CountInv /\ AgentInv
    BY <1>1 DEF BenchmarkInv
  <2>2. IsFiniteSet(evaluated) /\ evaluated \subseteq stored
    <3>1. evaluated \subseteq stored
      BY <2>1 DEF CountInv, txn_rows
    <3> QED BY <2>1, <3>1, FS_Subset DEF RunInv
  <2>3. /\ Cardinality(evaluated) \in Nat
        /\ Cardinality({t \in evaluated : should_match(t)}) \in Nat
        /\ Cardinality({t \in evaluated : should_match(t)}) <= Cardinality(evaluated)
    <3>1. {t \in evaluated : should_match(t)} \in SUBSET evaluated
      OBVIOUS
    <3> QED BY <2>2, <3>1, FS_Subset, FS_CardinalityType
  <2>4. \A n \in {tp, fp, fn, manual_review_count, n_investigated} :
          n \in 0 .. Cardinality(evaluated)
    BY <2>1, <2>3 DEF CountInv
  <2>5. cleared \subseteq (DOMAIN transactions) \X
          {ledger_entries[i].id : i \in DOMAIN ledger_entries}
    <3>1. CASE cleared = {}
      BY <3>1
    <3>2. CASE cleared # {}
      <4>1. cleared = {<<t.id, t.id>> : t \in Cleared(evaluated)}
        BY <3>2, <2>1 DEF AgentInv
      <4>2. pc \notin {"generate", "load"}
        BY <3>2, <2>1 DEF RunInv, Fresh
      <4>3. ASSUME NEW t \in Cleared(evaluated)
            PROVE  /\ t.id \in DOMAIN transactions
                   /\ t.id \in {ledger_entries[i].id : i \in DOMAIN ledger_entries}
        <5>1. t \in Rows(transactions) /\ t.reference = t.id
          BY <4>2, <2>1 DEF Cleared, Original, RunInv, CountInv
        <5>2. t.id \in DOMAIN transactions /\ transactions[t.id] = t
          BY <5>1, <2>1, RowsById
        <5> QED BY <5>1, <5>2, <2>1 DEF SplitInv, LedgerInv
      <4> QED BY <4>1, <4>3
    <3> QED BY <3>1, <3>2
  <2> QED BY <2>1, <2>2, <2>4, <2>5 DEF TypeOK, SplitInv, FilesType, RunInv, AgentInv
<1> QED BY <1>1, BenchmarkInvariance, PTL

(* A ledger entry clears one transaction, also where two have its key      *)
(* (the set behind _claim, scripts/run_agent_eval.py).                     *)
THEOREM ClearedOnceAlways == Spec => []ClearedOnce
<1>1. ASSUME BenchmarkInv
      PROVE  ClearedOnce
  <2>1. cleared = {} \/ cleared = {<<t.id, t.id>> : t \in Cleared(evaluated)}
    BY <1>1 DEF BenchmarkInv, AgentInv
  <2>2. \A c \in cleared : \E n : c = <<n, n>>
    BY <2>1
  <2> QED BY <2>2 DEF ClearedOnce
<1> QED BY <1>1, BenchmarkInvariance, PTL

(* Rows of the split are as many as their numbers.                         *)
LEMMA RowsCounted ==
  ASSUME SplitInv, NEW I \in SUBSET DOMAIN transactions
  PROVE  /\ IsFiniteSet(I) /\ Cardinality(I) \in Nat
         /\ Cardinality({transactions[i] : i \in I}) = Cardinality(I)
<1>1. transactions \in Seq(Transaction) /\ DOMAIN transactions = 1 .. Len(transactions)
      /\ Len(transactions) \in Nat
  BY DEF SplitInv, FilesType
<1>2. IsFiniteSet(I) /\ Cardinality(I) \in Nat
  <2>1. IsFiniteSet(DOMAIN transactions)
    BY <1>1, FS_Interval
  <2>2. IsFiniteSet(I)
    BY <2>1, FS_Subset
  <2> QED BY <2>2, FS_CardinalityType
<1> DEFINE T == {transactions[i] : i \in I}
           f == [i \in I |-> transactions[i]]
<1>3. f \in [I -> T] /\ (\A t \in T : \E i \in I : f[i] = t)
  OBVIOUS
<1>4. \A i, j \in I : f[i] = f[j] => i = j
  <2>1. \A i \in I : f[i].id = i
    BY DEF SplitInv, TransactionsInv
  <2> QED BY <2>1
<1> HIDE DEF f, T
<1>5. f \in Bijection(I, T)
  BY <1>3, <1>4 DEF Bijection, Injection, Surjection, IsInjective
<1>6. Cardinality(T) = Cardinality(I)
  BY <1>2, <1>5, FS_Bijection DEF ExistsBijection
<1> QED BY <1>2, <1>6 DEF T

(* What the metrics are about is the split just generated, every row once  *)
(* (load_to_postgres.py, run_agent_eval.py and run_baseline_eval.py).      *)
THEOREM EveryRowAccounted == Spec => []Accounted
<1>1. ASSUME BenchmarkInv
      PROVE  Accounted
  <2> SUFFICES ASSUME pc = "written"
               PROVE  /\ metrics.n_transactions = Len(transactions)
                      /\ tp + fp + manual_review_count = Len(transactions)
                      /\ tp + fn = Cardinality(WithLabel({"clean_match"}))
                      /\ script = "agent" => n_investigated = manual_review_count
    BY DEF Accounted
  <2>1. /\ SplitInv /\ txn_rows = Rows(transactions) /\ evaluated = txn_rows
        /\ metrics.n_transactions = Cardinality(txn_rows)
        /\ tp + fp + manual_review_count = Cardinality(evaluated)
        /\ tp + fn = Cardinality({t \in evaluated : should_match(t)})
        /\ script = "agent" => n_investigated = manual_review_count
    BY <1>1 DEF BenchmarkInv, RunInv, CountInv, AgentInv, MetricsInv, Written
  <2>2. Cardinality(Rows(transactions)) = Len(transactions)
    BY <2>1, RowsById
  <2>3. {t \in evaluated : should_match(t)} =
          {transactions[i] : i \in WithLabel({"clean_match"})}
    BY <2>1 DEF Rows, WithLabel, should_match
  <2>4. WithLabel({"clean_match"}) \in SUBSET DOMAIN transactions
    BY DEF WithLabel
  <2>5. tp + fn = Cardinality(WithLabel({"clean_match"}))
    BY <2>1, <2>3, <2>4, RowsCounted
  <2> QED BY <2>1, <2>2, <2>5
<1> QED BY <1>1, BenchmarkInvariance, PTL

(* The agent's matcher clears what the labels say and no more: the only    *)
(* false positives are the originals of duplicates, one per pair           *)
(* (matcher/, data/generate_synthetic_data.py).                            *)
THEOREM LabelsHold == Spec => []ClearsAsLabelled
<1>1. ASSUME BenchmarkInv
      PROVE  ClearsAsLabelled
  <2> SUFFICES ASSUME pc = "written", script = "agent"
               PROVE  /\ fn = 0 /\ 2 * fp = Cardinality(WithLabel({"duplicate"}))
                      /\ \A c \in cleared :
                           transactions[c[1]].label_exception_type \in {"clean_match", "duplicate"}
    BY DEF ClearsAsLabelled
  <2>1. /\ SplitInv /\ txn_rows = Rows(transactions) /\ evaluated = txn_rows
        /\ fn = 0 /\ fp = Cardinality(FirstCopies(evaluated))
        /\ cleared = {<<t.id, t.id>> : t \in Cleared(evaluated)}
    BY <1>1 DEF BenchmarkInv, RunInv, AgentInv, MetricsInv
  <2>2. ASSUME NEW t \in Cleared(evaluated)
        PROVE  transactions[t.id].label_exception_type \in {"clean_match", "duplicate"}
    <3>1. t \in Rows(transactions) /\ Clears(t)
      BY <2>1 DEF Cleared
    <3> QED BY <2>1, <3>1, RowsById DEF Clears
  <2> DEFINE D == WithLabel({"duplicate"})
             A == {i \in DOMAIN transactions : IsDuplicate(transactions[i]) /\ Original(transactions[i])}
             B == {i \in DOMAIN transactions : IsDuplicate(transactions[i]) /\ ~Original(transactions[i])}
             f == [i \in A |-> i + 1]
  <2>3. D = A \cup B /\ A \cap B = {}
    BY DEF WithLabel, IsDuplicate
  <2>4. \A i \in DOMAIN transactions : i \in Nat /\ transactions[i].id = i
    BY <2>1 DEF SplitInv, FilesType, TransactionsInv
  <2>5. ASSUME NEW i \in A
        PROVE  i + 1 \in B
    <3>1. /\ i + 1 \in DOMAIN transactions /\ transactions[i + 1].reference = i
          /\ IsDuplicate(transactions[i + 1])
      BY <2>1 DEF SplitInv, TransactionsInv
    <3>2. ~Original(transactions[i + 1])
      BY <2>4, <3>1 DEF Original
    <3> QED BY <3>1, <3>2
  <2>6. ASSUME NEW j \in B
        PROVE  j - 1 \in A
    BY <2>1 DEF SplitInv, TransactionsInv
  <2>7. A \subseteq DOMAIN transactions /\ B \subseteq DOMAIN transactions
    OBVIOUS
  <2>8. FirstCopies(evaluated) = {transactions[i] : i \in A}
    BY <2>1 DEF FirstCopies, Rows
  <2> HIDE DEF A, B, D
  <2>9. f \in Bijection(A, B)
    <3>1. f \in [A -> B]
      BY <2>5
    <3>2. \A i, j \in A : f[i] = f[j] => i = j
      BY <2>4, <2>7
    <3>3. ASSUME NEW j \in B
          PROVE  \E i \in A : f[i] = j
      BY <2>4, <2>6, <2>7
    <3> HIDE DEF f
    <3> QED BY <3>1, <3>2, <3>3 DEF Bijection, Injection, Surjection, IsInjective
  <2>10. /\ IsFiniteSet(A) /\ IsFiniteSet(B) /\ Cardinality(A) \in Nat
         /\ fp = Cardinality(A)
    BY <2>1, <2>7, <2>8, RowsCounted
  <2>11. Cardinality(B) = Cardinality(A)
    <3>1. ExistsBijection(A, B)
      BY <2>9 DEF ExistsBijection
    <3> QED BY <2>10, <3>1, FS_Bijection
  <2>12. Cardinality(D) = Cardinality(A) + Cardinality(B)
    <3>1. Cardinality(A \cup B) = Cardinality(A) + Cardinality(B) - Cardinality(A \cap B)
      BY <2>10, FS_Union
    <3>2. Cardinality(A \cap B) = 0
      BY <2>3, FS_EmptySet
    <3>3. Cardinality(D) = Cardinality(A \cup B) /\ Cardinality(B) \in Nat
      BY <2>3, <2>10, <2>11
    <3> QED BY <2>10, <3>1, <3>2, <3>3
  <2>13. 2 * fp = Cardinality(D)
    BY <2>10, <2>11, <2>12
  <2> QED BY <2>1, <2>2, <2>13 DEF D
<1> QED BY <1>1, BenchmarkInvariance, PTL

(* The fractions of eval/metrics.py: the F1 written is that of the counts, *)
(* and no count makes a division fail.                                     *)
LEMMA Fractions ==
  ASSUME tp \in Nat, fp \in Nat, fn \in Nat
  PROVE  /\ \A m \in {precision, recall, f1} : m[2] > 0 /\ m[1] \in 0 .. m[2]
         /\ f1[1] * (2 * tp + fp + fn) = 2 * tp * f1[2]
<1>1. precision = (IF tp + fp # 0 THEN <<tp, tp + fp>> ELSE <<0, 1>>)
      /\ recall = (IF tp + fn # 0 THEN <<tp, tp + fn>> ELSE <<0, 1>>)
  BY DEF precision, recall, Guarded
<1>2. /\ precision[2] > 0 /\ precision[1] \in 0 .. precision[2]
      /\ recall[2] > 0 /\ recall[1] \in 0 .. recall[2]
  BY <1>1
<1>3. CASE tp = 0
  <2>1. precision[1] = 0 /\ recall[1] = 0 /\ precision[2] \in Nat /\ recall[2] \in Nat
    BY <1>1, <1>3
  <2>2. 2 * precision[1] * recall[1] = 0
        /\ precision[1] * recall[2] + recall[1] * precision[2] = 0
    BY <2>1
  <2>3. f1 = <<0, 1>>
    BY <2>2 DEF f1, Guarded
  <2> QED BY <1>2, <1>3, <2>3
<1>4. CASE tp # 0
  <2> DEFINE den == tp * (tp + fn) + tp * (tp + fp)
  <2>1. precision = <<tp, tp + fp>> /\ recall = <<tp, tp + fn>>
    BY <1>1, <1>4
  <2>2. /\ tp * tp \in Nat /\ tp * tp > 0 /\ tp * fn \in Nat /\ tp * fp \in Nat
        /\ den = 2 * (tp * tp) + tp * fn + tp * fp
    BY <1>4
  <2>3. f1 = <<2 * tp * tp, den>>
    <3>1. precision[1] * recall[2] + recall[1] * precision[2] = den
      BY <2>1
    <3>2. den # 0
      BY <2>2
    <3> QED BY <2>1, <3>1, <3>2 DEF f1, Guarded
  <2>4. 2 * tp * tp = 2 * (tp * tp)
    OBVIOUS
  <2>5. f1[2] > 0 /\ f1[1] \in 0 .. f1[2]
    BY <2>2, <2>3, <2>4
  <2>6. (2 * tp * tp) * (2 * tp + fp + fn) = 2 * tp * den
    OBVIOUS
  <2> QED BY <1>2, <2>3, <2>5, <2>6
<1> QED BY <1>3, <1>4

THEOREM MetricsAreExact == Spec => []MetricsExact
<1>1. ASSUME BenchmarkInv
      PROVE  MetricsExact
  <2> SUFFICES ASSUME metrics # NoEntry
               PROVE  /\ \A m \in {"precision", "recall", "f1", "pct_manual_review"} :
                           metrics[m][2] > 0 /\ metrics[m][1] \in 0 .. metrics[m][2]
                      /\ metrics.f1[1] * (2 * tp + fp + fn) = 2 * tp * metrics.f1[2]
    BY DEF MetricsExact
  <2>1. /\ SplitInv /\ txn_rows = Rows(transactions) /\ evaluated = txn_rows
        /\ tp \in Nat /\ fp \in Nat /\ fn \in Nat /\ manual_review_count \in Nat
        /\ tp + fp + manual_review_count = Cardinality(evaluated)
        /\ metrics = Written /\ made = Len(Plan)
    BY <1>1 DEF BenchmarkInv, RunInv, CountInv, MetricsInv
  <2>2. Cardinality(txn_rows) \in Nat \ {0}
    <3>1. Len(transactions) \in Nat \ {0}
      BY <2>1, EvaluationAssumption DEF SplitInv, FilesType
    <3> QED BY <2>1, <3>1, RowsById
  <2>3. /\ metrics.precision = precision /\ metrics.recall = recall /\ metrics.f1 = f1
        /\ metrics.pct_manual_review = <<manual_review_count, Cardinality(txn_rows)>>
    BY <2>1 DEF Written
  <2>4. manual_review_count \in 0 .. Cardinality(txn_rows)
    BY <2>1, <2>2
  <2> QED BY <2>1, <2>2, <2>3, <2>4, Fractions
<1> QED BY <1>1, BenchmarkInvariance, PTL
=============================================================================
