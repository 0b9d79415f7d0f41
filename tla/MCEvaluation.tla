---------------------------- MODULE MCEvaluation ----------------------------
(* Every label of the generator once.                                      *)
EXTENDS Evaluation

MCPlan == <<"clean_match", "amount_mismatch", "date_mismatch", "duplicate",
            "currency_issue", "missing_invoice", "policy_sensitive">>

MCAmountShifts == {-5}

MCDateShifts == {-3}

MCEarlyDates == {-30}

(* An older generation's rows, of either split: a transaction that is not  *)
(* made again, an entry with the key of the amount mismatch, and the       *)
(* invoice number that is missing.                                         *)
MCLeftovers ==
  {[transactions |->
      {[id |-> 10, date |-> 0, amount |-> 0, currency |-> "USD", reference |-> 0,
        label_exception_type |-> "clean_match", dataset_split |-> split]},
    ledger_entries |->
      {<<split, [id |-> 10, date |-> 0, amount |-> 20, currency |-> "USD", reference |-> 2,
                 invoice_number |-> 1]>>},
    invoices |-> {<<split, 0>>}]
   : split \in {"held_out", "tuning"}}
=============================================================================
