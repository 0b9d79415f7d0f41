---------------------- MODULE StatementIngestionProofs ----------------------
(***************************************************************************)
(* Uploads on top of the case workflow, for any statements, threads, cases *)
(* and rows.  To the workflow an upload is one more caller, so what holds  *)
(* of it holds here; and the rows of an upload are followed from the table *)
(* of transactions to the case index.                                      *)
(***************************************************************************)
EXTENDS StatementIngestion, CaseWorkflowProofs, JsonSpansProofs

-----------------------------------------------------------------------------
(* What an upload does to the workflow                                     *)

(* A step of the workflow, or an invocation that ends before its graph has *)
(* begun: the update of the index in front of it raised.                   *)
Abandon(i) ==
  /\ Running(i) => inv[i].at = "begin"
  /\ inv' = [inv EXCEPT ![i] = None]
  /\ UNCHANGED <<graphVars, stuck, net, erpVars, histVars>>

Idle == UNCHANGED <<graphVars, inv, stuck, net, erpVars, histVars>>

Below == Next \/ Idle \/ \E i \in Invs : Abandon(i)

(* The rows of a page are those of an array of its answer, or none.        *)
LEMMA PageRows ==
  ASSUME NEW p, IsPage(p)
  PROVE  extract_transactions_from_page(p) \in Seq(RawRow)
<1> DEFINE found == extract_json_array(p.reply)
           span == <<found.from, found.to>>
<1>1. p.reply \in Seq(Pieces) /\ p.rows \in [Arrays(p.reply) -> Seq(RawRow)]
  BY DEF IsPage
<1>2. found # Unparsed => span \in Arrays(p.reply)
  BY Zenon, <1>1, PlainArrayFound
<1>3. <<>> \in Seq(RawRow)
  OBVIOUS
<1>4. extract_transactions_from_page(p) =
        IF p.call = "answered" /\ found # Unparsed THEN p.rows[span] ELSE <<>>
  BY DEF extract_transactions_from_page
<1> HIDE DEF found, span
<1> QED BY <1>1, <1>2, <1>3, <1>4

(* What statements hold is what its type says.                             *)
LEMMA ParsedRows ==
  ASSUME NEW pdf \in Statements
  PROVE  outcomes[pdf].parsed \subseteq Extracted
<1>1. ASSUME NEW r \in raw_extracted(pdf)
      PROVE  r \in Extracted
  <2>1. PICK n \in DOMAIN pdf :
          LET rows == extract_transactions_from_page(pdf[n])
          IN  r \in {[page |-> n, place |-> k, raw |-> rows[k]] : k \in DOMAIN rows}
    BY DEF raw_extracted
  <2> DEFINE rows == extract_transactions_from_page(pdf[n])
  <2>2. pdf[n] \in Range(pdf)
    BY DEF Range
  <2>3. n \in Nat /\ IsPage(pdf[n])
    BY <2>2, StatementAssumption
  <2> HIDE DEF rows
  <2>6. rows \in Seq(RawRow)
    BY <2>3, PageRows DEF rows
  <2>7. PICK k \in DOMAIN rows : r = [page |-> n, place |-> k, raw |-> rows[k]]
    BY <2>1 DEF rows
  <2>8. k \in Nat /\ rows[k] \in RawRow
    BY <2>6
  <2> QED BY <2>3, <2>7, <2>8 DEF Extracted
<1>2. outcomes[pdf].parsed \subseteq raw_extracted(pdf)
  <2> DEFINE valid == {r \in raw_extracted(pdf) : r.raw.kind = "valid"}
  <2>1. outcomes[pdf] = [aborts |-> Aborts(pdf), parsed |-> valid]
    BY DEF outcomes
  <2> HIDE DEF valid
  <2>2. outcomes[pdf].parsed = valid
    BY <2>1
  <2> QED BY <2>2 DEF valid
<1> QED BY <1>1, <1>2

(* Every step of the program is one of those.                              *)
LEMMA UploadsAreCallers ==
  ASSUME UploadTypeOK, [UploadNext]_allVars
  PROVE  Below
<1> USE DEF uploadVars
<1>1. CASE UNCHANGED allVars
  BY <1>1 DEF allVars, vars, Below, Idle, graphVars, erpVars, histVars
<1>2. CASE Others
  BY <1>2 DEF Others, Below, Next
<1>3. ASSUME NEW i \in Invs, \E pdf \in Statements : ingest_statement_endpoint(i, pdf)
      PROVE  Below
  BY <1>3 DEF ingest_statement_endpoint, vars, Below, Idle, graphVars, erpVars, histVars
<1>4. ASSUME NEW i \in Invs, EndpointCall(i)
      PROVE  Below
  BY <1>4 DEF EndpointCall, Below, Next, Call
<1>5. ASSUME NEW i \in Invs, GraphStep(i) \/ (Fail(i) /\ Errored(i))
      PROVE  Below
  BY <1>5 DEF GraphStep, Step, Below, Next
<1>6. ASSUME NEW i \in Invs, NextCase(i)
      PROVE  Below
  <2>1. PICK r \in upload[i].pending : ingest_statement(i, r.raw.case, r.raw.hit)
    BY <1>6 DEF NextCase
  <2>2. upload[i] \in Upload
    BY <1>6 DEF NextCase, Uploading, UploadTypeOK
  <2>3. r.raw \in RawRow
    BY <2>2 DEF Upload, Extracted
  <2>4. r.raw.case \in Cases /\ r.raw.hit \in Ledgers \cup {None}
    BY <2>3 DEF RawRow
  <2> QED BY <2>1, <2>4 DEF Below, Next, Call
<1>7. ASSUME NEW i \in Invs, Merge(i) \/ Commit(i) \/ ReadIndex(i) \/ Respond(i)
      PROVE  Below
  BY <1>7 DEF Merge, Commit, ReadIndex, Respond, vars, Below, Idle, graphVars, erpVars, histVars
<1>8. ASSUME NEW i \in Invs, UploadRaises(i)
      PROVE  Below
  BY <1>8 DEF UploadRaises, Below, Abandon, Next
<1>9. ASSUME NEW i \in Invs, UploadDies(i)
      PROVE  Below
  BY <1>9 DEF UploadDies, Below, Idle, Next
<1> QED BY <1>1, <1>2, <1>3, <1>4, <1>5, <1>6, <1>7, <1>8, <1>9
        DEF UploadNext, ThreadStep, UploadStep

LEMMA AbandonInv ==
  ASSUME WorkflowInv, NEW i \in Invs, Abandon(i)
  PROVE  WorkflowInv'
<1> USE DEF Abandon, graphVars, erpVars, histVars
<1>1. Grow
  BY UnchangedGrow
<1>2. CheckpointsCarried' /\ ckpt' \in [Cases -> Checkpoint \cup {None}]
  BY <1>1, CheckpointsKept DEF WorkflowInv, TypeOK
<1>3. IndexBacked' /\ caseIndex' \in [Cases -> Status \cup {None}]
  BY <1>1, IndexKept DEF WorkflowInv, TypeOK
<1> QED BY <1>1, <1>2, <1>3, GoneInv

LEMMA BelowInv == WorkflowInv /\ Below => WorkflowInv'
<1> SUFFICES ASSUME WorkflowInv, Below PROVE WorkflowInv'
  OBVIOUS
<1>1. CASE Next
  BY <1>1, StepInv
<1>2. CASE Idle
  BY <1>2, StutterInv DEF Idle, graphVars, erpVars, histVars
<1>3. CASE \E i \in Invs : Abandon(i)
  BY <1>3, AbandonInv
<1> QED BY <1>1, <1>2, <1>3 DEF Below

(* The row of a case in the index is never deleted.                        *)
LEMMA IndexGrows ==
  ASSUME WorkflowInv, Below, NEW c \in Cases, caseIndex[c] # None
  PROVE  caseIndex'[c] # None
<1> USE DEF graphVars, histVars, erpVars, update_case_index
<1>1. caseIndex \in [Cases -> Status \cup {None}] /\ None \notin Status
  BY WorkflowAssumption DEF WorkflowInv, TypeOK
<1>2. ASSUME NEW i \in Invs, Step(i)
      PROVE  caseIndex'[c] # None
  BY <1>1, <1>2 DEF Step, Begin, ingestion_node, matcher_node, close_case_node,
     investigator_node, prepare_review_node, human_review_node, apply_decision_node,
     write_back_node, Posted, escalate_node, Return, Timeout, Raise, Status
<1>3. ASSUME NEW i \in Invs, Call(i) \/ Persist(i) \/ Fail(i) \/ Unhandled(i) \/ Die(i)
      PROVE  caseIndex'[c] # None
  BY <1>1, <1>3 DEF Call, start_case, ingest_statement, review_case, Enter, Persist,
     Fail, Unhandled, Raise, Die, Status
<1>4. ASSUME NEW r \in net, Deliver(r) \/ Lose(r)
      PROVE  caseIndex'[c] # None
  BY <1>4 DEF Deliver, Lose
<1>5. CASE SweepRead \/ SweepWrite
  BY <1>1, <1>5 DEF SweepRead, SweepWrite, Status
<1>6. CASE Idle \/ \E i \in Invs : Abandon(i)
  BY <1>6 DEF Idle, Abandon
<1> QED BY <1>2, <1>3, <1>4, <1>5, <1>6 DEF Below, Next

-----------------------------------------------------------------------------
(* The upload's own state                                                  *)

(* From the commit on every parsed row is in the table of transactions.    *)
RowsStored(i) ==
  /\ upload[i].stage = "merged" =>
       ids(upload[i].parsed) \subseteq transactions \cup upload[i].new
  /\ upload[i].stage \in {"committed", "cases"} =>
       ids(upload[i].parsed) \subseteq transactions

(* Once the index was read, a row that is not pending has a case there or  *)
(* is about to have it.                                                    *)
Cased(i, c) ==
  \/ caseIndex[c] # None
  \/ Running(i) /\ inv[i].at = "begin" /\ inv[i].case = c

RowsCased(i) ==
  upload[i].stage = "cases" =>
    \A c \in ids(upload[i].parsed) \ ids(upload[i].pending) : Cased(i, c)

RowsOf(i) == upload[i] # None => RowsStored(i) /\ RowsCased(i)

UploadInv ==
  /\ WorkflowInv
  /\ UploadTypeOK
  /\ \A i \in Invs : RowsOf(i)

LEMMA RowIds ==
  ASSUME NEW rows \in SUBSET Extracted
  PROVE  ids(rows) \subseteq Cases
BY DEF ids, Extracted, RawRow

(* An invocation that is about to begin stays so, or begins.               *)
Moves(i) ==
  \/ inv'[i] = inv[i]
  \/ Step(i)
  \/ Running(i) /\ inv[i].at # "begin"
  \/ ~Running(i)

LEMMA CasedStays ==
  ASSUME UploadInv, Below, NEW i \in Invs, NEW c \in Cases, Cased(i, c),
         Moves(i)
  PROVE  Cased(i, c)'
<1>1. CASE caseIndex[c] # None
  BY <1>1, IndexGrows DEF Cased, UploadInv
<1>2. CASE Running(i) /\ inv[i].at = "begin" /\ inv[i].case = c
  <2>1. CASE inv'[i] = inv[i]
    BY <1>2, <2>1 DEF Cased, Running
  <2>2. CASE Step(i)
    <3>1. Begin(i)
      BY <1>2, <2>2 DEF Step, ingestion_node, matcher_node, close_case_node,
         investigator_node, prepare_review_node, human_review_node, apply_decision_node,
         write_back_node, Posted, escalate_node, Return, Timeout, At
    <3>2. caseIndex' = [caseIndex EXCEPT ![c] = "processing"]
      BY <1>2, <3>1 DEF Begin, update_case_index
    <3>3. caseIndex \in [Cases -> Status \cup {None}] /\ "processing" # None
      BY WorkflowAssumption DEF UploadInv, WorkflowInv, TypeOK, Status
    <3> QED BY <3>2, <3>3 DEF Cased
  <2> QED BY <1>2, <2>1, <2>2 DEF Moves
<1> QED BY <1>1, <1>2 DEF Cased

(* An upload that does nothing keeps what it has.                          *)
LEMMA RowsKept ==
  ASSUME UploadInv, Below, NEW j \in Invs, upload'[j] = upload[j],
         transactions \subseteq transactions', Moves(j)
  PROVE  RowsOf(j)'
<1> SUFFICES ASSUME upload[j] # None
             PROVE  RowsStored(j)' /\ RowsCased(j)'
  BY DEF RowsOf
<1>1. PICK u \in Upload : u = upload[j]
  BY DEF UploadInv, UploadTypeOK
<1>2. RowsStored(j) /\ RowsCased(j)
  BY DEF UploadInv, RowsOf
<1>3. RowsStored(j)'
  BY <1>1, <1>2 DEF RowsStored, ids
<1>4. ASSUME u.stage = "cases", NEW c \in ids(u.parsed) \ ids(u.pending)
      PROVE  Cased(j, c)'
  <2>1. c \in Cases
    BY RowIds DEF Upload
  <2>2. Cased(j, c)
    BY <1>1, <1>2, <1>4 DEF RowsCased
  <2> QED BY <2>1, <2>2, CasedStays
<1>5. RowsCased(j)'
  BY <1>1, <1>4 DEF RowsCased, ids
<1> QED BY <1>3, <1>5

(* One upload moves on, by a step that leaves the other threads alone.     *)
LEMMA UploadMoves ==
  ASSUME UploadInv, Below, Overlap, NEW i \in Invs, NEW u \in Upload \cup {None},
         upload' = [upload EXCEPT ![i] = u],
         transactions \subseteq transactions', transactions' \subseteq Cases,
         \A j \in Invs \ {i} : inv'[j] = inv[j],
         Running(i)' /\ inv'[i].kind = "ingest" => u # None,
         RowsOf(i)'
  PROVE  UploadInv'
<1>1. upload \in [Invs -> Upload \cup {None}]
  BY DEF UploadInv, UploadTypeOK
<1>2. upload'[i] = u /\ \A j \in Invs \ {i} : upload'[j] = upload[j]
  BY <1>1
<1>3. ASSUME NEW j \in Invs
      PROVE  RowsOf(j)'
  BY <1>2, RowsKept DEF Moves
<1>4. UploadTypeOK'
  <2>1. upload' \in [Invs -> Upload \cup {None}]
    BY <1>1
  <2>2. ASSUME NEW j \in Invs, Running(j)', inv'[j].kind = "ingest"
        PROVE  upload'[j] # None
    BY <1>2, <2>2 DEF UploadInv, UploadTypeOK, Running
  <2>3. overlapped' \subseteq {j \in Invs : upload'[j] # None}
    BY DEF Overlap
  <2> QED BY <2>1, <2>2, <2>3 DEF UploadTypeOK
<1>5. WorkflowInv'
  BY BelowInv DEF UploadInv
<1> QED BY <1>3, <1>4, <1>5 DEF UploadInv

(* No upload moves.                                                        *)
LEMMA UploadsKept ==
  ASSUME UploadInv, Below, Overlap, UNCHANGED <<transactions, upload>>,
         \A j \in Invs : upload[j] # None => Moves(j),
         \A j \in Invs : Running(j)' /\ inv'[j].kind = "ingest" =>
           Running(j) /\ inv[j].kind = "ingest"
  PROVE  UploadInv'
<1>1. ASSUME NEW j \in Invs
      PROVE  RowsOf(j)'
  BY RowsKept DEF RowsOf
<1>2. UploadTypeOK'
  BY DEF UploadInv, UploadTypeOK, Overlap
<1>3. WorkflowInv'
  BY BelowInv DEF UploadInv
<1> QED BY <1>1, <1>2, <1>3 DEF UploadInv

-----------------------------------------------------------------------------
(* The steps of an upload                                                  *)

LEMMA EndpointInv ==
  ASSUME UploadInv, Below, Overlap, NEW i \in Invs, NEW pdf \in Statements,
         ingest_statement_endpoint(i, pdf)
  PROVE  UploadInv'
<1> USE DEF ingest_statement_endpoint, vars
<1>1. CASE outcomes[pdf].aborts
  BY <1>1, UploadsKept DEF Moves, Running
<1>2. CASE ~outcomes[pdf].aborts
  <2> DEFINE u == [stage |-> "parsed", pdf |-> pdf, parsed |-> outcomes[pdf].parsed, new |-> {},
                   pending |-> {}, created |-> <<>>, errors |-> <<>>]
  <2>1. u \in Upload
    BY ParsedRows DEF Upload
  <2>2. u # None
    BY <2>1, StatementAssumption
  <2>3. upload' = [upload EXCEPT ![i] = u]
    BY <1>2
  <2>4. upload'[i] = u /\ u.stage = "parsed"
    BY <2>3 DEF UploadInv, UploadTypeOK
  <2> HIDE DEF u
  <2>5. RowsOf(i)'
    BY <2>4 DEF RowsOf, RowsStored, RowsCased
  <2> QED BY <2>1, <2>2, <2>3, <2>5, UploadMoves DEF UploadInv, UploadTypeOK
<1> QED BY <1>1, <1>2

(* What the commit inserts is what the read missed.                        *)
LEMMA StorageInv ==
  ASSUME UploadInv, Below, Overlap, NEW i \in Invs, Merge(i) \/ Commit(i)
  PROVE  UploadInv'
<1>1. PICK u \in Upload : u = upload[i] /\ u # None
  BY DEF Merge, Commit, Uploading, UploadInv, UploadTypeOK
<1>2. RowsStored(i) /\ UNCHANGED inv /\ upload \in [Invs -> Upload \cup {None}]
  BY <1>1 DEF UploadInv, UploadTypeOK, RowsOf, Merge, Commit, vars
<1>3. ids(u.parsed) \subseteq Cases /\ transactions \subseteq Cases
  BY RowIds DEF Upload, UploadInv, UploadTypeOK
<1>4. ASSUME NEW w \in Upload, w # None, upload' = [upload EXCEPT ![i] = w],
             w.parsed = u.parsed,
             \/ /\ w.stage = "merged" /\ UNCHANGED transactions
                /\ ids(u.parsed) \subseteq transactions \cup w.new
             \/ /\ w.stage = "committed" /\ transactions \subseteq transactions'
                /\ ids(u.parsed) \subseteq transactions' /\ transactions' \subseteq Cases
      PROVE  UploadInv'
  <2>1. upload'[i] = w
    BY <1>2, <1>4
  <2>2. RowsOf(i)'
    BY <1>4, <2>1 DEF RowsOf, RowsStored, RowsCased, ids
  <2> QED BY <1>2, <1>3, <1>4, <2>2, UploadMoves
<1>5. CASE Merge(i)
  <2> DEFINE w == [u EXCEPT !.stage = "merged", !.new = ids(u.parsed) \ transactions]
  <2>1. w \in Upload /\ w.stage = "merged" /\ w.parsed = u.parsed
        /\ w.new = ids(u.parsed) \ transactions
    BY <1>3 DEF Upload
  <2>2. upload' = [upload EXCEPT ![i] = w] /\ UNCHANGED transactions
    BY <1>1, <1>2, <1>5 DEF Merge
  <2>3. w # None
    BY <2>1, StatementAssumption
  <2> HIDE DEF w
  <2> QED BY <1>4, <2>1, <2>2, <2>3
<1>6. CASE Commit(i) /\ transactions' = transactions \cup u.new
                     /\ upload' = [upload EXCEPT ![i].stage = "committed"]
  <2> DEFINE w == [u EXCEPT !.stage = "committed"]
  <2>1. w \in Upload /\ w.stage = "committed" /\ w.parsed = u.parsed
    BY DEF Upload
  <2>2. upload' = [upload EXCEPT ![i] = w]
    BY <1>1, <1>2, <1>6
  <2>3. w # None
    BY <2>1, StatementAssumption
  <2>4. u.stage = "merged" /\ u.new \subseteq Cases
    BY <1>1, <1>6 DEF Commit, Uploading, Upload
  <2>5. ids(u.parsed) \subseteq transactions' /\ transactions' \subseteq Cases
    BY <1>1, <1>2, <1>3, <1>6, <2>4 DEF RowsStored
  <2> HIDE DEF w
  <2> QED BY <1>4, <1>6, <2>1, <2>2, <2>3, <2>5
<1>7. CASE Commit(i) /\ upload' = [upload EXCEPT ![i] = None] /\ UNCHANGED transactions
  <2>1. upload'[i] = None /\ ~Running(i)'
    BY <1>2, <1>7 DEF Commit, Uploading, Running
  <2>2. RowsOf(i)'
    BY <2>1 DEF RowsOf
  <2> QED BY <1>2, <1>3, <1>7, <2>1, <2>2, UploadMoves
<1> QED BY <1>1, <1>5, <1>6, <1>7 DEF Commit

(* What is left out of the pending rows has a case in the index.           *)
LEMMA ReadIndexInv ==
  ASSUME UploadInv, Below, Overlap, NEW i \in Invs, ReadIndex(i)
  PROVE  UploadInv'
<1>1. PICK u \in Upload : u = upload[i] /\ u # None /\ u.stage = "committed"
  BY DEF ReadIndex, Uploading, UploadInv, UploadTypeOK
<1>2. /\ RowsStored(i) /\ upload \in [Invs -> Upload \cup {None}]
      /\ UNCHANGED <<inv, caseIndex, transactions>>
  BY <1>1 DEF UploadInv, UploadTypeOK, RowsOf, ReadIndex, vars
<1> DEFINE rows == {r \in u.parsed : Retryable(r.raw.case)}
           w == [u EXCEPT !.stage = "cases", !.pending = rows]
<1>3. w \in Upload /\ w.stage = "cases" /\ w.parsed = u.parsed /\ w.pending = rows
  BY DEF Upload
<1>4. upload' = [upload EXCEPT ![i] = w]
  BY <1>1, <1>2 DEF ReadIndex
<1>5. w # None
  BY <1>3, StatementAssumption
<1>6. ASSUME NEW c \in ids(u.parsed) \ ids(rows)
      PROVE  caseIndex[c] # None
  BY <1>6 DEF ids, Retryable
<1> HIDE DEF rows, w
<1>7. upload'[i] = w
  BY <1>2, <1>4
<1>8. RowsOf(i)'
  <2>1. RowsStored(i)'
    BY <1>1, <1>2, <1>3, <1>7 DEF RowsStored, ids
  <2>2. RowsCased(i)'
    BY <1>2, <1>3, <1>6, <1>7 DEF RowsCased, Cased, ids
  <2> QED BY <2>1, <2>2 DEF RowsOf
<1> QED BY <1>2, <1>3, <1>4, <1>5, <1>8, UploadMoves DEF UploadInv, UploadTypeOK

(* A row leaves the pending ones as its case is about to be in the index.  *)
LEMMA NextCaseInv ==
  ASSUME UploadInv, Below, Overlap, NEW i \in Invs, NextCase(i)
  PROVE  UploadInv'
<1>1. PICK u \in Upload : u = upload[i] /\ u # None /\ u.stage = "cases"
  BY DEF NextCase, Uploading, UploadInv, UploadTypeOK
<1>2. PICK r \in u.pending : /\ ingest_statement(i, r.raw.case, r.raw.hit)
                             /\ upload' = [upload EXCEPT ![i].pending = @ \ {r}]
  BY <1>1 DEF NextCase
<1>3. PICK d \in Cases, h \in Ledgers \cup {None} : d = r.raw.case /\ h = r.raw.hit
  BY DEF Upload, Extracted, RawRow
<1>4. /\ RowsStored(i) /\ RowsCased(i)
      /\ upload \in [Invs -> Upload \cup {None}]
      /\ inv \in [Invs -> Invocation \cup {None}]
      /\ UNCHANGED <<caseIndex, transactions>> /\ ~Running(i)
  BY <1>1, <1>2 DEF UploadInv, UploadTypeOK, WorkflowInv, TypeOK, RowsOf, NextCase,
     ingest_statement, Enter, graphVars, Uploading
<1>5. PICK a : /\ inv' = [inv EXCEPT ![i] = a]
               /\ a.case = d /\ a.at = "begin" /\ a # None
  <2>1. Input(Statement[d], h) \in State
    BY WorkflowAssumption DEF Input, State, MAX_REINVESTIGATION_CYCLES
  <2> DEFINE b == [case |-> d, kind |-> "ingest", vals |-> Input(Statement[d], h),
                   at |-> "begin", resume |-> None]
  <2>2. b \in Invocation /\ b.case = d /\ b.at = "begin"
    BY <2>1 DEF Invocation
  <2>3. b # None
    BY <2>2, WorkflowAssumption
  <2>4. inv' = [inv EXCEPT ![i] = b]
    BY <1>2, <1>3 DEF ingest_statement, Enter
  <2> HIDE DEF b
  <2> QED BY <2>2, <2>3, <2>4
<1> DEFINE w == [u EXCEPT !.pending = @ \ {r}]
<1>6. w \in Upload /\ w.stage = "cases" /\ w.parsed = u.parsed /\ w.pending = u.pending \ {r}
  BY <1>1 DEF Upload
<1>7. upload' = [upload EXCEPT ![i] = w]
  BY <1>1, <1>2, <1>4
<1>8. w # None
  BY <1>6, StatementAssumption
<1> HIDE DEF w
<1>9. upload'[i] = w /\ inv'[i] = a
  BY <1>4, <1>5, <1>7
<1>10. ASSUME NEW c \in ids(u.parsed) \ ids(w.pending)
       PROVE  Cased(i, c)'
  <2>1. c \in Cases
    BY RowIds DEF Upload
  <2>2. CASE c = d
    BY <1>5, <1>9, <2>2 DEF Cased, Running
  <2>3. CASE c # d
    <3>1. c \notin ids(u.pending)
      BY <1>3, <1>6, <1>10, <2>3 DEF ids
    <3>2. Cased(i, c)
      BY <1>1, <1>4, <1>10, <3>1 DEF RowsCased
    <3> QED BY <1>4, <2>1, <3>2, CasedStays DEF Moves
  <2> QED BY <2>2, <2>3
<1>11. RowsOf(i)'
  <2>1. RowsStored(i)'
    BY <1>1, <1>4, <1>6, <1>9 DEF RowsStored, ids
  <2>2. RowsCased(i)'
    BY <1>6, <1>9, <1>10 DEF RowsCased, ids
  <2> QED BY <2>1, <2>2 DEF RowsOf
<1> QED BY <1>4, <1>5, <1>6, <1>7, <1>8, <1>11, UploadMoves DEF UploadInv, UploadTypeOK

(* An upload is over, with nothing left running.                           *)
LEMMA OverInv ==
  ASSUME UploadInv, Below, Overlap, NEW i \in Invs,
         Respond(i) \/ UploadRaises(i) \/ UploadDies(i)
  PROVE  UploadInv'
<1> USE DEF Respond, UploadRaises, Unhandled, Raised, UploadDies, Die, Uploading, vars
<1>1. upload \in [Invs -> Upload \cup {None}] /\ inv \in [Invs -> Invocation \cup {None}]
  BY DEF UploadInv, UploadTypeOK, WorkflowInv, TypeOK
<1>2. upload' = [upload EXCEPT ![i] = None] /\ UNCHANGED transactions
  OBVIOUS
<1>3. ~Running(i)' /\ \A j \in Invs \ {i} : inv'[j] = inv[j]
  BY <1>1 DEF Running
<1>4. RowsOf(i)'
  BY <1>1, <1>2 DEF RowsOf
<1> QED BY <1>2, <1>3, <1>4, UploadMoves DEF UploadInv, UploadTypeOK

(* A graph of the upload has returned or raised.                           *)
LEMMA GraphEndsInv ==
  ASSUME UploadInv, Below, Overlap, NEW i \in Invs,
         \/ Return(i) /\ Created(i)
         \/ (Timeout(i) \/ Fail(i)) /\ Errored(i)
  PROVE  UploadInv'
<1>1. /\ upload \in [Invs -> Upload \cup {None}]
      /\ inv \in [Invs -> Invocation \cup {None}]
      /\ UNCHANGED transactions
  BY DEF UploadInv, UploadTypeOK, WorkflowInv, TypeOK, Created, Errored
<1>2. /\ Running(i) /\ inv[i].at # "begin" /\ ~Running(i)'
      /\ \A j \in Invs \ {i} : inv'[j] = inv[j]
  BY <1>1 DEF Return, Timeout, Fail, Raise, Raised, At, Running
<1>3. CASE upload[i] = None
  <2>1. UNCHANGED upload
    BY <1>3 DEF Created, Errored
  <2>2. \A j \in Invs : Moves(j)
    BY <1>2 DEF Moves
  <2>3. \A j \in Invs : Running(j)' => j # i /\ Running(j) /\ inv'[j] = inv[j]
    BY <1>2 DEF Running
  <2> QED BY <1>1, <2>1, <2>2, <2>3, UploadsKept
<1>4. CASE upload[i] # None
  <2>1. PICK u \in Upload : u = upload[i]
    BY <1>1, <1>4
  <2>2. PICK b \in Cases : b = inv[i].case
    BY <1>1, <1>2 DEF Running, Invocation
  <2>3. PICK w \in Upload : /\ upload' = [upload EXCEPT ![i] = w]
                            /\ w.stage = u.stage /\ w.parsed = u.parsed
                            /\ w.new = u.new /\ w.pending = u.pending
    <3> DEFINE c == [u EXCEPT !.created = Append(@, b)]
               e == [u EXCEPT !.errors = Append(@, b)]
    <3>1. Append(u.created, b) \in Seq(Cases) /\ Append(u.errors, b) \in Seq(Cases)
      <4>1. u.created \in Seq(Cases) /\ u.errors \in Seq(Cases)
        BY DEF Upload
      <4> QED BY <4>1
    <3>2. /\ c \in Upload /\ c.stage = u.stage /\ c.parsed = u.parsed
          /\ c.new = u.new /\ c.pending = u.pending
      BY <3>1 DEF Upload
    <3>3. /\ e \in Upload /\ e.stage = u.stage /\ e.parsed = u.parsed
          /\ e.new = u.new /\ e.pending = u.pending
      BY <3>1 DEF Upload
    <3>4. upload' = [upload EXCEPT ![i] = c] \/ upload' = [upload EXCEPT ![i] = e]
      BY <1>1, <1>4, <2>1, <2>2 DEF Created, Errored
    <3> HIDE DEF c, e
    <3> QED BY <3>2, <3>3, <3>4
  <2>4. upload'[i] = w
    BY <1>1, <2>3
  <2>5. RowsStored(i) /\ RowsCased(i)
    BY <1>4 DEF UploadInv, RowsOf
  <2>6. RowsStored(i)'
    BY <1>1, <2>1, <2>3, <2>4, <2>5 DEF RowsStored, ids
  <2>7. ASSUME w.stage = "cases", NEW c \in ids(w.parsed) \ ids(w.pending)
        PROVE  Cased(i, c)'
    <3>1. c \in Cases
      BY RowIds DEF Upload
    <3>2. Cased(i, c)
      BY <2>1, <2>3, <2>5, <2>7 DEF RowsCased
    <3> QED BY <1>2, <3>1, <3>2, CasedStays DEF Moves
  <2>8. RowsOf(i)'
    BY <2>4, <2>6, <2>7 DEF RowsOf, RowsCased, ids
  <2> QED BY <1>1, <1>2, <2>3, <2>8, UploadMoves DEF UploadInv, UploadTypeOK
<1> QED BY <1>3, <1>4

-----------------------------------------------------------------------------
(* The steps of everybody else                                             *)

(* A graph goes on, for whoever has called it.                             *)
LEMMA GraphGoesOnInv ==
  ASSUME UploadInv, Below, Overlap, NEW i \in Invs, Step(i), inv'[i] # None,
         UNCHANGED uploadVars
  PROVE  UploadInv'
<1>1. inv \in [Invs -> Invocation \cup {None}]
  BY DEF UploadInv, WorkflowInv, TypeOK
<1>2. Running(i)
  BY DEF Step, Begin, ingestion_node, matcher_node, close_case_node, investigator_node,
     prepare_review_node, human_review_node, apply_decision_node, write_back_node, Posted,
     escalate_node, Return, Timeout, At
<1>3. PICK a \in Invocation : a = inv[i]
  BY <1>1, <1>2 DEF Running
<1>4. PICK b : inv' = [inv EXCEPT ![i] = b] /\ b.kind = a.kind
  <2>1. ASSUME NEW n, NEW v, Advance(i, n, v)
        PROVE  \E b : inv' = [inv EXCEPT ![i] = b] /\ b.kind = a.kind
    <3> DEFINE b == [a EXCEPT !.at = n, !.vals = v, !.resume = None]
    <3>1. inv' = [inv EXCEPT ![i] = b] /\ b.kind = a.kind
      BY <1>1, <1>3, <2>1 DEF Advance, Invocation
    <3> QED BY <3>1
  <2>2. ASSUME write_back_node(i)
        PROVE  \E b : inv' = [inv EXCEPT ![i] = b] /\ b.kind = a.kind
    <3> DEFINE b == [a EXCEPT !.at = "await"]
    <3>1. inv' = [inv EXCEPT ![i] = b] /\ b.kind = a.kind
      BY <1>1, <1>3, <2>2 DEF write_back_node, Invocation
    <3> QED BY <3>1
  <2>3. CASE Return(i) \/ Timeout(i)
    BY <1>1, <2>3 DEF Return, Timeout, Raise, Raised
  <2>4. CASE \/ Begin(i) \/ ingestion_node(i) \/ matcher_node(i) \/ close_case_node(i)
             \/ investigator_node(i) \/ prepare_review_node(i) \/ human_review_node(i)
             \/ apply_decision_node(i) \/ Posted(i) \/ escalate_node(i)
    BY <2>1, <2>4 DEF Begin, ingestion_node, matcher_node, close_case_node,
       investigator_node, prepare_review_node, human_review_node, apply_decision_node,
       Posted, escalate_node
  <2> QED BY <2>2, <2>3, <2>4 DEF Step
<1>5. \A j \in Invs : Moves(j)
  BY <1>1, <1>4 DEF Moves
<1>6. ASSUME NEW j \in Invs, Running(j)', inv'[j].kind = "ingest"
      PROVE  Running(j) /\ inv[j].kind = "ingest"
  BY <1>1, <1>2, <1>3, <1>4, <1>6 DEF Running
<1> QED BY <1>5, <1>6, UploadsKept DEF uploadVars

(* Only a row of a statement is ingested.                                  *)
LEMMA EndpointCallInv ==
  ASSUME UploadInv, Below, Overlap, NEW i \in Invs, EndpointCall(i)
  PROVE  UploadInv'
<1>1. inv \in [Invs -> Invocation \cup {None}]
  BY DEF UploadInv, WorkflowInv, TypeOK
<1>2. PICK a : inv' = [inv EXCEPT ![i] = a] /\ a.kind # "ingest"
  <2>1. ASSUME NEW c \in Cases, NEW t \in Txn, NEW h \in Ledgers \cup {None},
               start_case(i, c, t, h)
        PROVE  \E a : inv' = [inv EXCEPT ![i] = a] /\ a.kind # "ingest"
    <3> DEFINE a == [case |-> c, kind |-> "start", vals |-> Input(t, h),
                     at |-> "begin", resume |-> None]
    <3>1. inv' = [inv EXCEPT ![i] = a] /\ a.kind # "ingest"
      BY <2>1 DEF start_case, Enter
    <3> QED BY <3>1
  <2>2. ASSUME NEW c \in Cases, NEW d \in Decision, review_case(i, c, d)
        PROVE  \E a : inv' = [inv EXCEPT ![i] = a] /\ a.kind # "ingest"
    <3> DEFINE a == [case |-> c, kind |-> "resume", vals |-> ckpt[c].vals,
                     at |-> ckpt[c].next, resume |-> d]
    <3>1. inv' = [inv EXCEPT ![i] = a] /\ a.kind # "ingest"
      BY <2>2 DEF review_case
    <3> QED BY <3>1
  <2> QED BY <2>1, <2>2 DEF EndpointCall
<1>3. \A j \in Invs : Moves(j)
  BY <1>1, <1>2 DEF EndpointCall, start_case, review_case, Enter, Moves
<1>4. ASSUME NEW j \in Invs, Running(j)', inv'[j].kind = "ingest"
      PROVE  Running(j) /\ inv[j].kind = "ingest"
  BY <1>1, <1>2, <1>4 DEF Running
<1> QED BY <1>3, <1>4, UploadsKept DEF EndpointCall, uploadVars

LEMMA OthersInv ==
  ASSUME UploadInv, Below, Overlap, Others
  PROVE  UploadInv'
<1>1. /\ inv \in [Invs -> Invocation \cup {None}] /\ net \subseteq Request
      /\ \A r \in net : r.inv # None => inv[r.inv] # None /\ inv[r.inv].at = "await"
  BY DEF UploadInv, WorkflowInv, TypeOK
<1>2. UNCHANGED <<transactions, upload>>
  BY DEF Others, uploadVars
<1>3. CASE UNCHANGED inv
  BY <1>2, <1>3, UploadsKept DEF Moves, Running
<1>4. ASSUME NEW i \in Invs, Die(i), upload[i] = None
      PROVE  UploadInv'
  BY <1>1, <1>2, <1>4, UploadsKept DEF Die, Moves, Running
<1>5. ASSUME NEW r \in net, Deliver(r), r.inv # None
      PROVE  UploadInv'
  <2>1. r.inv \in Invs /\ Running(r.inv) /\ inv[r.inv].at = "await"
    BY <1>1, <1>5 DEF Request, Running
  <2>2. PICK a \in Invocation : a = inv[r.inv]
    BY <1>1, <2>1 DEF Running
  <2>3. PICK b : inv' = [inv EXCEPT ![r.inv] = b] /\ b.kind = a.kind
    <3> DEFINE b == [a EXCEPT !.at = "answered"]
    <3>1. inv' = [inv EXCEPT ![r.inv] = b] /\ b.kind = a.kind
      BY <1>1, <1>5, <2>1, <2>2 DEF Deliver, Invocation
    <3> QED BY <3>1
  <2>4. \A j \in Invs : Moves(j)
    BY <1>1, <2>1, <2>3 DEF Moves
  <2>5. ASSUME NEW j \in Invs, Running(j)', inv'[j].kind = "ingest"
        PROVE  Running(j) /\ inv[j].kind = "ingest"
    BY <1>1, <2>1, <2>2, <2>3, <2>5 DEF Running
  <2> QED BY <1>2, <2>4, <2>5, UploadsKept
<1> QED BY <1>3, <1>4, <1>5 DEF Others, Persist, Deliver, Lose, SweepRead, SweepWrite

-----------------------------------------------------------------------------
(* Invariance, and what follows from it                                    *)

LEMMA UploadInitInv == UploadInit => UploadInv
<1> SUFFICES ASSUME UploadInit PROVE UploadInv
  OBVIOUS
<1>1. WorkflowInv
  BY InitInv DEF UploadInit
<1>2. UploadTypeOK
  BY DEF UploadInit, Init, UploadTypeOK, Running
<1>3. \A i \in Invs : RowsOf(i)
  BY DEF UploadInit, RowsOf
<1> QED BY <1>1, <1>2, <1>3 DEF UploadInv

LEMMA UploadStepInv == UploadInv /\ [UploadNext]_allVars => UploadInv'
<1> SUFFICES ASSUME UploadInv, [UploadNext]_allVars PROVE UploadInv'
  OBVIOUS
<1>1. Below
  BY UploadsAreCallers DEF UploadInv
<1>2. CASE UNCHANGED allVars
  <2>1. UNCHANGED <<transactions, upload, inv, overlapped, vars>>
    BY <1>2 DEF allVars, uploadVars, vars
  <2>2. ASSUME NEW j \in Invs
        PROVE  RowsOf(j)'
    BY <1>1, <2>1, RowsKept DEF Moves
  <2>3. UploadTypeOK'
    BY <2>1 DEF UploadInv, UploadTypeOK, Running
  <2>4. WorkflowInv'
    BY <1>1, BelowInv DEF UploadInv
  <2> QED BY <2>2, <2>3, <2>4 DEF UploadInv
<1>3. ASSUME NEW i \in Invs, Overlap,
             \/ \E pdf \in Statements : ingest_statement_endpoint(i, pdf)
             \/ EndpointCall(i) \/ UploadStep(i)
             \/ UploadRaises(i) \/ UploadDies(i)
      PROVE  UploadInv'
  BY <1>1, <1>3, EndpointInv, EndpointCallInv, StorageInv, ReadIndexInv, NextCaseInv, OverInv
     DEF UploadStep
<1>4. ASSUME NEW i \in Invs, Overlap, GraphStep(i) \/ (Fail(i) /\ Errored(i))
      PROVE  UploadInv'
  BY <1>1, <1>4, GraphGoesOnInv, GraphEndsInv DEF GraphStep
<1>5. CASE Others /\ Overlap
  BY <1>1, <1>5, OthersInv
<1> QED BY <1>2, <1>3, <1>4, <1>5 DEF UploadNext, ThreadStep

(* The workflow's invariant with uploads among its callers, and with it    *)
(* where the rows of every upload are.                                     *)
THEOREM UploadInvariance == UploadSpec => []UploadInv
<1> QED BY UploadInitInv, UploadStepInv, PTL DEF UploadSpec

(* An upload's variables keep their types, and an ingesting invocation has *)
(* an upload behind it.                                                    *)
THEOREM UploadTypeCorrect == UploadSpec => []UploadTypeOK
<1>1. UploadInv => UploadTypeOK
  BY DEF UploadInv
<1> QED BY <1>1, UploadInvariance, PTL

(* Once its cases start, every row of an upload is stored, and every row   *)
(* that is not pending any more has a case in the index.                   *)
THEOREM NoRowLost == UploadSpec => []EveryRowHasCase
<1>1. UploadInv => EveryRowHasCase
  BY DEF UploadInv, RowsOf, RowsStored, RowsCased, Cased, Uploading, EveryRowHasCase
<1> QED BY <1>1, UploadInvariance, PTL

(* Uploads that race for a ledger entry: a case that cleared has the claim.*)
THEOREM UploadsClearClaimed == UploadSpec => []ClearedIsClaimed
<1>1. UploadInv => ClearedIsClaimed
  BY DEF UploadInv, WorkflowInv, IndexBacked, CheckpointsCarried, Carried, ClearedIsClaimed
<1> QED BY <1>1, UploadInvariance, PTL

(* With uploads too a case in the reviewers' queue can be resumed, whatever*)
(* their rows run into, under the same two assumptions.                    *)
THEOREM UploadsLeaveResumable ==
  UploadSpec /\ []Serial /\ [][DiesSaved]_allVars => []PendingIsResumable
<1>1. UploadInit => ResumableInv
  BY WorkflowAssumption DEF UploadInit, Init, ResumableInv, Pending, Running, Status
<1>2. UploadInv /\ Serial /\ Serial' /\ ResumableInv
        /\ [UploadNext]_allVars /\ [DiesSaved]_allVars => ResumableInv'
  <2> SUFFICES ASSUME UploadInv, Serial, Serial', ResumableInv,
                      [UploadNext]_allVars, [DiesSaved]_allVars
               PROVE  ResumableInv'
    OBVIOUS
  <2>1. WorkflowInv /\ UploadTypeOK
    BY DEF UploadInv
  <2>2. CASE Next
    <3>1. [DiesSaved]_vars
      BY DEF allVars
    <3> QED BY <2>1, <2>2, <3>1, ResumableStep
  <2>3. CASE Idle
    BY <2>3, ResumableKept DEF Idle, graphVars
  <2>4. CASE \E i \in Invs : Abandon(i)
    BY <2>1, <2>4, ResumableDropped DEF Abandon, graphVars
  <2> QED BY <2>1, <2>2, <2>3, <2>4, UploadsAreCallers DEF Below
<1>3. ResumableInv => PendingIsResumable
  BY DEF ResumableInv, PendingIsResumable, Pending, Untouched, Resumable
<1> QED BY <1>1, <1>2, <1>3, UploadInvariance, PTL DEF UploadSpec

(* With uploads the books still are those of ApprovedPosting.              *)
THEOREM UploadsPostApproved == UploadSpec => PostingSpec
<1>1. UploadInit => Promise!Init
  BY DEF UploadInit, Init, Erp!Init, Promise!Init, InBooks
<1>2. UploadInv /\ [UploadNext]_allVars
        => [Promise!Next]_<<approved, [c \in Cases |-> InBooks(c)]>>
  <2> SUFFICES ASSUME UploadInv, [UploadNext]_allVars
               PROVE  [Promise!Next]_<<approved, [c \in Cases |-> InBooks(c)]>>
    OBVIOUS
  <2>1. CASE Next
    BY <2>1, PostingStep DEF UploadInv
  <2>2. CASE Idle \/ \E i \in Invs : Abandon(i)
    BY <2>2 DEF Idle, Abandon, histVars, erpVars, InBooks
  <2> QED BY <2>1, <2>2, UploadsAreCallers DEF UploadInv, Below
<1> QED BY <1>1, <1>2, UploadInvariance, PTL DEF UploadSpec, PostingSpec, Promise!Spec
-----------------------------------------------------------------------------
(* Nothing settled is run again                                            *)

(* While nobody else writes the index, what an upload read of it stays     *)
(* true of its pending rows, but for those whose case it ran itself.       *)
Ran(u) == Range(u.created) \cup Range(u.errors)

Seen(i, c) ==
  \/ Retryable(c)
  \/ c \in Ran(upload[i])
  \/ Running(i) /\ inv[i].case = c

Fresh(i) ==
  upload[i] # None /\ upload[i].stage = "cases" /\ i \notin overlapped =>
    \A r \in upload[i].pending : Seen(i, r.raw.case)

FreshInv == \A i \in Invs : Fresh(i)

LEMMA RangeAppend ==
  ASSUME NEW s \in Seq(Cases), NEW c \in Cases
  PROVE  Range(s) \cup {c} \subseteq Range(Append(s, c))
<1>1. Len(Append(s, c)) = Len(s) + 1 /\ Append(s, c)[Len(s) + 1] = c
  OBVIOUS
<1>2. \A k \in DOMAIN s : k \in DOMAIN Append(s, c) /\ Append(s, c)[k] = s[k]
  OBVIOUS
<1>3. Len(s) + 1 \in DOMAIN Append(s, c)
  OBVIOUS
<1> HIDE DEF Range
<1>4. c \in Range(Append(s, c))
  BY <1>1, <1>3 DEF Range
<1>5. Range(s) \subseteq Range(Append(s, c))
  BY <1>2 DEF Range
<1> QED BY <1>4, <1>5

LEMMA RangeConcat ==
  ASSUME NEW s \in Seq(Cases), NEW t \in Seq(Cases)
  PROVE  Range(s) \cup Range(t) \subseteq Range(s \o t)
<1>1. \A k \in DOMAIN s : k \in DOMAIN (s \o t) /\ (s \o t)[k] = s[k]
  OBVIOUS
<1>2. ASSUME NEW k \in DOMAIN t
      PROVE  Len(s) + k \in DOMAIN (s \o t) /\ (s \o t)[Len(s) + k] = t[k]
  OBVIOUS
<1>3. Range(s) \subseteq Range(s \o t)
  BY <1>1 DEF Range
<1>4. Range(t) \subseteq Range(s \o t)
  BY <1>2 DEF Range
<1> QED BY <1>3, <1>4

(* A graph writes the index for its own case only.                         *)
LEMMA IndexOwn ==
  ASSUME UploadInv, NEW i \in Invs, Step(i) \/ Fail(i),
         NEW c, c # inv[i].case
  PROVE  caseIndex'[c] = caseIndex[c]
<1>1. caseIndex \in [Cases -> Status \cup {None}]
  BY DEF UploadInv, WorkflowInv, TypeOK
<1> USE DEF graphVars, update_case_index
<1>2. ASSUME NEW s, caseIndex' = [caseIndex EXCEPT ![inv[i].case] = s]
      PROVE  caseIndex'[c] = caseIndex[c]
  BY <1>1, <1>2
<1>3. \/ UNCHANGED caseIndex
      \/ \E s : caseIndex' = [caseIndex EXCEPT ![inv[i].case] = s]
  BY DEF Step, Begin, ingestion_node, matcher_node, close_case_node,
     investigator_node, prepare_review_node, human_review_node, apply_decision_node,
     write_back_node, Posted, escalate_node, Return, Timeout, Fail, Raise
<1> QED BY <1>2, <1>3

(* An upload that has nothing to do with a step: a write of the index, if  *)
(* it was one, is seen.                                                    *)
LEMMA FreshKept ==
  ASSUME FreshInv, Overlap, NEW j \in Invs, inv'[j] = inv[j], upload'[j] = upload[j]
  PROVE  Fresh(j)'
<1> SUFFICES ASSUME upload[j] # None, upload[j].stage = "cases", j \notin overlapped',
                    NEW r \in upload[j].pending
             PROVE  Seen(j, r.raw.case)'
  BY DEF Fresh
<1>1. j \notin overlapped /\ caseIndex' = caseIndex
  BY DEF Overlap
<1>2. Seen(j, r.raw.case)
  BY <1>1 DEF FreshInv, Fresh
<1> QED BY <1>1, <1>2 DEF Seen, Ran, Retryable, Running

(* What a thread does leaves the others' invocations and uploads alone.    *)
Acts(i) ==
  \/ \E pdf \in Statements : ingest_statement_endpoint(i, pdf)
  \/ EndpointCall(i) \/ ThreadStep(i)
  \/ Fail(i) /\ Errored(i)
  \/ UploadRaises(i) \/ UploadDies(i)

LEMMA ActsAlone ==
  ASSUME UploadInv, NEW i \in Invs, Acts(i), NEW j \in Invs \ {i}
  PROVE  inv'[j] = inv[j] /\ upload'[j] = upload[j]
<1>1. /\ inv \in [Invs -> Invocation \cup {None}]
      /\ upload \in [Invs -> Upload \cup {None}]
  BY DEF UploadInv, UploadTypeOK, WorkflowInv, TypeOK
<1> USE DEF uploadVars, vars
<1>2. ASSUME Step(i) \/ Fail(i)
      PROVE  inv'[j] = inv[j]
  <2>1. ASSUME NEW n, NEW v, Advance(i, n, v)
        PROVE  inv'[j] = inv[j]
    BY <1>1, <2>1 DEF Advance
  <2>2. CASE \/ Begin(i) \/ ingestion_node(i) \/ matcher_node(i) \/ close_case_node(i)
             \/ investigator_node(i) \/ prepare_review_node(i) \/ human_review_node(i)
             \/ apply_decision_node(i) \/ Posted(i) \/ escalate_node(i)
    BY <2>1, <2>2 DEF Begin, ingestion_node, matcher_node, close_case_node,
       investigator_node, prepare_review_node, human_review_node, apply_decision_node,
       Posted, escalate_node
  <2>3. CASE write_back_node(i) \/ Return(i) \/ Timeout(i) \/ Fail(i)
    BY <1>1, <2>3 DEF write_back_node, Return, Timeout, Fail, Raise, Raised
  <2> QED BY <1>2, <2>2, <2>3 DEF Step
<1>3. CASE GraphStep(i) \/ (Fail(i) /\ Errored(i))
  <2>1. Step(i) \/ Fail(i)
    BY <1>3 DEF GraphStep, Step
  <2>2. upload'[j] = upload[j]
    BY <1>1, <1>3 DEF GraphStep, Created, Errored
  <2> QED BY <1>2, <2>1, <2>2
<1>4. CASE \E pdf \in Statements : ingest_statement_endpoint(i, pdf)
  BY <1>1, <1>4 DEF ingest_statement_endpoint
<1>5. CASE EndpointCall(i)
  BY <1>1, <1>5 DEF EndpointCall, start_case, review_case, Enter
<1>6. CASE Merge(i) \/ Commit(i) \/ ReadIndex(i) \/ Respond(i)
  BY <1>1, <1>6 DEF Merge, Commit, ReadIndex, Respond
<1>7. CASE NextCase(i)
  BY <1>1, <1>7 DEF NextCase, ingest_statement, Enter
<1>8. CASE UploadRaises(i) \/ UploadDies(i)
  BY <1>1, <1>8 DEF UploadRaises, Unhandled, Raised, UploadDies, Die
<1> QED BY <1>3, <1>4, <1>5, <1>6, <1>7, <1>8 DEF Acts, ThreadStep, UploadStep

(* A case the upload ran itself: only its own row of the index was written.*)
LEMMA FreshRun ==
  ASSUME UploadInv, FreshInv, Overlap, NEW i \in Invs, Step(i) \/ Fail(i),
         upload[i] # None => /\ upload'[i].stage = upload[i].stage
                             /\ upload'[i].pending = upload[i].pending
                             /\ Ran(upload[i]) \subseteq Ran(upload'[i])
                             /\ \/ inv[i].case \in Ran(upload'[i])
                                \/ Running(i)' /\ inv'[i].case = inv[i].case,
         upload[i] = None => upload'[i] = None
  PROVE  Fresh(i)'
<1> SUFFICES ASSUME upload[i] # None, upload[i].stage = "cases", i \notin overlapped',
                    upload'[i] # None, NEW r \in upload[i].pending
             PROVE  Seen(i, r.raw.case)'
  BY DEF Fresh
<1>1. i \notin overlapped
  BY DEF Overlap
<1>2. Seen(i, r.raw.case)
  BY <1>1 DEF FreshInv, Fresh
<1>3. CASE r.raw.case = inv[i].case
  BY <1>3 DEF Seen
<1>4. CASE r.raw.case # inv[i].case
  <2>1. caseIndex'[r.raw.case] = caseIndex[r.raw.case]
    BY <1>4, IndexOwn
  <2> QED BY <1>2, <1>4, <2>1 DEF Seen, Retryable
<1> QED BY <1>3, <1>4

LEMMA FreshActs ==
  ASSUME UploadInv, FreshInv, Overlap, NEW i \in Invs, Acts(i)
  PROVE  Fresh(i)'
<1>1. /\ inv \in [Invs -> Invocation \cup {None}]
      /\ upload \in [Invs -> Upload \cup {None}]
  BY DEF UploadInv, UploadTypeOK, WorkflowInv, TypeOK
<1> USE DEF uploadVars, vars
<1>2. CASE \E pdf \in Statements : ingest_statement_endpoint(i, pdf)
  <2>1. PICK pdf \in Statements : ingest_statement_endpoint(i, pdf)
    BY <1>2
  <2>2. CASE outcomes[pdf].aborts
    BY <2>1, <2>2, FreshKept DEF ingest_statement_endpoint
  <2>3. CASE ~outcomes[pdf].aborts
    <3>1. upload'[i].stage = "parsed"
      BY <1>1, <2>1, <2>3 DEF ingest_statement_endpoint
    <3> QED BY <3>1 DEF Fresh
  <2> QED BY <2>2, <2>3
<1>3. CASE EndpointCall(i) \/ Respond(i) \/ UploadRaises(i) \/ UploadDies(i)
  <2>1. upload'[i] = None
    BY <1>1, <1>3 DEF EndpointCall, Respond, UploadRaises, UploadDies
  <2> QED BY <2>1 DEF Fresh
<1>4. CASE Merge(i) \/ Commit(i)
  <2>1. upload[i] \in Upload
    BY <1>1, <1>4 DEF Merge, Commit, Uploading
  <2>2. upload'[i] = None \/ upload'[i].stage \in {"merged", "committed"}
    BY <1>1, <1>4, <2>1 DEF Merge, Commit, Upload
  <2> QED BY <2>2 DEF Fresh
<1>5. CASE ReadIndex(i)
  <2>1. upload[i] \in Upload /\ UNCHANGED caseIndex
    BY <1>1, <1>5 DEF ReadIndex, Uploading
  <2>2. upload'[i].pending = {r \in upload[i].parsed : Retryable(r.raw.case)}
    BY <1>1, <1>5, <2>1 DEF ReadIndex, Upload
  <2> QED BY <2>1, <2>2 DEF Fresh, Seen, Retryable
<1>6. CASE NextCase(i)
  <2>1. upload[i] \in Upload /\ UNCHANGED caseIndex /\ ~Running(i) /\ upload[i].stage = "cases"
    BY <1>1, <1>6 DEF NextCase, Uploading, ingest_statement, Enter, graphVars
  <2>2. /\ upload'[i].pending \subseteq upload[i].pending
        /\ Ran(upload'[i]) = Ran(upload[i])
    BY <1>1, <1>6, <2>1 DEF NextCase, Upload, Ran
  <2>3. i \notin overlapped' /\ upload'[i] # None => i \notin overlapped
    BY DEF Overlap
  <2> SUFFICES ASSUME i \notin overlapped, NEW r \in upload[i].pending
               PROVE  Seen(i, r.raw.case)'
    BY <2>2, <2>3 DEF Fresh
  <2>4. Seen(i, r.raw.case)
    BY <2>1, StatementAssumption DEF FreshInv, Fresh
  <2> QED BY <2>1, <2>2, <2>4 DEF Seen, Retryable
<1>7. CASE Step(i) /\ inv'[i] # None /\ UNCHANGED uploadVars
  <2>1. Running(i)' /\ inv'[i].case = inv[i].case
    <3>1. Running(i)
      BY <1>7 DEF Step, Begin, ingestion_node, matcher_node, close_case_node, investigator_node,
         prepare_review_node, human_review_node, apply_decision_node, write_back_node, Posted,
         escalate_node, Return, Timeout, At
    <3>2. inv[i] \in Invocation
      BY <1>1, <3>1 DEF Running
    <3>3. ASSUME NEW n, NEW v, Advance(i, n, v)
          PROVE  inv'[i].case = inv[i].case
      BY <1>1, <3>2, <3>3 DEF Advance, Invocation
    <3>4. CASE \/ Begin(i) \/ ingestion_node(i) \/ matcher_node(i) \/ close_case_node(i)
               \/ investigator_node(i) \/ prepare_review_node(i) \/ human_review_node(i)
               \/ apply_decision_node(i) \/ Posted(i) \/ escalate_node(i)
      BY <1>7, <3>3, <3>4 DEF Begin, ingestion_node, matcher_node, close_case_node,
         investigator_node, prepare_review_node, human_review_node, apply_decision_node,
         Posted, escalate_node, Running
    <3>5. CASE write_back_node(i) \/ Return(i) \/ Timeout(i)
      BY <1>1, <1>7, <3>2, <3>5 DEF write_back_node, Return, Timeout, Raise, Raised, Running,
         Invocation
    <3> QED BY <1>7, <3>4, <3>5 DEF Step
  <2> QED BY <1>7, <2>1, FreshRun
<1>8. CASE \/ Return(i) /\ Created(i)
           \/ (Timeout(i) \/ Fail(i)) /\ Errored(i)
  <2>1. Running(i) /\ (Step(i) \/ Fail(i))
    BY <1>8 DEF Step, Return, Timeout, Fail, At
  <2>2. inv[i].case \in Cases
    BY <1>1, <2>1 DEF Running, Invocation
  <2>3. CASE upload[i] = None
    BY <1>8, <2>1, <2>3, FreshRun DEF Created, Errored
  <2>4. CASE upload[i] # None
    <3>1. upload[i] \in Upload
      BY <1>1, <2>4
    <3>2. upload[i].created \in Seq(Cases) /\ upload[i].errors \in Seq(Cases)
      BY <3>1 DEF Upload
    <3>3. /\ upload'[i].stage = upload[i].stage
          /\ upload'[i].pending = upload[i].pending
          /\ \/ /\ upload'[i].created = Append(upload[i].created, inv[i].case)
                /\ upload'[i].errors = upload[i].errors
             \/ /\ upload'[i].errors = Append(upload[i].errors, inv[i].case)
                /\ upload'[i].created = upload[i].created
      BY <1>1, <1>8, <2>4, <3>1 DEF Created, Errored, Upload
    <3>4. /\ Ran(upload[i]) \subseteq Ran(upload'[i])
          /\ inv[i].case \in Ran(upload'[i])
      BY <2>2, <3>2, <3>3, RangeAppend DEF Ran
    <3> QED BY <2>1, <2>4, <3>3, <3>4, FreshRun
  <2> QED BY <2>3, <2>4
<1> QED BY <1>2, <1>3, <1>4, <1>5, <1>6, <1>7, <1>8
        DEF Acts, ThreadStep, UploadStep, GraphStep

(* An answer of the ERP, or a process that dies outside uploads.           *)
LEMMA FreshOthers ==
  ASSUME UploadInv, FreshInv, Overlap, Others, NEW j \in Invs
  PROVE  Fresh(j)'
<1>1. /\ inv \in [Invs -> Invocation \cup {None}] /\ net \subseteq Request
      /\ \A r \in net : r.inv # None => inv[r.inv] # None /\ inv[r.inv].at = "await"
  BY DEF UploadInv, WorkflowInv, TypeOK
<1>2. UNCHANGED upload
  BY DEF Others, uploadVars
<1>3. CASE inv'[j] = inv[j]
  BY <1>2, <1>3, FreshKept
<1>4. CASE upload[j] = None
  BY <1>2, <1>4 DEF Fresh
<1>5. ASSUME NEW r \in net, Deliver(r), r.inv = j, upload[j] # None
      PROVE  Fresh(j)'
  <2>1. inv[j] \in Invocation /\ j # None
    BY <1>1, <1>5, WorkflowAssumption
  <2>2. UNCHANGED caseIndex /\ inv' = [inv EXCEPT ![j].at = "answered"]
    BY <1>5, <2>1 DEF Deliver, graphVars
  <2>3. inv'[j].case = inv[j].case /\ inv'[j].at = "answered"
    BY <1>1, <2>1, <2>2 DEF Invocation
  <2>4. inv'[j] # None
    <3> DEFINE b == [inv[j] EXCEPT !.at = "answered"]
    <3>1. b \in Invocation /\ inv'[j] = b
      BY <1>1, <2>1, <2>2 DEF Invocation
    <3> QED BY <3>1, WorkflowAssumption
  <2>5. j \notin overlapped' => j \notin overlapped
    BY <1>2, <1>5 DEF Overlap
  <2> QED BY <1>2, <2>2, <2>3, <2>4, <2>5 DEF FreshInv, Fresh, Seen, Retryable, Running
<1> QED BY <1>1, <1>3, <1>4, <1>5 DEF Others, Persist, Deliver, Lose, SweepRead, SweepWrite, Die

LEMMA FreshStep == UploadInv /\ FreshInv /\ [UploadNext]_allVars => FreshInv'
<1> SUFFICES ASSUME UploadInv, FreshInv, [UploadNext]_allVars, NEW j \in Invs
             PROVE  Fresh(j)'
  BY DEF FreshInv
<1>1. CASE UNCHANGED allVars
  BY <1>1 DEF allVars, vars, uploadVars, FreshInv, Fresh, Seen, Ran, Retryable, Running
<1>2. ASSUME NEW i \in Invs, Acts(i), Overlap
      PROVE  Fresh(j)'
  <2>1. CASE i = j
    BY <1>2, <2>1, FreshActs
  <2>2. CASE i # j
    <3>1. j \in Invs \ {i}
      BY <2>2
    <3>2. inv'[j] = inv[j] /\ upload'[j] = upload[j]
      BY <1>2, <3>1, ActsAlone
    <3> QED BY <1>2, <3>2, FreshKept
  <2> QED BY <2>1, <2>2
<1>3. CASE Others /\ Overlap
  BY <1>3, FreshOthers
<1> QED BY <1>1, <1>2, <1>3 DEF UploadNext, Acts

(* Uploading again repeats nothing that is settled or at work, unless a    *)
(* thread wrote the index in between or the statement repeats a row.       *)
THEOREM NothingSettledRunAgain == UploadSpec => OnlyFailedRunAgain
<1> DEFINE Allowed == \A i \in Invs : NextCase(i) =>
       LET c == inv'[i].case IN
       \/ caseIndex[c] \in {None, "ingestion_failed"}
       \/ i \in overlapped
       \/ c \in Range(upload[i].created \o upload[i].errors)
<1>1. UploadInit => FreshInv
  BY DEF UploadInit, FreshInv, Fresh
<1>2. UploadInv /\ FreshInv /\ [UploadNext]_allVars => [Allowed]_allVars
  <2> SUFFICES ASSUME UploadInv, FreshInv, NEW i \in Invs, NextCase(i), i \notin overlapped
               PROVE  \/ caseIndex[inv'[i].case] \in {None, "ingestion_failed"}
                      \/ inv'[i].case \in Range(upload[i].created \o upload[i].errors)
    OBVIOUS
  <2>1. upload[i] \in Upload /\ upload[i] # None /\ upload[i].stage = "cases" /\ ~Running(i)
    BY DEF NextCase, Uploading, UploadInv, UploadTypeOK
  <2>2. PICK r \in upload[i].pending : ingest_statement(i, r.raw.case, r.raw.hit)
    BY DEF NextCase
  <2>3. inv'[i].case = r.raw.case
    BY <2>2 DEF ingest_statement, Enter, UploadInv, WorkflowInv, TypeOK
  <2>4. Seen(i, r.raw.case)
    BY <2>1 DEF FreshInv, Fresh
  <2>5. upload[i].created \in Seq(Cases) /\ upload[i].errors \in Seq(Cases)
    BY <2>1 DEF Upload
  <2>6. Ran(upload[i]) \subseteq Range(upload[i].created \o upload[i].errors)
    BY <2>5, RangeConcat DEF Ran
  <2> QED BY <2>1, <2>3, <2>4, <2>6 DEF Seen, Retryable
<1>3. UploadSpec => [](UploadInv /\ FreshInv)
  BY <1>1, UploadInitInv, UploadStepInv, FreshStep, PTL DEF UploadSpec
<1>4. UploadSpec => [][Allowed]_allVars
  BY <1>2, <1>3, PTL DEF UploadSpec
<1> QED BY <1>4 DEF OnlyFailedRunAgain

-----------------------------------------------------------------------------
(* From the answers to the cases                                           *)

(* What an upload works on is what its statement was parsed to.            *)
ParsedOf(i) ==
  upload[i] # None =>
    /\ upload[i].pdf \in Statements
    /\ upload[i].parsed = outcomes[upload[i].pdf].parsed

ParsedInv == \A i \in Invs : ParsedOf(i)

LEMMA ParsedKept ==
  ASSUME ParsedInv, NEW i \in Invs,
         \/ upload'[i] = None
         \/ /\ upload[i] # None
            /\ upload'[i].pdf = upload[i].pdf /\ upload'[i].parsed = upload[i].parsed
  PROVE  ParsedOf(i)'
BY DEF ParsedInv, ParsedOf

LEMMA ParsedStep == UploadInv /\ ParsedInv /\ [UploadNext]_allVars => ParsedInv'
<1> SUFFICES ASSUME UploadInv, ParsedInv, [UploadNext]_allVars, NEW j \in Invs
             PROVE  ParsedOf(j)'
  BY DEF ParsedInv
<1>1. upload \in [Invs -> Upload \cup {None}]
  BY DEF UploadInv, UploadTypeOK
<1>2. CASE upload'[j] = upload[j]
  BY <1>2, ParsedKept
<1>3. ASSUME Acts(j), upload'[j] # upload[j]
      PROVE  ParsedOf(j)'
  <2>1. CASE \E pdf \in Statements : ingest_statement_endpoint(j, pdf)
    <3>1. PICK pdf \in Statements : ingest_statement_endpoint(j, pdf)
      BY <2>1
    <3>2. upload'[j].pdf = pdf /\ upload'[j].parsed = outcomes[pdf].parsed
      BY <1>1, <1>3, <3>1 DEF ingest_statement_endpoint
    <3> QED BY <3>2 DEF ParsedOf
  <2>2. CASE Respond(j) \/ UploadRaises(j) \/ UploadDies(j)
    <3>1. upload'[j] = None
      BY <1>1, <2>2 DEF Respond, UploadRaises, UploadDies
    <3> QED BY <3>1, ParsedKept
  <2>3. CASE Merge(j) \/ Commit(j) \/ ReadIndex(j) \/ NextCase(j)
    <3>1. upload[j] \in Upload /\ upload[j] # None
      BY <1>1, <2>3 DEF Merge, Commit, ReadIndex, NextCase, Uploading
    <3>2. \/ upload'[j] = None
          \/ upload'[j].pdf = upload[j].pdf /\ upload'[j].parsed = upload[j].parsed
      BY <1>1, <2>3, <3>1 DEF Merge, Commit, ReadIndex, NextCase, Upload
    <3> QED BY <3>1, <3>2, ParsedKept
  <2>4. CASE Created(j) \/ Errored(j)
    <3>1. upload[j] \in Upload /\ upload[j] # None
      BY <1>1, <1>3, <2>4 DEF Created, Errored
    <3>2. upload'[j].pdf = upload[j].pdf /\ upload'[j].parsed = upload[j].parsed
      BY <1>1, <2>4, <3>1 DEF Created, Errored, Upload
    <3> QED BY <3>1, <3>2, ParsedKept
  <2> QED BY <1>3, <2>1, <2>2, <2>3, <2>4
          DEF Acts, ThreadStep, UploadStep, GraphStep, EndpointCall, uploadVars
<1>4. ASSUME NEW i \in Invs \ {j}, Acts(i)
      PROVE  upload'[j] = upload[j]
  BY <1>4, ActsAlone
<1>5. CASE Others \/ UNCHANGED allVars
  BY <1>2, <1>5 DEF Others, allVars, uploadVars
<1>6. ASSUME NEW i \in Invs, Acts(i)
      PROVE  ParsedOf(j)'
  BY <1>2, <1>3, <1>4, <1>6
<1> QED BY <1>5, <1>6 DEF UploadNext, Acts

(* Where an answer has one array, the page's rows are taken from it.       *)
LEMMA ArrayRead ==
  ASSUME NEW p, IsPage(p), p.call = "answered", NEW a \in TheArray(p.reply)
  PROVE  extract_transactions_from_page(p) = p.rows[a]
<1> DEFINE found == extract_json_array(p.reply)
           span == <<found.from, found.to>>
<1>1. p.reply \in Seq(Pieces)
  BY DEF IsPage
<1>2. /\ IsArray(p.reply) => span = <<1, Len(p.reply)>>
      /\ IsArray(p.reply) \/ PlainArrays(p.reply) # {} => found # Unparsed
      /\ found # Unparsed => span \in Arrays(p.reply)
  BY Zenon, <1>1, PlainArrayFound
<1>3. extract_transactions_from_page(p) =
        IF p.call = "answered" /\ found # Unparsed THEN p.rows[span] ELSE <<>>
  BY DEF extract_transactions_from_page
<1> HIDE DEF found, span
<1>4. CASE IsArray(p.reply)
  <2>1. a = <<1, Len(p.reply)>>
    BY Zenon, <1>4 DEF TheArray
  <2> QED BY Zenon, <1>2, <1>3, <1>4, <2>1
<1>5. CASE ~IsArray(p.reply)
  <2>1. a \in PlainArrays(p.reply) /\ Arrays(p.reply) = {a}
    BY Zenon, <1>5 DEF TheArray
  <2>2. found # Unparsed /\ span = a
    BY <1>2, <2>1
  <2> QED BY Zenon, <1>3, <2>2
<1> QED BY <1>4, <1>5

(* ... and those that are valid are what the upload has of this page.      *)
LEMMA PageParsed ==
  ASSUME NEW pdf \in Statements, NEW n \in DOMAIN pdf,
         NEW u, u.parsed = outcomes[pdf].parsed
  PROVE  RowsOfPage(u, n) = ValidRows(extract_transactions_from_page(pdf[n]))
<1> DEFINE rows(m) == extract_transactions_from_page(pdf[m])
           of(m) == {[page |-> m, place |-> k, raw |-> rows(m)[k]] : k \in DOMAIN rows(m)}
<1>1. u.parsed = {r \in UNION {of(m) : m \in DOMAIN pdf} : r.raw.kind = "valid"}
  BY DEF outcomes, raw_extracted
<1> HIDE DEF rows
<1>2. ASSUME NEW r \in u.parsed, r.page = n
      PROVE  r.raw \in ValidRows(rows(n))
  <2>1. PICK m \in DOMAIN pdf : r \in of(m)
    BY <1>1
  <2>2. PICK k \in DOMAIN rows(m) : r = [page |-> m, place |-> k, raw |-> rows(m)[k]]
    BY <2>1
  <2>3. m = n /\ r.raw = rows(n)[k] /\ r.raw.kind = "valid"
    BY <1>1, <1>2, <2>2
  <2> QED BY <2>2, <2>3 DEF ValidRows, Range
<1>3. ASSUME NEW x \in ValidRows(rows(n))
      PROVE  \E r \in u.parsed : r.page = n /\ r.raw = x
  <2>1. PICK k \in DOMAIN rows(n) : x = rows(n)[k] /\ x.kind = "valid"
    BY DEF ValidRows, Range
  <2> DEFINE r == [page |-> n, place |-> k, raw |-> rows(n)[k]]
  <2>2. r \in of(n) /\ r.page = n /\ r.raw = x
    BY <2>1
  <2> HIDE DEF r, of
  <2>3. r \in UNION {of(m) : m \in DOMAIN pdf}
    BY <2>2
  <2>4. r \in u.parsed
    BY <1>1, <2>1, <2>2, <2>3
  <2> QED BY <2>2, <2>4
<1>4. RowsOfPage(u, n) = ValidRows(rows(n))
  BY <1>2, <1>3 DEF RowsOfPage
<1> QED BY <1>4 DEF rows

(* Whatever is around the array in a model's answer, and whatever becomes  *)
(* of the rows before it and of other uploads: each valid row of the array *)
(* is a row of the page, stored, and has a case or is to have one.         *)
THEOREM AnswersAlwaysReachCases == UploadSpec => []AnswerReachesCases
<1>1. UploadInit => ParsedInv
  BY DEF UploadInit, ParsedInv, ParsedOf
<1>2. UploadInv /\ ParsedInv => AnswerReachesCases
  <2> SUFFICES ASSUME UploadInv, ParsedInv, NEW i \in Invs, upload[i] # None,
                      NEW n \in DOMAIN upload[i].pdf, upload[i].pdf[n].call = "answered",
                      NEW a \in TheArray(upload[i].pdf[n].reply)
               PROVE  /\ RowsOfPage(upload[i], n) = ValidRows(upload[i].pdf[n].rows[a])
                      /\ Uploading(i, "cases") =>
                           \A r \in ValidRows(upload[i].pdf[n].rows[a]) :
                             /\ r.case \in transactions
                             /\ r.case \in ids(upload[i].pending) \/ caseIndex[r.case] # None
    BY Zenon DEF AnswerReachesCases
  <2>1. PICK pdf \in Statements : pdf = upload[i].pdf /\ upload[i].parsed = outcomes[pdf].parsed
    BY DEF ParsedInv, ParsedOf
  <2>2. IsPage(pdf[n])
    BY <2>1, StatementAssumption DEF Range
  <2>3. RowsOfPage(upload[i], n) = ValidRows(pdf[n].rows[a])
    BY Zenon, <2>1, <2>2, ArrayRead, PageParsed
  <2>4. ASSUME Uploading(i, "cases"), NEW r \in ValidRows(pdf[n].rows[a])
        PROVE  /\ r.case \in transactions
               /\ r.case \in ids(upload[i].pending) \/ caseIndex[r.case] # None
    <3>1. r.case \in ids(upload[i].parsed)
      BY <2>3, <2>4 DEF RowsOfPage, ids
    <3> QED BY <2>4, <3>1 DEF UploadInv, RowsOf, RowsStored, RowsCased, Cased, Uploading
  <2> QED BY <2>1, <2>3, <2>4
<1> QED BY <1>1, <1>2, UploadInitInv, UploadStepInv, ParsedStep, PTL DEF UploadSpec
=============================================================================
