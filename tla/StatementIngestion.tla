------------------------- MODULE StatementIngestion -------------------------
(***************************************************************************)
(* POST /statements/ingest on top of the case workflow: the pages of a PDF *)
(* become rows, the rows transactions, and every new transaction a case    *)
(* that the uploading thread works through, one after another.             *)
(*                                                                         *)
(* An upload holds a thread of Invs.  What it does before it touches the   *)
(* database is one step; from there on each transaction with the database  *)
(* is one, and every case of it is an invocation of CaseWorkflow.          *)
(*                                                                         *)
(* Two rows have the same id, and so are one case, when they agree in what *)
(* _synthesize_transaction_id hashes.  Their reference is not part of it,  *)
(* so they may still match different ledger entries.  The ledger itself    *)
(* stays as it is: nothing in the service writes it.                       *)
(***************************************************************************)
EXTENDS CaseWorkflow, JsonSpans, Functions

CONSTANTS
  Statements,  \* the PDFs that are uploaded, with what the LLM makes of them
  MaxUploads,  \* bound: uploads
  MaxDirect    \* bound: POST /cases comes before this many runs from START

VARIABLES
  transactions,  \* ids in the table of transactions
  upload,        \* what each upload is doing, None when there is none
  uploads,       \* so far (bound)
  overlapped     \* uploads whose read of the index someone has outdated (history)

uploadVars == <<transactions, upload, uploads>>
allVars == <<vars, uploadVars, overlapped>>

-----------------------------------------------------------------------------
(* Types                                                                   *)

(* A row of a page is one transaction, fails validation, or is nothing that*)
(* _to_transaction expects (a date that is no string, an item that is no   *)
(* object).                                                                *)
RawRow == [kind: {"valid", "invalid", "malformed"}, case: Cases, hit: Ledgers \cup {None}]

(* text is what the PDF has for a page: its length without blanks around,  *)
(* and percentages of its characters.  rows are what the elements of each  *)
(* array in the reply are, however many.                                   *)
IsPage(p) ==
  /\ p.text \in [len: Nat, replacement: 0 .. 100, printable: 0 .. 100]
  /\ p.call \in {"answered", "no content", "failed", "not rasterized"}
  /\ p.reply \in Seq(Pieces)
  /\ p.rows \in [Arrays(p.reply) -> Seq(RawRow)]

(* A row and where the statement has it: its rows are worked on in order.  *)
Extracted == [page: Nat, place: Nat, raw: RawRow]

(* pdf is kept for the properties: what follows reads the parsed rows only.*)
Upload == [stage: {"parsed", "merged", "committed", "cases"}, pdf: Statements,
           parsed: SUBSET Extracted, new: SUBSET Cases, pending: SUBSET Extracted,
           created: Seq(Cases), errors: Seq(Cases)]

ASSUME StatementAssumption ==
  /\ \A pdf \in Statements : DOMAIN pdf \subseteq Nat /\ \A p \in Range(pdf) : IsPage(p)
  /\ None \notin Upload

UploadTypeOK ==
  /\ transactions \subseteq Cases
  /\ upload \in [Invs -> Upload \cup {None}]
  /\ \A i \in Invs : Running(i) /\ inv[i].kind = "ingest" => upload[i] # None
  /\ overlapped \subseteq {i \in Invs : upload[i] # None}

-----------------------------------------------------------------------------
(* pdf_extractor.py and llm_extractor.py: which page fails what            *)

_looks_garbled(text) == text.replacement > 5 \/ text.printable < 70

needs_vision(p) == p.text.len = 0 \/ _looks_garbled(p.text)

(* Output that holds no array counts as a page without transactions.  Only *)
(* a failed call for a page's image is kept from the caller.               *)
extract_transactions_from_page(p) ==
  LET found == extract_json_array(p.reply)
  IN  IF p.call = "answered" /\ found # Unparsed THEN p.rows[<<found.from, found.to>>] ELSE <<>>

PageRaises(p) ==
  \/ p.call = "no content"
  \/ p.call = "failed" /\ ~needs_vision(p)
  \/ p.call = "not rasterized" /\ needs_vision(p)

raw_extracted(pdf) ==
  UNION {LET rows == extract_transactions_from_page(pdf[n])
         IN  {[page |-> n, place |-> k, raw |-> rows[k]] : k \in DOMAIN rows} : n \in DOMAIN pdf}

(* The rest of ingest_statement is not reached: a page's exception, or a   *)
(* row's that is none of those _to_transaction catches.                    *)
Aborts(pdf) ==
  \/ \E p \in Range(pdf) : PageRaises(p)
  \/ \E r \in raw_extracted(pdf) : r.raw.kind = "malformed"

-----------------------------------------------------------------------------
(* statement_ingestion.py                                                  *)

Uploading(i, stage) == ~Running(i) /\ upload[i] # None /\ upload[i].stage = stage

ids(rows) == {r.raw.case : r \in rows}

First(r, rows) ==
  \A s \in rows \ {r} : r.page < s.page \/ (r.page = s.page /\ r.place < s.place)

(* The upload up to the database: the rows that parse, unless it raises.   *)
outcomes == [pdf \in Statements |->
  [aborts |-> Aborts(pdf), parsed |-> {r \in raw_extracted(pdf) : r.raw.kind = "valid"}]]

ingest_statement_endpoint(i, pdf) ==
  /\ ~Running(i) /\ upload[i] = None
  /\ uploads < MaxUploads
  /\ uploads' = uploads + 1
  /\ upload' = IF outcomes[pdf].aborts THEN upload ELSE [upload EXCEPT ![i] =
       [stage |-> "parsed", pdf |-> pdf, parsed |-> outcomes[pdf].parsed, new |-> {},
        pending |-> {}, created |-> <<>>, errors |-> <<>>]]
  /\ UNCHANGED <<vars, transactions>>

(* existing_ids, and session.merge, which looks each other row up again.   *)
(* Rows are never deleted, so the second look is the one that counts.      *)
Merge(i) ==
  /\ Uploading(i, "parsed")
  /\ upload' = [upload EXCEPT ![i].stage = "merged",
                              ![i].new = ids(upload[i].parsed) \ transactions]
  /\ UNCHANGED <<vars, transactions, uploads>>

(* All rows are inserted, or the upload fails on one that another upload   *)
(* has inserted meanwhile.                                                 *)
Commit(i) ==
  /\ Uploading(i, "merged")
  /\ \/ /\ upload[i].new \cap transactions = {}
        /\ transactions' = transactions \cup upload[i].new
        /\ upload' = [upload EXCEPT ![i].stage = "committed"]
     \/ /\ upload[i].new \cap transactions # {}
        /\ upload' = [upload EXCEPT ![i] = None]
        /\ UNCHANGED transactions
  /\ UNCHANGED <<vars, uploads>>

(* Mutant of Retryable: every row is pending.                              *)
Retryable_always(c) == c \in Cases

(* Not in already_cased_ids.                                               *)
Retryable(c) == caseIndex[c] \in {None, "ingestion_failed"}

(* pending_transactions and ledger_candidates.                             *)
ReadIndex(i) ==
  /\ Uploading(i, "committed")
  /\ upload' = [upload EXCEPT ![i].stage = "cases",
                              ![i].pending = {r \in upload[i].parsed : Retryable(r.raw.case)}]
  /\ UNCHANGED <<vars, transactions, uploads>>

(* Mutant of NextCase: the row is not taken off the list.                  *)
NextCase_again(i) ==
  /\ Uploading(i, "cases")
  /\ \E r \in upload[i].pending :
       /\ First(r, upload[i].pending)
       /\ ingest_statement(i, r.raw.case, r.raw.hit)
  /\ UNCHANGED uploadVars

(* The next pending row's case, with what was read before the first one.   *)
NextCase(i) ==
  /\ Uploading(i, "cases")
  /\ \E r \in upload[i].pending :
       /\ First(r, upload[i].pending)
       /\ ingest_statement(i, r.raw.case, r.raw.hit)
       /\ upload' = [upload EXCEPT ![i].pending = @ \ {r}]
  /\ UNCHANGED <<transactions, uploads>>

(* Mutant of Respond: the last case goes on behind the answer.             *)
Respond_early(i) ==
  /\ upload[i] # None /\ upload[i].stage = "cases" /\ upload[i].pending = {}
  /\ upload' = [upload EXCEPT ![i] = None]
  /\ UNCHANGED <<vars, transactions, uploads>>

Respond(i) ==
  /\ Uploading(i, "cases") /\ upload[i].pending = {}
  /\ upload' = [upload EXCEPT ![i] = None]
  /\ UNCHANGED <<vars, transactions, uploads>>

(* The graph has returned.                                                 *)
Created(i) ==
  /\ upload' = IF upload[i] = None THEN upload
               ELSE [upload EXCEPT ![i].created = Append(@, inv[i].case)]
  /\ UNCHANGED <<transactions, uploads>>

(* Mutant of Errored: the loop ends with the first case that raises.       *)
Errored_breaking(i) ==
  /\ upload' = IF upload[i] = None THEN upload
               ELSE [upload EXCEPT ![i].errors = Append(@, inv[i].case), ![i].pending = {}]
  /\ UNCHANGED <<transactions, uploads>>

(* The graph has raised, and the loop goes on.                             *)
Errored(i) ==
  /\ upload' = IF upload[i] = None THEN upload
               ELSE [upload EXCEPT ![i].errors = Append(@, inv[i].case)]
  /\ UNCHANGED <<transactions, uploads>>

(* An exception outside the try: the database's, that of the update of the *)
(* index before a case's run, and that of the handler's own update.        *)
UploadRaises(i) ==
  /\ upload[i] # None
  /\ upload' = [upload EXCEPT ![i] = None]
  /\ \/ Unhandled(i)
     \/ /\ Running(i) => inv[i].at = "begin"
        /\ used.faults < MaxFaults
        /\ inv' = [inv EXCEPT ![i] = None]
        /\ Spend("faults")
        /\ UNCHANGED <<graphVars, stuck, net, erpVars, histVars>>
  /\ UNCHANGED <<transactions, uploads>>

(* The process dies between two cases, or in one.                          *)
UploadDies(i) ==
  /\ upload[i] # None
  /\ upload' = [upload EXCEPT ![i] = None]
  /\ \/ Die(i)
     \/ /\ ~Running(i) /\ used.deaths < MaxDeaths
        /\ Spend("deaths")
        /\ UNCHANGED <<graphVars, inv, stuck, net, erpVars, histVars>>
  /\ UNCHANGED <<transactions, uploads>>

-----------------------------------------------------------------------------

UploadInit ==
  /\ Init
  /\ transactions = {}
  /\ upload = [i \in Invs |-> None]
  /\ uploads = 0
  /\ overlapped = {}

UploadStep(i) == Merge(i) \/ Commit(i) \/ ReadIndex(i) \/ NextCase(i) \/ Respond(i)

(* A step of the graph, which may be the upload's.                         *)
GraphStep(i) ==
  \/ Step(i) /\ inv'[i] # None /\ UNCHANGED uploadVars
  \/ Return(i) /\ Created(i)
  \/ Timeout(i) /\ Errored(i)

ThreadStep(i) == UploadStep(i) \/ GraphStep(i)

EndpointCall(i) ==
  /\ upload[i] = None
  /\ \E c \in Cases :
       \/ /\ used.starts < MaxDirect
          /\ \E t \in Txn, h \in Ledgers \cup {None} : start_case(i, c, t, h)
       \/ \E d \in Decision : review_case(i, c, d)
  /\ UNCHANGED uploadVars

Others ==
  /\ \/ \E i \in Invs : Persist(i) \/ (upload[i] = None /\ Die(i))
     \/ \E r \in net : Deliver(r) \/ Lose(r)
     \/ SweepRead \/ SweepWrite
  /\ UNCHANGED uploadVars

(* Another thread has written the index.                                   *)
Overlap ==
  overlapped' = {i \in Invs : /\ upload'[i] # None
                              /\ \/ i \in overlapped
                                 \/ upload[i] # None /\ caseIndex' # caseIndex /\ inv'[i] = inv[i]}

UploadNext ==
  /\ \/ \E i \in Invs :
          \/ \E pdf \in Statements : ingest_statement_endpoint(i, pdf)
          \/ EndpointCall(i) \/ ThreadStep(i)
          \/ Fail(i) /\ Errored(i)
          \/ UploadRaises(i) \/ UploadDies(i)
     \/ Others
  /\ Overlap

UploadSpec == UploadInit /\ [][UploadNext]_allVars

(* A thread at work keeps running; httpx ends every wait.                  *)
FairUploadSpec == UploadSpec /\ \A i \in Invs : WF_allVars(ThreadStep(i) /\ Overlap)

-----------------------------------------------------------------------------
(* Properties                                                              *)

(* No row of an upload that comes to its cases is lost, whatever becomes   *)
(* of the rows before it and of other uploads of it: each row is stored,   *)
(* and a row that is not pending any more has a case in the index.         *)
EveryRowHasCase ==
  \A i \in Invs :
    upload[i] # None /\ upload[i].stage = "cases" =>
      /\ ids(upload[i].parsed) \subseteq transactions
      /\ \A c \in ids(upload[i].parsed) \ ids(upload[i].pending) :
           Uploading(i, "cases") => caseIndex[c] # None

(* statement_ingestion.py: uploading a statement again is idempotent.  An  *)
(* upload runs a case that is settled or at work only if another writer of *)
(* the index overlapped with it, or if the statement has the row twice.    *)
OnlyFailedRunAgain ==
  [][\A i \in Invs : NextCase(i) =>
       LET c == inv'[i].case IN
       \/ caseIndex[c] \in {None, "ingestion_failed"}
       \/ i \in overlapped
       \/ c \in Range(upload[i].created \o upload[i].errors)]_allVars

ValidRows(rows) == {r \in Range(rows) : r.kind = "valid"}

RowsOfPage(u, n) == {r.raw : r \in {q \in u.parsed : q.page = n}}

(* The array that an answer is, or the only one it holds, if there is one  *)
(* and none of its strings has a bracket.                                  *)
TheArray(text) ==
  IF IsArray(text) THEN {<<1, Len(text)>>}
  ELSE {a \in PlainArrays(text) : Arrays(text) = {a}}

(* llm_extractor.py, json_extract.py and statement_ingestion.py together:  *)
(* where an answer has one array, whatever prose, objects and stray        *)
(* brackets are around it, its rows and no others are those of the page;   *)
(* once the upload runs cases each is stored, and is to be run or has a    *)
(* case in the index, whatever became of the ones before it.               *)
AnswerReachesCases ==
  \A i \in Invs : upload[i] # None =>
    \A n \in DOMAIN upload[i].pdf :
      LET p == upload[i].pdf[n] IN
      p.call = "answered" =>
        \A a \in TheArray(p.reply) :
          /\ RowsOfPage(upload[i], n) = ValidRows(p.rows[a])
          /\ Uploading(i, "cases") =>
               \A r \in ValidRows(p.rows[a]) :
                 /\ r.case \in transactions
                 /\ r.case \in ids(upload[i].pending) \/ caseIndex[r.case] # None

(* An upload comes to an end, whatever its cases run into.                 *)
UploadEnds == \A i \in Invs : upload[i] # None ~> upload[i] = None
=============================================================================
