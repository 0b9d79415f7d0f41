# Reconciliation agent: TLA+ specifications

Specifications of the Financial Reconciliation Agent: the mock ERP that keeps
the books, and the orchestration service that turns bank transactions into
cases, asks people about the ones that do not match, and posts what they
approve. Paths below are relative to the repository's root.

## The system

    PDF / POST /cases          POST /cases/{id}/review
            |                           |
            v                           v
    +--------------------- orchestration ----------------------+
    | case_index   checkpoints   ledger_claims   transactions  |   PostgreSQL
    |     ingestion -> matcher -> close_case                   |
    |                        \-> investigator -> prepare_review|
    |                 ^----------- apply_decision <- human_review
    |                                 |-> write_back  |-> escalate
    +---------------------------------|------------------------+
                                      v  POST /journal-entries, token, key
    +------------------------- ERP ----------------------------+
    | journal_entries   idempotency_keys   audit_log           |   PostgreSQL
    +----------------------------------------------------------+

### Inventory

| Component | State it keeps | Operations | What makes it correct |
|---|---|---|---|
| ERP service `backend/erp/src/recon_erp` | `journal_entries`, `idempotency_keys`, `audit_log` and its sequence; one SQLAlchemy session per request | `post_journal_entry`, `reverse_journal_entry`, `append_audit_event`, `verify_token`; reads: `get_journal_entry`, `list_audit_log` | an entry, its key and its event exist together; a key stands for one entry for ever; nothing committed is rewritten; the links of a reversal agree; each write has a token for it; the audit log is a chain |
| Approval tokens `erp_client/approval_token.py`, `recon_common/detail_hash.py` | none (the token carries everything) | `issue_approval_token`, `compute_detail_hash` | a token authorises one action on one detail for five minutes |
| ERP client `erp_client/client.py` | none | `post_journal_entry` with a timeout of 10 s | a lost or late answer neither blocks the case nor posts twice |
| Case workflow `graph/` | one LangGraph thread per case: its checkpoints in PostgreSQL; `case_index` beside them | nine nodes, two routers, `update_case_index` | only what a reviewer approved is posted, once; rejections are capped; the index and the thread agree well enough for reviewers to work |
| Orchestration API `api/app.py` | none of its own | `start_case`, `review_case`, `ingest_statement_endpoint`; reads | a decision reaches the review it was made for |
| Claims `matcher/claims.py`, `reconcile.py`, `safety_checks.py` | `ledger_claims` | `try_claim_ledger_entry`, `reconcile` | a ledger entry clears at most one case |
| Deterministic matcher `matcher/deterministic.py` | none | `match_deterministic` | an exact match is found when there is one |
| Ranking, baseline `matcher/ranking.py`, `baseline.py` | none | `match_baseline`; similarity scores | the baseline is only measured; the ranking only orders what people are shown |
| Statement ingestion `ingestion/statement_ingestion.py` | `transactions`, and it drives `case_index` and the graph | `ingest_statement` | a row of an upload that goes on is stored and gets a case, whatever the other rows and other uploads do; uploading again repeats nothing that is settled |
| PDF and LLM extraction `ingestion/pdf_extractor.py`, `llm_extractor.py` | none | routing of pages to a text or an image model, their failures | the rows are those of the models' answers |
| Investigator `investigator/loop.py`, `tools.py` | the message list of one call | `investigate`, `_reflect` | it ends, and its proposal never posts |
| Policy store `investigator/policy_store.py`, `data/load_policies_to_qdrant.py` | Qdrant, loaded once | `chunk_text`, `main`; `retrieve_policy` | the version in effect at the transaction's date, with its whole text |
| JSON extraction `utils/json_extract.py` | none | `extract_json_object`, `extract_json_array` | the answer is found amid prose |
| Checkpoint migrations `graph/migrations.py` | none | `migrate_state_if_needed` | one version exists, so it is the identity |
| Retry script `scripts/mark_stuck_ingestions_for_retry.py` | writes `case_index` | read the stuck rows, then update them | does not disturb cases that went on |
| Data and evaluation `data/`, `scripts/run_agent_eval.py`, `run_baseline_eval.py`, `eval/metrics.py` | the split's files and rows; counters of one run | `generate_split`, `load_split`, the two evaluations, `precision_recall_f1` | the metrics are those of the split at hand, and its labels are true of the matcher |
| Database set-up, reports, tracing, frontend | | | not part of the running protocol |

The components meet in five places: the orchestrator calls the ERP over HTTP
with a token it signs itself; the endpoints, statement ingestion and the retry
script share `case_index`; every invocation of the graph on a case shares that
case's thread of checkpoints; all cases share `ledger_claims`; and all requests
to the ERP share its three tables and the sequence of the audit log.

### What is hard about it

* **Threads.** FastAPI runs the synchronous handlers of both services on a pool
  of threads. In the ERP each has its own transaction at READ COMMITTED, so
  whatever a handler checked may have changed when it writes.
* **Two invocations of one thread.** Nothing keeps two reviews, or a review and
  a new start, off the same case: each runs on its own copy of the state and
  the last checkpoint written wins.
* **Crashes.** The claim, the index, the checkpoint and the ERP's tables are four
  separate writes. LangGraph writes checkpoints behind the run.
* **Lost and late messages.** The POST to the ERP may be handled after its client
  timed out and the write-back was tried again.
* **Order of commits.** The ids of the audit log are drawn and committed in
  different orders.
* **Uploads.** Two uploads of one statement find the same rows missing; the index
  is read once and used for every row, while other threads write it; a row, a
  page, a case or the process may fail anywhere in between.
* **Text.** JSON is fished out of prose by counting brackets; a policy is cut into
  chunks and put together again.
* **Numbers.** A reversed amount goes through a float; metrics divide by counts.

Each of these is listed at its line under `hazards` in `PROJECT.json`, with
the properties that would catch it going wrong.

## The modules

| Module | What it is |
|---|---|
| `ErpLedger` | The abstract specification of the ERP: a journal, a key table and a trail of facts, written atomically; a key used again is answered with the entry it made. |
| `ErpService` | The ERP as it runs: threads, sessions, locks, tokens, the audit chain. It refines `ErpLedger`. |
| `ErpServiceProofs` | The inductive invariant of `ErpService`, its safety theorems, and the refinement. |
| `CaseWorkflow` | The orchestration service: threads of checkpoints, the index, claims, invocations, the network, composed with `ErpLedger` as the ERP it talks to. |
| `ApprovedPosting` | The abstract promise of the whole: somebody approves a transaction for a case, and a case is posted at most once, with one approved for it. |
| `CaseWorkflowProofs` | Type correctness, the inductive invariant and the safety theorems of `CaseWorkflow`; it implements `ApprovedPosting`. |
| `StatementIngestion` | `POST /statements/ingest`: pages, rows, transactions, and a case for each, on top of `CaseWorkflow`. |
| `StatementIngestionProofs` | The workflow's theorems with uploads as callers, that the rows of an upload reach the tables and their cases, and that nothing settled is run again. |
| `Investigator` | One call of `investigate()`: evidence, the tool loop, the reflection, and every way out of them. |
| `InvestigatorProofs` | Rounds, costs, the protocol of tool calls, the answer kept, and the policy checked with its text. |
| `JsonSpans` | `extract_json_object` and `extract_json_array` as operators on texts, and what the objects and arrays of a text are. |
| `JsonSpansProofs` | In a text of any length the counting of brackets finds every object and array with no bracket in its strings. |
| `PolicyVersion`, `PolicyCorpus` | The version of a policy in effect at a date, as computed and as meant; the files of a policy, their chunks, and the text read back. |
| `PolicyCorpusProofs` | Files of any length: how far a chunk may exceed its limit, and the text read back is the file. |
| `Matching` | The dictionary of the ledger by key, the invoice check, the entry to claim, and the baseline. |
| `Evaluation` | Generating a labelled split, loading it, evaluating a matcher on it, and the metrics. |
| `EvaluationProofs` | The inductive invariant of the benchmark: the labels hold, the counts add up, the metrics are exact. |
| `DataLemmas` | Naturals, sequences and recursive functions: the lemmas those proofs share. |
| `MCErpService`, `MCCaseWorkflow`, `MCStatementIngestion`, `MCInvestigator`, `MCEvaluation` | Finite instances for TLC. |

`StatementIngestion` EXTENDS `CaseWorkflow` and `JsonSpans`: an upload holds a
thread, and the cases of its rows are invocations of the workflow on it.
`Investigator` EXTENDS `JsonSpans` and `PolicyCorpus`, which EXTENDS
`PolicyVersion`; `CaseWorkflow` sees it as `investigator_node`, which goes on
(`InvestigationEnds`, a result) or fails (`Fail`, an exception). `Evaluation`
EXTENDS `Matching`; in `CaseWorkflow` the entry that matches is an input (`hit`),
any at all.

`CaseWorkflow` uses the ERP through `ErpLedger`, which `ErpService` is proved to
implement for every value of the constants; that is what lets the two services
be checked apart.

### ErpLedger and ErpService against the code

| Specification | Code |
|---|---|
| `journal`, `keys`, `audit` | the tables of `db/tables.py`, as committed; an audit event's `prev` names the event whose hash it holds, 0 being `GENESIS_HASH` |
| `auditSeq` | the sequence behind `audit_log.id`, which a rollback does not turn back |
| `job[w]`, `pc[w]` | what thread `w`'s session holds and where its handler stands |
| `acked` | every (key, entry) pair a 201 has carried; history |
| `Replay` | `session.get(IdempotencyKeyRow, ...)` found a row: answered before the token or the body is looked at |
| `Post`, `Reverse`, `Load` | the handlers up to the objects being added to the session, with their 401/403/404/409 as steps that write nothing |
| `InsertKey`, `LockRow` | the flush that the query in `append_audit_event` triggers. No relationship ties the two mapped classes together, so SQLAlchemy sorts them by name: the INSERT of `IdempotencyKeyRow` comes first and waits for whoever has inserted the same key; then `JournalEntryRow`, whose UPDATE of the reversed row waits for its lock. A posting updates no row (`AfterKey`) |
| `ReadTail` | `ORDER BY id DESC LIMIT 1` over what is committed |
| `InsertEvent`, `Commit` | the flush and the COMMIT of `session.commit()` |
| `Abort` | a database error, or the process dying, at any point |
| `HoldsKey`, `HoldsRow` | PostgreSQL's locks, derived from `pc` and `job` |

A handler's stretches between two statements that no other session can tell
apart are one action. SHA-256 is taken to be injective (a detail is its own
hash; an event's hash is named by its id) and RS256 to be unforgeable (a token
verifies only if it was issued). Amounts are integers. `FloatOf` is the
rounding of a binary float with `ExactLimit` in the place of 2^53, right up to
twice that limit.

### CaseWorkflow against the code

| Specification | Code |
|---|---|
| `ckpt[c]` | the latest checkpoint of thread `c`: the node to run next, and the values of `ReconciliationState` |
| `caseIndex`, `claims` | `case_index`, `ledger_claims` |
| `inv[i]` | a running `graph.invoke`: its case, its own copy of the values, the node it is at, and a resume value no node has consumed |
| `net` | POSTs on their way to the ERP; a request whose client gave up has `inv = None` and may still be handled |
| `start_case`, `ingest_statement`, `review_case`, `Begin` | the entry points; `Begin` is the merge of the input into the thread's values |
| one action per node | `graph/nodes.py`, with the routing of `graph/build.py` folded into where each node advances to |
| `write_back_node`, `Deliver`, `Posted` | the three parts of `write_back`: the request goes out, the ERP handles it, the answer is in |
| `Persist`, `Return`, `Fail`, `Timeout`, `Die` | checkpoint writes behind the run, the end of an invocation, an exception in a node, `timeout=10`, a killed process |
| `Raise`, `Unhandled` | what ingestion makes of an exception: the case is marked, or the update that marks it raises as well and ends the upload |
| `SweepRead`, `SweepWrite` | the two halves of the retry script |

LangGraph, PostgreSQL and the network are outside the repository and are
modelled from how the code uses them; their entries in `map` are external.
LangGraph saves checkpoints asynchronously (`durability` is left at its
default), so a death may leave any checkpoint earlier in the run; when
`invoke` returns or raises, the last one is saved. A `Command(resume=...)` on a
thread whose pending node is not `human_review` runs that node again and the
resume value is dropped.

Abstracted: the matching itself (`hit` is the ledger entry that matches and
whose invoice exists, an input), proposals, evidence, ranked candidates, the
review payload, the reasons and roles of a decision, and the token (the
write-back issues one for exactly what it sends, so the ERP never refuses its
scope; that it may have expired is a `Lose`). The stubs that tests switch on with
`RECON_FAKE_*` variables are left out. `update_case_index` is one step: two first
inserts of one case at the same instant, of which one raises, are not told
apart from a failure before it. In `CaseWorkflow` alone `ingest_statement` may
take up any case at any time; `StatementIngestion` says when it does.

### StatementIngestion against the code

| Specification | Code |
|---|---|
| `upload[i]` | the locals of `ingest_statement` on thread `i`: how far it is, its rows, the new ids, the rows pending, and `created` and `errors` of the response |
| `transactions` | the table of transactions, by id |
| `needs_vision`, `_looks_garbled`, `PageRaises` | `pdf_extractor.py` and `llm_extractor.py`: which page goes to which model, and that only a failed call for an image is tolerated |
| `extract_transactions_from_page` | the rows of the array that `extract_json_array` finds in the page's reply, or none |
| `IsPage` | a page: its text, what becomes of the call for it, the reply, and for each array of the reply the rows it holds, any number of them |
| `ids` | what `_synthesize_transaction_id` makes of rows: two rows that agree in what it hashes are one case, and may match different entries |
| `outcomes`, `Aborts` | the upload up to the database, in one step: it shares nothing until then |
| `Merge`, `Commit`, `ReadIndex` | its three transactions with the database |
| `NextCase`, `Created`, `Errored`, `Respond` | the loop over the pending rows, in the statement's order, and the response |
| `UploadRaises`, `UploadDies` | exceptions outside the loop's `try` (the update of the index before a case's run is one, that of the handler itself another), and a killed process |
| `overlapped` | history: uploads whose read of the index another thread has outdated |

What the models answer, whether a call fails, and what a row holds are chosen by
the environment: the statements are sequences of pages with rows that are valid,
invalid (logged and skipped), or malformed (a date that is no string, an item
that is no object), which abort the upload. A row's fields are
left out but for the case and the ledger entry they lead to. An upload that failed
is gone from the model as it is from the service: what is said of rows is said of
an upload that goes on, and of the next one of the same statement.

### Investigator, JsonSpans and the policies against the code

| Specification | Code |
|---|---|
| `_rewoo_initial_gather` | the first evidence; `asyncio.gather` joins reads, so one step |
| `AskForTools`, `Conclude` | one completion of the loop: with tool calls, or with a text |
| `messages`, `pending` | the chat, by the ids of the calls made and answered; the calls not run yet |
| `_dispatch_tool` | one call run and answered; `Raise` when its arguments are not JSON or a read fails |
| `Again` | the head of the `for` loop and its `else` |
| `_reflect`, `Revise`, `Result` | the reflection up to the completion, its answer, and the dictionary returned |
| `tentative.kind = "other"` | a reply that is JSON as a whole and no object, a list of objects included: `json.loads` at the head of `extract_json_object` returns it, and `.get` raises `AttributeError`, which nothing catches |
| `collection`, `scroll`, `chunks` | the points loaded; the first `scroll_limit` of them, 1000 in the code, whose next offset is dropped |
| `versions_seen`, `eligible`, `retrieve_policy` | the same names in `policy_store.py`: a dictionary in which a version's last chunk wins, and `max` by date, which takes the first of equals |
| `Loop`, `AddParagraph`, `chunk_text` | the `for` loop of `chunk_text`, its step, and what is left over after it |
| `PointsOf`, `all_chunks` | `main`: the chunks of a file, numbered, and those of all files |
| `version_chunks`, `sorted`, `policy_text` | the version's chunks, in the order of their index and, where it is the same, as they come (the sort is stable), joined |
| `_find_balanced_spans`, `extract_json_object`, `extract_json_array` | the same names in `json_extract.py` |

A text is a short sequence of pieces: brackets, prose, a member, a member whose
string holds a bracket, a brace with the key of a member whose value follows, another
JSON value. An object has one member at most, an array one element: `IsJson` peels
arrays and keyed objects off until a value with nothing nested (`Flat`) is left. A policy is its files, a file its
paragraphs, a paragraph its length, which is not zero since empty ones are
dropped. What the model says, which tools it calls, whether a read fails and which
policy the semantic search finds are the environment's choice.

### Matching and Evaluation against the code

| Specification | Code |
|---|---|
| `_key`, `match_deterministic` | the dictionary comprehension over the ledger, in which the last entry with a key hides the others; the query asks for no order, so any of them may be the last |
| `Claimed` | `reconcile` up to `claim_fn` |
| `generate_split`, `write_split`, `load_split` | one record of the split by its label; the files; the delete of the split's rows and the merge |
| `stored`, `stored_ledger`, `stored_invoices`, `Leftovers` | the three tables as sets of rows, and what they may hold before |
| `led_rows`, `valid_invoices` | the queries for the split's ledger and invoices, made once for a run |
| `txn_rows`, `row`, `evaluated` | the query, ordered by id: the next row of the loop is the one of least id among those not evaluated yet |
| `agent_row` (`Clear`, `investigate`), `baseline_row`, `CountMatched`, `CountUnmatched` | one transaction of the evaluation loops |
| `precision`, `recall`, `f1` | `eval/metrics.py`, as fractions |

References are taken to be distinct, as they are in every split in
`data/generated`: `rng.randint` could in principle draw one twice. A score of the
baseline is any number; dispositions, costs and latencies are left out.

## The runs

All bounds are constants in the configurations. Distinct states are TLC's,
after symmetry where it is used. Symmetry is used for safety only.

| Run | What it asks | Bounds | States |
|---|---|---|---|
| `erp_service` | Do the tables stay in step, does what is committed stay, is every behaviour one of the atomic ledger (`LedgerSpec`), and is every request answered (`Answered`)? | 2 threads, 2 keys, 3 entries, one tick (a token expires), 3 audit ids | 148,098 |
| `case_posting` | Is what is posted what was approved, once, is what is called posted in the books, and does all of it implement `ApprovedPosting` (`PostingSpec`)? | 1 case, 2 transactions, 2 invocations; 2 starts, 3 reviews, 1 fault, 1 death, 4 of these together; `last` and `rounds`, on which no step depends, are left out of the fingerprint (`PostingView`) | 1.66 M |
| `statement_uploads` | Once an upload runs cases, is each of its rows stored and pending or cased (`EveryRowHasCase`), among them those of the one array of each answer (`AnswerReachesCases`)? Does a case that cleared hold its claim, and is nothing settled run again? | 2 threads, 2 uploads of 3 statements (a stray bracket before the rows, a bad row, a failed page, one transaction on two pages, a garbled page, an answer without an array, a malformed row), 2 cases, 1 ledger entry, 1 fault, 1 death, 4 runs | 1.22 M |
| `case_serial` | Can a case in the reviewers' queue be resumed, and does every invocation and every upload end? | 1 thread, 1 case, 2 uploads, 1 `POST /cases`, 4 reviews, 1 fault, 10 events together, no death | 675 k |
| `investigate` | Does an investigation end, with a well-formed chat, the cost of what it spent, the policy in effect and its whole text, and is an answer with a plain object kept (`AnswerKept`)? | 2 rounds, 2 tool calls each, every text of up to 4 pieces of flat objects, up to 3 with arrays and nested objects, and some longer, 6 policies of up to 2 files, one with more chunks than are fetched, 3 dates | 288 k |
| `evaluation` | Does the matcher clear what the labels say, and are the metrics those of the split? | a split with every label once, 2 dates, rows of an older generation in all three tables (of this split: an entry and an invoice number that would make two labels untrue), either script, 2 scores about the threshold | 55 k |

Why the bounds are enough to be worth something: two threads in the ERP let two
requests race for a key, a row and the tail of the log, and two reversals race
for one entry; three audit ids leave room for one that is rolled back or
overtaken between two that commit. In the workflow two invocations are what it
takes for one to overwrite the other's checkpoint; two transactions tell "what was
approved" from "what was posted"; four events are a start, an approval, a timeout
or a death, and whatever meets them late. Two uploads race for the insert of a row
and for the index; two cases race for one claim; four runs let a row be run again
after its case failed. In `case_serial` four reviews on a case reach the cap on
rejections and go past it. Two rounds of the tool loop are the first, the last, and
the step from one to the next; four pieces make two objects, an object amid prose,
and stray brackets on either side of one; the longer texts nest an object or an array
in another, with prose on either side, or are JSON as a whole and no object. Every action is taken in some passing run, and the theorems
below say for all values of the constants what most of the runs show on small
ones.

`CHECK_DEADLOCK` is off for `Investigator` only, since an investigation is over
when it has returned or raised; an evaluation that is over stutters. Neither
service ever stops for want of a step.

### What the code does that its text does not say

Six runs check a sentence of the repository and find it violated.

| Run | The sentence | What happens |
|---|---|---|
| `erp_chain` | `audit.py`: "forming a chain" | The tail is read without a lock: two requests in flight chain onto the same event. The log is a tree (`AuditForest` holds), so an event dropped from a side branch need not break any other link. |
| `erp_reversal` | `app.py`: "Entry already reversed" | Two reversals under different keys both load the entry while it is posted; the second waits for the row, and its UPDATE looks only at the id. Both commit. |
| `case_claims` | `claims.py`: "False means another case has already claimed the entry" | After a crash between the claim and its checkpoint, the case meets its own claim and goes to review as an exception. |
| `case_capped` | `README.md`: "capped at 2 rounds" | Two rejections at once each add one to the count they loaded. |
| `case_decision` | `api/app.py`: "Resume a paused case with the reviewer's decision" | After a failed write-back the pending node is `write_back`; a later "reject" runs it again and the entry is posted. What is posted was approved earlier (`PostedWasApproved` holds). |
| `extraction` | `json_extract.py`: "Parse the first valid JSON object found, tolerating prose around it" | Brackets are counted inside strings, so `Done: {"explanation": "a } b"}` yields nothing; spans are tried last first, so of an object with an object in it only the inner one is taken. |

Seen while modelling, and without a run of its own:

* `json_extract.py` says "Parse the first valid JSON array found"; spans are tried
  last first here too, so of an answer with rows and a list behind them the list is
  taken, and the rows are lost. `AnswerReachesCases` is about answers with one array.
* `statement_ingestion.py` says "One bad row must not abort the whole statement";
  `_to_transaction` catches neither the `TypeError` of a date that is a number nor the
  `AttributeError` of an item that is no object, and the upload ends before it has
  stored anything (`Malformed`, `Aborts`).
* `json_extract.py` says "Raises json.JSONDecodeError when no object parses"; a reply
  that is a list or a number is returned as it is. `investigate` has an answer for the
  exception, and none for the `AttributeError` of `.get` (`tentative.kind = "other"`).
* `load_policies_to_qdrant.py` says "no larger than max_chars"; the separator between
  two paragraphs is not counted, and a paragraph that is longer by itself stays whole.
  `ChunksAlwaysBounded` proves how far a chunk may go.
* `policy_store.py` says that it "fetches all versions of that policy"; one scroll
  fetches 1000 chunks and its offset is dropped, so an older version may be checked, or
  none (`AllFetched`).
* `mark_stuck_ingestions_for_retry.py` says "Reclassifies stuck 'processing' cases";
  its UPDATE names the case and not the status that was read, so a case that has gone
  on to a reviewer in between is called `ingestion_failed`. The next upload starts it
  again; it still posts once, and what was approved (`case_posting`).
* `run_agent_eval.py` says of false positives "not expected by construction"; a
  duplicate is labelled as one that must not match and the first of a pair matches
  (`ClearsAsLabelled`: one false positive for each pair; the stored metrics have eight).

## Fairness

`ErpService!FairSpec` assumes that a thread whose handler can go on does (weak
fairness of its statements), and that a session waiting for a row or a key is not
overtaken for ever (strong fairness of `InsertKey` and `LockRow`): PostgreSQL
queues the waiters of a lock. Nothing is assumed of clients, the clock, tokens or
failures. Under it `Answered` holds because locks are taken in one order: a session waits for
its key holding nothing, and for the row holding its key, and one that has the row
waits for nothing more. (With the row taken first, by a `SELECT ... FOR SHARE` in
`Load` for instance, two reversals would wait for each other: `HoldsRowShared`.)

`StatementIngestion!FairUploadSpec` assumes weak fairness of the steps of each
thread that is at work on an upload or in the graph, the timeout of the POST among
them (httpx ends every wait). The ERP, the network, reviewers, clients and the
retry script owe nothing. `InvocationEnds` needs that the loop through the
investigator asks for a decision each time round; `UploadEnds` that a case that
fails takes its row off the list all the same.

`Investigator!FairSpec` assumes that the thread keeps running and that each
completion and read returns or raises.

## What is proved

Eight modules of proofs are checked by TLAPS, for any values of the constants: any
number of threads, keys, entries, cases, invocations, uploads, statements and rounds,
texts and policies of any length, and any bounds.

### The ERP (`ErpServiceProofs`)

Assumed is `ServiceAssumption`: amounts are integers, the null value is none of the
values it stands beside, and the lifetime of a token is positive.

| Theorem | Says |
|---|---|
| `TypeCorrect` | `Spec => []TypeOK` |
| `OneUnitAlways` | an entry, its key and its event exist together |
| `AckStableAlways` | all answers for a key name the same entry |
| `AuditForestAlways` | an event chains onto a committed, older event or genesis |
| `ReversalLinkedAlways` | the two links of a reversal agree |
| `AuthorizedAlways` | every entry has a token of its action and detail |
| `SessionsSound` | what a session found before its locks holds until its commit |
| `AppendOnlyAlways` | `Spec => AppendOnly`, no step rewrites what is committed |
| `Refinement` | `Spec => LedgerSpec` |

None of the table invariants is inductive by itself: they say what is committed,
and what `Commit` writes was decided several steps earlier, in a session. `Inv`
adds `SessionInv`, what the sessions hold between their check and their commit:

* `EntriesFresh`: an entry id drawn by a session is in no row and in no other
  session; so `Commit` never overwrites a row, which `AppendOnly`, `OneUnit` and
  the refinement rest on.
* `JobsAuthorized`: what was verified before the locks is still so behind them;
  `Authorized` and `ReversalLinked` rest on it.
* `KeysHeld`: a key inserted but not committed is in one session and in no row;
  `AckStable` and the refinement rest on it.
* `IdsDrawn`: the tail a session read is committed and older than the id it
  draws, and that id is its own; `AuditForest` rests on it.

The proof is one lemma per action, each with one step per conjunct that the action
can disturb; `Commit`, the only action that writes the tables, has lemmas of its
own for the rows, the keys and the log. The refinement maps `trail` to the audit
log without ids and chain; `Commit` of a posting is `Post`, of a reversal
`Reverse`, `Replay` is `Replay`, and every other step is a stutter.

### The case workflow (`CaseWorkflowProofs`)

Assumed is `WorkflowAssumption`: amounts are integers, the statement has a
transaction for each case, and `None` is none of the values it stands beside.

| Theorem | Says |
|---|---|
| `TypeCorrect` | `Spec => []TypeOK` |
| `Invariance` | `Spec => []WorkflowInv`, the inductive invariant below |
| `ApprovedOnly` | what is posted was approved, for that case |
| `PostedOnce` | a case has one entry at most |
| `PostedIsInBooks` | what is called posted is in the books |
| `ClearedHoldsClaim` | a case closed as matched holds a claim |
| `PendingAlwaysResumable` | `Spec /\ []Serial /\ [][DiesSaved]_vars => []PendingIsResumable` |
| `PostingRefines` | `Spec => PostingSpec`: the service with the ERP implements `ApprovedPosting` |

What the properties say of the books was decided in an invocation, saved in a
checkpoint, loaded by another one, and sent over the network. `WorkflowInv` says
of each of these places what is carried there: an invocation or a checkpoint at
`write_back`, or past an approval at `apply_decision`, has a transaction approved
for its case (`Carried`, `CheckpointsCarried`, `InvocationsCarried`); so has every
request (`RequestsApproved`); an entry is found under the key of its case
(`BooksByKey`); the index calls nothing posted or matched without a key or a claim
(`IndexBacked`). `Carried` only mentions what never shrinks: approvals, claims,
keys. One lemma (`Grow`) says that it survives any step that
only adds to these, which leaves for each action only what its own invocation
carries. A restart with another transaction begins at `ingestion`, of which
`Carried` asks little, and that is why it cannot smuggle anything past a review.
The refinement maps `posted` to what the books have under each case's key: a
decision to approve is `Approve`, a delivery that finds no key is `Post`.

`PendingAlwaysResumable` is about the two things a reviewer sees, the index and the
thread, which are written apart. The code keeps them together only if a case has one
invocation at a time (`Serial`) and none is killed while its thread is behind
(`DiesSaved`: a death finds it not begun, or with its last checkpoint written). Both are
stated as assumptions on the behaviour; nothing is assumed of the order of cases,
failures, timeouts, late answers or the retry script. So the gap between the two
writes is the only one through which a crash loses a case from under the queue. Its invariant, `ResumableInv`,
says that a case in the queue that no invocation has begun to work on has a
checkpoint to resume from, and that an invocation at `escalate` or at the end has
taken its case off the queue. The second part is what makes the first survive: a
checkpoint written at these nodes is not one to resume from. It is inductive beside
`WorkflowInv` and was checked with TLC for two invocations and two cases first.

### Statement ingestion (`StatementIngestionProofs`)

Assumed are `WorkflowAssumption` and `StatementAssumption`: statements are
numbered pages, a page's reply is a text with rows for each of its arrays, and
`None` is no upload.

| Theorem | Says |
|---|---|
| `UploadTypeCorrect` | `UploadSpec => []UploadTypeOK` |
| `NoRowLost` | `UploadSpec => []EveryRowHasCase` |
| `AnswersAlwaysReachCases` | `UploadSpec => []AnswerReachesCases` |
| `UploadsClearClaimed` | `UploadSpec => []ClearedIsClaimed` |
| `UploadsPostApproved` | `UploadSpec => PostingSpec` |
| `UploadsLeaveResumable` | `UploadSpec /\ []Serial /\ [][DiesSaved]_allVars => []PendingIsResumable` |
| `NothingSettledRunAgain` | `UploadSpec => OnlyFailedRunAgain` |
| `UploadInvariance` | the inductive invariant these follow from |

Uploads only call the workflow: each of their steps is a step of `CaseWorkflow` or
leaves its variables alone, with the exception of `UploadRaises`, which drops an
invocation that has not begun. So `WorkflowInv` holds below them. `UploadInv` adds
where the rows are: those of an upload that has committed are stored
(`RowsStored`), and one that is neither pending nor being run has a row in the
index (`RowsCased`), which no step ever takes away.

`NothingSettledRunAgain` needs `FreshInv` beside it: as long as no other thread has
written the index since an upload read it (`i \notin overlapped`), every row the
upload has pending is still retryable, or its case was run by this upload, or is
being run by it. `IndexOwn` gives the step: a graph writes the index of its own case
only. `AnswersAlwaysReachCases` ties the texts to the tables. `ParsedInv` says that the
rows of an upload are those its statement gives, from the request to its end;
`ArrayRead`, from `PlainArrayFound` below, that the one array of an answer is the one
taken; and `UploadInv` where its rows are. It says nothing of an answer with two
arrays, where the code takes the last.

### The investigator (`InvestigatorProofs`)

Assumed are `InvestigatorAssumption` (at least one round; texts are texts; dates are
numbers; a policy is a sequence of files with one file for each version, which is what
the file names give), `CorpusAssumption` (the limit of a chunk is positive) and
`ScrollAssumption` (that of the scroll is a natural number).

| Theorem | Says |
|---|---|
| `TypeCorrect` | `Spec => []TypeOK`: the limit of rounds, and that what is returned is an object or the code's own answer |
| `CostsAddUp` | `Spec => []CostAccounted` |
| `ToolCallsAlwaysAnswered` | `Spec => []ToolCallsAnswered` |
| `AnswerAlwaysKept` | `Spec => []AnswerKept` |
| `PolicyInEffect` | `Spec => []PolicyCheckedIsInEffect` |
| `PolicyTextAlwaysWhole` | `Spec => []PolicyTextWhole` |
| `ChunksAlwaysBounded` | every chunk loaded is one paragraph, or no larger than `max_chars` and a separator |

`LoopInv` holds what the loop counts. `ChatInv` strengthens `ToolCallsAnswered` to
the middle of a round: rounds follow one another in the chat, the pending calls are
of this round, differ and have no answer yet, and every other call has just one;
`ChatAsked` and `ChatDispatched` say that a message and an answer keep it so.
`PolicyInv` says that what was returned was computed from the chunks; `PolicyLemma`
then shows that the dictionary of versions, the filter by date and `max` yield a
version in effect. Beyond `scroll_limit` the code promises nothing, so the
two properties about the version and its text say `AllFetched`, and no more than that.
`AnswerInv` says of the two replies what
`AnswerKept` says of the result: an object of the reply is the conclusion if the reply
holds a plain one and is not JSON of another kind.

### Texts and policies of any length (`JsonSpansProofs`, `PolicyCorpusProofs`)

What these two show is induction over data, and the library's induction theorems cannot
be instantiated here. `DataLemmas` replaces them: `Onward` (a set of numbers that holds
`i` and, with each number below `j`, the next one, holds `j`) follows from the least
number it would miss, which exists because `<` on the naturals is well founded; and
`Recursion` gives the function a recursive definition chooses. A lemma about a text is
then one about the set of its prefixes of which it is true.

*The counting of brackets.* `DepthNext` says what one more piece adds to `Depth`, and
`JsonShape` what each piece of a JSON value is: opening brackets, a value with nothing
nested, closing brackets. So the height at each piece is known (`Heights`): it goes up
to some level, stays above zero, and returns to zero at the closing bracket and not
before. Hence `JsonIsSpan`: an object or array with no bracket in its strings is one of
the spans found. `PlainObjectFound` and `PlainArrayFound` conclude that something is
taken, since the last of a set of spans exists, that it is an object or array of the
text, and that a text that is JSON as a whole is taken whole.

*Chunks.* `Holds(acc, text)` is the invariant of the loop in `chunk_text`: the chunks
and what is left over are, one after the other, the paragraphs read so far, and
each is bounded. `AddHolds` is its step. `PointsHold` numbers a file's chunks,
`CollectionHolds` lifts this to all files.

*The text read back.* `FlattenAround` cuts the collection into what comes before a
file's chunks, these, and what comes after; since a version is one file
(`OtherVersions`), its chunks are one block of the collection, in which `sorted`, a rank
by index, is the order they have (`BlockSorted`). So the text is the block's, joined:
the file's (`TextWhole`).

### The benchmark (`EvaluationProofs`)

Assumed is `EvaluationAssumption`: the plan is a sequence of labels, not empty; draws
are integers, a shift of an amount or a date is not zero; "USD" is a currency; the
tables hold rows to begin with, finitely many transactions among them.

| Theorem | Says |
|---|---|
| `BenchmarkInvariance` | `Spec => []BenchmarkInv`, the inductive invariant below |
| `TypeCorrect` | `Spec => []TypeOK` |
| `EveryRowAccounted` | `Spec => []Accounted` |
| `LabelsHold` | `Spec => []ClearsAsLabelled` |
| `ClearedOnceAlways` | `Spec => []ClearedOnce` |
| `MetricsAreExact` | `Spec => []MetricsExact` |

The properties speak of the end; what they rest on is spread over the whole run.
`BenchmarkInv` has five parts. `SplitInv` is about the files: transactions are
numbered in order, a copy directly follows its original and both are duplicates, and
each reference has one ledger entry, whose key and invoice agree with the
transaction's just if the label says that it clears. `RunInv` says that from the load
on the split's rows of all three tables are the ones made. `CountInv` says that the rows
evaluated are the first by id, and makes each count the cardinality of a set of rows evaluated, so that
`Accounted` is a matter of disjoint sets. `AgentInv` says what has cleared: the clean
rows and the originals of duplicates among those evaluated, each against the entry with
its number. That it is preserved needs the order of the rows: a copy is asked
about after its original, which has claimed the entry by then. `MatcherAsks` is the
lemma about `Claimed`: the dictionary by key, in which one entry may hide
another, still yields the entry of the row's own reference, because references
are distinct. `MetricsInv` ties the metrics to the counts they were computed from.

### Only model-checked

Liveness (`Answered`, `InvocationEnds`, `UploadEnds`, `InvestigationEnds`): it needs
ENABLED, which is out of the prover's reach. Every invariant and action property of a
passing run, and both refinements, are theorems.

## What is not modelled

* Reads (`GET` endpoints), the temporary file of an upload, formatting.
* What PDF libraries and language models return: the environment's choice.
* The ranking of candidates by embeddings and the semantic search that names a policy:
  the first orders what people are shown, the second is a vector database's.
* The arithmetic inside the investigator's tools, which read and change nothing.
* Checkpoint migrations (`MIGRATIONS` is empty), database set-up (run once; what the
  grants give is `AppendOnly`), reports, exports of traces, and the frontend, a
  client of the two APIs without state of its own.
* A reversal beyond 53 bits is rounded (`ErpLedger!FloatOf`), and so need not cancel
  its original; no run asks that it does.
* Two ledger entries with one key: `Matching` lets any of them hide the
  others, but no document says what should happen then.

## Plan

Done: every module above. What would add most next:

1. What overlapping invocations of one case owe each other, as far as the code
   promises anything: `PendingIsResumable` without `Serial`.
2. Bounds on the baseline matcher (what a score below the threshold can never match),
   as lemmas about `Matching`.
