---------------------------- MODULE CaseWorkflow ----------------------------
(***************************************************************************)
(* The orchestration service: one LangGraph thread per case, its           *)
(* checkpoint in PostgreSQL, the case index beside it, the claims on       *)
(* ledger entries, and the posting to the ERP.                             *)
(*                                                                         *)
(* An invocation is a call of graph.invoke by an endpoint or by statement  *)
(* ingestion.  It loads the thread's checkpoint, runs one node after       *)
(* another on its own copy of the state, and writes checkpoints behind     *)
(* itself: LangGraph saves asynchronously, so a process that dies leaves   *)
(* any earlier one, while an invocation that returns or raises has saved   *)
(* its last.  Nothing keeps two invocations off the same thread.  LangGraph*)
(* is not part of the repository; Persist, Return, Fail, Review's loading  *)
(* and Begin's merging are how its use here behaves.                       *)
(*                                                                         *)
(* The ERP is module ErpLedger, which ErpService implements, behind a      *)
(* network that may delay or lose a request after the client gave up.      *)
(***************************************************************************)
EXTENDS Integers, FiniteSets

CONSTANTS
  Invs,        \* invocations that can run at once
  Cases, Amounts, Parties, EntryIds, ExactLimit, None,
  Ledgers,     \* ledger entries a transaction can match
  Statement,   \* case -> the transaction a bank statement has for it
  MaxStarts,   \* bound: runs from START, over all cases
  MaxReviews,  \* bound: decisions submitted
  MaxFaults,   \* bound: exceptions in nodes and lost requests
  MaxDeaths,   \* bound: invocations whose process dies
  MaxEvents    \* bound: all of these together

VARIABLES
  ckpt,        \* case -> latest checkpoint of its thread, None before the first
  caseIndex,   \* case_index: case -> status, None when there is no row
  claims,      \* ledger_claims: ledger entry -> case, None when there is no row
  inv,         \* what each invocation is doing, None when it is not running
  stuck,       \* rows mark_stuck_ingestions_for_retry.py has read, not written
  net,         \* requests sent to the ERP and not handled yet
  journal, keys, trail, acked,  \* the ERP, see ErpLedger
  approved,    \* <<case, transaction>> a reviewer has approved (history)
  last,        \* case -> the last decision submitted for it (history)
  rounds,      \* case -> re-investigations since its last start (history)
  used         \* starts, reviews, faults and deaths so far (bounds)

erpVars == <<journal, keys, trail, acked>>
graphVars == <<ckpt, caseIndex, claims>>
histVars == <<approved, last, rounds>>
vars == <<ckpt, caseIndex, claims, inv, stuck, net, journal, keys, trail, acked,
          approved, last, rounds, used>>

(* The workflow's idempotency key is f"{case_id}-post": the case itself.   *)
Erp == INSTANCE ErpLedger WITH Keys <- Cases

MAX_REINVESTIGATION_CYCLES == 2

-----------------------------------------------------------------------------
(* Types                                                                   *)

Txn == [amount: Amounts, party: Parties]
Decision == {"approve", "reject"}
Nodes == {"ingestion", "matcher", "close_case", "investigator", "prepare_review",
          "human_review", "apply_decision", "write_back", "escalate"}
Status == {"processing", "pending_review", "approved_pending_writeback", "posted",
           "closed_matched", "escalated_unresolved", "ingestion_failed"}

(* ReconciliationState, without what is only shown to people.  hit is the  *)
(* ledger entry among the candidates whose key is the transaction's and    *)
(* whose invoice exists.                                                   *)
State == [transaction: Txn, hit: Ledgers \cup {None},
          match_status: {None, "matched", "exception"},
          last_decision: Decision \cup {None},
          rejection_cycle_count: 0 .. MAX_REINVESTIGATION_CYCLES + 1,
          case_status: {None, "closed_matched", "posted", "escalated_unresolved"}]

Checkpoint == [next: Nodes \cup {"end"}, vals: State]

(* resume is the decision of a Command that no node has consumed; at is    *)
(* "begin" before the checkpoint is loaded, "await" while the POST is out  *)
(* and "answered" once its 201 is in.                                      *)
Invocation == [case: Cases, kind: {"start", "ingest", "resume"}, vals: State,
               at: Nodes \cup {"begin", "await", "answered", "end"},
               resume: Decision \cup {None}]

Request == [inv: Invs \cup {None}, case: Cases, transaction: Txn]

ASSUME WorkflowAssumption ==
  /\ Amounts \subseteq Int
  /\ Statement \in [Cases -> Txn]
  /\ None \notin Cases \cup Invs \cup EntryIds \cup Ledgers \cup Txn \cup Decision \cup Status
  /\ None \notin Checkpoint /\ None \notin Invocation /\ None \notin Erp!Row
  /\ None # "matched" /\ None # "posted"

TypeOK ==
  /\ ckpt \in [Cases -> Checkpoint \cup {None}]
  /\ caseIndex \in [Cases -> Status \cup {None}]
  /\ claims \in [Ledgers -> Cases \cup {None}]
  /\ inv \in [Invs -> Invocation \cup {None}]
  /\ stuck \subseteq Cases
  /\ net \subseteq Request
  /\ journal \in [EntryIds -> Erp!Row \cup {None}]
  /\ keys \in [Cases -> EntryIds \cup {None}]
  /\ approved \subseteq Cases \X Txn
  /\ last \in [Cases -> Decision \cup {None}]
  /\ \A r \in net : r.inv # None => inv[r.inv] # None /\ inv[r.inv].at = "await"

-----------------------------------------------------------------------------
(* Helpers                                                                 *)

Running(i) == inv[i] # None

(* The next node of an invocation, as its checkpoint names it.             *)
NextNode(i) == IF inv[i].at \in {"await", "answered"} THEN "write_back" ELSE inv[i].at

Snapshot(i) == [next |-> NextNode(i), vals |-> inv[i].vals]

(* A superstep ends: the node's update is applied and an unconsumed resume *)
(* value is dropped.                                                       *)
Advance(i, node, vals) ==
  inv' = [inv EXCEPT ![i].at = node, ![i].vals = vals, ![i].resume = None]

update_case_index(c, status) == caseIndex' = [caseIndex EXCEPT ![c] = status]

Spend(what) ==
  /\ used.starts + used.reviews + used.faults + used.deaths < MaxEvents
  /\ used' = [used EXCEPT ![what] = @ + 1]

(* Mutant of Orphaned: the late answer goes to whoever has the socket now. *)
OrphanedKept(i) == net

(* The requests of an invocation that no longer waits go on by themselves. *)
Orphaned(i) == {IF r.inv = i THEN [r EXCEPT !.inv = None] ELSE r : r \in net}

-----------------------------------------------------------------------------
(* Entry points                                                            *)

(* A run from START; what it works on until Begin merges it is its input.  *)
Input(t, h) ==
  [transaction |-> t, hit |-> h, match_status |-> None, last_decision |-> None,
   rejection_cycle_count |-> 0, case_status |-> None]

Enter(i, c, kind, t, h) ==
  /\ ~Running(i)
  /\ used.starts < MaxStarts
  /\ inv' = [inv EXCEPT ![i] = [case |-> c, kind |-> kind, vals |-> Input(t, h),
                                at |-> "begin", resume |-> None]]
  /\ Spend("starts")
  /\ UNCHANGED <<graphVars, stuck, net, erpVars, histVars>>

(* POST /cases: any transaction, whatever became of the case before.       *)
start_case(i, c, t, h) == Enter(i, c, "start", t, h)

(* A row of a statement: the index was read before the first row's run, so *)
(* by now it may say anything (module StatementIngestion).                 *)
ingest_statement(i, c, h) == Enter(i, c, "ingest", Statement[c], h)

(* Both mark the case as processing and invoke the graph: the input is     *)
(* merged into the values the thread has, and the rejection count zeroed.  *)
Begin(i) ==
  LET c == inv[i].case
      input == inv[i].vals
      old == IF ckpt[c] = None THEN input ELSE ckpt[c].vals
  IN
  /\ Running(i) /\ inv[i].at = "begin"
  /\ update_case_index(c, "processing")
  /\ Advance(i, "ingestion", [old EXCEPT !.transaction = input.transaction,
                                         !.hit = input.hit,
                                         !.rejection_cycle_count = 0])
  /\ rounds' = [rounds EXCEPT ![c] = 0]
  /\ UNCHANGED <<ckpt, claims, stuck, net, erpVars, approved, last, used>>

(* POST /cases/{id}/review: the node that is pending runs again, whichever *)
(* it is, with the decision at hand.  A finished thread has none.          *)
review_case(i, c, d) ==
  /\ ~Running(i)
  /\ used.reviews < MaxReviews
  /\ ckpt[c] # None /\ ckpt[c].next # "end"
  /\ inv' = [inv EXCEPT ![i] = [case |-> c, kind |-> "resume", vals |-> ckpt[c].vals,
                                at |-> ckpt[c].next, resume |-> d]]
  /\ last' = [last EXCEPT ![c] = d]
  /\ Spend("reviews")
  /\ UNCHANGED <<graphVars, stuck, net, erpVars, approved, rounds>>

-----------------------------------------------------------------------------
(* The nodes                                                               *)

At(i, node) == Running(i) /\ inv[i].at = node

ingestion_node(i) ==
  /\ At(i, "ingestion")
  /\ Advance(i, "matcher", inv[i].vals)
  /\ UNCHANGED <<graphVars, stuck, net, erpVars, histVars, used>>

(* Mutant of Claimable: ON CONFLICT DO UPDATE, every claim wins.           *)
ClaimableAlways(l) == l # None

(* INSERT ... ON CONFLICT DO NOTHING: the row count says whether this      *)
(* statement inserted the claim.                                           *)
Claimable(l) == l # None /\ claims[l] = None

matcher_node(i) ==
  LET vals == inv[i].vals IN
  /\ At(i, "matcher")
  /\ \/ /\ Claimable(vals.hit)
        /\ claims' = [claims EXCEPT ![vals.hit] = inv[i].case]
        /\ Advance(i, "close_case", [vals EXCEPT !.match_status = "matched"])
     \/ /\ ~Claimable(vals.hit)
        /\ Advance(i, "investigator", [vals EXCEPT !.match_status = "exception"])
        /\ UNCHANGED claims
  /\ UNCHANGED <<ckpt, caseIndex, stuck, net, erpVars, histVars, used>>

close_case_node(i) ==
  /\ At(i, "close_case")
  /\ update_case_index(inv[i].case, "closed_matched")
  /\ Advance(i, "end", [inv[i].vals EXCEPT !.case_status = "closed_matched"])
  /\ UNCHANGED <<ckpt, claims, stuck, net, erpVars, histVars, used>>

investigator_node(i) ==
  /\ At(i, "investigator")
  /\ Advance(i, "prepare_review", inv[i].vals)
  /\ UNCHANGED <<graphVars, stuck, net, erpVars, histVars, used>>

prepare_review_node(i) ==
  /\ At(i, "prepare_review")
  /\ update_case_index(inv[i].case, "pending_review")
  /\ Advance(i, "human_review", inv[i].vals)
  /\ UNCHANGED <<ckpt, claims, stuck, net, erpVars, histVars, used>>

(* Mutant of human_review_node: the decision still in the state will do.   *)
human_review_node_stale(i) ==
  LET d == IF inv[i].resume = None THEN inv[i].vals.last_decision ELSE inv[i].resume IN
  /\ At(i, "human_review")
  /\ d # None
  /\ Advance(i, "apply_decision", [inv[i].vals EXCEPT !.last_decision = d])
  /\ approved' = IF inv[i].resume = "approve"
                 THEN approved \cup {<<inv[i].case, inv[i].vals.transaction>>}
                 ELSE approved
  /\ UNCHANGED <<graphVars, stuck, net, erpVars, last, rounds, used>>

(* interrupt() returns the decision the invocation was resumed with at     *)
(* this node; without one the invocation stops here (Return).              *)
human_review_node(i) ==
  LET d == inv[i].resume IN
  /\ At(i, "human_review")
  /\ d # None
  /\ Advance(i, "apply_decision", [inv[i].vals EXCEPT !.last_decision = d])
  /\ approved' = IF d = "approve"
                 THEN approved \cup {<<inv[i].case, inv[i].vals.transaction>>}
                 ELSE approved
  /\ UNCHANGED <<graphVars, stuck, net, erpVars, last, rounds, used>>

(* Mutant of apply_decision_node: the index is set before the cap is seen. *)
apply_decision_node_pending(i) ==
  LET c == inv[i].case
      cycle == inv[i].vals.rejection_cycle_count + 1
      counted == [inv[i].vals EXCEPT !.rejection_cycle_count = cycle]
  IN
  /\ At(i, "apply_decision")
  /\ IF inv[i].vals.last_decision = "approve"
     THEN Advance(i, "write_back", inv[i].vals) /\ UNCHANGED rounds
     ELSE IF cycle <= MAX_REINVESTIGATION_CYCLES
     THEN Advance(i, "investigator", counted) /\ rounds' = [rounds EXCEPT ![c] = @ + 1]
     ELSE Advance(i, "escalate", counted) /\ UNCHANGED rounds
  /\ update_case_index(c, "pending_review")
  /\ UNCHANGED <<ckpt, claims, stuck, net, erpVars, approved, last, used>>

apply_decision_node(i) ==
  LET c == inv[i].case
      vals == inv[i].vals
      cycle == vals.rejection_cycle_count + 1
      counted == [vals EXCEPT !.rejection_cycle_count = cycle]
  IN
  /\ At(i, "apply_decision")
  /\ \/ /\ vals.last_decision = "approve"
        /\ update_case_index(c, "approved_pending_writeback")
        /\ Advance(i, "write_back", vals)
        /\ UNCHANGED rounds
     \/ /\ vals.last_decision # "approve" /\ cycle <= MAX_REINVESTIGATION_CYCLES
        /\ update_case_index(c, "pending_review")
        /\ Advance(i, "investigator", counted)
        /\ rounds' = [rounds EXCEPT ![c] = @ + 1]
     \/ /\ vals.last_decision # "approve" /\ cycle > MAX_REINVESTIGATION_CYCLES
        /\ update_case_index(c, "escalated_unresolved")
        /\ Advance(i, "escalate", counted)
        /\ UNCHANGED rounds
  /\ UNCHANGED <<ckpt, claims, stuck, net, erpVars, approved, last, used>>

(* Mutant of write_back_node: the index is told before the ERP is.         *)
write_back_node_early(i) ==
  /\ At(i, "write_back")
  /\ update_case_index(inv[i].case, "posted")
  /\ net' = net \cup {[inv |-> i, case |-> inv[i].case, transaction |-> inv[i].vals.transaction]}
  /\ inv' = [inv EXCEPT ![i].at = "await"]
  /\ UNCHANGED <<ckpt, claims, stuck, erpVars, histVars, used>>

(* write_back up to the POST: a token for exactly this case, amount and    *)
(* entity goes with it, so the ERP never refuses its scope.                *)
write_back_node(i) ==
  /\ At(i, "write_back")
  /\ net' = net \cup {[inv |-> i, case |-> inv[i].case, transaction |-> inv[i].vals.transaction]}
  /\ inv' = [inv EXCEPT ![i].at = "await"]
  /\ UNCHANGED <<graphVars, stuck, erpVars, histVars, used>>

(* ... and from its response on.                                           *)
Posted(i) ==
  /\ At(i, "answered")
  /\ update_case_index(inv[i].case, "posted")
  /\ Advance(i, "end", [inv[i].vals EXCEPT !.case_status = "posted"])
  /\ UNCHANGED <<ckpt, claims, stuck, net, erpVars, histVars, used>>

escalate_node(i) ==
  /\ At(i, "escalate")
  /\ Advance(i, "end", [inv[i].vals EXCEPT !.case_status = "escalated_unresolved"])
  /\ UNCHANGED <<graphVars, stuck, net, erpVars, histVars, used>>

-----------------------------------------------------------------------------
(* The ERP and the network                                                 *)

(* Mutant of ErpHandles: the ERP does not look the key up.                 *)
ErpHandlesBlindly(r) ==
  \E e \in EntryIds :
    /\ journal[e] = None
    /\ journal' = [journal EXCEPT ![e] =
         Erp!NewRow([case |-> r.case, amount |-> r.transaction.amount,
                     party |-> r.transaction.party], None)]
    /\ keys' = [keys EXCEPT ![r.case] = e]
    /\ UNCHANGED <<trail, acked>>

(* post_journal_entry in the ERP: the key it has seen, or a new entry.     *)
ErpHandles(r) ==
  \/ Erp!Replay(r.case)
  \/ \E e \in EntryIds :
       Erp!Post(r.case, [case |-> r.case, amount |-> r.transaction.amount,
                         party |-> r.transaction.party], e)

Deliver(r) ==
  /\ ErpHandles(r)
  /\ net' = net \ {r}
  /\ inv' = IF r.inv = None THEN inv ELSE [inv EXCEPT ![r.inv].at = "answered"]
  /\ UNCHANGED <<graphVars, stuck, histVars, used>>

(* The request is lost or refused (token expired on the way, ERP down).    *)
Lose(r) ==
  /\ used.faults < MaxFaults
  /\ net' = net \ {r}
  /\ Spend("faults")
  /\ UNCHANGED <<graphVars, inv, stuck, erpVars, histVars>>

-----------------------------------------------------------------------------
(* Checkpoints, ends and failures                                          *)

(* A checkpoint write catches up with the invocation.                      *)
Persist(i) ==
  /\ Running(i) /\ inv[i].at # "begin"
  /\ ckpt[inv[i].case] # Snapshot(i)
  /\ ckpt' = [ckpt EXCEPT ![inv[i].case] = Snapshot(i)]
  /\ UNCHANGED <<caseIndex, claims, inv, stuck, net, erpVars, histVars, used>>

(* The graph is at its end, or waits for a reviewer.                       *)
Return(i) ==
  /\ At(i, "end") \/ (At(i, "human_review") /\ inv[i].resume = None)
  /\ ckpt' = [ckpt EXCEPT ![inv[i].case] = Snapshot(i)]
  /\ inv' = [inv EXCEPT ![i] = None]
  /\ UNCHANGED <<caseIndex, claims, stuck, net, erpVars, histVars, used>>

(* A node raises (LLM, embeddings, database, a response that is not 2xx or *)
(* does not come within the client's timeout): what is saved is the state  *)
(* before the node.                                                        *)
Raised(i) ==
  /\ ckpt' = [ckpt EXCEPT ![inv[i].case] = Snapshot(i)]
  /\ inv' = [inv EXCEPT ![i] = None]
  /\ net' = Orphaned(i)
  /\ UNCHANGED <<claims, stuck, erpVars, histVars>>

(* ingest_statement catches it and marks the case.                         *)
Raise(i) ==
  /\ Raised(i)
  /\ IF inv[i].kind = "ingest" THEN update_case_index(inv[i].case, "ingestion_failed")
                               ELSE UNCHANGED caseIndex

Fail(i) ==
  /\ Running(i) /\ inv[i].at \notin {"begin", "await", "end"}
  /\ used.faults < MaxFaults
  /\ Raise(i)
  /\ Spend("faults")

(* The handler's update of the index raises as well.                       *)
Unhandled(i) ==
  /\ Running(i) /\ inv[i].kind = "ingest" /\ inv[i].at \notin {"begin", "end"}
  /\ used.faults < MaxFaults
  /\ Raised(i)
  /\ Spend("faults")
  /\ UNCHANGED caseIndex

(* Mutant of Timeout: the client of the POST waits as long as it takes.    *)
TimeoutNone(i) == FALSE /\ UNCHANGED vars

(* timeout=10 of the POST: an answer that is late, or will never come.     *)
Timeout(i) ==
  /\ At(i, "await")
  /\ Raise(i)
  /\ UNCHANGED used

(* The process dies: what was not saved is gone, what was sent is not.     *)
Die(i) ==
  /\ Running(i)
  /\ used.deaths < MaxDeaths
  /\ inv' = [inv EXCEPT ![i] = None]
  /\ net' = Orphaned(i)
  /\ Spend("deaths")
  /\ UNCHANGED <<graphVars, stuck, erpVars, histVars>>

(* mark_stuck_ingestions_for_retry.py reads the rows, then updates them.   *)
SweepRead ==
  /\ stuck = {}
  /\ stuck' = {c \in Cases : caseIndex[c] = "processing"}
  /\ UNCHANGED <<graphVars, inv, net, erpVars, histVars, used>>

SweepWrite ==
  /\ stuck # {}
  /\ caseIndex' = [c \in Cases |-> IF c \in stuck THEN "ingestion_failed" ELSE caseIndex[c]]
  /\ stuck' = {}
  /\ UNCHANGED <<ckpt, claims, inv, net, erpVars, histVars, used>>

-----------------------------------------------------------------------------

Init ==
  /\ ckpt = [c \in Cases |-> None]
  /\ caseIndex = [c \in Cases |-> None]
  /\ claims = [l \in Ledgers |-> None]
  /\ inv = [i \in Invs |-> None]
  /\ stuck = {}
  /\ net = {}
  /\ Erp!Init
  /\ approved = {}
  /\ last = [c \in Cases |-> None]
  /\ rounds = [c \in Cases |-> 0]
  /\ used = [starts |-> 0, reviews |-> 0, faults |-> 0, deaths |-> 0]

Call(i) ==
  \E c \in Cases :
    \/ \E t \in Txn, h \in Ledgers \cup {None} : start_case(i, c, t, h)
    \/ \E h \in Ledgers \cup {None} : ingest_statement(i, c, h)
    \/ \E d \in Decision : review_case(i, c, d)

Step(i) ==
  \/ Begin(i) \/ ingestion_node(i) \/ matcher_node(i) \/ close_case_node(i)
  \/ investigator_node(i) \/ prepare_review_node(i) \/ human_review_node(i)
  \/ apply_decision_node(i) \/ write_back_node(i) \/ Posted(i) \/ escalate_node(i)
  \/ Return(i) \/ Timeout(i)

Next ==
  \/ \E i \in Invs : Call(i) \/ Step(i) \/ Persist(i) \/ Fail(i) \/ Unhandled(i) \/ Die(i)
  \/ \E r \in net : Deliver(r) \/ Lose(r)
  \/ SweepRead \/ SweepWrite

Spec == Init /\ [][Next]_vars

-----------------------------------------------------------------------------
(* Properties                                                              *)

Entries == {e \in EntryIds : journal[e] # None}

(* README.md: the agent writes to the ERP "only after human approval".     *)
(* Every entry says what a reviewer approved for its case when resuming a  *)
(* thread that carried just that transaction, through restarts with other  *)
(* transactions, retries, stale checkpoints and late deliveries.           *)
PostedWasApproved ==
  \A e \in Entries :
    LET d == journal[e].detail
    IN  <<d.case, [amount |-> d.amount, party |-> d.party]>> \in approved

(* A case is posted at most once, however many invocations, retries after  *)
(* a timeout and delayed requests reach the ERP.                           *)
OneEntryPerCase ==
  \A e, f \in Entries : journal[e].detail.case = journal[f].detail.case => e = f

(* All of this as the abstract specification has it: what the books say of *)
(* a case, by the key of its posting, changes once, to what is approved.   *)
InBooks(c) ==
  IF keys[c] = None THEN None
  ELSE [amount |-> journal[keys[c]].detail.amount, party |-> journal[keys[c]].detail.party]

Promise == INSTANCE ApprovedPosting WITH
             Txns <- Txn, posted <- [c \in Cases |-> InBooks(c)]

PostingSpec == Promise!Spec

(* A case that the index or its thread calls posted is in the ERP's books. *)
PostedInErp ==
  \A c \in Cases :
    \/ caseIndex[c] = "posted"
    \/ ckpt[c] # None /\ ckpt[c].vals.case_status = "posted"
    => \E e \in Entries : journal[e].detail.case = c

(* A case that cleared without review holds the claim on the entry it      *)
(* matched, so no two cases clear against one entry.                       *)
ClearedIsClaimed ==
  \A c \in Cases :
    /\ caseIndex[c] = "closed_matched" => \E l \in Ledgers : claims[l] = c
    /\ ckpt[c] # None /\ ckpt[c].next = "end" /\ ckpt[c].vals.match_status = "matched"
       => claims[ckpt[c].vals.hit] = c

(* Why these hold: what an invocation of case c, or a checkpoint, that has *)
(* come to node n with the values v relies on later, though other          *)
(* invocations have passed it or a restart has replaced its transaction.   *)
Carried(c, n, v) ==
  /\ v.rejection_cycle_count > MAX_REINVESTIGATION_CYCLES => n \in {"escalate", "end"}
  /\ n \in {"investigator", "prepare_review", "human_review", "apply_decision",
            "write_back", "escalate"} => v.match_status = "exception"
  /\ n = "close_case" => v.match_status = "matched"
  /\ n \in {"close_case", "end"} /\ v.match_status = "matched" =>
       v.hit # None /\ claims[v.hit] = c
  /\ n = "write_back" \/ (n = "apply_decision" /\ v.last_decision = "approve") =>
       <<c, v.transaction>> \in approved
  /\ v.case_status = "posted" => keys[c] # None

CheckpointsCarried ==
  \A c \in Cases : ckpt[c] # None => Carried(c, ckpt[c].next, ckpt[c].vals)

InvocationsCarried ==
  \A i \in Invs : Running(i) =>
    /\ Carried(inv[i].case, NextNode(i), inv[i].vals)
    /\ inv[i].at = "answered" => keys[inv[i].case] # None

(* A request is for something approved, and is the only one of whoever     *)
(* waits for it.                                                           *)
RequestsApproved ==
  \A r \in net :
    /\ <<r.case, r.transaction>> \in approved
    /\ r.inv # None => inv[r.inv].case = r.case
    /\ \A s \in net : r.inv = s.inv /\ r.inv # None => r = s

(* The books of the ERP, by key: an entry is found under its own case.     *)
BooksByKey ==
  /\ \A e \in Entries :
       /\ keys[journal[e].detail.case] = e
       /\ <<journal[e].detail.case, [amount |-> journal[e].detail.amount,
                                     party |-> journal[e].detail.party]>> \in approved
  /\ \A c \in Cases : keys[c] # None =>
       journal[keys[c]] # None /\ journal[keys[c]].detail.case = c

IndexBacked ==
  \A c \in Cases :
    /\ caseIndex[c] = "posted" => keys[c] # None
    /\ caseIndex[c] = "closed_matched" => \E l \in Ledgers : claims[l] = c

(* With the types, what every step of the workflow preserves.              *)
WorkflowInv ==
  /\ TypeOK
  /\ CheckpointsCarried
  /\ InvocationsCarried
  /\ RequestsApproved
  /\ BooksByKey
  /\ IndexBacked

(* A case the reviewers' queue shows, and on which nothing runs, can be    *)
(* resumed: its thread has a node to run.  (One invocation at a time and   *)
(* no process killed: the index and the checkpoint are separate writes.)   *)
PendingIsResumable ==
  \A c \in Cases :
    /\ caseIndex[c] \in {"pending_review", "approved_pending_writeback"}
    /\ \A i \in Invs : Running(i) => inv[i].case # c
    => ckpt[c] # None /\ ckpt[c].next # "end"

(* Every invocation comes to an end: the loop through the investigator     *)
(* needs a decision each time round, and the POST has a timeout.           *)
InvocationEnds == \A i \in Invs : Running(i) ~> ~Running(i)

(* claims.py: a claim that is refused means "another case has already      *)
(* claimed the entry", never the case itself.                              *)
RefusedByAnother ==
  \A c \in Cases :
    /\ ckpt[c] # None
    /\ ckpt[c].next \in {"investigator", "prepare_review", "human_review"}
    /\ ckpt[c].vals.match_status = "exception" /\ ckpt[c].vals.hit # None
    => claims[ckpt[c].vals.hit] # c

(* README.md: "a rejection -> re-investigation cycle capped at 2 rounds".  *)
RejectionsCapped == \A c \in Cases : rounds[c] <= MAX_REINVESTIGATION_CYCLES

(* app.py: a review resumes "with the reviewer's decision": nothing is     *)
(* posted on behalf of a reviewer whose decision was to reject.            *)
LastDecisionHonoured ==
  \A i \in Invs : At(i, "await") => last[inv[i].case] = "approve"
=============================================================================
