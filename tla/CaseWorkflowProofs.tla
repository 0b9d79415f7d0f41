------------------------- MODULE CaseWorkflowProofs -------------------------
(***************************************************************************)
(* WorkflowInv is an invariant of CaseWorkflow, for any cases, invocations,*)
(* transactions and ledger entries.  What invocations and checkpoints rely *)
(* on only ever becomes more true (Grow), so a step owes a proof for the   *)
(* place it moves something to, and for nothing else.                      *)
(***************************************************************************)
EXTENDS CaseWorkflow, TLAPS

-----------------------------------------------------------------------------
(* What never shrinks                                                      *)

(* Claims and keys are never taken back, nor is an approval.               *)
Grow ==
  /\ \A l \in Ledgers : claims[l] # None => claims'[l] = claims[l]
  /\ approved \subseteq approved'
  /\ \A c \in Cases : keys[c] # None => keys'[c] = keys[c]

LEMMA UnchangedGrow == UNCHANGED <<claims, approved, keys>> => Grow
BY DEF Grow

(* So what a place relies on, it can go on relying on.                     *)
LEMMA CarriedStays ==
  ASSUME Grow, NEW c \in Cases, NEW n, NEW v \in State, Carried(c, n, v)
  PROVE  Carried(c, n, v)'
<1>1. v.hit \in Ledgers \cup {None} /\ c # None
  BY WorkflowAssumption DEF State
<1> QED BY <1>1 DEF Grow, Carried

LEMMA CheckpointsKept ==
  ASSUME WorkflowInv, Grow, UNCHANGED ckpt
  PROVE  CheckpointsCarried'
<1> SUFFICES ASSUME NEW c \in Cases, ckpt'[c] # None
             PROVE  Carried(c, ckpt[c].next, ckpt[c].vals)'
  BY DEF CheckpointsCarried
<1>1. PICK n \in Nodes \cup {"end"}, v \in State : n = ckpt[c].next /\ v = ckpt[c].vals
  BY DEF WorkflowInv, TypeOK, Checkpoint
<1>2. Carried(c, n, v)
  BY <1>1 DEF WorkflowInv, CheckpointsCarried
<1>3. Carried(c, n, v)'
  BY <1>2, CarriedStays
<1> QED BY <1>1, <1>3 DEF Carried

(* A checkpoint is written: what the invocation carries, it carries.       *)
LEMMA CheckpointWritten ==
  ASSUME WorkflowInv, Grow, NEW i \in Invs, Running(i), inv[i].at # "begin",
         ckpt' = [ckpt EXCEPT ![inv[i].case] = Snapshot(i)]
  PROVE  /\ CheckpointsCarried'
         /\ ckpt' \in [Cases -> Checkpoint \cup {None}]
<1>1. PICK c \in Cases, n \in Nodes \cup {"end"}, v \in State :
        c = inv[i].case /\ n = NextNode(i) /\ v = inv[i].vals
  BY DEF WorkflowInv, TypeOK, Invocation, Running, NextNode, Nodes
<1>2. ckpt' = [ckpt EXCEPT ![c] = [next |-> n, vals |-> v]]
  BY <1>1 DEF Snapshot
<1>3. Carried(c, n, v)
  BY <1>1 DEF WorkflowInv, InvocationsCarried
<1>4. Carried(c, n, v)'
  BY <1>3, CarriedStays
<1>5. [next |-> n, vals |-> v] \in Checkpoint
  BY DEF Checkpoint
<1>6. ckpt \in [Cases -> Checkpoint \cup {None}]
  BY DEF WorkflowInv, TypeOK
<1>7. ckpt' \in [Cases -> Checkpoint \cup {None}]
  BY <1>2, <1>5, <1>6
<1>8. ASSUME NEW d \in Cases, ckpt'[d] # None
      PROVE  Carried(d, ckpt[d].next, ckpt[d].vals)'
  <2>1. CASE d = c
    <3>1. ckpt'[d].next = n /\ ckpt'[d].vals = v
      BY <1>2, <1>6, <2>1
    <3> QED BY <3>1, <2>1, <1>4 DEF Carried
  <2>2. CASE d # c
    <3>1. ckpt'[d] = ckpt[d]
      BY <1>2, <1>6, <2>2
    <3>2. PICK m \in Nodes \cup {"end"}, w \in State : m = ckpt[d].next /\ w = ckpt[d].vals
      BY <3>1, <1>8, <1>6 DEF Checkpoint
    <3>3. Carried(d, m, w)
      BY <3>1, <3>2, <1>8 DEF WorkflowInv, CheckpointsCarried
    <3>4. Carried(d, m, w)'
      BY <3>3, CarriedStays
    <3> QED BY <3>1, <3>2, <3>4 DEF Carried
  <2> QED BY <2>1, <2>2
<1> QED BY <1>7, <1>8 DEF CheckpointsCarried

(* An invocation moves, or ends; the others stay where they are.           *)
LEMMA InvocationMoves ==
  ASSUME WorkflowInv, Grow, NEW i \in Invs, NEW r \in Invocation \cup {None},
         inv' = [inv EXCEPT ![i] = r],
         NEW n, r # None => /\ n = IF r.at \in {"await", "answered"} THEN "write_back" ELSE r.at
                            /\ Carried(r.case, n, r.vals)'
                            /\ r.at = "answered" => keys'[r.case] # None
  PROVE  /\ inv' \in [Invs -> Invocation \cup {None}]
         /\ InvocationsCarried'
<1>1. inv \in [Invs -> Invocation \cup {None}]
  BY DEF WorkflowInv, TypeOK
<1>2. inv' \in [Invs -> Invocation \cup {None}]
  BY <1>1
<1>3. ASSUME NEW j \in Invs, Running(j)'
      PROVE  /\ Carried(inv[j].case, NextNode(j), inv[j].vals)'
             /\ inv'[j].at = "answered" => keys'[inv'[j].case] # None
  <2>1. CASE j = i
    <3>1. inv'[j] = r /\ r # None
      BY <1>1, <1>3, <2>1 DEF Running
    <3>2. NextNode(j)' = n
      BY <3>1 DEF NextNode
    <3> QED BY <3>1, <3>2 DEF Carried
  <2>2. CASE j # i
    <3>1. inv'[j] = inv[j] /\ Running(j)
      BY <1>1, <1>3, <2>2 DEF Running
    <3>2. PICK c \in Cases, m \in Nodes \cup {"begin", "end"}, v \in State :
             c = inv[j].case /\ m = NextNode(j) /\ v = inv[j].vals
      BY <3>1, <1>1 DEF Invocation, Running, NextNode, Nodes
    <3>3. Carried(c, m, v) /\ (inv[j].at = "answered" => keys[c] # None)
      BY <3>1, <3>2 DEF WorkflowInv, InvocationsCarried
    <3>4. Carried(c, m, v)'
      BY <3>3, CarriedStays
    <3>5. NextNode(j)' = m
      BY <3>1, <3>2 DEF NextNode
    <3>6. inv'[j].at = "answered" => keys'[c] # None
      BY <3>1, <3>3 DEF Grow
    <3> QED BY <3>1, <3>2, <3>4, <3>5, <3>6 DEF Carried
  <2> QED BY <2>1, <2>2
<1> QED BY <1>2, <1>3 DEF InvocationsCarried

(* The requests of others do not notice.                                   *)
LEMMA RequestsKept ==
  ASSUME WorkflowInv, Grow, NEW i \in Invs, NEW r, inv' = [inv EXCEPT ![i] = r],
         Running(i) => inv[i].at # "await", UNCHANGED net
  PROVE  /\ RequestsApproved'
         /\ net' \subseteq Request
         /\ \A q \in net' : q.inv # None => inv'[q.inv] # None /\ inv'[q.inv].at = "await"
<1>1. ASSUME NEW q \in net, q.inv # None
      PROVE  inv'[q.inv] = inv[q.inv] /\ inv[q.inv] # None /\ inv[q.inv].at = "await"
  <2>1. q.inv \in Invs /\ inv[q.inv] # None /\ inv[q.inv].at = "await"
    BY <1>1 DEF WorkflowInv, TypeOK, Request
  <2>2. q.inv # i
    BY <2>1 DEF Running
  <2> QED BY <2>1, <2>2 DEF WorkflowInv, TypeOK
<1> QED BY <1>1 DEF WorkflowInv, TypeOK, RequestsApproved, Grow

(* An invocation that was waiting is gone, and its request is nobody's.    *)
LEMMA RequestsOrphaned ==
  ASSUME WorkflowInv, Grow, NEW i \in Invs, inv' = [inv EXCEPT ![i] = None],
         net' = Orphaned(i)
  PROVE  /\ RequestsApproved'
         /\ net' \subseteq Request
         /\ \A q \in net' : q.inv # None => inv'[q.inv] # None /\ inv'[q.inv].at = "await"
<1>1. i # None
  BY WorkflowAssumption
<1>2. net \subseteq Request
  BY DEF WorkflowInv, TypeOK
<1>3. ASSUME NEW q \in net'
      PROVE  \E r \in net : /\ q.case = r.case /\ q.transaction = r.transaction
                            /\ q \in Request
                            /\ q.inv # None => q = r /\ r.inv # i
  <2>1. PICK r \in net : q = IF r.inv = i THEN [r EXCEPT !.inv = None] ELSE r
    BY DEF Orphaned
  <2>2. CASE r.inv = i
    BY <2>1, <2>2, <1>2 DEF Request
  <2>3. CASE r.inv # i
    BY <2>1, <2>3, <1>2
  <2> QED BY <2>2, <2>3
<1>4. net' \subseteq Request
  BY <1>3
<1>5. ASSUME NEW q \in net', q.inv # None
      PROVE  /\ inv'[q.inv] # None /\ inv'[q.inv].at = "await"
             /\ inv'[q.inv].case = q.case
             /\ \A s \in net' : q.inv = s.inv => q = s
  <2>1. q \in net /\ q.inv # i /\ q.inv \in Invs
    BY <1>3, <1>5, <1>2 DEF Request
  <2>2. inv'[q.inv] = inv[q.inv]
    BY <2>1 DEF WorkflowInv, TypeOK
  <2>3. inv[q.inv] # None /\ inv[q.inv].at = "await" /\ inv[q.inv].case = q.case
    BY <2>1, <1>5 DEF WorkflowInv, TypeOK, RequestsApproved
  <2>4. ASSUME NEW s \in net', q.inv = s.inv
        PROVE  q = s
    <3>1. s \in net
      BY <1>3, <1>5, <2>4
    <3> QED BY <3>1, <2>1, <2>4, <1>5 DEF WorkflowInv, RequestsApproved
  <2> QED BY <2>2, <2>3, <2>4
<1>6. ASSUME NEW q \in net'
      PROVE  <<q.case, q.transaction>> \in approved'
  <2>1. PICK r \in net : q.case = r.case /\ q.transaction = r.transaction
    BY <1>3
  <2> QED BY <2>1 DEF WorkflowInv, RequestsApproved, Grow
<1> QED BY <1>4, <1>5, <1>6 DEF RequestsApproved

LEMMA BooksKept ==
  ASSUME WorkflowInv, Grow, UNCHANGED <<journal, keys>>
  PROVE  BooksByKey'
BY DEF WorkflowInv, BooksByKey, Entries, Grow

LEMMA IndexKept ==
  ASSUME WorkflowInv, Grow, UNCHANGED caseIndex
  PROVE  IndexBacked'
<1>1. ASSUME NEW c \in Cases, caseIndex'[c] = "closed_matched"
      PROVE  \E l \in Ledgers : claims'[l] = c
  BY <1>1, WorkflowAssumption DEF WorkflowInv, IndexBacked, Grow
<1>2. ASSUME NEW c \in Cases, caseIndex'[c] = "posted"
      PROVE  keys'[c] # None
  BY <1>2 DEF WorkflowInv, IndexBacked, Grow
<1> QED BY <1>1, <1>2 DEF IndexBacked

(* update_case_index with a status that is backed by the tables.           *)
LEMMA IndexUpdated ==
  ASSUME WorkflowInv, Grow, NEW c \in Cases, NEW s \in Status, update_case_index(c, s),
         s = "posted" => keys'[c] # None,
         s = "closed_matched" => \E l \in Ledgers : claims'[l] = c
  PROVE  /\ IndexBacked'
         /\ caseIndex' \in [Cases -> Status \cup {None}]
<1>1. caseIndex \in [Cases -> Status \cup {None}]
  BY DEF WorkflowInv, TypeOK
<1>2. caseIndex' = [caseIndex EXCEPT ![c] = s]
  BY DEF update_case_index
<1>3. ASSUME NEW d \in Cases, caseIndex'[d] = "closed_matched"
      PROVE  \E l \in Ledgers : claims'[l] = d
  BY <1>1, <1>2, <1>3, WorkflowAssumption DEF WorkflowInv, IndexBacked, Grow
<1>4. ASSUME NEW d \in Cases, caseIndex'[d] = "posted"
      PROVE  keys'[d] # None
  BY <1>1, <1>2, <1>4 DEF WorkflowInv, IndexBacked, Grow
<1> QED BY <1>1, <1>2, <1>3, <1>4 DEF IndexBacked

-----------------------------------------------------------------------------
(* The nodes                                                               *)

(* What is common to them: one invocation goes on to node n with values v. *)
LEMMA AdvanceInv ==
  ASSUME WorkflowInv, Grow, NEW i \in Invs, Running(i), inv[i].at # "await",
         NEW c \in Cases, c = inv[i].case,
         NEW n \in Nodes \cup {"end"}, NEW v \in State, Advance(i, n, v),
         Carried(c, n, v)', UNCHANGED <<ckpt, journal, keys, net, stuck, last>>,
         claims' \in [Ledgers -> Cases \cup {None}], approved' \subseteq Cases \X Txn,
         IndexBacked', caseIndex' \in [Cases -> Status \cup {None}]
  PROVE  WorkflowInv'
<1>1. inv \in [Invs -> Invocation \cup {None}]
  BY DEF WorkflowInv, TypeOK
<1>2. PICK r \in Invocation : /\ r = [inv[i] EXCEPT !.at = n, !.vals = v, !.resume = None]
                              /\ r.case = c /\ r.at = n /\ r.vals = v
  <2> DEFINE moved == [inv[i] EXCEPT !.at = n, !.vals = v, !.resume = None]
  <2>1. inv[i] \in Invocation
    BY <1>1 DEF Running
  <2>2. moved \in Invocation
    BY <2>1 DEF Invocation
  <2>3. moved.case = c /\ moved.at = n /\ moved.vals = v
    BY <2>1 DEF Invocation
  <2> QED BY <2>2, <2>3
<1>3. inv' = [inv EXCEPT ![i] = r]
  BY <1>1, <1>2 DEF Advance
<1>4. n \notin {"await", "answered"}
  BY DEF Nodes
<1>5. inv' \in [Invs -> Invocation \cup {None}] /\ InvocationsCarried'
  <2>1. n = IF r.at \in {"await", "answered"} THEN "write_back" ELSE r.at
    BY <1>2, <1>4
  <2>2. Carried(r.case, n, r.vals)' /\ (r.at = "answered" => keys'[r.case] # None)
    BY <1>2, <1>4 DEF Carried
  <2> QED BY <2>1, <2>2, <1>3, InvocationMoves
<1>6. /\ RequestsApproved'
      /\ net' \subseteq Request
      /\ \A q \in net' : q.inv # None => inv'[q.inv] # None /\ inv'[q.inv].at = "await"
  BY <1>3, RequestsKept
<1>7. CheckpointsCarried' /\ BooksByKey'
  BY CheckpointsKept, BooksKept
<1>8. TypeOK'
  BY <1>5, <1>6 DEF WorkflowInv, TypeOK
<1> QED BY <1>5, <1>6, <1>7, <1>8 DEF WorkflowInv

(* Where an invocation stands, and what it carries there.                  *)
LEMMA Standing ==
  ASSUME WorkflowInv, NEW i \in Invs, Running(i)
  PROVE  \E c \in Cases, v \in State :
           /\ c = inv[i].case /\ v = inv[i].vals
           /\ \A n : n = NextNode(i) => Carried(c, n, v)
           /\ inv[i].at = "answered" => keys[c] # None
<1>1. inv[i] \in Invocation
  BY DEF WorkflowInv, TypeOK, Running
<1>2. PICK c \in Cases, v \in State : c = inv[i].case /\ v = inv[i].vals
  BY <1>1 DEF Invocation
<1>3. Carried(c, NextNode(i), v) /\ (inv[i].at = "answered" => keys[c] # None)
  BY <1>2 DEF WorkflowInv, InvocationsCarried
<1> QED BY <1>2, <1>3

(* A node that leaves the tables and the values alone.                     *)
LEMMA PassOnInv ==
  ASSUME WorkflowInv, NEW i \in Invs,
         NEW m, NEW n, At(i, m), Advance(i, n, inv[i].vals),
         \/ m = "ingestion" /\ n = "matcher"
         \/ m = "investigator" /\ n = "prepare_review"
         \/ m = "prepare_review" /\ n = "human_review",
         UNCHANGED <<ckpt, claims, stuck, net, journal, keys, approved, last>>,
         IndexBacked', caseIndex' \in [Cases -> Status \cup {None}]
  PROVE  WorkflowInv'
<1>1. Running(i) /\ inv[i].at = m /\ NextNode(i) = m /\ inv[i].at # "await"
  BY DEF At, NextNode
<1>2. PICK c \in Cases, v \in State :
        c = inv[i].case /\ v = inv[i].vals /\ \A l : l = NextNode(i) => Carried(c, l, v)
  BY <1>1, Standing
<1>3. Grow
  BY UnchangedGrow
<1>4. Carried(c, n, v)
  BY <1>1, <1>2 DEF Carried
<1>5. Carried(c, n, v)'
  BY <1>3, <1>4, CarriedStays
<1>6. n \in Nodes \cup {"end"}
  BY DEF Nodes
<1>7. Advance(i, n, v)
  BY <1>2
<1>8. claims' \in [Ledgers -> Cases \cup {None}] /\ approved' \subseteq Cases \X Txn
  BY DEF WorkflowInv, TypeOK
<1> QED BY <1>1, <1>2, <1>3, <1>5, <1>6, <1>7, <1>8, AdvanceInv

LEMMA ingestion_nodeInv ==
  ASSUME WorkflowInv, NEW i \in Invs, ingestion_node(i)
  PROVE  WorkflowInv'
<1> USE DEF ingestion_node, graphVars, erpVars, histVars
<1>1. Grow
  BY UnchangedGrow
<1>2. IndexBacked' /\ caseIndex' \in [Cases -> Status \cup {None}]
  BY <1>1, IndexKept DEF WorkflowInv, TypeOK
<1> QED BY <1>2, PassOnInv

LEMMA investigator_nodeInv ==
  ASSUME WorkflowInv, NEW i \in Invs, investigator_node(i)
  PROVE  WorkflowInv'
<1> USE DEF investigator_node, graphVars, erpVars, histVars
<1>1. Grow
  BY UnchangedGrow
<1>2. IndexBacked' /\ caseIndex' \in [Cases -> Status \cup {None}]
  BY <1>1, IndexKept DEF WorkflowInv, TypeOK
<1> QED BY <1>2, PassOnInv

LEMMA escalate_nodeInv ==
  ASSUME WorkflowInv, NEW i \in Invs, escalate_node(i)
  PROVE  WorkflowInv'
<1> USE DEF escalate_node, graphVars, erpVars, histVars
<1>1. Grow
  BY UnchangedGrow
<1>2. IndexBacked' /\ caseIndex' \in [Cases -> Status \cup {None}]
  BY <1>1, IndexKept DEF WorkflowInv, TypeOK
<1>3. PICK c \in Cases, v \in State :
        c = inv[i].case /\ v = inv[i].vals /\ \A l : l = NextNode(i) => Carried(c, l, v)
  BY Standing DEF At
<1>4. Carried(c, "escalate", v)
  BY <1>3 DEF At, NextNode
<1>5. PICK w \in State : w = [v EXCEPT !.case_status = "escalated_unresolved"]
  BY DEF State
<1>6. Carried(c, "end", w)'
  BY <1>1, <1>4, <1>5 DEF Carried, State, Grow
<1>7. claims' \in [Ledgers -> Cases \cup {None}] /\ approved' \subseteq Cases \X Txn
  BY DEF WorkflowInv, TypeOK
<1>8. Running(i) /\ inv[i].at # "await" /\ Advance(i, "end", w)
  BY <1>3, <1>5 DEF At
<1> QED BY <1>1, <1>2, <1>3, <1>6, <1>7, <1>8, AdvanceInv

LEMMA prepare_review_nodeInv ==
  ASSUME WorkflowInv, NEW i \in Invs, prepare_review_node(i)
  PROVE  WorkflowInv'
<1> USE DEF prepare_review_node, graphVars, erpVars, histVars
<1>1. Grow
  BY UnchangedGrow
<1>2. inv[i].case \in Cases
  BY Standing DEF At
<1>3. IndexBacked' /\ caseIndex' \in [Cases -> Status \cup {None}]
  BY <1>1, <1>2, IndexUpdated DEF Status
<1> QED BY <1>3, PassOnInv

(* Either the claim is new, and the case closes with it, or the case is an *)
(* exception whatever it was before.                                       *)
LEMMA matcher_nodeInv ==
  ASSUME WorkflowInv, NEW i \in Invs, matcher_node(i)
  PROVE  WorkflowInv'
<1> USE DEF graphVars, erpVars, histVars
<1>1. PICK c \in Cases, v \in State :
        c = inv[i].case /\ v = inv[i].vals /\ \A l : l = NextNode(i) => Carried(c, l, v)
  BY Standing DEF matcher_node, At
<1>2. Carried(c, "matcher", v) /\ Running(i) /\ inv[i].at # "await"
  BY <1>1 DEF matcher_node, At, NextNode
<1>3. /\ claims \in [Ledgers -> Cases \cup {None}]
      /\ caseIndex' \in [Cases -> Status \cup {None}]
      /\ approved' \subseteq Cases \X Txn
  BY DEF matcher_node, WorkflowInv, TypeOK
<1>4. CASE /\ Claimable(v.hit)
           /\ claims' = [claims EXCEPT ![v.hit] = c]
           /\ Advance(i, "close_case", [v EXCEPT !.match_status = "matched"])
  <2>1. v.hit \in Ledgers /\ claims[v.hit] = None /\ v.hit # None
    BY <1>4 DEF Claimable, State
  <2>2. Grow
    BY <1>3, <1>4, <2>1 DEF Grow, matcher_node
  <2>3. PICK w \in State : w = [v EXCEPT !.match_status = "matched"]
    BY DEF State
  <2>4. claims' \in [Ledgers -> Cases \cup {None}] /\ claims'[v.hit] = c
    BY <1>3, <1>4, <2>1
  <2>5. Carried(c, "close_case", w)'
    BY <1>2, <2>1, <2>2, <2>3, <2>4 DEF Carried, State, Grow
  <2>6. IndexBacked'
    BY <2>2, IndexKept DEF matcher_node
  <2>7. "close_case" \in Nodes \cup {"end"}
    BY DEF Nodes
  <2> QED BY <1>1, <1>2, <1>3, <1>4, <2>2, <2>3, <2>4, <2>5, <2>6, <2>7, AdvanceInv
             DEF matcher_node
<1>5. CASE /\ Advance(i, "investigator", [v EXCEPT !.match_status = "exception"])
           /\ UNCHANGED claims
  <2>1. Grow
    BY <1>5, UnchangedGrow DEF matcher_node
  <2>2. PICK w \in State : w = [v EXCEPT !.match_status = "exception"]
    BY DEF State
  <2>3. Carried(c, "investigator", w)'
    BY <1>2, <2>1, <2>2 DEF Carried, State, Grow
  <2>4. IndexBacked'
    BY <2>1, IndexKept DEF matcher_node
  <2>5. "investigator" \in Nodes \cup {"end"}
    BY DEF Nodes
  <2> QED BY <1>1, <1>2, <1>3, <1>5, <2>1, <2>2, <2>3, <2>4, <2>5, AdvanceInv
             DEF matcher_node
<1> QED BY <1>1, <1>4, <1>5 DEF matcher_node

(* The claim that let the case in here is still its own.                   *)
LEMMA close_case_nodeInv ==
  ASSUME WorkflowInv, NEW i \in Invs, close_case_node(i)
  PROVE  WorkflowInv'
<1> USE DEF close_case_node, graphVars, erpVars, histVars
<1>1. Grow
  BY UnchangedGrow
<1>2. PICK c \in Cases, v \in State :
        c = inv[i].case /\ v = inv[i].vals /\ \A l : l = NextNode(i) => Carried(c, l, v)
  BY Standing DEF At
<1>3. Carried(c, "close_case", v) /\ Running(i) /\ inv[i].at # "await"
  BY <1>2 DEF At, NextNode
<1>4. PICK w \in State : w = [v EXCEPT !.case_status = "closed_matched"]
  BY DEF State
<1>5. v.hit \in Ledgers /\ claims[v.hit] = c /\ v.match_status = "matched"
  BY <1>3 DEF Carried, State
<1>6. Carried(c, "end", w)'
  BY <1>1, <1>3, <1>4, <1>5 DEF Carried, State
<1>7. IndexBacked' /\ caseIndex' \in [Cases -> Status \cup {None}]
  BY <1>1, <1>2, <1>5, IndexUpdated DEF Status
<1>8. claims' \in [Ledgers -> Cases \cup {None}] /\ approved' \subseteq Cases \X Txn
  BY DEF WorkflowInv, TypeOK
<1> QED BY <1>1, <1>2, <1>3, <1>4, <1>6, <1>7, <1>8, AdvanceInv

(* The only node that approves; what it approves is what it carries on.    *)
LEMMA human_review_nodeInv ==
  ASSUME WorkflowInv, NEW i \in Invs, human_review_node(i)
  PROVE  WorkflowInv'
<1> USE DEF human_review_node, graphVars, erpVars, histVars
<1>1. PICK c \in Cases, v \in State :
        c = inv[i].case /\ v = inv[i].vals /\ \A l : l = NextNode(i) => Carried(c, l, v)
  BY Standing DEF At
<1>2. Carried(c, "human_review", v) /\ Running(i) /\ inv[i].at # "await"
  BY <1>1 DEF At, NextNode
<1>3. inv[i].resume \in Decision
  BY <1>2 DEF WorkflowInv, TypeOK, Invocation, Running
<1>4. PICK d \in Decision : d = inv[i].resume
  BY <1>3
<1>5. PICK w \in State : w = [v EXCEPT !.last_decision = d]
  BY DEF State
<1>6. /\ approved \subseteq approved'
      /\ approved' \subseteq Cases \X Txn
      /\ d = "approve" => <<c, v.transaction>> \in approved'
  <2>1. v.transaction \in Txn /\ approved \subseteq Cases \X Txn
    BY DEF WorkflowInv, TypeOK, State
  <2>2. approved' = IF d = "approve" THEN approved \cup {<<c, v.transaction>>} ELSE approved
    BY <1>1, <1>4
  <2> QED BY <2>1, <2>2
<1>7. Grow
  BY <1>6 DEF Grow
<1>8. Carried(c, "apply_decision", w)'
  BY <1>2, <1>5, <1>6 DEF Carried, State
<1>9. IndexBacked' /\ caseIndex' \in [Cases -> Status \cup {None}]
  BY <1>7, IndexKept DEF WorkflowInv, TypeOK
<1>10. claims' \in [Ledgers -> Cases \cup {None}]
  BY DEF WorkflowInv, TypeOK
<1>11. "apply_decision" \in Nodes \cup {"end"} /\ Advance(i, "apply_decision", w)
  BY <1>1, <1>4, <1>5 DEF Nodes
<1> QED BY <1>1, <1>2, <1>5, <1>6, <1>7, <1>8, <1>9, <1>10, <1>11, AdvanceInv

(* Approved, sent round again, or given up at the cap.                     *)
LEMMA apply_decision_nodeInv ==
  ASSUME WorkflowInv, NEW i \in Invs, apply_decision_node(i)
  PROVE  WorkflowInv'
<1> USE DEF graphVars, erpVars, histVars
<1>1. PICK c \in Cases, v \in State :
        c = inv[i].case /\ v = inv[i].vals /\ \A l : l = NextNode(i) => Carried(c, l, v)
  BY Standing DEF apply_decision_node, At
<1>2. Carried(c, "apply_decision", v) /\ Running(i) /\ inv[i].at # "await"
  BY <1>1 DEF apply_decision_node, At, NextNode
<1>3. Grow
  BY UnchangedGrow DEF apply_decision_node
<1>4. claims' \in [Ledgers -> Cases \cup {None}] /\ approved' \subseteq Cases \X Txn
  BY DEF apply_decision_node, WorkflowInv, TypeOK
<1>5. PICK w \in State : w = [v EXCEPT !.rejection_cycle_count = v.rejection_cycle_count + 1]
  <2>1. v.rejection_cycle_count + 1 \in 0 .. MAX_REINVESTIGATION_CYCLES + 1
    BY <1>2 DEF Carried, State, MAX_REINVESTIGATION_CYCLES
  <2> QED BY <2>1 DEF State
<1>6. CASE /\ v.last_decision = "approve"
           /\ update_case_index(c, "approved_pending_writeback")
           /\ Advance(i, "write_back", v)
  <2>1. Carried(c, "write_back", v)'
    BY <1>2, <1>3, <1>6 DEF Carried, Grow
  <2>2. IndexBacked' /\ caseIndex' \in [Cases -> Status \cup {None}]
    BY <1>3, <1>6, IndexUpdated DEF Status
  <2>3. "write_back" \in Nodes \cup {"end"}
    BY DEF Nodes
  <2> QED BY <1>1, <1>2, <1>3, <1>4, <1>6, <2>1, <2>2, <2>3, AdvanceInv
             DEF apply_decision_node
<1>7. CASE /\ v.rejection_cycle_count + 1 <= MAX_REINVESTIGATION_CYCLES
           /\ update_case_index(c, "pending_review")
           /\ Advance(i, "investigator", w)
  <2>1. Carried(c, "investigator", w)'
    BY <1>2, <1>3, <1>5, <1>7 DEF Carried, State, Grow, MAX_REINVESTIGATION_CYCLES
  <2>2. IndexBacked' /\ caseIndex' \in [Cases -> Status \cup {None}]
    BY <1>3, <1>7, IndexUpdated DEF Status
  <2>3. "investigator" \in Nodes \cup {"end"}
    BY DEF Nodes
  <2> QED BY <1>1, <1>2, <1>3, <1>4, <1>7, <2>1, <2>2, <2>3, AdvanceInv
             DEF apply_decision_node
<1>8. CASE /\ update_case_index(c, "escalated_unresolved")
           /\ Advance(i, "escalate", w)
  <2>1. Carried(c, "escalate", w)'
    BY <1>2, <1>3, <1>5 DEF Carried, State, Grow
  <2>2. IndexBacked' /\ caseIndex' \in [Cases -> Status \cup {None}]
    BY <1>3, <1>8, IndexUpdated DEF Status
  <2>3. "escalate" \in Nodes \cup {"end"}
    BY DEF Nodes
  <2> QED BY <1>1, <1>2, <1>3, <1>4, <1>8, <2>1, <2>2, <2>3, AdvanceInv
             DEF apply_decision_node
<1> QED BY <1>1, <1>5, <1>6, <1>7, <1>8 DEF apply_decision_node

(* The request that goes out is for what was approved.                     *)
LEMMA write_back_nodeInv ==
  ASSUME WorkflowInv, NEW i \in Invs, write_back_node(i)
  PROVE  WorkflowInv'
<1> USE DEF write_back_node, graphVars, erpVars, histVars
<1>1. Grow
  BY UnchangedGrow
<1>2. PICK c \in Cases, v \in State :
        c = inv[i].case /\ v = inv[i].vals /\ \A l : l = NextNode(i) => Carried(c, l, v)
  BY Standing DEF At
<1>3. Carried(c, "write_back", v) /\ inv[i] \in Invocation /\ inv[i].at = "write_back"
  BY <1>2 DEF At, NextNode, Running, WorkflowInv, TypeOK
<1>4. PICK r \in Invocation : /\ r = [inv[i] EXCEPT !.at = "await"]
                              /\ r.case = c /\ r.at = "await" /\ r.vals = v
  <2> DEFINE moved == [inv[i] EXCEPT !.at = "await"]
  <2>1. moved \in Invocation /\ moved.case = c /\ moved.at = "await" /\ moved.vals = v
    BY <1>2, <1>3 DEF Invocation
  <2> QED BY <2>1
<1>5. inv' = [inv EXCEPT ![i] = r]
  BY <1>4 DEF WorkflowInv, TypeOK
<1>6. inv' \in [Invs -> Invocation \cup {None}] /\ InvocationsCarried'
  <2>1. Carried(c, "write_back", v)'
    BY <1>1, <1>3, CarriedStays
  <2>2. Carried(r.case, "write_back", r.vals)'
    BY <1>4, <2>1 DEF Carried
  <2> QED BY <1>1, <1>4, <1>5, <2>2, InvocationMoves
<1>7. PICK q \in Request :
        /\ q = [inv |-> i, case |-> c, transaction |-> v.transaction]
        /\ net' = net \cup {q}
  <2>1. [inv |-> i, case |-> c, transaction |-> v.transaction] \in Request
    BY DEF Request, State
  <2> QED BY <1>2, <2>1
<1>8. q.inv = i /\ q.case = c /\ <<q.case, q.transaction>> \in approved
  BY <1>3, <1>7 DEF Carried
<1>9. inv \in [Invs -> Invocation \cup {None}] /\ None \notin Invocation
  BY WorkflowAssumption DEF WorkflowInv, TypeOK
<1>10. ASSUME NEW s \in net, s.inv # None
       PROVE  s.inv # i /\ inv'[s.inv] = inv[s.inv] /\ inv[s.inv] # None
              /\ inv[s.inv].at = "await" /\ inv[s.inv].case = s.case
  <2>1. s.inv \in Invs /\ inv[s.inv] # None /\ inv[s.inv].at = "await" /\ inv[s.inv].case = s.case
    BY <1>10 DEF WorkflowInv, TypeOK, Request, RequestsApproved
  <2> QED BY <1>3, <1>5, <1>9, <2>1
<1>11. inv'[i] = r /\ r # None
  BY <1>4, <1>5, <1>9
<1>12. RequestsApproved'
  <2>1. ASSUME NEW s \in net'
        PROVE  /\ <<s.case, s.transaction>> \in approved'
               /\ s.inv # None => inv'[s.inv].case = s.case
    BY <1>4, <1>7, <1>8, <1>10, <1>11 DEF WorkflowInv, RequestsApproved
  <2>2. ASSUME NEW s \in net', NEW t \in net', s.inv = t.inv, s.inv # None
        PROVE  s = t
    BY <1>7, <1>8, <1>10, <2>2 DEF WorkflowInv, RequestsApproved
  <2> QED BY <2>1, <2>2 DEF RequestsApproved
<1>13. TypeOK'
  BY <1>4, <1>6, <1>7, <1>8, <1>10, <1>11 DEF WorkflowInv, TypeOK
<1>14. CheckpointsCarried' /\ BooksByKey' /\ IndexBacked'
  BY <1>1, CheckpointsKept, BooksKept, IndexKept
<1> QED BY <1>6, <1>12, <1>13, <1>14 DEF WorkflowInv

(* A 201 is in, so the ERP knows the key.                                  *)
LEMMA PostedInv ==
  ASSUME WorkflowInv, NEW i \in Invs, Posted(i)
  PROVE  WorkflowInv'
<1> USE DEF Posted, graphVars, erpVars, histVars
<1>1. Grow
  BY UnchangedGrow
<1>2. PICK c \in Cases, v \in State :
        /\ c = inv[i].case /\ v = inv[i].vals
        /\ \A l : l = NextNode(i) => Carried(c, l, v)
        /\ inv[i].at = "answered" => keys[c] # None
  BY Standing DEF At
<1>3. /\ Carried(c, "write_back", v) /\ keys[c] # None
      /\ Running(i) /\ inv[i].at # "await"
  BY <1>2 DEF At, NextNode
<1>4. PICK w \in State : w = [v EXCEPT !.case_status = "posted"]
  BY DEF State
<1>5. Carried(c, "end", w)'
  BY <1>1, <1>3, <1>4 DEF Carried, State
<1>6. IndexBacked' /\ caseIndex' \in [Cases -> Status \cup {None}]
  BY <1>1, <1>2, <1>3, IndexUpdated DEF Status
<1>7. claims' \in [Ledgers -> Cases \cup {None}] /\ approved' \subseteq Cases \X Txn
  BY DEF WorkflowInv, TypeOK
<1> QED BY <1>1, <1>2, <1>3, <1>4, <1>5, <1>6, <1>7, AdvanceInv

-----------------------------------------------------------------------------
(* Entry points                                                            *)

(* An invocation starts: nothing else moves.                               *)
LEMMA EnteredInv ==
  ASSUME WorkflowInv, NEW i \in Invs, ~Running(i), NEW r \in Invocation,
         inv' = [inv EXCEPT ![i] = r], r.at \notin {"await", "answered"},
         Carried(r.case, r.at, r.vals), last' \in [Cases -> Decision \cup {None}],
         UNCHANGED <<ckpt, caseIndex, claims, stuck, net, journal, keys, approved>>
  PROVE  WorkflowInv'
<1>1. Grow
  BY UnchangedGrow
<1>2. PICK c \in Cases, v \in State : c = r.case /\ v = r.vals
  BY DEF Invocation
<1>3. Carried(c, r.at, v)'
  BY <1>1, <1>2, CarriedStays
<1>4. inv' \in [Invs -> Invocation \cup {None}] /\ InvocationsCarried'
  <2>1. Carried(r.case, r.at, r.vals)'
    BY <1>2, <1>3 DEF Carried
  <2> QED BY <1>1, <1>2, <2>1, InvocationMoves
<1>5. /\ RequestsApproved'
      /\ \A q \in net' : q.inv # None => inv'[q.inv] # None /\ inv'[q.inv].at = "await"
  BY <1>1, RequestsKept
<1>6. CheckpointsCarried' /\ BooksByKey' /\ IndexBacked'
  BY <1>1, CheckpointsKept, BooksKept, IndexKept
<1>7. TypeOK'
  BY <1>4, <1>5 DEF WorkflowInv, TypeOK
<1> QED BY <1>4, <1>5, <1>6, <1>7 DEF WorkflowInv

LEMMA EnterInv ==
  ASSUME WorkflowInv, NEW i \in Invs, NEW c \in Cases, NEW kind \in {"start", "ingest"},
         NEW t \in Txn, NEW h \in Ledgers \cup {None}, Enter(i, c, kind, t, h)
  PROVE  WorkflowInv'
<1> DEFINE r == [case |-> c, kind |-> kind, vals |-> Input(t, h),
                 at |-> "begin", resume |-> None]
<1>1. Input(t, h) \in State
  BY DEF Input, State, MAX_REINVESTIGATION_CYCLES
<1>2. r \in Invocation
  BY <1>1 DEF Invocation
<1>3. Carried(c, "begin", Input(t, h))
  BY WorkflowAssumption DEF Carried, Input, MAX_REINVESTIGATION_CYCLES
<1>4. last' \in [Cases -> Decision \cup {None}]
  BY DEF Enter, histVars, WorkflowInv, TypeOK
<1> QED BY <1>2, <1>3, <1>4, EnteredInv DEF Enter, graphVars, erpVars, histVars

(* The input is merged into values that are those of a checkpoint: at the  *)
(* first node they owe nothing but what is posted.                         *)
LEMMA BeginInv ==
  ASSUME WorkflowInv, NEW i \in Invs, Begin(i)
  PROVE  WorkflowInv'
<1> USE DEF graphVars, erpVars, histVars
<1>1. Grow
  BY UnchangedGrow DEF Begin
<1>2. PICK c \in Cases, v \in State :
        c = inv[i].case /\ v = inv[i].vals /\ \A l : l = NextNode(i) => Carried(c, l, v)
  BY Standing DEF Begin
<1>3. Carried(c, "begin", v) /\ Running(i) /\ inv[i].at # "await"
  BY <1>2 DEF Begin, NextNode
<1>4. PICK old \in State : /\ old = IF ckpt[c] = None THEN v ELSE ckpt[c].vals
                           /\ old.case_status = "posted" => keys[c] # None
  <2>1. CASE ckpt[c] = None
    BY <1>3, <2>1 DEF Carried
  <2>2. CASE ckpt[c] # None
    <3>1. ckpt[c].vals \in State
      BY <2>2 DEF WorkflowInv, TypeOK, Checkpoint
    <3> QED BY <2>2, <3>1 DEF WorkflowInv, CheckpointsCarried, Carried
  <2> QED BY <2>1, <2>2
<1>5. PICK w \in State : w = [old EXCEPT !.transaction = v.transaction, !.hit = v.hit,
                                         !.rejection_cycle_count = 0]
  <2>1. v.transaction \in Txn /\ v.hit \in Ledgers \cup {None}
    BY DEF State
  <2>2. 0 \in 0 .. MAX_REINVESTIGATION_CYCLES + 1
    BY DEF MAX_REINVESTIGATION_CYCLES
  <2>3. [old EXCEPT !.transaction = v.transaction, !.hit = v.hit,
                    !.rejection_cycle_count = 0] \in State
    BY <2>1, <2>2 DEF State
  <2> QED BY <2>3
<1>6. Carried(c, "ingestion", w)'
  BY <1>1, <1>4, <1>5 DEF Carried, State, Grow, MAX_REINVESTIGATION_CYCLES
<1>7. Advance(i, "ingestion", w)
  BY <1>2, <1>4, <1>5 DEF Begin
<1>8. IndexBacked' /\ caseIndex' \in [Cases -> Status \cup {None}]
  BY <1>1, <1>2, IndexUpdated DEF Begin, Status
<1>9. claims' \in [Ledgers -> Cases \cup {None}] /\ approved' \subseteq Cases \X Txn
  BY DEF Begin, WorkflowInv, TypeOK
<1>10. "ingestion" \in Nodes \cup {"end"}
  BY DEF Nodes
<1> QED BY <1>1, <1>2, <1>3, <1>6, <1>7, <1>8, <1>9, <1>10, AdvanceInv DEF Begin

LEMMA review_caseInv ==
  ASSUME WorkflowInv, NEW i \in Invs, NEW c \in Cases, NEW d \in Decision,
         review_case(i, c, d)
  PROVE  WorkflowInv'
<1> USE DEF review_case, graphVars, erpVars, histVars
<1> DEFINE r == [case |-> c, kind |-> "resume", vals |-> ckpt[c].vals,
                 at |-> ckpt[c].next, resume |-> d]
<1>1. ckpt[c] \in Checkpoint
  BY DEF WorkflowInv, TypeOK
<1>2. r \in Invocation /\ ckpt[c].next \notin {"await", "answered"}
  BY <1>1 DEF Checkpoint, Invocation, Nodes
<1>3. Carried(c, ckpt[c].next, ckpt[c].vals)
  BY DEF WorkflowInv, CheckpointsCarried
<1>4. last' \in [Cases -> Decision \cup {None}]
  BY DEF WorkflowInv, TypeOK
<1> QED BY <1>2, <1>3, <1>4, EnteredInv

-----------------------------------------------------------------------------
(* Checkpoints, ends and failures                                          *)

LEMMA PersistInv ==
  ASSUME WorkflowInv, NEW i \in Invs, Persist(i)
  PROVE  WorkflowInv'
<1> USE DEF Persist, graphVars, erpVars, histVars
<1>1. Grow
  BY UnchangedGrow
<1>2. CheckpointsCarried' /\ ckpt' \in [Cases -> Checkpoint \cup {None}]
  BY <1>1, CheckpointWritten
<1>3. BooksByKey' /\ IndexBacked'
  BY <1>1, BooksKept, IndexKept
<1>4. InvocationsCarried'
  BY DEF WorkflowInv, InvocationsCarried, Running, NextNode, Carried
<1>5. RequestsApproved'
  BY DEF WorkflowInv, RequestsApproved
<1>6. TypeOK'
  BY <1>2 DEF WorkflowInv, TypeOK
<1> QED BY <1>2, <1>3, <1>4, <1>5, <1>6 DEF WorkflowInv

(* An invocation is gone, with or without a last checkpoint.               *)
LEMMA GoneInv ==
  ASSUME WorkflowInv, NEW i \in Invs, Grow, inv' = [inv EXCEPT ![i] = None],
         \/ net' = Orphaned(i)
         \/ UNCHANGED net /\ (Running(i) => inv[i].at # "await"),
         CheckpointsCarried', ckpt' \in [Cases -> Checkpoint \cup {None}],
         IndexBacked', caseIndex' \in [Cases -> Status \cup {None}],
         UNCHANGED <<claims, stuck, journal, keys, approved, last>>
  PROVE  WorkflowInv'
<1>1. inv' \in [Invs -> Invocation \cup {None}] /\ InvocationsCarried'
  BY InvocationMoves
<1>2. /\ RequestsApproved'
      /\ net' \subseteq Request
      /\ \A q \in net' : q.inv # None => inv'[q.inv] # None /\ inv'[q.inv].at = "await"
  BY RequestsKept, RequestsOrphaned
<1>3. BooksByKey'
  BY BooksKept
<1>4. TypeOK'
  BY <1>1, <1>2 DEF WorkflowInv, TypeOK
<1> QED BY <1>1, <1>2, <1>3, <1>4 DEF WorkflowInv

LEMMA ReturnInv ==
  ASSUME WorkflowInv, NEW i \in Invs, Return(i)
  PROVE  WorkflowInv'
<1> USE DEF Return, graphVars, erpVars, histVars
<1>1. Grow
  BY UnchangedGrow
<1>2. CheckpointsCarried' /\ ckpt' \in [Cases -> Checkpoint \cup {None}]
  BY <1>1, CheckpointWritten DEF At
<1>3. IndexBacked' /\ caseIndex' \in [Cases -> Status \cup {None}]
  BY <1>1, IndexKept DEF WorkflowInv, TypeOK
<1> QED BY <1>1, <1>2, <1>3, GoneInv DEF At

LEMMA RaiseInv ==
  ASSUME WorkflowInv, NEW i \in Invs, Running(i), inv[i].at # "begin", Raised(i),
         UNCHANGED caseIndex \/ update_case_index(inv[i].case, "ingestion_failed")
  PROVE  WorkflowInv'
<1> USE DEF Raised, graphVars, erpVars, histVars
<1>1. Grow
  BY UnchangedGrow
<1>2. CheckpointsCarried' /\ ckpt' \in [Cases -> Checkpoint \cup {None}]
  BY <1>1, CheckpointWritten
<1>3. PICK c \in Cases : c = inv[i].case
  BY Standing
<1>4. IndexBacked' /\ caseIndex' \in [Cases -> Status \cup {None}]
  <2>1. CASE UNCHANGED caseIndex
    BY <1>1, <2>1, IndexKept DEF WorkflowInv, TypeOK
  <2>2. CASE update_case_index(c, "ingestion_failed")
    BY <1>1, <2>2, IndexUpdated DEF Status
  <2> QED BY <1>3, <2>1, <2>2
<1> QED BY <1>1, <1>2, <1>4, GoneInv

LEMMA DieInv ==
  ASSUME WorkflowInv, NEW i \in Invs, Die(i)
  PROVE  WorkflowInv'
<1> USE DEF Die, graphVars, erpVars, histVars
<1>1. Grow
  BY UnchangedGrow
<1>2. CheckpointsCarried' /\ ckpt' \in [Cases -> Checkpoint \cup {None}]
  BY <1>1, CheckpointsKept DEF WorkflowInv, TypeOK
<1>3. IndexBacked' /\ caseIndex' \in [Cases -> Status \cup {None}]
  BY <1>1, IndexKept DEF WorkflowInv, TypeOK
<1> QED BY <1>1, <1>2, <1>3, GoneInv

(* Both halves of the retry script.                                        *)
LEMMA SweepInv ==
  ASSUME WorkflowInv, SweepRead \/ SweepWrite
  PROVE  WorkflowInv'
<1> USE DEF SweepRead, SweepWrite, graphVars, erpVars, histVars
<1>1. Grow
  BY UnchangedGrow
<1>2. UNCHANGED <<ckpt, claims, inv, net, journal, keys, approved, last>>
  OBVIOUS
<1>3. CheckpointsCarried' /\ BooksByKey'
  BY <1>1, <1>2, CheckpointsKept, BooksKept
<1>4. InvocationsCarried'
  BY <1>2 DEF WorkflowInv, InvocationsCarried, Running, NextNode, Carried
<1>5. RequestsApproved'
  BY <1>2 DEF WorkflowInv, RequestsApproved
<1>6. caseIndex' \in [Cases -> Status \cup {None}] /\ stuck' \subseteq Cases
  BY DEF WorkflowInv, TypeOK, Status
<1>7. IndexBacked'
  <2>1. CASE UNCHANGED caseIndex
    BY <1>1, <2>1, IndexKept
  <2>2. CASE SweepWrite
    <3>1. \A c \in Cases : caseIndex'[c] \in {caseIndex[c], "ingestion_failed"}
      BY <2>2
    <3> QED BY <1>2, <3>1 DEF WorkflowInv, IndexBacked
  <2> QED BY <2>1, <2>2
<1>8. TypeOK'
  BY <1>2, <1>6 DEF WorkflowInv, TypeOK
<1> QED BY <1>3, <1>4, <1>5, <1>7, <1>8 DEF WorkflowInv

-----------------------------------------------------------------------------
(* The ERP and the network                                                 *)

(* What the ERP writes for a request: the entry of its key, there already  *)
(* or new, and nothing else.                                               *)
LEMMA ErpHandlesBooks ==
  ASSUME WorkflowInv, NEW r \in net, ErpHandles(r), UNCHANGED approved
  PROVE  /\ journal' \in [EntryIds -> Erp!Row \cup {None}]
         /\ keys' \in [Cases -> EntryIds \cup {None}]
         /\ \A c \in Cases : keys[c] # None => keys'[c] = keys[c]
         /\ keys'[r.case] # None
         /\ BooksByKey'
<1>1. PICK c \in Cases, t \in Txn : c = r.case /\ t = r.transaction
  BY DEF WorkflowInv, TypeOK, Request
<1>2. <<c, t>> \in approved
  BY <1>1 DEF WorkflowInv, RequestsApproved
<1>3. /\ journal \in [EntryIds -> Erp!Row \cup {None}]
      /\ keys \in [Cases -> EntryIds \cup {None}]
  BY DEF WorkflowInv, TypeOK
<1>4. CASE Erp!Replay(c)
  <2>1. UNCHANGED <<journal, keys>> /\ keys[c] # None
    BY <1>4 DEF Erp!Replay
  <2>2. BooksByKey'
    BY <2>1 DEF WorkflowInv, BooksByKey, Entries
  <2> QED BY <1>1, <1>3, <2>1, <2>2
<1>5. ASSUME NEW e \in EntryIds,
             Erp!Post(c, [case |-> c, amount |-> t.amount, party |-> t.party], e)
      PROVE  /\ journal' \in [EntryIds -> Erp!Row \cup {None}]
             /\ keys' \in [Cases -> EntryIds \cup {None}]
             /\ \A d \in Cases : keys[d] # None => keys'[d] = keys[d]
             /\ keys'[c] # None
             /\ BooksByKey'
  <2> DEFINE d == [case |-> c, amount |-> t.amount, party |-> t.party]
  <2>1. d \in Erp!Detail
    BY WorkflowAssumption DEF Erp!Detail, Txn
  <2>2. PICK row \in Erp!Row : row = Erp!NewRow(d, None) /\ row.detail = d
    <3>1. Erp!NewRow(d, None) \in Erp!Row /\ Erp!NewRow(d, None).detail = d
      BY <2>1 DEF Erp!NewRow, Erp!Row
    <3> QED BY <3>1
  <2>3. /\ keys[c] = None /\ journal[e] = None
        /\ journal' = [journal EXCEPT ![e] = row]
        /\ keys' = [keys EXCEPT ![c] = e]
    BY <1>5, <2>2 DEF Erp!Post
  <2>4. row # None /\ e # None
    BY WorkflowAssumption
  <2>5. /\ journal' \in [EntryIds -> Erp!Row \cup {None}]
        /\ keys' \in [Cases -> EntryIds \cup {None}]
        /\ journal'[e] = row /\ keys'[c] = e
        /\ \A f \in EntryIds \ {e} : journal'[f] = journal[f]
        /\ \A b \in Cases \ {c} : keys'[b] = keys[b]
    BY <1>3, <2>3
  <2>6. ASSUME NEW f \in Entries'
        PROVE  /\ keys'[journal'[f].detail.case] = f
               /\ <<journal'[f].detail.case, [amount |-> journal'[f].detail.amount,
                                              party |-> journal'[f].detail.party]>> \in approved'
    <3>1. CASE f = e
      <4>1. journal'[f].detail = d
        BY <2>2, <2>5, <3>1
      <4>2. [amount |-> t.amount, party |-> t.party] = t
        BY DEF Txn
      <4> QED BY <1>2, <2>5, <3>1, <4>1, <4>2
    <3>2. CASE f # e
      <4>1. f \in Entries /\ journal'[f] = journal[f]
        BY <2>5, <3>2 DEF Entries
      <4>2. keys[journal[f].detail.case] = f /\ journal[f].detail.case \in Cases
        <5>1. keys[journal[f].detail.case] = f
          BY <4>1 DEF WorkflowInv, BooksByKey
        <5>2. PICK g \in Erp!Row : g = journal[f]
          BY <4>1, <1>3 DEF Entries
        <5>3. g.detail.case \in Cases
          BY DEF Erp!Row, Erp!Detail
        <5> QED BY <5>1, <5>2, <5>3
      <4>3. f # None
        BY <4>1, WorkflowAssumption DEF Entries
      <4>4. keys'[journal[f].detail.case] = f
        BY <2>3, <2>5, <4>2, <4>3
      <4> QED BY <4>1, <4>4 DEF WorkflowInv, BooksByKey
    <3> QED BY <3>1, <3>2
  <2>7. ASSUME NEW b \in Cases, keys'[b] # None
        PROVE  journal'[keys'[b]] # None /\ journal'[keys'[b]].detail.case = b
    <3>1. CASE b = c
      BY <2>2, <2>4, <2>5, <3>1
    <3>2. CASE b # c
      <4>1. keys'[b] = keys[b] /\ journal[keys[b]] # None /\ journal[keys[b]].detail.case = b
        BY <2>5, <2>7, <3>2 DEF WorkflowInv, BooksByKey
      <4>2. keys[b] \in EntryIds /\ keys[b] # e
        BY <1>3, <2>3, <2>7, <4>1
      <4> QED BY <2>5, <4>1, <4>2
    <3> QED BY <3>1, <3>2
  <2>8. BooksByKey'
    BY <2>6, <2>7 DEF BooksByKey
  <2> QED BY <2>3, <2>4, <2>5, <2>8
<1> QED BY <1>1, <1>4, <1>5 DEF ErpHandles

LEMMA DeliverInv ==
  ASSUME WorkflowInv, NEW r \in net, Deliver(r)
  PROVE  WorkflowInv'
<1> USE DEF Deliver, graphVars, histVars
<1>1. /\ journal' \in [EntryIds -> Erp!Row \cup {None}]
      /\ keys' \in [Cases -> EntryIds \cup {None}]
      /\ \A c \in Cases : keys[c] # None => keys'[c] = keys[c]
      /\ keys'[r.case] # None
      /\ BooksByKey'
  BY ErpHandlesBooks
<1>2. Grow
  BY <1>1 DEF Grow
<1>3. CheckpointsCarried' /\ IndexBacked'
  BY <1>2, CheckpointsKept, IndexKept
<1>4. r \in Request /\ inv \in [Invs -> Invocation \cup {None}] /\ net \subseteq Request
  BY DEF WorkflowInv, TypeOK
<1>5. CASE r.inv = None
  <2>1. UNCHANGED inv
    BY <1>5
  <2>2. ASSUME NEW i \in Invs, Running(i)'
        PROVE  /\ Carried(inv[i].case, NextNode(i), inv[i].vals)'
               /\ inv'[i].at = "answered" => keys'[inv'[i].case] # None
    <3>1. PICK c \in Cases, v \in State :
            /\ c = inv[i].case /\ v = inv[i].vals
            /\ \A l : l = NextNode(i) => Carried(c, l, v)
            /\ inv[i].at = "answered" => keys[c] # None
      BY <2>1, <2>2, Standing DEF Running
    <3>2. PICK n \in Nodes \cup {"begin", "end"} : n = NextNode(i)
      BY <1>4, <2>1, <2>2 DEF NextNode, Running, Invocation, Nodes
    <3>3. Carried(c, n, v)'
      BY <1>2, <3>1, <3>2, CarriedStays
    <3>4. NextNode(i)' = n /\ inv'[i].case = c /\ inv'[i].vals = v
      BY <2>1, <3>1, <3>2 DEF NextNode
    <3> QED BY <1>2, <2>1, <3>1, <3>3, <3>4 DEF Carried, Grow
  <2>3. InvocationsCarried'
    BY <2>2 DEF InvocationsCarried
  <2>4. RequestsApproved'
    BY <2>1 DEF WorkflowInv, RequestsApproved
  <2>5. TypeOK'
    BY <1>1, <2>1 DEF WorkflowInv, TypeOK
  <2> QED BY <1>1, <1>3, <2>3, <2>4, <2>5 DEF WorkflowInv
<1>6. ASSUME NEW i \in Invs, r.inv = i
      PROVE  WorkflowInv'
  <2>1. inv[i] \in Invocation /\ inv[i].at = "await" /\ inv[i].case = r.case /\ i # None
    BY <1>4, <1>6, WorkflowAssumption DEF WorkflowInv, TypeOK, RequestsApproved
  <2>2. PICK c \in Cases, v \in State :
          c = inv[i].case /\ v = inv[i].vals /\ \A l : l = NextNode(i) => Carried(c, l, v)
    BY <2>1, Standing, WorkflowAssumption DEF Running
  <2>3. Carried(c, "write_back", v)
    BY <2>1, <2>2 DEF NextNode
  <2>4. Carried(c, "write_back", v)'
    BY <1>2, <2>3, CarriedStays
  <2>5. PICK a \in Invocation : /\ a = [inv[i] EXCEPT !.at = "answered"]
                                /\ a.case = c /\ a.at = "answered" /\ a.vals = v
    <3> DEFINE moved == [inv[i] EXCEPT !.at = "answered"]
    <3>1. moved \in Invocation /\ moved.case = c /\ moved.at = "answered" /\ moved.vals = v
      BY <2>1, <2>2 DEF Invocation
    <3> QED BY <3>1
  <2>6. inv' = [inv EXCEPT ![i] = a]
    BY <1>6, <2>1, <2>5, <1>4
  <2>7. inv' \in [Invs -> Invocation \cup {None}] /\ InvocationsCarried'
    <3>1. Carried(a.case, "write_back", a.vals)' /\ keys'[a.case] # None
      BY <1>1, <2>1, <2>2, <2>4, <2>5 DEF Carried
    <3> QED BY <1>2, <2>5, <2>6, <3>1, InvocationMoves
  <2>8. ASSUME NEW q \in net', q.inv # None
        PROVE  /\ inv'[q.inv] # None /\ inv'[q.inv].at = "await"
               /\ inv'[q.inv].case = q.case
    <3>1. q \in net /\ q # r /\ q.inv \in Invs
      BY <1>4, <2>8 DEF Request
    <3>2. q.inv # i
      BY <1>6, <2>8, <3>1 DEF WorkflowInv, RequestsApproved
    <3>3. inv'[q.inv] = inv[q.inv]
      BY <1>4, <2>6, <3>1, <3>2
    <3> QED BY <2>8, <3>1, <3>3 DEF WorkflowInv, TypeOK, RequestsApproved
  <2>9. RequestsApproved'
    BY <2>8 DEF WorkflowInv, RequestsApproved
  <2>10. TypeOK'
    BY <1>1, <2>7, <2>8 DEF WorkflowInv, TypeOK
  <2> QED BY <1>1, <1>3, <2>7, <2>9, <2>10 DEF WorkflowInv
<1> QED BY <1>4, <1>5, <1>6 DEF Request

LEMMA LoseInv ==
  ASSUME WorkflowInv, NEW r \in net, Lose(r)
  PROVE  WorkflowInv'
<1> USE DEF Lose, graphVars, erpVars, histVars
<1>1. Grow
  BY UnchangedGrow
<1>2. CheckpointsCarried' /\ BooksByKey' /\ IndexBacked'
  BY <1>1, CheckpointsKept, BooksKept, IndexKept
<1>3. InvocationsCarried'
  BY DEF WorkflowInv, InvocationsCarried, Running, NextNode, Carried
<1>4. RequestsApproved'
  BY DEF WorkflowInv, RequestsApproved
<1>5. TypeOK'
  BY DEF WorkflowInv, TypeOK
<1> QED BY <1>2, <1>3, <1>4, <1>5 DEF WorkflowInv

-----------------------------------------------------------------------------
(* Invariance                                                              *)

LEMMA InitInv == Init => WorkflowInv
<1> SUFFICES ASSUME Init PROVE WorkflowInv
  OBVIOUS
<1> USE DEF Init, Erp!Init
<1>1. TypeOK
  BY DEF TypeOK
<1>2. CheckpointsCarried /\ InvocationsCarried /\ RequestsApproved
  BY DEF CheckpointsCarried, InvocationsCarried, RequestsApproved, Running
<1>3. BooksByKey
  BY DEF BooksByKey, Entries
<1>4. IndexBacked
  BY WorkflowAssumption DEF IndexBacked, Status
<1> QED BY <1>1, <1>2, <1>3, <1>4 DEF WorkflowInv

LEMMA CallInv ==
  ASSUME WorkflowInv, NEW i \in Invs, Call(i)
  PROVE  WorkflowInv'
<1>1. PICK c \in Cases :
        \/ \E t \in Txn, h \in Ledgers \cup {None} : start_case(i, c, t, h)
        \/ \E h \in Ledgers \cup {None} : ingest_statement(i, c, h)
        \/ \E d \in Decision : review_case(i, c, d)
  BY DEF Call
<1>2. CASE \E t \in Txn, h \in Ledgers \cup {None} : start_case(i, c, t, h)
  BY <1>2, EnterInv DEF start_case
<1>3. CASE \E h \in Ledgers \cup {None} : ingest_statement(i, c, h)
  <2>1. Statement[c] \in Txn
    BY WorkflowAssumption
  <2> QED BY <1>3, <2>1, EnterInv DEF ingest_statement
<1>4. CASE \E d \in Decision : review_case(i, c, d)
  BY <1>4, review_caseInv
<1> QED BY <1>1, <1>2, <1>3, <1>4

LEMMA NodeInv ==
  ASSUME WorkflowInv, NEW i \in Invs, Step(i)
  PROVE  WorkflowInv'
<1>1. CASE Timeout(i)
  <2>1. Running(i) /\ inv[i].at # "begin" /\ Raise(i)
    BY <1>1 DEF Timeout, At
  <2> QED BY <2>1, RaiseInv DEF Raise
<1> QED BY <1>1, BeginInv, ingestion_nodeInv, matcher_nodeInv, close_case_nodeInv,
           investigator_nodeInv, prepare_review_nodeInv, human_review_nodeInv,
           apply_decision_nodeInv, write_back_nodeInv, PostedInv, escalate_nodeInv,
           ReturnInv DEF Step

LEMMA FailInv ==
  ASSUME WorkflowInv, NEW i \in Invs, Fail(i) \/ Unhandled(i)
  PROVE  WorkflowInv'
<1>1. /\ Running(i) /\ inv[i].at # "begin" /\ Raised(i)
      /\ UNCHANGED caseIndex \/ update_case_index(inv[i].case, "ingestion_failed")
  BY DEF Fail, Unhandled, Raise
<1> QED BY <1>1, RaiseInv

LEMMA StutterInv ==
  ASSUME WorkflowInv,
         UNCHANGED <<ckpt, caseIndex, claims, inv, stuck, net, journal, keys, approved, last>>
  PROVE  WorkflowInv'
BY DEF WorkflowInv, TypeOK, CheckpointsCarried, InvocationsCarried, RequestsApproved,
       BooksByKey, IndexBacked, Entries, Running, NextNode, Carried

LEMMA StepInv == WorkflowInv /\ [Next]_vars => WorkflowInv'
<1> SUFFICES ASSUME WorkflowInv, [Next]_vars PROVE WorkflowInv'
  OBVIOUS
<1>1. ASSUME NEW i \in Invs, Call(i) \/ Step(i) \/ Persist(i) \/ Fail(i) \/ Unhandled(i) \/ Die(i)
      PROVE  WorkflowInv'
  BY <1>1, CallInv, NodeInv, PersistInv, FailInv, DieInv
<1>2. ASSUME NEW r \in net, Deliver(r) \/ Lose(r)
      PROVE  WorkflowInv'
  BY <1>2, DeliverInv, LoseInv
<1>3. CASE SweepRead \/ SweepWrite
  BY <1>3, SweepInv
<1>4. CASE UNCHANGED vars
  BY <1>4, StutterInv DEF vars
<1> QED BY <1>1, <1>2, <1>3, <1>4 DEF Next

(* What invocations, checkpoints and requests carry is backed by the       *)
(* tables, through every interleaving, timeout and crash.                  *)
THEOREM Invariance == Spec => []WorkflowInv
<1> QED BY InitInv, StepInv, PTL DEF Spec

-----------------------------------------------------------------------------
(* What follows from it                                                    *)

(* Every variable keeps its type, and a request that somebody waits for    *)
(* has somebody waiting for it, at the POST of write_back.                 *)
THEOREM TypeCorrect == Spec => []TypeOK
<1>1. WorkflowInv => TypeOK
  BY DEF WorkflowInv
<1> QED BY <1>1, Invariance, PTL

(* Whatever restarts, retries and late requests do, every entry in the     *)
(* books says what a reviewer approved for its case.                       *)
THEOREM ApprovedOnly == Spec => []PostedWasApproved
<1>1. WorkflowInv => PostedWasApproved
  BY DEF WorkflowInv, BooksByKey, PostedWasApproved
<1> QED BY <1>1, Invariance, PTL

(* A case has at most one entry in the books: both would be the entry its  *)
(* key remembers.                                                          *)
THEOREM PostedOnce == Spec => []OneEntryPerCase
<1>1. WorkflowInv => OneEntryPerCase
  <2> SUFFICES ASSUME WorkflowInv, NEW e \in Entries, NEW f \in Entries,
                      journal[e].detail.case = journal[f].detail.case
               PROVE  e = f
    BY DEF OneEntryPerCase
  <2>1. keys[journal[e].detail.case] = e /\ keys[journal[f].detail.case] = f
    BY DEF WorkflowInv, BooksByKey
  <2> QED BY <2>1
<1> QED BY <1>1, Invariance, PTL

(* A case called posted, by the index or by its thread, has an entry.      *)
THEOREM PostedIsInBooks == Spec => []PostedInErp
<1>1. WorkflowInv => PostedInErp
  <2> SUFFICES ASSUME WorkflowInv, NEW c \in Cases,
                      \/ caseIndex[c] = "posted"
                      \/ ckpt[c] # None /\ ckpt[c].vals.case_status = "posted"
               PROVE  \E e \in Entries : journal[e].detail.case = c
    BY DEF PostedInErp
  <2>1. keys[c] # None
    BY DEF WorkflowInv, IndexBacked, CheckpointsCarried, Carried
  <2>2. journal[keys[c]] # None /\ journal[keys[c]].detail.case = c
    BY <2>1 DEF WorkflowInv, BooksByKey
  <2>3. keys[c] \in EntryIds
    BY <2>1 DEF WorkflowInv, TypeOK
  <2> QED BY <2>2, <2>3 DEF Entries
<1> QED BY <1>1, Invariance, PTL

(* A case that cleared without review has the claim it cleared by.         *)
THEOREM ClearedHoldsClaim == Spec => []ClearedIsClaimed
<1>1. WorkflowInv => ClearedIsClaimed
  BY DEF WorkflowInv, IndexBacked, CheckpointsCarried, Carried, ClearedIsClaimed
<1> QED BY <1>1, Invariance, PTL

-----------------------------------------------------------------------------
(* The promise of the books                                                *)

(* A reviewer's approval is the only step that adds to approved.           *)
LEMMA ApprovalMaps ==
  ASSUME WorkflowInv, NEW i \in Invs, human_review_node(i)
  PROVE  Promise!Next \/ UNCHANGED <<approved, journal, keys>>
<1>1. PICK c \in Cases, t \in Txn : c = inv[i].case /\ t = inv[i].vals.transaction
  BY DEF WorkflowInv, TypeOK, human_review_node, At, Running, Invocation, State
<1>2. UNCHANGED <<journal, keys>>
  BY DEF human_review_node, erpVars
<1>3. CASE inv[i].resume = "approve"
  <2>1. approved' = approved \cup {<<c, t>>}
    BY <1>1, <1>3 DEF human_review_node
  <2>2. UNCHANGED [b \in Cases |-> InBooks(b)]
    BY <1>2 DEF InBooks
  <2> QED BY <2>1, <2>2 DEF Promise!Next, Promise!Approve
<1>4. CASE inv[i].resume # "approve"
  BY <1>2, <1>4 DEF human_review_node
<1> QED BY <1>3, <1>4

(* The ERP making an entry is the abstract posting; its answer from the    *)
(* key it has seen changes nothing there.                                  *)
LEMMA DeliveryMaps ==
  ASSUME WorkflowInv, NEW r \in net, Deliver(r)
  PROVE  Promise!Next \/ UNCHANGED <<approved, journal, keys>>
<1>1. PICK c \in Cases, t \in Txn : c = r.case /\ t = r.transaction
  BY DEF WorkflowInv, TypeOK, Request
<1>2. <<c, t>> \in approved /\ UNCHANGED approved
  BY <1>1 DEF WorkflowInv, RequestsApproved, Deliver, histVars
<1>3. CASE Erp!Replay(c)
  BY <1>2, <1>3 DEF Erp!Replay
<1>4. ASSUME NEW e \in EntryIds,
             Erp!Post(c, [case |-> c, amount |-> t.amount, party |-> t.party], e)
      PROVE  Promise!Post(c, t)
  <2> DEFINE d == [case |-> c, amount |-> t.amount, party |-> t.party]
  <2>1. /\ journal \in [EntryIds -> Erp!Row \cup {None}]
        /\ keys \in [Cases -> EntryIds \cup {None}]
    BY DEF WorkflowInv, TypeOK
  <2>2. PICK row : row = Erp!NewRow(d, None) /\ row.detail = d
    <3>1. Erp!NewRow(d, None).detail = d
      BY DEF Erp!NewRow
    <3> QED BY <3>1
  <2>3. /\ keys[c] = None /\ journal[e] = None
        /\ journal' = [journal EXCEPT ![e] = row]
        /\ keys' = [keys EXCEPT ![c] = e]
    BY <1>4, <2>2 DEF Erp!Post
  <2>4. InBooks(c) = None
    BY <2>3 DEF InBooks
  <2>5. InBooks(c)' = t
    <3>1. keys'[c] = e /\ journal'[e] = row /\ e # None
      BY <2>1, <2>3, WorkflowAssumption
    <3>2. InBooks(c)' = [amount |-> d.amount, party |-> d.party]
      BY <2>2, <3>1 DEF InBooks
    <3> QED BY <3>2 DEF Txn
  <2>6. ASSUME NEW b \in Cases \ {c}
        PROVE  InBooks(b)' = InBooks(b)
    <3>1. keys'[b] = keys[b]
      BY <2>1, <2>3
    <3>2. keys[b] # None => journal'[keys[b]] = journal[keys[b]]
      BY <2>1, <2>3 DEF WorkflowInv, BooksByKey
    <3> QED BY <3>1, <3>2 DEF InBooks
  <2>7. [b \in Cases |-> InBooks(b)]' = [[b \in Cases |-> InBooks(b)] EXCEPT ![c] = t]
    BY <2>5, <2>6
  <2> QED BY <1>2, <2>4, <2>7 DEF Promise!Post
<1> QED BY <1>1, <1>3, <1>4 DEF Deliver, ErpHandles, Promise!Next

(* Every step is a step of ApprovedPosting, or none there.                *)
LEMMA PostingStep ==
  WorkflowInv /\ [Next]_vars => [Promise!Next]_<<approved, [c \in Cases |-> InBooks(c)]>>
<1> SUFFICES ASSUME WorkflowInv, [Next]_vars
             PROVE  Promise!Next \/ UNCHANGED <<approved, [c \in Cases |-> InBooks(c)]>>
  OBVIOUS
<1>1. UNCHANGED <<approved, journal, keys>>
        => UNCHANGED <<approved, [c \in Cases |-> InBooks(c)]>>
  BY DEF InBooks
<1>2. ASSUME NEW i \in Invs, Call(i) \/ Step(i) \/ Persist(i) \/ Fail(i) \/ Unhandled(i) \/ Die(i)
      PROVE  Promise!Next \/ UNCHANGED <<approved, journal, keys>>
  <2>1. CASE human_review_node(i)
    BY <2>1, ApprovalMaps
  <2>2. CASE \/ Call(i) \/ Persist(i) \/ Fail(i) \/ Unhandled(i) \/ Die(i)
             \/ Timeout(i)
    BY <2>2 DEF Call, start_case, ingest_statement, review_case, Enter, Persist, Fail,
                Unhandled, Die, Timeout, Raise, Raised, histVars, erpVars
  <2>3. CASE \/ Begin(i) \/ ingestion_node(i) \/ matcher_node(i) \/ close_case_node(i)
             \/ investigator_node(i) \/ prepare_review_node(i) \/ apply_decision_node(i)
             \/ write_back_node(i) \/ Posted(i) \/ escalate_node(i) \/ Return(i)
    BY <2>3 DEF Begin, ingestion_node, matcher_node, close_case_node, investigator_node,
                prepare_review_node, apply_decision_node, write_back_node, Posted,
                escalate_node, Return, histVars, erpVars
  <2> QED BY <1>2, <2>1, <2>2, <2>3 DEF Step
<1>3. ASSUME NEW r \in net, Deliver(r) \/ Lose(r)
      PROVE  Promise!Next \/ UNCHANGED <<approved, journal, keys>>
  BY <1>3, DeliveryMaps DEF Lose, histVars, erpVars
<1>4. CASE SweepRead \/ SweepWrite \/ UNCHANGED vars
  BY <1>1, <1>4 DEF SweepRead, SweepWrite, vars, histVars, erpVars
<1> QED BY <1>1, <1>2, <1>3, <1>4 DEF Next

(* The workflow implements ApprovedPosting: a case enters the books once,  *)
(* with a transaction approved for it, and stays there as it is.           *)
THEOREM PostingRefines == Spec => PostingSpec
<1>1. Init => Promise!Init
  BY DEF Init, Erp!Init, Promise!Init, InBooks
<1> QED BY <1>1, PostingStep, Invariance, PTL DEF Spec, PostingSpec, Promise!Spec

-----------------------------------------------------------------------------
(* The reviewers' queue                                                    *)

(* What the theorem assumes of a behaviour: nobody runs two invocations of *)
(* a case at a time, and a process is killed in one only before it begins  *)
(* or when its last checkpoint is written.                                 *)
Serial == \A i, j \in Invs : Running(i) /\ Running(j) /\ inv[i].case = inv[j].case => i = j

Saved(i) == inv[i].at = "begin" \/ ckpt[inv[i].case] = Snapshot(i)

DiesSaved == \A i \in Invs : Die(i) => Saved(i)

Pending(c) == caseIndex[c] \in {"pending_review", "approved_pending_writeback"}

Untouched(c) == \A i \in Invs : Running(i) /\ inv[i].case = c => inv[i].at = "begin"

Resumable(c) == ckpt[c] # None /\ ckpt[c].next \notin {"escalate", "end"}

(* An invocation owes the thread a checkpoint from when it begins to when  *)
(* it ends, and by the time it comes to a last node the case is no longer  *)
(* in the queue.                                                           *)
ResumableInv ==
  /\ \A c \in Cases : Pending(c) /\ Untouched(c) => Resumable(c)
  /\ \A i \in Invs, c \in Cases :
       Running(i) /\ inv[i].case = c /\ inv[i].at \in {"escalate", "end"} => ~Pending(c)

Alone(i, c) == \A j \in Invs : j # i /\ Running(j) => inv[j].case # c

LEMMA SerialAlone ==
  ASSUME Serial, NEW i \in Invs, Running(i), NEW c, c = inv[i].case
  PROVE  Alone(i, c)
BY DEF Serial, Alone

(* One invocation of a case moves to r, starts with it, or ends.           *)
LEMMA ResumableMoves ==
  ASSUME WorkflowInv, ResumableInv, NEW i \in Invs, NEW c \in Cases, NEW r,
         inv' = [inv EXCEPT ![i] = r], Alone(i, c),
         Running(i) => inv[i].case = c,
         r # None => r.case = c,
         \A d \in Cases \ {c} : ckpt'[d] = ckpt[d] /\ caseIndex'[d] = caseIndex[d],
         \/ r # None /\ r.at # "begin" /\ (r.at \in {"escalate", "end"} => ~Pending(c)')
         \/ (r # None => r.at = "begin") /\ (Pending(c)' => Resumable(c)')
  PROVE  ResumableInv'
<1>1. inv \in [Invs -> Invocation \cup {None}]
  BY DEF WorkflowInv, TypeOK
<1>2. inv'[i] = r /\ \A j \in Invs : j # i => inv'[j] = inv[j]
  BY <1>1
<1>3. ASSUME NEW d \in Cases, Pending(d)', Untouched(d)'
      PROVE  Resumable(d)'
  <2>1. CASE d = c
    <3>1. r # None => r.at = "begin"
      BY <1>2, <1>3, <2>1 DEF Untouched, Running
    <3> QED BY <1>3, <2>1, <3>1
  <2>2. CASE d # c
    <3>1. Untouched(d)
      BY <1>2, <1>3, <2>2 DEF Untouched, Running
    <3>2. Pending(d) /\ ckpt'[d] = ckpt[d]
      BY <1>3, <2>2 DEF Pending
    <3> QED BY <3>1, <3>2 DEF ResumableInv, Resumable
  <2> QED BY <2>1, <2>2
<1>4. ASSUME NEW j \in Invs, NEW d \in Cases,
             Running(j)', inv'[j].case = d, inv'[j].at \in {"escalate", "end"}
      PROVE  ~Pending(d)'
  <2>1. CASE j = i
    BY <1>2, <1>4, <2>1 DEF Running
  <2>2. CASE j # i
    <3>1. Running(j) /\ inv[j].case = d /\ d # c /\ inv[j].at \in {"escalate", "end"}
      BY <1>2, <1>4, <2>2 DEF Running, Alone
    <3>2. ~Pending(d)
      BY <3>1 DEF ResumableInv
    <3> QED BY <3>1, <3>2 DEF Pending
  <2> QED BY <2>1, <2>2
<1> QED BY <1>3, <1>4 DEF ResumableInv

(* None moves; the index may lose a case to a retry.                       *)
LEMMA ResumableKept ==
  ASSUME ResumableInv, UNCHANGED <<ckpt, inv>>,
         \A c \in Cases : caseIndex'[c] \in {caseIndex[c], "ingestion_failed"}
  PROVE  ResumableInv'
<1>1. \A c \in Cases : Pending(c)' => Pending(c)
  BY DEF Pending
<1> QED BY <1>1 DEF ResumableInv, Untouched, Resumable, Running

(* A node advances its invocation.                                         *)
LEMMA ResumableAdvances ==
  ASSUME WorkflowInv, ResumableInv, Serial, NEW i \in Invs, Running(i),
         NEW c \in Cases, c = inv[i].case,
         NEW n \in Nodes \cup {"end"}, NEW v \in State, Advance(i, n, v), UNCHANGED ckpt,
         \A d \in Cases \ {c} : caseIndex'[d] = caseIndex[d],
         n \in {"escalate", "end"} => ~Pending(c)'
  PROVE  ResumableInv'
<1> DEFINE r == [inv[i] EXCEPT !.at = n, !.vals = v, !.resume = None]
<1>1. inv \in [Invs -> Invocation \cup {None}] /\ inv[i] \in Invocation
  BY DEF WorkflowInv, TypeOK, Running
<1>2. inv' = [inv EXCEPT ![i] = r]
  BY <1>1 DEF Advance
<1>3. r \in Invocation /\ r.at = n /\ r.case = c
  BY <1>1 DEF Invocation
<1>4. r # None /\ r.at # "begin" /\ Alone(i, c)
  BY <1>3, WorkflowAssumption, SerialAlone DEF Nodes
<1> HIDE DEF r
<1> QED BY <1>2, <1>3, <1>4, ResumableMoves

-----------------------------------------------------------------------------
(* ... step by step                                                        *)

LEMMA ResumableEnters ==
  ASSUME WorkflowInv, ResumableInv, Serial', NEW i \in Invs, ~Running(i),
         NEW c \in Cases, NEW r \in Invocation, r.case = c, inv' = [inv EXCEPT ![i] = r],
         UNCHANGED <<ckpt, caseIndex>>,
         r.at # "begin" => r.at = ckpt[c].next
  PROVE  ResumableInv'
<1>1. inv'[i] = r /\ \A j \in Invs : j # i => inv'[j] = inv[j]
  BY DEF WorkflowInv, TypeOK
<1>2. r # None
  BY WorkflowAssumption
<1>3. Alone(i, c)
  BY <1>1, <1>2 DEF Alone, Serial, Running
<1>4. Untouched(c)
  BY <1>3 DEF Alone, Untouched
<1>5. Pending(c) => Resumable(c)
  BY <1>4 DEF ResumableInv
<1>6. Pending(c)' => Resumable(c)'
  BY <1>5 DEF Pending, Resumable
<1>7. r.at \in {"escalate", "end"} => ~Pending(c)'
  BY <1>5 DEF Pending, Resumable
<1> QED BY <1>2, <1>3, <1>6, <1>7, ResumableMoves

LEMMA ResumableCall ==
  ASSUME WorkflowInv, ResumableInv, Serial', NEW i \in Invs, Call(i)
  PROVE  ResumableInv'
<1> USE DEF graphVars
<1>1. PICK c \in Cases :
        \/ \E t \in Txn, h \in Ledgers \cup {None} : start_case(i, c, t, h)
        \/ \E h \in Ledgers \cup {None} : ingest_statement(i, c, h)
        \/ \E d \in Decision : review_case(i, c, d)
  BY DEF Call
<1>2. ASSUME NEW kind \in {"start", "ingest"}, NEW t \in Txn, NEW h \in Ledgers \cup {None},
             Enter(i, c, kind, t, h)
      PROVE  ResumableInv'
  <2> DEFINE r == [case |-> c, kind |-> kind, vals |-> Input(t, h),
                   at |-> "begin", resume |-> None]
  <2>1. Input(t, h) \in State
    BY DEF Input, State, MAX_REINVESTIGATION_CYCLES
  <2>2. r \in Invocation /\ r.case = c /\ r.at = "begin"
    BY <2>1 DEF Invocation
  <2>3. ~Running(i) /\ inv' = [inv EXCEPT ![i] = r] /\ UNCHANGED <<ckpt, caseIndex>>
    BY <1>2 DEF Enter
  <2> HIDE DEF r
  <2> QED BY <2>2, <2>3, ResumableEnters
<1>3. Statement[c] \in Txn
  BY WorkflowAssumption
<1>4. ASSUME NEW d \in Decision, review_case(i, c, d)
      PROVE  ResumableInv'
  <2> DEFINE r == [case |-> c, kind |-> "resume", vals |-> ckpt[c].vals,
                   at |-> ckpt[c].next, resume |-> d]
  <2>1. ckpt[c] \in Checkpoint /\ ckpt[c].next # "end" /\ ~Running(i)
    BY <1>4 DEF review_case, WorkflowInv, TypeOK
  <2>2. r \in Invocation /\ r.case = c /\ r.at = ckpt[c].next /\ r.at # "begin"
    BY <2>1 DEF Checkpoint, Invocation, Nodes
  <2>3. inv' = [inv EXCEPT ![i] = r] /\ UNCHANGED <<ckpt, caseIndex>>
    BY <1>4 DEF review_case
  <2> HIDE DEF r
  <2> QED BY <2>1, <2>2, <2>3, ResumableEnters
<1> QED BY <1>1, <1>2, <1>3, <1>4 DEF start_case, ingest_statement

LEMMA ResumableBegin ==
  ASSUME WorkflowInv, ResumableInv, Serial, NEW i \in Invs, Begin(i)
  PROVE  ResumableInv'
<1>1. PICK c \in Cases, v \in State : c = inv[i].case /\ v = inv[i].vals
  BY Standing DEF Begin
<1>2. PICK old \in State : old = IF ckpt[c] = None THEN v ELSE ckpt[c].vals
  BY DEF WorkflowInv, TypeOK, Checkpoint
<1>3. PICK w \in State : w = [old EXCEPT !.transaction = v.transaction, !.hit = v.hit,
                                         !.rejection_cycle_count = 0]
  <2>1. v.transaction \in Txn /\ v.hit \in Ledgers \cup {None}
    BY DEF State
  <2>2. 0 \in 0 .. MAX_REINVESTIGATION_CYCLES + 1
    BY DEF MAX_REINVESTIGATION_CYCLES
  <2> QED BY <2>1, <2>2 DEF State
<1>4. Advance(i, "ingestion", w) /\ Running(i) /\ UNCHANGED ckpt
  BY <1>1, <1>2, <1>3 DEF Begin
<1>5. \A d \in Cases \ {c} : caseIndex'[d] = caseIndex[d]
  BY <1>1 DEF Begin, update_case_index, WorkflowInv, TypeOK
<1>6. "ingestion" \in Nodes \cup {"end"}
  BY DEF Nodes
<1> QED BY <1>1, <1>4, <1>5, <1>6, ResumableAdvances

(* The nodes that leave the index alone, or set it for a case that stays   *)
(* with its reviewers, and those that take the case out of the queue.      *)
LEMMA ResumableNode ==
  ASSUME WorkflowInv, ResumableInv, Serial, NEW i \in Invs,
         \/ ingestion_node(i) \/ matcher_node(i) \/ close_case_node(i)
         \/ investigator_node(i) \/ prepare_review_node(i) \/ human_review_node(i)
         \/ apply_decision_node(i) \/ Posted(i) \/ escalate_node(i)
  PROVE  ResumableInv'
<1> USE DEF At, graphVars
<1>1. PICK c \in Cases, v \in State :
        c = inv[i].case /\ v = inv[i].vals /\ \A n : n = NextNode(i) => Carried(c, n, v)
  BY Standing DEF ingestion_node, matcher_node, close_case_node, investigator_node,
                  prepare_review_node, human_review_node, apply_decision_node, Posted,
                  escalate_node
<1>2. /\ [v EXCEPT !.match_status = "matched"] \in State
      /\ [v EXCEPT !.match_status = "exception"] \in State
      /\ \A s \in {"closed_matched", "posted", "escalated_unresolved"} :
           [v EXCEPT !.case_status = s] \in State
      /\ \A d \in Decision : [v EXCEPT !.last_decision = d] \in State
  BY DEF State
<1>3. ASSUME NEW s, update_case_index(c, s)
      PROVE  /\ caseIndex'[c] = s
             /\ \A d \in Cases \ {c} : caseIndex'[d] = caseIndex[d]
  BY <1>3 DEF update_case_index, WorkflowInv, TypeOK
<1>4. CASE ingestion_node(i)
  BY <1>1, <1>4, ResumableAdvances DEF ingestion_node, Nodes
<1>5. CASE matcher_node(i)
  BY <1>1, <1>2, <1>5, ResumableAdvances DEF matcher_node, Nodes
<1>6. CASE close_case_node(i)
  <2>1. ~Pending(c)' /\ \A d \in Cases \ {c} : caseIndex'[d] = caseIndex[d]
    BY <1>1, <1>3, <1>6 DEF close_case_node, Pending
  <2> QED BY <1>1, <1>2, <1>6, <2>1, ResumableAdvances DEF close_case_node
<1>7. CASE investigator_node(i)
  BY <1>1, <1>7, ResumableAdvances DEF investigator_node, Nodes
<1>8. CASE prepare_review_node(i)
  <2>1. \A d \in Cases \ {c} : caseIndex'[d] = caseIndex[d]
    BY <1>1, <1>3, <1>8 DEF prepare_review_node
  <2> QED BY <1>1, <1>8, <2>1, ResumableAdvances DEF prepare_review_node, Nodes
<1>9. CASE human_review_node(i)
  <2>1. inv[i].resume \in Decision
    BY <1>9 DEF human_review_node, WorkflowInv, TypeOK, Running, Invocation
  <2> QED BY <1>1, <1>2, <1>9, <2>1, ResumableAdvances DEF human_review_node, Nodes
<1>10. CASE apply_decision_node(i)
  <2> DEFINE cycle == v.rejection_cycle_count + 1
             counted == [v EXCEPT !.rejection_cycle_count = cycle]
  <2>1. counted \in State
    <3>1. Carried(c, "apply_decision", v)
      BY <1>1, <1>10 DEF apply_decision_node, NextNode
    <3>2. cycle \in 0 .. MAX_REINVESTIGATION_CYCLES + 1
      BY <3>1 DEF Carried, State, MAX_REINVESTIGATION_CYCLES
    <3> QED BY <3>2 DEF State
  <2> HIDE DEF counted, cycle
  <2>2. Running(i) /\ UNCHANGED ckpt
    BY <1>10 DEF apply_decision_node
  <2>3. \/ update_case_index(c, "approved_pending_writeback") /\ Advance(i, "write_back", v)
        \/ update_case_index(c, "pending_review") /\ Advance(i, "investigator", counted)
        \/ update_case_index(c, "escalated_unresolved") /\ Advance(i, "escalate", counted)
    BY <1>1, <1>10 DEF apply_decision_node, counted, cycle
  <2>4. \A d \in Cases \ {c} : caseIndex'[d] = caseIndex[d]
    BY <1>3, <2>3
  <2>5. update_case_index(c, "escalated_unresolved") => ~Pending(c)'
    BY <1>3 DEF Pending
  <2>6. {"write_back", "investigator", "escalate"} \subseteq Nodes \cup {"end"}
    BY DEF Nodes
  <2> QED BY <1>1, <2>1, <2>2, <2>3, <2>4, <2>5, <2>6, ResumableAdvances
<1>11. CASE Posted(i)
  <2>1. ~Pending(c)' /\ \A d \in Cases \ {c} : caseIndex'[d] = caseIndex[d]
    BY <1>1, <1>3, <1>11 DEF Posted, Pending
  <2> QED BY <1>1, <1>2, <1>11, <2>1, ResumableAdvances DEF Posted
<1>12. CASE escalate_node(i)
  <2>1. ~Pending(c)'
    BY <1>1, <1>12 DEF escalate_node, ResumableInv, Pending
  <2> QED BY <1>1, <1>2, <1>12, <2>1, ResumableAdvances DEF escalate_node
<1> QED BY <1>4, <1>5, <1>6, <1>7, <1>8, <1>9, <1>10, <1>11, <1>12

(* The POST goes out, and its answer comes in.                             *)
LEMMA ResumableWaits ==
  ASSUME WorkflowInv, ResumableInv, Serial, NEW i \in Invs, Running(i),
         NEW n \in {"await", "answered"}, inv' = [inv EXCEPT ![i].at = n],
         UNCHANGED <<ckpt, caseIndex>>
  PROVE  ResumableInv'
<1> DEFINE r == [inv[i] EXCEPT !.at = n]
<1>1. PICK c \in Cases : c = inv[i].case
  BY Standing
<1>2. inv[i] \in Invocation /\ inv' = [inv EXCEPT ![i] = r]
  BY DEF WorkflowInv, TypeOK, Running
<1>3. r \in Invocation /\ r.at = n /\ r.case = c
  BY <1>1, <1>2 DEF Invocation
<1> HIDE DEF r
<1>4. r # None /\ r.at \notin {"begin", "escalate", "end"} /\ Alone(i, c)
  BY <1>1, <1>3, WorkflowAssumption, SerialAlone
<1> QED BY <1>1, <1>2, <1>3, <1>4, ResumableMoves

LEMMA ResumableDeliver ==
  ASSUME WorkflowInv, ResumableInv, Serial, NEW q \in net, Deliver(q)
  PROVE  ResumableInv'
<1>1. UNCHANGED <<ckpt, caseIndex>>
  BY DEF Deliver, graphVars
<1>2. CASE q.inv = None
  BY <1>1, <1>2, ResumableKept DEF Deliver
<1>3. CASE q.inv # None
  <2>1. q \in Request
    BY DEF WorkflowInv, TypeOK
  <2>2. PICK i \in Invs : i = q.inv /\ Running(i)
    BY <1>3, <2>1 DEF Request, WorkflowInv, TypeOK, Running
  <2>3. inv' = [inv EXCEPT ![i].at = "answered"]
    BY <1>3, <2>2 DEF Deliver
  <2> QED BY <1>1, <2>2, <2>3, ResumableWaits
<1> QED BY <1>2, <1>3

(* What an invocation leaves in the thread when it ends is something to    *)
(* resume, or the case is not in the queue.                                *)
LEMMA ResumableSaved ==
  ASSUME WorkflowInv, ResumableInv, Serial, NEW i \in Invs, Running(i), inv[i].at # "begin",
         ckpt' = [ckpt EXCEPT ![inv[i].case] = Snapshot(i)],
         \/ inv' = inv
         \/ inv' = [inv EXCEPT ![i] = None],
         \/ UNCHANGED caseIndex
         \/ inv' # inv /\ update_case_index(inv[i].case, "ingestion_failed")
  PROVE  ResumableInv'
<1>1. PICK c \in Cases, v \in State : c = inv[i].case /\ v = inv[i].vals
  BY Standing
<1>2. inv \in [Invs -> Invocation \cup {None}] /\ inv[i] \in Invocation
  BY DEF WorkflowInv, TypeOK, Running
<1>3. PICK s \in Checkpoint : s = Snapshot(i) /\ s.next = NextNode(i)
  <2>1. NextNode(i) \in Nodes \cup {"end"}
    BY <1>2 DEF NextNode, Invocation, Nodes
  <2> QED BY <1>1, <2>1 DEF Snapshot, Checkpoint
<1>4. ckpt'[c] = s /\ \A d \in Cases \ {c} : ckpt'[d] = ckpt[d]
  BY <1>1, <1>3 DEF WorkflowInv, TypeOK
<1>5. /\ caseIndex'[c] \in {caseIndex[c], "ingestion_failed"}
      /\ \A d \in Cases \ {c} : caseIndex'[d] = caseIndex[d]
  BY <1>1 DEF update_case_index, WorkflowInv, TypeOK
<1>6. inv[i].at \in {"escalate", "end"} => ~Pending(c)'
  BY <1>1, <1>5 DEF ResumableInv, Pending
<1>7. Pending(c)' => Resumable(c)'
  <2>1. s # None
    BY WorkflowAssumption
  <2>2. Pending(c)' => NextNode(i) \notin {"escalate", "end"}
    BY <1>6 DEF NextNode
  <2> QED BY <1>3, <1>4, <2>1, <2>2 DEF Resumable
<1>8. Alone(i, c)
  BY <1>1, SerialAlone
<1>9. CASE inv' = inv
  <2>1. inv' = [inv EXCEPT ![i] = inv[i]]
    BY <1>2, <1>9
  <2>2. inv[i] # None
    BY DEF Running
  <2> QED BY <1>1, <1>4, <1>5, <1>6, <1>8, <2>1, <2>2, ResumableMoves
<1>10. CASE inv' = [inv EXCEPT ![i] = None]
  BY <1>1, <1>4, <1>5, <1>7, <1>8, <1>10, ResumableMoves
<1> QED BY <1>9, <1>10

(* One that has not begun leaves the thread as it found it.                *)
LEMMA ResumableDropped ==
  ASSUME WorkflowInv, ResumableInv, Serial, NEW i \in Invs,
         Running(i) => inv[i].at = "begin",
         inv' = [inv EXCEPT ![i] = None], UNCHANGED <<ckpt, caseIndex>>
  PROVE  ResumableInv'
<1>1. CASE ~Running(i)
  <2>1. UNCHANGED inv
    BY <1>1 DEF Running, WorkflowInv, TypeOK
  <2> QED BY <2>1, ResumableKept
<1>2. CASE Running(i)
  <2>1. PICK c \in Cases : c = inv[i].case
    BY <1>2, Standing
  <2>2. Alone(i, c)
    BY <1>2, <2>1, SerialAlone
  <2>3. Untouched(c)
    BY <1>2, <2>2 DEF Untouched, Alone
  <2>4. Pending(c)' => Resumable(c)'
    BY <2>3 DEF ResumableInv, Pending, Resumable
  <2> QED BY <2>1, <2>2, <2>4, ResumableMoves
<1> QED BY <1>1, <1>2

LEMMA ResumableStep ==
  WorkflowInv /\ Serial /\ Serial' /\ ResumableInv /\ [Next]_vars /\ [DiesSaved]_vars
    => ResumableInv'
<1> SUFFICES ASSUME WorkflowInv, Serial, Serial', ResumableInv,
                    [Next]_vars, [DiesSaved]_vars
             PROVE  ResumableInv'
  OBVIOUS
<1>1. ASSUME NEW i \in Invs, Call(i)
      PROVE  ResumableInv'
  BY <1>1, ResumableCall
<1>2. ASSUME NEW i \in Invs, Step(i)
      PROVE  ResumableInv'
  <2>1. CASE write_back_node(i)
    BY <2>1, ResumableWaits DEF write_back_node, At, graphVars
  <2>2. CASE Return(i)
    BY <2>2, ResumableSaved DEF Return, At
  <2>3. CASE Timeout(i)
    <3>1. Running(i) /\ inv[i].at # "begin" /\ Raise(i)
      BY <2>3 DEF Timeout, At
    <3>2. inv' # inv
      BY <3>1 DEF Raise, Raised, Running, WorkflowInv, TypeOK
    <3> QED BY <3>1, <3>2, ResumableSaved DEF Raise, Raised
  <2> QED BY <1>2, <2>1, <2>2, <2>3, ResumableBegin, ResumableNode DEF Step
<1>3. ASSUME NEW i \in Invs, Persist(i)
      PROVE  ResumableInv'
  BY <1>3, ResumableSaved DEF Persist
<1>4. ASSUME NEW i \in Invs, Fail(i) \/ Unhandled(i)
      PROVE  ResumableInv'
  <2>1. /\ Running(i) /\ inv[i].at # "begin" /\ Raised(i)
        /\ UNCHANGED caseIndex \/ update_case_index(inv[i].case, "ingestion_failed")
    BY <1>4 DEF Fail, Unhandled, Raise
  <2>2. inv' # inv
    BY <2>1 DEF Raised, Running, WorkflowInv, TypeOK
  <2> QED BY <2>1, <2>2, ResumableSaved DEF Raised
<1>5. ASSUME NEW q \in net, Lose(q)
      PROVE  ResumableInv'
  BY <1>5, ResumableKept DEF Lose, graphVars
<1>6. CASE SweepRead
  BY <1>6, ResumableKept DEF SweepRead, graphVars
<1>7. CASE SweepWrite
  BY <1>7, ResumableKept DEF SweepWrite
<1>8. CASE UNCHANGED vars
  BY <1>8, ResumableKept DEF vars, graphVars
<1>9. ASSUME NEW i \in Invs, Die(i)
      PROVE  ResumableInv'
  <2>1. Running(i) /\ inv' = [inv EXCEPT ![i] = None] /\ UNCHANGED <<ckpt, caseIndex>>
    BY <1>9 DEF Die, graphVars
  <2>2. inv' # inv
    BY <2>1 DEF Running, WorkflowInv, TypeOK
  <2>3. Saved(i)
    BY <1>9, <2>2 DEF DiesSaved, vars
  <2>4. CASE inv[i].at = "begin"
    BY <2>1, <2>4, ResumableDropped
  <2>5. CASE inv[i].at # "begin"
    <3>1. PICK c \in Cases : c = inv[i].case
      BY <2>1, Standing
    <3>2. ckpt' = [ckpt EXCEPT ![inv[i].case] = Snapshot(i)]
      BY <2>1, <2>3, <2>5, <3>1 DEF Saved, WorkflowInv, TypeOK
    <3> QED BY <2>1, <2>5, <3>2, ResumableSaved
  <2> QED BY <2>4, <2>5
<1> QED BY <1>1, <1>2, <1>3, <1>4, <1>5, <1>6, <1>7, <1>8, <1>9, ResumableDeliver DEF Next

(* Whatever a reviewer finds in the queue with nothing running on it can   *)
(* be resumed, through retries, failures, timeouts, late answers and       *)
(* sweeps, for any number of cases at once: as long as each case has one   *)
(* invocation at a time, and none is killed while its thread is behind.    *)
THEOREM PendingAlwaysResumable ==
  Spec /\ []Serial /\ [][DiesSaved]_vars => []PendingIsResumable
<1>1. Init => ResumableInv
  BY WorkflowAssumption DEF Init, ResumableInv, Pending, Running, Status
<1>2. ResumableInv => PendingIsResumable
  BY DEF ResumableInv, PendingIsResumable, Pending, Untouched, Resumable
<1> QED BY <1>1, <1>2, Invariance, ResumableStep, PTL DEF Spec
=============================================================================
