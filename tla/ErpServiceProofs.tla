-------------------------- MODULE ErpServiceProofs --------------------------
(***************************************************************************)
(* Inv is an invariant of ErpService for every set of threads, keys and    *)
(* entries.  One lemma per action; the database part of Inv moves only at  *)
(* Commit, so most of them reduce to the sessions' part.                   *)
(***************************************************************************)
EXTENDS ErpService, TLAPS

-----------------------------------------------------------------------------
(* Data                                                                    *)

(* A float of an integer amount is an integer (app.py, line 134, where the *)
(* amount of a reversal is negated through a float).                       *)
LEMMA FloatInt ==
  ASSUME NEW a \in Int
  PROVE  Ledger!FloatOf(a) \in Int
<1>1. CASE a \in -ExactLimit .. ExactLimit \/ a % 2 = 0
  BY <1>1 DEF Ledger!FloatOf
<1>2. CASE ~(a \in -ExactLimit .. ExactLimit \/ a % 2 = 0) /\ a % 4 = 1
  BY <1>2 DEF Ledger!FloatOf
<1>3. CASE ~(a \in -ExactLimit .. ExactLimit \/ a % 2 = 0) /\ a % 4 # 1
  BY <1>3 DEF Ledger!FloatOf
<1> QED BY <1>1, <1>2, <1>3

(* The detail of a reversal is a detail (app.py, the reversing row).       *)
LEMMA NegatedDetail ==
  ASSUME NEW d \in Ledger!Detail
  PROVE  Ledger!Negated(d) \in Ledger!Detail
<1>1. Ledger!FloatOf(d.amount) \in Int
  BY FloatInt DEF Ledger!Detail
<1>2. -Ledger!FloatOf(d.amount) \in Int
  BY <1>1
<1> QED BY <1>2 DEF Ledger!Negated, Ledger!Detail

(* What a handler inserts is a row of journal_entries.                     *)
LEMMA NewRowType ==
  ASSUME NEW d \in Ledger!Detail, NEW o \in EntryIds \cup {None}
  PROVE  Ledger!NewRow(d, o) \in Ledger!Row
BY DEF Ledger!NewRow, Ledger!Row

(* The journal after a reversal is a journal, and says of each row what    *)
(* the handler wrote: the original marked, the new row negating it.        *)
LEMMA WithReversalRows ==
  ASSUME NEW j \in [EntryIds -> Ledger!Row \cup {None}],
         NEW o \in EntryIds, NEW e \in EntryIds,
         j[o] # None, j[e] = None
  PROVE  /\ Ledger!WithReversal(j, o, e) \in [EntryIds -> Ledger!Row \cup {None}]
         /\ Ledger!WithReversal(j, o, e)[e] = Ledger!NewRow(Ledger!Negated(j[o].detail), o)
         /\ Ledger!WithReversal(j, o, e)[o].status = "reversed"
         /\ Ledger!WithReversal(j, o, e)[o].rev = e
         /\ Ledger!WithReversal(j, o, e)[o].detail = j[o].detail
         /\ Ledger!WithReversal(j, o, e)[o].orig = j[o].orig
         /\ Ledger!WithReversal(j, o, e)[o] \in Ledger!Row
         /\ \A f \in EntryIds \ {o, e} : Ledger!WithReversal(j, o, e)[f] = j[f]
<1> DEFINE n == Ledger!NewRow(Ledger!Negated(j[o].detail), o)
           m == [j[o] EXCEPT !.status = "reversed", !.rev = e]
<1>1. o # e
  OBVIOUS
<1>2. j[o] \in Ledger!Row
  OBVIOUS
<1>3. n \in Ledger!Row
  BY <1>2, NegatedDetail, NewRowType DEF Ledger!Row
<1>4. /\ m \in Ledger!Row /\ m.status = "reversed" /\ m.rev = e
      /\ m.detail = j[o].detail /\ m.orig = j[o].orig
  BY <1>2 DEF Ledger!Row
<1>5. Ledger!WithReversal(j, o, e) = [f \in EntryIds |-> IF f = e THEN n ELSE IF f = o THEN m ELSE j[f]]
  BY <1>1 DEF Ledger!WithReversal
<1> HIDE DEF n, m
<1>6. QED BY <1>1, <1>3, <1>4, <1>5 DEF n, m

(* The transaction a post token is issued for is a detail.                 *)
LEMMA PostDetailDetail == Ledger!PostDetail \subseteq Ledger!Detail
BY ServiceAssumption DEF Ledger!PostDetail, Ledger!Detail

-----------------------------------------------------------------------------
(* Steps that leave the sessions and the database alone                    *)

(* Signing a token (issue_approval_token) only adds to what is issued.     *)
LEMMA IssueTokenInv ==
  ASSUME Inv, NEW action \in Actions, NEW d, IssueToken(action, d)
  PROVE  Inv'
<1> USE DEF Inv, IssueToken, dbVars
<1>1. TypeOK'
  <2>1. d \in Ledger!Detail
    BY PostDetailDetail DEF Issuable, TypeOK, Ledger!Row
  <2>2. [action |-> action, detail |-> d, exp |-> now + Ttl] \in Token
    BY <2>1, ServiceAssumption DEF Token, TypeOK
  <2> QED BY <2>2 DEF TypeOK
<1>2. SessionInv'
  BY DEF SessionInv, EntriesFresh, JobsAuthorized, KeysHeld, IdsDrawn, HoldsKey
<1>3. (OneUnit /\ AckStable /\ AuditForest /\ ReversalLinked /\ Authorized)'
  BY DEF OneUnit, AckStable, AuditForest, ReversalLinked, Authorized, Entries
<1> QED BY <1>1, <1>2, <1>3

(* The clock only makes tokens older; nothing kept depends on their age.   *)
LEMMA TickInv ==
  ASSUME Inv, Tick
  PROVE  Inv'
<1> USE DEF Inv, Tick, dbVars
<1>1. TypeOK'
  BY DEF TypeOK
<1>2. SessionInv'
  BY DEF SessionInv, EntriesFresh, JobsAuthorized, KeysHeld, IdsDrawn, HoldsKey
<1>3. (OneUnit /\ AckStable /\ AuditForest /\ ReversalLinked /\ Authorized)'
  BY DEF OneUnit, AckStable, AuditForest, ReversalLinked, Authorized, Entries
<1> QED BY <1>1, <1>2, <1>3

(* A replay answers with the entry its key has (both handlers, the lookup).*)
LEMMA ReplayInv ==
  ASSUME Inv, NEW w \in Workers, NEW k \in Keys, Replay(w, k)
  PROVE  Inv'
<1> USE DEF Inv, Replay
<1>1. TypeOK'
  BY DEF TypeOK
<1>2. SessionInv'
  BY DEF SessionInv, EntriesFresh, JobsAuthorized, KeysHeld, IdsDrawn, HoldsKey
<1>3. (OneUnit /\ AuditForest /\ ReversalLinked /\ Authorized)'
  BY DEF OneUnit, AuditForest, ReversalLinked, Authorized, Entries
<1>4. AckStable'
  BY DEF AckStable
<1> QED BY <1>1, <1>2, <1>3, <1>4

-----------------------------------------------------------------------------
(* Steps of a session that leave the database alone                        *)

(* The database part of Inv depends on the tables and the tokens alone.    *)
LEMMA TablesInv ==
  ASSUME Inv, UNCHANGED <<journal, keys, audit, acked, issued>>, auditSeq' = auditSeq
  PROVE  (OneUnit /\ AckStable /\ AuditForest /\ ReversalLinked /\ Authorized)'
BY DEF Inv, OneUnit, AckStable, AuditForest, ReversalLinked, Authorized, Entries

(* A rolled back session (a refusal, IntegrityError, a crash) leaves no    *)
(* trace: what the others hold does not depend on it.                      *)
LEMMA IdleInv ==
  ASSUME Inv, NEW w \in Workers, Idle(w), UNCHANGED <<dbVars, now, issued>>
  PROVE  Inv'
<1> USE DEF Inv, Idle, dbVars
<1>1. TypeOK'
  BY DEF TypeOK, Steps
<1>2. /\ pc' \in [Workers -> Steps]
      /\ pc'[w] = "idle"
      /\ \A v \in Workers \ {w} : pc'[v] = pc[v] /\ job'[v] = job[v]
  BY <1>1 DEF TypeOK
<1>3. EntriesFresh'
  BY <1>2 DEF SessionInv, EntriesFresh
<1>4. JobsAuthorized'
  BY <1>2 DEF SessionInv, JobsAuthorized
<1>5. KeysHeld'
  BY <1>2 DEF SessionInv, KeysHeld, HoldsKey
<1>6. IdsDrawn'
  BY <1>2 DEF SessionInv, IdsDrawn
<1> QED BY <1>1, <1>3, <1>4, <1>5, <1>6, TablesInv DEF SessionInv

(* A posting enters with a verified token and an entry nobody else has.    *)
LEMMA PostInv ==
  ASSUME Inv, NEW w \in Workers, NEW k \in Keys, NEW d \in Ledger!PostDetail,
         NEW tok \in issued, Post(w, k, d, tok)
  PROVE  Inv'
<1> USE DEF Inv, dbVars
<1>1. PICK e \in EntryIds :
        /\ Unused(e)
        /\ job' = [job EXCEPT ![w] =
             [action |-> "post", key |-> k, token |-> tok, target |-> None,
              detail |-> d, entry |-> e, prev |-> 0, id |-> 0]]
  BY DEF Post
<1> DEFINE j == [action |-> "post", key |-> k, token |-> tok, target |-> None,
                 detail |-> d, entry |-> e, prev |-> 0, id |-> 0]
<1>2. /\ pc[w] = "idle" /\ pc' = [pc EXCEPT ![w] = "key"]
      /\ UNCHANGED <<dbVars, now, issued>>
      /\ Verified(tok, "post", d)
  BY DEF Post
<1>3. j \in Job
  BY PostDetailDetail DEF Job, TypeOK, Actions
<1>4. TypeOK'
  BY <1>1, <1>2, <1>3, ServiceAssumption DEF TypeOK, Steps
<1>5. /\ pc'[w] = "key" /\ job'[w] = j
      /\ \A v \in Workers \ {w} : pc'[v] = pc[v] /\ job'[v] = job[v]
  BY <1>1, <1>2 DEF TypeOK
<1>6. EntriesFresh'
  BY <1>1, <1>2, <1>5 DEF SessionInv, EntriesFresh, Unused, TypeOK
<1>7. JobsAuthorized'
  BY <1>2, <1>5 DEF SessionInv, JobsAuthorized, Verified
<1>8. KeysHeld'
  BY <1>2, <1>5 DEF SessionInv, KeysHeld, HoldsKey
<1>9. IdsDrawn'
  BY <1>2, <1>5 DEF SessionInv, IdsDrawn
<1> QED BY <1>2, <1>4, <1>6, <1>7, <1>8, <1>9, TablesInv DEF SessionInv

(* A reversal enters knowing only the id it was asked to reverse.          *)
LEMMA ReverseInv ==
  ASSUME Inv, NEW w \in Workers, NEW k \in Keys, NEW o \in EntryIds,
         NEW tok \in issued \cup {None}, Reverse(w, k, o, tok)
  PROVE  Inv'
<1> USE DEF Inv, Reverse, dbVars
<1> DEFINE j == [action |-> "reverse", key |-> k, token |-> tok, target |-> o,
                 detail |-> None, entry |-> None, prev |-> 0, id |-> 0]
<1>1. j \in Job
  BY DEF Job, TypeOK, Actions
<1>2. TypeOK'
  BY <1>1, ServiceAssumption DEF TypeOK, Steps
<1>3. /\ pc'[w] = "load" /\ job'[w] = j
      /\ \A v \in Workers \ {w} : pc'[v] = pc[v] /\ job'[v] = job[v]
  BY DEF TypeOK
<1>4. EntriesFresh'
  BY <1>3 DEF SessionInv, EntriesFresh
<1>5. JobsAuthorized'
  BY <1>3 DEF SessionInv, JobsAuthorized
<1>6. KeysHeld'
  BY <1>3 DEF SessionInv, KeysHeld, HoldsKey
<1>7. IdsDrawn'
  BY <1>3 DEF SessionInv, IdsDrawn
<1> QED BY <1>2, <1>4, <1>5, <1>6, <1>7, TablesInv DEF SessionInv

(* Load keeps the detail of a row that exists: rows do not go away and     *)
(* their details do not change, so it is the row's detail at COMMIT too.   *)
LEMMA LoadInv ==
  ASSUME Inv, NEW w \in Workers, Load(w)
  PROVE  Inv'
<1> USE DEF Inv, dbVars
<1> DEFINE o == job[w].target
<1>1. CASE Idle(w) /\ UNCHANGED <<dbVars, now, issued>>
  BY <1>1, IdleInv
<1>2. ASSUME /\ pc[w] = "load"
             /\ Reversible(o)
             /\ Verified(job[w].token, "reverse", journal[o].detail)
             /\ pc' = [pc EXCEPT ![w] = "key"]
             /\ UNCHANGED <<dbVars, now, issued>>,
             NEW e \in EntryIds,
             Unused(e),
             job' = [job EXCEPT ![w].detail = journal[o].detail, ![w].entry = e]
      PROVE  Inv'
  <2>1. job[w] \in Job
    BY <1>2 DEF TypeOK
  <2>2. o \in EntryIds /\ job[w].action = "reverse"
    BY <1>2 DEF SessionInv, JobsAuthorized
  <2>3. journal[o] \in Ledger!Row
    BY <1>2, <2>2 DEF TypeOK, Reversible
  <2>4. journal[o].detail \in Ledger!Detail
    BY <2>3 DEF Ledger!Row
  <2> DEFINE n == [job[w] EXCEPT !.detail = journal[o].detail, !.entry = e]
  <2>5. n \in Job
    BY <2>1, <2>4 DEF Job
  <2>6. job' = [job EXCEPT ![w] = n]
    BY <1>2 DEF TypeOK
  <2>7. TypeOK'
    BY <1>2, <2>5, <2>6, ServiceAssumption DEF TypeOK, Steps
  <2>8. /\ pc'[w] = "key" /\ job'[w] = n
        /\ \A v \in Workers \ {w} : pc'[v] = pc[v] /\ job'[v] = job[v]
    BY <1>2, <2>6 DEF TypeOK
  <2>9. /\ n.entry = e /\ n.detail = journal[o].detail
        /\ n.action = "reverse" /\ n.target = o /\ n.token = job[w].token
    BY <2>1, <2>2 DEF Job
  <2>10. /\ UNCHANGED <<journal, keys, audit, auditSeq, acked, now, issued>>
         /\ pc[w] = "load" /\ Unused(e)
         /\ Reversible(o) /\ Verified(job[w].token, "reverse", journal[o].detail)
    BY <1>2
  <2> HIDE DEF n
  <2>11. EntriesFresh'
    BY <2>8, <2>9, <2>10 DEF SessionInv, EntriesFresh, Unused, TypeOK
  <2>12. JobsAuthorized'
    BY <2>2, <2>8, <2>9, <2>10 DEF SessionInv, JobsAuthorized, Verified, Reversible
  <2>13. KeysHeld'
    BY <2>8, <2>10 DEF SessionInv, KeysHeld, HoldsKey
  <2>14. IdsDrawn'
    BY <2>8, <2>10 DEF SessionInv, IdsDrawn
  <2> QED BY <2>7, <2>10, <2>11, <2>12, <2>13, <2>14, TablesInv DEF SessionInv
<1> QED BY <1>1, <1>2 DEF Load

(* The key is taken by one session, and only while no row has it.          *)
LEMMA InsertKeyInv ==
  ASSUME Inv, NEW w \in Workers, InsertKey(w)
  PROVE  Inv'
<1> USE DEF Inv, dbVars
<1>1. CASE Idle(w) /\ UNCHANGED <<dbVars, now, issued>>
  BY <1>1, IdleInv
<1>2. CASE /\ pc[w] = "key"
           /\ \A v \in Workers : ~HoldsKey(v, job[w].key)
           /\ keys[job[w].key] = None
           /\ pc' = [pc EXCEPT ![w] = AfterKey(w)]
           /\ UNCHANGED <<dbVars, now, issued, job>>
  <2>1. TypeOK'
    BY <1>2 DEF TypeOK, Steps, AfterKey
  <2>2. /\ pc'[w] \in {"lock", "chain"}
        /\ pc'[w] = "lock" => job[w].action = "reverse"
        /\ \A v \in Workers \ {w} : pc'[v] = pc[v]
    BY <1>2 DEF TypeOK, AfterKey
  <2>3. EntriesFresh'
    BY <1>2, <2>2 DEF SessionInv, EntriesFresh
  <2>4. JobsAuthorized'
    BY <1>2, <2>2 DEF SessionInv, JobsAuthorized
  <2>5. KeysHeld'
    BY <1>2, <2>2 DEF SessionInv, KeysHeld, HoldsKey
  <2>6. IdsDrawn'
    BY <1>2, <2>2 DEF SessionInv, IdsDrawn
  <2> QED BY <1>2, <2>1, <2>3, <2>4, <2>5, <2>6, TablesInv DEF SessionInv
<1> QED BY <1>1, <1>2 DEF InsertKey

(* A session that moves on with what it has: only its pc changes.          *)
LEMMA LockRowInv ==
  ASSUME Inv, NEW w \in Workers, LockRow(w)
  PROVE  Inv'
<1> USE DEF Inv, LockRow, dbVars
<1>1. TypeOK'
  BY DEF TypeOK, Steps
<1>2. /\ pc'[w] = "chain"
      /\ \A v \in Workers \ {w} : pc'[v] = pc[v]
  BY DEF TypeOK
<1>3. EntriesFresh'
  BY <1>2 DEF SessionInv, EntriesFresh
<1>4. JobsAuthorized'
  BY <1>2 DEF SessionInv, JobsAuthorized
<1>5. KeysHeld'
  BY <1>2 DEF SessionInv, KeysHeld, HoldsKey
<1>6. IdsDrawn'
  BY <1>2 DEF SessionInv, IdsDrawn
<1> QED BY <1>1, <1>3, <1>4, <1>5, <1>6, TablesInv DEF SessionInv

(* The event a session chains onto is committed (append_audit_event).      *)
LEMMA ReadTailInv ==
  ASSUME Inv, NEW w \in Workers, ReadTail(w)
  PROVE  Inv'
<1> USE DEF Inv, dbVars
<1>1. PICK i \in 0 .. auditSeq : IsTail(i) /\ job' = [job EXCEPT ![w].prev = i]
  BY DEF ReadTail
<1>2. /\ pc[w] = "chain" /\ pc' = [pc EXCEPT ![w] = "log"]
      /\ UNCHANGED <<journal, keys, audit, auditSeq, acked, now, issued>>
  BY DEF ReadTail
<1> DEFINE n == [job[w] EXCEPT !.prev = i]
<1>3. job[w] \in Job
  BY <1>2 DEF TypeOK
<1>4. n \in Job /\ job' = [job EXCEPT ![w] = n]
  BY <1>1, <1>3 DEF Job, TypeOK
<1>5. TypeOK'
  BY <1>2, <1>4, ServiceAssumption DEF TypeOK, Steps
<1>6. /\ pc'[w] = "log" /\ job'[w] = n
      /\ \A v \in Workers \ {w} : pc'[v] = pc[v] /\ job'[v] = job[v]
  BY <1>2, <1>4 DEF TypeOK
<1>7. /\ n.prev = i
      /\ n.entry = job[w].entry /\ n.key = job[w].key /\ n.token = job[w].token
      /\ n.action = job[w].action /\ n.target = job[w].target /\ n.detail = job[w].detail
  BY <1>3 DEF Job
<1>8. i = 0 \/ \E p \in audit : p.id = i
  BY <1>1 DEF IsTail
<1>9. i \in Nat /\ i <= auditSeq
  BY DEF TypeOK
<1> HIDE DEF n
<1>10. EntriesFresh'
  BY <1>2, <1>6, <1>7 DEF SessionInv, EntriesFresh
<1>11. JobsAuthorized'
  BY <1>2, <1>6, <1>7 DEF SessionInv, JobsAuthorized
<1>12. KeysHeld'
  BY <1>2, <1>6, <1>7 DEF SessionInv, KeysHeld, HoldsKey
<1>13. IdsDrawn'
  BY <1>2, <1>6, <1>7, <1>8, <1>9 DEF SessionInv, IdsDrawn
<1> QED BY <1>2, <1>5, <1>10, <1>11, <1>12, <1>13, TablesInv DEF SessionInv

(* The id drawn is new, whoever commits or rolls back (audit_log_id_seq).  *)
LEMMA InsertEventInv ==
  ASSUME Inv, NEW w \in Workers, InsertEvent(w)
  PROVE  Inv'
<1> USE DEF Inv, dbVars
<1> DEFINE n == [job[w] EXCEPT !.id = auditSeq + 1]
<1>1. /\ pc[w] = "log" /\ pc' = [pc EXCEPT ![w] = "commit"]
      /\ auditSeq' = auditSeq + 1
      /\ UNCHANGED <<journal, keys, audit, acked, now, issued>>
      /\ job' = [job EXCEPT ![w].id = auditSeq + 1]
  BY DEF InsertEvent
<1>2. job[w] \in Job /\ auditSeq \in Nat
  BY <1>1 DEF TypeOK
<1>3. n \in Job /\ job' = [job EXCEPT ![w] = n]
  BY <1>1, <1>2 DEF Job, TypeOK
<1>4. TypeOK'
  BY <1>1, <1>3, ServiceAssumption DEF TypeOK, Steps
<1>5. /\ pc'[w] = "commit" /\ job'[w] = n
      /\ \A v \in Workers \ {w} : pc'[v] = pc[v] /\ job'[v] = job[v]
  BY <1>1, <1>3 DEF TypeOK
<1>6. /\ n.id = auditSeq + 1 /\ n.prev = job[w].prev
      /\ n.entry = job[w].entry /\ n.key = job[w].key /\ n.token = job[w].token
      /\ n.action = job[w].action /\ n.target = job[w].target /\ n.detail = job[w].detail
  BY <1>2 DEF Job
<1>7. \A v \in Workers : pc[v] \notin {"idle"} => job[v].prev \in Nat /\ job[v].id \in Nat
  BY DEF TypeOK, Job
<1>8. \A ev \in audit : ev.id \in Nat
  BY DEF TypeOK, Event
<1> HIDE DEF n
<1>9. UNCHANGED <<journal, keys, audit, acked, issued>>
  BY <1>1
<1>10. EntriesFresh'
  BY <1>1, <1>5, <1>6 DEF SessionInv, EntriesFresh
<1>11. JobsAuthorized'
  BY <1>1, <1>5, <1>6 DEF SessionInv, JobsAuthorized
<1>12. KeysHeld'
  BY <1>1, <1>5, <1>6 DEF SessionInv, KeysHeld, HoldsKey
<1>13. IdsDrawn'
  BY <1>1, <1>2, <1>5, <1>6, <1>7, <1>8 DEF SessionInv, IdsDrawn, AuditForest
<1>14. AuditForest'
  BY <1>1, <1>2, <1>8 DEF AuditForest
<1>15. (OneUnit /\ AckStable /\ ReversalLinked /\ Authorized)'
  BY <1>9 DEF OneUnit, AckStable, ReversalLinked, Authorized, Entries
<1> QED BY <1>4, <1>10, <1>11, <1>12, <1>13, <1>14, <1>15 DEF SessionInv

-----------------------------------------------------------------------------
(* COMMIT: the one step that moves the database                            *)

(* The journal COMMIT publishes: one row more, the old rows keep what they *)
(* say, and only the entry reversed, if there is one, is marked.           *)
LEMMA CommitRows ==
  ASSUME Inv, NEW w \in Workers, Commit(w)
  PROVE  /\ job[w] \in Job
         /\ job[w].entry \in EntryIds /\ journal[job[w].entry] = None
         /\ job[w].detail \in Ledger!Detail
         /\ journal' \in [EntryIds -> Ledger!Row \cup {None}]
         /\ journal'[job[w].entry] # None
         /\ journal'[job[w].entry].status = "posted"
         /\ \A f \in EntryIds :
              journal[f] # None =>
                /\ journal'[f] # None
                /\ journal'[f].detail = journal[f].detail
                /\ journal'[f].orig = journal[f].orig
         /\ \A f \in EntryIds \ {job[w].entry} : journal[f] = None => journal'[f] = None
         /\ job[w].action = "post" =>
              /\ journal'[job[w].entry].detail = job[w].detail
              /\ journal'[job[w].entry].orig = None
              /\ \A f \in EntryIds \ {job[w].entry} : journal'[f] = journal[f]
         /\ job[w].action = "reverse" =>
              /\ job[w].target \in EntryIds \ {job[w].entry}
              /\ journal[job[w].target] # None
              /\ journal[job[w].target].detail = job[w].detail
              /\ journal'[job[w].entry].orig = job[w].target
              /\ journal'[job[w].entry].detail.case = job[w].detail.case
              /\ journal'[job[w].target].status = "reversed"
              /\ journal'[job[w].target].rev = job[w].entry
              /\ \A f \in EntryIds \ {job[w].entry, job[w].target} : journal'[f] = journal[f]
         /\ job[w].action \in Actions
<1> DEFINE j == job[w]
           e == job[w].entry
           o == job[w].target
<1> USE DEF Inv
<1>1. /\ pc[w] = "commit"
      /\ journal' = IF j.action = "post"
                     THEN [journal EXCEPT ![e] = Ledger!NewRow(j.detail, None)]
                     ELSE Ledger!WithReversal(journal, o, e)
  BY DEF Commit
<1>2. j \in Job /\ j.action \in Actions
  BY <1>1 DEF TypeOK, Job
<1>3. e \in EntryIds /\ journal[e] = None
  BY <1>1 DEF SessionInv, EntriesFresh
<1>4. journal \in [EntryIds -> Ledger!Row \cup {None}]
  BY DEF TypeOK
<1>5. CASE j.action = "post"
  <2>1. j.detail \in Ledger!Detail
    BY <1>1, <1>5, PostDetailDetail DEF SessionInv, JobsAuthorized
  <2> DEFINE r == Ledger!NewRow(j.detail, None)
  <2>2. r \in Ledger!Row
    BY <2>1, NewRowType
  <2>3. r.detail = j.detail /\ r.orig = None /\ r.status = "posted"
    BY DEF Ledger!NewRow
  <2>4. r # None
    BY <2>2, ServiceAssumption
  <2>5. journal' = [journal EXCEPT ![e] = r]
    BY <1>1, <1>5
  <2> HIDE DEF r
  <2> QED BY <1>2, <1>3, <1>4, <1>5, <2>1, <2>2, <2>3, <2>4, <2>5
<1>6. CASE j.action = "reverse"
  <2>1. /\ o \in EntryIds /\ journal[o] # None /\ journal[o].detail = j.detail
    BY <1>1, <1>6 DEF SessionInv, JobsAuthorized
  <2>2. journal' = Ledger!WithReversal(journal, o, e)
    BY <1>1, <1>6
  <2> DEFINE r == Ledger!NewRow(Ledger!Negated(journal[o].detail), o)
  <2>3. /\ journal' \in [EntryIds -> Ledger!Row \cup {None}]
        /\ journal'[e] = r
        /\ journal'[o].status = "reversed" /\ journal'[o].rev = e
        /\ journal'[o].detail = journal[o].detail /\ journal'[o].orig = journal[o].orig
        /\ journal'[o] \in Ledger!Row
        /\ \A f \in EntryIds \ {o, e} : journal'[f] = journal[f]
    BY <1>3, <1>4, <2>1, <2>2, WithReversalRows
  <2>4. journal[o] \in Ledger!Row /\ j.detail \in Ledger!Detail
    BY <1>4, <2>1 DEF Ledger!Row
  <2>5. r \in Ledger!Row /\ r.orig = o /\ r.status = "posted"
        /\ r.detail.case = j.detail.case
    <3>1. Ledger!Negated(journal[o].detail).case = journal[o].detail.case
      BY <2>1, <2>4 DEF Ledger!Negated, Ledger!Detail
    <3>2. Ledger!Negated(journal[o].detail) \in Ledger!Detail
      BY <2>1, <2>4, NegatedDetail
    <3>3. r \in Ledger!Row
      BY <2>1, <3>2, NewRowType
    <3>4. r.orig = o /\ r.status = "posted" /\ r.detail = Ledger!Negated(journal[o].detail)
      BY DEF Ledger!NewRow
    <3> QED BY <2>1, <3>1, <3>3, <3>4
  <2>6. r # None
    BY <2>5, ServiceAssumption
  <2> HIDE DEF r
  <2>7. journal'[o] # None
    BY <2>3, ServiceAssumption
  <2> QED BY <1>2, <1>3, <1>6, <2>1, <2>3, <2>4, <2>5, <2>6, <2>7
<1> QED BY <1>2, <1>5, <1>6 DEF Actions

(* COMMIT publishes entry, key and event together, and keeps every table   *)
(* in step with the others and with the sessions still running.            *)
LEMMA CommitInv ==
  ASSUME Inv, NEW w \in Workers, Commit(w)
  PROVE  Inv'
<1> USE DEF Inv
<1> DEFINE j == job[w]
           e == job[w].entry
           k == job[w].key
           o == job[w].target
           ev == EventOf(job[w])
<1>1. /\ pc[w] = "commit"
      /\ keys' = [keys EXCEPT ![k] = e]
      /\ audit' = audit \cup {ev}
      /\ acked' = acked \cup {<<k, e>>}
      /\ Idle(w)
      /\ UNCHANGED <<auditSeq, now, issued>>
  BY DEF Commit
<1>2. /\ pc' = [pc EXCEPT ![w] = "idle"] /\ job' = [job EXCEPT ![w] = None]
      /\ pc'[w] = "idle"
      /\ \A v \in Workers \ {w} : pc'[v] = pc[v] /\ job'[v] = job[v]
  BY <1>1 DEF Idle, TypeOK
<1>3. /\ k \in Keys /\ keys[k] = None
      /\ keys'[k] = e /\ \A l \in Keys \ {k} : keys'[l] = keys[l]
  BY <1>1, CommitRows DEF SessionInv, KeysHeld, TypeOK, Job
<1>4. /\ e \in EntryIds /\ journal[e] = None /\ journal'[e] # None /\ e # None
      /\ j \in Job /\ j.action \in Actions /\ j.detail \in Ledger!Detail
  BY CommitRows, ServiceAssumption
<1>5. /\ j.id \in 1 .. auditSeq /\ j.prev < j.id
      /\ j.prev = 0 \/ \E p \in audit : p.id = j.prev
      /\ \A x \in audit : x.id # j.id
      /\ \A v \in Workers \ {w} : pc[v] = "commit" => job[v].id # j.id
  BY <1>1 DEF SessionInv, IdsDrawn
<1>6. /\ ev.id = j.id /\ ev.prev = j.prev /\ ev.entry = e /\ ev.case = j.detail.case
      /\ j.action = "post" => ev.type = "posted" /\ ev.payload = j.detail
      /\ j.action = "reverse" => ev.type = "reversed" /\ ev.payload = o
  BY DEF EventOf
<1>7. auditSeq \in Nat /\ j.id \in Nat \ {0} /\ j.prev \in Nat
  BY <1>4, <1>5 DEF TypeOK, Job
<1>8. \A v \in Workers \ {w} :
        /\ pc[v] \notin {"idle", "load"} => job[v].entry # e /\ job[v].entry \in EntryIds
        /\ pc[v] \in {"lock", "chain", "log", "commit"} => job[v].key # k
  BY <1>1, <1>4 DEF SessionInv, EntriesFresh, KeysHeld, HoldsKey
<1>9. \A v \in Workers \ {w} : pc[v] # "idle" => job[v] \in Job
  BY DEF TypeOK
<1>10. TypeOK'
  <2>1. ev \in Event
    BY <1>4, <1>7, CommitRows DEF EventOf, Event, Job, Actions, Ledger!Detail
  <2> HIDE DEF ev
  <2>2. pc' \in [Workers -> Steps] /\ job' \in [Workers -> Job \cup {None}]
    BY <1>2 DEF TypeOK, Steps
  <2>3. \A v \in Workers : pc'[v] = "idle" <=> job'[v] = None
    BY <1>2 DEF TypeOK
  <2> QED BY <1>1, <1>3, <1>4, <2>1, <2>2, <2>3, CommitRows DEF TypeOK
<1>11. EntriesFresh'
  BY <1>2, <1>8, CommitRows DEF SessionInv, EntriesFresh
<1>12. JobsAuthorized'
  BY <1>1, <1>2, CommitRows DEF SessionInv, JobsAuthorized
<1>13. KeysHeld'
  BY <1>2, <1>3, <1>8, <1>9 DEF SessionInv, KeysHeld, HoldsKey, Job
<1>14. IdsDrawn'
  BY <1>1, <1>2, <1>5, <1>6 DEF SessionInv, IdsDrawn
<1>15. AuditForest'
  BY <1>1, <1>5, <1>6, <1>7 DEF AuditForest
<1>16. AckStable'
  BY <1>1, <1>3, <1>4, ServiceAssumption DEF AckStable, TypeOK
<1>17. Entries' = Entries \cup {e} /\ e \notin Entries
  BY <1>4, CommitRows DEF Entries
<1>18. \A f \in Entries : journal'[f].detail = journal[f].detail /\ journal'[f].orig = journal[f].orig
  BY CommitRows DEF Entries
<1>19. OneUnit'
  <2> HIDE DEF ev, k
  <2>1. /\ ev.case = journal'[e].detail.case
        /\ ev.payload = IF ev.type = "posted" THEN journal'[e].detail ELSE journal'[e].orig
    BY <1>4, <1>6, CommitRows DEF Actions
  <2>2. \A f \in Entries' :
          /\ \E l \in Keys : keys'[l] = f
          /\ \E x \in audit' :
               /\ x.entry = f
               /\ x.case = journal'[f].detail.case
               /\ x.payload = IF x.type = "posted" THEN journal'[f].detail ELSE journal'[f].orig
    <3> SUFFICES ASSUME NEW f \in Entries'
                 PROVE  /\ \E l \in Keys : keys'[l] = f
                        /\ \E x \in audit' :
                             /\ x.entry = f
                             /\ x.case = journal'[f].detail.case
                             /\ x.payload = IF x.type = "posted" THEN journal'[f].detail ELSE journal'[f].orig
      OBVIOUS
    <3>1. CASE f = e
      BY <1>1, <1>3, <1>6, <2>1, <3>1
    <3>2. CASE f \in Entries
      <4>1. PICK l \in Keys : keys[l] = f
        BY <3>2 DEF OneUnit
      <4>2. PICK x \in audit :
              /\ x.entry = f
              /\ x.case = journal[f].detail.case
              /\ x.payload = IF x.type = "posted" THEN journal[f].detail ELSE journal[f].orig
        BY <3>2 DEF OneUnit
      <4>3. keys'[l] = f
        <5>1. f # None
          BY <3>2, ServiceAssumption DEF Entries
        <5> QED BY <1>3, <4>1, <5>1
      <4> QED BY <1>1, <1>18, <3>2, <4>2, <4>3
    <3> QED BY <1>17, <3>1, <3>2
  <2>3. \A l \in Keys : keys'[l] \in Entries' \cup {None}
    BY <1>3, <1>17 DEF OneUnit
  <2>4. \A l, m \in Keys : keys'[l] = keys'[m] /\ keys'[l] # None => l = m
    BY <1>3, <1>4, <1>17 DEF OneUnit
  <2>5. \A x \in audit' : x.entry \in Entries'
    BY <1>1, <1>6, <1>17 DEF OneUnit
  <2>6. \A x, y \in audit' : x.entry = y.entry => x = y
    BY <1>1, <1>6, <1>17 DEF OneUnit
  <2> QED BY <2>2, <2>3, <2>4, <2>5, <2>6 DEF OneUnit
<1>20. ReversalLinked'
  <2> HIDE DEF ev, k
  <2> SUFFICES ASSUME NEW f \in Entries'
               PROVE  /\ journal'[f].status = "reversed" =>
                           /\ journal'[f].rev \in Entries'
                           /\ journal'[journal'[f].rev].orig = f
                      /\ journal'[f].orig # None =>
                           /\ journal'[f].orig \in Entries'
                           /\ journal'[journal'[f].orig].status = "reversed"
    BY DEF ReversalLinked
  <2>1. CASE j.action = "post"
    BY <1>4, <1>17, <1>18, <2>1, CommitRows DEF ReversalLinked, Entries
  <2>2. CASE j.action = "reverse"
    <3>1. /\ o \in Entries /\ o # e
          /\ journal'[e].orig = o /\ journal'[e].status = "posted"
          /\ journal'[o].status = "reversed" /\ journal'[o].rev = e
          /\ \A g \in Entries \ {o} : journal'[g] = journal[g]
      BY <1>17, <2>2, CommitRows DEF Entries
    <3> HIDE DEF o, e, j
    <3>2. CASE f = e
      BY <1>17, <3>1, <3>2
    <3>3. CASE f = o
      BY <1>17, <1>18, <3>1, <3>3 DEF ReversalLinked
    <3>4. CASE f \in Entries \ {o}
      BY <1>17, <1>18, <3>1, <3>4 DEF ReversalLinked
    <3> QED BY <1>17, <3>2, <3>3, <3>4
  <2> QED BY <1>4, <2>1, <2>2 DEF Actions
<1>21. Authorized'
  <2> SUFFICES ASSUME NEW f \in Entries'
               PROVE  \E tok \in issued' :
                        IF journal'[f].orig = None
                        THEN tok.action = "post" /\ tok.detail = journal'[f].detail
                        ELSE tok.action = "reverse" /\ tok.detail = journal'[journal'[f].orig].detail
    BY DEF Authorized
  <2>1. /\ j.token \in issued /\ j.token.action = j.action /\ j.token.detail = j.detail
    BY <1>1 DEF SessionInv, JobsAuthorized
  <2>2. CASE f = e
    BY <1>1, <1>4, <2>1, <2>2, CommitRows, ServiceAssumption DEF Actions
  <2>3. CASE f \in Entries
    <3>1. PICK tok \in issued :
            IF journal[f].orig = None
            THEN tok.action = "post" /\ tok.detail = journal[f].detail
            ELSE tok.action = "reverse" /\ tok.detail = journal[journal[f].orig].detail
      BY <2>3 DEF Authorized
    <3>2. journal[f].orig # None => journal[f].orig \in Entries
      BY <2>3 DEF ReversalLinked
    <3> QED BY <1>1, <1>18, <2>3, <3>1, <3>2
  <2> QED BY <1>17, <2>2, <2>3
<1> QED BY <1>10, <1>11, <1>12, <1>13, <1>14, <1>15, <1>16, <1>19, <1>20, <1>21 DEF SessionInv

-----------------------------------------------------------------------------
(* The theorems                                                            *)

(* Inv holds of the empty database the migrations leave.                   *)
LEMMA InitInv == Init => Inv
<1> SUFFICES ASSUME Init PROVE Inv
  OBVIOUS
<1> USE DEF Init
<1>1. TypeOK
  BY DEF TypeOK, Steps
<1>2. SessionInv
  BY DEF SessionInv, EntriesFresh, JobsAuthorized, KeysHeld, IdsDrawn
<1>3. Entries = {}
  BY DEF Entries
<1>4. OneUnit /\ AckStable /\ AuditForest /\ ReversalLinked /\ Authorized
  BY <1>3 DEF OneUnit, AckStable, AuditForest, ReversalLinked, Authorized
<1> QED BY <1>1, <1>2, <1>4 DEF Inv

(* Every step of every handler, of the clock and of the issuer keeps Inv.  *)
LEMMA StepInv == Inv /\ [Next]_vars => Inv'
<1> SUFFICES ASSUME Inv, [Next]_vars PROVE Inv'
  OBVIOUS
<1>1. CASE Tick
  BY <1>1, TickInv
<1>2. ASSUME NEW action \in Actions, NEW d \in Scopes, IssueToken(action, d)
      PROVE  Inv'
  BY <1>2, IssueTokenInv
<1>3. ASSUME NEW w \in Workers, Request(w)
      PROVE  Inv'
  BY <1>3, ReplayInv, PostInv, ReverseInv DEF Request
<1>4. ASSUME NEW w \in Workers, Progress(w)
      PROVE  Inv'
  BY <1>4, LoadInv, LockRowInv, InsertKeyInv, ReadTailInv, InsertEventInv, CommitInv
     DEF Progress
<1>5. ASSUME NEW w \in Workers, Abort(w)
      PROVE  Inv'
  BY <1>5, IdleInv DEF Abort
<1>6. CASE UNCHANGED vars
  <2> USE <1>6 DEF vars, Inv
  <2>1. TypeOK'
    BY DEF TypeOK
  <2>2. SessionInv'
    BY DEF SessionInv, EntriesFresh, JobsAuthorized, KeysHeld, IdsDrawn, HoldsKey
  <2> QED BY <2>1, <2>2, TablesInv
<1> QED BY <1>1, <1>2, <1>3, <1>4, <1>5, <1>6 DEF Next

(* The inductive invariant of the service.                                 *)
THEOREM Invariance == Spec => []Inv
<1> QED BY InitInv, StepInv, PTL DEF Spec

(* Every variable keeps its type.                                          *)
THEOREM TypeCorrect == Spec => []TypeOK
<1>1. Inv => TypeOK
  BY DEF Inv
<1> QED BY <1>1, Invariance, PTL

(* What a session checked or drew before its locks holds until it commits. *)
THEOREM SessionsSound == Spec => []SessionInv
<1>1. Inv => SessionInv
  BY DEF Inv
<1> QED BY <1>1, Invariance, PTL

(* However the threads interleave and roll back, the entry, its key and    *)
(* its audit event come into being together and only together.             *)
THEOREM OneUnitAlways == Spec => []OneUnit
<1>1. Inv => OneUnit
  BY DEF Inv
<1> QED BY <1>1, Invariance, PTL

(* An idempotency key is answered with one entry for ever.                 *)
THEOREM AckStableAlways == Spec => []AckStable
<1>1. Inv => AckStable
  BY DEF Inv
<1> QED BY <1>1, Invariance, PTL

(* The audit log is a forest of committed events rooted at genesis (it is  *)
(* not a chain: that is what the run erp_chain refutes).                   *)
THEOREM AuditForestAlways == Spec => []AuditForest
<1>1. Inv => AuditForest
  BY DEF Inv
<1> QED BY <1>1, Invariance, PTL

(* A reversed entry and its reversal name each other, races included.      *)
THEOREM ReversalLinkedAlways == Spec => []ReversalLinked
<1>1. Inv => ReversalLinked
  BY DEF Inv
<1> QED BY <1>1, Invariance, PTL

(* No entry without a token of the right action for the right detail.      *)
THEOREM AuthorizedAlways == Spec => []Authorized
<1>1. Inv => Authorized
  BY DEF Inv
<1> QED BY <1>1, Invariance, PTL

(* Only COMMIT changes what a step may do to committed rows.               *)
LEMMA CommittedOnly ==
  ASSUME Inv, [Next]_vars
  PROVE  \/ \E w \in Workers : Commit(w)
         \/ \E w \in Workers, k \in Keys : Replay(w, k)
         \/ UNCHANGED <<journal, keys, audit, acked>>
BY DEF Next, Request, Progress, Tick, IssueToken, Post, Reverse, Load, LockRow,
       InsertKey, ReadTail, InsertEvent, Abort, vars, dbVars

(* Nothing committed is ever taken back, rewritten or unreversed.          *)
THEOREM AppendOnlyAlways == Spec => AppendOnly
<1>1. Inv /\ [Next]_vars => [AppendStep]_vars
  <2> SUFFICES ASSUME Inv, [Next]_vars PROVE AppendStep
    OBVIOUS
  <2>1. ASSUME NEW w \in Workers, Commit(w)
        PROVE  AppendStep
    <3> DEFINE e == job[w].entry
               k == job[w].key
    <3>1. /\ keys' = [keys EXCEPT ![k] = e] /\ audit \subseteq audit'
          /\ pc[w] = "commit"
      BY <2>1 DEF Commit
    <3>2. keys[k] = None /\ keys \in [Keys -> EntryIds \cup {None}]
      BY <3>1 DEF Inv, SessionInv, KeysHeld, TypeOK
    <3>3. \A f \in Entries :
            /\ journal'[f] # None
            /\ journal'[f].detail = journal[f].detail
            /\ journal'[f].orig = journal[f].orig
            /\ journal[f].status = "reversed" => journal'[f].status = "reversed"
      BY <2>1, CommitRows DEF Entries, Actions
    <3> QED BY <3>1, <3>2, <3>3 DEF AppendStep
  <2>2. ASSUME NEW w \in Workers, NEW k \in Keys, Replay(w, k)
        PROVE  AppendStep
    BY <2>2 DEF Replay, AppendStep, Entries
  <2>3. CASE UNCHANGED <<journal, keys, audit, acked>>
    BY <2>3 DEF AppendStep, Entries
  <2> QED BY <2>1, <2>2, <2>3, CommittedOnly
<1> QED BY <1>1, Invariance, PTL DEF Spec, AppendOnly

-----------------------------------------------------------------------------
(* Refinement: the threads implement the atomic ledger                     *)

(* A COMMIT is one atomic posting or reversal of the ledger.               *)
LEMMA CommitRefines ==
  ASSUME Inv, NEW w \in Workers, Commit(w)
  PROVE  Ledger!Next
<1> DEFINE j == job[w]
           e == job[w].entry
           k == job[w].key
           o == job[w].target
           ev == EventOf(job[w])
<1>1. /\ pc[w] = "commit"
      /\ journal' = IF j.action = "post"
                    THEN [journal EXCEPT ![e] = Ledger!NewRow(j.detail, None)]
                    ELSE Ledger!WithReversal(journal, o, e)
      /\ keys' = [keys EXCEPT ![k] = e]
      /\ audit' = audit \cup {ev}
      /\ acked' = acked \cup {<<k, e>>}
  BY DEF Commit
<1>2. k \in Keys /\ keys[k] = None
  BY <1>1, CommitRows DEF Inv, SessionInv, KeysHeld, Job
<1>3. e \in EntryIds /\ journal[e] = None /\ j.action \in Actions
  BY CommitRows
<1>4. /\ ev.entry = e
      /\ ev.type = IF j.action = "post" THEN "posted" ELSE "reversed"
  BY DEF EventOf
<1>5. TrailOf(audit)' = TrailOf(audit) \cup {[type |-> ev.type, entry |-> ev.entry]}
  BY <1>1 DEF TrailOf
<1>6. CASE j.action = "post"
  <2>1. j.detail \in Ledger!PostDetail
    BY <1>1, <1>6 DEF Inv, SessionInv, JobsAuthorized
  <2>2. Ledger!Post(k, j.detail, e)
    BY <1>1, <1>2, <1>3, <1>4, <1>5, <1>6 DEF Ledger!Post
  <2> QED BY <1>2, <1>3, <2>1, <2>2 DEF Ledger!Next
<1>7. CASE j.action = "reverse"
  <2>1. o \in EntryIds /\ journal[o] # None
    BY <1>7, CommitRows
  <2>2. Ledger!Reverse(k, o, e)
    BY <1>1, <1>2, <1>3, <1>4, <1>5, <1>7, <2>1 DEF Ledger!Reverse
  <2> QED BY <1>2, <1>3, <2>1, <2>2 DEF Ledger!Next
<1> QED BY <1>3, <1>6, <1>7 DEF Actions

(* Every other step is a replay of the ledger or invisible to it.          *)
LEMMA StepRefines ==
  ASSUME Inv, [Next]_vars
  PROVE  [Ledger!Next]_(Ledger!ledgerVars)
<1>1. ASSUME NEW w \in Workers, Commit(w)
      PROVE  Ledger!Next
  BY <1>1, CommitRefines
<1>2. ASSUME NEW w \in Workers, NEW k \in Keys, Replay(w, k)
      PROVE  Ledger!Next
  <2>1. Ledger!Replay(k)
    BY <1>2 DEF Replay, Ledger!Replay, TrailOf
  <2> QED BY <2>1 DEF Ledger!Next
<1>3. CASE UNCHANGED <<journal, keys, audit, acked>>
  BY <1>3 DEF Ledger!ledgerVars, TrailOf
<1> QED BY <1>1, <1>2, <1>3, CommittedOnly

(* The service, with its sessions, locks and rollbacks, implements the     *)
(* ledger in which a request is one atomic, idempotent step.               *)
THEOREM Refinement == Spec => LedgerSpec
<1>1. Init => Ledger!Init
  BY DEF Init, Ledger!Init, TrailOf
<1>2. Inv /\ [Next]_vars => [Ledger!Next]_(Ledger!ledgerVars)
  BY StepRefines
<1> QED BY <1>1, <1>2, Invariance, PTL DEF Spec, LedgerSpec, Ledger!Spec
=============================================================================
