----------------------------- MODULE ErpService -----------------------------
(***************************************************************************)
(* The mock ERP as it runs: FastAPI executes the synchronous handlers of   *)
(* recon_erp/app.py on a pool of threads, each with a SQLAlchemy session   *)
(* of its own on PostgreSQL at READ COMMITTED.  A handler sees the rows    *)
(* that are committed when each of its statements runs; its own writes     *)
(* become visible all at once at COMMIT.                                   *)
(*                                                                         *)
(* One action is one stretch of a handler between two statements that      *)
(* other sessions can tell apart.  append_audit_event queries the audit    *)
(* log, and that query autoflushes the pending rows BEFORE the tail of the *)
(* log is read; the INSERT of the event follows it, at commit().  A flush  *)
(* takes the mapped classes in the order of their names: the INSERT of the *)
(* IdempotencyKeyRow goes first, then the UPDATE of the JournalEntryRow    *)
(* that is reversed and the INSERT of the new one, of an id nobody has.    *)
(*                                                                         *)
(* A refused request (401, 403, 404, 409) and a failed one (500) write     *)
(* nothing: before the first statement that matters that is a stuttering   *)
(* step, later it is the thread going idle with nothing published.         *)
(***************************************************************************)
EXTENDS Integers, FiniteSets

CONSTANTS
  Workers,     \* threads of the pool
  Cases, Amounts, Parties, Keys, EntryIds, ExactLimit, None,
  Ttl,         \* TOKEN_TTL_SECONDS, in ticks of the clock
  MaxTime,     \* bound: last tick of the clock
  MaxAuditId   \* bound: last value drawn from audit_log_id_seq

VARIABLES
  journal,     \* journal_entries, as committed
  keys,        \* idempotency_keys, as committed
  audit,       \* audit_log, as committed: a set of events
  auditSeq,    \* audit_log_id_seq; a sequence is not rolled back
  acked,       \* <<key, entry>> pairs returned with 201 (history)
  now,         \* the clock the tokens are checked against
  issued,      \* approval tokens signed so far
  pc,          \* where each thread's handler stands
  job          \* what each thread's session holds, None when idle

dbVars == <<journal, keys, audit, auditSeq, acked>>
vars == <<journal, keys, audit, auditSeq, acked, now, issued, pc, job>>

(* The abstract ledger: the chain and the ids of the audit log are hidden. *)
TrailOf(log) == {[type |-> ev.type, entry |-> ev.entry] : ev \in log}
Ledger == INSTANCE ErpLedger WITH trail <- TrailOf(audit)

-----------------------------------------------------------------------------
(* Types                                                                   *)

Actions == {"post", "reverse"}

(* detail stands for both the case_id and the detail_hash of the claims.   *)
Token == [action: Actions, detail: Ledger!Detail, exp: Nat]

(* prev is the previous event's hash, named by that event's id; 0 is the   *)
(* genesis hash.  The payload of a "posted" event is the detail posted,    *)
(* that of a "reversed" one names the original entry.                      *)
Event == [id: Nat \ {0}, type: {"posted", "reversed"}, entry: EntryIds,
          case: Cases, payload: Ledger!Detail \cup EntryIds, prev: Nat]

(* target is the entry to reverse, None for a posting; detail is that of   *)
(* the request, or of the entry to reverse once it is loaded.              *)
Job == [action: Actions, key: Keys, token: Token \cup {None},
        target: EntryIds \cup {None}, detail: Ledger!Detail \cup {None},
        entry: EntryIds \cup {None}, prev: Nat, id: Nat]

(* NULL is no id, no row and no session's work.                            *)
ASSUME ServiceAssumption ==
  /\ Amounts \subseteq Int
  /\ None \notin EntryIds \cup Ledger!Row \cup Job
  /\ Ttl \in Nat \ {0}

Steps == {"idle", "load", "key", "lock", "chain", "log", "commit"}

TypeOK ==
  /\ journal \in [EntryIds -> Ledger!Row \cup {None}]
  /\ keys \in [Keys -> EntryIds \cup {None}]
  /\ audit \subseteq Event
  /\ auditSeq \in Nat
  /\ acked \subseteq Keys \X EntryIds
  /\ now \in Nat
  /\ issued \subseteq Token
  /\ pc \in [Workers -> Steps]
  /\ job \in [Workers -> Job \cup {None}]
  /\ \A w \in Workers : pc[w] = "idle" <=> job[w] = None

-----------------------------------------------------------------------------
(* Approval tokens                                                         *)

(* Mutant of Verified: the token's scope is not compared with the action.  *)
VerifiedAnyAction(tok, action, d) ==
  /\ tok \in issued
  /\ now < tok.exp
  /\ tok.detail = d

(* verify_token: signature (only an issued token has one), expiry, action, *)
(* case and detail hash.                                                   *)
Verified(tok, action, d) ==
  /\ tok \in issued
  /\ now < tok.exp
  /\ tok.action = action
  /\ tok.detail = d

(* A post token is issued for a transaction, a reverse token for an entry  *)
(* of the journal.                                                         *)
Issuable(action, d) ==
  \/ action = "post" /\ d \in Ledger!PostDetail
  \/ action = "reverse" /\ \E e \in EntryIds : journal[e] # None /\ journal[e].detail = d

IssueToken(action, d) ==
  /\ Issuable(action, d)
  /\ issued' = issued \cup {[action |-> action, detail |-> d, exp |-> now + Ttl]}
  /\ UNCHANGED <<dbVars, now, pc, job>>

Tick ==
  /\ now < MaxTime
  /\ now' = now + 1
  /\ UNCHANGED <<dbVars, issued, pc, job>>

-----------------------------------------------------------------------------
(* Locks: what a session has written and not yet committed                 *)

(* Mutant of HoldsKey: a key that is inserted only when the event is.      *)
HoldsKeyLate(w, k) == pc[w] = "commit" /\ job[w].key = k

HoldsKey(w, k) == pc[w] \in {"lock", "chain", "log", "commit"} /\ job[w].key = k

(* Mutant of HoldsRow: the entry is loaded FOR SHARE, to be updated later. *)
HoldsRowShared(w, o) ==
  /\ pc[w] \in {"key", "lock", "chain", "log", "commit"}
  /\ job[w].target = o

HoldsRow(w, o) == pc[w] \in {"chain", "log", "commit"} /\ job[w].target = o

(* A uuid nobody has: not committed, not in a session.                     *)
Unused(e) ==
  /\ journal[e] = None
  /\ \A w \in Workers : job[w] # None => job[w].entry # e

(* Mutant of IsTail: the last id drawn, committed or not.                  *)
IsTailUncommitted(i) == i = auditSeq

(* The event ORDER BY id DESC LIMIT 1 returns, 0 for an empty log.         *)
IsTail(i) ==
  LET ids == {0} \cup {ev.id : ev \in audit}
  IN  i \in ids /\ \A n \in ids : n <= i

-----------------------------------------------------------------------------
(* Steps common to the handlers                                            *)

(* Mutant of Idle: the session is not closed.                              *)
IdleSessionOpen(w) ==
  /\ pc' = [pc EXCEPT ![w] = "idle"]
  /\ UNCHANGED job

Idle(w) ==
  /\ pc' = [pc EXCEPT ![w] = "idle"]
  /\ job' = [job EXCEPT ![w] = None]

(* Bound: every request admitted may draw an id without passing MaxAuditId. *)
Room ==
  auditSeq + Cardinality({w \in Workers : pc[w] \notin {"idle", "commit"}}) < MaxAuditId

(* The lookup of the idempotency key comes first in both handlers: before  *)
(* the bearer token, the entry to reverse or the body is looked at.        *)
Replay(w, k) ==
  /\ pc[w] = "idle"
  /\ keys[k] # None
  /\ acked' = acked \cup {<<k, keys[k]>>}
  /\ UNCHANGED <<journal, keys, audit, auditSeq, now, issued, pc, job>>

(* post_journal_entry, up to the entry being added to the session.         *)
Post(w, k, d, tok) ==
  /\ pc[w] = "idle" /\ Room
  /\ keys[k] = None
  /\ Verified(tok, "post", d)
  /\ \E e \in EntryIds :
       /\ Unused(e)
       /\ job' = [job EXCEPT ![w] =
            [action |-> "post", key |-> k, token |-> tok, target |-> None,
             detail |-> d, entry |-> e, prev |-> 0, id |-> 0]]
  /\ pc' = [pc EXCEPT ![w] = "key"]
  /\ UNCHANGED <<dbVars, now, issued>>

(* reverse_journal_entry, up to the lookup of its key.                     *)
Reverse(w, k, o, tok) ==
  /\ pc[w] = "idle" /\ Room
  /\ keys[k] = None
  /\ job' = [job EXCEPT ![w] =
       [action |-> "reverse", key |-> k, token |-> tok, target |-> o,
        detail |-> None, entry |-> None, prev |-> 0, id |-> 0]]
  /\ pc' = [pc EXCEPT ![w] = "load"]
  /\ UNCHANGED <<dbVars, now, issued>>

(* The entry as the reversal's session sees it may be reversed.            *)
Reversible(o) == journal[o] # None /\ journal[o].status # "reversed"

(* session.get(JournalEntryRow, entry_id) and the three checks on it.      *)
Load(w) ==
  LET o == job[w].target IN
  /\ pc[w] = "load"
  /\ \/ /\ Reversible(o)
        /\ Verified(job[w].token, "reverse", journal[o].detail)
        /\ \E e \in EntryIds :
             /\ Unused(e)
             /\ job' = [job EXCEPT ![w].detail = journal[o].detail, ![w].entry = e]
        /\ pc' = [pc EXCEPT ![w] = "key"]
     \/ /\ ~ (Reversible(o) /\ Verified(job[w].token, "reverse", journal[o].detail))
        /\ Idle(w)
  /\ UNCHANGED <<dbVars, now, issued>>

(* A reversal has a row to update next, a posting none.                    *)
AfterKey(w) == IF job[w].action = "reverse" THEN "lock" ELSE "chain"

(* Mutant of InsertKey: merge() in place of add() overwrites the row.      *)
InsertKeyMerge(w) ==
  /\ pc[w] = "key"
  /\ \A v \in Workers : ~HoldsKey(v, job[w].key)
  /\ pc' = [pc EXCEPT ![w] = AfterKey(w)]
  /\ UNCHANGED <<dbVars, now, issued, job>>

(* INSERT INTO idempotency_keys: waits while another session has inserted  *)
(* the key, fails on the primary key once one has committed it.            *)
InsertKey(w) ==
  LET k == job[w].key IN
  /\ pc[w] = "key"
  /\ \A v \in Workers : ~HoldsKey(v, k)
  /\ \/ /\ keys[k] = None
        /\ pc' = [pc EXCEPT ![w] = AfterKey(w)]
        /\ UNCHANGED job
     \/ /\ keys[k] # None
        /\ Idle(w)
  /\ UNCHANGED <<dbVars, now, issued>>

(* UPDATE journal_entries ... WHERE id = o waits for the row's lock.  Once *)
(* it has it, READ COMMITTED looks at the id alone: the status this        *)
(* session read in Load is not compared again.                             *)
LockRow(w) ==
  /\ pc[w] = "lock"
  /\ \A v \in Workers \ {w} : ~HoldsRow(v, job[w].target)
  /\ pc' = [pc EXCEPT ![w] = "chain"]
  /\ UNCHANGED <<dbVars, now, issued, job>>

(* The SELECT of append_audit_event: the hash to chain onto.               *)
ReadTail(w) ==
  /\ pc[w] = "chain"
  /\ \E i \in 0 .. auditSeq : IsTail(i) /\ job' = [job EXCEPT ![w].prev = i]
  /\ pc' = [pc EXCEPT ![w] = "log"]
  /\ UNCHANGED <<dbVars, now, issued>>

(* INSERT INTO audit_log, flushed by commit(): draws the event's id.       *)
InsertEvent(w) ==
  /\ pc[w] = "log"
  /\ auditSeq' = auditSeq + 1
  /\ job' = [job EXCEPT ![w].id = auditSeq + 1]
  /\ pc' = [pc EXCEPT ![w] = "commit"]
  /\ UNCHANGED <<journal, keys, audit, acked, now, issued>>

(* Mutant of EventOf: the event of a reversal names the entry reversed.    *)
EventOfOriginal(j) ==
  [id |-> j.id, type |-> IF j.action = "post" THEN "posted" ELSE "reversed",
   entry |-> IF j.action = "post" THEN j.entry ELSE j.target,
   case |-> j.detail.case,
   payload |-> IF j.action = "post" THEN j.detail ELSE j.target,
   prev |-> j.prev]

EventOf(j) ==
  [id |-> j.id, type |-> IF j.action = "post" THEN "posted" ELSE "reversed",
   entry |-> j.entry, case |-> j.detail.case,
   payload |-> IF j.action = "post" THEN j.detail ELSE j.target,
   prev |-> j.prev]

(* COMMIT publishes the entry, the mark on the reversed one, the key and   *)
(* the event; the handler answers 201.                                     *)
Commit(w) ==
  LET j == job[w] IN
  /\ pc[w] = "commit"
  /\ journal' = IF j.action = "post"
                THEN [journal EXCEPT ![j.entry] = Ledger!NewRow(j.detail, None)]
                ELSE Ledger!WithReversal(journal, j.target, j.entry)
  /\ keys' = [keys EXCEPT ![j.key] = j.entry]
  /\ audit' = audit \cup {EventOf(j)}
  /\ acked' = acked \cup {<<j.key, j.entry>>}
  /\ Idle(w)
  /\ UNCHANGED <<auditSeq, now, issued>>

(* A database error, or the process dying: the session is closed and its   *)
(* transaction rolled back.  A crash is this for every thread.             *)
Abort(w) ==
  /\ pc[w] # "idle"
  /\ Idle(w)
  /\ UNCHANGED <<dbVars, now, issued>>

-----------------------------------------------------------------------------

Init ==
  /\ journal = [e \in EntryIds |-> None]
  /\ keys = [k \in Keys |-> None]
  /\ audit = {}
  /\ auditSeq = 0
  /\ acked = {}
  /\ now = 0
  /\ issued = {}
  /\ pc = [w \in Workers |-> "idle"]
  /\ job = [w \in Workers |-> None]

(* The details a token may be issued for: a transaction's, or a row's.     *)
Scopes == Ledger!PostDetail \cup {journal[e].detail : e \in {f \in EntryIds : journal[f] # None}}

Request(w) ==
  \E k \in Keys :
    \/ Replay(w, k)
    \/ \E d \in Ledger!PostDetail, tok \in issued : Post(w, k, d, tok)
    \/ \E o \in EntryIds, tok \in issued \cup {None} : Reverse(w, k, o, tok)

Progress(w) ==
  \/ Load(w) \/ InsertKey(w) \/ LockRow(w)
  \/ ReadTail(w) \/ InsertEvent(w) \/ Commit(w)

Next ==
  \/ Tick
  \/ \E action \in Actions, d \in Scopes : IssueToken(action, d)
  \/ \E w \in Workers : Request(w) \/ Progress(w) \/ Abort(w)

Spec == Init /\ [][Next]_vars

(* A thread that is running keeps running, and PostgreSQL queues the       *)
(* waiters of a lock: a session that could take it again and again gets it.*)
(* Clients, the clock and failures owe nothing.                            *)
Fairness ==
  \A w \in Workers :
    /\ WF_vars(Load(w) \/ ReadTail(w) \/ InsertEvent(w) \/ Commit(w))
    /\ SF_vars(InsertKey(w) \/ LockRow(w))

FairSpec == Spec /\ Fairness

-----------------------------------------------------------------------------
(* Properties                                                              *)

Entries == {e \in EntryIds : journal[e] # None}

(* The entry, its key and its event are one unit although they are three   *)
(* INSERTs: every entry has exactly one key and exactly one event, of its  *)
(* kind, from which the row can be told, and neither table mentions an     *)
(* entry that is not there, however many requests share a key.             *)
OneUnit ==
  /\ \A e \in Entries :
       /\ \E k \in Keys : keys[k] = e
       /\ \E ev \in audit :
            /\ ev.entry = e
            /\ ev.case = journal[e].detail.case
            /\ ev.payload = IF ev.type = "posted" THEN journal[e].detail ELSE journal[e].orig
  /\ \A k \in Keys : keys[k] \in Entries \cup {None}
  /\ \A k, l \in Keys : keys[k] = keys[l] /\ keys[k] # None => k = l
  /\ \A ev \in audit : ev.entry \in Entries
  /\ \A ev1, ev2 \in audit : ev1.entry = ev2.entry => ev1 = ev2

(* "Idempotency keys prevent replay" (README.md): all the 201 responses    *)
(* ever given for a key named the same entry, the one the key stands for.  *)
AckStable == \A a \in acked : keys[a[1]] = a[2]

(* Although ids are drawn and committed in different orders, by sessions   *)
(* that may roll back, an event never chains onto an event that was rolled *)
(* back or onto a later one: following prev always reaches genesis.        *)
AuditForest ==
  /\ \A ev \in audit :
       /\ ev.prev < ev.id
       /\ ev.id <= auditSeq
       /\ ev.prev = 0 \/ \E p \in audit : p.id = ev.prev
  /\ \A ev1, ev2 \in audit : ev1.id = ev2.id => ev1 = ev2

(* The two links of a reversal agree, even when reversals of one entry     *)
(* race: an entry is marked reversed exactly when some entry reverses it,  *)
(* and the one it names does.                                              *)
ReversalLinked ==
  \A e \in Entries :
    /\ journal[e].status = "reversed" =>
         /\ journal[e].rev \in Entries
         /\ journal[journal[e].rev].orig = e
    /\ journal[e].orig # None =>
         /\ journal[e].orig \in Entries
         /\ journal[journal[e].orig].status = "reversed"

(* Every entry was authorised for what it is: a posting by a "post" token  *)
(* for its own detail, a reversal by a "reverse" token for the detail of   *)
(* the entry it reverses, looked at two locks before it is written.        *)
Authorized ==
  \A e \in Entries :
    \E tok \in issued :
      IF journal[e].orig = None
      THEN tok.action = "post" /\ tok.detail = journal[e].detail
      ELSE tok.action = "reverse" /\ tok.detail = journal[journal[e].orig].detail

(* What a committed row may do: an entry keeps its detail and its origin   *)
(* and goes from posted to reversed, never back; a key keeps its entry;    *)
(* an event stays as it is (the grants give no UPDATE or DELETE on it).    *)
AppendStep ==
  /\ \A e \in Entries :
       /\ journal'[e] # None
       /\ journal'[e].detail = journal[e].detail
       /\ journal'[e].orig = journal[e].orig
       /\ journal[e].status = "reversed" => journal'[e].status = "reversed"
  /\ \A k \in Keys : keys[k] # None => keys'[k] = keys[k]
  /\ audit \subseteq audit'

AppendOnly == [][AppendStep]_vars

(* The invariant that makes the others inductive: what the sessions hold.  *)

(* An id drawn for an entry is nobody else's.                              *)
EntriesFresh ==
  \A w \in Workers :
    pc[w] \notin {"idle", "load"} =>
      /\ job[w].entry \in EntryIds
      /\ journal[job[w].entry] = None
      /\ \A v \in Workers \ {w} :
           pc[v] \notin {"idle", "load"} => job[v].entry # job[w].entry

(* What was verified before the locks still holds behind them.             *)
JobsAuthorized ==
  \A w \in Workers :
    /\ pc[w] \in {"load", "lock"} => job[w].action = "reverse"
    /\ pc[w] # "idle" /\ job[w].action = "reverse" => job[w].target \in EntryIds
    /\ pc[w] \notin {"idle", "load"} =>
         /\ job[w].token \in issued
         /\ job[w].token.action = job[w].action
         /\ job[w].token.detail = job[w].detail
         /\ job[w].action = "post" => job[w].detail \in Ledger!PostDetail
         /\ job[w].action = "reverse" =>
              /\ journal[job[w].target] # None
              /\ journal[job[w].target].detail = job[w].detail

(* A key inserted and not committed is one session's and no row's.         *)
KeysHeld ==
  \A w \in Workers :
    pc[w] \in {"lock", "chain", "log", "commit"} =>
      /\ keys[job[w].key] = None
      /\ \A v \in Workers : HoldsKey(v, job[w].key) => v = w

(* The tail a session has read is committed and older than the id it draws,*)
(* and that id is nobody else's.                                           *)
IdsDrawn ==
  \A w \in Workers :
    /\ pc[w] \in {"log", "commit"} =>
         /\ job[w].prev <= auditSeq
         /\ job[w].prev = 0 \/ \E p \in audit : p.id = job[w].prev
    /\ pc[w] = "commit" =>
         /\ job[w].id \in 1 .. auditSeq
         /\ job[w].prev < job[w].id
         /\ \A ev \in audit : ev.id # job[w].id
         /\ \A v \in Workers \ {w} : pc[v] = "commit" => job[v].id # job[w].id

(* The sessions agree with the tables, and the tables with each other.     *)
SessionInv == EntriesFresh /\ JobsAuthorized /\ KeysHeld /\ IdsDrawn

Inv ==
  /\ TypeOK /\ SessionInv
  /\ OneUnit /\ AckStable /\ AuditForest /\ ReversalLinked /\ Authorized

(* Every request is answered: no thread waits for ever for a key or, while *)
(* others wait for the key it holds, for a row.                            *)
Answered == \A w \in Workers : pc[w] # "idle" ~> pc[w] = "idle"

(* The threads, locks and statements implement the atomic ledger.          *)
LedgerSpec == Ledger!Spec

(* audit.py: "Each event's hash commits to its predecessor's hash, forming *)
(* a chain": no two events have the same predecessor.                      *)
ChainLinear == \A ev1, ev2 \in audit : ev1.prev = ev2.prev => ev1 = ev2

(* app.py, "Entry already reversed": an entry is reversed at most once.    *)
SingleReversal ==
  \A e, f \in Entries :
    journal[e].orig = journal[f].orig /\ journal[e].orig # None => e = f
=============================================================================
