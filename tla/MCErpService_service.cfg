\* Two threads that may want the same key and the same row, a token that
\* expires, and room for one event that is rolled back; as many uuids as
\* requests that MaxAuditId admits, so that Load never runs out of them.
SPECIFICATION FairSpec
CONSTANTS
  Workers = {w1, w2}
  Cases = {c1}
  Amounts = {1}
  Parties = {p1}
  Keys = {k1, k2}
  EntryIds = {e1, e2, e3}
  ExactLimit = 4
  None = None
  Ttl = 1
  MaxTime = 1
  MaxAuditId = 3
INVARIANTS
  TypeOK
  OneUnit
  AckStable
  AuditForest
  ReversalLinked
  Authorized
  SessionInv
PROPERTIES
  AppendOnly
  LedgerSpec
  Answered
