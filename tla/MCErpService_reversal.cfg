\* One posting, then two reversals of it under different keys.
SPECIFICATION Spec
CONSTANTS
  Workers = {w1, w2}
  Cases = {c1}
  Amounts = {1}
  Parties = {p1}
  Keys = {k1, k2, k3}
  EntryIds = {e1, e2, e3}
  ExactLimit = 4
  None = None
  Ttl = 1
  MaxTime = 0
  MaxAuditId = 3
SYMMETRY Symmetry
INVARIANTS
  SingleReversal
