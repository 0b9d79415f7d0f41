\* Two postings at once are enough.
SPECIFICATION Spec
CONSTANTS
  Workers = {w1, w2}
  Cases = {c1}
  Amounts = {1}
  Parties = {p1}
  Keys = {k1, k2}
  EntryIds = {e1, e2}
  ExactLimit = 4
  None = None
  Ttl = 1
  MaxTime = 0
  MaxAuditId = 2
SYMMETRY Symmetry
INVARIANTS
  ChainLinear
