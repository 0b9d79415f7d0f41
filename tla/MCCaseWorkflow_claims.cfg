\* One case, one process that dies.
SPECIFICATION Spec
CONSTANTS
  Invs = {i1}
  Cases = {c1}
  Amounts = {1}
  Parties = {p1}
  EntryIds = {e1}
  ExactLimit = 4
  None = None
  Ledgers = {l1}
  Statement <- MCStatement
  MaxStarts = 2
  MaxReviews = 0
  MaxFaults = 0
  MaxDeaths = 1
  MaxEvents = 9
SYMMETRY Symmetry
INVARIANTS
  RefusedByAnother
