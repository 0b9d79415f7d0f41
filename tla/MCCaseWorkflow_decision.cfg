\* One reviewer after another, one lost request.
SPECIFICATION Spec
CONSTANTS
  Invs = {i1}
  Cases = {c1}
  Amounts = {1}
  Parties = {p1}
  EntryIds = {e1}
  ExactLimit = 4
  None = None
  Ledgers = {}
  Statement <- MCStatement
  MaxStarts = 1
  MaxReviews = 2
  MaxFaults = 1
  MaxDeaths = 0
  MaxEvents = 9
SYMMETRY Symmetry
INVARIANTS
  LastDecisionHonoured
