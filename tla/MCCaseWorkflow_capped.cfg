\* Two reviewers reject the same case at the same time.
SPECIFICATION Spec
CONSTANTS
  Invs = {i1, i2}
  Cases = {c1}
  Amounts = {1}
  Parties = {p1}
  EntryIds = {e1}
  ExactLimit = 4
  None = None
  Ledgers = {}
  Statement <- MCStatement
  MaxStarts = 1
  MaxReviews = 4
  MaxFaults = 0
  MaxDeaths = 0
  MaxEvents = 9
SYMMETRY Symmetry
INVARIANTS
  RejectionsCapped
