\* One thread, one case: uploads that meet it twice, a run from POST /cases,
\* reviews, failures and sweeps in any order; none killed.
SPECIFICATION FairUploadSpec
CONSTANTS
  Invs = {i1}
  Cases = {c1}
  Amounts = {1}
  Parties = {p1}
  EntryIds = {e1}
  ExactLimit = 4
  None = None
  Ledgers = {l1}
  c1 = c1
  c2 = c1
  l1 = l1
  Statement <- MCStatement
  Statements <- MCStatements
  MaxUploads = 2
  MaxDirect = 1
  MaxStarts = 5
  MaxReviews = 4
  MaxFaults = 1
  MaxDeaths = 0
  MaxEvents = 10
INVARIANTS
  PendingIsResumable
PROPERTIES
  InvocationEnds
  UploadEnds
