\* Two uploads on two threads, two transactions that match one ledger entry,
\* an exception and a death.
SPECIFICATION UploadSpec
CONSTANTS
  Invs = {i1, i2}
  Cases = {c1, c2}
  Amounts = {1}
  Parties = {p1}
  EntryIds = {e1}
  ExactLimit = 4
  None = None
  Ledgers = {l1}
  c1 = c1
  c2 = c2
  l1 = l1
  Statement <- MCStatement
  Statements <- MCStatements
  MaxUploads = 2
  MaxDirect = 0
  MaxStarts = 4
  MaxReviews = 0
  MaxFaults = 1
  MaxDeaths = 1
  MaxEvents = 6
SYMMETRY Symmetry
INVARIANTS
  UploadTypeOK
  ClearedIsClaimed
  EveryRowHasCase
  AnswerReachesCases
PROPERTIES
  OnlyFailedRunAgain
