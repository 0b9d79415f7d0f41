\* Two invocations on one thread, two transactions it may carry, and up to
\* four starts, reviews, failures and deaths in any mixture.
SPECIFICATION Spec
CONSTANTS
  Invs = {i1, i2}
  Cases = {c1}
  Amounts = {1, 2}
  Parties = {p1}
  EntryIds = {e1, e2}
  ExactLimit = 4
  None = None
  Ledgers = {l1}
  Statement <- MCStatement
  MaxStarts = 2
  MaxReviews = 3
  MaxFaults = 1
  MaxDeaths = 1
  MaxEvents = 4
VIEW PostingView
SYMMETRY Symmetry
INVARIANTS
  TypeOK
  PostedWasApproved
  OneEntryPerCase
  PostedInErp
  WorkflowInv
PROPERTIES
  PostingSpec
