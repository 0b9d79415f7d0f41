--------------------------- MODULE ApprovedPosting ---------------------------
(***************************************************************************)
(* What the agent promises of the books it writes to (README.md: it posts  *)
(* "only after human approval"): reviewers approve a transaction for a     *)
(* case, and a case is posted at most once, with a transaction approved    *)
(* for it.  Restarts, retries and late requests are below this view.       *)
(***************************************************************************)
CONSTANTS Cases, Txns, None

VARIABLES
  approved,   \* <<case, transaction>> somebody has approved
  posted      \* case -> transaction in the books, None before

Init == approved = {} /\ posted = [c \in Cases |-> None]

Approve(c, t) ==
  /\ approved' = approved \cup {<<c, t>>}
  /\ UNCHANGED posted

Post(c, t) ==
  /\ <<c, t>> \in approved /\ posted[c] = None
  /\ posted' = [posted EXCEPT ![c] = t]
  /\ UNCHANGED approved

Next == \E c \in Cases, t \in Txns : Approve(c, t) \/ Post(c, t)

Spec == Init /\ [][Next]_<<approved, posted>>
=============================================================================
