--------------------------- MODULE PolicyVersion ---------------------------
(***************************************************************************)
(* investigator/policy_store.py: which version of a policy is in effect at *)
(* a date.  The semantic search that names the policy is not modelled:     *)
(* chunks are those of the policy it names, in the order they are scrolled.*)
(***************************************************************************)
EXTENDS Integers, Sequences, FiniteSetsExt

CONSTANTS
  NoPolicy,      \* NoPolicyInEffectError
  scroll_limit   \* the chunks of a policy that are fetched

ASSUME ScrollAssumption == scroll_limit \in Nat

(* One page of the collection; the offset of the next is dropped.          *)
scroll(points) ==
  IF Len(points) <= scroll_limit THEN points ELSE SubSeq(points, 1, scroll_limit)

(* The dict {version: effective_date}: the last chunk of a version wins.   *)
versions_seen(chunks) ==
  [v \in {chunks[i].version : i \in DOMAIN chunks} |->
     chunks[Max({i \in DOMAIN chunks : chunks[i].version = v})].date]

(* Its keys are in the order in which the versions first appear.           *)
FirstSeen(chunks, v) == Min({i \in DOMAIN chunks : chunks[i].version = v})

(* Mutant of eligible: a version is not in effect on its first day.        *)
eligible_later(chunks, date) ==
  {v \in DOMAIN versions_seen(chunks) : versions_seen(chunks)[v] < date}

eligible(chunks, date) ==
  {v \in DOMAIN versions_seen(chunks) : versions_seen(chunks)[v] <= date}

(* max(): of the latest versions, the one that comes first.                *)
retrieve_policy(chunks, date) ==
  LET seen   == versions_seen(chunks)
      latest == {v \in eligible(chunks, date) :
                   \A w \in eligible(chunks, date) : seen[w] <= seen[v]}
  IN  IF latest = {} THEN NoPolicy
      ELSE CHOOSE v \in latest :
             \A w \in latest : FirstSeen(chunks, v) <= FirstSeen(chunks, w)

-----------------------------------------------------------------------------
(* Reference definition: a text of the version was issued by the date, and *)
(* no text of any version was issued between it and the date.              *)
InEffect(chunks, date, v) ==
  \E i \in DOMAIN chunks :
    /\ chunks[i].version = v /\ chunks[i].date <= date
    /\ \A j \in DOMAIN chunks : chunks[j].date <= date => chunks[j].date <= chunks[i].date
=============================================================================
