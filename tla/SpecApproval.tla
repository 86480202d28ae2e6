----------------------------- MODULE SpecApproval -----------------------------
(***************************************************************************)
(* What the Phase-A domain promises: a specification is started once, goes *)
(* through review rounds, and is approved at most once, by a decision on   *)
(* the review that is open. Every step moves the version by exactly one,   *)
(* and an approved specification never changes again.                      *)
(***************************************************************************)
EXTENDS Naturals

CONSTANTS ReviewIds, NoReview

VARIABLES
  phase,            \* "missing", "drafting", "reviewing" or "approved"
  review,           \* the review that is open
  verdict,          \* the decision the last step took, or "none"
  version
vars == <<phase, review, verdict, version>>

Init == phase = "missing" /\ review = NoReview /\ verdict = "none" /\ version = 0

Start ==
  /\ phase = "missing"
  /\ phase' = "drafting" /\ review' = NoReview /\ version' = 1
  /\ verdict' = "none"

RequestReview == \E r \in ReviewIds :
  /\ phase = "drafting"
  /\ phase' = "reviewing" /\ review' = r /\ version' = version + 1
  /\ verdict' = "none"

SendBack ==
  /\ phase = "reviewing"
  /\ phase' = "drafting" /\ review' = NoReview /\ version' = version + 1
  /\ verdict' \in {"REJECT", "REQUEST_CHANGES"}

Approve ==
  /\ phase = "reviewing"
  /\ phase' = "approved" /\ review' = NoReview /\ version' = version + 1
  /\ verdict' = "APPROVE"

Next == Start \/ RequestReview \/ SendBack \/ Approve
Spec == Init /\ [][Next]_vars
=============================================================================
