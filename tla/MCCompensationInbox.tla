-------------------------- MODULE MCCompensationInbox --------------------------
(* Ana's events: she is hired with an offer, moves without a new salary,      *)
(* completes her onboarding and leaves, her settlement not in the payload.    *)
EXTENDS CompensationInbox

CONSTANTS ana, pay, hired, moved, joined, left

MCKind ==
  [v \in Events |->
     CASE v = hired -> "hire"
       [] v = joined -> "onboarding"
       [] v = moved -> "promotion"
       [] OTHER -> "offboarding"]

MCWho == [v \in Events |-> ana]

MCOffered == [v \in Events |-> IF v = hired THEN pay ELSE None]

================================================================================
