---------------------------- MODULE MCPaySchedule -----------------------------
(* A structure created with its basic pay, and an allowance some change adds. *)
(* A run's period starts on the last day, where every change reaches it, or   *)
(* on the second one, which the changes of a third day pass by.               *)
EXTENDS PaySchedule

CONSTANTS basic, meal, low, high, late

MCCreated == [i \in Items |-> IF i = basic THEN low ELSE "unborn"]
Set(i, v) == [j \in {i} |-> v]

\* A raise and an allowance from the second day, and on the last one
\* a change of both that no longer pays the basic.
MCOffers ==
  {<<2, Set(basic, high)>>, <<2, Set(meal, low)>>,
   <<LastDay, [i \in {basic, meal} |-> IF i = basic THEN "not paid" ELSE high]>>}

MCStart == [r \in Runs |-> LastDay]
MCSecondDay == [r \in Runs |-> 2]

===============================================================================
