------------------------------ MODULE SalaryBook ------------------------------
(*****************************************************************************)
(* What the payroll engine promises for each run when nobody looks inside    *)
(* its verbs: a roster of slips is collected, closed once, and that closed   *)
(* roster, no more and no less, is what the ledger books (at most once),     *)
(* what the world is told and what is remitted.  A run may be voided until   *)
(* it is posted.  A voided run can still come to be booked, if its posting   *)
(* was under way: the promise stops short of excluding that.                 *)
(*****************************************************************************)
CONSTANTS Runs, Employees, Accounts

VARIABLES phase,      \* phase[r]: how far the run has come
          roster,     \* roster[r]: whose slips it holds
          booked,     \* <<run, debited roster, credited roster>>
          announced,  \* <<run, net roster, payables roster>>
          remitted    \* <<run, account, roster whose deductions were sent>>

vars == <<phase, roster, booked, announced, remitted>>

Init ==
  /\ phase = [r \in Runs |-> "absent"]
  /\ roster = [r \in Runs |-> {}]
  /\ booked = {}
  /\ announced = {}
  /\ remitted = {}

Open(r) ==
  /\ phase[r] = "absent"
  /\ phase' = [phase EXCEPT ![r] = "draft"]
  /\ UNCHANGED <<roster, booked, announced, remitted>>

Enrol(r, e) ==
  /\ phase[r] = "draft"
  /\ roster' = [roster EXCEPT ![r] = @ \cup {e}]
  /\ UNCHANGED <<phase, booked, announced, remitted>>

Close(r) ==
  /\ phase[r] = "draft"
  /\ roster[r] # {}
  /\ phase' = [phase EXCEPT ![r] = "processed"]
  /\ UNCHANGED <<roster, booked, announced, remitted>>

VoidDraft(r) ==
  /\ phase[r] = "draft"
  /\ phase' = [phase EXCEPT ![r] = "cancelled"]
  /\ roster' = [roster EXCEPT ![r] = {}]
  /\ UNCHANGED <<booked, announced, remitted>>

VoidClosed(r) ==
  /\ phase[r] = "processed"
  /\ phase' = [phase EXCEPT ![r] = "cancelled"]
  /\ UNCHANGED <<roster, booked, announced, remitted>>

Book(r) ==
  /\ phase[r] \in {"processed", "cancelled"}
  /\ roster[r] # {}
  /\ booked' = booked \cup {<<r, roster[r], roster[r]>>}
  /\ UNCHANGED <<phase, roster, announced, remitted>>

Post(r) ==
  /\ phase[r] = "processed"
  /\ <<r, roster[r], roster[r]>> \in booked
  /\ phase' = [phase EXCEPT ![r] = "posted"]
  /\ UNCHANGED <<roster, booked, announced, remitted>>

Announce(r) ==
  /\ phase[r] = "posted"
  /\ announced' = announced \cup {<<r, roster[r], roster[r]>>}
  /\ UNCHANGED <<phase, roster, booked, remitted>>

Remit(r, a) ==
  /\ phase[r] = "posted"
  /\ remitted' = remitted \cup {<<r, a, roster[r]>>}
  /\ UNCHANGED <<phase, roster, booked, announced>>

Next ==
  \E r \in Runs :
    \/ Open(r) \/ Close(r) \/ VoidDraft(r) \/ VoidClosed(r)
    \/ Book(r) \/ Post(r) \/ Announce(r)
    \/ \E e \in Employees : Enrol(r, e)
    \/ \E a \in Accounts : Remit(r, a)

Spec == Init /\ [][Next]_vars

===============================================================================
