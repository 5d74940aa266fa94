-------------------------------- MODULE RunLife --------------------------------
(*****************************************************************************)
(* The life of payroll runs as everybody but the verb at work sees it: the   *)
(* status of each run and whose slips it holds, one committed statement a    *)
(* step.  A verb that reads several times (a comparison, a plan of a         *)
(* structure change) has to live with any of these steps in between.         *)
(*                                                                           *)
(* No discipline of use is assumed: a slip whose draft check came before the *)
(* run moved on still lands.  SalaryBook has what the discipline adds.       *)
(*****************************************************************************)
CONSTANTS Runs, People

VARIABLES status,   \* payroll_entries: the status of each run
          roster    \* salary_slips: who has a slip in each

vars == <<status, roster>>

Init ==
  /\ status \in [Runs -> {"absent", "draft"}]
  /\ roster = [r \in Runs |-> {}]

Moves(r, from, to) ==
  /\ status[r] = from
  /\ status' = [status EXCEPT ![r] = to]

Create(r) == Moves(r, "absent", "draft") /\ UNCHANGED roster

AddSlip(r, e) ==
  /\ status[r] # "absent"
  /\ e \notin roster[r]
  /\ roster' = [roster EXCEPT ![r] = @ \cup {e}]
  /\ UNCHANGED status

Process(r) ==
  /\ roster[r] # {}
  /\ Moves(r, "draft", "processed")
  /\ UNCHANGED roster

Post(r) == Moves(r, "processed", "posted") /\ UNCHANGED roster

\* The slips of a draft go with it ...
CancelDraft(r) ==
  /\ Moves(r, "draft", "cancelled")
  /\ roster' = [roster EXCEPT ![r] = {}]

\* ... those of a processed run stay.
CancelProcessed(r) == Moves(r, "processed", "cancelled") /\ UNCHANGED roster

Step(r) ==
  \/ Create(r) \/ Process(r) \/ Post(r) \/ CancelDraft(r) \/ CancelProcessed(r)
  \/ \E e \in People : AddSlip(r, e)

Next == \E r \in Runs : Step(r)

Spec == Init /\ [][Next]_vars

===============================================================================
