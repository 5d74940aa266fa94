---------------------------- MODULE MCPayrollRun -----------------------------
(* Small instances of PayrollRun.  Ana's slip carries a deduction on every   *)
(* account, Budi's none: a late slip of his leaves an envelope balanced, a   *)
(* late slip of hers does not.                                               *)
EXTENDS PayrollRun

CONSTANTS ana, budi

MCNetPay == [e \in Employees |-> 2]

MCDeduction ==
  [e \in Employees |-> [a \in Accounts |-> IF e = ana THEN 1 ELSE 0]]

==============================================================================
