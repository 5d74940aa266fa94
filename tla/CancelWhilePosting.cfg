\* A cancelled run that the ledger holds a journal of.
SPECIFICATION Spec
CONSTANTS
  ana = ana
  budi = budi
  Runs = {r1}
  Employees = {ana, budi}
  Accounts = {tax}
  Callers = {c1, c2}
  NetPay <- MCNetPay
  Deduction <- MCDeduction
  NoJournal = NoJournal
INVARIANT CancelledIsOffTheBooks
