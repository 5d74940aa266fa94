\* Slips are not added while the run is being processed or cancelled.
SPECIFICATION SerialFairSpec
CONSTANTS
  ana = ana
  budi = budi
  Runs = {r1}
  Employees = {ana, budi}
  Accounts = {tax, bpjs}
  Callers = {c1, c2}
  NetPay <- MCNetPay
  Deduction <- MCDeduction
  NoJournal = NoJournal
INVARIANTS
  TotalsAreTheSlips
  OneStory
PROPERTIES
  ImplementsBook
  ProcessedIsPosted
