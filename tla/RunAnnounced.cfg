\* Crashes and publish failures against a client that re-runs the post.
SPECIFICATION FairSpec
CONSTANTS
  ana = ana
  budi = budi
  Runs = {r1}
  Employees = {ana, budi}
  Accounts = {tax}
  Callers = {c1, c2}
  NetPay <- MCNetPay
  Deduction <- MCDeduction
  NoJournal = NoJournal
PROPERTY PostedIsAnnounced
