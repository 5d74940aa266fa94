\* Three callers on one run, two payable accounts.
SPECIFICATION Spec
CONSTANTS
  ana = ana
  budi = budi
  Runs = {r1}
  Employees = {ana, budi}
  Accounts = {tax, bpjs}
  Callers = {c1, c2, c3}
  NetPay <- MCNetPay
  Deduction <- MCDeduction
  NoJournal = NoJournal
INVARIANTS
  TypeOK
  SummedSlipsExist
  BooksMatchRow
  PostedIsBooked
  AnsweredIsPosted
  EventsMatchBooks
  RemittedOnce
PROPERTIES
  Lifecycle
  ImplementsLife
