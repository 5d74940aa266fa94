\* Two workers and redelivery, the events of an employee in any order.
SPECIFICATION FairSpec
CONSTANTS
  ana = ana
  pay = pay
  hired = hired
  moved = moved
  joined = joined
  left = left
  Employees = {ana}
  Amounts = {pay}
  Events = {hired, moved, joined, left}
  Kind <- MCKind
  Who <- MCWho
  Offered <- MCOffered
  Workers = {w1, w2}
  None = None
INVARIANTS
  TypeOK
  OneEffect
  SkipsAreVisible
PROPERTY AllConsumed
