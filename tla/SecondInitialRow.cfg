\* A hire and an onboarding of one employee handled at the same time.
SPECIFICATION Spec
CONSTANTS
  ana = ana
  pay = pay
  hired = hired
  moved = moved
  joined = joined
  left = left
  Employees = {ana}
  Amounts = {pay}
  Events = {hired, joined}
  Kind <- MCKind
  Who <- MCWho
  Offered <- MCOffered
  Workers = {w1, w2}
  None = None
PROPERTY NoSecondInitialRow
