\* A run of the second day, changes from that day and from the third, and
\* callers who keep the discipline.
SPECIFICATION QuietSpec
CONSTANTS
  basic = basic
  meal = meal
  low = low
  high = high
  late = late
  Items = {basic, meal}
  Amounts = {low, high}
  Created <- MCCreated
  Runs = {late}
  Start <- MCSecondDay
  Callers = {c1, c2}
  Offers <- MCOffers
  LastDay = 3
INVARIANT StaleSlipsAreNamed
PROPERTIES
  EarlierPeriodsKept
  FinalRunsKeepTheirReading
