\* Two planners and the daily pass over three days.
SPECIFICATION FairSpec
CONSTANTS
  basic = basic
  meal = meal
  low = low
  high = high
  late = late
  Items = {basic, meal}
  Amounts = {low, high}
  Created <- MCCreated
  Runs = {}
  Start <- MCStart
  Callers = {c1, c2}
  Offers <- MCOffers
  LastDay = 3
INVARIANTS
  TypeOK
  RowsAccountedFor
PROPERTY RowsFollow
