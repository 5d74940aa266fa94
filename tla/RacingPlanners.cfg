\* The second of two racing planners overwrites the baseline.
SPECIFICATION Spec
CONSTANTS
  basic = basic
  meal = meal
  low = low
  high = high
  late = late
  Items = {basic, meal}
  Amounts = {low, high}
  Created <- MCCreated
  Runs = {}
  Start <- MCStart
  Callers = {c1, c2}
  Offers <- MCOffers
  LastDay = 2
PROPERTY EarlierPeriodsKept
