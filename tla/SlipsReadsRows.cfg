\* Computed slips, comparison and payslips, and generated rows, side by side.
SPECIFICATION MCSpec
CONSTANTS
  ann = ann
  bob = bob
  annJan = annJan
  annNov = annNov
  bobJan = bobJan
  hike = hike
  a1 = a1
  a2 = a2
  b1 = b1
  Nobody = Nobody
  Runs <- MCRuns
  Period <- MCPeriod
  People <- MCPeople
  Slips <- MCSlips
  ReadWorlds <- MCReadWorlds
  Requests <- MCRequests
  MaxPage = 2
  MaxMoves = 2
  Null = Null
  Surfaces = {"guarded", "all", "readonly"}
  MaxWrites = 2
  LastInstant = 1
  TextPlace <- MCTextPlace
  Open = Open
  NoCap = NoCap
  NoOne = NoOne
  NoRef = NoRef
  RateUnit = 20
  HourUnit = 2
  HoursPerMonth = 10
  MonthDays = 2
  RiskClasses = {1, 2}
  Categories = {"ter_a"}
  Tiers <- MCTiers
  Employees = {ann, bob}
  Orders <- MCOrders
  Worlds <- MCWorlds
  LawOffers <- MCLawOffers
  Structures <- MCStructures
  MaxCommits = 1
  PartUnit = 1000
INVARIANTS
  AllTyped
  TaxIsPerUnit
  OvertimeIsPerHour
  LawSeenWasInForce
  LoadedLawComputes
  SlipAddsUp
  RunIsVouchedFor
  ComparisonAddsUp
  PagesCoverEveryone
  PreviousWasLatest
  PayslipsStand
  WritesAgree
  AsOfIsTheRow
PROPERTIES
  UndisturbedSlipIsOneReading
  PreviewIsTheSlip
  NothingSpoils
CHECK_DEADLOCK FALSE
