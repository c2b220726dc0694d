SPECIFICATION MoneySpec
CONSTANTS
  Turns = {t1, t2, t3}
  Sessions = {s1, s2}
  TokenCap = 2
  DailyCap = 2
  Estimates = {1}
  MaxCall = 1
  LastDay = 1
  AnalysisRuns = {a1, a2}
  Chunks = 1
  Estimate = 2
  SpendLimit = 5
  Costs = {1, 2}
  MaxTries = 2
  Positions = {"1","2"}
  Balances = {1000,80000}
  Principals = {60000}
  LienTypes = {"tax","other"}
  LienAmounts = {30000}
  Undrawn = 50
  Bids = {70000}
  Arrears = {1500}
  Values = {100000, 230000}
  Weights = {1}
  Dispersions = {4,30}
  ResalePct = 8
  CarryPct = 12
  MonthlyFlat = 0
  BaseMonths = 6
  MaxMortgages = 2
  MaxFacts = 3
  RepairBases = {9000}
  AcqPct = 2
  AcqFlat = 500
  ClosingPct = 1
  ClosingFlat = 300
  StagingFlat = 700
  FinancingFlat = 400
  LoanPct = 85
  PointsPct = 2
  RatePct = 10
  CashMargin = 20
  FlipMargin = 20
  PayoffFees = 1200
  GridStep = 5000
  Prices = {50000, 80000}
  InvestorPct = 70
  MinSpread = 5000
  Rents = {400, 900}
  YearlyDues = 1500
  VacancyPct = 6
  OperatingPct = 21
  InsurancePct = 1
  RentalLoanPct = 75
  DebtServicePct = 8
  Median <- AssumedAmount
  Attachment <- AttachedShare
  RepairFactor <- RepairPercent
  Reports = {1, 2, 3}
  Contents <- ReportContents
  Corrections = {200, 410}
  RoundAmounts = {50, 250, 300, 400}
  Tolerance = 10
  MaxCorrections = 1
  MaxRetries = 3
  ToolRounds = 5
  AnswerCosts = {1, 2}
  Units = {u1, u2}
  Answers <- UnitAnswers
  Bounds <- SaneValues
INVARIANT DistinctMortgagesStayApart
CHECK_DEADLOCK FALSE
