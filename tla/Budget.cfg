\* Two principals, three single-child jobs: money over time; a two-child job
\* beside a single-child one: attempts, receipts and results; two cycles of
\* maintenance, two tiers.
SPECIFICATION PartsSpec
CONSTANTS
  r1 = r1
  r2 = r2
  q1 = q1
  q2 = q2
  q3 = q3
  Requests <- MCRequests
  Receipts = {r1, r2, q1, q2, q3}
  NoReceipt = NoReceipt
  Times <- MCTimes
  PublicationDelay = 1
  Zones = {0, 1}
  Tiers = {"free", "pro"}
  Quotes = {0, 1, 2}
  MaxQuote = 2
  Charges = {1, 2}
  Outcomes = {"VALIDATED", "FAILED", "COMMITTED"}
  Verdicts = {"COMMITTED", "FAILED"}
  DAY = 1
  MONTH = 2
  DayOf <- MCDayOf
  WindowEnd <- MCWindowEnd
  Interval <- MCInterval
  ResultCap <- MCResultCap
  AttemptCap <- MCAttemptCap
  FeatureDayCap <- MCFeatureDayCap
  FeatureMonthCap <- MCFeatureMonthCap
  UserDayCap <- MCUserCap
  UserMonthCap <- MCUserCap
  GlobalDayCap = 3
  GlobalMonthCap = 4
  RowLimit = 3
INVARIANTS BudgetNeverExceeded HistoryAccepted QuotasHold ReceiptsAreSound
INVARIANT MaintenanceCyclesAreSpaced
PROPERTIES HoldIsKeptUntilSettled ResultIsFinal
SYMMETRY ReceiptSymmetry
