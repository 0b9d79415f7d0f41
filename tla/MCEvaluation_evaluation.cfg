SPECIFICATION Spec
CONSTANTS
  NoEntry = NoEntry
  Plan <- MCPlan
  BaseDates = {0, 3}
  BaseAmounts = {20}
  AmountShifts <- MCAmountShifts
  DateShifts <- MCDateShifts
  PolicyShift = 1
  EarlyDates <- MCEarlyDates
  Currencies = {"USD", "EUR"}
  Scores = {84, 85}
  Split = "held_out"
  Others = {"tuning"}
  Leftovers <- MCLeftovers
INVARIANTS
  TypeOK
  Accounted
  ClearsAsLabelled
  ClearedOnce
  MetricsExact
