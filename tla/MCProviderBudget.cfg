SPECIFICATION BudgetSpec
CONSTANTS
  first = first
  second = second
  speech = speech
  Calls <- ThreeCalls
  Amount <- OneUnit
  Retrying <- Benchmarks
  Voice <- Speech
  Approved <- Benchmarks
  Ceiling = 1
  MaxCycles = 2
  FreeLimit = 1
  PaidLimit = 2
  Extra = 1
  MaxFaults = 2
INVARIANTS CyclesAgree SpendWithinBudget SpentIsHeld
SYMMETRY Symmetry
CHECK_DEADLOCK FALSE
