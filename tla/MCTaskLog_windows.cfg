CONSTANTS
  MaxLines = 5
  MaxFailures = 1
  Starts <- SomeStarts
  Limits <- SomeLimits
  Tails <- SomeTails
  Omitted = Omitted
  DefaultLimit = 2
SPECIFICATION Spec
INVARIANTS TailWasCurrent PageComplete
PROPERTIES PagingAdvances
CHECK_DEADLOCK FALSE
