CONSTANTS
  first = first
  second = second
  Contracts = {first, second}
  Ports = {p1, p2}
  Required = {v1}
  Builds <- AllBuilds
SPECIFICATION MCSpec
INVARIANTS ContractSound ConformingPasses
PROPERTY NothingLeft
CHECK_DEADLOCK FALSE
