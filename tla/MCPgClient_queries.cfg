CONSTANTS
  Calls = {first, second}
  first = first
  second = second
  Conns = {k1, spare}
  spare = spare
  NoConn = NoConn
  NoLimit = NoLimit
  Sql <- HardSql
  Limits <- AllLimits
  MaxRows = 2
  TableRows = 3
  Timeouts = {1, 2, 4}
  TimeoutLimit = 3
  Faults = {"terminate", "crash", "partition"}
SPECIFICATION MCSpec
INVARIANTS SlotAccounting GuardedExecution CleanIdle RowsWithinCap
PROPERTIES ImplementsPromise AnsweredUnlessSilent PoolRecovers
CHECK_DEADLOCK FALSE
