CONSTANTS
  Calls = {first, second}
  first = first
  second = second
  Conns = {spare}
  spare = spare
  NoConn = NoConn
  NoLimit = NoLimit
  Sql <- AllSql
  Limits <- SomeLimits
  MaxRows = 1
  TableRows = 1
  Timeouts = {2}
  TimeoutLimit = 3
  Faults = {"terminate", "crash", "partition"}
SPECIFICATION FairSpec
PROPERTIES EveryCallAnswered
CHECK_DEADLOCK FALSE
