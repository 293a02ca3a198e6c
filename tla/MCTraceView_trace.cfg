CONSTANTS
  N = 4
  Ids <- AllIds
  NoParent = 0
  Unknown = 99
  Times <- AllTimes
  Documents <- AllDocuments
  Views = {0, 2}
  MAX_ERRORS = 1
  SLOWEST = 2
SPECIFICATION MCSpec
INVARIANTS EachSpanOnce ReadsAsTree SiblingsInOrder CyclesLast LinksSurvive FiguresOfWholeTrace
PROPERTIES TraceAnswered
CHECK_DEADLOCK FALSE
