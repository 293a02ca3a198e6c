CONSTANTS
  Tasks = {t1, t2}
  Listing = {t1}
  Pages = 2
  MaxAhead = 3
SPECIFICATION ExchangeSpec
INVARIANTS AnswerIsOwn ListIsWhole
CHECK_DEADLOCK FALSE
