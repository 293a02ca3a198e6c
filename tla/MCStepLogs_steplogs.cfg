CONSTANTS
  Kinds = {"text", "word", "odd"}
  Encodes = {TRUE, FALSE}
  MaxWritten = 4
  Caps = {0, 1, 3}
  DEFAULT = 2
SPECIFICATION Spec
INVARIANTS EndOfLogKept LinesReadable
CHECK_DEADLOCK FALSE
