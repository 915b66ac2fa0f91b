CONSTANTS
  Answers = {"true", "false", "error"}
  MaxAsked = 4
  Size = 2
  Programs <- BreakInner
SPECIFICATION Spec
CHECK_DEADLOCK FALSE
INVARIANT TosIsIterator
