CONSTANTS
  Answers = {"true", "false", "error"}
  MaxAsked = 4
  Size = 2
  Programs <- MCPrograms
SPECIFICATION FairSpec
INVARIANTS TypeOK BehavesAsPython UnwindRestores EndsClean
PROPERTY Halts
CHECK_DEADLOCK FALSE
