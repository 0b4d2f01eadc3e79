SPECIFICATION Spec
CONSTANTS
  DIRSIZ = 3
  SLASH = 1
  IntBits = 4
  LongBits = 8
  PRINTBUF = 3
  KernelArgs = 4
  UserArgs = 3
  MAXARGS = 3
  SyntaxError = SyntaxError
  SIZE = 5
  Jobs <- MCJobs
  PAGE_UNITS = 3
  MaxBrk = 12
  UNIT = 2
  INT_MAX = 15
  Sizes = {1, 2, 3, 6}
  Calls <- MCCalls
  None = None
INVARIANTS
  StringsExact PrintfsExact ParserExact GrepPrintsMatches HeapExact
CHECK_DEADLOCK FALSE
