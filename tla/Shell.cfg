SPECIFICATION Spec
CONSTANTS
  Procs = {1, 2, 3, 4, 5, 6}
  NFILE = 5
  NOFILE = 6
  Pages = {1, 2}
  PIPESIZE = 1
  None = None
  MAXARGS = 10
  SyntaxError = SyntaxError
  Lines <- MCLines
  MaxLines = 1
  Bytes = 2
INVARIANTS TablesExact Wired
PROPERTIES ShellGoesOn
CHECK_DEADLOCK FALSE
