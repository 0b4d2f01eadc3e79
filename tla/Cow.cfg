SPECIFICATION Spec
CONSTANTS
  p1 = p1
  p2 = p2
  p3 = p3
  Procs = {p1, p2, p3}
  First = p1
  Third = p3
  a1 = a1
  a2 = a2
  a3 = a3
  Pages = {a1, a2, a3}
  Zero = 0
  Vals = {0, 1}
  Junk = Junk
  None = None
  MaxSz = 2
  Execs = {p2}
  Images <- MCImages
  Boot <- MCBoot
SYMMETRY Symmetry
CONSTRAINTS ThirdIsSmall ExecBesideBoot
INVARIANTS PagesExact NoPanic
PROPERTY Private
CHECK_DEADLOCK FALSE
