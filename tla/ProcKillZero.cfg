SPECIFICATION Spec
CONSTANTS
  NPROC = 2
  CPUs = {c1, c2}
  MaxPid = 2
  KillPids = {0, 2}
  Killers = {1, 2}
  Nobody = Nobody
SYMMETRY Symmetry
INVARIANTS
  NotBornKilled
