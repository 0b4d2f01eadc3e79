SPECIFICATION Spec
CONSTANTS
  NPROC = 3
  CPUs = {c1, c2}
  MaxPid = 3
  KillPids = {2}
  Killers = {2, 3}
  Nobody = Nobody
SYMMETRY Symmetry
INVARIANTS
  TypeOK
  OneCpu
  NoPanic
  NoLostWakeup
  NoOrphan
  NotBornKilled
