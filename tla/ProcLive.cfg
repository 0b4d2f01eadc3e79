SPECIFICATION FairSpec
CONSTANTS
  NPROC = 2
  CPUs = {c1, c2}
  MaxPid = 2
  KillPids = {2}
  Killers = {1, 2}
  Nobody = Nobody
PROPERTIES
  EventuallyScheduled
  WaitReturns
  KilledExits
