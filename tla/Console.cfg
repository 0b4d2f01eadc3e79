SPECIFICATION Spec
CONSTANTS
  Writers = {t1, t2}
  N = 3
  CHUNK = 2
  TX_BUF_SIZE = 2
  Nobody = Nobody
  Readers = {r1}
  INPUT_BUF_SIZE = 3
  Width = 6
  Start = 4
  Target = 2
  Keys = {"x", "CR", "^D", "^U", "^H"}
  MaxTyped = 4
SYMMETRY Symmetry
CONSTRAINT KeysOrBytes
INVARIANTS InOrder RingDrains CommittedKept EchoShowsLine InputFlows
CHECK_DEADLOCK FALSE
