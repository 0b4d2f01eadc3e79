SPECIFICATION Spec
CONSTANTS
  Readers = {r1}
  Writers = {w1, w2}
  Killable = {r1, w1}
  PIPESIZE = 2
  Width = 4
  MaxN = 3
  Vals = {0, 1}
  Nobody = Nobody
INVARIANTS
  SleepersWoken
  PipeSound
PROPERTIES
  Stream
CHECK_DEADLOCK FALSE
