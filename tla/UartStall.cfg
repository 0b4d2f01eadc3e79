SPECIFICATION Spec
CONSTANTS
  Writers = {t1, t2}
  N = 3
  CHUNK = 3
  TX_BUF_SIZE = 2
  Nobody = Nobody
  Readers = {}
  INPUT_BUF_SIZE = 3
  Width = 6
  Start = 0
  Target = 1
  Keys = {"x"}
  MaxTyped = 1
INVARIANT ProducerWoken
CHECK_DEADLOCK FALSE
