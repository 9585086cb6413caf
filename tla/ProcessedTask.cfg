CONSTANTS
  a = a
  b = b
  c = c
  Ids = {a, b, c}
  NoId = NoId
  BuffLen = 2
  Window = 1
  MaxTime = 5
SPECIFICATION Spec
INVARIANTS TypeOK RingIsMap
PROPERTIES RecentSpec
CHECK_DEADLOCK FALSE
