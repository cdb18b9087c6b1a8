CONSTANTS
  s1 = s1  c1 = c1  c2 = c2
  None = None
  Servers = {s1}
  Clients = {c1, c2}
  Limit = 2
  Window = 2
  MaxId = 4
  Watched = 2
  Starts = {0, 1}
  PageSizes = {1, 2}
  MaxNow = 4
SPECIFICATION Spec
CHECK_DEADLOCK FALSE
INVARIANTS
  TypeOK
  LimitIsExact
  WalkListsEachRowOnce
PROPERTIES
  EndedStaysEnded
