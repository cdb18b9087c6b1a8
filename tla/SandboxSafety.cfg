CONSTANTS
  ImageHasTimeout = TRUE
  MaxName = 3
SPECIFICATION Spec
CHECK_DEADLOCK FALSE
INVARIANTS
  NoContainerIsForgotten
  NoCallIsStranded
  NamesAreFree
