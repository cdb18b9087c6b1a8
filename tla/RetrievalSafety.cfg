CONSTANTS
  p1 = p1  p2 = p2
  r1 = r1  r2 = r2
  f1 = f1
  c1 = c1  c2 = c2
  None = None
  Procs <- MCProcs
  Runs <- MCRuns
  Files <- MCFiles
  Codes <- MCCodes
  Texts <- MCTexts
  Cloned <- MCCloned
  MaxChanges = 2
SPECIFICATION Spec
CHECK_DEADLOCK FALSE
SYMMETRY MCSymmetry
INVARIANTS
  VectorsMatchTheirCodes
  OneTextPerFile
  RunsAreKeptApart
