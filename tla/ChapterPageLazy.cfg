SPECIFICATION Spec
CONSTANTS
  x = x
  y = y
  z = z
  Src = {x, y, z}
  Page <- Repeated
  MaxIterations = 5
  MaxStable = 2
CHECK_DEADLOCK FALSE
INVARIANTS
  TypeOK
  ListOfThePage
  ShiftedOnlyByAGap
