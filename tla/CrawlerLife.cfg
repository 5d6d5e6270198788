SPECIFICATION FairSpec
CONSTANTS
  p1 = p1
  p2 = p2
  c1 = c1
  c2 = c2
  i1 = i1
  PageHandlers = {p1, p2}
  ChapterHandlers = {c1, c2}
  ImageHandlers = {i1}
  Sem <- NarrowSem
  MaxClients = 1
  MaxRetries = 1
CHECK_DEADLOCK FALSE
PROPERTIES
  WorkersReturn
  NobodyStuck
