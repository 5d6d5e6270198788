SPECIFICATION Spec
CONSTANTS
  n1 = n1
  n2 = n2
  n3 = n3
  n4 = n4
  n5 = n5
  description = description
  MaxChapters = 2
  MaxPublished = 5
  Name = {n1, n2, n3, n4, n5}
  ListedName <- Listed
  RowName <- Rows
  Part = {description}
  MaxFaults = 2
CHECK_DEADLOCK FALSE
INVARIANTS
  NothingMissed
PROPERTIES
  QueuedStays
