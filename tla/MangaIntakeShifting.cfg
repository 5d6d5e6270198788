SPECIFICATION Spec
CONSTANTS
  m1 = m1
  m2 = m2
  m3 = m3
  ch1 = ch1
  ch2 = ch2
  ch3 = ch3
  t1 = t1
  t2 = t2
  t3 = t3
  t4 = t4
  n1 = n1
  n2 = n2
  Manga = {m1, m2, m3}
  NoManga = NoManga
  Chapter = {ch1, ch2, ch3}
  Title = {t1, t2, t3, t4}
  Name = {n1, n2}
  PageTitle <- Titles
  ChaptersOf <- Chapters
  ListedName <- Names
  RowName <- OtherNames
  Listing <- Shifting
  LastPage = 2
  PageLimit = 3
  MaxEntries = 2
  Workers = 2
  MaxRetries = 2
  MaxFaults = 2
CHECK_DEADLOCK FALSE
INVARIANTS
  TypeOK
  PanicOnlyAtShutdown
  NoOrphanTask
  OwnChapters
  NothingSkipped
  RowsPerVisit
  UnstoredBounded
