SPECIFICATION FairSpec
CONSTANTS
  c1 = c1
  c2 = c2
  x = x
  y = y
  m1 = m1
  n1 = n1
  n2 = n2
  ChapterUrl = {c1, c2}
  Image = {x, y}
  Manga = {m1}
  NoManga = NoManga
  Name = {n1, n2}
  Nothing = Nothing
  MangaOf <- Poisoned
  Pages <- OneEach
  MaxImages = 1
  ChapterSlots = 1
  ImageSlots = 1
  MaxFaults = 1
CHECK_DEADLOCK FALSE
PROPERTIES
  ChaptersDrain
  ImagesDrain
