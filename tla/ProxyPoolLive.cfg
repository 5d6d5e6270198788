SPECIFICATION FairSpec
CONSTANTS
  a1 = a1
  a2 = a2
  a3 = a3
  Addr = {a1, a3}
  ValidAddr = {a1}
  AddressLists <- MixedLists
  Gen = {g1, g2, g3}
  NoClient = NoClient
  MaxConn = 1
  Slot = {s1}
  PlainHandlers = {p1}
  ChapterHandlers = {c1}
  InfoHandlers = {}
CHECK_DEADLOCK FALSE
PROPERTIES
  SomebodyServed
