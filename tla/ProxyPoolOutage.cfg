SPECIFICATION Spec
CONSTANTS
  a1 = a1
  a2 = a2
  a3 = a3
  Addr = {a1, a3}
  ValidAddr = {a1}
  AddressLists <- OutageLists
  Gen = {g1, g2, g3}
  NoClient = NoClient
  MaxConn = 2
  Slot = {s1, s2}
  PlainHandlers = {p1}
  ChapterHandlers = {c1}
  InfoHandlers = {}
SYMMETRY Symmetry
CHECK_DEADLOCK FALSE
INVARIANTS
  AddressExclusive
  PanicOnlyOnEmptyFetch
