SPECIFICATION Spec
CONSTANTS
  a1 = a1
  a2 = a2
  a3 = a3
  Addr = {a1, a2}
  ValidAddr = {a1, a2}
  AddressLists <- ShortLists
  Gen = {g1, g2, g3}
  NoClient = NoClient
  MaxConn = 1
  Slot = {s1, s2}
  PlainHandlers = {}
  ChapterHandlers = {c1}
  InfoHandlers = {i1}
SYMMETRY Symmetry
CHECK_DEADLOCK FALSE
INVARIANTS
  TypeOK
  PoolBounded
  LeaseExclusive
  NoLeakedLease
PROPERTIES
  ImplementsLease
