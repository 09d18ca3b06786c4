CONSTANTS
  w1 = w1
  w2 = w2
  Threads = {w1, w2}
  Readers = {r1}
  Tid <- MCTid
  IdMod = 8
  Strays = {}
  Orders <- MCOrders
  Budgets = {0, 40}
  Stride = 16
  MinBytes = 16
  PageBytes = 47
  InternalRadix = 2
  Reserves = {4}
  DirInit = 1
  MaxIndex = 5

SPECIFICATION FairSpec

INVARIANTS
  ReadersSeeWholeRows
  FreeReachesAll

PROPERTIES
  ImplementsRowList
  WritersReturn
