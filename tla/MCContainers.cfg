CONSTANTS
  t1 = t1
  t2 = t2
  t3 = t3
  Threads = {t1, t2, t3}
  Capacity = 2
  TagMod = 5
  TypeIds = {0, 1}
  NoThread = NoThread
  Elements = {1, 2}
  DequeCap = 2
  DequeMax = 4
  MaxEntities = 4
  DenseCapacity = 3
  Components = {0, 1}
  HeapCapacity = 5
  HeapItems = {1, 2}
  Priorities = {1, 2, 3}
  Letters <- MCLetters
  NameLengths = {1, 2, 3, 4}
  QueryLengths = {1, 2, 3, 4}
  NameMax = 5
  QueryMax = 3
  Caps = {1, 3}
  MaxEntries = 2
  LocalIds = {0, 1, 3, 4}
  LocalFirst = 2
  LocalMax = 8
  ListValues = {1, 2, 5}
  SlotMod = 4
  ListCap = 2
  ListMax = 4
  CapacityMax = 7
  MaxRefusals = 1
  e1 = e1
  e2 = e2
  e3 = e3
  e4 = e4
  e5 = e5
  e6 = e6
  Members = {e1, e2, e3, e4, e5, e6}
  Word <- MCWord
  Block <- MCBlock
  FirstRef = 4
  Fnv <- MCFnv
  Mix <- MCMix
  SlotWidth = 4
  SetCap = 4
  SetMax = 8
  NoElement = NoElement
  Observers = {o1, o2}
  NoObserver = NoObserver
  BoxWords = {0, 1}
  ObserverCap = 1
  ObserverMax = 2
  MaxWatches = 3
  MaxBoxStores = 2
  MaxNested = 2
  Combos = {1, 2}
  Callbacks = {1, 2}
  BindData = {1, 2}
  KeyMapCap = 1
  KeyMapMax = 4
  GivenNames = {"a", "?"}
  FoldedName <- MCFolded
  NoName = NoName
  StrideOf <- MCStride
  MaxEdits = 6
  HotCues = {1, 2}
  MaxHead = 3
  ScaleMax = 5
  Notes = {0, 1, 2}
  OddNote = 128
  Drivers = {"graphics", "networking"}
  RandomMax = 4
  MaxDraws = 2
  PoolMax = 3
  WorkerRoom = 2
  MaxBuffers = 3

SYMMETRY Symmetry

SPECIFICATION ContainersSpec

INVARIANTS
  PoolInv
  NoABA
  ContainersKeepTheirWord

PROPERTIES
  DoubleFreeIsRefused

CHECK_DEADLOCK FALSE
