CONSTANTS
  Boxes = {b1, b2}
  Words = {0, 1}
  Writers = {w1, w2}
  Owner = owner
  MaxStores = 3
  NoBox = NoBox
  QueueCapacity = 1
  Releasable = {b2}
  MaxStarts = 1
  MaxStops = 1

SPECIFICATION FairSpec

\* After the last shutdown nothing is left to do.
CHECK_DEADLOCK FALSE

INVARIANTS
  ReactiveInv
  ObserversSawTheWord

PROPERTIES
  StoreIsDelivered
  QueuedIsDrained
