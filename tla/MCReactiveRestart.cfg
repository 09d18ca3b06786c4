CONSTANTS
  Boxes = {b1}
  Words = {0, 1}
  Writers = {w1}
  Owner = owner
  MaxStores = 2
  NoBox = NoBox
  QueueCapacity = 1
  Releasable = {}
  MaxStarts = 2
  MaxStops = 0

SPECIFICATION FairSpec

CHECK_DEADLOCK FALSE

PROPERTIES
  StoreIsDelivered
