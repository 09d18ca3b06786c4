CONSTANTS
  Submitters = {s1, s2}
  Tasks = {x, y, z}
  QueueCapacity = 2
  MaxSpawns = 3
  NoTask = NoTask
  p = p
  c = c
  d = d
  Threads = {p, c, d}
  Tid <- MCTid
  IdMod = 8
  Strays = {}
  Users = {p, c, d}
  UserTid <- MCTid
  UserMod = 8
  Posters = {p}
  Drainers = {c, d}
  MaxPosts = 4
  InitialCap = 1
  MaxCap = 2
  Vacant = Vacant
  Items = {a, b}
  Capacity = 2
  IndexMod = 4
  Nothing = Nothing
  Tids = {3, 6, 9}
  TableSize = 3
  Roles = {1, 2}

SPECIFICATION HandoffSpec

\* A freed handle or mailbox does nothing more.
CHECK_DEADLOCK FALSE

INVARIANTS
  RingInv
  WorkerInv
  QuietWhenStopped
  AcceptedInOrder
  DispatchInv
  SlotsAreOwned

PROPERTIES
  ImplementsFifo
  LockReleased
  QueuedIsRun
  CallsReturn
  ImplementsMailbox
  AcceptedIsDelivered
