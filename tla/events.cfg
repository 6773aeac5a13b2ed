\* Two workers of either service, one partition, two events, one fault.
SPECIFICATION EWFairSpec
CONSTANTS
  u1 = u1  d1 = d1  d2 = d2  p1 = p1  p2 = p2  w1 = w1  w2 = w2
  NoEvent = NoEvent  NoWorker = NoWorker
  Event = {1, 2}
  Partition = {p1}
  Worker = {w1, w2}
  User = {u1}
  Dest = {d1}
  Service = {"fraud", "notification"}
  Cap = 1
  MaxFaults = 1
  MaxRaises = 1
INVARIANTS
  TypeOK
  CommittedWasHandled
  CommittedIsRecorded
  RecentList
  NewDestinationScoredOnce
PROPERTIES
  OffsetsAdvance
  ImplementsDelivery
  EverythingCommitted
