\* Three requests of two users on one replica, every fault, both library behaviours.
SPECIFICATION Spec
CONSTANTS
  u1 = u1  u2 = u2  k1 = k1  p1 = p1  p2 = p2
  r1 = r1  r2 = r2  r3 = r3
  NoReq = NoReq
  User = {u1, u2}
  Key = {k1}
  Amount = {1, 2}
  StepUpThreshold = 2
  Replica = {p1}
  Req = {r1, r2, r3}
  AfterRollback = {"reads", "raises"}
  Faults = {"failure", "restart", "database", "kafka"}
SYMMETRY Interchangeable
INVARIANTS
  TypeOK
  ReceiptsAgree
  EventsFollowRows
