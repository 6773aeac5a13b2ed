\* SQLAlchemy 2: a retry never reaches the send, and nobody waits for ever on
\* the unique index.  Fair, so no symmetry.
SPECIFICATION FairSpec
CONSTANTS
  u1 = u1  u2 = u2  k1 = k1  p1 = p1  p2 = p2
  r1 = r1  r2 = r2  r3 = r3
  NoReq = NoReq
  User = {u1}
  Key = {k1}
  Amount = {1, 2}
  StepUpThreshold = 2
  Replica = {p1}
  Req = {r1, r2, r3}
  AfterRollback = {"raises"}
  Faults = {"failure", "restart", "kafka"}
INVARIANTS
  EventMatchesRow
  AcceptedHasEvent
PROPERTIES
  EveryRequestAnswered
