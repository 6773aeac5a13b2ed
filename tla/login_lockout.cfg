\* Three logins with wrong passwords, on one replica, and no fault.
SPECIFICATION Spec
CONSTANTS
  u1 = u1  u2 = u2  p1 = p1  k1 = k1  k2 = k2
  r1 = r1  r2 = r2  r3 = r3
  NoKey = NoKey  NoUser = NoUser  NoReplica = NoReplica
  User = {u1}
  Replica = {p1}
  Key = {k1}
  Req = {r1, r2, r3}
  MaxFails = 2
  MaxAttempts = 1
  Faults = {}
INVARIANTS
  LockedAfterFailures
