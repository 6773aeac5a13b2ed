\* One user, three requests of any kind on one replica, with tokens and secrets
\* of this and of another one, every fault.
SPECIFICATION Spec
CONSTANTS
  u1 = u1  u2 = u2  p1 = p1  k1 = k1  k2 = k2
  r1 = r1  r2 = r2  r3 = r3
  NoKey = NoKey  NoUser = NoUser  NoReplica = NoReplica
  User = {u1}
  Replica = {p1}
  Key = {k1, k2}
  Req = {r1, r2, r3}
  MaxFails = 2
  MaxAttempts = 2
  Faults = {"failure", "expiry"}
INVARIANTS
  TypeOK
  ThrottleBounds
  CounterTimed
  EnrolledMeansMfa
  RegistrationsAlike
SYMMETRY Interchangeable
