\* Four requests of any kind around one session, replicas of two key domains, every fault.
SPECIFICATION Spec
CONSTANTS
  d1 = d1  d2 = d2
  s1 = s1  s2 = s2
  r1 = r1  r2 = r2  r3 = r3  r4 = r4
  NoSid = NoSid  NoToken = NoToken  NoDomain = NoDomain
  Sid = {s1}
  Token = {1, 2, 3, 4}
  Req = {r1, r2, r3, r4}
  Domain = {d1, d2}
  Faults = {"failure", "expiry"}
SYMMETRY Interchangeable
INVARIANTS
  TypeOK
  OneLiveTokenPerSession
  LogoutIsFinal
