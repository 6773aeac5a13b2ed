\* No fault at all: two overlapping attempts with one key.
SPECIFICATION Spec
CONSTANTS
  a1 = a1  a2 = a2
  r1 = r1  r2 = r2  r3 = r3
  k1 = k1  k2 = k2
  NoReq = NoReq
  Account = {a1}
  Req = {r1, r2, r3}
  Key = {k1, k2}
  Amount = {1, 2}
  MaxBalance = 3
  Faults = {}
INVARIANTS
  AtMostOncePerKey
