\* Two requests through one gateway to one service, two replicas of the auth
\* service, two keys, every fault.
SPECIFICATION Spec
CONSTANTS
  a1 = a1  a2 = a2  k1 = k1  k2 = k2  r1 = r1  r2 = r2
  NoKey = NoKey  g = g  s = s
  Auth = {a1, a2}
  Key = {k1, k2}
  Req = {r1, r2}
  Verifier = {g, s}
  Gateway = g
  Service = s
  Call <- Calls
  Subject = {"u1", "u2"}
  Absent = "absent"
  Threshold = 1000000
  MaxRestarts = 2
  MaxFailed = 1
  Faults = {"vault", "fetch", "upstream", "handler", "limits"}
INVARIANTS
  TypeOK
  RefusedForCause
  CountsMatchAnswers
PROPERTIES
  WithdrawnKeysFade
SYMMETRY Interchangeable
