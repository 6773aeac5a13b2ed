\* Two calls and two logins, four pairs of tokens.
SPECIFICATION Spec
CONSTANTS
  c1 = c1  c2 = c2  s1 = s1  s2 = s2
  None = None
  Session = {s1, s2}
  Token = {1, 2, 3, 4}
  Call = {c1, c2}
  Faults = {"network"}
INVARIANTS
  TypeOK
  TokensAreTheUsers
PROPERTIES
  SignedOutForCause
SYMMETRY Interchangeable
