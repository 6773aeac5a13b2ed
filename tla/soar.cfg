\* Three deliveries of five offenses, every fault, one expiry of each marker.
SPECIFICATION Spec
CONSTANTS
  d1 = d1  d2 = d2  d3 = d3
  None = None
  Offense <- Offenses
  Name <- Names
  Binding <- Bindings
  Delivery = {d1, d2, d3}
  MaxExpiries = 1
  Faults = {"crash", "redis", "cluster"}
INVARIANTS
  TypeOK
  OncePerWindow
  DuplicatesWereClaimed
  HonestResults
SYMMETRY Interchangeable
