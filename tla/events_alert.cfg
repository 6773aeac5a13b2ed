\* No restart and no lost commit: is an anomalous transfer alerted?
SPECIFICATION EWSpec
CONSTANTS
  u1 = u1  d1 = d1  d2 = d2  p1 = p1  p2 = p2  w1 = w1  w2 = w2
  NoEvent = NoEvent  NoWorker = NoWorker
  Event = {1, 2}
  Partition = {p1}
  Worker = {w1, w2}
  User = {u1}
  Dest = {d1}
  Service = {"fraud"}
  Cap = 1
  MaxFaults = 0
  MaxRaises = 0
INVARIANTS
  AnomaliesAlerted
