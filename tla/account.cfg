\* One account, three requests over two keys, every fault; fair, so no symmetry.
SPECIFICATION FairSpec
CONSTANTS
  a1 = a1  a2 = a2
  r1 = r1  r2 = r2  r3 = r3
  k1 = k1  k2 = k2
  NoReq = NoReq
  Account = {a1}
  Req = {r1, r2, r3}
  Key = {k1, k2}
  Amount = {1}
  MaxBalance = 2
  Faults = {"failure", "expiry"}
INVARIANTS
  TypeOK
  BalanceInBounds
  BooksBalance
  AnswersAreHonest
  AtMostOnceOutsideWindows
PROPERTIES
  ImplementsLedger
  EveryRequestAnswered
