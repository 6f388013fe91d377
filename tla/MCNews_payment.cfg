SPECIFICATION Spec
CONSTANTS
  a = a
  b = b
  b2 = b2
  c = c
  Wallets = {w1}
  Txs = {a, b, b2, c}
  Net <- PaymentNet
  Spends <- PaymentSpends
  Fee <- PaymentFee
  UNCLAIMED_MAX = 2
  ANNOUNCED_MAX = 8
  UNCLAIMED_FOR = 2
  DROPPED_AFTER = 1
  VANISHING_FOR = 2
  MaxNow = 3
  MaxRecord = 6
  Maxima = {1, 9}
  ClockBack = FALSE
  Reorgs = FALSE
  Returns = FALSE
INVARIANTS
  SaidOnce
  NothingSwallowed
  PendingNoticeSettles
  NewsInv
PROPERTIES
  SecondLook
