SPECIFICATION FairSpec
CONSTANTS
  Tasks = {t1, t2}
  ExchangeBurst = 3
  ExchangeCost = 2
  QuoteBurst = 2
  QuoteCost = 1
  BaseDelay = 1
  MaxDelay = 1
  MaxRetries = 1
  RetryAfters = {0, 2}
INVARIANTS TypeOK BurstBound OutcomeTold
PROPERTIES BucketServes CallEnds
