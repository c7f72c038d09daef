SPECIFICATION Spec
CONSTANTS
  Target = {t1}
  Level = {0, 1}
  Size = {1, 2, 3, 4}
  QueueCapacity = 3
  MaxQueuedBytes = 4
  MaxEventBytes = 3
  MaxAttempts = 5
INVARIANTS QueueBounded Accounting Ordered FlushedMeansDelivered
