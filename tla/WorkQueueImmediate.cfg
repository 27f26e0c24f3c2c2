\* The production configuration: processDelay 0, unlimited retries.
SPECIFICATION FairSpec
CONSTANTS
  Keys = {k1, k2}
  None = None
  ProcessImmediately = TRUE
  MaxBatch = 2
  Delays = {1, 2}
  RetryBaseDelay = 1
  RetryMaxDelay = 3
  RetryMaxAttempts = 0
  AttemptBound = 2
INVARIANTS TypeOK NoLostWakeup HandledOnce
PROPERTIES NeverPostponed ImplementsDedupQueue EveryKeyHandled
