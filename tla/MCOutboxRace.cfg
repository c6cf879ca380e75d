SPECIFICATION FairSpec
CONSTANTS
  Event = {e1}
  Consumer = {c1, c2}
  Task = {t1, t2, t3}
  None = None
  EmittedKinds = {"withdrawal", "reingestion", "purge", "kb_purge", "snapshot", "unknown"}
  BatchSize = 2
  Concurrency = 1
  MaxAttempts = 3
  LeaseTicks = 2
  RetryBase = 1
  RetryMax = 2
  PurgeWorkerEnabled = TRUE
  MaxUserRetries = 2
PROPERTY LiveClaimSettledByHolder
PROPERTY ImplementsContract
PROPERTY DispatchSettles
