SPECIFICATION Spec
CONSTANTS
  Event = {e1, e2}
  Consumer = {c1, c2}
  Task = {t1, t2}
  None = None
  EmittedKinds = {"withdrawal", "reingestion", "purge", "kb_purge", "unknown"}
  BatchSize = 2
  Concurrency = 2
  MaxAttempts = 2
  LeaseTicks = 1
  RetryBase = 1
  RetryMax = 1
  PurgeWorkerEnabled = TRUE
  MaxUserRetries = 1
SYMMETRY Symmetry
INVARIANT TypeOK
INVARIANT EffectsOncePerDispatch
INVARIANT OperationMirrorsDispatch
INVARIANT FailedWorkReleasesDocument
