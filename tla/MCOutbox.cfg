CONSTANTS
    NumEntries <- MCNumEntries
    Flusher = {f1, f2}
    MaxAttempts <- MCMaxAttempts
    BatchSize <- MCBatchSize
    RetryBase <- MCRetryBase
    MaxAge <- MCMaxAge
    MaxCrashes <- MCMaxCrashes
SPECIFICATION FairSpec
INVARIANTS TypeOK NoSilentLoss BoundedOvershoot
PROPERTIES KeepsQueue EveryRowSettles
\* A beacon with nothing to deliver waits.
CHECK_DEADLOCK FALSE
