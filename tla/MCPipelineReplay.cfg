CONSTANTS
    NumEntries <- MCNumEntries
    Flusher = {f1}
    MaxAttempts <- MCMaxAttempts
    BatchSize <- MCBatchSize
    RetryBase <- MCRetryBase
    MaxAge <- MCMaxAge
    MaxCrashes <- MCMaxCrashes
    Session = {s1}
    Claim = {c1}
    NoSession = NoSession
    StaleAfter <- MCStaleAfter
    MaxTime <- MCMaxTime
    MaxEnds <- MCMaxEnds
SPECIFICATION PipelineSpec
PROPERTIES ReplayIsNoOp
\* A session that reached its bound of ends, with nothing queued, waits.
CHECK_DEADLOCK FALSE
