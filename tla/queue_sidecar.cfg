CONSTANTS
    j1 = j1
    j2 = j2
    w1 = w1
    w2 = w2
    r1 = r1
    NoJob = NoJob
    Jobs <- TwoJobs
    Workers <- TwoWorkers
    Reapers <- OneReaper
    Stamps = {1}
    MaxAttempts = 2
    StaleAge = 2
    AtomicSweep = FALSE
    Prompt = FALSE

SPECIFICATION FairSpec
INVARIANTS
    TypeOK
    AttemptCap
    OneClaimantPerAttempt
    RerunOnlyAfterStale
PROPERTIES
    ImplementsLateLifecycle
    EveryJobSettles
