CONSTANTS
    j1 = j1
    j2 = j2
    w1 = w1
    w2 = w2
    r1 = r1
    NoJob = NoJob
    Jobs <- TwoJobs
    Workers <- TwoWorkers
    Reapers <- OneReaper
    Stamps = {1, 2}
    MaxAttempts = 3
    StaleAge = 3
    AtomicSweep = TRUE
    Prompt = TRUE

SPECIFICATION Spec
SYMMETRY Symmetry2
INVARIANTS
    SingleRunner
    LiveClaimIsCurrent
PROPERTIES
    ReapsOnlyCrashed
    ImplementsLifecycle
