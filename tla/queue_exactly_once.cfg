CONSTANTS
    j1 = j1
    j2 = j2
    w1 = w1
    w2 = w2
    r1 = r1
    NoJob = NoJob
    Jobs <- OneJob
    Workers <- TwoWorkers
    Reapers <- OneReaper
    Stamps = {1}
    MaxAttempts = 3
    StaleAge = 2
    AtomicSweep = FALSE
    Prompt = FALSE

SPECIFICATION Spec
INVARIANT SingleRunner
