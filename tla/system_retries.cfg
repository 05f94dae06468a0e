CONSTANTS
    j1 = j1
    j2 = j2
    w1 = w1
    w2 = w2
    r1 = r1
    n1 = n1
    h1 = h1
    h2 = h2
    NoJob = NoJob
    NoDoc = NoDoc
    Jobs <- TwoJobs
    Workers <- TwoWorkers
    Reapers <- OneReaper
    Namespaces <- OneNamespace
    Hashes <- TwoHashes
    Content <- DistinctContent
    NChunks = 2
    Stamps = {1}
    MaxAttempts = 2
    StaleAge = 2
    Prompt = TRUE
    Extension = FALSE
    Administered = FALSE
    Crashes = TRUE

SPECIFICATION Spec
SYMMETRY Symmetry2
INVARIANTS
    TxnFollowsClaim
    CompletedMeansStored
PROPERTIES
    RetriesNeverCollide
