CONSTANTS
    j1 = j1
    j2 = j2
    w1 = w1
    w2 = w2
    r1 = r1
    n1 = n1
    h1 = h1
    h2 = h2
    NoJob = NoJob
    NoDoc = NoDoc
    Jobs <- OneJob
    Workers <- TwoWorkers
    Reapers <- OneReaper
    Namespaces <- OneNamespace
    Hashes <- OneHash
    Content <- SameContent
    NChunks = 2
    Stamps = {1}
    MaxAttempts = 3
    StaleAge = 1
    Prompt = FALSE
    Extension = TRUE
    Administered = FALSE
    Crashes = TRUE

SPECIFICATION FairSpec
PROPERTY EveryJobSettles
