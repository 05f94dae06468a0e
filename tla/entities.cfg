CONSTANTS
    r1 = r1
    r2 = r2
    l1 = l1
    a = a
    b = b
    c = c
    k = k
    far = far
    NoKind = NoKind
    Resolvers <- TwoJobs
    Loaders <- OneLoader
    Names <- ThreeNames
    Kinds <- TwoKinds
    Trgm <- Similar
    TRGM_MERGE = 80
    Embeddings <- Vectors
    Embed <- OwnVector
    Fixture <- OtherSense
    Near <- SameOnly
    TRGM_CANDIDATE_LIMIT = 2
    Extractions <- TwoOrders
    NChunks = 1
    MaxRuns = 2

SPECIFICATION FairSpec
INVARIANTS
    OneRowPerKey
    ReferencesHold
PROPERTIES
    ChunksAreLinked
    RefusedByRivalOrFixture
    ImplementsGraphStore
    EveryRunEnds
CHECK_DEADLOCK FALSE
