CONSTANTS
    n = n
    other = other
    c1 = c1
    c2 = c2
    c3 = c3
    c4 = c4
    d1 = d1
    d2 = d2
    d3 = d3
    t = t
    e1 = e1
    e2 = e2
    e3 = e3
    p1 = p1
    p2 = p2
    m1 = m1
    m2 = m2
    k1 = k1
    k2 = k2
    sk = sk
    json = json
    None = None
    Err = Err
    NotANumber = NotANumber
    Chunks <- FourChunks
    Entities <- ThreeEntities
    Corpus <- TwoNamespaces
    NamespaceOf <- AllInN
    Relationships <- FromTheMiddle
    Mentions <- OneEach
    LaneLimit = 2
    SeedLimit = 1
    TokenCount <- Sizes
    Keys <- TwoKeys
    Secrets <- TwoSecrets
    JsonSecrets <- OneJson
    Requests <- AllRequests
    Databases <- Starts
    NewProviders <- Rows
    NewNamespaces <- NewSettings
    NewKeys <- KeyFiles
    Responses <- SomeResponses
    Answers <- SomeAnswers
    DefaultBudget = 4
    MaxAttempts = 3
    Backoff <- TwoWaits
    Cap = 4
    Timeout = 3
    MaxPolls = 2
    MaxChanges = 2

SPECIFICATION FairSpec
INVARIANTS
    SecretsInTheClear
    RetrievalIsSound
    PromptKeepsBudget
    CitationsAreShown
    HonestAttribution
    RetryStopsAtCap
PROPERTIES
    EveryAskEnds
