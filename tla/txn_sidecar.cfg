CONSTANTS
    w1 = w1
    w2 = w2
    n1 = n1
    n2 = n2
    h1 = h1
    h2 = h2
    NoDoc = NoDoc
    Writers <- TwoWriters
    Namespaces <- TwoNamespaces
    Hashes <- TwoHashes
    NChunks = 2
    Extension = FALSE
    Administered = TRUE

SPECIFICATION Spec
SYMMETRY Symmetry2
INVARIANTS
    TypeOK
    WholeDocuments
    ReferencesHold
    OneRowPerHash
PROPERTIES
    OkMeansStored
    ImplementsStore
