CONSTANTS
    w1 = w1
    w2 = w2
    n1 = n1
    n2 = n2
    h1 = h1
    h2 = h2
    NoDoc = NoDoc
    Writers <- TwoWriters
    Namespaces <- OneNamespace
    Hashes <- OneHash
    NChunks = 2
    Extension = FALSE
    Administered = FALSE

SPECIFICATION Spec
PROPERTY DuplicatesAreSkipped
