\* Three goroutines, six requests, three objects, one of which may be removed.
CONSTANTS
    h1 = h1
    h2 = h2
    h3 = h3
    Handlers = {h1, h2, h3}
    Requests <- MCRequests
    RC <- MCRC
    Deletable <- MCDeletable
    NoRequest = NoRequest
    Digests = {"sha256:a", "sha256:b"}
    SigTags = {"sha256-a.sig"}
SYMMETRY Symmetry
SPECIFICATION HistorySpec
INVARIANTS
    TypeOK
    RedirectBacked
    RedirectCached
    NeverGoesBack
PROPERTIES
    KeepsPromise
