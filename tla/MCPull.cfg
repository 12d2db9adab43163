\* Pulls end, and so do behaviours.
CONSTANTS
    Handlers = {"near", "far"}
    Requests <- PullRequests
    RC <- MCRC
    Deletable = {}
    NoRequest = NoRequest
    Digests = {"sha256:base", "sha256:etcd"}
    SigTags = {"sha256-a.sig"}
    Images = {"pause", "etcd"}
    LayersOf <- MCLayersOf
    Home = "us-east-2"
    Image <- MCImage
    Origin <- MCOrigin
    MaxRestarts = 2
SPECIFICATION FairPullSpec
INVARIANT
    NothingMissing
PROPERTIES
    PullEnds
    RequestAnswered
    KeepsItsWord
    BucketsOnlyGrow
CHECK_DEADLOCK FALSE
