\* A request and its reply: a behaviour ends there.
CONSTANTS
    MaxLen = 2
    Unserved = Unserved
    Configurations <- MCConfigurations
    Requests <- MCRequests
    OtherRegions <- MCOtherRegions
    Digests = {"sha256:a"}
    SigTags = {"sha256-a.sig"}
SPECIFICATION ServingSpec
INVARIANTS
    DocumentedNotFound
CHECK_DEADLOCK FALSE
