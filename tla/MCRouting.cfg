\* A request and its reply: a behaviour ends there.
CONSTANTS
    MaxLen = 4
    Unserved = Unserved
    Configurations <- MCConfigurations
    Requests <- MCRequests
    OtherRegions <- MCOtherRegions
    Digests = {"sha256:a"}
    SigTags = {"sha256-a.sig"}
SPECIFICATION ServingSpec
INVARIANTS
    NameSurvives
    FollowsFlow
    RegionsMatchBuckets
CHECK_DEADLOCK FALSE
