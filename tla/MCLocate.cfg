\* A request that was answered is over.
CONSTANTS
    Digests = {"sha256:a"}
    SigTags = {"sha256-a.sig"}
    Addresses = {"here", "there", "lb"}
    Parsed <- MCParsed
    Text = {"x"}
    LoadBalancer = "lb"
    Invalid = "invalid"
    MaxSupplied = 4
    Infos <- MCInfos
    Cidrs <- MCCidrs
    Catalogues <- MCCatalogues
    RC <- MCRC
    Blob <- MCBlob
    NoReply = NoReply
SPECIFICATION LocateSpec
INVARIANTS
    BalancedClientFound
    NothingMadeUp
    ServedWhereItIs
CHECK_DEADLOCK FALSE
