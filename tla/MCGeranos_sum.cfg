\* One run of one image: the checksum copyToS3 means to send.
CONSTANTS
    Runs = {"run"}
    DryRuns = {}
    Limit = 2
    Repos = {"kube"}
    Images = {"a"}
    Unhandled = {}
    ManifestsOf <- OneManifestsOf
    LayersOf <- OneLayersOf
SPECIFICATION FairSpec
PROPERTIES
    UploadsAreSummed
