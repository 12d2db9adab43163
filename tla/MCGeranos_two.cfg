\* Two runs that upload the same image and a dry run, all overlapping.
CONSTANTS
    Runs = {"run", "late", "dry"}
    DryRuns = {"dry"}
    Limit = 2
    Repos = {"kube"}
    Images = {"a"}
    Unhandled = {}
    ManifestsOf <- OneManifestsOf
    LayersOf <- OneLayersOf
SPECIFICATION Spec
INVARIANTS
    RecordComplete
    DryRunForesees
PROPERTIES
    KeepsPromise
