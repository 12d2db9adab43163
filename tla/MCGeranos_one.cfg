\* One run at a time, killed and started again: four images to copy, and room
\* for the walker and two goroutines.
CONSTANTS
    Runs = {"run"}
    DryRuns = {}
    Limit = 3
    Repos = {"kube", "mirror"}
    Images = {"a", "b", "x"}
    Unhandled = {"x"}
    ManifestsOf <- MCManifestsOf
    LayersOf <- MCLayersOf
SPECIFICATION FairSpec
INVARIANTS
    TypeOK
    DoneMeansMirrored
    NoneAbandoned
PROPERTIES
    RunEnds
    GoesForward
