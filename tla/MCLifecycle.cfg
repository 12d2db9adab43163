\* The process ends.
CONSTANTS
    Conns = {"c1", "c2", "c3"}
    HeadTimeout = 5
    ReadHeaderTimeout = 2
    ReadTimeout = 10
    ShutdownTimeout = 5
SPECIFICATION FairSpec
INVARIANTS
    TypeOK
    GracefulLosesNothing
    OnlyLateRequestsCut
PROPERTY StopsWhenTold
CHECK_DEADLOCK FALSE
