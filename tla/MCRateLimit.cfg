\* The model stops at its bounds.
CONSTANTS
    Interval = 3
    Window = 9
    Quota = 4
    Slack = 3
    Unsent = Unsent
    MaxRequests = 6
    MaxTime = 13
SPECIFICATION FairSpec
INVARIANTS
    BelowQuota
    SlotsApart
PROPERTY EverySent
CHECK_DEADLOCK FALSE
