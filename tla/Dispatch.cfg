SPECIFICATION FairSpec
CONSTANTS
    Names <- MCNames
    Empty = ""
    Apps <- MCApps
    Requests <- MCRequests
CHECK_DEADLOCK FALSE
INVARIANTS
    RightHandler
    RunsOnce
    ScopeIsOwn
PROPERTY
    AnsweredOrExplained
