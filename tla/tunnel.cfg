\* A piece each way; one connection may break; every schedule is fair.
SPECIFICATION FairSpec
CONSTANTS
    MaxSend <- Both
    MaxBreaks = 1
INVARIANTS
    TypeOK
    NoTruncation
    OnlyData
PROPERTIES
    ReplyDelivered
    UserTold
    TornDown
\* The one session comes to its end.
CHECK_DEADLOCK FALSE
