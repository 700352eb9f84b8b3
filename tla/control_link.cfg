\* Two clients; the network fails twice.  The unit of time is 30 s.
SPECIFICATION FairSpec
CONSTANTS
    Client = {c1, c2}
    Beat = beat
    None = none
    PingInterval = 1
    ReadTimeout = 3
    Capacity = 2
    MaxFaults = 2
INVARIANTS
    TypeOK
    Framed
    HealthyKept
    DeadNoticed
PROPERTIES
    NotifyReleased
    AgentReturns
