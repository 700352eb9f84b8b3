\* Two links of one agent and one client; every schedule is fair.
SPECIFICATION FairSpec
CONSTANTS
    AgentId = {a1}
    CtlConn = {k1, k2}
    CliConn = {c1}
    DataConn = {d1}
    None = None
    MaxRestarts = 0
    MaxData = 1
PROPERTIES
    ClientResolved
    DeadLinkDropped
    DeadSessionUnlisted
\* The instance runs out of fresh connections.
CHECK_DEADLOCK FALSE
