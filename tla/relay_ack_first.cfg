\* The smallest relay in which an agent answers a Notify.
SPECIFICATION Spec
CONSTANTS
    AgentId = {a1}
    CtlConn = {k1}
    CliConn = {c1}
    DataConn = {d1}
    None = None
    MaxRestarts = 0
    MaxData = 1
INVARIANTS
    AckBeforePipe
\* The instance runs out of fresh connections.
CHECK_DEADLOCK FALSE
