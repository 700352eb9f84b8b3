\* Two links compete under two names; one client, two dial-backs, one crash.
SPECIFICATION Spec
CONSTANTS
    AgentId = {a1, a2}
    CtlConn = {k1, k2}
    CliConn = {c1}
    DataConn = {d1, d2}
    None = None
    MaxRestarts = 1
    MaxData = 1
SYMMETRY Symmetry
INVARIANTS
    TypeOK
    OpenLinkRegistered
    NoGhostAgent
    SessionsMatchPipes
    ParkedIsWatched
    PipeNotCut
    RefusedGetsNothing
    NothingLeaks
PROPERTIES
    NewestRegistrationWins
    ImplementsPromise
\* The instance runs out of fresh connections.
CHECK_DEADLOCK FALSE
