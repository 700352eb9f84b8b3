\* One text is copied; the ends hold another since before the session.
SPECIFICATION Spec
CONSTANTS
    Peer = {agent, client}
    Text = {empty, old, new}
    Image = {}
    Big = {}
    Empty = empty
    None = none
    Initial = {old}
    Stored <- Verbatim
    MaxCopies = 1
    MaxFails = 0
    Capacity = 1
INVARIANTS
    NothingStaleSent
\* A session ends with its link.
CHECK_DEADLOCK FALSE
