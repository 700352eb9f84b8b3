\* Nobody copies anything; an end may hold an image when the session begins.
SPECIFICATION Spec
CONSTANTS
    Peer = {agent, client}
    Text = {empty, old}
    Image = {pic}
    Big = {}
    Empty = empty
    None = none
    Initial = {old, pic}
    Stored <- Verbatim
    MaxCopies = 0
    MaxFails = 0
    Capacity = 1
INVARIANTS
    SilentUntilCopy
\* A session ends with its link.
CHECK_DEADLOCK FALSE
