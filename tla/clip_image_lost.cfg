\* One image is copied and one read fails.
SPECIFICATION FairSpec
CONSTANTS
    Peer = {agent, client}
    Text = {empty, old}
    Image = {pic}
    Big = {}
    Empty = empty
    None = none
    Initial = {old}
    Stored <- Verbatim
    MaxCopies = 1
    MaxFails = 1
    Capacity = 1
PROPERTIES
    ImageNoticed
\* A session ends with its link.
CHECK_DEADLOCK FALSE
