\* One copy, of a text or an image, possibly too big; one clipboard command may fail.
SPECIFICATION FairSpec
CONSTANTS
    Peer = {agent, client}
    Text = {empty, new, huge}
    Image = {pic}
    Big = {huge}
    Empty = empty
    None = none
    Initial = {empty}
    Stored <- Verbatim
    MaxCopies = 1
    MaxFails = 1
    Capacity = 1
INVARIANTS
    TypeOK
    SilentUntilCopy
    BigStaysHome
PROPERTIES
    TextArrives
\* A session ends with its link.
CHECK_DEADLOCK FALSE
