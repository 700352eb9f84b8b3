\* A text that is short but grows in JSON.
SPECIFICATION Spec
CONSTANTS
    agent = agent
    client = client
    note = note
    long = long
    markup = markup
    photo = photo
    poster = poster
    Peer = {agent, client}
    Text = {note, markup}
    Image = {photo, poster}
    Size <- Sizes
    Escaped <- EscapedSizes
    MaxMsg = 65536
    MaxText = 49152
    ImgChunk = 32768
    MaxImage <- Limits
    None = none
    MaxOffers = 2
    Capacity = 1
INVARIANTS
    CopyKeepsLink
\* A session ends with its link.
CHECK_DEADLOCK FALSE
