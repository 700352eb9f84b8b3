\* Texts and images about the limits of size, one of them a text that grows in JSON;
\* the link may fail.
SPECIFICATION FairSpec
CONSTANTS
    agent = agent
    client = client
    note = note
    long = long
    markup = markup
    photo = photo
    poster = poster
    Peer = {agent, client}
    Text = {note, long, markup}
    Image = {photo, poster}
    Size <- Sizes
    Escaped <- EscapedSizes
    MaxMsg = 65536
    MaxText = 49152
    ImgChunk = 32768
    MaxImage <- Limits
    None = none
    MaxOffers = 2
    Capacity = 1
INVARIANTS
    TypeOK
    WholeAndInOrder
    OnlyEscapingEnds
PROPERTIES
    Delivered
    SendsDrain
    SessionEnds
\* A session ends with its link.
CHECK_DEADLOCK FALSE
