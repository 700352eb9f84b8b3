------------------------------- MODULE ClipWire -------------------------------
(* How a changed clipboard crosses the link of a session: the writing half of *)
(* the poller and the reading half of Sync (src/internal/clip/sync.go) over   *)
(* the frames of WriteMsg and ReadMsg (src/internal/proto/proto.go).  A text  *)
(* is one frame; an image is cut into chunks that the other end joins.  All   *)
(* that counts here is size and order: which changes are worth sending is     *)
(* ClipSync's matter, and so is what becomes of a content that has arrived.   *)
(*                                                                            *)
(* A content is a sequence of pieces <<content, index>>; bytes are counted,   *)
(* in the program's own units.                                                *)

EXTENDS Naturals, Sequences, SequencesExt

CONSTANTS
    Peer,       \* the two ends
    Text,       \* contents that are text
    Image,      \* contents that are images
    Size,       \* bytes of a content
    Escaped,    \* bytes of a text as a JSON string
    MaxMsg,     \* maxMsg: bytes of JSON in a frame
    MaxText,    \* maxText
    ImgChunk,   \* imgChunk
    MaxImage,   \* maxImage of the version an end runs; 0 if it predates images
    None,       \* nothing in hand
    MaxOffers,  \* bound: changes a poller finds
    Capacity    \* bound: frames the link holds before a write blocks

Content == Text \cup Image

ASSUME PeersPair == \E p, q \in Peer : Peer = {p, q} /\ p # q
ASSUME ContentsTyped ==
    /\ Text \cap Image = {}
    /\ None \notin Content
    /\ Size \in [Content -> Nat \ {0}]
    /\ Escaped \in [Text -> Nat]
    /\ MaxImage \in [Peer -> Nat]
ASSUME LimitsNat ==
    /\ MaxMsg \in Nat /\ MaxText \in Nat
    /\ ImgChunk \in Nat \ {0} /\ Capacity \in Nat \ {0}
    /\ MaxOffers \in Nat

VARIABLES
    sending,  \* the content the poller is writing
    pos,      \* bytes of it that are written
    poll,     \* the poller runs
    read,     \* the reader runs
    chan,     \* chan[p]: frames on their way to p
    imgBuf,   \* the image that is being joined: its pieces and their bytes
    nextSeq,
    open,     \* the end has not closed the link
    cut,      \* the link has failed
    offered,  \* history: contents a poller began to write
    owed,     \* history: those the other end wrote and this one can take
    applied   \* history: contents a reader handed on, as their pieces

joinVars == <<imgBuf, nextSeq>>
found == <<offered, owed>>

vars == <<sending, pos, poll, read, chan, joinVars, open, cut, found, applied>>

Other(p) == CHOOSE q \in Peer : q # p

Alive == ~cut /\ \A p \in Peer : open[p]

\* What JSON puts around a text, and at most around a chunk.
TextEnvelope == 25
ChunkEnvelope == 46

Base64(n) == 4 * ((n + 2) \div 3)

\* The frames: what counts of a Msg is its type, the piece it carries, and the
\* lengths of that piece and of the JSON.
ChunkBytes(c, from) == IF Size[c] - from < ImgChunk THEN Size[c] - from ELSE ImgChunk

TextFrame(c) ==
    [type |-> "clip", piece |-> <<c, 0>>, bytes |-> Size[c], json |-> TextEnvelope + Escaped[c],
     seq |-> 0, more |-> FALSE]

Chunk(c, from) ==
    LET n == ChunkBytes(c, from)
    IN  [type |-> "img", piece |-> <<c, from \div ImgChunk>>, bytes |-> n,
         json |-> ChunkEnvelope + Base64(n),
         seq |-> from \div ImgChunk, more |-> from + n < Size[c]]

Ping == [type |-> "ping"]

Frame(c, from) == IF c \in Text THEN TextFrame(c) ELSE Chunk(c, from)

NoImage == [pieces |-> <<>>, bytes |-> 0]

\* A plain text and a chunk fit a frame.
ASSUME FramesFit ==
    /\ TextEnvelope + MaxText <= MaxMsg
    /\ ChunkEnvelope + Base64(ImgChunk) <= MaxMsg

\* The image so far: chunk 0 begins another.
Begun(p) == IF Head(chan[p]).seq = 0 THEN NoImage ELSE imgBuf[p]
Expected(p) == IF Head(chan[p]).seq = 0 THEN 0 ELSE nextSeq[p]

Init ==
    /\ sending = [p \in Peer |-> None]
    /\ pos = [p \in Peer |-> 0]
    /\ poll = [p \in Peer |-> TRUE]
    /\ read = [p \in Peer |-> TRUE]
    /\ chan = [p \in Peer |-> <<>>]
    /\ imgBuf = [p \in Peer |-> NoImage]
    /\ nextSeq = [p \in Peer |-> 0]
    /\ open = [p \in Peer |-> TRUE]
    /\ cut = FALSE
    /\ offered = [p \in Peer |-> <<>>]
    /\ owed = [p \in Peer |-> <<>>]
    /\ applied = [p \in Peer |-> <<>>]

------------------------------------------------------------------------------
(* Faults: definitions as a plausible bug would have them.  They are no part of *)
(* the specification; each shows that some property below can fail.            *)

\* The joined image may grow without limit.
InOrderAnySize(p) == Head(chan[p]).seq = Expected(p)

\* The reader's limit excludes the byte that the sender's includes.
InOrderBelow(p) ==
    /\ Head(chan[p]).seq = Expected(p)
    /\ Begun(p).bytes + Head(chan[p]).bytes < MaxImage[p]

\* The index of a chunk is not looked at.
InOrderAnySeq(p) == Begun(p).bytes + Head(chan[p]).bytes <= MaxImage[p]

\* Nothing is too big to send.
SendableAny(p, c) == c \in Content

\* mu is held while the poller writes, and the reader waits for it.
ReadsIdle(p, type) ==
    /\ read[p] /\ open[p]
    /\ sending[p] = None
    /\ chan[p] # <<>> /\ Head(chan[p]).type = type
    /\ chan' = [chan EXCEPT ![p] = Tail(@)]

\* The reader goes on until nothing is left to read.
ReaderDrains(p) ==
    /\ read[p]
    /\ ~Alive /\ chan[p] = <<>>
    /\ read' = [read EXCEPT ![p] = FALSE]
    /\ open' = [open EXCEPT ![p] = FALSE]
    /\ UNCHANGED <<sending, pos, poll, chan, joinVars, cut, found, applied>>

------------------------------------------------------------------------------
(* The poller *)

\* What the poller finds too big is logged and skipped.
Sendable(p, c) == IF c \in Text THEN Size[c] <= MaxText ELSE Size[c] <= MaxImage[p]

\* A version with the limits of p takes c.
CanTake(p, c) == c \in Text \/ Size[c] <= MaxImage[p]

\* A change is found and it is not too big.
Offer(p, c) ==
    /\ poll[p] /\ sending[p] = None
    /\ Sendable(p, c)
    /\ Len(offered[p]) < MaxOffers
    /\ sending' = [sending EXCEPT ![p] = c]
    /\ pos' = [pos EXCEPT ![p] = 0]
    /\ offered' = [offered EXCEPT ![p] = Append(@, c)]
    /\ owed' = [owed EXCEPT ![Other(p)] = IF CanTake(Other(p), c) THEN Append(@, c) ELSE @]
    /\ UNCHANGED <<poll, read, chan, joinVars, open, cut, applied>>

\* A Write of the connection waits while the link is full.
CanWrite(p) == Alive /\ Len(chan[Other(p)]) < Capacity

SendText(p) ==
    /\ poll[p] /\ sending[p] \in Text
    /\ TextFrame(sending[p]).json <= MaxMsg
    /\ CanWrite(p)
    /\ chan' = [chan EXCEPT ![Other(p)] = Append(@, TextFrame(sending[p]))]
    /\ sending' = [sending EXCEPT ![p] = None]
    /\ UNCHANGED <<pos, poll, read, joinVars, open, cut, found, applied>>

\* One turn of the loop of sendImage.
SendChunk(p) ==
    /\ poll[p] /\ sending[p] \in Image
    /\ CanWrite(p)
    /\ LET chunk == Chunk(sending[p], pos[p])
       IN  /\ chunk.json <= MaxMsg
           /\ chan' = [chan EXCEPT ![Other(p)] = Append(@, chunk)]
           /\ sending' = [sending EXCEPT ![p] = IF chunk.more THEN @ ELSE None]
           /\ pos' = [pos EXCEPT ![p] = IF chunk.more THEN @ + ImgChunk ELSE 0]
    /\ UNCHANGED <<poll, read, joinVars, open, cut, found, applied>>

SendPing(p) ==
    /\ poll[p] /\ sending[p] = None
    /\ CanWrite(p)
    /\ chan' = [chan EXCEPT ![Other(p)] = Append(@, Ping)]
    /\ UNCHANGED <<sending, pos, poll, read, joinVars, open, cut, found, applied>>

\* stop: the poller closes the link and ends.
PollerStops(p) ==
    /\ poll' = [poll EXCEPT ![p] = FALSE]
    /\ open' = [open EXCEPT ![p] = FALSE]
    /\ sending' = [sending EXCEPT ![p] = None]
    /\ UNCHANGED <<pos, read, chan, joinVars, cut, found, applied>>

\* WriteMsg finds the JSON too large.
WriteRefused(p) ==
    /\ poll[p] /\ sending[p] # None
    /\ Frame(sending[p], pos[p]).json > MaxMsg
    /\ PollerStops(p)

\* A write to a link that is gone fails, a ping's if there is nothing to send.
WriteFails(p) ==
    /\ poll[p]
    /\ ~Alive
    /\ PollerStops(p)

\* The select finds done closed.
PollerDone(p) ==
    /\ poll[p] /\ sending[p] = None
    /\ ~read[p]
    /\ poll' = [poll EXCEPT ![p] = FALSE]
    /\ UNCHANGED <<sending, pos, read, chan, joinVars, open, cut, found, applied>>

------------------------------------------------------------------------------
(* The reader *)

\* ReadMsg returns a frame of this type.
Reads(p, type) ==
    /\ read[p] /\ open[p]
    /\ chan[p] # <<>> /\ Head(chan[p]).type = type
    /\ chan' = [chan EXCEPT ![p] = Tail(@)]

ReadText(p) ==
    /\ Reads(p, "clip")
    /\ applied' = [applied EXCEPT ![p] = Append(@, <<Head(chan[p]).piece>>)]
    /\ UNCHANGED <<sending, pos, poll, read, joinVars, open, cut, found>>

InOrder(p) ==
    /\ Head(chan[p]).seq = Expected(p)
    /\ Begun(p).bytes + Head(chan[p]).bytes <= MaxImage[p]

\* The chunk is joined to those before it; the last one completes the image.
ReadChunk(p) ==
    /\ Reads(p, "img")
    /\ InOrder(p)
    /\ LET chunk == Head(chan[p])
           joined == Append(Begun(p).pieces, chunk.piece)
       IN  IF chunk.more
           THEN /\ imgBuf' = [imgBuf EXCEPT ![p] =
                        [pieces |-> joined, bytes |-> Begun(p).bytes + chunk.bytes]]
                /\ nextSeq' = [nextSeq EXCEPT ![p] = Expected(p) + 1]
                /\ UNCHANGED applied
           ELSE /\ imgBuf' = [imgBuf EXCEPT ![p] = NoImage]
                /\ nextSeq' = [nextSeq EXCEPT ![p] = 0]
                /\ applied' = [applied EXCEPT ![p] = Append(@, joined)]
    /\ UNCHANGED <<sending, pos, poll, read, open, cut, found>>

\* Out of order or oversized: what has been joined is dropped, as it is on a chunk that
\* is no base64, which sendImage never writes.
DropChunk(p) ==
    /\ Reads(p, "img")
    /\ ~InOrder(p)
    /\ imgBuf' = [imgBuf EXCEPT ![p] = NoImage]
    /\ nextSeq' = [nextSeq EXCEPT ![p] = 0]
    /\ UNCHANGED <<sending, pos, poll, read, open, cut, found, applied>>

ReadPing(p) ==
    /\ Reads(p, "ping")
    /\ UNCHANGED <<sending, pos, poll, read, joinVars, open, cut, found, applied>>

\* ReadMsg fails; Sync returns, which closes done and the link.  What was on its
\* way may have been lost.
ReaderFails(p) ==
    /\ read[p]
    /\ ~Alive
    /\ read' = [read EXCEPT ![p] = FALSE]
    /\ open' = [open EXCEPT ![p] = FALSE]
    /\ UNCHANGED <<sending, pos, poll, chan, joinVars, cut, found, applied>>

------------------------------------------------------------------------------
\* The link breaks, or is silent for as long as the read deadline allows.
LinkFails ==
    /\ Alive
    /\ cut' = TRUE
    /\ UNCHANGED <<sending, pos, poll, read, chan, joinVars, open, found, applied>>

PollerWrites(p) == SendText(p) \/ SendChunk(p) \/ WriteRefused(p) \/ WriteFails(p) \/ PollerDone(p)
ReaderStep(p) == ReadText(p) \/ ReadChunk(p) \/ DropChunk(p) \/ ReadPing(p) \/ ReaderFails(p)

Next ==
    \/ \E p \in Peer : SendPing(p) \/ PollerWrites(p) \/ ReaderStep(p)
    \/ \E p \in Peer, c \in Content : Offer(p, c)
    \/ LinkFails

Spec == Init /\ [][Next]_vars

\* What is in hand is written when the link takes it, what arrives is read, and a
\* ping, if nothing else, shows the poller that the link is gone.  Users owe nothing.
Fairness ==
    \A p \in Peer : WF_vars(PollerWrites(p)) /\ WF_vars(ReaderStep(p))

FairSpec == Spec /\ Fairness

------------------------------------------------------------------------------
(* Properties *)

\* A content in full.
Pieces(c) ==
    IF c \in Text THEN <<<<c, 0>>>>
    ELSE [i \in 1..((Size[c] + ImgChunk - 1) \div ImgChunk) |-> <<c, i - 1>>]

\* Every variable keeps its type, the link its capacity, and the reader never
\* holds more than its maxImage.
TypeOK ==
    /\ sending \in [Peer -> Content \cup {None}]
    /\ pos \in [Peer -> Nat]
    /\ poll \in [Peer -> BOOLEAN] /\ read \in [Peer -> BOOLEAN]
    /\ \A p \in Peer : Len(chan[p]) <= Capacity
    /\ \A p \in Peer : imgBuf[p].bytes <= MaxImage[p]
    /\ nextSeq \in [Peer -> Nat]
    /\ open \in [Peer -> BOOLEAN] /\ cut \in BOOLEAN
    /\ offered \in [Peer -> Seq(Content)] /\ owed \in [Peer -> Seq(Content)]

\* What an end applies is what the other end found, every content once, whole, and
\* in that order: no chunk is lost, repeated or joined to another image, and of an
\* image that is too big for this end nothing is applied at all.
WholeAndInOrder ==
    \A p \in Peer :
        IsPrefix(applied[p], [i \in DOMAIN owed[p] |-> Pieces(owed[p][i])])

\* The limits of the two ends agree to the byte, and what one sends the other
\* takes: every such content arrives, as long as the link lasts.
Delivered ==
    \A p \in Peer, n \in 1..MaxOffers :
        Len(owed[p]) >= n ~> Len(applied[p]) >= n \/ ~Alive

\* "Bigger copies are skipped with a log line rather than killing the link": no copy,
\* whatever its size, makes an end close a link that works.
CopyKeepsLink == ~cut => \A p \in Peer : open[p]

\* What is true of that: nothing ends a working link but a text within maxText that
\* JSON makes longer.  No image does, and no text for being too big.
OnlyEscapingEnds ==
    ~cut /\ (\E p \in Peer : ~open[p]) =>
        \E p \in Peer : \E i \in DOMAIN offered[p] : \E c \in Text :
            offered[p][i] = c /\ Size[c] <= MaxText /\ Escaped[c] > Size[c]

\* The two ends never block each other: a poller whose write finds the link full
\* gets on, because the reader of the other end waits for no poller.
SendsDrain == \A p \in Peer : sending[p] # None ~> sending[p] = None

\* When the link is gone both goroutines of both ends end, so that the callers
\* can begin a new session.
SessionEnds == ~Alive ~> \A p \in Peer : ~poll[p] /\ ~read[p]
===============================================================================
