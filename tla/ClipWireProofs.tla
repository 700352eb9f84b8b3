---------------------------- MODULE ClipWireProofs ----------------------------
(* Proofs about ClipWire for all contents and sizes, limits that fit a frame, *)
(* and every capacity of the link: its type invariant, that what arrives is   *)
(* what was sent, whole and in order, and what can end a link that works.     *)

EXTENDS ClipWire, TLAPS

------------------------------------------------------------------------------
(* The inductive invariant, in named parts *)

\* A chunk begins at a multiple of ImgChunk within its image.
Starts(c) == {k \in Nat : k * ImgChunk < Size[c]}

Frames ==
    {Ping} \cup {TextFrame(c) : c \in Text} \cup
    UNION {{Chunk(c, k * ImgChunk) : k \in Starts(c)} : c \in Image}

Joined == [pieces : Seq(Content \X Nat), bytes : Nat]

\* TypeOK, and the types of what it says nothing about.
LinkTyped ==
    /\ TypeOK
    /\ chan \in [Peer -> Seq(Frames)]
    /\ imgBuf \in [Peer -> Joined]
    /\ applied \in [Peer -> Seq(Seq(Content \X Nat))]

\* What a poller is writing was found by it, and it is worth sending.
WorthSending(p) ==
    /\ poll[p]
    /\ \E i \in DOMAIN offered[p] : offered[p][i] = sending[p]
    /\ Sendable(p, sending[p])
    /\ sending[p] \in Image => \E k \in Starts(sending[p]) : pos[p] = k * ImgChunk

SendingOffered == \A p \in Peer : sending[p] # None => WorthSending(p)

\* The first k pieces of an image.
First(c, k) == [i \in 1..k |-> <<c, i - 1>>]

\* Place i of the link to p, or the poller behind the last place, is at chunk k of c.
At(p, i, c, k) ==
    \/ i <= Len(chan[p]) /\ chan[p][i] = Chunk(c, k * ImgChunk)
    \/ i = Len(chan[p]) + 1 /\ sending[Other(p)] = c /\ pos[Other(p)] = k * ImgChunk

\* The reader of p is ready for chunk k: it holds the chunks before it, or the image is
\* too big for p and it has dropped them.
Ready(p, c, k) ==
    \/ imgBuf[p] = [pieces |-> First(c, k), bytes |-> k * ImgChunk] /\ nextSeq[p] = k
    \/ ~CanTake(p, c) /\ nextSeq[p] = 0

\* What comes before place i leads up to chunk k.
LeadsTo(p, i, c, k) ==
    \/ k = 0
    \/ i = 1 /\ Ready(p, c, k)
    \/ i > 1 /\ chan[p][i - 1] = Chunk(c, (k - 1) * ImgChunk)

\* No chunk is missing, repeated or in the wrong place, on the link or in the reader.
ChunksFollow(p) ==
    \A i \in 1..Len(chan[p]) + 1, c \in Image :
        \A k \in Starts(c) : At(p, i, c, k) => LeadsTo(p, i, c, k)

\* A frame of a content that p can take, and one that completes it.
Carries(p, f) == f.type # "ping" /\ CanTake(p, f.piece[1])
Completes(p, f) == Carries(p, f) /\ (f.type = "img" => ~f.more)

\* n contents are complete before a frame, and After of them after it; the frame
\* carries the next of those due.
After(p, f, n) == IF Completes(p, f) THEN n + 1 ELSE n
CarriesNext(p, due, f, n) == Carries(p, f) => n < Len(due) /\ due[n + 1] = f.piece[1]

\* The frames carry what is due, in order: from the contents after the first a to those
\* before the b-th, and num[i] are complete before frame i.
Carry(p, frames, due, a, b) ==
    \E num \in [1..Len(frames) + 1 -> 0..Len(due)] :
        /\ num[1] = a /\ num[Len(frames) + 1] = b
        /\ \A i \in 1..Len(frames) :
              /\ num[i + 1] = After(p, frames[i], num[i])
              /\ CarriesNext(p, due, frames[i], num[i])

\* The other end has in hand what p can take.
InHand(p) == sending[Other(p)] # None /\ CanTake(p, sending[Other(p)])

\* After the n contents that are on the link in full, what is in hand is all that is owed.
Remains(p, n) ==
    /\ InHand(p) => Len(owed[p]) = n + 1 /\ owed[p][n + 1] = sending[Other(p)]
    /\ poll[Other(p)] /\ ~InHand(p) => Len(owed[p]) = n

\* The link carries what is owed and not yet applied, in order.
OwedInOrder(p) ==
    \E n \in 0..Len(owed[p]) :
        Carry(p, chan[p], owed[p], Len(applied[p]), n) /\ Remains(p, n)

\* What has been applied is the beginning of what is owed, in full.
AppliedOwed(p) == \A i \in 1..Len(applied[p]) : applied[p][i] = Pieces(owed[p][i])

LinkInv(p) == ChunksFollow(p) /\ OwedInOrder(p) /\ AppliedOwed(p)
WireInv == \A p \in Peer : LinkInv(p)

IInv == LinkTyped /\ SendingOffered /\ OnlyEscapingEnds /\ WireInv

------------------------------------------------------------------------------
(* The operators of the model *)

\* Sequences that agree up to a place begin alike.
LEMMA SameStart ==
    ASSUME NEW S, NEW T, NEW s \in Seq(S), NEW t \in Seq(T),
           NEW n \in Nat, n <= Len(s), n <= Len(t), \A i \in 1..n : s[i] = t[i]
    PROVE  SubSeq(s, 1, n) = SubSeq(t, 1, n)
OBVIOUS

\* The other end is an end.
LEMMA OtherIsPeer == ASSUME NEW p \in Peer PROVE Other(p) \in Peer /\ Other(p) # p
BY PeersPair DEF Other

\* Chunk k of an image: it carries piece k, there is another if the image goes on
\* behind it, and it is not too large for a frame.
LEMMA ChunkFits ==
    ASSUME NEW c \in Image, NEW k \in Starts(c), NEW f, f = Chunk(c, k * ImgChunk)
    PROVE  /\ f.type = "img" /\ f.piece = <<c, k>> /\ f.seq = k
           /\ f.more \in BOOLEAN /\ f.bytes \in Nat
           /\ f.more => k + 1 \in Starts(c) /\ f.bytes = ImgChunk
           /\ ~f.more => Size[c] <= (k + 1) * ImgChunk
           /\ ~f.more => k * ImgChunk + f.bytes = Size[c]
           /\ k * ImgChunk + f.bytes <= Size[c]
           /\ ~(f.json > MaxMsg)
<1> DEFINE D == ImgChunk
           from == k * D
           n == ChunkBytes(c, from)
<1>1. /\ Size[c] \in Nat \ {0} /\ from \in Nat /\ from < Size[c] /\ k \in Nat
      /\ D \in Nat \ {0} /\ MaxMsg \in Nat
  BY ContentsTyped, LimitsNat DEF Content, Starts
<1>2. (k + 1) * D = from + D /\ from \div D = k
  BY <1>1
<1> HIDE DEF from, D
<1>3. /\ n \in Nat /\ n <= D /\ from + n <= Size[c]
      /\ from + n < Size[c] => n = D
      /\ ~(from + n < Size[c]) => from + n = Size[c] /\ Size[c] <= from + D
  BY <1>1 DEF ChunkBytes, D
<1>4. /\ f.type = "img" /\ f.piece = <<c, from \div D>> /\ f.seq = from \div D /\ f.bytes = n
      /\ f.more = (from + n < Size[c]) /\ f.json = ChunkEnvelope + Base64(n)
  BY DEF Chunk, D, from
<1>5. \A i, j \in Nat : i <= j => i \div 3 <= j \div 3 /\ i \div 3 \in Nat
  OBVIOUS
<1>6. Base64(n) <= Base64(D) /\ Base64(n) \in Nat /\ Base64(D) \in Nat
  <2> DEFINE i == n + 2
             j == D + 2
  <2>1. i \in Nat /\ j \in Nat /\ i <= j
    BY <1>1, <1>3
  <2>2. i \div 3 <= j \div 3 /\ i \div 3 \in Nat /\ j \div 3 \in Nat
    BY <1>5, <2>1
  <2> QED
    BY <2>2 DEF Base64
<1>7. ~(f.json > MaxMsg)
  BY <1>1, <1>4, <1>6, FramesFit DEF ChunkEnvelope, D
<1>8. f.more => k + 1 \in Starts(c)
  <2>1. f.more => (k + 1) * D < Size[c]
    BY <1>1, <1>2, <1>3, <1>4
  <2> QED
    BY <1>1, <2>1 DEF Starts, D
<1>9. f.more => Size[c] > from + n /\ n = D
  BY <1>3, <1>4
<1>10. ~f.more => Size[c] <= (k + 1) * D /\ from + n = Size[c]
  BY <1>2, <1>3, <1>4
<1>11. f.bytes \in Nat /\ from + f.bytes <= Size[c] /\ f.piece = <<c, k>> /\ f.seq = k
  BY <1>2, <1>3, <1>4
<1>12. f.more \in BOOLEAN
  BY DEF Chunk
<1> QED
  BY <1>4, <1>7, <1>8, <1>9, <1>10, <1>11, <1>12 DEF D, from

\* A frame has the fields the reader looks at, and their types.
LEMMA FrameFields ==
    ASSUME NEW f \in Frames
    PROVE  /\ f.type \in {"ping", "clip", "img"}
           /\ f.type = "clip" => f.piece \in Content \X Nat
           /\ f.type = "img" => /\ f.piece \in Content \X Nat /\ f.bytes \in Nat
                                /\ f.seq \in Nat /\ f.more \in BOOLEAN
<1>1. CASE f = Ping
  BY <1>1 DEF Ping
<1>2. CASE \E c \in Text : f = TextFrame(c)
  BY <1>2 DEF TextFrame, Content
<1>3. CASE \E c \in Image : \E k \in Starts(c) : f = Chunk(c, k * ImgChunk)
  <2> PICK c \in Image : \E k \in Starts(c) : f = Chunk(c, k * ImgChunk)
    BY <1>3
  <2>1. PICK k \in Starts(c) : f = Chunk(c, k * ImgChunk)
    OBVIOUS
  <2>2. f.type = "img" /\ f.piece = <<c, k>> /\ f.seq = k /\ f.more \in BOOLEAN /\ f.bytes \in Nat
    BY <2>1, ChunkFits
  <2>3. <<c, k>> \in Content \X Nat /\ k \in Nat
    BY DEF Starts, Content
  <2> QED
    BY <2>2, <2>3
<1> QED
  BY <1>1, <1>2, <1>3 DEF Frames

\* An image that is joined to another piece.
LEMMA JoinedGrows ==
    ASSUME NEW image \in Joined, NEW piece \in Content \X Nat, NEW n \in Nat
    PROVE  /\ Append(image.pieces, piece) \in Seq(Content \X Nat)
           /\ [pieces |-> Append(image.pieces, piece), bytes |-> image.bytes + n] \in Joined
BY DEF Joined

\* What an end has applied keeps its type.
LEMMA AppliedGrows ==
    ASSUME NEW p \in Peer, NEW s \in Seq(Content \X Nat),
           applied \in [Peer -> Seq(Seq(Content \X Nat))],
           applied' = [applied EXCEPT ![p] = Append(@, s)]
    PROVE  applied' \in [Peer -> Seq(Seq(Content \X Nat))]
<1>1. Append(applied[p], s) \in Seq(Seq(Content \X Nat))
  OBVIOUS
<1> QED
  BY <1>1

\* A text that is worth sending and does not fit a frame grows in JSON.
LEMMA RefusedGrows ==
    ASSUME NEW c \in Text, Size[c] <= MaxText, TextFrame(c).json > MaxMsg
    PROVE  Escaped[c] > Size[c]
BY ContentsTyped, LimitsNat, FramesFit DEF TextFrame, TextEnvelope, Content

------------------------------------------------------------------------------
(* Each part is kept by every step *)

\* What Next consists of.
LEMMA StepCases ==
    ASSUME [Next]_vars
    PROVE  \/ \E p \in Peer :
                 \/ SendPing(p) \/ SendText(p) \/ SendChunk(p)
                 \/ WriteRefused(p) \/ WriteFails(p) \/ PollerDone(p)
                 \/ ReadText(p) \/ ReadChunk(p) \/ DropChunk(p) \/ ReadPing(p)
                 \/ ReaderFails(p)
                 \/ \E c \in Content : Offer(p, c)
           \/ LinkFails
           \/ UNCHANGED vars
BY DEF Next, PollerWrites, ReaderStep

\* Every step keeps the types.
LEMMA TypeStep == IInv /\ [Next]_vars => LinkTyped'
<1> SUFFICES ASSUME IInv, [Next]_vars PROVE LinkTyped'
  OBVIOUS
<1> USE DEF IInv, LinkTyped, TypeOK, joinVars, found
<1>0. ASSUME NEW q \in Peer, NEW f \in Frames, Len(chan[q]) < Capacity,
             chan' = [chan EXCEPT ![q] = Append(@, f)]
      PROVE  chan' \in [Peer -> Seq(Frames)] /\ \A r \in Peer : Len(chan'[r]) <= Capacity
  BY <1>0, LimitsNat
<1>1. ASSUME NEW p \in Peer, NEW c \in Content, Offer(p, c) PROVE LinkTyped'
  <2>1. offered' \in [Peer -> Seq(Content)]
    BY <1>1 DEF Offer
  <2>2. owed' \in [Peer -> Seq(Content)]
    <3>1. Append(owed[Other(p)], c) \in Seq(Content) /\ Other(p) \in Peer
      BY OtherIsPeer
    <3>2. PICK s \in Seq(Content) : owed' = [owed EXCEPT ![Other(p)] = s]
      BY <1>1, <3>1 DEF Offer
    <3> QED
      BY <3>2
  <2> QED
    BY <1>1, <2>1, <2>2 DEF Offer
<1>2. ASSUME NEW p \in Peer, SendPing(p) PROVE LinkTyped'
  <2>1. Ping \in Frames /\ Other(p) \in Peer
    BY OtherIsPeer DEF Frames
  <2>2. chan' \in [Peer -> Seq(Frames)] /\ \A r \in Peer : Len(chan'[r]) <= Capacity
    BY <1>0, <1>2, <2>1 DEF SendPing, CanWrite
  <2> QED
    BY <1>2, <2>2 DEF SendPing
<1>3. ASSUME NEW p \in Peer, SendText(p) PROVE LinkTyped'
  <2>1. TextFrame(sending[p]) \in Frames /\ Other(p) \in Peer
    BY <1>3, OtherIsPeer DEF SendText, Frames
  <2>2. chan' \in [Peer -> Seq(Frames)] /\ \A r \in Peer : Len(chan'[r]) <= Capacity
    BY <1>0, <1>3, <2>1 DEF SendText, CanWrite
  <2> QED
    BY <1>3, <2>2 DEF SendText
<1>4. ASSUME NEW p \in Peer, SendChunk(p) PROVE LinkTyped'
  <2> DEFINE chunk == Chunk(sending[p], pos[p])
  <2>1. /\ sending[p] \in Image /\ sending[p] # None
        /\ \E k \in Starts(sending[p]) : pos[p] = k * ImgChunk
    BY <1>4, ContentsTyped, SMTT(30) DEF SendChunk, SendingOffered, WorthSending,
      Content
  <2>2. chunk \in Frames
    BY <2>1 DEF Frames
  <2>3. Other(p) \in Peer /\ pos[p] + ImgChunk \in Nat
    BY OtherIsPeer, LimitsNat
  <2>4. chan' = [chan EXCEPT ![Other(p)] = Append(@, chunk)] /\ Len(chan[Other(p)]) < Capacity
    BY <1>4 DEF SendChunk, CanWrite
  <2>5. chan' \in [Peer -> Seq(Frames)] /\ \A q \in Peer : Len(chan'[q]) <= Capacity
    BY <1>0, <2>2, <2>3, <2>4
  <2>6. sending' \in [Peer -> Content \cup {None}] /\ pos' \in [Peer -> Nat]
    BY <1>4, <2>1, <2>3 DEF SendChunk
  <2> QED
    BY <1>4, <2>5, <2>6 DEF SendChunk
<1>5. ASSUME NEW p \in Peer, WriteRefused(p) \/ WriteFails(p) PROVE LinkTyped'
  BY <1>5 DEF WriteRefused, WriteFails, PollerStops
<1>6. ASSUME NEW p \in Peer, PollerDone(p) PROVE LinkTyped'
  BY <1>6 DEF PollerDone
<1>7. ASSUME NEW p \in Peer, NEW type, Reads(p, type)
      PROVE  /\ chan' \in [Peer -> Seq(Frames)] /\ \A q \in Peer : Len(chan'[q]) <= Capacity
             /\ Head(chan[p]) \in Frames
  BY <1>7, LimitsNat DEF Reads
<1>8. ASSUME NEW p \in Peer, ReadText(p) PROVE LinkTyped'
  <2>1. Head(chan[p]).piece \in Content \X Nat
    BY <1>7, <1>8, FrameFields DEF ReadText, Reads
  <2>2. <<Head(chan[p]).piece>> \in Seq(Content \X Nat)
    BY <2>1
  <2>3. applied' \in [Peer -> Seq(Seq(Content \X Nat))]
    BY <1>8, <2>2, AppliedGrows DEF ReadText
  <2> QED
    BY <1>7, <1>8, <2>3 DEF ReadText
<1>9. ASSUME NEW p \in Peer, ReadChunk(p) PROVE LinkTyped'
  <2> DEFINE chunk == Head(chan[p])
             joined == Append(Begun(p).pieces, chunk.piece)
             grown == [pieces |-> joined, bytes |-> Begun(p).bytes + chunk.bytes]
  <2>1. /\ chunk.piece \in Content \X Nat /\ chunk.bytes \in Nat
        /\ chunk.seq \in Nat /\ chunk.more \in BOOLEAN
    BY <1>7, <1>9, FrameFields DEF ReadChunk, Reads
  <2>2. NoImage \in Joined /\ \A q \in Peer : NoImage.bytes <= MaxImage[q]
    BY ContentsTyped DEF NoImage, Joined
  <2>3. Begun(p) \in Joined /\ Expected(p) \in Nat
    BY <2>2 DEF Begun, Expected
  <2>4. joined \in Seq(Content \X Nat) /\ grown \in Joined
    BY <2>1, <2>3, JoinedGrows
  <2>5. grown.bytes <= MaxImage[p]
    BY <1>9 DEF ReadChunk, InOrder
  <2>6. CASE chunk.more
    <3>1. /\ imgBuf' = [imgBuf EXCEPT ![p] = grown]
          /\ nextSeq' = [nextSeq EXCEPT ![p] = Expected(p) + 1]
          /\ UNCHANGED applied
      BY <1>9, <2>6 DEF ReadChunk
    <3>2. imgBuf' \in [Peer -> Joined] /\ \A q \in Peer : imgBuf'[q].bytes <= MaxImage[q]
      <4> HIDE DEF grown
      <4> QED
        BY <2>4, <2>5, <3>1
    <3>3. nextSeq' \in [Peer -> Nat]
      BY <2>3, <3>1
    <3> QED
      BY <1>7, <1>9, <3>1, <3>2, <3>3 DEF ReadChunk
  <2>7. CASE ~chunk.more
    <3>1. /\ imgBuf' = [imgBuf EXCEPT ![p] = NoImage]
          /\ nextSeq' = [nextSeq EXCEPT ![p] = 0]
          /\ applied' = [applied EXCEPT ![p] = Append(@, joined)]
      BY <1>9, <2>7 DEF ReadChunk
    <3>2. imgBuf' \in [Peer -> Joined] /\ \A q \in Peer : imgBuf'[q].bytes <= MaxImage[q]
      BY <2>2, <3>1
    <3>3. applied' \in [Peer -> Seq(Seq(Content \X Nat))]
      <4>1. joined \in Seq(Content \X Nat)
        BY <2>4
      <4>2. applied \in [Peer -> Seq(Seq(Content \X Nat))]
        OBVIOUS
      <4> HIDE DEF joined, IInv, LinkTyped, TypeOK
      <4> QED
        BY <3>1, <4>1, <4>2, AppliedGrows
    <3> QED
      BY <1>7, <1>9, <3>1, <3>2, <3>3 DEF ReadChunk
  <2> QED
    BY <2>6, <2>7
<1>10. ASSUME NEW p \in Peer, DropChunk(p) PROVE LinkTyped'
  <2>1. NoImage \in Joined /\ \A q \in Peer : NoImage.bytes <= MaxImage[q]
    BY ContentsTyped DEF NoImage, Joined
  <2> QED
    BY <1>7, <1>10, <2>1 DEF DropChunk
<1>11. ASSUME NEW p \in Peer, ReadPing(p) PROVE LinkTyped'
  BY <1>7, <1>11 DEF ReadPing
<1>12. ASSUME NEW p \in Peer, ReaderFails(p) PROVE LinkTyped'
  BY <1>12 DEF ReaderFails
<1>13. CASE LinkFails
  BY <1>13 DEF LinkFails
<1>14. CASE UNCHANGED vars
  BY <1>14 DEF vars
<1> QED
  BY <1>1, <1>2, <1>3, <1>4, <1>5, <1>6, <1>8, <1>9, <1>10, <1>11, <1>12, <1>13,
    <1>14, StepCases

\* Every step leaves in hand only what was found and is worth sending.
LEMMA SendingStep == IInv /\ [Next]_vars => SendingOffered'
<1> SUFFICES ASSUME IInv, [Next]_vars PROVE SendingOffered'
  OBVIOUS
<1> USE ContentsTyped DEF IInv, LinkTyped, TypeOK, SendingOffered, WorthSending, Sendable,
  joinVars, found
<1>0. ASSUME NEW q \in Peer, UNCHANGED <<sending[q], poll[q], pos[q], offered[q]>>,
             sending[q] # None
      PROVE  WorthSending(q)'
  BY <1>0
<1>1. ASSUME NEW p \in Peer, NEW c \in Content, Offer(p, c) PROVE SendingOffered'
  <2>1. /\ Len(offered'[p]) = Len(offered[p]) + 1
        /\ offered'[p][Len(offered[p]) + 1] = c
        /\ Len(offered[p]) + 1 \in DOMAIN offered'[p]
    BY <1>1 DEF Offer
  <2>2. /\ sending'[p] = c /\ Sendable(p, c)
        /\ c \in Image => \E k \in Starts(c) : pos'[p] = k * ImgChunk
    <3>1. pos'[p] = 0 * ImgChunk /\ (c \in Image => 0 \in Starts(c))
      BY <1>1, LimitsNat DEF Offer, Content, Starts
    <3> QED
      BY <1>1, <3>1 DEF Offer
  <2>3. ASSUME NEW q \in Peer, q # p
        PROVE  sending'[q] = sending[q] /\ pos'[q] = pos[q] /\ offered'[q] = offered[q]
    BY <1>1, <2>3 DEF Offer
  <2>4. \E i \in DOMAIN offered'[p] : offered'[p][i] = sending'[p]
    BY <2>1, <2>2
  <2>5. poll[p] /\ UNCHANGED poll
    BY <1>1 DEF Offer
  <2>6. ASSUME NEW q \in Peer, q # p, sending'[q] # None
        PROVE  WorthSending(q)'
    <3>1. /\ sending'[q] = sending[q] /\ pos'[q] = pos[q] /\ offered'[q] = offered[q]
          /\ poll'[q] = poll[q]
      BY <2>3, <2>5, <2>6
    <3> QED
      BY <1>0, <2>6, <3>1
  <2> QED
    BY <2>2, <2>4, <2>5, <2>6
<1>2. ASSUME NEW p \in Peer, SendPing(p) PROVE SendingOffered'
  BY <1>2 DEF SendPing
<1>3. ASSUME NEW p \in Peer, SendText(p) PROVE SendingOffered'
  BY <1>3 DEF SendText
<1>4. ASSUME NEW p \in Peer, SendChunk(p) PROVE SendingOffered'
  <2> DEFINE chunk == Chunk(sending[p], pos[p])
  <2>1. /\ sending[p] \in Image /\ sending[p] # None
        /\ \E k \in Starts(sending[p]) : pos[p] = k * ImgChunk
    BY <1>4, SMTT(30) DEF SendChunk, Content
  <2>2. chunk.more => \E k \in Starts(sending[p]) : pos[p] + ImgChunk = k * ImgChunk
    <3>1. PICK k \in Starts(sending[p]) : pos[p] = k * ImgChunk
      BY <2>1
    <3>2. chunk.more => k + 1 \in Starts(sending[p])
      BY <2>1, <3>1, ChunkFits
    <3>3. pos[p] + ImgChunk = (k + 1) * ImgChunk
      BY <3>1, LimitsNat DEF Starts
    <3> QED
      BY <3>2, <3>3
  <2>3. /\ sending' = [sending EXCEPT ![p] = IF chunk.more THEN @ ELSE None]
        /\ pos' = [pos EXCEPT ![p] = IF chunk.more THEN @ + ImgChunk ELSE 0]
        /\ UNCHANGED <<poll, offered>>
    BY <1>4 DEF SendChunk
  <2>4. CASE chunk.more
    <3>1. /\ sending' = sending /\ pos'[p] = pos[p] + ImgChunk
          /\ \A q \in Peer : q # p => pos'[q] = pos[q]
      BY <2>3, <2>4
    <3>2. ASSUME NEW q \in Peer, q # p, sending'[q] # None PROVE WorthSending(q)'
      BY <1>0, <2>3, <3>1, <3>2
    <3>3. WorthSending(p)'
      BY <2>1, <2>2, <2>3, <3>1
    <3> QED
      BY <3>2, <3>3
  <2>5. CASE ~chunk.more
    <3>1. sending'[p] = None /\ \A q \in Peer : q # p => UNCHANGED <<sending[q], pos[q]>>
      BY <2>3, <2>5
    <3>2. ASSUME NEW q \in Peer, sending'[q] # None PROVE WorthSending(q)'
      <4>1. q # p
        BY <3>1, <3>2
      <4>2. UNCHANGED <<sending[q], poll[q], pos[q], offered[q]>>
        BY <2>3, <3>1, <4>1
      <4> QED
        BY <1>0, <3>2, <4>2
    <3> QED
      BY <3>2
  <2> QED
    BY <2>4, <2>5
<1>5. ASSUME NEW p \in Peer, WriteRefused(p) \/ WriteFails(p) PROVE SendingOffered'
  <2>1. /\ sending'[p] = None /\ UNCHANGED <<pos, offered>>
        /\ \A q \in Peer : q # p => UNCHANGED <<sending[q], poll[q]>>
    BY <1>5 DEF WriteRefused, WriteFails, PollerStops
  <2> QED
    BY <1>0, <2>1
<1>6. ASSUME NEW p \in Peer, PollerDone(p) PROVE SendingOffered'
  BY <1>6 DEF PollerDone
<1>7. ASSUME NEW p \in Peer, ReadText(p) \/ ReadChunk(p) \/ DropChunk(p) \/ ReadPing(p)
      PROVE  SendingOffered'
  BY <1>7 DEF ReadText, ReadChunk, DropChunk, ReadPing
<1>8. ASSUME NEW p \in Peer, ReaderFails(p) PROVE SendingOffered'
  BY <1>8 DEF ReaderFails
<1>9. CASE LinkFails
  BY <1>9 DEF LinkFails
<1>10. CASE UNCHANGED vars
  BY <1>10 DEF vars
<1> QED
  BY <1>1, <1>2, <1>3, <1>4, <1>5, <1>6, <1>7, <1>8, <1>9, <1>10, StepCases

\* A text that JSON makes longer was found by some poller.
Grown ==
    \E p \in Peer : \E i \in DOMAIN offered[p] : \E c \in Text :
        offered[p][i] = c /\ Size[c] <= MaxText /\ Escaped[c] > Size[c]

\* Every step that closes a link that works does so for such a text.
LEMMA EndsStep == IInv /\ [Next]_vars => OnlyEscapingEnds'
<1> SUFFICES ASSUME IInv, [Next]_vars PROVE OnlyEscapingEnds'
  OBVIOUS
<1> SUFFICES ASSUME ~cut', NEW r \in Peer, ~open'[r] PROVE Grown'
  BY DEF OnlyEscapingEnds, Grown
<1>1. ~cut /\ (\E p \in Peer : ~open[p]) => Grown
  BY DEF IInv, OnlyEscapingEnds, Grown
<1> USE DEF IInv, LinkTyped, TypeOK, joinVars, found
<1>2. CASE \E p \in Peer : \E c \in Content : Offer(p, c)
  <2> PICK p \in Peer, c \in Content : Offer(p, c)
    BY <1>2
  <2>1. UNCHANGED <<open, cut>>
    BY DEF Offer
  <2>2. PICK q \in Peer : \E i \in DOMAIN offered[q] : \E t \in Text :
           offered[q][i] = t /\ Size[t] <= MaxText /\ Escaped[t] > Size[t]
    BY <1>1, <2>1 DEF Grown
  <2>3. ASSUME NEW i \in DOMAIN offered[q]
        PROVE  i \in DOMAIN offered'[q] /\ offered'[q][i] = offered[q][i]
    <3>1. offered' = [offered EXCEPT ![p] = Append(@, c)] /\ offered[q] \in Seq(Content)
      BY DEF Offer
    <3> HIDE DEF IInv, LinkTyped, TypeOK
    <3>2. CASE q = p
      <4>1. offered'[q] = Append(offered[q], c) \/ offered'[q] = offered[q]
        BY <3>1
      <4> QED
        BY <2>3, <3>1, <4>1, SMTT(20)
    <3>3. CASE q # p
      BY <2>3, <3>1, <3>3
    <3> QED
      BY <3>2, <3>3
  <2>4. PICK i \in DOMAIN offered[q] : \E t \in Text :
           offered[q][i] = t /\ Size[t] <= MaxText /\ Escaped[t] > Size[t]
    BY <2>2
  <2>5. i \in DOMAIN offered'[q] /\ offered'[q][i] = offered[q][i]
    BY <2>3
  <2> QED
    BY <2>4, <2>5, Zenon DEF Grown
<1>3. ASSUME UNCHANGED <<open, offered>>, cut' = cut PROVE Grown'
  BY <1>1, <1>3 DEF Grown
<1>4. ASSUME NEW p \in Peer, WriteRefused(p) PROVE Grown'
  <2>1. UNCHANGED <<offered, cut>>
    BY <1>4 DEF WriteRefused, PollerStops
  <2>2. CASE sending[p] \in Text
    <3>1. Size[sending[p]] <= MaxText /\ Escaped[sending[p]] > Size[sending[p]]
      BY <1>4, <2>2, RefusedGrows, ContentsTyped
      DEF WriteRefused, SendingOffered, WorthSending, Sendable, Content, Frame
    <3>2. \E i \in DOMAIN offered[p] : offered[p][i] = sending[p]
      BY <1>4 DEF WriteRefused, SendingOffered, WorthSending
    <3> QED
      BY <2>1, <2>2, <3>1, <3>2 DEF Grown
  <2>3. CASE sending[p] \in Image
    <3>1. \E k \in Starts(sending[p]) : pos[p] = k * ImgChunk
      BY <1>4, <2>3 DEF WriteRefused, SendingOffered, WorthSending
    <3>2. sending[p] \notin Text
      BY <2>3, ContentsTyped
    <3> QED
      BY <1>4, <2>3, <3>1, <3>2, ChunkFits DEF WriteRefused, Frame
  <2> QED
    BY <1>4, <2>2, <2>3 DEF WriteRefused, Content
<1>5. ASSUME NEW p \in Peer, WriteFails(p) \/ ReaderFails(p) PROVE Grown'
  <2>1. ~cut /\ UNCHANGED offered /\ \E q \in Peer : ~open[q]
    BY <1>5 DEF WriteFails, ReaderFails, PollerStops, Alive
  <2> QED
    BY <1>1, <2>1 DEF Grown
<1>6. ASSUME NEW p \in Peer,
             \/ SendPing(p) \/ SendText(p) \/ SendChunk(p) \/ PollerDone(p)
             \/ ReadText(p) \/ ReadChunk(p) \/ DropChunk(p) \/ ReadPing(p)
      PROVE  Grown'
  <2>1. UNCHANGED <<open, offered>> /\ cut' = cut
    BY <1>6 DEF SendPing, SendText, SendChunk, PollerDone, ReadText, ReadChunk,
      DropChunk, ReadPing
  <2> QED
    BY <1>3, <2>1
<1>7. CASE LinkFails
  BY <1>7 DEF LinkFails
<1>8. CASE UNCHANGED vars
  BY <1>3, <1>8 DEF vars
<1> QED
  BY <1>2, <1>4, <1>5, <1>6, <1>7, <1>8, StepCases

------------------------------------------------------------------------------
(* One link: what a poller appends and a reader takes off *)

\* There are two ends.
LEMMA TwoPeers ==
    ASSUME NEW p \in Peer
    PROVE  Other(Other(p)) = p /\ \A r \in Peer : r = p \/ r = Other(p)
BY PeersPair, OtherIsPeer

\* Chunks that are equal are the same chunk of the same image.
LEMMA SameChunk ==
    ASSUME NEW c \in Image, NEW k \in Starts(c), NEW d \in Image, NEW j \in Starts(d),
           Chunk(c, k * ImgChunk) = Chunk(d, j * ImgChunk)
    PROVE  c = d /\ k = j
<1>1. Chunk(c, k * ImgChunk).piece = <<c, k>> /\ Chunk(d, j * ImgChunk).piece = <<d, j>>
  BY ChunkFits
<1> QED
  BY <1>1

\* A text and a ping are no chunk.
LEMMA NoChunk ==
    ASSUME NEW f, f.type # "img", NEW c \in Image, NEW k \in Starts(c)
    PROVE  f # Chunk(c, k * ImgChunk)
BY ChunkFits

\* The chunk before a chunk.
LEMMA Before ==
    ASSUME NEW c \in Image, NEW k \in Starts(c), k # 0
    PROVE  k - 1 \in Starts(c)
BY LimitsNat, ContentsTyped DEF Starts, Content

\* A frame that is appended carries the next content.
LEMMA CarryAppend ==
    ASSUME NEW p, NEW s \in Seq(Frames), NEW due \in Seq(Content), NEW f \in Frames,
           NEW a, NEW b, Carry(p, s, due, a, b), CarriesNext(p, due, f, b)
    PROVE  /\ After(p, f, b) \in 0..Len(due)
           /\ Carry(p, Append(s, f), due, a, After(p, f, b))
<1> DEFINE L == Len(s)
           t == Append(s, f)
           last == After(p, f, b)
<1>1. PICK num \in [1..L + 1 -> 0..Len(due)] :
         /\ num[1] = a /\ num[L + 1] = b
         /\ \A i \in 1..L : /\ num[i + 1] = After(p, s[i], num[i])
                            /\ CarriesNext(p, due, s[i], num[i])
  BY DEF Carry
<1> DEFINE new == [i \in 1..L + 2 |-> IF i = L + 2 THEN last ELSE num[i]]
<1>2. L \in Nat /\ Len(t) = L + 1 /\ t[L + 1] = f /\ \A i \in 1..L : t[i] = s[i]
  OBVIOUS
<1>3. b \in 0..Len(due) /\ Len(due) \in Nat
  BY <1>1, <1>2
<1>4. last \in 0..Len(due)
  BY <1>3 DEF After, Completes, CarriesNext
<1> HIDE DEF last
<1>5. new \in [1..L + 2 -> 0..Len(due)] /\ new[L + 2] = last /\ new[1] = a
  BY <1>1, <1>2, <1>4
<1>6. \A i \in 1..L + 1 : new[i] = num[i]
  BY <1>2
<1> HIDE DEF new, t, L
<1>7. ASSUME NEW i \in 1..L + 1
      PROVE  new[i + 1] = After(p, t[i], new[i]) /\ CarriesNext(p, due, t[i], new[i])
  <2>1. CASE i = L + 1
    <3>1. t[i] = f /\ new[i] = b /\ new[i + 1] = last
      BY <1>1, <1>2, <1>5, <1>6, <2>1
    <3> QED
      BY <3>1 DEF last
  <2>2. CASE i # L + 1
    <3>1. i \in 1..L /\ i + 1 \in 1..L + 1
      BY <1>2, <2>2
    <3>2. t[i] = s[i] /\ new[i] = num[i] /\ new[i + 1] = num[i + 1]
      BY <1>2, <1>6, <3>1
    <3> QED
      BY <1>1, <3>1, <3>2
  <2> QED
    BY <2>1, <2>2
<1>8. Carry(p, t, due, a, last)
  <2>1. new \in [1..Len(t) + 1 -> 0..Len(due)] /\ new[1] = a /\ new[Len(t) + 1] = last
    BY <1>2, <1>5
  <2>2. \A i \in 1..Len(t) :
           new[i + 1] = After(p, t[i], new[i]) /\ CarriesNext(p, due, t[i], new[i])
    BY <1>2, <1>7
  <2> QED
    BY <2>1, <2>2, Zenon DEF Carry
<1> QED
  BY <1>4, <1>8 DEF last, t

\* The first frame carries the next content, and the others those after it.
LEMMA CarryTail ==
    ASSUME NEW p, NEW s \in Seq(Frames), s # <<>>, NEW due \in Seq(Content),
           NEW a, NEW b, Carry(p, s, due, a, b)
    PROVE  /\ CarriesNext(p, due, Head(s), a)
           /\ Carry(p, Tail(s), due, After(p, Head(s), a), b)
<1> DEFINE L == Len(s)
           t == Tail(s)
<1>1. PICK num \in [1..L + 1 -> 0..Len(due)] :
         /\ num[1] = a /\ num[L + 1] = b
         /\ \A i \in 1..L : /\ num[i + 1] = After(p, s[i], num[i])
                            /\ CarriesNext(p, due, s[i], num[i])
  BY DEF Carry
<1> DEFINE new == [i \in 1..L |-> num[i + 1]]
<1>2. L \in Nat \ {0} /\ Len(t) = L - 1 /\ \A i \in 1..L - 1 : t[i] = s[i + 1]
  OBVIOUS
<1>3. Head(s) = s[1] /\ 1 \in 1..L
  BY <1>2
<1>4. CarriesNext(p, due, Head(s), a) /\ num[2] = After(p, Head(s), a)
  BY <1>1, <1>3
<1>5. new \in [1..L -> 0..Len(due)] /\ new[1] = num[2] /\ new[L] = b
  BY <1>1, <1>2
<1>6. \A i \in 1..L : new[i] = num[i + 1]
  OBVIOUS
<1> HIDE DEF new, t, L
<1>7. ASSUME NEW i \in 1..L - 1
      PROVE  new[i + 1] = After(p, t[i], new[i]) /\ CarriesNext(p, due, t[i], new[i])
  <2>1. i + 1 \in 1..L /\ i \in 1..L
    BY <1>2
  <2>2. t[i] = s[i + 1] /\ new[i] = num[i + 1] /\ new[i + 1] = num[(i + 1) + 1]
    BY <1>2, <1>6, <2>1
  <2> QED
    BY <1>1, <2>1, <2>2
<1>8. Carry(p, t, due, num[2], b)
  <2>1. new \in [1..Len(t) + 1 -> 0..Len(due)] /\ new[1] = num[2] /\ new[Len(t) + 1] = b
    BY <1>2, <1>5
  <2>2. \A i \in 1..Len(t) :
           new[i + 1] = After(p, t[i], new[i]) /\ CarriesNext(p, due, t[i], new[i])
    BY <1>2, <1>7
  <2> QED
    BY <2>1, <2>2, Zenon DEF Carry
<1> QED
  BY <1>4, <1>8 DEF t

\* They carry a part of what is due.
LEMMA CarryWithin ==
    ASSUME NEW p, NEW s \in Seq(Frames), NEW due \in Seq(Content), NEW a, NEW b,
           Carry(p, s, due, a, b)
    PROVE  a \in 0..Len(due) /\ b \in 0..Len(due)
<1>1. PICK num \in [1..Len(s) + 1 -> 0..Len(due)] : num[1] = a /\ num[Len(s) + 1] = b
  BY DEF Carry
<1>2. 1 \in 1..Len(s) + 1 /\ Len(s) + 1 \in 1..Len(s) + 1
  OBVIOUS
<1> QED
  BY <1>1, <1>2

\* Frames carry what they do when more is due.
LEMMA CarryMore ==
    ASSUME NEW p, NEW s \in Seq(Frames), NEW due \in Seq(Content), NEW c \in Content,
           NEW a, NEW b, Carry(p, s, due, a, b)
    PROVE  Carry(p, s, Append(due, c), a, b)
<1> DEFINE L == Len(s)
           more == Append(due, c)
<1>1. PICK num \in [1..L + 1 -> 0..Len(due)] :
         /\ num[1] = a /\ num[L + 1] = b
         /\ \A i \in 1..L : /\ num[i + 1] = After(p, s[i], num[i])
                            /\ CarriesNext(p, due, s[i], num[i])
  BY DEF Carry
<1>2. Len(more) = Len(due) + 1 /\ Len(due) \in Nat /\ \A i \in 1..Len(due) : more[i] = due[i]
  OBVIOUS
<1> HIDE DEF more
<1>3. num \in [1..L + 1 -> 0..Len(more)]
  BY <1>2
<1>4. ASSUME NEW i \in 1..L PROVE CarriesNext(p, more, s[i], num[i])
  <2> SUFFICES ASSUME Carries(p, s[i])
               PROVE  num[i] < Len(more) /\ more[num[i] + 1] = s[i].piece[1]
    BY DEF CarriesNext
  <2>1. num[i] < Len(due) /\ due[num[i] + 1] = s[i].piece[1] /\ num[i] \in Nat
    <3>1. CarriesNext(p, due, s[i], num[i]) /\ i \in 1..L + 1
      BY <1>1
    <3> QED
      BY <3>1 DEF CarriesNext
  <2>2. num[i] + 1 \in 1..Len(due)
    BY <1>2, <2>1
  <2> QED
    BY <1>2, <2>1, <2>2
<1>5. Carry(p, s, more, a, b)
  BY <1>1, <1>3, <1>4 DEF Carry
<1> QED
  BY <1>5 DEF more

------------------------------------------------------------------------------
(* One link: what its two ends do with it *)

\* Chunks still follow each other after a frame that the poller was ready to write.
LEMMA FollowAppend ==
    ASSUME NEW p \in Peer, chan[p] \in Seq(Frames), ChunksFollow(p), NEW f \in Frames,
           chan'[p] = Append(chan[p], f),
           UNCHANGED <<imgBuf[p], nextSeq[p]>>,
           \A c \in Image : \A k \in Starts(c) : f = Chunk(c, k * ImgChunk) =>
              sending[Other(p)] = c /\ pos[Other(p)] = k * ImgChunk,
           \A c \in Image : \A k \in Starts(c) :
              sending'[Other(p)] = c /\ pos'[Other(p)] = k * ImgChunk =>
                 k = 0 \/ f = Chunk(c, (k - 1) * ImgChunk)
    PROVE  ChunksFollow(p)'
<1> DEFINE L == Len(chan[p])
<1>1. /\ L \in Nat /\ Len(chan'[p]) = L + 1 /\ chan'[p][L + 1] = f
      /\ \A i \in 1..L : chan'[p][i] = chan[p][i]
  OBVIOUS
<1> SUFFICES ASSUME NEW i \in 1..L + 2, NEW c \in Image, NEW k \in Starts(c),
                    At(p, i, c, k)'
             PROVE  LeadsTo(p, i, c, k)'
  BY <1>1 DEF ChunksFollow
<1>2. CASE i <= L + 1
  <2>1. At(p, i, c, k)
    BY <1>1, <1>2 DEF At
  <2>2. LeadsTo(p, i, c, k)
    BY <1>1, <1>2, <2>1 DEF ChunksFollow
  <2> QED
    BY <1>1, <1>2, <2>2 DEF LeadsTo, Ready
<1>3. CASE i = L + 2
  <2>1. sending'[Other(p)] = c /\ pos'[Other(p)] = k * ImgChunk
    BY <1>1, <1>3 DEF At
  <2> QED
    BY <1>1, <1>3, <2>1 DEF LeadsTo
<1> QED
  BY <1>1, <1>2, <1>3

\* They do when the reader takes the first frame and is ready for the next chunk.
LEMMA FollowTail ==
    ASSUME NEW p \in Peer, chan[p] \in Seq(Frames), ChunksFollow(p), chan[p] # <<>>,
           chan'[p] = Tail(chan[p]),
           UNCHANGED <<sending[Other(p)], pos[Other(p)]>>,
           \A c \in Image : \A k \in Starts(c) :
              k # 0 /\ Head(chan[p]) = Chunk(c, (k - 1) * ImgChunk) => Ready(p, c, k)'
    PROVE  ChunksFollow(p)'
<1> DEFINE L == Len(chan[p])
<1>1. /\ L \in Nat \ {0} /\ Len(chan'[p]) = L - 1 /\ Head(chan[p]) = chan[p][1]
      /\ \A i \in 1..L - 1 : chan'[p][i] = chan[p][i + 1]
  OBVIOUS
<1> SUFFICES ASSUME NEW i \in 1..L, NEW c \in Image, NEW k \in Starts(c),
                    At(p, i, c, k)'
             PROVE  LeadsTo(p, i, c, k)'
  BY <1>1 DEF ChunksFollow
<1>2. At(p, i + 1, c, k)
  BY <1>1 DEF At
<1>3. LeadsTo(p, i + 1, c, k)
  BY <1>1, <1>2 DEF ChunksFollow
<1>4. CASE i = 1
  BY <1>1, <1>3, <1>4 DEF LeadsTo
<1>5. CASE i # 1
  BY <1>1, <1>3, <1>5 DEF LeadsTo
<1> QED
  BY <1>4, <1>5

\* What is owed is still in order after a frame of what the poller had in hand.
LEMMA OwedAppend ==
    ASSUME NEW p \in Peer, chan[p] \in Seq(Frames), owed[p] \in Seq(Content), OwedInOrder(p),
           NEW f \in Frames, chan'[p] = Append(chan[p], f),
           UNCHANGED <<owed[p], applied[p]>>, poll[Other(p)],
           Carries(p, f) => InHand(p) /\ f.piece[1] = sending[Other(p)],
           InHand(p)' <=> InHand(p) /\ ~Completes(p, f),
           InHand(p)' => sending'[Other(p)] = sending[Other(p)]
    PROVE  OwedInOrder(p)'
<1>1. PICK n \in 0..Len(owed[p]) :
         Carry(p, chan[p], owed[p], Len(applied[p]), n) /\ Remains(p, n)
  BY DEF OwedInOrder
<1>2. CarriesNext(p, owed[p], f, n)
  BY <1>1 DEF Remains, CarriesNext
<1>3. /\ After(p, f, n) \in 0..Len(owed[p])
      /\ Carry(p, chan'[p], owed[p], Len(applied[p]), After(p, f, n))
  BY <1>1, <1>2, CarryAppend
<1>4. Remains(p, After(p, f, n))'
  <2>1. CASE Completes(p, f)
    BY <1>1, <2>1 DEF Remains, Completes, After
  <2>2. CASE ~Completes(p, f)
    BY <1>1, <2>2 DEF Remains, After
  <2> QED
    BY <2>1, <2>2
<1> QED
  BY <1>3, <1>4 DEF OwedInOrder

\* It is when the reader takes the first frame, and hands on what that completes.
LEMMA OwedTail ==
    ASSUME NEW p \in Peer, chan[p] \in Seq(Frames), owed[p] \in Seq(Content),
           applied[p] \in Seq(Seq(Content \X Nat)), OwedInOrder(p), AppliedOwed(p),
           chan[p] # <<>>, chan'[p] = Tail(chan[p]),
           UNCHANGED <<owed[p], sending[Other(p)], poll[Other(p)]>>,
           Completes(p, Head(chan[p])) =>
              applied'[p] = Append(applied[p], Pieces(Head(chan[p]).piece[1])),
           ~Completes(p, Head(chan[p])) => applied'[p] = applied[p]
    PROVE  OwedInOrder(p)' /\ AppliedOwed(p)'
<1> DEFINE f == Head(chan[p])
           a == Len(applied[p])
<1>1. PICK n \in 0..Len(owed[p]) : Carry(p, chan[p], owed[p], a, n) /\ Remains(p, n)
  BY DEF OwedInOrder
<1>2. CarriesNext(p, owed[p], f, a) /\ Carry(p, chan'[p], owed[p], After(p, f, a), n)
  BY <1>1, CarryTail
<1>3. Remains(p, n)'
  BY <1>1 DEF Remains, InHand
<1>4. ASSUME Len(applied'[p]) = After(p, f, a) PROVE OwedInOrder(p)'
  BY <1>2, <1>3, <1>4 DEF OwedInOrder
<1> HIDE DEF f
<1>5. CASE Completes(p, f)
  <2> DEFINE whole == Pieces(f.piece[1])
  <2>1. applied'[p] = Append(applied[p], whole)
    BY <1>5 DEF f
  <2> HIDE DEF whole
  <2>2. /\ Len(applied'[p]) = a + 1
        /\ \A i \in 1..a : applied'[p][i] = applied[p][i]
        /\ applied'[p][a + 1] = whole
    BY <2>1
  <2>3. owed[p][a + 1] = f.piece[1]
    BY <1>2, <1>5 DEF Completes, CarriesNext
  <2>4. AppliedOwed(p)'
    <3> SUFFICES ASSUME NEW i \in 1..a + 1
                 PROVE  applied'[p][i] = Pieces(owed'[p][i])
      BY <2>2 DEF AppliedOwed, Pieces
    <3>1. CASE i \in 1..a
      BY <2>2, <3>1 DEF AppliedOwed
    <3>2. CASE i = a + 1
      BY <2>2, <2>3, <3>2 DEF whole
    <3> QED
      BY <3>1, <3>2
  <2> QED
    BY <1>4, <1>5, <2>2, <2>4 DEF After
<1>6. CASE ~Completes(p, f)
  <2>1. applied'[p] = applied[p] /\ Len(applied'[p]) = a
    BY <1>6 DEF f
  <2>2. AppliedOwed(p)'
    <3> SUFFICES ASSUME NEW i \in 1..a
                 PROVE  applied'[p][i] = Pieces(owed'[p][i])
      BY <2>1 DEF AppliedOwed, Pieces
    <3> QED
      BY <2>1 DEF AppliedOwed
  <2> QED
    BY <1>4, <1>6, <2>1, <2>2 DEF After
<1> QED
  BY <1>5, <1>6

\* A step that neither end takes at this link keeps it as it is.
LEMMA Untouched ==
    ASSUME NEW p \in Peer, ChunksFollow(p), OwedInOrder(p), AppliedOwed(p),
           UNCHANGED <<chan[p], imgBuf[p], nextSeq[p], applied[p], owed[p],
                       sending[Other(p)], pos[Other(p)], poll[Other(p)]>>
    PROVE  ChunksFollow(p)' /\ OwedInOrder(p)' /\ AppliedOwed(p)'
<1>1. ChunksFollow(p)'
  BY DEF ChunksFollow, At, LeadsTo, Ready
<1>2. OwedInOrder(p)'
  BY DEF OwedInOrder, Remains, InHand
<1>3. AppliedOwed(p)'
  BY DEF AppliedOwed, Pieces
<1> QED
  BY <1>1, <1>2, <1>3

------------------------------------------------------------------------------
(* One link: the reader *)

\* An image that is joined piece by piece.
LEMMA FirstGrows ==
    ASSUME NEW c \in Image, NEW k \in Nat
    PROVE  /\ First(c, 0) = <<>>
           /\ First(c, k) \in Seq(Content \X Nat)
           /\ Append(First(c, k), <<c, k>>) = First(c, k + 1)
<1>1. First(c, 0) = <<>>
  BY DEF First
<1>2. \A i \in 1..k : <<c, i - 1>> \in Content \X Nat
  BY DEF Content
<1>3. First(c, k) \in Seq(Content \X Nat) /\ Len(First(c, k)) = k
  BY <1>2 DEF First
<1>4. Append(First(c, k), <<c, k>>) = First(c, k + 1)
  BY <1>3 DEF First
<1> QED
  BY <1>1, <1>3, <1>4

\* Its last chunk makes it complete.
LEMMA LastCompletes ==
    ASSUME NEW c \in Image, NEW k \in Starts(c), Size[c] <= (k + 1) * ImgChunk
    PROVE  First(c, k + 1) = Pieces(c)
<1> DEFINE D == ImgChunk
           x == Size[c] + D - 1
<1>1. /\ Size[c] \in Nat /\ D \in Nat \ {0} /\ k \in Nat /\ k * D < Size[c]
      /\ Size[c] <= (k + 1) * D
  BY ContentsTyped, LimitsNat DEF Content, Starts
<1> HIDE DEF D
<1>2. x \in Nat /\ (k + 1) * D <= x /\ x < (k + 2) * D
  BY <1>1
<1> HIDE DEF x
<1>3. x \div D = k + 1
  BY <1>1, <1>2
<1>4. c \notin Text
  BY ContentsTyped
<1> QED
  BY <1>3, <1>4 DEF Pieces, First, x, D

\* The chunk that comes first continues what the reader holds, unless the image is too
\* big for p and some of it has been dropped.
LEMMA HeadChunk ==
    ASSUME NEW p \in Peer, LinkTyped, ChunksFollow(p), chan[p] # <<>>,
           Head(chan[p]).type = "img"
    PROVE  \E c \in Image : \E k \in Starts(c) :
               /\ Head(chan[p]) = Chunk(c, k * ImgChunk)
               /\ \/ /\ Begun(p) = [pieces |-> First(c, k), bytes |-> k * ImgChunk]
                     /\ Expected(p) = k
                  \/ ~CanTake(p, c) /\ Expected(p) # k
<1>1. /\ chan[p] \in Seq(Frames) /\ Len(chan[p]) \in Nat \ {0}
      /\ Head(chan[p]) \in Frames /\ Head(chan[p]) = chan[p][1]
  BY DEF LinkTyped
<1>2. PICK c \in Image : \E k \in Starts(c) : Head(chan[p]) = Chunk(c, k * ImgChunk)
  BY <1>1 DEF Frames, Ping, TextFrame
<1>3. PICK k \in Starts(c) : Head(chan[p]) = Chunk(c, k * ImgChunk)
  BY <1>2
<1>4. Head(chan[p]).seq = k
  BY <1>3, ChunkFits
<1>5. LeadsTo(p, 1, c, k)
  BY <1>1, <1>3 DEF ChunksFollow, At
<1>6. CASE k = 0
  <2>1. Begun(p) = NoImage /\ Expected(p) = 0
    BY <1>4, <1>6 DEF Begun, Expected
  <2>2. NoImage = [pieces |-> First(c, k), bytes |-> k * ImgChunk]
    BY <1>6, FirstGrows, LimitsNat DEF NoImage
  <2> QED
    BY <1>3, <1>6, <2>1, <2>2
<1>7. CASE k # 0
  <2>1. Begun(p) = imgBuf[p] /\ Expected(p) = nextSeq[p]
    BY <1>4, <1>7 DEF Begun, Expected
  <2>2. Ready(p, c, k)
    BY <1>5, <1>7 DEF LeadsTo
  <2> QED
    BY <1>3, <1>7, <2>1, <2>2 DEF Ready
<1> QED
  BY <1>6, <1>7

\* Only the chunk that was taken can come before the next.
LEMMA NextChunk ==
    ASSUME NEW c \in Image, NEW k \in Starts(c), NEW d \in Image, NEW j \in Starts(d), j # 0,
           Chunk(c, k * ImgChunk) = Chunk(d, (j - 1) * ImgChunk)
    PROVE  d = c /\ j = k + 1
<1>1. j - 1 \in Starts(d) /\ j \in Nat /\ k \in Nat
  BY Before DEF Starts
<1>2. c = d /\ k = j - 1
  BY <1>1, SameChunk
<1> QED
  BY <1>1, <1>2

\* A text or a ping is read.
LEMMA ReadKeeps ==
    ASSUME NEW p \in Peer, LinkTyped, LinkInv(p), ReadText(p) \/ ReadPing(p)
    PROVE  LinkInv(p)'
<1> DEFINE f == Head(chan[p])
<1>1. /\ f.type \in {"clip", "ping"} /\ chan[p] # <<>> /\ chan'[p] = Tail(chan[p])
      /\ UNCHANGED <<owed[p], sending[Other(p)], poll[Other(p)], pos[Other(p)]>>
  BY DEF ReadText, ReadPing, Reads, LinkTyped, found
<1>2. /\ chan[p] \in Seq(Frames) /\ owed[p] \in Seq(Content)
      /\ applied[p] \in Seq(Seq(Content \X Nat)) /\ f \in Frames
  <2>1. chan[p] \in Seq(Frames)
    BY DEF LinkTyped
  <2>2. f \in Frames
    BY <1>1, <2>1
  <2> QED
    BY <2>1, <2>2 DEF LinkTyped, TypeOK
<1>3. ChunksFollow(p) /\ OwedInOrder(p) /\ AppliedOwed(p)
  BY DEF LinkInv
<1>4. ASSUME NEW c \in Image, NEW k \in Starts(c), k # 0, f = Chunk(c, (k - 1) * ImgChunk)
      PROVE  Ready(p, c, k)'
  <2>1. k - 1 \in Starts(c)
    BY <1>4, Before
  <2> HIDE DEF f
  <2> QED
    BY <1>1, <1>4, <2>1, NoChunk
<1>5. ChunksFollow(p)'
  BY <1>1, <1>2, <1>3, <1>4, FollowTail
<1>6. CASE ReadText(p)
  <2>1. f.type = "clip" /\ applied'[p] = Append(applied[p], <<f.piece>>)
    BY <1>6 DEF ReadText, Reads, LinkTyped
  <2>2. PICK c \in Text : f = TextFrame(c)
    <3>1. \A c \in Image : \A k \in Starts(c) : f # Chunk(c, k * ImgChunk)
      BY <2>1, NoChunk
    <3> QED
      BY <1>2, <2>1, <3>1 DEF Frames, Ping
  <2>3. f.piece = <<c, 0>> /\ f.piece[1] = c
    BY <2>2 DEF TextFrame
  <2>4. Completes(p, f) /\ <<f.piece>> = Pieces(f.piece[1])
    BY <2>1, <2>3 DEF Completes, Carries, CanTake, Pieces
  <2>5. OwedInOrder(p)' /\ AppliedOwed(p)'
    BY <1>1, <1>2, <1>3, <2>1, <2>4, OwedTail
  <2> QED
    BY <1>5, <2>5 DEF LinkInv
<1>7. CASE ReadPing(p)
  <2>1. ~Completes(p, f) /\ applied'[p] = applied[p]
    BY <1>7 DEF ReadPing, Reads, Completes, Carries
  <2>2. OwedInOrder(p)' /\ AppliedOwed(p)'
    BY <1>1, <1>2, <1>3, <2>1, OwedTail
  <2> QED
    BY <1>5, <2>2 DEF LinkInv
<1> QED
  BY <1>6, <1>7

\* A chunk is joined.
LEMMA JoinKeeps ==
    ASSUME NEW p \in Peer, LinkTyped, LinkInv(p), ReadChunk(p)
    PROVE  LinkInv(p)'
<1> DEFINE f == Head(chan[p])
<1>1. /\ f.type = "img" /\ chan[p] # <<>> /\ chan'[p] = Tail(chan[p])
      /\ UNCHANGED <<owed[p], sending[Other(p)], poll[Other(p)], pos[Other(p)]>>
  BY DEF ReadChunk, Reads, LinkTyped, found
<1>2. /\ chan[p] \in Seq(Frames) /\ owed[p] \in Seq(Content)
      /\ applied[p] \in Seq(Seq(Content \X Nat))
  BY DEF LinkTyped, TypeOK
<1>3. ChunksFollow(p) /\ OwedInOrder(p) /\ AppliedOwed(p)
  BY DEF LinkInv
<1>4. PICK c \in Image : \E k \in Starts(c) :
         /\ f = Chunk(c, k * ImgChunk)
         /\ \/ /\ Begun(p) = [pieces |-> First(c, k), bytes |-> k * ImgChunk]
               /\ Expected(p) = k
            \/ ~CanTake(p, c) /\ Expected(p) # k
  BY <1>1, <1>3, HeadChunk
<1>5. PICK k \in Starts(c) :
         /\ f = Chunk(c, k * ImgChunk)
         /\ \/ /\ Begun(p) = [pieces |-> First(c, k), bytes |-> k * ImgChunk]
               /\ Expected(p) = k
            \/ ~CanTake(p, c) /\ Expected(p) # k
  BY <1>4
<1> HIDE DEF f
<1>6. /\ f.piece = <<c, k>> /\ f.piece[1] = c /\ f.seq = k /\ f.more \in BOOLEAN /\ f.bytes \in Nat
      /\ f.more => k + 1 \in Starts(c) /\ f.bytes = ImgChunk
      /\ ~f.more => Size[c] <= (k + 1) * ImgChunk /\ k * ImgChunk + f.bytes = Size[c]
  BY <1>5, ChunkFits
<1>7. /\ Begun(p) = [pieces |-> First(c, k), bytes |-> k * ImgChunk] /\ Expected(p) = k
      /\ k * ImgChunk + f.bytes <= MaxImage[p]
  <2>1. f.seq = Expected(p) /\ Begun(p).bytes + f.bytes <= MaxImage[p]
    BY DEF ReadChunk, InOrder, f
  <2> QED
    BY <1>5, <1>6, <2>1
<1>8. Append(Begun(p).pieces, f.piece) = First(c, k + 1)
  <2>1. k \in Nat /\ Begun(p).pieces = First(c, k)
    BY <1>7 DEF Starts
  <2> QED
    BY <1>6, <2>1, FirstGrows
<1>9. CASE f.more
  <2>1. /\ imgBuf'[p] = [pieces |-> First(c, k + 1), bytes |-> k * ImgChunk + ImgChunk]
        /\ nextSeq'[p] = k + 1 /\ applied'[p] = applied[p]
    <3> DEFINE grown == [pieces |-> First(c, k + 1), bytes |-> k * ImgChunk + ImgChunk]
    <3>1. Append(Begun(p).pieces, f.piece) = First(c, k + 1) /\ Begun(p).bytes = k * ImgChunk
      BY <1>7, <1>8
    <3>2. /\ imgBuf' = [imgBuf EXCEPT ![p] = [pieces |-> Append(Begun(p).pieces, f.piece),
                                              bytes |-> Begun(p).bytes + f.bytes]]
          /\ nextSeq' = [nextSeq EXCEPT ![p] = Expected(p) + 1]
          /\ UNCHANGED applied
      BY <1>9 DEF ReadChunk, f
    <3>3. imgBuf' = [imgBuf EXCEPT ![p] = grown] /\ nextSeq' = [nextSeq EXCEPT ![p] = k + 1]
      BY <1>6, <1>7, <1>9, <3>1, <3>2
    <3> HIDE DEF grown
    <3>4. imgBuf'[p] = grown /\ nextSeq'[p] = k + 1
      BY <3>3 DEF LinkTyped, TypeOK
    <3> QED
      BY <3>2, <3>4 DEF grown
  <2>2. k * ImgChunk + ImgChunk = (k + 1) * ImgChunk
    BY LimitsNat DEF Starts
  <2>3. Ready(p, c, k + 1)'
    BY <2>1, <2>2 DEF Ready
  <2>4. ASSUME NEW d \in Image, NEW j \in Starts(d), j # 0, f = Chunk(d, (j - 1) * ImgChunk)
        PROVE  Ready(p, d, j)'
    BY <1>5, <2>3, <2>4, NextChunk
  <2>5. ChunksFollow(p)'
    BY <1>1, <1>2, <1>3, <2>4, FollowTail DEF f
  <2>6. ~Completes(p, f)
    BY <1>1, <1>9 DEF Completes, f
  <2>7. OwedInOrder(p)' /\ AppliedOwed(p)'
    BY <1>1, <1>2, <1>3, <2>1, <2>6, OwedTail DEF f
  <2> QED
    BY <2>5, <2>7 DEF LinkInv
<1>10. CASE ~f.more
  <2>1. applied'[p] = Append(applied[p], First(c, k + 1))
    BY <1>8, <1>10 DEF ReadChunk, f, LinkTyped
  <2>2. First(c, k + 1) = Pieces(c)
    BY <1>6, <1>10, LastCompletes
  <2>3. Completes(p, f)
    BY <1>1, <1>6, <1>7, <1>10 DEF Completes, Carries, CanTake, f
  <2>4. ASSUME NEW d \in Image, NEW j \in Starts(d), j # 0, f = Chunk(d, (j - 1) * ImgChunk)
        PROVE  Ready(p, d, j)'
    <3>1. d = c /\ j = k + 1
      BY <1>5, <2>4, NextChunk
    <3>2. (k + 1) * ImgChunk < Size[c] /\ (k + 1) * ImgChunk \in Nat /\ Size[c] \in Nat
      BY <3>1, LimitsNat, ContentsTyped DEF Starts, Content
    <3> QED
      BY <1>6, <1>10, <3>2
  <2>5. ChunksFollow(p)'
    BY <1>1, <1>2, <1>3, <2>4, FollowTail DEF f
  <2>6. OwedInOrder(p)' /\ AppliedOwed(p)'
    BY <1>1, <1>2, <1>3, <1>6, <2>1, <2>2, <2>3, OwedTail DEF f
  <2> QED
    BY <2>5, <2>6 DEF LinkInv
<1> QED
  BY <1>6, <1>9, <1>10

\* A chunk is dropped.
LEMMA DropKeeps ==
    ASSUME NEW p \in Peer, LinkTyped, LinkInv(p), DropChunk(p)
    PROVE  LinkInv(p)'
<1> DEFINE f == Head(chan[p])
<1>1. /\ f.type = "img" /\ chan[p] # <<>> /\ chan'[p] = Tail(chan[p])
      /\ applied'[p] = applied[p] /\ nextSeq'[p] = 0
      /\ UNCHANGED <<owed[p], sending[Other(p)], poll[Other(p)], pos[Other(p)]>>
  BY DEF DropChunk, Reads, LinkTyped, TypeOK, found
<1>2. /\ chan[p] \in Seq(Frames) /\ owed[p] \in Seq(Content)
      /\ applied[p] \in Seq(Seq(Content \X Nat))
  BY DEF LinkTyped, TypeOK
<1>3. ChunksFollow(p) /\ OwedInOrder(p) /\ AppliedOwed(p)
  BY DEF LinkInv
<1>4. PICK c \in Image : \E k \in Starts(c) :
         /\ f = Chunk(c, k * ImgChunk)
         /\ \/ /\ Begun(p) = [pieces |-> First(c, k), bytes |-> k * ImgChunk]
               /\ Expected(p) = k
            \/ ~CanTake(p, c) /\ Expected(p) # k
  BY <1>1, <1>3, HeadChunk
<1>5. PICK k \in Starts(c) :
         /\ f = Chunk(c, k * ImgChunk)
         /\ \/ /\ Begun(p) = [pieces |-> First(c, k), bytes |-> k * ImgChunk]
               /\ Expected(p) = k
            \/ ~CanTake(p, c) /\ Expected(p) # k
  BY <1>4
<1> HIDE DEF f
<1>6. f.piece[1] = c /\ f.seq = k /\ k * ImgChunk + f.bytes <= Size[c] /\ f.bytes \in Nat
  BY <1>5, ChunkFits
<1>7. ~CanTake(p, c)
  <2> SUFFICES ASSUME CanTake(p, c) PROVE FALSE
    OBVIOUS
  <2>1. Size[c] <= MaxImage[p] /\ Size[c] \in Nat /\ MaxImage[p] \in Nat
    BY ContentsTyped DEF CanTake, Content
  <2>2. Begun(p).bytes = k * ImgChunk /\ Expected(p) = k
    BY <1>5
  <2>3. k * ImgChunk \in Nat
    BY LimitsNat DEF Starts
  <2>4. k * ImgChunk + f.bytes <= MaxImage[p]
    BY <1>6, <2>1, <2>3
  <2> QED
    BY <1>6, <2>2, <2>4 DEF DropChunk, InOrder, f
<1>8. ASSUME NEW d \in Image, NEW j \in Starts(d), j # 0, f = Chunk(d, (j - 1) * ImgChunk)
      PROVE  Ready(p, d, j)'
  <2>1. d = c
    BY <1>5, <1>8, NextChunk
  <2> QED
    BY <1>1, <1>7, <2>1 DEF Ready, CanTake
<1>9. ChunksFollow(p)'
  BY <1>1, <1>2, <1>3, <1>8, FollowTail DEF f
<1>10. ~Completes(p, f)
  BY <1>6, <1>7 DEF Completes, Carries
<1>11. OwedInOrder(p)' /\ AppliedOwed(p)'
  BY <1>1, <1>2, <1>3, <1>10, OwedTail DEF f
<1> QED
  BY <1>9, <1>11 DEF LinkInv

------------------------------------------------------------------------------
(* One link: the poller *)

\* A content is taken in hand: it is due behind all that was.
LEMMA OfferKeeps ==
    ASSUME NEW p \in Peer, LinkTyped, SendingOffered, LinkInv(p),
           NEW c \in Content, Offer(Other(p), c)
    PROVE  LinkInv(p)'
<1> DEFINE w == Other(p)
<1>1. w \in Peer /\ Other(w) = p
  BY OtherIsPeer, TwoPeers
<1>2. /\ sending[w] = None /\ poll[w] /\ sending'[w] = c /\ pos'[w] = 0
      /\ UNCHANGED <<poll[w], chan[p], imgBuf[p], nextSeq[p], applied[p]>>
  BY <1>1 DEF Offer, LinkTyped, TypeOK, joinVars
<1>3. /\ CanTake(p, c) => owed'[p] = Append(owed[p], c)
      /\ ~CanTake(p, c) => owed'[p] = owed[p]
  BY <1>1 DEF Offer, LinkTyped, TypeOK
<1>4. /\ chan[p] \in Seq(Frames) /\ owed[p] \in Seq(Content)
      /\ applied[p] \in Seq(Seq(Content \X Nat))
  BY DEF LinkTyped, TypeOK
<1>5. ~InHand(p) /\ (InHand(p)' <=> CanTake(p, c)) /\ c # None
  BY <1>2, ContentsTyped DEF InHand, CanTake
<1>6. ChunksFollow(p)'
  <2> SUFFICES ASSUME NEW i \in 1..Len(chan[p]) + 1, NEW d \in Image, NEW k \in Starts(d),
                      At(p, i, d, k)'
               PROVE  LeadsTo(p, i, d, k)'
    BY <1>2 DEF ChunksFollow
  <2>1. CASE At(p, i, d, k)
    <3>1. LeadsTo(p, i, d, k)
      BY <2>1 DEF LinkInv, ChunksFollow
    <3> QED
      BY <1>2, <3>1 DEF LeadsTo, Ready, CanTake
  <2>2. CASE ~At(p, i, d, k)
    <3>1. k * ImgChunk = 0
      BY <1>2, <2>2 DEF At
    <3>2. k = 0
      BY <3>1, LimitsNat DEF Starts
    <3> QED
      BY <3>2 DEF LeadsTo
  <2> QED
    BY <2>1, <2>2
<1>7. PICK n \in 0..Len(owed[p]) :
         Carry(p, chan[p], owed[p], Len(applied[p]), n) /\ Remains(p, n)
  BY DEF LinkInv, OwedInOrder
<1>8. n = Len(owed[p])
  BY <1>2, <1>5, <1>7 DEF Remains
<1>9. OwedInOrder(p)' /\ AppliedOwed(p)'
  <2>1. CASE CanTake(p, c)
    <3>1. /\ owed'[p] = Append(owed[p], c) /\ Len(owed'[p]) = Len(owed[p]) + 1
          /\ owed'[p][Len(owed[p]) + 1] = c
          /\ \A i \in 1..Len(owed[p]) : owed'[p][i] = owed[p][i]
      BY <1>3, <1>4, <2>1
    <3>2. Carry(p, chan'[p], owed'[p], Len(applied'[p]), n)
      BY <1>2, <1>4, <1>7, <3>1, CarryMore
    <3>3. Remains(p, n)'
      BY <1>2, <1>5, <1>8, <2>1, <3>1 DEF Remains
    <3>4. OwedInOrder(p)'
      BY <1>4, <1>8, <3>1, <3>2, <3>3 DEF OwedInOrder
    <3>5. Len(applied[p]) <= Len(owed[p])
      <4>1. Len(applied[p]) \in 0..Len(owed[p])
        BY <1>4, <1>7, CarryWithin
      <4> QED
        BY <4>1
    <3>6. AppliedOwed(p)'
      <4> SUFFICES ASSUME NEW i \in 1..Len(applied[p])
                   PROVE  applied'[p][i] = Pieces(owed'[p][i])
        BY <1>2 DEF AppliedOwed, Pieces
      <4>1. i \in 1..Len(owed[p])
        BY <1>4, <3>5
      <4> QED
        BY <1>2, <3>1, <4>1 DEF LinkInv, AppliedOwed
    <3> QED
      BY <3>4, <3>6
  <2>2. CASE ~CanTake(p, c)
    <3>1. owed'[p] = owed[p]
      BY <1>3, <2>2
    <3>2. Remains(p, n)'
      BY <1>2, <1>5, <1>8, <2>2, <3>1 DEF Remains
    <3>3. OwedInOrder(p)'
      BY <1>2, <1>7, <3>1, <3>2 DEF OwedInOrder
    <3>4. AppliedOwed(p)'
      BY <1>2, <3>1 DEF LinkInv, AppliedOwed, Pieces
    <3> QED
      BY <3>3, <3>4
  <2> QED
    BY <2>1, <2>2
<1> QED
  BY <1>6, <1>9 DEF LinkInv

\* The text in hand is written.
LEMMA SendTextKeeps ==
    ASSUME NEW p \in Peer, LinkTyped, SendingOffered, LinkInv(p), SendText(Other(p))
    PROVE  LinkInv(p)'
<1> DEFINE w == Other(p)
           f == TextFrame(sending[w])
<1>1. w \in Peer /\ Other(w) = p
  BY OtherIsPeer, TwoPeers
<1>2. /\ poll[w] /\ sending[w] \in Text /\ sending'[w] = None
      /\ chan'[p] = Append(chan[p], f)
      /\ UNCHANGED <<poll[w], imgBuf[p], nextSeq[p], applied[p], owed[p]>>
  BY <1>1 DEF SendText, LinkTyped, TypeOK, joinVars, found
<1>3. /\ chan[p] \in Seq(Frames) /\ owed[p] \in Seq(Content) /\ f \in Frames
  BY <1>2 DEF LinkTyped, TypeOK, Frames
<1>4. f.type = "clip" /\ f.piece[1] = sending[w]
  BY DEF TextFrame
<1> HIDE DEF f
<1>5. None \notin Content /\ sending[w] # None /\ sending[w] \notin Image
  BY <1>2, ContentsTyped DEF Content
<1>6. ChunksFollow(p)'
  <2>1. \A c \in Image : \A k \in Starts(c) : f # Chunk(c, k * ImgChunk)
    BY <1>4, NoChunk
  <2>2. \A c \in Image : sending'[w] # c
    BY <1>2, <1>5 DEF Content
  <2> QED
    BY <1>2, <1>3, <2>1, <2>2, FollowAppend DEF LinkInv
<1>7. InHand(p) /\ Completes(p, f) /\ ~InHand(p)'
  BY <1>2, <1>4, <1>5 DEF InHand, Completes, Carries, CanTake
<1>8. OwedInOrder(p)'
  BY <1>2, <1>3, <1>4, <1>7, OwedAppend DEF LinkInv
<1>9. AppliedOwed(p)'
  BY <1>2 DEF LinkInv, AppliedOwed, Pieces
<1> QED
  BY <1>6, <1>8, <1>9 DEF LinkInv

\* A ping is written.
LEMMA SendPingKeeps ==
    ASSUME NEW p \in Peer, LinkTyped, SendingOffered, LinkInv(p), SendPing(Other(p))
    PROVE  LinkInv(p)'
<1> DEFINE w == Other(p)
<1>1. w \in Peer /\ Other(w) = p
  BY OtherIsPeer, TwoPeers
<1>2. /\ poll[w] /\ sending[w] = None
      /\ chan'[p] = Append(chan[p], Ping)
      /\ UNCHANGED <<sending[w], pos[w], poll[w], imgBuf[p], nextSeq[p], applied[p], owed[p]>>
  BY <1>1 DEF SendPing, LinkTyped, TypeOK, joinVars, found
<1>3. /\ chan[p] \in Seq(Frames) /\ owed[p] \in Seq(Content) /\ Ping \in Frames
      /\ Ping.type = "ping"
  BY DEF LinkTyped, TypeOK, Frames, Ping
<1>4. \A c \in Image : sending[w] # c
  BY <1>2, ContentsTyped DEF Content
<1>5. ChunksFollow(p)'
  <2>1. \A c \in Image : \A k \in Starts(c) : Ping # Chunk(c, k * ImgChunk)
    BY <1>3, NoChunk
  <2> QED
    BY <1>2, <1>3, <1>4, <2>1, FollowAppend DEF LinkInv
<1>6. ~InHand(p) /\ ~Carries(p, Ping) /\ ~InHand(p)'
  BY <1>2, <1>3 DEF InHand, Carries
<1>7. OwedInOrder(p)'
  BY <1>2, <1>3, <1>6, OwedAppend DEF LinkInv
<1>8. AppliedOwed(p)'
  BY <1>2 DEF LinkInv, AppliedOwed, Pieces
<1> QED
  BY <1>5, <1>7, <1>8 DEF LinkInv

\* The next chunk of the image in hand is written.
LEMMA SendChunkKeeps ==
    ASSUME NEW p \in Peer, LinkTyped, SendingOffered, LinkInv(p), SendChunk(Other(p))
    PROVE  LinkInv(p)'
<1> DEFINE w == Other(p)
           d == sending[w]
           f == Chunk(d, pos[w])
<1>1. w \in Peer /\ Other(w) = p
  BY OtherIsPeer, TwoPeers
<1>2. /\ poll[w] /\ d \in Image /\ chan'[p] = Append(chan[p], f)
      /\ UNCHANGED <<poll[w], imgBuf[p], nextSeq[p], applied[p], owed[p]>>
  BY <1>1 DEF SendChunk, LinkTyped, TypeOK, joinVars, found
<1>3. /\ f.more => sending'[w] = d /\ pos'[w] = pos[w] + ImgChunk
      /\ ~f.more => sending'[w] = None
  BY <1>1 DEF SendChunk, LinkTyped, TypeOK
<1>4. d # None /\ d \in Content /\ None \notin Content
  BY <1>2, ContentsTyped DEF Content
<1>5. PICK k \in Starts(d) : pos[w] = k * ImgChunk
  BY <1>1, <1>2, <1>4 DEF SendingOffered, WorthSending
<1>6. f = Chunk(d, k * ImgChunk) /\ f \in Frames
  BY <1>2, <1>5 DEF Frames
<1>7. chan[p] \in Seq(Frames) /\ owed[p] \in Seq(Content)
  BY DEF LinkTyped, TypeOK
<1> HIDE DEF d, f
<1>8. /\ f.type = "img" /\ f.piece[1] = d /\ f.more \in BOOLEAN
      /\ f.more => k + 1 \in Starts(d)
  BY <1>2, <1>6, ChunkFits
<1>9. ASSUME NEW c \in Image, NEW j \in Starts(c), f = Chunk(c, j * ImgChunk)
      PROVE  sending[w] = c /\ pos[w] = j * ImgChunk
  <2>1. c = d /\ j = k
    BY <1>2, <1>6, <1>9, SameChunk
  <2> QED
    BY <1>5, <2>1 DEF d
<1>10. ASSUME NEW c \in Image, NEW j \in Starts(c), sending'[w] = c, pos'[w] = j * ImgChunk
       PROVE  j = 0 \/ f = Chunk(c, (j - 1) * ImgChunk)
  <2>1. f.more /\ c = d
    BY <1>3, <1>4, <1>8, <1>10 DEF Content
  <2>2. j * ImgChunk = k * ImgChunk + ImgChunk
    BY <1>3, <1>5, <1>10, <2>1
  <2>3. j = k + 1
    <3>1. j \in Nat /\ k \in Nat
      BY DEF Starts
    <3> QED
      BY <2>2, <3>1, LimitsNat
  <2>4. j - 1 = k
    BY <2>3 DEF Starts
  <2> QED
    BY <1>6, <2>1, <2>4
<1>11. ChunksFollow(p)'
  BY <1>2, <1>6, <1>7, <1>9, <1>10, FollowAppend DEF LinkInv
<1>12. /\ Carries(p, f) => InHand(p) /\ f.piece[1] = sending[w]
       /\ InHand(p) => Carries(p, f)
       /\ Completes(p, f) <=> InHand(p) /\ ~f.more
  BY <1>4, <1>8 DEF Carries, Completes, InHand, d
<1>13. /\ InHand(p)' <=> InHand(p) /\ f.more
       /\ InHand(p)' => sending'[w] = sending[w]
  BY <1>3, <1>4, <1>8 DEF InHand, CanTake, d
<1>14. OwedInOrder(p)'
  BY <1>2, <1>6, <1>7, <1>12, <1>13, OwedAppend DEF LinkInv
<1>15. AppliedOwed(p)'
  <2>1. UNCHANGED <<applied[p], owed[p]>>
    BY <1>2
  <2> QED
    BY <2>1 DEF LinkInv, AppliedOwed, Pieces
<1> QED
  BY <1>11, <1>14, <1>15 DEF LinkInv

\* The poller ends: what it had in hand goes no further.
LEMMA StopKeeps ==
    ASSUME NEW p \in Peer, LinkTyped, LinkInv(p),
           WriteRefused(Other(p)) \/ WriteFails(Other(p)) \/ PollerDone(Other(p))
    PROVE  LinkInv(p)'
<1> DEFINE w == Other(p)
<1>1. w \in Peer
  BY OtherIsPeer
<1>2. /\ sending'[w] = None /\ poll'[w] = FALSE
      /\ UNCHANGED <<chan[p], imgBuf[p], nextSeq[p], applied[p], owed[p]>>
  BY <1>1 DEF WriteRefused, WriteFails, PollerStops, PollerDone, LinkTyped, TypeOK, joinVars, found
<1>3. ChunksFollow(p)'
  <2> SUFFICES ASSUME NEW i \in 1..Len(chan[p]) + 1, NEW c \in Image, NEW k \in Starts(c),
                      At(p, i, c, k)'
               PROVE  LeadsTo(p, i, c, k)'
    BY <1>2 DEF ChunksFollow
  <2>1. sending'[w] # c
    BY <1>2, ContentsTyped DEF Content
  <2>2. At(p, i, c, k)
    BY <1>2, <2>1 DEF At
  <2>3. LeadsTo(p, i, c, k)
    BY <2>2 DEF LinkInv, ChunksFollow
  <2> QED
    BY <1>2, <2>3 DEF LeadsTo, Ready, CanTake
<1>4. PICK n \in 0..Len(owed[p]) :
         Carry(p, chan[p], owed[p], Len(applied[p]), n)
  BY DEF LinkInv, OwedInOrder
<1>5. Remains(p, n)'
  BY <1>2 DEF Remains, InHand
<1>6. OwedInOrder(p)'
  BY <1>2, <1>4, <1>5 DEF OwedInOrder
<1>7. AppliedOwed(p)'
  BY <1>2 DEF LinkInv, AppliedOwed, Pieces
<1> QED
  BY <1>3, <1>6, <1>7 DEF LinkInv

\* What an end does at its own link leaves the other alone.
LEMMA OwnEnd ==
    ASSUME NEW p \in Peer, LinkTyped, LinkInv(p),
           \/ \E c \in Content : Offer(p, c)
           \/ SendPing(p) \/ SendText(p) \/ SendChunk(p)
           \/ WriteRefused(p) \/ WriteFails(p) \/ PollerDone(p) \/ ReaderFails(p)
    PROVE  LinkInv(p)'
<1>1. Other(p) \in Peer /\ Other(p) # p
  BY OtherIsPeer
<1>2. UNCHANGED <<chan[p], imgBuf[p], nextSeq[p], applied[p], owed[p],
                  sending[Other(p)], pos[Other(p)], poll[Other(p)]>>
  BY <1>1 DEF Offer, SendPing, SendText, SendChunk, WriteRefused, WriteFails, PollerStops,
    PollerDone, ReaderFails, LinkTyped, TypeOK, joinVars, found
<1> QED
  BY <1>2, Untouched DEF LinkInv

\* So does the other end's reader.
LEMMA OtherEnd ==
    ASSUME NEW p \in Peer, LinkTyped, LinkInv(p), NEW q \in Peer, q = Other(p),
           ReadText(q) \/ ReadChunk(q) \/ DropChunk(q) \/ ReadPing(q) \/ ReaderFails(q)
    PROVE  LinkInv(p)'
<1>1. q # p
  BY OtherIsPeer
<1>2. UNCHANGED <<chan[p], imgBuf[p], nextSeq[p], applied[p], owed[p],
                  sending[Other(p)], pos[Other(p)], poll[Other(p)]>>
  BY <1>1 DEF ReadText, ReadChunk, DropChunk, ReadPing, ReaderFails, Reads, LinkTyped,
    TypeOK, joinVars, found
<1> QED
  BY <1>2, Untouched DEF LinkInv

\* Every step keeps both links in order.
LEMMA WireStep == IInv /\ [Next]_vars => WireInv'
<1> SUFFICES ASSUME IInv, [Next]_vars, NEW p \in Peer PROVE LinkInv(p)'
  BY DEF WireInv
<1>1. LinkTyped /\ SendingOffered /\ LinkInv(p)
  BY DEF IInv, WireInv
<1>2. CASE LinkFails \/ UNCHANGED vars
  <2>1. UNCHANGED <<chan[p], imgBuf[p], nextSeq[p], applied[p], owed[p],
                    sending[Other(p)], pos[Other(p)], poll[Other(p)]>>
    BY <1>2 DEF LinkFails, vars, joinVars, found
  <2> QED
    BY <1>1, <2>1, Untouched DEF LinkInv
<1>3. ASSUME NEW r \in Peer, SendPing(r) PROVE LinkInv(p)'
  BY <1>1, <1>3, TwoPeers, OwnEnd, SendPingKeeps
<1>4. ASSUME NEW r \in Peer, SendText(r) PROVE LinkInv(p)'
  BY <1>1, <1>4, TwoPeers, OwnEnd, SendTextKeeps
<1>5. ASSUME NEW r \in Peer, SendChunk(r) PROVE LinkInv(p)'
  BY <1>1, <1>5, TwoPeers, OwnEnd, SendChunkKeeps
<1>6. ASSUME NEW r \in Peer, WriteRefused(r) \/ WriteFails(r) \/ PollerDone(r)
      PROVE  LinkInv(p)'
  BY <1>1, <1>6, TwoPeers, OwnEnd, StopKeeps
<1>7. ASSUME NEW r \in Peer, ReadText(r) \/ ReadPing(r) PROVE LinkInv(p)'
  BY <1>1, <1>7, TwoPeers, OtherEnd, ReadKeeps
<1>8. ASSUME NEW r \in Peer, ReadChunk(r) PROVE LinkInv(p)'
  BY <1>1, <1>8, TwoPeers, OtherEnd, JoinKeeps
<1>9. ASSUME NEW r \in Peer, DropChunk(r) PROVE LinkInv(p)'
  BY <1>1, <1>9, TwoPeers, OtherEnd, DropKeeps
<1>10. ASSUME NEW r \in Peer, ReaderFails(r) PROVE LinkInv(p)'
  BY <1>1, <1>10, TwoPeers, OwnEnd, OtherEnd
<1>11. ASSUME NEW r \in Peer, NEW c \in Content, Offer(r, c) PROVE LinkInv(p)'
  BY <1>1, <1>11, TwoPeers, OwnEnd, OfferKeeps
<1> QED
  BY <1>2, <1>3, <1>4, <1>5, <1>6, <1>7, <1>8, <1>9, <1>10, <1>11, StepCases

------------------------------------------------------------------------------
(* The theorems *)

LEMMA InitIInv == Init => IInv
<1> SUFFICES ASSUME Init PROVE IInv
  OBVIOUS
<1>1. NoImage \in Joined /\ \A q \in Peer : NoImage.bytes <= MaxImage[q]
  BY ContentsTyped DEF NoImage, Joined
<1>2. LinkTyped
  <2>1. <<>> \in Seq(Frames) /\ <<>> \in Seq(Content) /\ <<>> \in Seq(Seq(Content \X Nat))
    OBVIOUS
  <2>2. /\ chan \in [Peer -> Seq(Frames)] /\ offered \in [Peer -> Seq(Content)]
        /\ applied \in [Peer -> Seq(Seq(Content \X Nat))]
        /\ imgBuf \in [Peer -> Joined]
    BY <1>1, <2>1 DEF Init
  <2>3. \A p \in Peer : Len(chan[p]) <= Capacity /\ imgBuf[p].bytes <= MaxImage[p]
    BY <1>1, LimitsNat DEF Init
  <2> QED
    BY <2>2, <2>3 DEF Init, LinkTyped, TypeOK
<1>3. SendingOffered /\ OnlyEscapingEnds
  BY DEF Init, SendingOffered, OnlyEscapingEnds
<1>4. ASSUME NEW p \in Peer PROVE LinkInv(p)
  <2>1. /\ chan[p] = <<>> /\ owed[p] = <<>> /\ applied[p] = <<>>
        /\ sending[Other(p)] = None
    BY OtherIsPeer DEF Init
  <2>2. ChunksFollow(p)
    <3> SUFFICES ASSUME NEW i \in 1..Len(chan[p]) + 1, NEW c \in Image, NEW k \in Starts(c)
                 PROVE  ~At(p, i, c, k)
      BY DEF ChunksFollow
    <3> QED
      BY <2>1, ContentsTyped DEF At, Content
  <2>3. Carry(p, <<>>, <<>>, 0, 0)
    <3> DEFINE num == [i \in 1..1 |-> 0]
    <3>1. /\ num \in [1..Len(<<>>) + 1 -> 0..Len(<<>>)] /\ num[1] = 0
          /\ num[Len(<<>>) + 1] = 0 /\ 1..Len(<<>>) = {}
      OBVIOUS
    <3> HIDE DEF num
    <3> QED
      BY <3>1 DEF Carry
  <2>4. OwedInOrder(p)
    BY <2>1, <2>3 DEF OwedInOrder, Remains, InHand
  <2>5. AppliedOwed(p)
    BY <2>1 DEF AppliedOwed
  <2> QED
    BY <2>2, <2>4, <2>5 DEF LinkInv
<1> QED
  BY <1>2, <1>3, <1>4 DEF IInv, WireInv

\* The parts of the invariant hold throughout every behaviour.
THEOREM Invariance == Spec => []IInv
<1>1. IInv /\ [Next]_vars => IInv'
  BY TypeStep, SendingStep, EndsStep, WireStep DEF IInv
<1> QED
  BY <1>1, InitIInv, PTL DEF Spec

\* Every variable keeps its type, the link its capacity, and the image that a reader
\* is joining its limit, whatever the sizes and the limits of the two ends.
THEOREM TypeCorrect == Spec => []TypeOK
<1>1. IInv => TypeOK
  BY DEF IInv, LinkTyped
<1> QED
  BY <1>1, Invariance, PTL

\* Nothing ends a link that works but a short text that JSON makes too long.
THEOREM EndsForAReason == Spec => []OnlyEscapingEnds
<1>1. IInv => OnlyEscapingEnds
  BY DEF IInv
<1> QED
  BY <1>1, Invariance, PTL

\* Whatever the sizes and the limits, what an end applies is what the other end wrote and
\* this one can take: each content once, whole and in order.
THEOREM ArrivesWhole == Spec => []WholeAndInOrder
<1>1. ASSUME IInv, NEW p \in Peer
      PROVE  IsPrefix(applied[p], [i \in DOMAIN owed[p] |-> Pieces(owed[p][i])])
  <2> DEFINE L == Len(owed[p])
             a == Len(applied[p])
             Whole(c) == Pieces(c)
             All == {Whole(c) : c \in Content}
             due == [i \in DOMAIN owed[p] |-> Whole(owed[p][i])]
             Parts == Seq(Content \X Nat)
  <2>1. /\ owed[p] \in Seq(Content) /\ applied[p] \in Seq(Parts)
        /\ OwedInOrder(p) /\ AppliedOwed(p) /\ chan[p] \in Seq(Frames)
    BY <1>1 DEF IInv, LinkTyped, TypeOK, WireInv, LinkInv
  <2>2. PICK n \in 0..L : Carry(p, chan[p], owed[p], a, n)
    BY <2>1 DEF OwedInOrder
  <2>3. a \in 0..L
    BY <2>1, <2>2, CarryWithin
  <2>4. \A i \in 1..a : applied[p][i] = Whole(owed[p][i])
    BY <2>1 DEF AppliedOwed
  <2>5. L \in Nat /\ DOMAIN owed[p] = 1..L /\ \A i \in 1..L : owed[p][i] \in Content
    BY <2>1
  <2> HIDE DEF Whole, L
  <2>6. due = [i \in 1..L |-> Whole(owed[p][i])] /\ \A i \in 1..L : Whole(owed[p][i]) \in All
    BY <2>5
  <2> HIDE DEF due, All, Parts
  <2>7. due \in Seq(All) /\ Len(due) = L /\ \A i \in 1..L : due[i] = Whole(owed[p][i])
    BY <2>5, <2>6
  <2>8. applied[p] \in Seq(Parts) /\ a \in Nat /\ a <= Len(due) /\ a <= Len(applied[p])
    BY <2>1, <2>3, <2>5, <2>7
  <2>9. \A i \in 1..a : applied[p][i] = due[i]
    BY <2>3, <2>4, <2>5, <2>7
  <2>10. SubSeq(applied[p], 1, a) = SubSeq(due, 1, a)
    <3> HIDE DEF a
    <3> QED
      BY <2>7, <2>8, <2>9, SameStart
  <2> QED
    BY <2>8, <2>10 DEF IsPrefix, due, Whole
<1>2. IInv => WholeAndInOrder
  BY <1>1 DEF WholeAndInOrder
<1> QED
  BY <1>2, Invariance, PTL

===============================================================================
