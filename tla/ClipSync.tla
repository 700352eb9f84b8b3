------------------------------- MODULE ClipSync -------------------------------
(* One clipboard-sync session: the function Sync of src/internal/clip/sync.go *)
(* run at both ends of a connection.  Each end has a poller goroutine that    *)
(* samples the local clipboard and sends changes, and a reader that applies   *)
(* what arrives; they share lastSeen under mu, and nothing else orders them.  *)
(* Every clipboard access is a command of its own, so users and the other     *)
(* goroutine act between a read and the use of what was read.                 *)
(*                                                                            *)
(* A content stands for its own hash (SHA-256 does not collide) and an image  *)
(* for its own signature; an image crosses the link as one message.           *)

EXTENDS Naturals, Sequences

CONSTANTS
    Peer,          \* the two ends
    Text,          \* contents that are text
    Image,         \* contents that are images
    Big,           \* contents beyond maxText or maxImage
    Empty,         \* the empty text, and what Read returns for an image
    None,          \* no signature, and no content seen yet
    Initial,       \* what may be on a clipboard when the session begins
    Stored,        \* the image a pasteboard holds after an image was written to it
    MaxCopies,     \* bound: copies the users make
    MaxFails,      \* bound: clipboard commands that fail
    Capacity       \* bound: messages the link holds before a write blocks

Content == Text \cup Image

ASSUME PeersPair == \E p, q \in Peer : Peer = {p, q} /\ p # q
ASSUME ContentsTyped ==
    /\ Empty \in Text \ Big
    /\ Text \cap Image = {}
    /\ None \notin Content
    /\ Big \subseteq Content
    /\ Initial \subseteq Content
    /\ Stored \in [Image -> Image]
ASSUME BoundsNat ==
    /\ MaxCopies \in Nat /\ MaxFails \in Nat
    /\ Capacity \in Nat \ {0}

VARIABLES
    clipboard,   \* what each machine's clipboard holds
    lastSeen,    \* the content last sent or applied, guarded by mu
    lastImgSig,  \* the poller's signature of the last image
    poll,        \* where the poller stands
    sample,      \* what the poller has read
    read,        \* where the reader stands
    incoming,    \* what the reader is applying
    chan,        \* chan[p]: messages on their way to p
    up,          \* neither end has closed the link and it has not failed
    copied,      \* contents users copied at an end that had begun to sync
    lost,        \* some content received could not be written to the clipboard
    copies, fails   \* counters of the bounds

vars == <<clipboard, lastSeen, lastImgSig, poll, sample, read, incoming, chan, up,
          copied, lost, copies, fails>>

pollVars == <<lastImgSig, poll, sample>>
readVars == <<read, incoming>>
bounds == <<copied, lost, copies, fails>>

Other(p) == CHOOSE q \in Peer : q # p

\* Read is pbpaste: an image has no text.
TextOf(c) == IF c \in Text THEN c ELSE Empty

PollState == {"start", "wait", "text", "image", "compare", "send", "over"}
ReadState == {"start", "recv", "apply", "calibrate", "settle", "over"}

Init ==
    /\ clipboard \in [Peer -> Initial]
    /\ lastSeen = [p \in Peer |-> None]
    /\ lastImgSig = [p \in Peer |-> None]
    /\ poll = [p \in Peer |-> "start"]
    /\ sample = [p \in Peer |-> Empty]
    /\ read = [p \in Peer |-> "start"]
    /\ incoming = [p \in Peer |-> Empty]
    /\ chan = [p \in Peer |-> <<>>]
    /\ up = TRUE
    /\ copied = {}
    /\ lost = FALSE
    /\ copies = 0
    /\ fails = 0

\* A goroutine moves from one of its steps to another.
PollGoes(p, from, to) == poll[p] = from /\ poll' = [poll EXCEPT ![p] = to]
ReadGoes(p, from, to) == read[p] = from /\ read' = [read EXCEPT ![p] = to]

\* Back to the select, with nothing in hand.
Forget(p) ==
    /\ poll' = [poll EXCEPT ![p] = "wait"]
    /\ sample' = [sample EXCEPT ![p] = Empty]

\* Back to ReadMsg, with nothing in hand.
Await(p) ==
    /\ read' = [read EXCEPT ![p] = "recv"]
    /\ incoming' = [incoming EXCEPT ![p] = Empty]

------------------------------------------------------------------------------
(* Faults: actions as a plausible bug would have them.  They are no part of the *)
(* specification; each shows that some property below can fail.                *)

\* The first read is not remembered.
StartUnseen(p) ==
    /\ ReadGoes(p, "start", "recv")
    /\ poll' = [poll EXCEPT ![p] = "wait"]
    /\ UNCHANGED <<clipboard, lastSeen, lastImgSig, sample, incoming, chan, up, bounds>>

\* A read that fails ends the poller.
FetchGivesUp(p) ==
    /\ poll[p] \in {"text", "image"}
    /\ fails < MaxFails
    /\ fails' = fails + 1
    /\ poll' = [poll EXCEPT ![p] = "over"]
    /\ UNCHANGED <<clipboard, lastSeen, lastImgSig, sample, readVars, chan, up,
                   copied, lost, copies>>

\* The limits on size are forgotten.
CompareUnlimited(p) ==
    /\ poll[p] = "compare"
    /\ lastSeen' = [lastSeen EXCEPT ![p] = sample[p]]
    /\ \/ sample[p] # lastSeen[p] /\ poll' = [poll EXCEPT ![p] = "send"] /\ UNCHANGED sample
       \/ sample[p] = lastSeen[p] /\ Forget(p)
    /\ UNCHANGED <<clipboard, lastImgSig, readVars, chan, up, bounds>>

\* A write never waits for the other end.
SendUnbounded(p) ==
    /\ poll[p] = "send"
    /\ up
    /\ chan' = [chan EXCEPT ![Other(p)] = Append(@, sample[p])]
    /\ Forget(p)
    /\ UNCHANGED <<clipboard, lastSeen, lastImgSig, readVars, up, bounds>>

------------------------------------------------------------------------------
(* Sync begins and ends *)

\* What the clipboard holds now counts as seen, if it is text.
Start(p) ==
    /\ ReadGoes(p, "start", "recv")
    /\ lastSeen' = [lastSeen EXCEPT ![p] = TextOf(clipboard[p])]
    /\ poll' = [poll EXCEPT ![p] = "wait"]
    /\ UNCHANGED <<clipboard, lastImgSig, sample, incoming, chan, up, bounds>>

\* "clipboard unavailable": the session is rejected and its connection closed.
StartFails(p) ==
    /\ ReadGoes(p, "start", "over")
    /\ fails < MaxFails
    /\ fails' = fails + 1
    /\ poll' = [poll EXCEPT ![p] = "over"]
    /\ up' = FALSE
    /\ UNCHANGED <<clipboard, lastSeen, lastImgSig, sample, incoming, chan, copied,
                   lost, copies>>

\* ReadMsg fails; the deferred stop closes the link and done ends the poller.
ReaderFails(p) ==
    /\ ReadGoes(p, "recv", "over")
    /\ ~up
    /\ UNCHANGED <<clipboard, lastSeen, pollVars, incoming, chan, up, bounds>>

\* The poller finds done closed at its select.
PollerDone(p) ==
    /\ PollGoes(p, "wait", "over")
    /\ read[p] = "over"
    /\ UNCHANGED <<clipboard, lastSeen, lastImgSig, sample, readVars, chan, up, bounds>>

\* A failed WriteMsg, of a change or of a ping, ends the poller through stop.
PollerFails(p) ==
    /\ poll[p] \in {"wait", "send"}
    /\ ~up
    /\ poll' = [poll EXCEPT ![p] = "over"]
    /\ UNCHANGED <<clipboard, lastSeen, lastImgSig, sample, readVars, chan, up, bounds>>

------------------------------------------------------------------------------
(* The poller *)

\* ImageSig finds an image it has not looked at; the signature is noted before
\* the image is fetched.
SenseImage(p) ==
    /\ PollGoes(p, "wait", "image")
    /\ clipboard[p] \in Image
    /\ clipboard[p] # lastImgSig[p]
    /\ lastImgSig' = [lastImgSig EXCEPT ![p] = clipboard[p]]
    /\ UNCHANGED <<clipboard, lastSeen, sample, readVars, chan, up, bounds>>

SenseText(p) ==
    /\ PollGoes(p, "wait", "text")
    /\ clipboard[p] \notin Image
    /\ lastImgSig' = [lastImgSig EXCEPT ![p] = None]
    /\ UNCHANGED <<clipboard, lastSeen, sample, readVars, chan, up, bounds>>

\* `clipboard info` fails, and an image passes for text.
SenseFails(p) ==
    /\ PollGoes(p, "wait", "text")
    /\ clipboard[p] \in Image
    /\ fails < MaxFails
    /\ fails' = fails + 1
    /\ lastImgSig' = [lastImgSig EXCEPT ![p] = None]
    /\ UNCHANGED <<clipboard, lastSeen, sample, readVars, chan, up, copied, lost, copies>>

FetchText(p) ==
    /\ PollGoes(p, "text", "compare")
    /\ sample' = [sample EXCEPT ![p] = TextOf(clipboard[p])]
    /\ UNCHANGED <<clipboard, lastSeen, lastImgSig, readVars, chan, up, bounds>>

FetchImage(p) ==
    /\ PollGoes(p, "image", "compare")
    /\ clipboard[p] \in Image
    /\ sample' = [sample EXCEPT ![p] = clipboard[p]]
    /\ UNCHANGED <<clipboard, lastSeen, lastImgSig, readVars, chan, up, bounds>>

\* A read fails, or finds no image any more: on to the next tick.
FetchFails(p) ==
    /\ \/ /\ poll[p] \in {"text", "image"}
          /\ fails < MaxFails
          /\ fails' = fails + 1
       \/ /\ poll[p] = "image"
          /\ clipboard[p] \notin Image
          /\ UNCHANGED fails
    /\ poll' = [poll EXCEPT ![p] = "wait"]
    /\ UNCHANGED <<clipboard, lastSeen, lastImgSig, sample, readVars, chan, up,
                   copied, lost, copies>>

\* Under mu.  What is too big counts as seen and is not sent.
Compare(p) ==
    /\ poll[p] = "compare"
    /\ lastSeen' = [lastSeen EXCEPT ![p] = sample[p]]
    /\ \/ /\ sample[p] # lastSeen[p] /\ sample[p] \notin Big
          /\ PollGoes(p, "compare", "send")
          /\ UNCHANGED sample
       \/ /\ sample[p] = lastSeen[p] \/ sample[p] \in Big
          /\ Forget(p)
    /\ UNCHANGED <<clipboard, lastImgSig, readVars, chan, up, bounds>>

Send(p) ==
    /\ poll[p] = "send"
    /\ up
    /\ Len(chan[Other(p)]) < Capacity
    /\ chan' = [chan EXCEPT ![Other(p)] = Append(@, sample[p])]
    /\ Forget(p)
    /\ UNCHANGED <<clipboard, lastSeen, lastImgSig, readVars, up, bounds>>

------------------------------------------------------------------------------
(* The reader *)

\* Under mu: the content is marked as seen before it is on the clipboard.
Receive(p) ==
    /\ ReadGoes(p, "recv", "apply")
    /\ chan[p] # <<>>
    /\ Head(chan[p]) # lastSeen[p]
    /\ lastSeen' = [lastSeen EXCEPT ![p] = Head(chan[p])]
    /\ incoming' = [incoming EXCEPT ![p] = Head(chan[p])]
    /\ chan' = [chan EXCEPT ![p] = Tail(@)]
    /\ UNCHANGED <<clipboard, pollVars, up, bounds>>

SkipSeen(p) ==
    /\ read[p] = "recv"
    /\ chan[p] # <<>>
    /\ Head(chan[p]) = lastSeen[p]
    /\ chan' = [chan EXCEPT ![p] = Tail(@)]
    /\ UNCHANGED <<clipboard, lastSeen, pollVars, readVars, up, bounds>>

ApplyText(p) ==
    /\ read[p] = "apply"
    /\ incoming[p] \in Text
    /\ clipboard' = [clipboard EXCEPT ![p] = incoming[p]]
    /\ Await(p)
    /\ UNCHANGED <<lastSeen, pollVars, chan, up, bounds>>

ApplyImage(p) ==
    /\ ReadGoes(p, "apply", "calibrate")
    /\ incoming[p] \in Image
    /\ clipboard' = [clipboard EXCEPT ![p] = Stored[incoming[p]]]
    /\ UNCHANGED <<lastSeen, pollVars, incoming, chan, up, bounds>>

\* The error is logged and the content lost; lastSeen stays as Receive set it.
ApplyFails(p) ==
    /\ read[p] = "apply"
    /\ fails < MaxFails
    /\ fails' = fails + 1
    /\ lost' = TRUE
    /\ Await(p)
    /\ UNCHANGED <<clipboard, lastSeen, pollVars, chan, up, copied, copies>>

\* ReadImage after WriteImage: what the pasteboard made of the image, or
\* whatever image the user has copied since.
Calibrate(p) ==
    /\ ReadGoes(p, "calibrate", "settle")
    /\ clipboard[p] \in Image
    /\ incoming' = [incoming EXCEPT ![p] = clipboard[p]]
    /\ UNCHANGED <<clipboard, lastSeen, pollVars, chan, up, bounds>>

CalibrateFails(p) ==
    /\ read[p] = "calibrate"
    /\ \/ clipboard[p] \notin Image /\ UNCHANGED fails
       \/ fails < MaxFails /\ fails' = fails + 1
    /\ Await(p)
    /\ UNCHANGED <<clipboard, lastSeen, pollVars, chan, up, copied, lost, copies>>

\* Under mu.
Settle(p) ==
    /\ read[p] = "settle"
    /\ lastSeen' = [lastSeen EXCEPT ![p] = incoming[p]]
    /\ Await(p)
    /\ UNCHANGED <<clipboard, pollVars, chan, up, bounds>>

------------------------------------------------------------------------------
(* The environment *)

Copy(p, c) ==
    /\ copies < MaxCopies
    /\ c \notin {clipboard[p], Empty}
    /\ clipboard' = [clipboard EXCEPT ![p] = c]
    /\ copies' = copies + 1
    /\ copied' = IF read[p] = "start" THEN copied ELSE copied \cup {c}
    /\ UNCHANGED <<lastSeen, pollVars, readVars, chan, up, lost, fails>>

LinkFails ==
    /\ up
    /\ up' = FALSE
    /\ UNCHANGED <<clipboard, lastSeen, pollVars, readVars, chan, bounds>>

PollerStep(p) ==
    \/ SenseImage(p) \/ SenseText(p) \/ SenseFails(p)
    \/ FetchText(p) \/ FetchImage(p) \/ FetchFails(p)
    \/ Compare(p) \/ Send(p) \/ PollerFails(p) \/ PollerDone(p)

ReaderStep(p) ==
    \/ Receive(p) \/ SkipSeen(p)
    \/ ApplyText(p) \/ ApplyImage(p) \/ ApplyFails(p)
    \/ Calibrate(p) \/ CalibrateFails(p) \/ Settle(p) \/ ReaderFails(p)

Next ==
    \/ \E p \in Peer : Start(p) \/ StartFails(p) \/ PollerStep(p) \/ ReaderStep(p)
    \/ \E p \in Peer, c \in Content : Copy(p, c)
    \/ LinkFails

Spec == Init /\ [][Next]_vars

\* Tickers tick, commands return, the link delivers or fails, and a select that
\* often finds done closed takes it; users owe nothing.
Fairness ==
    \A p \in Peer :
        /\ WF_vars(Start(p))
        /\ WF_vars(PollerStep(p))
        /\ SF_vars(PollerDone(p))
        /\ WF_vars(ReaderStep(p))

FairSpec == Spec /\ Fairness

------------------------------------------------------------------------------
(* Properties *)

\* Every variable keeps its type, and the link its capacity.
TypeOK ==
    /\ clipboard \in [Peer -> Content]
    /\ lastSeen \in [Peer -> Content \cup {None}]
    /\ lastImgSig \in [Peer -> Image \cup {None}]
    /\ poll \in [Peer -> PollState]
    /\ sample \in [Peer -> Content]
    /\ read \in [Peer -> ReadState]
    /\ incoming \in [Peer -> Content]
    /\ chan \in [Peer -> Seq(Content)] /\ \A p \in Peer : Len(chan[p]) <= Capacity
    /\ up \in BOOLEAN
    /\ copied \subseteq Content
    /\ lost \in BOOLEAN
    /\ copies \in 0..MaxCopies
    /\ fails \in 0..MaxFails

\* Nothing is sent on connect: sync starts with the first change.
SilentUntilCopy == copies = 0 => \A p \in Peer : chan[p] = <<>>

\* What is beyond maxText or maxImage stays where it was copied: it is neither
\* sent, nor applied from the other end.
BigStaysHome ==
    /\ \A p \in Peer : \A i \in DOMAIN chan[p] : chan[p][i] \notin Big
    /\ copies <= 1 => \E p \in Peer : clipboard[p] \notin Big

\* What Sync's comment and the README promise: a clipboard is sent only once
\* something was copied to it after the session began.
NothingStaleSent ==
    \A p \in Peer : \A i \in DOMAIN chan[p] :
        chan[p][i] \in copied \cup {Stored[c] : c \in copied \cap Image}

\* What the README promises of an image: what lies on the clipboard does not stay
\* unseen while the session lasts.
ImageNoticed ==
    \A p \in Peer : clipboard[p] \in Image /\ read[p] # "start"
        ~> clipboard[p] = lastSeen[p] \/ clipboard[p] \notin Image \/ ~up

\* What a session is for: a text copied at either end gets to both clipboards if
\* the link holds, whatever clipboard commands failed before they were retried; only
\* a failed write may lose it.  (Nobody copies over it.)
TextArrives ==
    \A p \in Peer, c \in Text \ Big :
        <>(c \in copied) => <>(clipboard[p] = c \/ ~up \/ lost)
===============================================================================
