---------------------------- MODULE ClipSyncProofs ----------------------------
(* Proofs about ClipSync for all contents, every capacity of the link and     *)
(* every number of copies and of failing commands: its type invariant, that   *)
(* an end is silent until something is copied, and that what is too big stays *)
(* where it was copied.                                                       *)

EXTENDS ClipSync, TLAPS

------------------------------------------------------------------------------
(* The inductive invariant, in named parts *)

\* While nobody has copied anything, an end that polls knows what its clipboard
\* holds, if it held text when the session began.
QuietInv ==
    Initial \subseteq Text /\ copies = 0 =>
        \A p \in Peer :
            /\ clipboard[p] \in Text /\ chan[p] = <<>>
            /\ read[p] \in {"start", "recv", "over"}
            /\ poll[p] \in {"start", "wait", "text", "compare", "over"}
            /\ read[p] = "start" <=> poll[p] = "start"
            /\ poll[p] \in {"wait", "text", "compare"} => lastSeen[p] = clipboard[p]
            /\ poll[p] = "compare" => sample[p] = lastSeen[p]

\* Nothing that is too big is in a sender's hand, under way, or in a reader's hand.
SmallInv ==
    \A p \in Peer :
        /\ poll[p] = "send" => sample[p] \notin Big
        /\ \A i \in DOMAIN chan[p] : chan[p][i] \notin Big
        /\ read[p] = "apply" => incoming[p] \notin Big

\* The pasteboard makes no image too big, and none is there at the beginning.
SmallBegin ==
    /\ Initial \cap Big = {}
    /\ \A i \in Image \ Big : Stored[i] \notin Big

\* Only a copy puts something on a clipboard that is too big.
HomeInv ==
    SmallBegin =>
        /\ copies = 0 => \A p \in Peer : clipboard[p] \notin Big
        /\ copies <= 1 => \E p \in Peer : clipboard[p] \notin Big

IInv == TypeOK /\ QuietInv /\ SmallInv /\ HomeInv

------------------------------------------------------------------------------
(* Each part is kept by every step *)

\* The other end is an end.
LEMMA OtherIsPeer == ASSUME NEW p \in Peer PROVE Other(p) \in Peer /\ Other(p) # p
BY PeersPair DEF Other

\* Every step keeps the types.
LEMMA TypeStep == TypeOK /\ [Next]_vars => TypeOK'
<1> SUFFICES ASSUME TypeOK, [Next]_vars PROVE TypeOK'
  OBVIOUS
<1> USE ContentsTyped, BoundsNat DEF TypeOK, Content, TextOf, PollState, ReadState,
      pollVars, readVars, bounds
<1>1. ASSUME NEW p \in Peer, Start(p) PROVE TypeOK'
  BY <1>1 DEF Start, ReadGoes
<1>2. ASSUME NEW p \in Peer, StartFails(p) PROVE TypeOK'
  <2>1. poll' \in [Peer -> PollState] /\ read' \in [Peer -> ReadState]
    BY <1>2 DEF StartFails, ReadGoes
  <2>2. up' = FALSE /\ fails < MaxFails /\ fails' = fails + 1
    BY <1>2 DEF StartFails
  <2>3. UNCHANGED <<clipboard, lastSeen, lastImgSig, sample, incoming, chan, copied,
                    lost, copies>>
    BY <1>2 DEF StartFails
  <2>4. fails' \in 0..MaxFails
    BY <2>2
  <2>5. up' \in BOOLEAN
    BY <2>2
  <2> QED
    BY <2>1, <2>3, <2>4, <2>5
<1>3. ASSUME NEW p \in Peer, SenseImage(p) PROVE TypeOK'
  BY <1>3 DEF SenseImage, PollGoes
<1>4. ASSUME NEW p \in Peer, SenseText(p) PROVE TypeOK'
  BY <1>4 DEF SenseText, PollGoes
<1>5. ASSUME NEW p \in Peer, SenseFails(p) PROVE TypeOK'
  BY <1>5 DEF SenseFails, PollGoes
<1>6. ASSUME NEW p \in Peer, FetchText(p) PROVE TypeOK'
  BY <1>6 DEF FetchText, PollGoes
<1>7. ASSUME NEW p \in Peer, FetchImage(p) PROVE TypeOK'
  BY <1>7 DEF FetchImage, PollGoes
<1>8. ASSUME NEW p \in Peer, FetchFails(p) PROVE TypeOK'
  BY <1>8 DEF FetchFails
<1>9. ASSUME NEW p \in Peer, Compare(p) PROVE TypeOK'
  <2>1. lastSeen' \in [Peer -> Content \cup {None}]
    BY <1>9 DEF Compare
  <2>2. poll' \in [Peer -> PollState] /\ sample' \in [Peer -> Content]
    <3>1. CASE PollGoes(p, "compare", "send") /\ UNCHANGED sample
      BY <3>1 DEF PollGoes
    <3>2. CASE Forget(p)
      BY <3>2 DEF Forget
    <3> QED
      BY <1>9, <3>1, <3>2 DEF Compare
  <2> QED
    BY <1>9, <2>1, <2>2 DEF Compare
<1>10. ASSUME NEW p \in Peer, Send(p) PROVE TypeOK'
  <2>1. poll' \in [Peer -> PollState] /\ sample' \in [Peer -> Content]
    BY <1>10 DEF Send, Forget
  <2>2. /\ chan' \in [Peer -> Seq(Content)]
        /\ \A q \in Peer : Len(chan'[q]) <= Capacity
    BY <1>10, OtherIsPeer DEF Send
  <2> QED
    BY <1>10, <2>1, <2>2 DEF Send
<1>11. ASSUME NEW p \in Peer, PollerFails(p) PROVE TypeOK'
  BY <1>11 DEF PollerFails
<1>12. ASSUME NEW p \in Peer, PollerDone(p) PROVE TypeOK'
  BY <1>12 DEF PollerDone, PollGoes
<1>13. ASSUME NEW p \in Peer, Receive(p) PROVE TypeOK'
  BY <1>13 DEF Receive, ReadGoes
<1>14. ASSUME NEW p \in Peer, SkipSeen(p) PROVE TypeOK'
  BY <1>14 DEF SkipSeen
<1>15. ASSUME NEW p \in Peer, ApplyText(p) PROVE TypeOK'
  BY <1>15 DEF ApplyText, Await
<1>16. ASSUME NEW p \in Peer, ApplyImage(p) PROVE TypeOK'
  BY <1>16 DEF ApplyImage, ReadGoes
<1>17. ASSUME NEW p \in Peer, ApplyFails(p) PROVE TypeOK'
  BY <1>17 DEF ApplyFails, Await
<1>18. ASSUME NEW p \in Peer, Calibrate(p) PROVE TypeOK'
  BY <1>18 DEF Calibrate, ReadGoes
<1>19. ASSUME NEW p \in Peer, CalibrateFails(p) PROVE TypeOK'
  BY <1>19 DEF CalibrateFails, Await
<1>20. ASSUME NEW p \in Peer, Settle(p) PROVE TypeOK'
  BY <1>20 DEF Settle, Await
<1>21. ASSUME NEW p \in Peer, ReaderFails(p) PROVE TypeOK'
  BY <1>21 DEF ReaderFails, ReadGoes
<1>22. ASSUME NEW p \in Peer, NEW c \in Content, Copy(p, c) PROVE TypeOK'
  BY <1>22 DEF Copy
<1>23. CASE LinkFails
  BY <1>23 DEF LinkFails
<1>24. CASE UNCHANGED vars
  BY <1>24 DEF vars
<1> QED
  BY <1>1, <1>2, <1>3, <1>4, <1>5, <1>6, <1>7, <1>8, <1>9, <1>10, <1>11,
    <1>12, <1>13, <1>14, <1>15, <1>16, <1>17, <1>18, <1>19, <1>20, <1>21,
    <1>22, <1>23, <1>24 DEF Next, PollerStep, ReaderStep

\* Every step leaves an end silent until something is copied.
LEMMA QuietStep == TypeOK /\ QuietInv /\ [Next]_vars => QuietInv'
<1> SUFFICES ASSUME TypeOK, QuietInv, [Next]_vars PROVE QuietInv'
  OBVIOUS
<1> USE ContentsTyped DEF TypeOK, Content, QuietInv, TextOf, pollVars, readVars, bounds
<1>1. ASSUME NEW p \in Peer, Start(p) PROVE QuietInv'
  BY <1>1 DEF Start, ReadGoes
<1>2. ASSUME NEW p \in Peer, StartFails(p) PROVE QuietInv'
  BY <1>2 DEF StartFails, ReadGoes
<1>3. ASSUME NEW p \in Peer, SenseImage(p) PROVE QuietInv'
  BY <1>3 DEF SenseImage, PollGoes
<1>4. ASSUME NEW p \in Peer, SenseText(p) PROVE QuietInv'
  BY <1>4 DEF SenseText, PollGoes
<1>5. ASSUME NEW p \in Peer, SenseFails(p) PROVE QuietInv'
  BY <1>5 DEF SenseFails, PollGoes
<1>6. ASSUME NEW p \in Peer, FetchText(p) PROVE QuietInv'
  BY <1>6 DEF FetchText, PollGoes
<1>7. ASSUME NEW p \in Peer, FetchImage(p) PROVE QuietInv'
  BY <1>7 DEF FetchImage, PollGoes
<1>8. ASSUME NEW p \in Peer, FetchFails(p) PROVE QuietInv'
  BY <1>8 DEF FetchFails
<1>9. ASSUME NEW p \in Peer, Compare(p) PROVE QuietInv'
  BY <1>9 DEF Compare, PollGoes, Forget
<1>10. ASSUME NEW p \in Peer, Send(p) PROVE QuietInv'
  BY <1>10 DEF Send, Forget
<1>11. ASSUME NEW p \in Peer, PollerFails(p) PROVE QuietInv'
  BY <1>11 DEF PollerFails
<1>12. ASSUME NEW p \in Peer, PollerDone(p) PROVE QuietInv'
  BY <1>12 DEF PollerDone, PollGoes
<1>13. ASSUME NEW p \in Peer, Receive(p) PROVE QuietInv'
  BY <1>13 DEF Receive, ReadGoes
<1>14. ASSUME NEW p \in Peer, SkipSeen(p) PROVE QuietInv'
  BY <1>14 DEF SkipSeen
<1>15. ASSUME NEW p \in Peer, ApplyText(p) PROVE QuietInv'
  BY <1>15 DEF ApplyText, Await
<1>16. ASSUME NEW p \in Peer, ApplyImage(p) PROVE QuietInv'
  BY <1>16 DEF ApplyImage, ReadGoes
<1>17. ASSUME NEW p \in Peer, ApplyFails(p) PROVE QuietInv'
  BY <1>17 DEF ApplyFails, Await
<1>18. ASSUME NEW p \in Peer, Calibrate(p) PROVE QuietInv'
  BY <1>18 DEF Calibrate, ReadGoes
<1>19. ASSUME NEW p \in Peer, CalibrateFails(p) PROVE QuietInv'
  BY <1>19 DEF CalibrateFails, Await
<1>20. ASSUME NEW p \in Peer, Settle(p) PROVE QuietInv'
  BY <1>20 DEF Settle, Await
<1>21. ASSUME NEW p \in Peer, ReaderFails(p) PROVE QuietInv'
  BY <1>21 DEF ReaderFails, ReadGoes
<1>22. ASSUME NEW p \in Peer, NEW c \in Content, Copy(p, c) PROVE QuietInv'
  BY <1>22 DEF Copy
<1>23. CASE LinkFails
  BY <1>23 DEF LinkFails
<1>24. CASE UNCHANGED vars
  BY <1>24 DEF vars
<1> QED
  BY <1>1, <1>2, <1>3, <1>4, <1>5, <1>6, <1>7, <1>8, <1>9, <1>10, <1>11,
    <1>12, <1>13, <1>14, <1>15, <1>16, <1>17, <1>18, <1>19, <1>20, <1>21,
    <1>22, <1>23, <1>24 DEF Next, PollerStep, ReaderStep

\* Every step leaves what is too big where it is.
LEMMA SmallStep == TypeOK /\ SmallInv /\ [Next]_vars => SmallInv'
<1> SUFFICES ASSUME TypeOK, SmallInv, [Next]_vars PROVE SmallInv'
  OBVIOUS
<1> USE DEF TypeOK, SmallInv, pollVars, readVars, bounds
<1>1. ASSUME NEW p \in Peer, Start(p) PROVE SmallInv'
  BY <1>1 DEF Start, ReadGoes
<1>2. ASSUME NEW p \in Peer, StartFails(p) PROVE SmallInv'
  BY <1>2 DEF StartFails, ReadGoes
<1>3. ASSUME NEW p \in Peer, SenseImage(p) PROVE SmallInv'
  BY <1>3 DEF SenseImage, PollGoes
<1>4. ASSUME NEW p \in Peer, SenseText(p) PROVE SmallInv'
  BY <1>4 DEF SenseText, PollGoes
<1>5. ASSUME NEW p \in Peer, SenseFails(p) PROVE SmallInv'
  BY <1>5 DEF SenseFails, PollGoes
<1>6. ASSUME NEW p \in Peer, FetchText(p) PROVE SmallInv'
  BY <1>6 DEF FetchText, PollGoes
<1>7. ASSUME NEW p \in Peer, FetchImage(p) PROVE SmallInv'
  BY <1>7 DEF FetchImage, PollGoes
<1>8. ASSUME NEW p \in Peer, FetchFails(p) PROVE SmallInv'
  BY <1>8 DEF FetchFails
<1>9. ASSUME NEW p \in Peer, Compare(p) PROVE SmallInv'
  BY <1>9 DEF Compare, PollGoes, Forget
<1>10. ASSUME NEW p \in Peer, Send(p) PROVE SmallInv'
  BY <1>10 DEF Send, Forget
<1>11. ASSUME NEW p \in Peer, PollerFails(p) PROVE SmallInv'
  BY <1>11 DEF PollerFails
<1>12. ASSUME NEW p \in Peer, PollerDone(p) PROVE SmallInv'
  BY <1>12 DEF PollerDone, PollGoes
<1>13. ASSUME NEW p \in Peer, Receive(p) PROVE SmallInv'
  BY <1>13 DEF Receive, ReadGoes
<1>14. ASSUME NEW p \in Peer, SkipSeen(p) PROVE SmallInv'
  BY <1>14 DEF SkipSeen
<1>15. ASSUME NEW p \in Peer, ApplyText(p) PROVE SmallInv'
  BY <1>15 DEF ApplyText, Await
<1>16. ASSUME NEW p \in Peer, ApplyImage(p) PROVE SmallInv'
  BY <1>16 DEF ApplyImage, ReadGoes
<1>17. ASSUME NEW p \in Peer, ApplyFails(p) PROVE SmallInv'
  BY <1>17 DEF ApplyFails, Await
<1>18. ASSUME NEW p \in Peer, Calibrate(p) PROVE SmallInv'
  BY <1>18 DEF Calibrate, ReadGoes
<1>19. ASSUME NEW p \in Peer, CalibrateFails(p) PROVE SmallInv'
  BY <1>19 DEF CalibrateFails, Await
<1>20. ASSUME NEW p \in Peer, Settle(p) PROVE SmallInv'
  BY <1>20 DEF Settle, Await
<1>21. ASSUME NEW p \in Peer, ReaderFails(p) PROVE SmallInv'
  BY <1>21 DEF ReaderFails, ReadGoes
<1>22. ASSUME NEW p \in Peer, NEW c \in Content, Copy(p, c) PROVE SmallInv'
  BY <1>22 DEF Copy
<1>23. CASE LinkFails
  BY <1>23 DEF LinkFails
<1>24. CASE UNCHANGED vars
  BY <1>24 DEF vars
<1> QED
  BY <1>1, <1>2, <1>3, <1>4, <1>5, <1>6, <1>7, <1>8, <1>9, <1>10, <1>11,
    <1>12, <1>13, <1>14, <1>15, <1>16, <1>17, <1>18, <1>19, <1>20, <1>21,
    <1>22, <1>23, <1>24 DEF Next, PollerStep, ReaderStep

\* Every step but a copy leaves the clipboards without what is too big.
LEMMA HomeStep == TypeOK /\ SmallInv /\ HomeInv /\ [Next]_vars => HomeInv'
<1> SUFFICES ASSUME TypeOK, SmallInv, HomeInv, [Next]_vars PROVE HomeInv'
  OBVIOUS
<1> USE ContentsTyped DEF TypeOK, SmallInv, HomeInv, SmallBegin, pollVars, readVars, bounds
<1>1. ASSUME NEW p \in Peer, Start(p) PROVE HomeInv'
  BY <1>1 DEF Start, ReadGoes
<1>2. ASSUME NEW p \in Peer, StartFails(p) PROVE HomeInv'
  BY <1>2 DEF StartFails, ReadGoes
<1>3. ASSUME NEW p \in Peer, SenseImage(p) PROVE HomeInv'
  BY <1>3 DEF SenseImage, PollGoes
<1>4. ASSUME NEW p \in Peer, SenseText(p) PROVE HomeInv'
  BY <1>4 DEF SenseText, PollGoes
<1>5. ASSUME NEW p \in Peer, SenseFails(p) PROVE HomeInv'
  BY <1>5 DEF SenseFails, PollGoes
<1>6. ASSUME NEW p \in Peer, FetchText(p) PROVE HomeInv'
  BY <1>6 DEF FetchText, PollGoes
<1>7. ASSUME NEW p \in Peer, FetchImage(p) PROVE HomeInv'
  BY <1>7 DEF FetchImage, PollGoes
<1>8. ASSUME NEW p \in Peer, FetchFails(p) PROVE HomeInv'
  BY <1>8 DEF FetchFails
<1>9. ASSUME NEW p \in Peer, Compare(p) PROVE HomeInv'
  BY <1>9 DEF Compare, PollGoes, Forget
<1>10. ASSUME NEW p \in Peer, Send(p) PROVE HomeInv'
  BY <1>10 DEF Send, Forget
<1>11. ASSUME NEW p \in Peer, PollerFails(p) PROVE HomeInv'
  BY <1>11 DEF PollerFails
<1>12. ASSUME NEW p \in Peer, PollerDone(p) PROVE HomeInv'
  BY <1>12 DEF PollerDone, PollGoes
<1>13. ASSUME NEW p \in Peer, Receive(p) PROVE HomeInv'
  BY <1>13 DEF Receive, ReadGoes
<1>14. ASSUME NEW p \in Peer, SkipSeen(p) PROVE HomeInv'
  BY <1>14 DEF SkipSeen
<1>15. ASSUME NEW p \in Peer, ApplyText(p) PROVE HomeInv'
  BY <1>15 DEF ApplyText, Await
<1>16. ASSUME NEW p \in Peer, ApplyImage(p) PROVE HomeInv'
  BY <1>16 DEF ApplyImage, ReadGoes
<1>17. ASSUME NEW p \in Peer, ApplyFails(p) PROVE HomeInv'
  BY <1>17 DEF ApplyFails, Await
<1>18. ASSUME NEW p \in Peer, Calibrate(p) PROVE HomeInv'
  BY <1>18 DEF Calibrate, ReadGoes
<1>19. ASSUME NEW p \in Peer, CalibrateFails(p) PROVE HomeInv'
  BY <1>19 DEF CalibrateFails, Await
<1>20. ASSUME NEW p \in Peer, Settle(p) PROVE HomeInv'
  BY <1>20 DEF Settle, Await
<1>21. ASSUME NEW p \in Peer, ReaderFails(p) PROVE HomeInv'
  BY <1>21 DEF ReaderFails, ReadGoes
<1>22. ASSUME NEW p \in Peer, NEW c \in Content, Copy(p, c) PROVE HomeInv'
  <2> SUFFICES ASSUME SmallBegin, copies' <= 1 PROVE clipboard'[Other(p)] \notin Big
    BY <1>22, OtherIsPeer, BoundsNat DEF Copy
  <2>1. copies = 0
    BY <1>22, BoundsNat DEF Copy
  <2> QED
    BY <1>22, <2>1, OtherIsPeer DEF Copy
<1>23. CASE LinkFails
  BY <1>23 DEF LinkFails
<1>24. CASE UNCHANGED vars
  BY <1>24 DEF vars
<1> QED
  BY <1>1, <1>2, <1>3, <1>4, <1>5, <1>6, <1>7, <1>8, <1>9, <1>10, <1>11,
    <1>12, <1>13, <1>14, <1>15, <1>16, <1>17, <1>18, <1>19, <1>20, <1>21,
    <1>22, <1>23, <1>24 DEF Next, PollerStep, ReaderStep

------------------------------------------------------------------------------
(* The theorems *)

LEMMA InitIInv == Init => IInv
<1> SUFFICES ASSUME Init PROVE IInv
  OBVIOUS
<1> USE DEF Init
<1>1. <<>> \in Seq(Content) /\ Len(<<>>) = 0
  OBVIOUS
<1>2. TypeOK
  <2>1. /\ clipboard \in [Peer -> Content] /\ sample \in [Peer -> Content]
        /\ incoming \in [Peer -> Content]
    BY ContentsTyped DEF Content
  <2>2. poll \in [Peer -> PollState] /\ read \in [Peer -> ReadState]
    BY DEF PollState, ReadState
  <2>3. /\ lastSeen \in [Peer -> Content \cup {None}]
        /\ lastImgSig \in [Peer -> Image \cup {None}]
    OBVIOUS
  <2>4. chan \in [Peer -> Seq(Content)] /\ \A p \in Peer : Len(chan[p]) <= Capacity
    BY <1>1, BoundsNat
  <2>5. copies \in 0..MaxCopies /\ fails \in 0..MaxFails
    BY BoundsNat
  <2>6. up \in BOOLEAN /\ lost \in BOOLEAN
    OBVIOUS
  <2>7. copied \subseteq Content
    OBVIOUS
  <2> HIDE DEF Init
  <2> QED
    BY <2>1, <2>2, <2>3, <2>4, <2>5, <2>6, <2>7 DEF TypeOK
<1>3. QuietInv /\ SmallInv
  BY DEF QuietInv, SmallInv
<1>4. HomeInv
  BY PeersPair DEF HomeInv, SmallBegin
<1> QED
  BY <1>2, <1>3, <1>4 DEF IInv

\* The parts of the invariant hold throughout every behaviour.
THEOREM Invariance == Spec => []IInv
<1>1. IInv /\ [Next]_vars => IInv'
  BY TypeStep, QuietStep, SmallStep, HomeStep DEF IInv
<1> QED
  BY <1>1, InitIInv, PTL DEF Spec

\* Every variable keeps its type, and the link its capacity, for all contents.
THEOREM TypeCorrect == Spec => []TypeOK
<1>1. IInv => TypeOK
  BY DEF IInv
<1> QED
  BY <1>1, Invariance, PTL

\* Two ends whose clipboards held text send nothing until something is copied,
\* whatever commands fail.  (With an image they do: that is the finding.)
THEOREM SilentConnect ==
    ASSUME Initial \subseteq Text
    PROVE  Spec => []SilentUntilCopy
<1>1. IInv => SilentUntilCopy
  BY DEF IInv, QuietInv, SilentUntilCopy
<1> QED
  BY <1>1, Invariance, PTL

\* What is too big is never sent, and never gets to the other end.
THEOREM BigStays ==
    ASSUME SmallBegin
    PROVE  Spec => []BigStaysHome
<1>1. IInv => BigStaysHome
  BY DEF IInv, SmallInv, HomeInv, BigStaysHome
<1> QED
  BY <1>1, Invariance, PTL

===============================================================================
