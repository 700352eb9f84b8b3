----------------------------- MODULE TunnelProofs -----------------------------
(* Proofs about Tunnel for any number of pieces and of broken connections:    *)
(* its type invariant, and that the end of a stream stands for all of it.     *)

EXTENDS Tunnel, TLAPS

------------------------------------------------------------------------------
(* The inductive invariant, in named parts *)

\* The four streams of a direction in the order in which data takes them, and the
\* place that a process has between them: it reads one and writes the next.
Path(x, k) == <<IF x = "up" THEN k ELSE 5 - k, x>>
Place(p, x) == IF x = "up" THEN Near[p] ELSE 4 - Near[p]

Has(s, m) == \E i \in DOMAIN s : s[i] = m

\* Where the processes stand, and what they know of each other.
StageInv ==
    /\ \A p \in Pipes :
          /\ p \in ran => stage[p] \in {"piping", "done"}
          /\ stage[p] = "piping" => p \in ran
    /\ stage["client"] \in {"dial", "ack", "piping", "done", "failed"}
    /\ stage["relay"] \in {"idle", "parked", "piping", "done"}
    /\ stage["agent"] \in {"idle", "told", "local", "piping", "done"}
    /\ stage["relay"] = "idle" => ~ackDue /\ stage["agent"] = "idle"
    /\ dialled \/ "agent" \in ran => stage["agent"] \notin {"idle", "told"}
    /\ "relay" \in ran => ~dialled /\ stage["agent"] \notin {"idle", "told"}
    /\ "client" \in ran => ~ackDue /\ stage["relay"] # "idle"

\* The agent sends data only, and the relay no ok before it is due.
FrameInv ==
    /\ ~Has(buf[<<3, "down">>], "ok") /\ ~Has(buf[<<4, "down">>], "ok")
    /\ ackDue \/ stage["relay"] = "idle" => ~Has(buf[<<2, "down">>], "ok")

\* No connection is broken, no process has given up, and the client, if it does
\* not pipe yet, will get its ok.
Whole ==
    /\ broken = {}
    /\ \A p \in Pipes : stage[p] \in {"done", "failed"} => p \in ran
    /\ \/ "client" \in ran \/ ackDue \/ stage["relay"] = "idle"
       \/ Has(buf[<<2, "down">>], "ok")

\* A stream is shut by the copy that writes it and by nobody before, and nobody
\* closes what a copy still reads.
FlowInv ==
    Whole =>
        \A p \in Pipes, x \in Dir :
            /\ p \notin ran \/ <<p, x>> \in flows =>
                  Src(p, x) \notin shut /\ Dst(p, x) \notin fin
            /\ p \in ran /\ <<p, x>> \notin flows => Dst(p, x) \in fin

Load == [x \in Dir |-> [k \in 1..4 |-> Len(buf[Path(x, k)])]]

\* What is in the streams of x from the k-th on, if L is Load.
Ahead(L, x, k) ==
    (IF k <= 1 THEN L[x][1] ELSE 0) + (IF k <= 2 THEN L[x][2] ELSE 0) +
    (IF k <= 3 THEN L[x][3] ELSE 0) + L[x][4]

\* The ok is on its way as well.
Oks == IF stage["relay"] # "idle" /\ ~ackDue /\ "client" \notin ran THEN 1 ELSE 0

Extra(n, x) == IF x = "down" THEN n ELSE 0

\* Nothing is lost but what is written to somebody who has left: if nobody has from
\* the k-th stream on, and the k-th is shut, the sender has finished and all that
\* it sent is ahead.
Counted(x, k) ==
    /\ \A j \in k..4 : Path(x, j) \notin shut
    /\ k # 1 => Path(x, k) \in fin
    => /\ k # 1 => Path(x, 1) \in fin
       /\ got[x] + Ahead(Load, x, k) = sent[x] + Extra(Oks, x)

CountInv == Whole => \A x \in Dir, k \in 1..4 : Counted(x, k)

\* A receiver that has seen the end has everything, and nothing more can come.
EndInv ==
    Whole =>
        \A x \in seen :
            /\ Path(x, 1) \in fin /\ Path(x, 4) \in fin
            /\ buf[Path(x, 4)] = <<>>
            /\ got[x] = sent[x]

IInv == TypeOK /\ StageInv /\ FrameInv /\ FlowInv /\ CountInv /\ EndInv

Plain(q) == \A i \in DOMAIN q : q[i] = "data"
OneAnswer(q) == \A i, j \in DOMAIN q : q[i] # "data" /\ q[j] # "data" => i = j

\* Only the stream from the relay to the client ever holds more than data: one
\* answer, from when the relay gives it until the client begins to pipe.
AnswerInv ==
    /\ \A s \in Stream \ {<<2, "down">>} : Plain(buf[s])
    /\ OneAnswer(buf[<<2, "down">>])
    /\ ackDue \/ stage["relay"] = "idle" \/ "client" \in ran => Plain(buf[<<2, "down">>])

------------------------------------------------------------------------------
(* The operators of the model and of the invariant *)

\* The streams of a direction are different ones, and so are those of two
\* directions; the reverse of the first is the other direction's last.
LEMMA PathFacts ==
    /\ \A x \in Dir, k \in 1..4 : Path(x, k) \in Stream
    /\ \A x, y \in Dir, j, k \in 1..4 : Path(x, j) = Path(y, k) <=> x = y /\ j = k
BY DEF Path, Dir, Stream, Hop

\* Every process stands between two streams of each direction.
LEMMA PlaceFacts ==
    ASSUME NEW p \in Pipes, NEW x \in Dir
    PROVE  /\ Place(p, x) \in 1..3 /\ Place(p, x) + 1 \in 1..4
           /\ Src(p, x) = Path(x, Place(p, x))
           /\ Dst(p, x) = Path(x, Place(p, x) + 1)
           /\ Src(p, x) \in Stream /\ Dst(p, x) \in Stream
           /\ Src(p, x) # Dst(p, x)
BY DEF Path, Place, Src, Dst, Dir, Stream, Hop, Pipes, Near

\* No two processes read, or write, one stream.
LEMMA PlacesDiffer ==
    ASSUME NEW p \in Pipes, NEW q \in Pipes, NEW x \in Dir, NEW y \in Dir
    PROVE  /\ Src(p, x) = Src(q, y) => p = q /\ x = y
           /\ Dst(p, x) = Dst(q, y) => p = q /\ x = y
BY DEF Src, Dst, Dir, Pipes, Near

\* The streams at the edges, by their names.
LEMMA EdgeFacts ==
    /\ \A x \in Dir : /\ Entry(x) = Path(x, 1) /\ Exit(x) = Path(x, 4)
                      /\ \A p \in Pipes, y \in Dir : Entry(x) # Dst(p, y) /\ Exit(x) # Src(p, y)
    /\ Back(Entry("up")) = Path("down", 4) /\ Back(Entry("down")) = Path("up", 4)
    /\ Path("down", 3) = <<2, "down">> /\ Path("down", 4) = Dst("client", "down")
BY DEF Entry, Exit, Back, Path, Src, Dst, Dir, Pipes, Near

Item == {"ok", "nak", "data"}

\* A stream keeps its type when a piece is taken off it or added to it.
LEMMA SeqFacts ==
    ASSUME NEW s \in Seq(Item), NEW m \in Item
    PROVE  /\ Append(s, m) \in Seq(Item) /\ Len(Append(s, m)) = Len(s) + 1
           /\ \A v : Has(Append(s, m), v) => Has(s, v) \/ v = m
           /\ Has(Append(s, m), m)
           /\ \A v : Has(s, v) => Has(Append(s, m), v)
           /\ s # <<>> => /\ Head(s) \in Item /\ Tail(s) \in Seq(Item)
                          /\ Len(Tail(s)) = Len(s) - 1 /\ Has(s, Head(s))
                          /\ \A v : Has(Tail(s), v) => Has(s, v)
           /\ Len(s) \in Nat /\ (Len(s) = 0 <=> s = <<>>)
           /\ \A v : ~Has(<<>>, v)
<1> USE DEF Has
<1>1. /\ Append(s, m) \in Seq(Item) /\ Len(Append(s, m)) = Len(s) + 1
      /\ DOMAIN Append(s, m) = 1..Len(s) + 1 /\ DOMAIN s = 1..Len(s)
      /\ \A i \in 1..Len(s) : Append(s, m)[i] = s[i]
      /\ Append(s, m)[Len(s) + 1] = m
      /\ Len(s) \in Nat /\ (Len(s) = 0 <=> s = <<>>)
  OBVIOUS
<1>2. ASSUME s # <<>>
      PROVE  /\ Head(s) = s[1] /\ 1 \in DOMAIN s
             /\ Head(s) \in Item /\ Tail(s) \in Seq(Item)
             /\ Len(Tail(s)) = Len(s) - 1
             /\ DOMAIN Tail(s) = 1..Len(s) - 1
             /\ \A i \in 1..Len(s) - 1 : Tail(s)[i] = s[i + 1] /\ i + 1 \in DOMAIN s
  BY <1>2, <1>1
<1>3. \A v : Has(Append(s, m), v) => Has(s, v) \/ v = m
  BY <1>1
<1>4. Has(Append(s, m), m) /\ \A v : Has(s, v) => Has(Append(s, m), v)
  BY <1>1
<1>5. \A v : ~Has(<<>>, v)
  OBVIOUS
<1> QED
  BY <1>1, <1>2, <1>3, <1>4, <1>5

\* What a close does: it shuts streams, and nothing is added to any.
LEMMA CloseFacts ==
    ASSUME TypeOK, NEW S \in SUBSET Stream, Close(S)
    PROVE  /\ fin' = fin \cup S /\ fin' \subseteq Stream
           /\ shut' = shut \cup {Back(s) : s \in S} /\ shut' \subseteq Stream
           /\ broken \subseteq broken' /\ broken' \subseteq Hop
           /\ buf' \in [Stream -> Seq(Item)]
           /\ \A s \in Stream : buf'[s] = buf[s] \/ buf'[s] = <<>>
           /\ broken' = {} =>
                 buf' = [s \in Stream |-> IF Back(s) \in S THEN <<>> ELSE buf[s]]
<1>1. \A s \in Stream : Back(s) \in Stream /\ s[1] \in Hop
  BY DEF Stream, Back, Dir, Hop
<1>2. PICK reset \in SUBSET {s[1] : s \in {t \in S : buf[Back(t)] # <<>>}} :
            /\ broken' = broken \cup reset
            /\ buf' = [s \in Stream |->
                  IF s[1] \in reset \/ Back(s) \in S THEN <<>> ELSE buf[s]]
  BY DEF Close
<1>3. reset \subseteq Hop
  BY <1>1
<1>4. buf \in [Stream -> Seq(Item)] /\ <<>> \in Seq(Item)
  BY DEF TypeOK, Item
<1>5. buf' \in [Stream -> Seq(Item)]
  BY <1>2, <1>4
<1>6. shut' \subseteq Stream
  BY <1>1 DEF Close, TypeOK
<1>7. broken' = {} => buf' = [s \in Stream |-> IF Back(s) \in S THEN <<>> ELSE buf[s]]
  <2> SUFFICES ASSUME broken' = {} PROVE buf' = [s \in Stream |-> IF Back(s) \in S THEN <<>> ELSE buf[s]]
    OBVIOUS
  <2>1. reset = {}
    BY <1>2
  <2> QED
    BY <1>2, <2>1
<1> QED
  BY <1>2, <1>3, <1>4, <1>5, <1>6, <1>7 DEF Close, TypeOK

\* Every close of the model is one of streams.
LEMMA CloseSets ==
    /\ {<<1, "down">>} \subseteq Stream
    /\ {<<1, "down">>, <<2, "up">>} \subseteq Stream
    /\ {<<2, "down">>} \subseteq Stream
    /\ {<<3, "up">>} \subseteq Stream /\ {<<3, "down">>} \subseteq Stream
    /\ \A p \in Pipes : {<<Near[p], "down">>, <<Near[p] + 1, "up">>} \subseteq Stream
    /\ \A x \in Dir : {Entry(x)} \subseteq Stream
BY DEF Stream, Hop, Dir, Pipes, Near, Entry

------------------------------------------------------------------------------
(* Types, stages and frames *)

LEMMA InitIInv == Init => IInv
<1> SUFFICES ASSUME Init PROVE IInv
  OBVIOUS
<1>1. TypeOK
  <2>1. stage \in [Pipes -> Stage]
    BY DEF Init, Pipes, Stage
  <2>2. buf \in [Stream -> Seq({"ok", "nak", "data"})]
    <3>1. <<>> \in Seq({"ok", "nak", "data"})
      OBVIOUS
    <3> QED
      BY <3>1 DEF Init
  <2>3. breaks \in 0..MaxBreaks
    BY BoundsNat DEF Init
  <2> QED
    BY <2>1, <2>2, <2>3 DEF Init, TypeOK
<1>2. StageInv
  BY DEF Init, StageInv, Pipes
<1>3. FrameInv
  BY DEF Init, FrameInv, Has, Stream, Hop, Dir
<1>4. FlowInv
  BY DEF Init, FlowInv
<1>5. Load = [x \in Dir |-> [k \in 1..4 |-> 0]]
  BY PathFacts DEF Init, Load
<1>6. \A x \in Dir, k \in 1..4 : Ahead(Load, x, k) = 0
  BY <1>5 DEF Ahead
<1>7. CountInv
  BY <1>6 DEF Init, CountInv, Counted, Extra, Oks
<1>8. EndInv
  BY DEF Init, EndInv
<1> QED
  BY <1>1, <1>2, <1>3, <1>4, <1>7, <1>8 DEF IInv

\* A process moves on, and nothing it pipes is left behind.
LEMMA StageTyped ==
    ASSUME TypeOK, NEW p \in Pipes, NEW from, NEW to \in Stage, Goes(p, from, to),
           from # "piping" \/ \A x \in Dir : <<p, x>> \notin flows
    PROVE  /\ stage' \in [Pipes -> Stage]
           /\ flows \subseteq {q \in Pipes : stage'[q] = "piping"} \X Dir
<1>1. stage' = [stage EXCEPT ![p] = to] /\ stage[p] = from /\ stage \in [Pipes -> Stage]
  BY DEF TypeOK, Goes
<1>2. \A q \in Pipes : q # p => stage'[q] = stage[q]
  BY <1>1
<1>3. ASSUME NEW q \in Pipes, NEW x \in Dir, <<q, x>> \in flows
      PROVE  stage'[q] = "piping"
  BY <1>1, <1>2, <1>3 DEF TypeOK
<1> QED
  BY <1>1, <1>3 DEF TypeOK

\* A process begins to pipe.
LEMMA StartTyped ==
    ASSUME TypeOK, NEW p \in Pipes, NEW from, Goes(p, from, "piping"), StartPipe(p)
    PROVE  /\ stage' \in [Pipes -> Stage] /\ ran' \subseteq Pipes
           /\ flows' \subseteq {q \in Pipes : stage'[q] = "piping"} \X Dir
<1>1. /\ stage' = [stage EXCEPT ![p] = "piping"] /\ stage \in [Pipes -> Stage]
      /\ stage'[p] = "piping"
  BY DEF TypeOK, Goes
<1>2. \A q \in Pipes : q # p => stage'[q] = stage[q]
  BY <1>1
<1>3. ASSUME NEW q \in Pipes, NEW x \in Dir, <<q, x>> \in flows'
      PROVE  stage'[q] = "piping"
  BY <1>1, <1>2, <1>3 DEF TypeOK, StartPipe
<1>4. flows' \subseteq Pipes \X Dir
  BY DEF TypeOK, StartPipe
<1> QED
  BY <1>1, <1>3, <1>4 DEF TypeOK, StartPipe, Stage

\* Every step keeps the types.
LEMMA TypeStep == IInv /\ [Next]_vars => TypeOK'
<1> SUFFICES ASSUME IInv, [Next]_vars PROVE TypeOK'
  OBVIOUS
<1> USE DEF IInv
<1>0. TypeOK /\ StageInv
  OBVIOUS
<1>1. /\ "client" \in Pipes /\ "relay" \in Pipes /\ "agent" \in Pipes
      /\ {"dial", "ack", "parked", "told", "local", "piping", "done", "failed"} \subseteq Stage
  BY DEF Pipes, Stage
<1>2. Item = {"ok", "nak", "data"}
  BY DEF Item
<1>3. \A s \in Stream : buf[s] \in Seq(Item)
  BY <1>2 DEF TypeOK
<1>4. CASE ClientDials
  BY <1>4, <1>1, StageTyped DEF ClientDials, TypeOK, streams, ends
<1>5. CASE ClientDialFails
  <2>1. Close({<<1, "down">>}) /\ Goes("client", "dial", "failed")
    BY <1>5 DEF ClientDialFails
  <2> QED
    BY <1>5, <2>1, <1>1, <1>2, StageTyped, CloseFacts, CloseSets
    DEF ClientDialFails, TypeOK, ends
<1>6. CASE ClientConnected
  <2>1. Goes("client", "ack", "piping") /\ StartPipe("client")
    BY <1>6 DEF ClientConnected
  <2>2. buf' \in [Stream -> Seq(Item)]
    BY <1>6, <1>3, <1>2, SeqFacts, EdgeFacts, PathFacts DEF ClientConnected, TypeOK, HasFrame
  <2> QED
    BY <1>6, <2>1, <2>2, <1>1, <1>2, StartTyped DEF ClientConnected, TypeOK, ends
<1>7. CASE ClientGivesUp
  <2>1. Close({<<1, "down">>, <<2, "up">>}) /\ Goes("client", "ack", "done")
    BY <1>7 DEF ClientGivesUp
  <2> QED
    BY <1>7, <2>1, <1>1, <1>2, StageTyped, CloseFacts, CloseSets
    DEF ClientGivesUp, TypeOK, ends
<1>8. CASE RelayRefuses
  <2>1. Goes("relay", "idle", "done")
    BY <1>8 DEF RelayRefuses
  <2>2. buf' \in [Stream -> Seq(Item)]
    <3>1. <<2, "down">> \in Stream /\ "nak" \in Item
      BY <1>2 DEF Stream, Hop, Dir
    <3>2. Written(<<2, "down">>, "nak") \in Seq(Item)
      BY <3>1, <1>3, SeqFacts DEF Written
    <3>3. buf' = [buf EXCEPT ![<<2, "down">>] = Written(<<2, "down">>, "nak")]
      BY <1>8 DEF RelayRefuses
    <3> QED
      BY <3>2, <3>3, <1>2 DEF TypeOK
  <2>3. fin' \subseteq Stream /\ shut' \subseteq Stream
    BY <1>8 DEF RelayRefuses, TypeOK, Stream, Hop, Dir
  <2> QED
    BY <1>8, <2>1, <2>2, <2>3, <1>1, <1>2, StageTyped DEF RelayRefuses, TypeOK, ends
<1>9. CASE RelayParks
  <2>1. PICK agent \in {"told", "done"} :
            stage' = [stage EXCEPT !["relay"] = "parked", !["agent"] = agent]
    BY <1>9 DEF RelayParks
  <2>2. stage["relay"] = "idle" /\ stage["agent"] = "idle"
    BY <1>9 DEF RelayParks, StageInv
  <2>3. stage' \in [Pipes -> Stage]
    BY <2>1, <1>1 DEF TypeOK
  <2>4. \A q \in Pipes : stage[q] = "piping" => stage'[q] = "piping"
    BY <2>1, <2>2 DEF TypeOK
  <2>5. flows' \subseteq {p \in Pipes : stage'[p] = "piping"} \X Dir
    BY <1>9, <2>4 DEF RelayParks, TypeOK
  <2> QED
    BY <1>9, <2>3, <2>5 DEF RelayParks, TypeOK, streams, ends
<1>10. CASE RelayAcks
  <2>1. buf' \in [Stream -> Seq(Item)]
    BY <1>10, <1>3, <1>2, SeqFacts DEF RelayAcks, TypeOK, Written, Item
  <2> QED
    BY <1>10, <2>1, <1>2 DEF RelayAcks, TypeOK, ends
<1>11. CASE RelayAckFails
  <2>1. Close({<<2, "down">>})
    BY <1>11 DEF RelayAckFails
  <2>2. stage' = [stage EXCEPT !["relay"] = IF @ = "parked" THEN "done" ELSE @]
    BY <1>11 DEF RelayAckFails
  <2>3. stage' \in [Pipes -> Stage]
    BY <2>2, <1>1 DEF TypeOK
  <2>4. \A q \in Pipes : stage[q] = "piping" => stage'[q] = "piping"
    BY <2>2 DEF TypeOK
  <2>5. flows' \subseteq {p \in Pipes : stage'[p] = "piping"} \X Dir
    BY <1>11, <2>4 DEF RelayAckFails, TypeOK
  <2> QED
    BY <1>11, <2>1, <2>3, <2>5, <1>2, CloseFacts, CloseSets DEF RelayAckFails, TypeOK, ends
<1>12. CASE RelayReaps
  <2>1. Close({<<2, "down">>}) /\ Goes("relay", "parked", "done")
    BY <1>12 DEF RelayReaps
  <2> QED
    BY <1>12, <2>1, <1>1, <1>2, StageTyped, CloseFacts, CloseSets DEF RelayReaps, TypeOK, ends
<1>13. CASE RelayPairs
  BY <1>13, <1>1, StartTyped DEF RelayPairs, TypeOK, streams, ends
<1>14. CASE RelayTurnsAway
  <2>1. Close({<<3, "up">>})
    BY <1>14 DEF RelayTurnsAway
  <2> QED
    BY <1>14, <2>1, <1>2, CloseFacts, CloseSets DEF RelayTurnsAway, TypeOK, ends
<1>15. CASE AgentDials
  BY <1>15, <1>1, StageTyped DEF AgentDials, TypeOK, streams, ends
<1>16. CASE AgentDialFails
  BY <1>16, <1>1, StageTyped DEF AgentDialFails, TypeOK, streams, ends
<1>17. CASE AgentCloses
  <2>1. Close({<<3, "down">>}) /\ Goes("agent", "told", "done")
    BY <1>17 DEF AgentCloses
  <2> QED
    BY <1>17, <2>1, <1>1, <1>2, StageTyped, CloseFacts, CloseSets DEF AgentCloses, TypeOK, ends
<1>18. CASE AgentConnects
  BY <1>18, <1>1, StartTyped DEF AgentConnects, TypeOK, streams, ends
<1>19. CASE AgentLocalFails
  <2>1. Close({<<3, "down">>}) /\ Goes("agent", "local", "done")
    BY <1>19 DEF AgentLocalFails
  <2> QED
    BY <1>19, <2>1, <1>1, <1>2, StageTyped, CloseFacts, CloseSets
    DEF AgentLocalFails, TypeOK, ends
<1>20. ASSUME NEW p \in Pipes, NEW x \in Dir, Copy(p, x) PROVE TypeOK'
  <2>1. buf' \in [Stream -> Seq(Item)]
    <3>1. Src(p, x) \in Stream /\ Dst(p, x) \in Stream /\ Src(p, x) # Dst(p, x)
      BY PlaceFacts
    <3>2. /\ buf[Src(p, x)] # <<>>
          /\ buf' = [buf EXCEPT ![Src(p, x)] = Tail(@),
                                ![Dst(p, x)] = Append(@, Head(buf[Src(p, x)]))]
      BY <1>20 DEF Copy
    <3>3. Tail(buf[Src(p, x)]) \in Seq(Item) /\ Head(buf[Src(p, x)]) \in Item
      BY <3>1, <3>2, <1>3, SeqFacts, <1>2
    <3>4. Append(buf[Dst(p, x)], Head(buf[Src(p, x)])) \in Seq(Item)
      BY <3>1, <3>3, <1>3, SeqFacts
    <3> QED
      BY <3>1, <3>2, <3>3, <3>4, <1>2 DEF TypeOK
  <2> QED
    BY <1>20, <2>1, <1>2 DEF Copy, TypeOK, ends
<1>21. ASSUME NEW p \in Pipes, NEW x \in Dir, CopyLost(p, x) PROVE TypeOK'
  <2>1. Dst(p, x)[1] \in Hop
    BY PlaceFacts DEF Stream
  <2>2. PICK reset \in SUBSET {Dst(p, x)[1]} :
            /\ broken' = broken \cup reset
            /\ buf' = [s \in Stream |->
                  CASE s = Src(p, x) -> Tail(buf[s])
                    [] s[1] \in reset -> <<>>
                    [] OTHER -> buf[s]]
    BY <1>21 DEF CopyLost
  <2>3. \A s \in Stream : buf'[s] \in Seq(Item)
    BY <1>21, <2>2, <1>3, SeqFacts DEF CopyLost
  <2>4. buf' \in [Stream -> Seq(Item)]
    BY <2>2, <2>3
  <2> QED
    BY <1>21, <2>1, <2>2, <2>4, <1>2 DEF CopyLost, TypeOK, ends
<1>22. ASSUME NEW p \in Pipes, NEW x \in Dir, FlowEnds(p, x) PROVE TypeOK'
  BY <1>22, PlaceFacts DEF FlowEnds, TypeOK, ends
<1>23. ASSUME NEW p \in Pipes, PipeReturns(p) PROVE TypeOK'
  <2>1. /\ Close({<<Near[p], "down">>, <<Near[p] + 1, "up">>}) /\ Goes(p, "piping", "done")
        /\ \A x \in Dir : <<p, x>> \notin flows
    BY <1>23 DEF PipeReturns
  <2> QED
    BY <1>23, <2>1, <1>1, <1>2, StageTyped, CloseFacts, CloseSets DEF PipeReturns, TypeOK, ends
<1>24. ASSUME NEW x \in Dir, Sends(x) PROVE TypeOK'
  <2>1. buf' \in [Stream -> Seq(Item)]
    BY <1>24, <1>3, <1>2, SeqFacts, EdgeFacts, PathFacts DEF Sends, TypeOK, Item
  <2> QED
    BY <1>24, <2>1, <1>2 DEF Sends, TypeOK
<1>25. ASSUME NEW x \in Dir, Finishes(x) PROVE TypeOK'
  <2>1. Entry(x) \in Stream
    BY CloseSets
  <2> QED
    BY <1>25, <2>1 DEF Finishes, TypeOK, ends
<1>26. ASSUME NEW x \in Dir, Leaves(x) PROVE TypeOK'
  <2>1. Close({Entry(x)})
    BY <1>26 DEF Leaves
  <2> QED
    BY <1>26, <2>1, <1>2, CloseFacts, CloseSets DEF Leaves, TypeOK, ends
<1>27. ASSUME NEW x \in Dir, Gets(x) PROVE TypeOK'
  <2>1. buf' \in [Stream -> Seq(Item)]
    BY <1>27, <1>3, <1>2, SeqFacts, EdgeFacts, PathFacts DEF Gets, TypeOK
  <2> QED
    BY <1>27, <2>1, <1>2 DEF Gets, TypeOK
<1>28. ASSUME NEW x \in Dir, SeesEnd(x) PROVE TypeOK'
  BY <1>28 DEF SeesEnd, TypeOK, streams
<1>29. ASSUME NEW h \in {2, 3}, Breaks(h) PROVE TypeOK'
  <2>1. buf' \in [Stream -> Seq(Item)]
    BY <1>29, <1>3, <1>2 DEF Breaks, TypeOK
  <2>2. h \in Hop /\ breaks' \in 0..MaxBreaks
    BY <1>29, BoundsNat DEF Breaks, TypeOK, Hop
  <2> QED
    BY <1>29, <2>1, <2>2, <1>2 DEF Breaks, TypeOK
<1>30. CASE UNCHANGED vars
  BY <1>30 DEF vars, TypeOK
<1> QED
  BY <1>4, <1>5, <1>6, <1>7, <1>8, <1>9, <1>10, <1>11, <1>12, <1>13, <1>14, <1>15, <1>16,
    <1>17, <1>18, <1>19, <1>20, <1>21, <1>22, <1>23, <1>24, <1>25, <1>26, <1>27, <1>28,
    <1>29, <1>30
  DEF Next, ClientAck, RelayAck, Accept, AgentAnswers, AgentBridges

\* Every step keeps the processes in step.
LEMMA StageStep == IInv /\ [Next]_vars => StageInv'
<1> SUFFICES ASSUME IInv, [Next]_vars PROVE StageInv'
  OBVIOUS
<1> USE DEF IInv, StageInv, TypeOK, Pipes
<1>1. CASE ClientDials
  BY <1>1 DEF ClientDials, Goes
<1>2. CASE ClientDialFails
  BY <1>2 DEF ClientDialFails, Goes
<1>3. CASE ClientConnected
  <2>1. ~(ackDue \/ stage["relay"] = "idle")
    <3>1. buf[<<2, "down">>] \in Seq(Item)
      BY DEF Item, Stream, Hop, Dir
    <3> QED
      BY <1>3, <3>1, SeqFacts DEF ClientConnected, FrameInv, HasFrame, Item
  <2> QED
    BY <1>3, <2>1 DEF ClientConnected, Goes, StartPipe
<1>4. CASE ClientGivesUp
  BY <1>4 DEF ClientGivesUp, Goes
<1>5. CASE RelayRefuses
  BY <1>5 DEF RelayRefuses, Goes
<1>6. CASE RelayParks
  BY <1>6 DEF RelayParks, Goes, Asked
<1>7. CASE RelayAcks
  BY <1>7 DEF RelayAcks, Goes
<1>8. CASE RelayAckFails
  BY <1>8 DEF RelayAckFails, Goes
<1>9. CASE RelayReaps
  BY <1>9 DEF RelayReaps, Goes
<1>10. CASE RelayPairs
  BY <1>10 DEF RelayPairs, Goes, StartPipe
<1>11. CASE RelayTurnsAway
  BY <1>11 DEF RelayTurnsAway, Goes
<1>12. CASE AgentDials
  BY <1>12 DEF AgentDials, Goes
<1>13. CASE AgentDialFails
  BY <1>13 DEF AgentDialFails, Goes
<1>14. CASE AgentCloses
  BY <1>14 DEF AgentCloses, Goes
<1>15. CASE AgentConnects
  BY <1>15 DEF AgentConnects, Goes, StartPipe
<1>16. CASE AgentLocalFails
  BY <1>16 DEF AgentLocalFails, Goes
<1>17. ASSUME NEW p \in Pipes, PipeReturns(p) PROVE StageInv'
  BY <1>17 DEF PipeReturns, Goes
<1>18. CASE UNCHANGED <<stage, ran, ackDue, dialled>>
  BY <1>18
<1>19. ASSUME NEW p \in Pipes, NEW x \in Dir, Copy(p, x) \/ CopyLost(p, x) \/ FlowEnds(p, x)
       PROVE  StageInv'
  BY <1>18, <1>19 DEF Copy, CopyLost, FlowEnds
<1>20. ASSUME NEW x \in Dir, Sends(x) \/ Finishes(x) \/ Leaves(x) \/ Gets(x) \/ SeesEnd(x)
       PROVE  StageInv'
  BY <1>18, <1>20 DEF Sends, Finishes, Leaves, Gets, SeesEnd
<1>21. ASSUME NEW h \in {2, 3}, Breaks(h) PROVE StageInv'
  BY <1>18, <1>21 DEF Breaks
<1>22. CASE UNCHANGED vars
  BY <1>18, <1>22 DEF vars
<1> QED
  BY <1>1, <1>2, <1>3, <1>4, <1>5, <1>6, <1>7, <1>8, <1>9, <1>10, <1>11, <1>12, <1>13,
    <1>14, <1>15, <1>16, <1>17, <1>19, <1>20, <1>21, <1>22
  DEF Next, ClientAck, RelayAck, Accept, AgentAnswers, AgentBridges

\* No step but the relay's puts an ok into a stream that had none.
LEMMA OkStep ==
    ASSUME IInv, [Next]_vars, ~RelayAcks, NEW k \in 2..4, Has(buf'[<<k, "down">>], "ok")
    PROVE  Has(buf[<<k, "down">>], "ok")
<1> DEFINE s == <<k, "down">>
<1> USE DEF IInv
<1>1. s \in Stream /\ buf[s] \in Seq(Item) /\ \A t \in Stream : buf[t] \in Seq(Item)
  BY DEF TypeOK, Stream, Hop, Dir, Item
<1>2. ~Has(<<>>, "ok") /\ "data" \in Item /\ "nak" \in Item
  BY DEF Has, Item
<1>3. CASE buf'[s] = buf[s] \/ buf'[s] = <<>>
  BY <1>2, <1>3
<1>4. CASE buf[s] # <<>> /\ buf'[s] = Tail(buf[s])
  BY <1>4, <1>1, SeqFacts
<1>5. ASSUME NEW m \in Item, m # "ok", buf'[s] = Append(buf[s], m)
      PROVE  Has(buf[s], "ok")
  BY <1>5, <1>1, SeqFacts
<1>6. CASE UNCHANGED buf
  BY <1>3, <1>6
<1>7. ASSUME NEW S \in SUBSET Stream, Close(S) PROVE Has(buf[s], "ok")
  BY <1>3, <1>7, <1>1, CloseFacts
<1>8. CASE ClientDials \/ RelayParks \/ RelayPairs \/ AgentDials \/ AgentDialFails \/ AgentConnects
  BY <1>6, <1>8
  DEF ClientDials, RelayParks, RelayPairs, AgentDials, AgentDialFails, AgentConnects, streams
<1>9. CASE ClientDialFails \/ ClientGivesUp \/ RelayAckFails \/ RelayReaps \/ RelayTurnsAway
           \/ AgentCloses \/ AgentLocalFails
  BY <1>7, <1>9, CloseSets
  DEF ClientDialFails, ClientGivesUp, RelayAckFails, RelayReaps, RelayTurnsAway, AgentCloses,
      AgentLocalFails
<1>10. CASE ClientConnected
  <2>1. /\ buf[<<2, "down">>] # <<>>
        /\ buf' = [buf EXCEPT ![<<2, "down">>] = Tail(@)]
    BY <1>10 DEF ClientConnected, HasFrame
  <2>2. buf'[s] = buf[s] \/ (s = <<2, "down">> /\ buf'[s] = Tail(buf[s]))
    BY <2>1, <1>1 DEF TypeOK
  <2> QED
    BY <1>3, <1>4, <2>1, <2>2
<1>11. CASE RelayRefuses
  <2>1. buf'[s] = buf[s] \/ buf'[s] = Append(buf[s], "nak")
    BY <1>11, <1>1 DEF RelayRefuses, TypeOK, Written
  <2> QED
    BY <1>3, <1>5, <1>2, <2>1
<1>12. ASSUME NEW p \in Pipes, NEW x \in Dir, Copy(p, x) PROVE Has(buf[s], "ok")
  <2>1. /\ buf[Src(p, x)] # <<>>
        /\ buf' = [buf EXCEPT ![Src(p, x)] = Tail(@),
                              ![Dst(p, x)] = Append(@, Head(buf[Src(p, x)]))]
    BY <1>12 DEF Copy
  <2>2. CASE s = Dst(p, x)
    <3>1. Src(p, x) \in {<<3, "down">>, <<4, "down">>}
      BY <2>2 DEF Src, Dst, Pipes, Near, Dir
    <3>2. Head(buf[Src(p, x)]) \in Item /\ Has(buf[Src(p, x)], Head(buf[Src(p, x)]))
      BY <2>1, <1>1, SeqFacts, PlaceFacts
    <3>3. Head(buf[Src(p, x)]) # "ok"
      BY <3>1, <3>2 DEF FrameInv
    <3>4. buf'[s] = Append(buf[s], Head(buf[Src(p, x)]))
      BY <2>1, <2>2, <1>1, PlaceFacts DEF TypeOK
    <3> QED
      BY <1>5, <3>2, <3>3, <3>4
  <2>3. CASE s # Dst(p, x)
    <3>1. buf'[s] = buf[s] \/ (s = Src(p, x) /\ buf'[s] = Tail(buf[s]))
      BY <2>1, <2>3, <1>1, PlaceFacts DEF TypeOK
    <3> QED
      BY <1>3, <1>4, <2>1, <3>1
  <2> QED
    BY <2>2, <2>3
<1>13. ASSUME NEW p \in Pipes, NEW x \in Dir, CopyLost(p, x) PROVE Has(buf[s], "ok")
  <2>1. /\ buf[Src(p, x)] # <<>>
        /\ buf'[s] = buf[s] \/ buf'[s] = <<>> \/ (s = Src(p, x) /\ buf'[s] = Tail(buf[s]))
    BY <1>13, <1>1 DEF CopyLost
  <2> QED
    BY <1>3, <1>4, <2>1
<1>14. ASSUME NEW p \in Pipes, NEW x \in Dir, FlowEnds(p, x) PROVE Has(buf[s], "ok")
  BY <1>6, <1>14 DEF FlowEnds
<1>15. ASSUME NEW p \in Pipes, PipeReturns(p) PROVE Has(buf[s], "ok")
  BY <1>7, <1>15, CloseSets DEF PipeReturns
<1>16. ASSUME NEW x \in Dir, Sends(x) PROVE Has(buf[s], "ok")
  <2>1. buf'[s] = buf[s] \/ buf'[s] = Append(buf[s], "data")
    BY <1>16, <1>1 DEF Sends, TypeOK
  <2> QED
    BY <1>3, <1>5, <1>2, <2>1
<1>17. ASSUME NEW x \in Dir, Finishes(x) \/ SeesEnd(x) PROVE Has(buf[s], "ok")
  BY <1>6, <1>17 DEF Finishes, SeesEnd, streams
<1>18. ASSUME NEW x \in Dir, Leaves(x) PROVE Has(buf[s], "ok")
  BY <1>7, <1>18, CloseSets DEF Leaves
<1>19. ASSUME NEW x \in Dir, Gets(x) PROVE Has(buf[s], "ok")
  <2>1. /\ buf[Exit(x)] # <<>>
        /\ buf'[s] = buf[s] \/ (s = Exit(x) /\ buf'[s] = Tail(buf[s]))
    BY <1>19, <1>1 DEF Gets, TypeOK
  <2> QED
    BY <1>3, <1>4, <2>1
<1>20. ASSUME NEW h \in {2, 3}, Breaks(h) PROVE Has(buf[s], "ok")
  BY <1>3, <1>20, <1>1 DEF Breaks
<1>21. CASE UNCHANGED vars
  BY <1>6, <1>21 DEF vars
<1> QED
  BY <1>8, <1>9, <1>10, <1>11, <1>12, <1>13, <1>14, <1>15, <1>16, <1>17, <1>18, <1>19,
    <1>20, <1>21
  DEF Next, ClientAck, RelayAck, Accept, AgentAnswers, AgentBridges

\* What has ended has ended: a broken connection, a process that gave up, and the
\* time before the ack.
LEMMA GoesOn ==
    ASSUME IInv, [Next]_vars
    PROVE  /\ ackDue' \/ stage'["relay"] = "idle" => ackDue \/ stage["relay"] = "idle"
           /\ broken \subseteq broken'
           /\ \A p \in Pipes :
                 stage[p] \in {"done", "failed"} /\ p \notin ran =>
                     stage'[p] \in {"done", "failed"} /\ p \notin ran'
           /\ "client" \in ran' => "client" \in ran \/ Has(buf[<<2, "down">>], "ok")
<1> DEFINE Goal ==
      /\ ackDue' \/ stage'["relay"] = "idle" => ackDue \/ stage["relay"] = "idle"
      /\ broken \subseteq broken'
      /\ \A p \in Pipes :
            stage[p] \in {"done", "failed"} /\ p \notin ran =>
                stage'[p] \in {"done", "failed"} /\ p \notin ran'
      /\ "client" \in ran' => "client" \in ran \/ Has(buf[<<2, "down">>], "ok")
<1>0. TypeOK /\ StageInv
  BY DEF IInv
<1>1. stage \in [Pipes -> Stage] /\ Pipes = {"client", "relay", "agent"}
  BY <1>0 DEF TypeOK, Pipes
<1>2. \A S \in SUBSET Stream : Close(S) => broken \subseteq broken'
  BY <1>0, CloseFacts
<1>3. CASE ClientDialFails
  <2>1. broken \subseteq broken'
    BY <1>3, <1>2, CloseSets DEF ClientDialFails
  <2> QED
    BY <1>3, <2>1, <1>1 DEF ClientDialFails, Goes
<1>4. CASE ClientGivesUp
  <2>1. broken \subseteq broken'
    BY <1>4, <1>2, CloseSets DEF ClientGivesUp
  <2> QED
    BY <1>4, <2>1, <1>1 DEF ClientGivesUp, Goes
<1>5. CASE RelayAckFails
  <2>1. broken \subseteq broken'
    BY <1>5, <1>2, CloseSets DEF RelayAckFails
  <2> QED
    BY <1>5, <2>1, <1>1 DEF RelayAckFails, Goes
<1>6. CASE RelayReaps
  <2>1. broken \subseteq broken'
    BY <1>6, <1>2, CloseSets DEF RelayReaps
  <2> QED
    BY <1>6, <2>1, <1>1 DEF RelayReaps, Goes
<1>7. CASE RelayTurnsAway
  <2>1. broken \subseteq broken'
    BY <1>7, <1>2, CloseSets DEF RelayTurnsAway
  <2> QED
    BY <1>7, <2>1, <1>1 DEF RelayTurnsAway, Goes
<1>8. CASE AgentCloses
  <2>1. broken \subseteq broken'
    BY <1>8, <1>2, CloseSets DEF AgentCloses
  <2> QED
    BY <1>8, <2>1, <1>1 DEF AgentCloses, Goes
<1>9. CASE AgentLocalFails
  <2>1. broken \subseteq broken'
    BY <1>9, <1>2, CloseSets DEF AgentLocalFails
  <2> QED
    BY <1>9, <2>1, <1>1 DEF AgentLocalFails, Goes
<1>10. CASE ClientDials
  BY <1>10, <1>1 DEF ClientDials, Goes, StartPipe, streams
<1>11. CASE ClientConnected
  <2>1. Has(buf[<<2, "down">>], "ok")
    <3>1. buf[<<2, "down">>] \in Seq(Item)
      BY <1>0 DEF TypeOK, Item, Stream, Hop, Dir
    <3> QED
      BY <1>11, <3>1, SeqFacts DEF ClientConnected, HasFrame, Item
  <2> QED
    BY <1>11, <2>1, <1>1 DEF ClientConnected, Goes, StartPipe, ends
<1>12. CASE RelayRefuses
  BY <1>12, <1>1 DEF RelayRefuses, Goes, StartPipe, streams
<1>13. CASE RelayParks
  BY <1>13, <1>0, <1>1 DEF RelayParks, StageInv, streams
<1>14. CASE RelayAcks
  BY <1>14, <1>1 DEF RelayAcks, Goes, StartPipe, streams
<1>15. CASE RelayPairs
  BY <1>15, <1>1 DEF RelayPairs, Goes, StartPipe, streams
<1>16. CASE AgentDials
  BY <1>16, <1>1 DEF AgentDials, Goes, StartPipe, streams
<1>17. CASE AgentDialFails
  BY <1>17, <1>1 DEF AgentDialFails, Goes, StartPipe, streams
<1>18. CASE AgentConnects
  BY <1>18, <1>1 DEF AgentConnects, Goes, StartPipe, streams
<1>19. ASSUME UNCHANGED <<stage, ran, ackDue>>, broken \subseteq broken' PROVE Goal
  BY <1>19
<1>20. ASSUME NEW p \in Pipes, NEW x \in Dir, Copy(p, x) \/ CopyLost(p, x) \/ FlowEnds(p, x)
      PROVE  Goal
  BY <1>20, <1>19 DEF Copy, CopyLost, FlowEnds
<1>21. ASSUME NEW p \in Pipes, PipeReturns(p) PROVE Goal
  <2>1. broken \subseteq broken'
    BY <1>21, <1>2, CloseSets DEF PipeReturns
  <2> QED
    BY <1>21, <2>1, <1>1 DEF PipeReturns, Goes
<1>22. ASSUME NEW x \in Dir, Sends(x) \/ Finishes(x) \/ Gets(x) \/ SeesEnd(x) PROVE Goal
  BY <1>22, <1>19 DEF Sends, Finishes, Gets, SeesEnd, streams
<1>23. ASSUME NEW x \in Dir, Leaves(x) PROVE Goal
  BY <1>23, <1>19, <1>2, CloseSets DEF Leaves
<1>24. ASSUME NEW h \in {2, 3}, Breaks(h) PROVE Goal
  BY <1>24, <1>19 DEF Breaks
<1>25. CASE UNCHANGED vars
  BY <1>25, <1>19 DEF vars
<1> QED
  BY <1>3, <1>4, <1>5, <1>6, <1>7, <1>8, <1>9, <1>10, <1>11, <1>12, <1>13, <1>14,
    <1>15, <1>16, <1>17, <1>18, <1>20, <1>21, <1>22, <1>23, <1>24, <1>25
  DEF Next, ClientAck, RelayAck, Accept, AgentAnswers, AgentBridges

\* Every step keeps the frames where they belong.
LEMMA FrameStep == IInv /\ [Next]_vars => FrameInv'
<1> SUFFICES ASSUME IInv, [Next]_vars PROVE FrameInv'
  OBVIOUS
<1>1. CASE ~RelayAcks
  <2>1. \A k \in 2..4 : Has(buf'[<<k, "down">>], "ok") => Has(buf[<<k, "down">>], "ok")
    BY <1>1, OkStep
  <2> QED
    BY <2>1, GoesOn DEF FrameInv, IInv
<1>2. CASE RelayAcks
  <2>1. /\ ackDue /\ ~ackDue' /\ stage' = stage
        /\ buf' = [buf EXCEPT ![<<2, "down">>] = Written(<<2, "down">>, "ok")]
    BY <1>2 DEF RelayAcks
  <2>2. stage["relay"] # "idle"
    BY <2>1 DEF IInv, StageInv
  <2> QED
    BY <2>1, <2>2 DEF FrameInv, IInv, TypeOK, Stream, Hop, Dir
<1> QED
  BY <1>1, <1>2

\* A session that is whole was so before.
LEMMA WholeStep == IInv /\ [Next]_vars /\ Whole' => Whole
<1> SUFFICES ASSUME IInv, [Next]_vars, Whole' PROVE Whole
  OBVIOUS
<1>1. broken = {} /\ \A p \in Pipes : stage[p] \in {"done", "failed"} => p \in ran
  BY GoesOn DEF Whole
<1>2. ASSUME ~(ackDue \/ stage["relay"] = "idle") PROVE "client" \in ran \/ Has(buf[<<2, "down">>], "ok")
  <2>1. ~RelayAcks
    BY <1>2 DEF RelayAcks
  <2>2. "client" \in ran' \/ Has(buf'[<<2, "down">>], "ok")
    BY <1>2, GoesOn DEF Whole
  <2> QED
    BY <2>1, <2>2, GoesOn, OkStep
<1> QED
  BY <1>1, <1>2 DEF Whole

------------------------------------------------------------------------------
(* Copies and what they have carried *)

\* The steps that keep a session whole.
Onward ==
    \/ ClientDials \/ ClientConnected
    \/ RelayParks \/ RelayAcks \/ RelayPairs \/ AgentDials \/ AgentConnects
    \/ \E p \in Pipes, x \in Dir : Copy(p, x) \/ CopyLost(p, x) \/ FlowEnds(p, x)
    \/ \E p \in Pipes : PipeReturns(p)
    \/ \E x \in Dir : Sends(x) \/ Finishes(x) \/ Leaves(x) \/ Gets(x) \/ SeesEnd(x)
    \/ UNCHANGED vars

\* No other step leaves a session whole.
LEMMA OnwardStep == IInv /\ [Next]_vars /\ Whole' => Onward
<1> SUFFICES ASSUME IInv, [Next]_vars, Whole' PROVE Onward
  OBVIOUS
<1>1. TypeOK /\ StageInv
  BY DEF IInv
<1>2. \A p \in Pipes : stage'[p] \in {"done", "failed"} => p \in ran'
  BY DEF Whole
<1>3. stage \in [Pipes -> Stage] /\ Pipes = {"client", "relay", "agent"}
  BY <1>1 DEF TypeOK, Pipes
<1>4. ASSUME ClientDialFails PROVE FALSE
  BY <1>4, <1>1, <1>2, <1>3 DEF ClientDialFails, Goes, StageInv
<1>5. ASSUME ClientGivesUp PROVE FALSE
  BY <1>5, <1>1, <1>2, <1>3 DEF ClientGivesUp, Goes, StageInv
<1>6. ASSUME RelayRefuses PROVE FALSE
  BY <1>6, <1>1, <1>2, <1>3 DEF RelayRefuses, Goes, StageInv
<1>7. ASSUME RelayReaps PROVE FALSE
  BY <1>7, <1>1, <1>2, <1>3 DEF RelayReaps, Goes, StageInv
<1>8. ASSUME AgentDialFails PROVE FALSE
  BY <1>8, <1>1, <1>2, <1>3 DEF AgentDialFails, Goes, StageInv
<1>9. ASSUME AgentCloses PROVE FALSE
  BY <1>9, <1>1, <1>2, <1>3 DEF AgentCloses, Goes, StageInv
<1>10. ASSUME AgentLocalFails PROVE FALSE
  BY <1>10, <1>1, <1>2, <1>3 DEF AgentLocalFails, Goes, StageInv
<1>11. ASSUME RelayTurnsAway PROVE FALSE
  BY <1>11, <1>1, <1>2, <1>3 DEF RelayTurnsAway, StageInv
<1>12. ASSUME RelayAckFails PROVE FALSE
  <2>1. /\ ackDue /\ ~ackDue' /\ ran' = ran
        /\ stage' = [stage EXCEPT !["relay"] = IF @ = "parked" THEN "done" ELSE @]
    BY <1>12 DEF RelayAckFails
  <2>2. "client" \notin ran /\ stage["relay"] # "idle" /\ ~Has(buf[<<2, "down">>], "ok")
    <3>1. "client" \notin ran /\ stage["relay"] # "idle"
      BY <2>1, <1>1 DEF StageInv
    <3>2. ~Has(buf[<<2, "down">>], "ok")
      BY <2>1 DEF IInv, FrameInv
    <3> QED
      BY <3>1, <3>2
  <2>3. stage'["relay"] # "idle"
    BY <2>1, <2>2, <1>3
  <2>4. Has(buf'[<<2, "down">>], "ok")
    BY <1>12, <2>2, <2>3 DEF Whole, RelayAckFails
  <2>5. ~RelayAcks
    <3>1. <<2, "down">> \in fin' /\ {<<2, "down">>} \subseteq Stream
      BY <1>12, <1>1, CloseFacts, CloseSets DEF RelayAckFails
    <3> QED
      BY <3>1 DEF RelayAcks
  <2> QED
    BY <2>2, <2>4, <2>5, OkStep
<1>13. ASSUME NEW h \in {2, 3}, Breaks(h) PROVE FALSE
  BY <1>13 DEF Breaks, Whole
<1> QED
  BY <1>4, <1>5, <1>6, <1>7, <1>8, <1>9, <1>10, <1>11, <1>12, <1>13
  DEF Onward, Next, ClientAck, RelayAck, Accept, AgentAnswers, AgentBridges

\* A close that breaks nothing, of streams that are known.
LEMMA PipeCloses ==
    ASSUME IInv, Whole', NEW p \in Pipes, PipeReturns(p)
    PROVE  /\ fin' = fin \cup {Dst(p, x) : x \in Dir}
           /\ shut' = shut \cup {Src(p, x) : x \in Dir}
           /\ buf' = [s \in Stream |-> IF \E x \in Dir : s = Src(p, x) THEN <<>> ELSE buf[s]]
           /\ \A x \in Dir : <<p, x>> \notin flows
           /\ p \in ran /\ UNCHANGED <<ran, flows, ackDue, dialled, ends>>
           /\ stage["relay"] = "idle" <=> stage'["relay"] = "idle"
<1> DEFINE S == {<<Near[p], "down">>, <<Near[p] + 1, "up">>}
<1>1. /\ Goes(p, "piping", "done") /\ Close(S) /\ \A x \in Dir : <<p, x>> \notin flows
      /\ UNCHANGED <<ran, flows, ackDue, dialled, ends>>
  BY DEF PipeReturns
<1>2. S \in SUBSET Stream /\ TypeOK /\ broken' = {}
  BY CloseSets DEF IInv, Whole
<1>3. S = {Dst(p, x) : x \in Dir}
  BY DEF Dst, Dir, Pipes, Near
<1>4. {Back(s) : s \in S} = {Src(p, x) : x \in Dir}
  BY DEF Back, Src, Dir, Pipes, Near
<1>5. \A s \in Stream : Back(s) \in S <=> \E x \in Dir : s = Src(p, x)
  BY DEF Stream, Hop, Dir, Back, Src, Pipes, Near
<1>6. /\ fin' = fin \cup S /\ shut' = shut \cup {Back(s) : s \in S}
      /\ buf' = [s \in Stream |-> IF Back(s) \in S THEN <<>> ELSE buf[s]]
  BY <1>1, <1>2, CloseFacts
<1>7. p \in ran /\ (stage["relay"] = "idle" <=> stage'["relay"] = "idle")
  BY <1>1 DEF Goes, IInv, StageInv, TypeOK
<1> HIDE DEF S
<1> QED
  BY <1>1, <1>3, <1>4, <1>5, <1>6, <1>7

\* What the user or the service does to the streams when it leaves.
LEMMA EndCloses ==
    ASSUME IInv, Whole', NEW x \in Dir, Leaves(x), NEW y \in Dir, y # x
    PROVE  /\ fin' = fin \cup {Path(x, 1)}
           /\ shut' = shut \cup {Path(y, 4)}
           /\ buf' = [s \in Stream |-> IF s = Path(y, 4) THEN <<>> ELSE buf[s]]
           /\ UNCHANGED <<stage, ran, flows, ackDue, dialled, ends>>
<1>1. Close({Path(x, 1)}) /\ {Path(x, 1)} \in SUBSET Stream /\ TypeOK /\ broken' = {}
  BY CloseSets, EdgeFacts DEF Leaves, IInv, Whole
<1>2. {Back(s) : s \in {Path(x, 1)}} = {Path(y, 4)}
  BY DEF Back, Path, Dir
<1>3. \A s \in Stream : Back(s) \in {Path(x, 1)} <=> s = Path(y, 4)
  BY DEF Back, Path, Dir, Stream, Hop
<1>4. /\ fin' = fin \cup {Path(x, 1)} /\ shut' = shut \cup {Back(s) : s \in {Path(x, 1)}}
      /\ buf' = [s \in Stream |-> IF Back(s) \in {Path(x, 1)} THEN <<>> ELSE buf[s]]
  BY <1>1, CloseFacts
<1> QED
  BY <1>2, <1>3, <1>4 DEF Leaves

\* Every step leaves each stream to the copy that writes it.
LEMMA FlowStep == IInv /\ [Next]_vars => FlowInv'
<1> SUFFICES ASSUME IInv, [Next]_vars, Whole',
                    NEW q \in Pipes, NEW y \in Dir
             PROVE  /\ q \notin ran' \/ <<q, y>> \in flows' =>
                          Src(q, y) \notin shut' /\ Dst(q, y) \notin fin'
                    /\ q \in ran' /\ <<q, y>> \notin flows' => Dst(q, y) \in fin'
  BY DEF FlowInv
<1> DEFINE Goal ==
      /\ q \notin ran' \/ <<q, y>> \in flows' =>
            Src(q, y) \notin shut' /\ Dst(q, y) \notin fin'
      /\ q \in ran' /\ <<q, y>> \notin flows' => Dst(q, y) \in fin'
<1>1. /\ q \notin ran \/ <<q, y>> \in flows => Src(q, y) \notin shut /\ Dst(q, y) \notin fin
      /\ q \in ran /\ <<q, y>> \notin flows => Dst(q, y) \in fin
  BY WholeStep DEF IInv, FlowInv
<1>2. CASE UNCHANGED <<ran, flows, fin, shut>>
  BY <1>1, <1>2
<1>3. CASE ClientDials \/ RelayParks \/ RelayAcks \/ AgentDials
  BY <1>2, <1>3 DEF ClientDials, RelayParks, RelayAcks, AgentDials, streams
<1>4. ASSUME NEW p \in Pipes, p \notin ran, StartPipe(p), UNCHANGED <<fin, shut>> PROVE Goal
  BY <1>1, <1>4 DEF StartPipe
<1>5. CASE ClientConnected \/ RelayPairs \/ AgentConnects
  <2>1. PICK p \in Pipes : stage[p] \in {"ack", "parked", "local"} /\ StartPipe(p)
    BY <1>5 DEF ClientConnected, RelayPairs, AgentConnects, Goes, Pipes
  <2>2. p \notin ran
    BY <2>1 DEF IInv, StageInv
  <2> QED
    BY <1>4, <1>5, <2>1, <2>2 DEF ClientConnected, RelayPairs, AgentConnects, streams
<1>6. ASSUME NEW p \in Pipes, NEW x \in Dir, Copy(p, x) \/ CopyLost(p, x) PROVE Goal
  BY <1>2, <1>6 DEF Copy, CopyLost
<1>7. ASSUME NEW p \in Pipes, NEW x \in Dir, FlowEnds(p, x) PROVE Goal
  <2>1. p \in ran
    BY <1>7 DEF FlowEnds, IInv, TypeOK, StageInv
  <2>2. CASE q = p /\ y = x
    BY <1>1, <1>7, <2>1, <2>2 DEF FlowEnds
  <2>3. CASE ~(q = p /\ y = x)
    <3>1. <<q, y>> # <<p, x>> /\ Dst(q, y) # Dst(p, x)
      BY <2>3, PlacesDiffer
    <3> QED
      BY <1>1, <1>7, <3>1 DEF FlowEnds
  <2> QED
    BY <2>2, <2>3
<1>8. ASSUME NEW p \in Pipes, PipeReturns(p) PROVE Goal
  <2>1. CASE q = p
    BY <1>1, <1>8, <2>1, PipeCloses
  <2>2. CASE q # p
    BY <1>1, <1>8, <2>2, PipeCloses, PlacesDiffer
  <2> QED
    BY <2>1, <2>2
<1>9. ASSUME NEW x \in Dir, Sends(x) \/ Gets(x) \/ SeesEnd(x) PROVE Goal
  BY <1>2, <1>9 DEF Sends, Gets, SeesEnd, streams
<1>10. ASSUME NEW x \in Dir, Finishes(x) PROVE Goal
  BY <1>1, <1>10, EdgeFacts DEF Finishes
<1>11. ASSUME NEW x \in Dir, Leaves(x) PROVE Goal
  <2>1. PICK z \in Dir : z # x
    BY DEF Dir
  <2>2. /\ fin' = fin \cup {Path(x, 1)} /\ shut' = shut \cup {Path(z, 4)}
        /\ UNCHANGED <<ran, flows>>
    BY <1>11, <2>1, EndCloses
  <2>3. Path(x, 1) # Dst(q, y) /\ Path(z, 4) # Src(q, y)
    BY EdgeFacts
  <2> QED
    BY <1>1, <2>2, <2>3
<1>12. CASE UNCHANGED vars
  BY <1>2, <1>12 DEF vars
<1> QED
  BY <1>3, <1>5, <1>6, <1>7, <1>8, <1>9, <1>10, <1>11, <1>12, OnwardStep DEF Onward

Loads == [Dir -> [1..4 -> Nat]]

\* How the sum of the loads follows the loads.
LEMMA AheadFacts ==
    ASSUME NEW L \in Loads, NEW M \in Loads, NEW x \in Dir, NEW k \in 1..4
    PROVE  /\ Ahead(L, x, k) \in Nat
           /\ (\A j \in k..4 : M[x][j] = L[x][j]) => Ahead(M, x, k) = Ahead(L, x, k)
           /\ \A r \in 1..4 :
                 M[x][r] = L[x][r] + 1 /\ (\A j \in 1..4 : j # r => M[x][j] = L[x][j]) =>
                     Ahead(M, x, k) = IF k <= r THEN Ahead(L, x, k) + 1 ELSE Ahead(L, x, k)
           /\ \A r \in 1..3 :
                 /\ M[x][r] + 1 = L[x][r] /\ M[x][r + 1] = L[x][r + 1] + 1
                 /\ \A j \in 1..4 : j \notin {r, r + 1} => M[x][j] = L[x][j]
                 /\ k # r + 1
                 => Ahead(M, x, k) = Ahead(L, x, k)
<1>1. /\ \A j \in 1..4 : L[x][j] \in Nat /\ M[x][j] \in Nat
      /\ 1..4 = {1, 2, 3, 4} /\ 1..3 = {1, 2, 3}
  BY DEF Loads
<1>2. ASSUME \A j \in k..4 : M[x][j] = L[x][j] PROVE Ahead(M, x, k) = Ahead(L, x, k)
  <2>1. \A j \in 1..4 : k <= j => M[x][j] = L[x][j]
    BY <1>2
  <2> QED
    BY <1>1, <2>1 DEF Ahead
<1>3. ASSUME NEW r \in 1..4, M[x][r] = L[x][r] + 1, \A j \in 1..4 : j # r => M[x][j] = L[x][j]
      PROVE  Ahead(M, x, k) = IF k <= r THEN Ahead(L, x, k) + 1 ELSE Ahead(L, x, k)
  BY <1>1, <1>3 DEF Ahead
<1>4. ASSUME NEW r \in 1..3, M[x][r] + 1 = L[x][r], M[x][r + 1] = L[x][r + 1] + 1,
             \A j \in 1..4 : j \notin {r, r + 1} => M[x][j] = L[x][j], k # r + 1
      PROVE  Ahead(M, x, k) = Ahead(L, x, k)
  BY <1>1, <1>4 DEF Ahead
<1>5. Ahead(L, x, k) \in Nat
  BY <1>1 DEF Ahead
<1> QED
  BY <1>2, <1>3, <1>4, <1>5

\* Loads are numbers, and a load is the length of its stream.
LEMMA LoadFacts ==
    ASSUME TypeOK
    PROVE  /\ Load \in Loads
           /\ \A x \in Dir, k \in 1..4 :
                 /\ buf[Path(x, k)] \in Seq(Item)
                 /\ Load[x][k] = Len(buf[Path(x, k)])
                 /\ Load[x][k] = 0 <=> buf[Path(x, k)] = <<>>
<1>1. \A x \in Dir, k \in 1..4 : buf[Path(x, k)] \in Seq(Item)
  BY PathFacts DEF TypeOK, Item
<1> QED
  BY <1>1 DEF Load, Loads

\* The same in the next state.
LEMMA LoadFactsNext ==
    ASSUME TypeOK'
    PROVE  /\ Load' \in Loads
           /\ \A x \in Dir, k \in 1..4 :
                 /\ buf'[Path(x, k)] \in Seq(Item)
                 /\ Load'[x][k] = Len(buf'[Path(x, k)])
                 /\ Load'[x][k] = 0 <=> buf'[Path(x, k)] = <<>>
<1>1. \A x \in Dir, k \in 1..4 : buf'[Path(x, k)] \in Seq(Item)
  BY PathFacts DEF TypeOK, Item
<1> QED
  BY <1>1 DEF Load, Loads

\* The streams that a step leaves alone, if it changes one of direction x.
LEMMA OneStream ==
    ASSUME NEW x \in Dir, NEW r \in 1..4,
           \A s \in Stream : s # Path(x, r) => buf'[s] = buf[s]
    PROVE  \A y \in Dir, j \in 1..4 : y # x \/ j # r => buf'[Path(y, j)] = buf[Path(y, j)]
<1> SUFFICES ASSUME NEW y \in Dir, NEW j \in 1..4, y # x \/ j # r
             PROVE  buf'[Path(y, j)] = buf[Path(y, j)]
  OBVIOUS
<1>1. Path(y, j) \in Stream /\ Path(y, j) # Path(x, r)
  BY PathFacts
<1> QED
  BY <1>1

\* Who may still write the last stream has not shut it.
LEMMA LastOpen ==
    ASSUME IInv, Whole, NEW p \in Pipes, NEW x \in Dir, p \notin ran \/ <<p, x>> \in flows
    PROVE  /\ Src(p, x) \notin shut /\ Dst(p, x) \notin fin
           /\ Place(p, x) = 3 => x \notin seen
<1>1. Src(p, x) \notin shut /\ Dst(p, x) \notin fin
  BY DEF IInv, FlowInv
<1>2. Place(p, x) = 3 => Dst(p, x) = Path(x, 4)
  BY PlaceFacts
<1> QED
  BY <1>1, <1>2 DEF IInv, EndInv

\* Every step keeps the account of what is on its way.
LEMMA CountStep == IInv /\ [Next]_vars => CountInv'
<1> SUFFICES ASSUME IInv, [Next]_vars, Whole',
                    NEW y \in Dir, NEW k \in 1..4,
                    \A j \in k..4 : Path(y, j) \notin shut',
                    k # 1 => Path(y, k) \in fin'
             PROVE  /\ k # 1 => Path(y, 1) \in fin'
                    /\ got'[y] + Ahead(Load', y, k) = sent'[y] + Extra(Oks', y)
  BY DEF CountInv, Counted
<1> DEFINE Sum == got[y] + Ahead(Load, y, k) = sent[y] + Extra(Oks, y)
           Goal == /\ k # 1 => Path(y, 1) \in fin'
                   /\ got'[y] + Ahead(Load', y, k) = sent'[y] + Extra(Oks', y)
<1>1. Whole /\ TypeOK /\ TypeOK'
  BY WholeStep, TypeStep DEF IInv
<1>2. /\ Load \in Loads /\ Load' \in Loads /\ Load[y] \in [1..4 -> Nat]
      /\ got[y] \in Nat /\ sent[y] \in Nat /\ Extra(Oks, y) \in Nat
  BY <1>1, LoadFacts, LoadFactsNext DEF TypeOK, Loads, Extra, Oks
<1>3. Ahead(Load, y, k) \in Nat /\ Ahead(Load', y, k) \in Nat
  BY <1>2, AheadFacts
<1>4. /\ \A j \in k..4 : Path(y, j) \notin shut
      /\ k # 1 => Path(y, k) \in fin
      => /\ k # 1 => Path(y, 1) \in fin
         /\ Sum
  BY <1>1 DEF IInv, CountInv, Counted
<1>21. \A j \in 1..4 : buf'[Path(y, j)] = buf[Path(y, j)] => Load'[y][j] = Load[y][j]
  <2> SUFFICES ASSUME NEW j \in 1..4, buf'[Path(y, j)] = buf[Path(y, j)]
               PROVE  Load'[y][j] = Load[y][j]
    OBVIOUS
  <2>1. Load'[y][j] = Len(buf'[Path(y, j)]) /\ Load[y][j] = Len(buf[Path(y, j)])
    BY <1>1, LoadFacts, LoadFactsNext
  <2> QED
    BY <2>1
<1>22. \A j \in k..4 : j \in 1..4
  OBVIOUS
<1>23. DOMAIN buf = Stream
  BY <1>1 DEF TypeOK
\* A step that leaves what is ahead and what it is compared with.
<1>5. ASSUME fin \subseteq fin', shut \subseteq shut',
             k # 1 => Path(y, k) \in fin,
             \A j \in k..4 : Load'[y][j] = Load[y][j],
             UNCHANGED <<got, sent>>, Extra(Oks', y) = Extra(Oks, y)
      PROVE  Goal
  <2>1. Ahead(Load', y, k) = Ahead(Load, y, k)
    BY <1>2, <1>5, AheadFacts
  <2> QED
    BY <1>4, <1>5, <2>1
<1>6. CASE UNCHANGED <<stage, ran, ackDue, streams, got, sent>>
  <2>1. Load' = Load /\ Oks' = Oks
    BY <1>6 DEF Load, Oks, streams
  <2> QED
    BY <1>5, <1>6, <2>1 DEF streams
<1>7. CASE UNCHANGED <<streams, got, sent>> /\ Oks' = Oks
  <2>1. Load' = Load
    BY <1>7 DEF Load, streams
  <2> QED
    BY <1>5, <1>7, <2>1 DEF streams
<1>8. CASE ClientDials \/ RelayParks \/ AgentDials \/ RelayPairs \/ AgentConnects
  <2>1. Oks' = Oks
    BY <1>8, <1>1
    DEF Oks, ClientDials, RelayParks, AgentDials, RelayPairs, AgentConnects, Goes, StartPipe,
        TypeOK, Pipes
  <2> QED
    BY <1>7, <1>8, <2>1
    DEF ClientDials, RelayParks, AgentDials, RelayPairs, AgentConnects, ends
<1>9. CASE ClientConnected
  <2>1. /\ "client" \in Pipes /\ "down" \in Dir /\ stage["client"] = "ack"
        /\ stage'["relay"] = stage["relay"] /\ "client" \in ran'
    BY <1>9, <1>1 DEF ClientConnected, Goes, StartPipe, TypeOK, Pipes, Dir
  <2>2. "client" \notin ran
    BY <2>1 DEF IInv, StageInv
  <2>3. /\ buf[Path("down", 3)] # <<>> /\ Head(buf[Path("down", 3)]) = "ok"
        /\ buf'[Path("down", 3)] = Tail(buf[Path("down", 3)])
        /\ \A s \in Stream : s # Path("down", 3) => buf'[s] = buf[s]
        /\ Path("down", 3) = <<2, "down">>
    <3>1. Path("down", 3) = <<2, "down">> /\ Path("down", 3) \in Stream
      BY <2>1, EdgeFacts, PathFacts
    <3>2. /\ buf[<<2, "down">>] # <<>> /\ Head(buf[<<2, "down">>]) = "ok"
          /\ buf' = [buf EXCEPT ![<<2, "down">>] = Tail(buf[<<2, "down">>])]
      BY <1>9 DEF ClientConnected, HasFrame
    <3> QED
      BY <3>1, <3>2, <1>23
  <2>4. ~ackDue /\ stage["relay"] # "idle"
    <3>1. buf[Path("down", 3)] \in Seq(Item)
      BY <2>1, <1>1, LoadFacts
    <3>2. Has(buf[<<2, "down">>], "ok")
      BY <2>3, <3>1, SeqFacts DEF Item
    <3> QED
      BY <3>2 DEF IInv, FrameInv
  <2>5. Oks = 1 /\ Oks' = 0
    BY <2>1, <2>2, <2>4 DEF Oks
  <2>6. UNCHANGED <<fin, shut, got, sent>>
    BY <1>9 DEF ClientConnected, ends
  <2>7. CASE y = "down"
    <3>1. k # 4
      <4>1. Dst("client", "down") = Path("down", 4) /\ Dst("client", "down") \notin fin
        BY <1>1, <2>1, <2>2, LastOpen, EdgeFacts
      <4> QED
        BY <2>6, <2>7, <4>1
    <3>2. /\ Load[y][3] = Load'[y][3] + 1
          /\ \A j \in 1..4 : j # 3 => Load[y][j] = Load'[y][j]
      <4>1. /\ buf'[Path("down", 3)] = Tail(buf[Path("down", 3)])
            /\ \A j \in 1..4 : j # 3 => buf'[Path("down", j)] = buf[Path("down", j)]
        BY <2>3, <2>1, OneStream
      <4>2. /\ Load[y][3] = Len(buf[Path("down", 3)]) /\ Load'[y][3] = Len(buf'[Path("down", 3)])
            /\ buf[Path("down", 3)] \in Seq(Item)
        BY <2>1, <2>7, <1>1, LoadFacts, LoadFactsNext
      <4>3. /\ Len(Tail(buf[Path("down", 3)])) = Len(buf[Path("down", 3)]) - 1
            /\ Len(buf[Path("down", 3)]) \in Nat
        BY <2>3, <4>2, SeqFacts DEF Item
      <4>4. \A j \in 1..4 : j # 3 => Load[y][j] = Load'[y][j]
        BY <4>1, <2>7, <1>21
      <4> QED
        BY <4>1, <4>2, <4>3, <4>4
    <3>3. Ahead(Load, y, k) = Ahead(Load', y, k) + 1
      BY <3>1, <3>2, <1>2, AheadFacts
    <3> QED
      BY <1>2, <1>3, <1>4, <2>5, <2>6, <2>7, <3>3 DEF Extra
  <2>8. CASE y # "down"
    <3>1. \A j \in 1..4 : buf'[Path(y, j)] = buf[Path(y, j)]
      BY <2>1, <2>3, <2>8, OneStream
    <3>2. \A j \in k..4 : Load'[y][j] = Load[y][j]
      BY <3>1, <1>21, <1>22
    <3> QED
      BY <1>5, <2>6, <2>8, <3>2 DEF Extra
  <2> QED
    BY <2>7, <2>8
<1>10. CASE RelayAcks
  <2>1. ackDue /\ ~ackDue' /\ UNCHANGED <<stage, ran, fin, shut, got, sent>>
    BY <1>10 DEF RelayAcks, ends
  <2>2. "client" \notin ran /\ stage["relay"] # "idle" /\ "client" \in Pipes /\ "down" \in Dir
    BY <2>1 DEF IInv, StageInv, Pipes, Dir
  <2>3. Oks = 0 /\ Oks' = 1
    BY <2>1, <2>2 DEF Oks
  <2>4. Src("client", "down") \notin shut /\ Dst("client", "down") \notin fin
    BY <1>1, <2>2, LastOpen
  <2>5. /\ Path("down", 3) = <<2, "down">> /\ Path("down", 3) \in Stream
        /\ Src("client", "down") = Path("down", 3) /\ Dst("client", "down") = Path("down", 4)
    BY <2>2, EdgeFacts, PathFacts DEF Src, Near
  <2>6. ~WriteFails(<<2, "down">>)
    BY <1>10, <1>1, <2>4, <2>5 DEF RelayAcks, WriteFails, Whole
  <2>7. /\ buf'[Path("down", 3)] = Append(buf[Path("down", 3)], "ok")
        /\ \A s \in Stream : s # Path("down", 3) => buf'[s] = buf[s]
    <3>1. buf' = [buf EXCEPT ![<<2, "down">>] = Append(buf[<<2, "down">>], "ok")]
      BY <1>10, <2>6 DEF RelayAcks, Written
    <3> QED
      BY <2>5, <3>1, <1>23
  <2>8. CASE y = "down"
    <3>1. k # 4
      BY <2>1, <2>4, <2>5, <2>8
    <3>2. /\ Load'[y][3] = Load[y][3] + 1
          /\ \A j \in 1..4 : j # 3 => Load'[y][j] = Load[y][j]
      <4>1. /\ buf'[Path("down", 3)] = Append(buf[Path("down", 3)], "ok")
            /\ \A j \in 1..4 : j # 3 => buf'[Path("down", j)] = buf[Path("down", j)]
        BY <2>2, <2>7, OneStream
      <4>2. /\ Load[y][3] = Len(buf[Path("down", 3)]) /\ Load'[y][3] = Len(buf'[Path("down", 3)])
            /\ buf[Path("down", 3)] \in Seq(Item)
        BY <2>2, <2>8, <1>1, LoadFacts, LoadFactsNext
      <4>3. Len(Append(buf[Path("down", 3)], "ok")) = Len(buf[Path("down", 3)]) + 1
        BY <4>2, SeqFacts DEF Item
      <4>4. \A j \in 1..4 : j # 3 => Load'[y][j] = Load[y][j]
        BY <4>1, <2>8, <1>21
      <4> QED
        BY <4>1, <4>2, <4>3, <4>4
    <3>3. Ahead(Load', y, k) = Ahead(Load, y, k) + 1
      BY <3>1, <3>2, <1>2, AheadFacts
    <3> QED
      BY <1>2, <1>3, <1>4, <2>1, <2>3, <2>8, <3>3 DEF Extra
  <2>9. CASE y # "down"
    <3>1. \A j \in 1..4 : buf'[Path(y, j)] = buf[Path(y, j)]
      BY <2>2, <2>7, <2>9, OneStream
    <3>2. \A j \in k..4 : Load'[y][j] = Load[y][j]
      BY <3>1, <1>21, <1>22
    <3> QED
      BY <1>5, <2>1, <2>9, <3>2 DEF Extra
  <2> QED
    BY <2>8, <2>9
<1>11. ASSUME NEW p \in Pipes, NEW x \in Dir, Copy(p, x) PROVE Goal
  <2> DEFINE r == Place(p, x)
  <2>1. /\ r \in 1..3 /\ r + 1 \in 1..4 /\ Src(p, x) = Path(x, r) /\ Dst(p, x) = Path(x, r + 1)
    BY PlaceFacts
  <2>2. /\ buf[Path(x, r)] # <<>>
        /\ buf'[Path(x, r)] = Tail(buf[Path(x, r)])
        /\ buf'[Path(x, r + 1)] = Append(buf[Path(x, r + 1)], Head(buf[Path(x, r)]))
        /\ \A s \in Stream : s \notin {Path(x, r), Path(x, r + 1)} => buf'[s] = buf[s]
    <3>1. Src(p, x) \in Stream /\ Dst(p, x) \in Stream /\ Src(p, x) # Dst(p, x)
      BY PlaceFacts
    <3>2. DOMAIN buf = Stream
      BY <1>1 DEF TypeOK
    <3>3. /\ buf[Src(p, x)] # <<>>
          /\ buf' = [buf EXCEPT ![Src(p, x)] = Tail(@),
                                ![Dst(p, x)] = Append(@, Head(buf[Src(p, x)]))]
      BY <1>11 DEF Copy
    <3>4. /\ buf'[Src(p, x)] = Tail(buf[Src(p, x)])
          /\ buf'[Dst(p, x)] = Append(buf[Dst(p, x)], Head(buf[Src(p, x)]))
          /\ \A s \in Stream : s \notin {Src(p, x), Dst(p, x)} => buf'[s] = buf[s]
      BY <3>1, <3>2, <3>3
    <3> QED
      BY <2>1, <3>3, <3>4
  <2>3. <<p, x>> \in flows /\ UNCHANGED <<stage, ran, ackDue, fin, shut, got, sent>>
    BY <1>11 DEF Copy, ends
  <2>4. Path(x, r + 1) \notin fin
    BY <1>1, <2>1, <2>3, LastOpen
  <2>5. Oks' = Oks
    BY <2>3 DEF Oks
  <2> HIDE DEF r
  <2>6. r # r + 1 /\ r \in 1..4 /\ Path(x, r) \in Stream /\ Path(x, r + 1) \in Stream
    BY <2>1, PathFacts
  <2>7. CASE y = x
    <3>1. k # r + 1
      BY <2>1, <2>3, <2>4, <2>7
    <3>2. /\ buf'[Path(y, r)] = Tail(buf[Path(y, r)])
          /\ buf'[Path(y, r + 1)] = Append(buf[Path(y, r + 1)], Head(buf[Path(y, r)]))
      BY <2>2, <2>7
    <3>3. \A j \in 1..4 : j \notin {r, r + 1} => buf'[Path(y, j)] = buf[Path(y, j)]
      <4> SUFFICES ASSUME NEW j \in 1..4, j \notin {r, r + 1}
                   PROVE  buf'[Path(x, j)] = buf[Path(x, j)]
        BY <2>7
      <4>1. Path(x, j) \in Stream /\ Path(x, j) \notin {Path(x, r), Path(x, r + 1)}
        BY <2>1, <2>6, PathFacts
      <4> QED
        BY <2>2, <4>1
    <3>4. Load'[y][r] + 1 = Load[y][r] /\ Load'[y][r + 1] = Load[y][r + 1] + 1
      <4>1. buf[Path(y, r)] \in Seq(Item) /\ buf[Path(y, r + 1)] \in Seq(Item) /\ buf[Path(y, r)] # <<>>
        BY <2>1, <2>2, <2>6, <2>7, <1>1, LoadFacts
      <4>2. /\ Load[y][r] = Len(buf[Path(y, r)]) /\ Load[y][r + 1] = Len(buf[Path(y, r + 1)])
            /\ Load'[y][r] = Len(buf'[Path(y, r)]) /\ Load'[y][r + 1] = Len(buf'[Path(y, r + 1)])
        BY <2>1, <2>6, <1>1, LoadFacts, LoadFactsNext
      <4> QED
        BY <3>2, <4>1, <4>2, SeqFacts
    <3>5. \A j \in 1..4 : j \notin {r, r + 1} => Load'[y][j] = Load[y][j]
      BY <3>3, <1>21
    <3>6. Ahead(Load', y, k) = Ahead(Load, y, k)
      BY <2>1, <3>1, <3>4, <3>5, <1>2, AheadFacts
    <3> QED
      BY <1>4, <2>3, <2>5, <3>6
  <2>8. CASE y # x
    <3>1. \A j \in 1..4 : buf'[Path(y, j)] = buf[Path(y, j)]
      <4>1. \A j \in 1..4 : Path(y, j) \in Stream /\ Path(y, j) \notin {Path(x, r), Path(x, r + 1)}
        BY <2>1, <2>6, <2>8, PathFacts
      <4> QED
        BY <2>2, <4>1
    <3>2. \A j \in k..4 : Load'[y][j] = Load[y][j]
      BY <3>1, <1>21, <1>22
    <3> QED
      BY <1>5, <2>3, <2>5, <3>2
  <2> QED
    BY <2>7, <2>8
<1>12. ASSUME NEW p \in Pipes, NEW x \in Dir, CopyLost(p, x) PROVE Goal
  <2> DEFINE r == Place(p, x)
  <2>1. /\ r \in 1..3 /\ r + 1 \in 1..4 /\ Src(p, x) = Path(x, r) /\ Dst(p, x) = Path(x, r + 1)
    BY PlaceFacts
  <2>2. \A s \in Stream : s # Path(x, r) => buf'[s] = buf[s]
    <3>1. PICK reset \in SUBSET {Dst(p, x)[1]} :
              /\ broken' = broken \cup reset
              /\ buf' = [s \in Stream |->
                    CASE s = Src(p, x) -> Tail(buf[s])
                      [] s[1] \in reset -> <<>>
                      [] OTHER -> buf[s]]
      BY <1>12 DEF CopyLost
    <3>2. reset = {}
      BY <3>1 DEF Whole
    <3> QED
      BY <2>1, <3>1, <3>2
  <2>3. /\ UNCHANGED <<stage, ran, ackDue, fin, shut, got, sent>>
        /\ WriteFails(Dst(p, x)) /\ Dst(p, x) \notin fin
    BY <1>12 DEF CopyLost, ends
  <2>4. Dst(p, x) \in shut
    BY <2>3, <1>1, PlaceFacts DEF WriteFails, Whole
  <2>5. Oks' = Oks
    BY <2>3 DEF Oks
  <2> HIDE DEF r
  <2>6. \A j \in k..4 : Path(y, j) # Path(x, r)
    <3> SUFFICES ASSUME NEW j \in k..4, Path(y, j) = Path(x, r) PROVE FALSE
      OBVIOUS
    <3>1. y = x /\ j = r
      BY <2>1, PathFacts
    <3>2. r + 1 \in k..4
      BY <2>1, <3>1
    <3> QED
      BY <2>1, <2>3, <2>4, <3>1, <3>2
  <2>7. \A j \in k..4 : j \in 1..4 /\ buf'[Path(y, j)] = buf[Path(y, j)]
    BY <2>2, <2>6, PathFacts
  <2>8. \A j \in k..4 : Load'[y][j] = Load[y][j]
    BY <2>7, <1>21
  <2> QED
    BY <1>5, <2>3, <2>5, <2>8
<1>13. ASSUME NEW p \in Pipes, NEW x \in Dir, FlowEnds(p, x) PROVE Goal
  <2> DEFINE r == Place(p, x)
  <2>1. /\ r \in 1..3 /\ r + 1 \in 1..4 /\ Src(p, x) = Path(x, r) /\ Dst(p, x) = Path(x, r + 1)
        /\ Src(p, x) \in Stream /\ Dst(p, x) \in Stream
    BY PlaceFacts
  <2>2. /\ <<p, x>> \in flows /\ fin' = fin \cup {Dst(p, x)}
        /\ UNCHANGED <<stage, ran, ackDue, buf, shut, broken, got, sent>>
        /\ \/ AtEnd(Src(p, x)) \/ ReadFails(Src(p, x))
           \/ buf[Src(p, x)] # <<>> /\ WriteFails(Dst(p, x))
    BY <1>13 DEF FlowEnds, ends
  <2>3. Load' = Load /\ Oks' = Oks
    BY <2>2 DEF Load, Oks
  <2>4. Src(p, x) \notin shut /\ Dst(p, x) \notin fin
    BY <1>1, <2>2, LastOpen
  <2> HIDE DEF r
  <2>5. CASE y = x /\ k = r + 1
    <3>1. Dst(p, x) \notin shut
      BY <2>1, <2>2, <2>5
    <3>2. buf[Path(y, r)] = <<>> /\ Path(y, r) \in fin
      BY <1>1, <2>1, <2>2, <2>4, <2>5, <3>1 DEF AtEnd, ReadFails, WriteFails, Whole
    <3>3. \A j \in r..4 : Path(y, j) \notin shut
      <4>1. \A j \in r..4 : j = r \/ j \in k..4
        BY <2>1, <2>5
      <4> QED
        BY <2>1, <2>2, <2>4, <2>5, <4>1
    <3>4. r \in 1..4 /\ Counted(y, r)
      BY <1>1, <2>1 DEF IInv, CountInv
    <3>5. Path(y, 1) \in fin /\ got[y] + Ahead(Load, y, r) = sent[y] + Extra(Oks, y)
      BY <3>2, <3>3, <3>4 DEF Counted
    <3>6. Load[y][r] = 0
      BY <3>2, <3>4, <1>1, LoadFacts
    <3>7. Ahead(Load, y, k) = Ahead(Load, y, r)
      BY <1>2, <2>1, <2>5, <3>6 DEF Ahead
    <3> QED
      BY <2>2, <2>3, <3>5, <3>7
  <2>6. CASE ~(y = x /\ k = r + 1)
    <3>1. k # 1 => Path(y, k) \in fin
      BY <2>1, <2>2, <2>6, PathFacts
    <3> QED
      BY <1>5, <2>2, <2>3, <3>1
  <2> QED
    BY <2>5, <2>6
<1>14. ASSUME NEW p \in Pipes, PipeReturns(p) PROVE Goal
  <2>1. /\ fin' = fin \cup {Dst(p, x) : x \in Dir}
        /\ shut' = shut \cup {Src(p, x) : x \in Dir}
        /\ buf' = [s \in Stream |-> IF \E x \in Dir : s = Src(p, x) THEN <<>> ELSE buf[s]]
        /\ \A x \in Dir : <<p, x>> \notin flows
        /\ p \in ran /\ UNCHANGED <<ran, ackDue, got, sent>>
        /\ stage["relay"] = "idle" <=> stage'["relay"] = "idle"
    BY <1>14, PipeCloses DEF ends
  <2>2. \A x \in Dir : Dst(p, x) \in fin
    BY <2>1, <1>1 DEF IInv, FlowInv
  <2>3. fin' = fin
    BY <2>1, <2>2
  <2>4. \A j \in k..4 : j \in 1..4 /\ buf'[Path(y, j)] = buf[Path(y, j)]
    BY <2>1, PathFacts
  <2>5. \A j \in k..4 : Load'[y][j] = Load[y][j]
    BY <2>4, <1>21
  <2>6. Oks' = Oks
    BY <2>1 DEF Oks
  <2> QED
    BY <1>5, <2>1, <2>3, <2>5, <2>6
<1>15. ASSUME NEW x \in Dir, Sends(x) PROVE Goal
  <2>1. /\ Path(x, 1) \notin fin /\ sent' = [sent EXCEPT ![x] = @ + 1]
        /\ buf'[Path(x, 1)] = Append(buf[Path(x, 1)], "data")
        /\ \A s \in Stream : s # Path(x, 1) => buf'[s] = buf[s]
        /\ UNCHANGED <<stage, ran, ackDue, fin, shut, got>>
    <3>1. Entry(x) = Path(x, 1) /\ Path(x, 1) \in Stream
      BY EdgeFacts, PathFacts
    <3> QED
      BY <1>15, <3>1, <1>23 DEF Sends, WriteFails
  <2>2. Oks' = Oks /\ Path(x, 1) \in Stream /\ "data" \in Item
    BY <2>1, PathFacts DEF Oks, Item
  <2>3. CASE y = x
    <3>1. k = 1
      BY <1>4, <2>1, <2>3
    <3>2. /\ buf'[Path(y, 1)] = Append(buf[Path(y, 1)], "data")
          /\ \A j \in 1..4 : j # 1 => buf'[Path(y, j)] = buf[Path(y, j)]
      BY <2>1, <2>3, OneStream
    <3>3. /\ Load'[y][1] = Load[y][1] + 1
          /\ \A j \in 1..4 : j # 1 => Load'[y][j] = Load[y][j]
      <4>1. buf[Path(y, 1)] \in Seq(Item) /\ Load[y][1] = Len(buf[Path(y, 1)])
            /\ Load'[y][1] = Len(buf'[Path(y, 1)])
        BY <1>1, LoadFacts, LoadFactsNext
      <4>2. Len(Append(buf[Path(y, 1)], "data")) = Len(buf[Path(y, 1)]) + 1
        BY <2>2, <4>1, SeqFacts
      <4>3. \A j \in 1..4 : j # 1 => Load'[y][j] = Load[y][j]
        BY <3>2, <1>21
      <4> QED
        BY <3>2, <4>1, <4>2, <4>3
    <3>4. Ahead(Load', y, k) = Ahead(Load, y, k) + 1
      BY <3>1, <3>3, <1>2, AheadFacts
    <3>5. sent'[y] = sent[y] + 1
      BY <2>1, <2>3, <1>1 DEF TypeOK
    <3>6. Sum /\ got'[y] = got[y] /\ Extra(Oks', y) = Extra(Oks, y)
      BY <1>4, <2>1, <2>2, <3>1
    <3> QED
      BY <1>2, <1>3, <3>1, <3>4, <3>5, <3>6
  <2>4. CASE y # x
    <3>1. sent'[y] = sent[y] /\ \A j \in 1..4 : buf'[Path(y, j)] = buf[Path(y, j)]
      <4>1. sent'[y] = sent[y]
        BY <2>1, <2>4, <1>1 DEF TypeOK
      <4>2. \A j \in 1..4 : buf'[Path(y, j)] = buf[Path(y, j)]
        BY <2>1, <2>4, OneStream
      <4> QED
        BY <4>1, <4>2
    <3>2. \A j \in k..4 : Load'[y][j] = Load[y][j]
      BY <3>1, <1>21, <1>22
    <3>3. Ahead(Load', y, k) = Ahead(Load, y, k)
      BY <3>2, <1>2, AheadFacts
    <3> QED
      BY <1>4, <2>1, <2>2, <3>1, <3>3
  <2> QED
    BY <2>3, <2>4
<1>16. ASSUME NEW x \in Dir, Finishes(x) PROVE Goal
  <2>1. fin' = fin \cup {Path(x, 1)} /\ UNCHANGED <<stage, ran, ackDue, buf, shut, got, sent>>
    BY <1>16, EdgeFacts DEF Finishes, ends
  <2>2. Load' = Load /\ Oks' = Oks
    BY <2>1 DEF Load, Oks
  <2>3. k # 1 => Path(y, k) \in fin
    BY <2>1, PathFacts
  <2> QED
    BY <1>5, <2>1, <2>2, <2>3
<1>17. ASSUME NEW x \in Dir, Leaves(x) PROVE Goal
  <2>1. PICK z \in Dir : z # x
    BY DEF Dir
  <2>2. /\ fin' = fin \cup {Path(x, 1)}
        /\ shut' = shut \cup {Path(z, 4)}
        /\ buf' = [s \in Stream |-> IF s = Path(z, 4) THEN <<>> ELSE buf[s]]
        /\ UNCHANGED <<stage, ran, ackDue, got, sent>>
    BY <1>17, <2>1, EndCloses DEF ends
  <2>3. y # z
    BY <2>2
  <2>4. \A j \in k..4 : j \in 1..4 /\ buf'[Path(y, j)] = buf[Path(y, j)]
    BY <2>2, <2>3, PathFacts
  <2>5. \A j \in k..4 : Load'[y][j] = Load[y][j]
    BY <2>4, <1>21
  <2>6. k # 1 => Path(y, k) \in fin
    BY <2>2, PathFacts
  <2>7. Oks' = Oks
    BY <2>2 DEF Oks
  <2> QED
    BY <1>5, <2>2, <2>5, <2>6, <2>7
<1>18. ASSUME NEW x \in Dir, Gets(x) PROVE Goal
  <2>1. /\ buf[Path(x, 4)] # <<>> /\ got' = [got EXCEPT ![x] = @ + 1]
        /\ buf'[Path(x, 4)] = Tail(buf[Path(x, 4)])
        /\ \A s \in Stream : s # Path(x, 4) => buf'[s] = buf[s]
        /\ UNCHANGED <<stage, ran, ackDue, fin, shut, sent>>
    <3>1. Exit(x) = Path(x, 4) /\ Path(x, 4) \in Stream
      BY EdgeFacts, PathFacts
    <3> QED
      BY <1>18, <3>1, <1>23 DEF Gets
  <2>2. Oks' = Oks /\ Path(x, 4) \in Stream
    BY <2>1, PathFacts DEF Oks
  <2>3. CASE y = x
    <3>1. /\ buf'[Path(y, 4)] = Tail(buf[Path(y, 4)])
          /\ \A j \in 1..4 : j # 4 => buf'[Path(y, j)] = buf[Path(y, j)]
      BY <2>1, <2>3, OneStream
    <3>2. /\ Load[y][4] = Load'[y][4] + 1
          /\ \A j \in 1..4 : j # 4 => Load[y][j] = Load'[y][j]
      <4>1. buf[Path(y, 4)] \in Seq(Item) /\ buf[Path(y, 4)] # <<>>
        BY <2>1, <2>3, <1>1, LoadFacts
      <4>2. Load[y][4] = Len(buf[Path(y, 4)]) /\ Load'[y][4] = Len(buf'[Path(y, 4)])
        BY <1>1, LoadFacts, LoadFactsNext
      <4>3. Len(Tail(buf[Path(y, 4)])) = Len(buf[Path(y, 4)]) - 1 /\ Len(buf[Path(y, 4)]) \in Nat
        BY <4>1, SeqFacts DEF Item
      <4>4. \A j \in 1..4 : j # 4 => Load[y][j] = Load'[y][j]
        BY <3>1, <1>21, <1>22
      <4> QED
        BY <3>1, <4>2, <4>3, <4>4
    <3>3. Ahead(Load, y, k) = Ahead(Load', y, k) + 1
      BY <3>2, <1>2, AheadFacts
    <3>4. got'[y] = got[y] + 1
      BY <2>1, <2>3, <1>1 DEF TypeOK
    <3>5. /\ k # 1 => Path(y, 1) \in fin'
          /\ Sum /\ sent'[y] = sent[y] /\ Extra(Oks', y) = Extra(Oks, y)
      BY <1>4, <2>1, <2>2
    <3> QED
      BY <1>2, <1>3, <3>3, <3>4, <3>5
  <2>4. CASE y # x
    <3>1. got'[y] = got[y] /\ \A j \in 1..4 : buf'[Path(y, j)] = buf[Path(y, j)]
      <4>1. got'[y] = got[y]
        BY <2>1, <2>4, <1>1 DEF TypeOK
      <4>2. \A j \in 1..4 : buf'[Path(y, j)] = buf[Path(y, j)]
        BY <2>1, <2>4, OneStream
      <4> QED
        BY <4>1, <4>2
    <3>2. \A j \in k..4 : Load'[y][j] = Load[y][j]
      BY <3>1, <1>21, <1>22
    <3>3. Ahead(Load', y, k) = Ahead(Load, y, k)
      BY <3>2, <1>2, AheadFacts
    <3> QED
      BY <1>4, <2>1, <2>2, <3>1, <3>3
  <2> QED
    BY <2>3, <2>4
<1>19. ASSUME NEW x \in Dir, SeesEnd(x) PROVE Goal
  BY <1>6, <1>19 DEF SeesEnd
<1>20. CASE UNCHANGED vars
  BY <1>6, <1>20 DEF vars, streams
<1> QED
  BY <1>8, <1>9, <1>10, <1>11, <1>12, <1>13, <1>14, <1>15, <1>16, <1>17, <1>18, <1>19, <1>20,
    OnwardStep
  DEF Onward

\* Every step leaves the receivers that have seen the end with everything.
LEMMA EndStep == IInv /\ [Next]_vars => EndInv'
<1> SUFFICES ASSUME IInv, [Next]_vars, Whole', NEW y \in seen'
             PROVE  /\ Path(y, 1) \in fin' /\ Path(y, 4) \in fin'
                    /\ buf'[Path(y, 4)] = <<>>
                    /\ got'[y] = sent'[y]
  BY DEF EndInv
<1> DEFINE Goal == /\ Path(y, 1) \in fin' /\ Path(y, 4) \in fin'
                   /\ buf'[Path(y, 4)] = <<>>
                   /\ got'[y] = sent'[y]
<1>1. Whole /\ TypeOK /\ y \in Dir /\ DOMAIN buf = Stream /\ Path(y, 4) \in Stream
  <2>1. Whole /\ TypeOK /\ TypeOK'
    BY WholeStep, TypeStep DEF IInv
  <2>2. y \in Dir /\ DOMAIN buf = Stream
    BY <2>1 DEF TypeOK
  <2> QED
    BY <2>1, <2>2, PathFacts
<1>2. y \in seen => /\ Path(y, 1) \in fin /\ Path(y, 4) \in fin
                    /\ buf[Path(y, 4)] = <<>>
                    /\ got[y] = sent[y]
  BY <1>1 DEF IInv, EndInv
\* A step that adds nothing to the last stream.
<1>3. ASSUME fin \subseteq fin', UNCHANGED <<got, sent, seen>>,
             buf'[Path(y, 4)] = buf[Path(y, 4)] \/ buf'[Path(y, 4)] = <<>>
      PROVE  Goal
  BY <1>2, <1>3
<1>4. Path("down", 3) = <<2, "down">> /\ Path(y, 4) # <<2, "down">>
  BY <1>1, EdgeFacts, PathFacts DEF Dir
<1>5. CASE ClientDials \/ RelayParks \/ AgentDials \/ RelayPairs \/ AgentConnects
  BY <1>3, <1>5 DEF ClientDials, RelayParks, AgentDials, RelayPairs, AgentConnects, streams, ends
<1>6. CASE ClientConnected
  <2>1. buf'[Path(y, 4)] = buf[Path(y, 4)]
    BY <1>1, <1>4, <1>6 DEF ClientConnected
  <2> QED
    BY <1>3, <1>6, <2>1 DEF ClientConnected, ends
<1>7. CASE RelayAcks
  <2>1. buf'[Path(y, 4)] = buf[Path(y, 4)]
    BY <1>1, <1>4, <1>7 DEF RelayAcks
  <2> QED
    BY <1>3, <1>7, <2>1 DEF RelayAcks, ends
<1>8. ASSUME NEW p \in Pipes, NEW x \in Dir, Copy(p, x) PROVE Goal
  <2>1. <<p, x>> \in flows /\ UNCHANGED <<fin, got, sent, seen>>
    BY <1>8 DEF Copy, ends
  <2>2. /\ Src(p, x) = Path(x, Place(p, x)) /\ Dst(p, x) = Path(x, Place(p, x) + 1)
        /\ Place(p, x) \in 1..3
    BY PlaceFacts
  <2>3. Place(p, x) = 3 => x \notin seen
    BY <1>1, <2>1, LastOpen
  <2>4. Path(y, 4) # Src(p, x) /\ Path(y, 4) # Dst(p, x)
    <3>1. Path(y, 4) # Src(p, x)
      BY <1>1, <2>2, PathFacts
    <3>2. Path(y, 4) = Dst(p, x) => y = x /\ Place(p, x) = 3
      BY <1>1, <2>2, PathFacts
    <3> QED
      BY <2>1, <2>3, <3>1, <3>2
  <2>5. buf'[Path(y, 4)] = buf[Path(y, 4)]
    BY <1>1, <1>8, <2>4 DEF Copy
  <2> QED
    BY <1>3, <2>1, <2>5
<1>9. ASSUME NEW p \in Pipes, NEW x \in Dir, CopyLost(p, x) PROVE Goal
  <2>1. UNCHANGED <<fin, got, sent, seen>>
    BY <1>9 DEF CopyLost, ends
  <2>2. Path(y, 4) # Src(p, x)
    BY <1>1, EdgeFacts
  <2>3. buf'[Path(y, 4)] = buf[Path(y, 4)] \/ buf'[Path(y, 4)] = <<>>
    BY <1>1, <1>9, <2>2 DEF CopyLost
  <2> QED
    BY <1>3, <2>1, <2>3
<1>10. ASSUME NEW p \in Pipes, NEW x \in Dir, FlowEnds(p, x) PROVE Goal
  BY <1>3, <1>10 DEF FlowEnds, ends
<1>11. ASSUME NEW p \in Pipes, PipeReturns(p) PROVE Goal
  BY <1>1, <1>3, <1>11, PipeCloses DEF ends
<1>12. ASSUME NEW x \in Dir, Sends(x) PROVE Goal
  <2>1. /\ Path(x, 1) \notin fin /\ sent' = [sent EXCEPT ![x] = @ + 1]
        /\ buf' = [buf EXCEPT ![Path(x, 1)] = Append(@, "data")]
        /\ UNCHANGED <<fin, got, seen>>
    BY <1>12, EdgeFacts DEF Sends, WriteFails
  <2>2. y # x
    BY <1>2, <2>1
  <2>3. Path(y, 4) # Path(x, 1)
    BY <1>1, PathFacts
  <2>4. buf'[Path(y, 4)] = buf[Path(y, 4)] /\ sent'[y] = sent[y]
    BY <1>1, <2>1, <2>2, <2>3 DEF TypeOK
  <2> QED
    BY <1>2, <2>1, <2>4
<1>13. ASSUME NEW x \in Dir, Finishes(x) PROVE Goal
  BY <1>3, <1>13 DEF Finishes, ends
<1>14. ASSUME NEW x \in Dir, Leaves(x) PROVE Goal
  <2>1. PICK z \in Dir : z # x
    BY DEF Dir
  <2>2. /\ fin' = fin \cup {Path(x, 1)}
        /\ buf' = [s \in Stream |-> IF s = Path(z, 4) THEN <<>> ELSE buf[s]]
        /\ UNCHANGED <<got, sent, seen>>
    BY <1>14, <2>1, EndCloses DEF ends
  <2> QED
    BY <1>1, <1>3, <2>2
<1>15. ASSUME NEW x \in Dir, Gets(x) PROVE Goal
  <2>1. /\ buf[Path(x, 4)] # <<>> /\ got' = [got EXCEPT ![x] = @ + 1]
        /\ buf' = [buf EXCEPT ![Path(x, 4)] = Tail(@)]
        /\ UNCHANGED <<fin, sent, seen>>
    BY <1>15, EdgeFacts DEF Gets
  <2>2. y # x
    BY <1>2, <2>1
  <2>3. Path(y, 4) # Path(x, 4)
    BY <1>1, <2>2, PathFacts
  <2>4. buf'[Path(y, 4)] = buf[Path(y, 4)] /\ got'[y] = got[y]
    BY <1>1, <2>1, <2>2, <2>3 DEF TypeOK
  <2> QED
    BY <1>2, <2>1, <2>4
<1>16. ASSUME NEW x \in Dir, SeesEnd(x) PROVE Goal
  <2>1. /\ Path(x, 4) \notin shut /\ Path(x, 4) \in fin /\ buf[Path(x, 4)] = <<>>
        /\ seen' = seen \cup {x} /\ UNCHANGED <<buf, fin, got, sent>>
    BY <1>16, EdgeFacts DEF SeesEnd, ReadFails, AtEnd, streams
  <2>2. CASE y \in seen
    BY <1>2, <2>1, <2>2
  <2>3. CASE y = x
    <3>1. Path(y, 1) \in fin /\ got[y] + Ahead(Load, y, 4) = sent[y] + Extra(Oks, y)
      <4>1. Counted(y, 4)
        BY <1>1 DEF IInv, CountInv
      <4>2. \A j \in 4..4 : j = 4
        OBVIOUS
      <4> QED
        BY <2>1, <2>3, <4>1, <4>2 DEF Counted
    <3>2. Ahead(Load, y, 4) = 0
      <4>1. Load[y][4] = 0
        BY <1>1, <2>1, <2>3, LoadFacts
      <4> QED
        BY <4>1 DEF Ahead
    <3>3. Extra(Oks, y) = 0
      <4>1. CASE y = "down"
        <5>1. Path(y, 4) = Dst("client", "down") /\ "client" \in Pipes /\ "down" \in Dir
          BY <4>1, EdgeFacts DEF Pipes, Dir
        <5>2. "client" \in ran
          BY <1>1, <2>1, <2>3, <5>1, LastOpen
        <5> QED
          BY <5>2 DEF Oks, Extra
      <4> QED
        BY <4>1 DEF Extra
    <3>4. got[y] \in Nat /\ sent[y] \in Nat
      BY <1>1 DEF TypeOK
    <3> QED
      BY <2>1, <2>3, <3>1, <3>2, <3>3, <3>4
  <2> QED
    BY <2>1, <2>2, <2>3
<1>17. CASE UNCHANGED vars
  BY <1>3, <1>17 DEF vars
<1> QED
  BY <1>5, <1>6, <1>7, <1>8, <1>9, <1>10, <1>11, <1>12, <1>13, <1>14, <1>15, <1>16, <1>17,
    OnwardStep
  DEF Onward

------------------------------------------------------------------------------
(* Every step keeps the answer where it belongs *)

\* What a step does to a stream other than answering: nothing, it takes a piece
\* off, adds data or loses all.
Kept(q, r) ==
    r = q \/ r = <<>> \/ (q # <<>> /\ r = Tail(q)) \/ r = Append(q, "data")

\* Such a step brings no answer; taking one off leaves none, and one that is put
\* where there was none is the only one.
LEMMA AnswerFacts ==
    ASSUME NEW q \in Seq(Item)
    PROVE  /\ \A r : Kept(q, r) /\ Plain(q) => Plain(r)
           /\ \A r : Kept(q, r) /\ OneAnswer(q) => OneAnswer(r)
           /\ OneAnswer(q) /\ q # <<>> /\ Head(q) # "data" => Plain(Tail(q))
           /\ \A m \in Item : Plain(q) => OneAnswer(Append(q, m))
           /\ Plain(q) /\ q # <<>> => Head(q) = "data"
           /\ Plain(q) => OneAnswer(q)
<1> USE DEF Plain, OneAnswer
<1>1. ASSUME NEW m \in Item
      PROVE  /\ DOMAIN Append(q, m) = 1..Len(q) + 1 /\ DOMAIN q = 1..Len(q) /\ Len(q) \in Nat
             /\ \A i \in 1..Len(q) : Append(q, m)[i] = q[i]
             /\ Append(q, m)[Len(q) + 1] = m
  OBVIOUS
<1>2. ASSUME q # <<>>
      PROVE  /\ Len(q) \in Nat \ {0} /\ DOMAIN q = 1..Len(q) /\ Head(q) = q[1]
             /\ DOMAIN Tail(q) = 1..Len(q) - 1
             /\ \A i \in 1..Len(q) - 1 : Tail(q)[i] = q[i + 1] /\ i + 1 \in DOMAIN q
  BY <1>2
<1>3. "data" \in Item
  BY DEF Item
<1>4. \A r : Kept(q, r) /\ Plain(q) => Plain(r)
  BY <1>1, <1>2, <1>3 DEF Kept
<1>5. ASSUME NEW r, Kept(q, r), OneAnswer(q) PROVE OneAnswer(r)
  <2>1. CASE q # <<>> /\ r = Tail(q)
    <3> SUFFICES ASSUME NEW i \in DOMAIN r, NEW j \in DOMAIN r, r[i] # "data", r[j] # "data"
                 PROVE  i = j
      OBVIOUS
    <3>1. i \in Nat /\ j \in Nat /\ q[i + 1] = r[i] /\ q[j + 1] = r[j]
          /\ i + 1 \in DOMAIN q /\ j + 1 \in DOMAIN q
      BY <2>1, <1>2
    <3>2. i + 1 = j + 1
      BY <3>1, <1>5
    <3> QED
      BY <3>1, <3>2
  <2>2. CASE r = Append(q, "data")
    BY <2>2, <1>1, <1>3, <1>5
  <2> QED
    BY <1>5, <2>1, <2>2 DEF Kept
<1>6. ASSUME OneAnswer(q), q # <<>>, Head(q) # "data" PROVE Plain(Tail(q))
  <2> SUFFICES ASSUME NEW i \in DOMAIN Tail(q), Tail(q)[i] # "data" PROVE FALSE
    OBVIOUS
  <2>1. i \in Nat \ {0} /\ i + 1 \in DOMAIN q /\ q[i + 1] # "data" /\ 1 \in DOMAIN q /\ q[1] # "data"
    BY <1>6, <1>2
  <2>2. i + 1 = 1
    BY <2>1, <1>6
  <2> QED
    BY <2>1, <2>2
<1>7. \A m \in Item : Plain(q) => OneAnswer(Append(q, m))
  BY <1>1
<1>8. Plain(q) /\ q # <<>> => Head(q) = "data"
  BY <1>2
<1> QED
  BY <1>4, <1>5, <1>6, <1>7, <1>8

\* Every step but an answer of the relay leaves each stream so.
LEMMA KeptStep ==
    ASSUME IInv, AnswerInv, [Next]_vars, ~RelayAcks, ~RelayRefuses, NEW s \in Stream
    PROVE  Kept(buf[s], buf'[s])
<1> DEFINE Goal == Kept(buf[s], buf'[s])
<1>0. TypeOK /\ StageInv
  BY DEF IInv
<1>1. buf \in [Stream -> Seq(Item)]
  BY <1>0 DEF TypeOK, Item
<1>2. CASE UNCHANGED buf
  BY <1>2 DEF Kept
<1>3. ASSUME NEW S \in SUBSET Stream, Close(S) PROVE Goal
  BY <1>3, <1>0, CloseFacts DEF Kept
<1>4. CASE ClientDials \/ RelayParks \/ RelayPairs \/ AgentDials \/ AgentDialFails \/ AgentConnects
  BY <1>2, <1>4
  DEF ClientDials, RelayParks, RelayPairs, AgentDials, AgentDialFails, AgentConnects, streams
<1>5. CASE ClientDialFails \/ ClientGivesUp \/ RelayAckFails \/ RelayReaps \/ RelayTurnsAway
           \/ AgentCloses \/ AgentLocalFails
  BY <1>3, <1>5, CloseSets
  DEF ClientDialFails, ClientGivesUp, RelayAckFails, RelayReaps, RelayTurnsAway, AgentCloses,
      AgentLocalFails
<1>6. CASE ClientConnected
  BY <1>6, <1>1 DEF ClientConnected, HasFrame, Kept
<1>7. ASSUME NEW p \in Pipes, NEW x \in Dir, Copy(p, x) PROVE Goal
  <2>1. /\ buf[Src(p, x)] # <<>>
        /\ buf' = [buf EXCEPT ![Src(p, x)] = Tail(@),
                              ![Dst(p, x)] = Append(@, Head(buf[Src(p, x)]))]
    BY <1>7 DEF Copy
  <2>2. Plain(buf[Src(p, x)])
    <3>1. p \in ran
      BY <1>7, <1>0 DEF Copy, TypeOK, StageInv
    <3>2. Src(p, x) = <<2, "down">> => p = "client"
      BY DEF Src, Pipes, Near, Dir
    <3> QED
      BY <3>1, <3>2, PlaceFacts DEF AnswerInv
  <2>3. Head(buf[Src(p, x)]) = "data"
    BY <2>1, <2>2, <1>1, PlaceFacts, AnswerFacts
  <2> QED
    BY <2>1, <2>3, <1>1, PlaceFacts DEF Kept
<1>8. ASSUME NEW p \in Pipes, NEW x \in Dir, CopyLost(p, x) PROVE Goal
  BY <1>8, <1>1 DEF CopyLost, Kept
<1>9. ASSUME NEW p \in Pipes, NEW x \in Dir, FlowEnds(p, x) PROVE Goal
  BY <1>2, <1>9 DEF FlowEnds
<1>10. ASSUME NEW p \in Pipes, PipeReturns(p) PROVE Goal
  BY <1>3, <1>10, CloseSets DEF PipeReturns
<1>11. ASSUME NEW x \in Dir, Sends(x) PROVE Goal
  BY <1>11, <1>1 DEF Sends, Kept
<1>12. ASSUME NEW x \in Dir, Finishes(x) \/ SeesEnd(x) PROVE Goal
  BY <1>2, <1>12 DEF Finishes, SeesEnd, streams
<1>13. ASSUME NEW x \in Dir, Leaves(x) PROVE Goal
  BY <1>3, <1>13, CloseSets DEF Leaves
<1>14. ASSUME NEW x \in Dir, Gets(x) PROVE Goal
  BY <1>14, <1>1 DEF Gets, Kept
<1>15. ASSUME NEW h \in {2, 3}, Breaks(h) PROVE Goal
  BY <1>15, <1>1 DEF Breaks, Kept
<1>16. CASE UNCHANGED vars
  BY <1>2, <1>16 DEF vars
<1> QED
  BY <1>4, <1>5, <1>6, <1>7, <1>8, <1>9, <1>10, <1>11, <1>12, <1>13, <1>14, <1>15, <1>16
  DEF Next, ClientAck, RelayAck, Accept, AgentAnswers, AgentBridges

\* Nobody but the client itself makes the client pipe.
LEMMA ClientBegins ==
    ASSUME IInv, [Next]_vars, ~ClientConnected, "client" \in ran'
    PROVE  "client" \in ran
<1>1. CASE \/ RelayPairs \/ AgentConnects
  BY <1>1 DEF RelayPairs, AgentConnects, StartPipe
<1>2. CASE UNCHANGED ran
  BY <1>2
<1>3. CASE ~(RelayPairs \/ AgentConnects)
  BY <1>2, <1>3
  DEF Next, ClientAck, RelayAck, Accept, AgentAnswers, AgentBridges, vars, ClientDials,
      ClientDialFails, ClientGivesUp, RelayRefuses, RelayParks, RelayAcks, RelayAckFails,
      RelayReaps, RelayTurnsAway, AgentDials, AgentDialFails, AgentCloses, AgentLocalFails,
      Copy, CopyLost, FlowEnds, PipeReturns, Sends, Finishes, Leaves, Gets, SeesEnd, Breaks
<1> QED
  BY <1>1, <1>3

\* Every step keeps the answer where it belongs.
LEMMA AnswerStep == IInv /\ AnswerInv /\ [Next]_vars => AnswerInv'
<1> SUFFICES ASSUME IInv, AnswerInv, [Next]_vars PROVE AnswerInv'
  OBVIOUS
<1> DEFINE down == <<2, "down">>
<1>0. TypeOK /\ StageInv
  BY DEF IInv
<1>1. buf \in [Stream -> Seq(Item)] /\ down \in Stream /\ "ok" \in Item /\ "nak" \in Item
  BY <1>0 DEF TypeOK, Item, Stream, Hop, Dir
<1>2. ackDue' \/ stage'["relay"] = "idle" => ackDue \/ stage["relay"] = "idle"
  BY GoesOn
<1>3. ASSUME NEW m \in Item, Plain(buf[down]),
             buf' = [buf EXCEPT ![down] = Written(down, m)],
             ~(ackDue' \/ stage'["relay"] = "idle" \/ "client" \in ran')
      PROVE  AnswerInv'
  <2>1. buf'[down] = buf[down] \/ buf'[down] = Append(buf[down], m)
    BY <1>1, <1>3 DEF Written
  <2>2. OneAnswer(buf'[down])
    <3>1. buf[down] \in Seq(Item) /\ OneAnswer(buf[down])
      BY <1>1 DEF AnswerInv
    <3>2. OneAnswer(Append(buf[down], m))
      BY <3>1, <1>3, AnswerFacts
    <3> QED
      BY <2>1, <3>1, <3>2
  <2>3. \A s \in Stream \ {down} : buf'[s] = buf[s]
    BY <1>1, <1>3
  <2> QED
    BY <2>2, <2>3, <1>3 DEF AnswerInv
<1>4. CASE RelayAcks
  <2>1. /\ ackDue /\ ackDue' = FALSE /\ stage' = stage /\ ran' = ran
        /\ buf' = [buf EXCEPT ![down] = Written(down, "ok")]
    BY <1>4 DEF RelayAcks
  <2>2. stage["relay"] # "idle" /\ "client" \notin ran
    BY <2>1, <1>0 DEF StageInv
  <2>3. Plain(buf[down])
    BY <2>1 DEF AnswerInv
  <2> QED
    BY <2>1, <2>2, <2>3, <1>1, <1>3
<1>5. CASE RelayRefuses
  <2>1. /\ stage["relay"] = "idle" /\ ackDue' = ackDue /\ ran' = ran
        /\ stage' = [stage EXCEPT !["relay"] = "done"]
        /\ buf' = [buf EXCEPT ![down] = Written(down, "nak")]
    BY <1>5 DEF RelayRefuses, Goes
  <2>2. ~ackDue /\ "client" \notin ran /\ stage'["relay"] # "idle"
    BY <2>1, <1>0 DEF StageInv, TypeOK, Pipes
  <2>3. Plain(buf[down])
    BY <2>1 DEF AnswerInv
  <2> QED
    BY <2>1, <2>2, <2>3, <1>1, <1>3
<1>6. CASE ClientConnected
  <2>1. /\ buf[down] # <<>> /\ Head(buf[down]) = "ok"
        /\ buf' = [buf EXCEPT ![down] = Tail(@)]
    BY <1>6 DEF ClientConnected, HasFrame
  <2>2. Plain(Tail(buf[down]))
    BY <2>1, <1>1, AnswerFacts DEF AnswerInv
  <2>3. Plain(buf'[down]) /\ \A s \in Stream \ {down} : buf'[s] = buf[s]
    BY <2>1, <2>2, <1>1
  <2>4. OneAnswer(buf'[down])
    BY <2>3 DEF Plain, OneAnswer
  <2> QED
    BY <2>3, <2>4 DEF AnswerInv
<1>7. CASE ~RelayAcks /\ ~RelayRefuses /\ ~ClientConnected
  <2>1. \A s \in Stream : Kept(buf[s], buf'[s])
    BY <1>7, KeptStep
  <2>2. \A s \in Stream : /\ Plain(buf[s]) => Plain(buf'[s])
                          /\ OneAnswer(buf[s]) => OneAnswer(buf'[s])
    BY <2>1, <1>1, AnswerFacts
  <2>3. "client" \in ran' => "client" \in ran
    BY <1>7, ClientBegins
  <2> QED
    BY <2>2, <2>3, <1>1, <1>2 DEF AnswerInv
<1> QED
  BY <1>4, <1>5, <1>6, <1>7

------------------------------------------------------------------------------
(* The theorems *)

\* The invariant holds in every state of every behaviour.
THEOREM Invariance == Spec => []IInv
<1>1. IInv /\ [Next]_vars => IInv'
  <2> SUFFICES ASSUME IInv, [Next]_vars PROVE IInv'
    OBVIOUS
  <2>1. TypeOK'
    BY TypeStep
  <2>2. StageInv'
    BY StageStep
  <2>3. FrameInv'
    BY FrameStep
  <2>4. FlowInv'
    BY FlowStep
  <2>5. CountInv'
    BY CountStep
  <2>6. EndInv'
    BY EndStep
  <2> QED
    BY <2>1, <2>2, <2>3, <2>4, <2>5, <2>6 DEF IInv
<1> QED
  BY InitIInv, <1>1, PTL DEF Spec

\* Every variable keeps its type, and no copy outlives the pipe it belongs to.
THEOREM TypeCorrect == Spec => []TypeOK
<1>1. IInv => TypeOK
  BY DEF IInv
<1> QED
  BY <1>1, Invariance, PTL

\* proto.Pipe three times in a row: the end of a stream stands for all of it,
\* however many pieces were sent and whoever finished, left or lost interest.
THEOREM NeverTruncated == Spec => []NoTruncation
<1>1. IInv => NoTruncation
  <2> SUFFICES ASSUME IInv, ran = Pipes, broken = {}, NEW x \in seen PROVE got[x] = sent[x]
    BY DEF NoTruncation
  <2>1. Whole
    BY DEF Whole, Pipes
  <2> QED
    BY <2>1 DEF IInv, EndInv
<1> QED
  BY <1>1, Invariance, PTL

\* The answer of the relay and the data behind it share a stream, and no frame of
\* the session protocol ever reaches the user or the service.
THEOREM NoFrameEscapes == Spec => []OnlyData
<1>1. Init => AnswerInv
  BY DEF Init, AnswerInv, Plain, OneAnswer, Stream, Hop, Dir
<1>2. IInv /\ AnswerInv => OnlyData
  BY PathFacts, EdgeFacts DEF AnswerInv, OnlyData, Plain, Path, Dir
<1> QED
  BY <1>1, <1>2, Invariance, AnswerStep, PTL DEF Spec

==============================================================================
