--------------------------- MODULE ControlLinkProofs ---------------------------
(* Proofs about ControlLink for every number of clients, every PingInterval   *)
(* below ReadTimeout, every capacity of the connection and every number of    *)
(* faults: its type invariant, that frames are not mixed, and how long an     *)
(* outage may last before it costs the link, and after it is noticed.         *)

EXTENDS ControlLink, TLAPS

------------------------------------------------------------------------------
(* The inductive invariant, in named parts *)

\* ac.mu is held by the writer that is writing, and by no other.
MutexInv ==
    /\ \A w \in Writer : writer[w] \in {"hdr", "body"} <=> mu = w
    /\ writer[Beat] \in {"idle", "lock", "hdr", "body"}

\* FramedSeq(Stream) is what Framed says while the agent reads.
FramedSeq(s) ==
    \A i \in DOMAIN s :
        IF s[i].part = "hdr"
        THEN i < Len(s) => s[i + 1] = [of |-> s[i].of, part |-> "body"]
        ELSE i > 1 /\ s[i - 1] = [of |-> s[i].of, part |-> "hdr"]

Tip == Stream[Len(Stream)]

\* A frame without its second half is last, and its writer is about to write that.
TipInv ==
    open["relay"] /\ open["agent"] =>
        /\ \A w \in Writer :
              writer[w] = "body" => Stream # <<>> /\ Tip = [of |-> w, part |-> "hdr"]
        /\ Stream # <<>> /\ Tip.part = "hdr" => writer[Tip.of] = "body"

StreamInv == Framed /\ TipInv

\* An end that is open has heard nothing for as long as its direction is down; one
\* that is left alone has been for no longer than the other took to give up.
DownInv ==
    \A d \in End :
        /\ open[d] => down[d] <= ReadTimeout
        /\ open[d] /\ net[d] # "ok" => down[d] <= quiet[d]
        /\ open[d] /\ ~open[Other(d)] => down[Other(d)] <= ReadTimeout + down[d]

\* Something that will renew the deadline of the end is on its way, or about to be.
Pending(e) ==
    IF e = "relay" THEN tick["agent"] \/ toRelay > 0
    ELSE tick["relay"] \/ writer[Beat] # "idle" \/ toAgent # <<>> \/ half # None

\* While the link lasts, an end hears nothing for one interval and the time that
\* its direction is down: every tick of the other's ticker is on its way to it.
AwakeInv ==
    /\ HealthyKept
    /\ \A d \in End : down[d] >= ReadTimeout - PingInterval => long
    /\ (\A e \in End : open[e]) =>
          \A e \in End :
              /\ quiet[e] <= PingInterval + down[e]
              /\ quiet[e] <= phase[Other(e)] \/ Pending(e)

IInv == TypeOK /\ MutexInv /\ StreamInv /\ DownInv /\ AwakeInv

------------------------------------------------------------------------------
(* The stream of half frames *)

\* What the agent has still to read is a sequence of half frames.
LEMMA StreamType ==
    ASSUME TypeOK
    PROVE  /\ Stream \in Seq(Part)
           /\ half = None => Stream = toAgent
           /\ half # None => /\ Len(Stream) = Len(toAgent) + 1
                             /\ Stream[1] = [of |-> half, part |-> "hdr"]
                             /\ \A i \in 1..Len(toAgent) : Stream[i + 1] = toAgent[i]
<1> USE DEF TypeOK
<1>1. CASE half = None
  BY <1>1 DEF Stream
<1>2. CASE half # None
  <2>1. [of |-> half, part |-> "hdr"] \in Part
    BY <1>2 DEF Part
  <2> QED
    BY <1>2, <2>1 DEF Stream
<1> QED
  BY <1>1, <1>2

\* A new frame may begin behind a whole one.
LEMMA FramedHeader ==
    ASSUME NEW s \in Seq(Part), FramedSeq(s), NEW w \in Writer,
           s # <<>> => s[Len(s)].part # "hdr"
    PROVE  FramedSeq(Append(s, [of |-> w, part |-> "hdr"]))
BY DEF FramedSeq, Part

\* The second half of a frame may follow the first.
LEMMA FramedBody ==
    ASSUME NEW s \in Seq(Part), FramedSeq(s), NEW w \in Writer,
           s # <<>>, s[Len(s)] = [of |-> w, part |-> "hdr"]
    PROVE  FramedSeq(Append(s, [of |-> w, part |-> "body"]))
BY DEF FramedSeq, Part

\* What is left when a whole frame has been read.
LEMMA FramedRest ==
    ASSUME NEW s \in Seq(Part), FramedSeq(s), NEW t \in Seq(Part),
           Len(s) = Len(t) + 2, s[1].part = "hdr", \A i \in 1..Len(t) : t[i] = s[i + 2]
    PROVE  FramedSeq(t)
<1> USE DEF FramedSeq
<1>1. /\ DOMAIN t = 1..Len(t) /\ Len(t) \in Nat
      /\ DOMAIN s = 1..Len(s) /\ 1 \in DOMAIN s /\ 1 < Len(s)
  OBVIOUS
<1>2. s[2] = [of |-> s[1].of, part |-> "body"]
  <2>1. s[1 + 1] = [of |-> s[1].of, part |-> "body"]
    BY <1>1
  <2> QED
    BY <2>1
<1>3. ASSUME NEW i \in 1..Len(t)
      PROVE  IF t[i].part = "hdr"
             THEN i < Len(t) => t[i + 1] = [of |-> t[i].of, part |-> "body"]
             ELSE i > 1 /\ t[i - 1] = [of |-> t[i].of, part |-> "hdr"]
  <2>1. /\ i + 2 \in DOMAIN s /\ t[i] = s[i + 2]
        /\ (i + 2) + 1 = (i + 1) + 2 /\ (i + 2) - 1 = i + 1
    BY <1>1
  <2>2. CASE t[i].part = "hdr"
    <3>1. ASSUME i < Len(t)
          PROVE  t[i + 1] = s[(i + 2) + 1] /\ i + 2 < Len(s)
      BY <1>1, <2>1, <3>1
    <3> QED
      BY <2>1, <2>2, <3>1
  <2>3. CASE t[i].part # "hdr"
    <3>1. s[(i + 2) - 1] = [of |-> s[i + 2].of, part |-> "hdr"]
      BY <2>1, <2>3
    <3>2. i # 1
      BY <1>2, <2>1, <3>1
    <3>3. t[i - 1] = s[i + 1]
      BY <1>1, <3>2
    <3> QED
      BY <2>1, <2>3, <3>1, <3>2, <3>3
  <2> QED
    BY <2>2, <2>3
<1> QED
  BY <1>1, <1>3

------------------------------------------------------------------------------
(* Each part is kept by every step *)

\* Every step keeps the types.
LEMMA TypeStep == TypeOK /\ [Next]_vars => TypeOK'
<1> SUFFICES ASSUME TypeOK, [Next]_vars PROVE TypeOK'
  OBVIOUS
<1> USE TimesNat, BoundsNat DEF TypeOK, netVars, timers, writers, pipes
<1>1. CASE BeatDue
  BY <1>1 DEF BeatDue, End, Writer
<1>2. ASSUME NEW w \in Writer, Lock(w) PROVE TypeOK'
  BY <1>2 DEF Lock
<1>3. ASSUME NEW w \in Writer, WriteHeader(w) PROVE TypeOK'
  <2>1. [of |-> w, part |-> "hdr"] \in Part
    BY DEF Part
  <2> QED
    BY <1>3, <2>1 DEF WriteHeader, CanWrite
<1>4. ASSUME NEW w \in Writer, WriteBody(w) PROVE TypeOK'
  <2>1. [of |-> w, part |-> "body"] \in Part
    BY DEF Part
  <2> QED
    BY <1>4, <2>1 DEF WriteBody, CanWrite
<1>5. ASSUME NEW w \in Writer, WriteFails(w) PROVE TypeOK'
  BY <1>5 DEF WriteFails
<1>6. CASE AgentPings
  BY <1>6 DEF AgentPings, End
<1>6a. CASE AgentPingFails
  BY <1>6a DEF AgentPingFails, End
<1>7. CASE AgentReads
  <2>1. Head(toAgent).of \in Writer
    <3>1. toAgent # <<>> /\ Head(toAgent) \in Part
      BY <1>7 DEF AgentReads
    <3> QED
      BY <3>1 DEF Part
  <2>2. /\ Tail(toAgent) \in Seq(Part)
        /\ Len(Tail(toAgent)) <= Capacity
    BY <1>7 DEF AgentReads
  <2> QED
    BY <1>7, <2>1, <2>2 DEF AgentReads, End
<1>8. CASE RelayReads
  BY <1>8 DEF RelayReads, End
<1>9. ASSUME NEW e \in End, ReadExpires(e) \/ ReadEnds(e) PROVE TypeOK'
  BY <1>9 DEF ReadExpires, ReadEnds
<1>10. CASE Replaced
  BY <1>10 DEF Replaced, End
<1>11. CASE Redial
  <2>1. Len(<<>>) = 0 /\ <<>> \in Seq(Part)
    OBVIOUS
  <2>2. /\ net' \in [End -> {"ok", "stalled", "cut"}]
        /\ down' \in [End -> Nat] /\ quiet' \in [End -> Nat]
        /\ open' \in [End -> BOOLEAN] /\ tick' \in [End -> BOOLEAN]
        /\ phase' \in [End -> 0..PingInterval - 1]
    BY <1>11 DEF Redial, Fresh
  <2>3. /\ toAgent' \in Seq(Part) /\ Len(toAgent') <= Capacity
        /\ toRelay' \in 0..Capacity
    BY <1>11, <2>1 DEF Redial
  <2>4. /\ UNCHANGED <<writer, mu, faults>>
        /\ half' = None /\ long' = FALSE
    BY <1>11 DEF Redial
  <2> QED
    BY <2>2, <2>3, <2>4
<1>12. CASE Tick
  <2>1. /\ down' \in [End -> Nat]
        /\ quiet' \in [End -> Nat]
        /\ tick' \in [End -> BOOLEAN]
    <3>1. down' \in [End -> Nat]
      BY <1>12 DEF Tick, Aged
    <3>2. quiet' \in [End -> Nat]
      BY <1>12 DEF Tick
    <3>3. \A e \in End : (tick[e] \/ Fires(e)) \in BOOLEAN
      BY DEF Fires
    <3>4. tick' \in [End -> BOOLEAN]
      BY <1>12, <3>3 DEF Tick
    <3> QED
      BY <3>1, <3>2, <3>4
  <2>2. phase' \in [End -> 0..PingInterval - 1]
    BY <1>12 DEF Tick, Fires
  <2>3. long' \in BOOLEAN
    BY <1>12 DEF Tick
  <2> QED
    BY <1>12, <2>1, <2>2, <2>3 DEF Tick
<1>13. ASSUME NEW c \in Client, Request(c) PROVE TypeOK'
  BY <1>13 DEF Request, Writer
<1>14. ASSUME NEW d \in End, Resumes(d) PROVE TypeOK'
  BY <1>14 DEF Resumes
<1>15. ASSUME NEW d \in End, NEW how \in {"stalled", "cut"}, Stops(d, how) PROVE TypeOK'
  BY <1>15 DEF Stops
<1>16. CASE UNCHANGED vars
  BY <1>16 DEF vars
<1> QED
  BY <1>1, <1>2, <1>3, <1>4, <1>5, <1>6, <1>6a, <1>7, <1>8, <1>9, <1>10, <1>11, <1>12,
    <1>13, <1>14, <1>15, <1>16 DEF Next, Process

\* Every step leaves ac.mu with the writer that is writing.
LEMMA MutexStep == TypeOK /\ MutexInv /\ [Next]_vars => MutexInv'
<1> SUFFICES ASSUME TypeOK, MutexInv, [Next]_vars PROVE MutexInv'
  OBVIOUS
<1> USE WritersDiffer DEF TypeOK, MutexInv, Writer, netVars, timers, writers, pipes
<1>1. CASE BeatDue
  BY <1>1 DEF BeatDue
<1>2. ASSUME NEW w \in Writer, Lock(w) PROVE MutexInv'
  BY <1>2 DEF Lock
<1>3. ASSUME NEW w \in Writer, WriteHeader(w) PROVE MutexInv'
  BY <1>3 DEF WriteHeader
<1>4. ASSUME NEW w \in Writer, WriteBody(w) PROVE MutexInv'
  BY <1>4 DEF WriteBody
<1>5. ASSUME NEW w \in Writer, WriteFails(w) PROVE MutexInv'
  BY <1>5 DEF WriteFails
<1>6. CASE AgentPings \/ AgentPingFails \/ AgentReads \/ RelayReads
  BY <1>6 DEF AgentPings, AgentPingFails, AgentReads, RelayReads
<1>7. ASSUME NEW e \in End, ReadExpires(e) \/ ReadEnds(e) PROVE MutexInv'
  BY <1>7 DEF ReadExpires, ReadEnds
<1>8. CASE Replaced \/ Redial
  BY <1>8 DEF Replaced, Redial
<1>9. CASE Tick
  BY <1>9 DEF Tick
<1>10. ASSUME NEW c \in Client, Request(c) PROVE MutexInv'
  BY <1>10 DEF Request
<1>11. ASSUME NEW d \in End, Resumes(d) PROVE MutexInv'
  BY <1>11 DEF Resumes
<1>12. ASSUME NEW d \in End, NEW how \in {"stalled", "cut"}, Stops(d, how) PROVE MutexInv'
  BY <1>12 DEF Stops
<1>13. CASE UNCHANGED vars
  BY <1>13 DEF vars
<1> QED
  BY <1>1, <1>2, <1>3, <1>4, <1>5, <1>6, <1>7, <1>8, <1>9, <1>10, <1>11, <1>12,
    <1>13 DEF Next, Process

\* A step that neither writes nor reads, and neither begins nor ends the second half
\* of a frame, leaves the stream as it is.
LEMMA StreamStill ==
    ASSUME TypeOK, StreamInv, UNCHANGED <<toAgent, half>>,
           \A e \in End : open'[e] => open[e],
           \A w \in Writer : writer'[w] = "body" <=> writer[w] = "body"
    PROVE  StreamInv'
<1>1. Stream' = Stream
  BY DEF Stream
<1>2. Framed'
  BY <1>1 DEF Framed, StreamInv, End
<1>3. Stream # <<>> => Tip \in Part
  BY StreamType DEF Tip
<1>4. Stream # <<>> => Tip.of \in Writer
  BY <1>3 DEF Part
<1>5. TipInv'
  BY <1>1, <1>4 DEF StreamInv, TipInv, Tip, End
<1> QED
  BY <1>2, <1>5 DEF StreamInv

\* The agent gets a link by dialling only.
LEMMA AgentKept == TypeOK /\ [Next]_vars => Redial \/ ~open'["agent"] \/ open["agent"]
<1> SUFFICES ASSUME TypeOK, [Next]_vars, ~Redial, ~open["agent"] PROVE ~open'["agent"]
  OBVIOUS
<1> USE DEF TypeOK, End
<1>1. ASSUME NEW w \in Writer, Lock(w) \/ WriteHeader(w) \/ WriteBody(w) \/ WriteFails(w)
      PROVE  ~open'["agent"]
  BY <1>1 DEF Lock, WriteHeader, WriteBody, WriteFails
<1>2. CASE BeatDue \/ AgentPings \/ AgentPingFails \/ AgentReads \/ RelayReads
  BY <1>2 DEF BeatDue, AgentPings, AgentPingFails, AgentReads, RelayReads
<1>3. ASSUME NEW e \in End, ReadExpires(e) \/ ReadEnds(e) PROVE ~open'["agent"]
  BY <1>3 DEF ReadExpires, ReadEnds
<1>4. CASE Replaced \/ Tick
  BY <1>4 DEF Replaced, Tick
<1>5. ASSUME NEW c \in Client, Request(c) PROVE ~open'["agent"]
  BY <1>5 DEF Request
<1>6. ASSUME NEW d \in End, Resumes(d) \/ (\E how \in {"stalled", "cut"} : Stops(d, how))
      PROVE  ~open'["agent"]
  BY <1>6 DEF Resumes, Stops
<1>7. CASE UNCHANGED vars
  BY <1>7 DEF vars
<1> QED
  BY <1>1, <1>2, <1>3, <1>4, <1>5, <1>6, <1>7 DEF Next, Process

\* Every step leaves the frames whole.
LEMMA StreamStep == TypeOK /\ MutexInv /\ StreamInv /\ [Next]_vars => StreamInv'
<1> SUFFICES ASSUME TypeOK, MutexInv, StreamInv, [Next]_vars PROVE StreamInv'
  OBVIOUS
<1>0. CASE ~open'["agent"]
  BY <1>0 DEF StreamInv, Framed, TipInv
<1>11. CASE Redial
  <2>1. Stream' = <<>>
    BY <1>11 DEF Redial, Stream
  <2>2. \A w \in Writer : writer'[w] # "body"
    BY <1>11 DEF Redial, writers
  <2> QED
    BY <2>1, <2>2 DEF StreamInv, Framed, TipInv
\* From here on the agent has the link before the step and after it.
<1> SUFFICES ASSUME open'["agent"], ~Redial, open["agent"] PROVE StreamInv'
  BY <1>0, <1>11, AgentKept
<1> USE DEF netVars, timers, writers, pipes
<1>1. Stream \in Seq(Part) /\ FramedSeq(Stream)
  BY StreamType DEF StreamInv, Framed, FramedSeq
<1>2. CASE BeatDue
  BY <1>2, StreamStill DEF BeatDue, TypeOK
<1>3. ASSUME NEW w \in Writer, Lock(w) PROVE StreamInv'
  BY <1>3, StreamStill DEF Lock, TypeOK
<1>4. ASSUME NEW w \in Writer, WriteHeader(w) PROVE StreamInv'
  <2> DEFINE header == [of |-> w, part |-> "hdr"]
  <2>1. header \in Part
    BY DEF Part
  <2>2. Stream' = Append(Stream, header)
    BY <1>4, <2>1 DEF WriteHeader, Stream, TypeOK
  <2>3. Stream # <<>> => Stream[Len(Stream)].part # "hdr"
    <3>1. \A v \in Writer : writer[v] # "body"
      BY <1>4 DEF WriteHeader, MutexInv, TypeOK
    <3>2. Stream # <<>> => Tip \in Part
      BY <1>1 DEF Tip
    <3> QED
      BY <1>4, <3>1, <3>2 DEF WriteHeader, CanWrite, StreamInv, TipInv, Tip, Part
  <2>4. Framed'
    BY <1>1, <2>2, <2>3, FramedHeader DEF Framed, FramedSeq
  <2>5. Stream' # <<>> /\ Tip' = header
    BY <1>1, <2>1, <2>2 DEF Tip
  <2>6. \A v \in Writer : writer'[v] = "body" <=> v = w
    BY <1>4 DEF WriteHeader, MutexInv, TypeOK
  <2> QED
    BY <2>4, <2>5, <2>6 DEF StreamInv, TipInv
<1>5. ASSUME NEW w \in Writer, WriteBody(w) PROVE StreamInv'
  <2> DEFINE body == [of |-> w, part |-> "body"]
  <2>1. body \in Part
    BY DEF Part
  <2>2. Stream' = Append(Stream, body)
    BY <1>5, <2>1 DEF WriteBody, Stream, TypeOK
  <2>3. Stream # <<>> /\ Stream[Len(Stream)] = [of |-> w, part |-> "hdr"]
    BY <1>5 DEF WriteBody, CanWrite, StreamInv, TipInv, Tip
  <2>4. Framed'
    BY <1>1, <2>2, <2>3, FramedBody DEF Framed, FramedSeq
  <2>5. Stream' # <<>> /\ Tip' = body
    BY <1>1, <2>1, <2>2 DEF Tip
  <2>6. \A v \in Writer : writer'[v] # "body"
    BY <1>5 DEF WriteBody, MutexInv, TypeOK
  <2> QED
    BY <2>4, <2>5, <2>6 DEF StreamInv, TipInv
<1>6. ASSUME NEW w \in Writer, WriteFails(w) PROVE StreamInv'
  <2>1. Stream' = Stream
    BY <1>6 DEF WriteFails, Stream
  <2>2. ~open'["relay"]
    BY <1>6 DEF WriteFails, Reset, Other, TypeOK, End
  <2> QED
    BY <2>1, <2>2 DEF StreamInv, Framed, TipInv
<1>7. CASE AgentPings \/ RelayReads
  BY <1>7, StreamStill DEF AgentPings, RelayReads
<1>7a. CASE AgentPingFails
  BY <1>7a DEF AgentPingFails, TypeOK, End
<1>8. CASE AgentReads
  <2>1. toAgent # <<>> /\ toAgent \in Seq(Part) /\ toAgent' = Tail(toAgent)
    BY <1>8 DEF AgentReads, TypeOK
  <2>2. CASE half = None
    <3>1. Stream = toAgent /\ Head(toAgent).part = "hdr" /\ Head(toAgent) \in Part
      <4>1. Stream = toAgent
        BY <2>1, <2>2 DEF Stream
      <4>2. 1 \in DOMAIN toAgent /\ toAgent[1] = Head(toAgent) /\ toAgent[1] \in Part
        BY <2>1
      <4>3. toAgent[1].part # "hdr" => 1 > 1
        BY <1>1, <4>1, <4>2 DEF FramedSeq
      <4> QED
        BY <4>1, <4>2, <4>3
    <3>2. Head(toAgent) = [of |-> half', part |-> "hdr"] /\ half' # None
      BY <1>8, <2>2, <3>1, WritersDiffer DEF AgentReads, Part, Writer
    <3>3. Stream' = Stream
      BY <2>1, <3>1, <3>2 DEF Stream
    <3>4. UNCHANGED <<open, writer>>
      BY <1>8 DEF AgentReads
    <3> QED
      BY <3>3, <3>4 DEF StreamInv, Framed, TipInv, Tip
  <2>3. CASE half # None
    <3>1. Stream' = Tail(toAgent) /\ UNCHANGED <<open, writer>>
      BY <1>8, <2>1, <2>3 DEF AgentReads, Stream
    <3>2. /\ Len(Stream) = Len(Stream') + 2 /\ Stream' \in Seq(Part)
          /\ Stream[1].part = "hdr"
          /\ \A i \in 1..Len(Stream') : Stream'[i] = Stream[i + 2]
      BY <2>1, <2>3, <3>1, StreamType
    <3>3. FramedSeq(Stream')
      BY <1>1, <3>2, FramedRest
    <3>4. Stream[2].part = "body"
      <4>1. 1 \in DOMAIN Stream /\ 1 < Len(Stream) /\ 1 + 1 = 2
        BY <1>1, <3>2
      <4>2. Stream[1 + 1] = [of |-> Stream[1].of, part |-> "body"]
        BY <1>1, <3>2, <4>1 DEF FramedSeq
      <4> QED
        BY <4>1, <4>2
    <3>5. Stream' # <<>> => Tip' = Tip
      BY <3>2 DEF Tip
    <3>6. Stream' = <<>> => Tip = Stream[2]
      BY <1>1, <3>2 DEF Tip
    <3>7. TipInv'
      <4>1. Stream # <<>>
        BY <1>1, <3>2
      <4>2. Stream' = <<>> => Tip.part # "hdr"
        BY <3>4, <3>6
      <4> QED
        BY <3>1, <3>5, <4>1, <4>2 DEF StreamInv, TipInv
    <3> QED
      BY <3>3, <3>7 DEF StreamInv, Framed, FramedSeq
  <2> QED
    BY <2>2, <2>3
<1>9. ASSUME NEW e \in End, ReadExpires(e) \/ ReadEnds(e) PROVE StreamInv'
  BY <1>9, StreamStill DEF ReadExpires, ReadEnds, TypeOK, End
<1>10. CASE Replaced
  BY <1>10, StreamStill DEF Replaced, TypeOK, End
<1>12. CASE Tick
  BY <1>12, StreamStill DEF Tick
<1>13. ASSUME NEW c \in Client, Request(c) PROVE StreamInv'
  BY <1>13, StreamStill DEF Request, TypeOK
<1>14. ASSUME NEW d \in End, Resumes(d) PROVE StreamInv'
  BY <1>14, StreamStill DEF Resumes
<1>15. ASSUME NEW d \in End, NEW how \in {"stalled", "cut"}, Stops(d, how) PROVE StreamInv'
  BY <1>15, StreamStill DEF Stops
<1>16. CASE UNCHANGED vars
  BY <1>16, StreamStill DEF vars
<1> QED
  BY <1>2, <1>3, <1>4, <1>5, <1>6, <1>7, <1>7a, <1>8, <1>9, <1>10, <1>12, <1>13,
    <1>14, <1>15, <1>16 DEF Next, Process

\* How the count of a connection's silence goes on.
LEMMA AgedFacts ==
    ASSUME TypeOK, NEW d \in End
    PROVE  /\ Aged(d) \in Nat /\ Aged(d) <= down[d] + 1
           /\ net[d] = "ok" => Aged(d) = 0
           /\ net[d] # "ok" /\ down[d] <= 2 * ReadTimeout => Aged(d) = down[d] + 1
           /\ Tick => down'[d] = Aged(d)
<1>1. down[d] \in Nat
  BY DEF TypeOK
<1>2. CASE net[d] = "ok"
  <2>1. Aged(d) = 0
    BY <1>2 DEF Aged
  <2> QED
    BY <1>1, <1>2, <2>1 DEF Tick
<1>3. CASE net[d] # "ok" /\ down[d] > 2 * ReadTimeout
  <2>1. Aged(d) = down[d]
    BY <1>3 DEF Aged
  <2> QED
    BY <1>1, <1>3, <2>1, TimesNat DEF Tick
<1>4. CASE net[d] # "ok" /\ ~(down[d] > 2 * ReadTimeout)
  <2>1. Aged(d) = down[d] + 1
    BY <1>4 DEF Aged
  <2> QED
    BY <1>1, <1>4, <2>1 DEF Tick
<1> QED
  BY <1>2, <1>3, <1>4

\* A silence that a link which is still read has seen is short of the bound.
LEMMA OpenCounts ==
    ASSUME TypeOK, DownInv, NEW d \in End, open[d]
    PROVE  down[d] \in Nat /\ down[d] <= 2 * ReadTimeout
BY TimesNat DEF TypeOK, DownInv

\* Every step keeps an open end's silence as long as its direction is down.
LEMMA DownStep == TypeOK /\ DownInv /\ [Next]_vars => DownInv'
<1> SUFFICES ASSUME TypeOK, DownInv, [Next]_vars PROVE DownInv'
  OBVIOUS
<1> USE TimesNat DEF TypeOK, DownInv, End, Other, netVars, timers, writers, pipes
<1>1. CASE BeatDue
  BY <1>1 DEF BeatDue
<1>2. ASSUME NEW w \in Writer, Lock(w) \/ WriteHeader(w) \/ WriteBody(w) \/ WriteFails(w)
      PROVE  DownInv'
  BY <1>2 DEF Lock, WriteHeader, WriteBody, WriteFails, Reset
<1>3. CASE AgentPings \/ AgentPingFails
  BY <1>3 DEF AgentPings, AgentPingFails, Reset
<1>4. CASE AgentReads
  BY <1>4 DEF AgentReads
<1>5. CASE RelayReads
  BY <1>5 DEF RelayReads
<1>6. ASSUME NEW e \in End, ReadExpires(e) PROVE DownInv'
  BY <1>6 DEF ReadExpires
<1>7. ASSUME NEW e \in End, ReadEnds(e) PROVE DownInv'
  BY <1>7 DEF ReadEnds
<1>8. CASE Replaced
  BY <1>8 DEF Replaced
<1>9. CASE Redial
  BY <1>9 DEF Redial, Fresh
<1>10. CASE Tick
  <2> SUFFICES ASSUME NEW d \in End, open[d]
               PROVE  /\ down'[d] <= ReadTimeout
                      /\ net[d] # "ok" => down'[d] <= quiet'[d]
                      /\ ~open[Other(d)] => down'[Other(d)] <= ReadTimeout + down'[d]
    BY <1>10 DEF Tick
  <2>1. /\ quiet[d] < ReadTimeout
        /\ net[d] = "ok" => open[Other(d)]
    BY <1>10 DEF Tick, Idle
  <2>2. quiet'[d] = quiet[d] + 1
    BY <1>10, <2>1 DEF Tick
  <2>3. /\ net[d] = "ok" => down'[d] = 0
        /\ net[d] # "ok" => down'[d] = down[d] + 1
    BY <1>10, AgedFacts, OpenCounts
  <2>4. \A o \in End : down'[o] \in Nat /\ down'[o] <= down[o] + 1
    BY <1>10, AgedFacts
  <2>5. Other(d) \in End
    OBVIOUS
  <2>6. CASE net[d] = "ok"
    BY <2>1, <2>3, <2>6
  <2>7. CASE net[d] # "ok"
    <3>1. /\ down[d] <= quiet[d] /\ down[d] \in Nat /\ quiet[d] \in Nat
          /\ ~open[Other(d)] => down[Other(d)] <= ReadTimeout + down[d]
      BY <2>7
    <3>2. /\ down'[Other(d)] <= down[Other(d)] + 1
          /\ down'[Other(d)] \in Nat /\ down[Other(d)] \in Nat
      BY <2>4, <2>5
    <3>3. ReadTimeout \in Nat
      OBVIOUS
    <3> HIDE DEF TypeOK, DownInv, Other
    <3> QED
      BY <2>1, <2>2, <2>3, <2>7, <3>1, <3>2, <3>3
  <2> QED
    BY <2>6, <2>7
<1>11. ASSUME NEW c \in Client, Request(c) PROVE DownInv'
  BY <1>11 DEF Request
<1>12. ASSUME NEW d \in End, Resumes(d) PROVE DownInv'
  BY <1>12 DEF Resumes
<1>13. ASSUME NEW d \in End, NEW how \in {"stalled", "cut"}, Stops(d, how) PROVE DownInv'
  BY <1>13 DEF Stops
<1>14. CASE UNCHANGED vars
  BY <1>14 DEF vars
<1> QED
  BY <1>1, <1>2, <1>3, <1>4, <1>5, <1>6, <1>7, <1>8, <1>9, <1>10, <1>11, <1>12,
    <1>13, <1>14 DEF Next, Process

\* Time passes at an end that something is under way to only if the network holds
\* that up.
LEMMA IdleOnlyDown ==
    ASSUME TypeOK, MutexInv, StreamInv, Idle, \A e \in End : open[e],
           NEW e \in End, Pending(e)
    PROVE  net[e] # "ok"
<1> USE BoundsNat, WritersDiffer DEF TypeOK
<1>1. CASE e = "relay"
  BY <1>1 DEF Idle, Pending, End
<1>2. CASE e = "agent"
  <2> SUFFICES ASSUME net["agent"] = "ok" PROVE FALSE
    BY <1>2
  <2>1. open["relay"] /\ open["agent"]
    BY DEF End
  <2>2. toAgent = <<>> /\ Len(toAgent) = 0
    BY <2>1 DEF Idle
  <2>3. \A w \in Writer : writer[w] \notin {"hdr", "body"}
    BY <2>2 DEF Idle
  <2>4. mu = None
    BY <2>3 DEF MutexInv
  <2>5. writer[Beat] = "idle"
    BY <2>3, <2>4 DEF Idle, MutexInv, Writer
  <2>6. half = None
    <3> SUFFICES ASSUME half # None PROVE FALSE
      OBVIOUS
    <3>1. /\ Len(Stream) = 1 /\ Stream # <<>>
          /\ Stream[1] = [of |-> half, part |-> "hdr"] /\ half \in Writer
      BY <2>2, StreamType
    <3> QED
      BY <2>1, <2>3, <3>1 DEF StreamInv, TipInv, Tip
  <2> QED
    BY <1>2, <2>1, <2>2, <2>5, <2>6 DEF Pending, Idle
<1> QED
  BY <1>1, <1>2 DEF End

\* Nothing is given up by a step that opens and closes nothing, lets no time pass
\* and drops nothing that is on its way.
LEMMA Steady ==
    ASSUME AwakeInv, UNCHANGED <<down, long, open, quiet, phase>>,
           \A e \in End : Pending(e) => Pending(e)'
    PROVE  AwakeInv'
BY DEF AwakeInv, HealthyKept

\* While both ends have the link, a deadline passes only after a long outage.
LEMMA SilentLong ==
    ASSUME TypeOK, AwakeInv, \A d \in End : open[d], NEW e \in End, quiet[e] >= ReadTimeout
    PROVE  long
<1>1. quiet[e] <= PingInterval + down[e] /\ (down[e] >= ReadTimeout - PingInterval => long)
  BY DEF AwakeInv
<1>2. quiet[e] \in Nat /\ down[e] \in Nat
  BY DEF TypeOK
<1> QED
  BY <1>1, <1>2, TimesNat

\* Every step keeps an end that works from giving the link up.
LEMMA AwakeStep == IInv /\ [Next]_vars => AwakeInv'
<1> SUFFICES ASSUME IInv, [Next]_vars PROVE AwakeInv'
  OBVIOUS
<1> USE TimesNat, BoundsNat DEF IInv, TypeOK, AwakeInv, HealthyKept, Pending, End,
      Other, netVars, timers, writers, pipes
<1>1. CASE BeatDue
  BY <1>1 DEF BeatDue, Writer
<1>2. ASSUME NEW w \in Writer, Lock(w) PROVE AwakeInv'
  BY <1>2 DEF Lock
<1>3. ASSUME NEW w \in Writer, WriteHeader(w) \/ WriteBody(w) PROVE AwakeInv'
  <2>1. UNCHANGED <<netVars, open, quiet, timers, toRelay>>
    BY <1>3 DEF WriteHeader, WriteBody
  <2>2. toAgent' # <<>>
    <3>1. toAgent' = Append(toAgent, [of |-> w, part |-> "hdr"])
          \/ toAgent' = Append(toAgent, [of |-> w, part |-> "body"])
      BY <1>3 DEF WriteHeader, WriteBody
    <3>2. toAgent \in Seq(Part)
      BY DEF TypeOK
    <3> QED
      BY <3>1, <3>2 DEF Part
  <2>3. \A e \in End : Pending(e) => Pending(e)'
    BY <2>1, <2>2
  <2>4. AwakeInv /\ UNCHANGED <<down, long, open, quiet, phase>>
    BY <2>1
  <2> HIDE DEF AwakeInv, Pending
  <2> QED
    BY <2>3, <2>4, Steady
<1>5. ASSUME NEW w \in Writer, WriteFails(w) PROVE AwakeInv'
  BY <1>5 DEF WriteFails, Reset
<1>6. CASE AgentPings
  BY <1>6 DEF AgentPings
<1>6a. CASE AgentPingFails
  BY <1>6a DEF AgentPingFails, Reset
<1>7. CASE AgentReads
  <2>1. CASE half # None
    BY <1>7, <2>1 DEF AgentReads
  <2>2. CASE half = None
    <3>1. half' \in Writer
      <4>1. toAgent # <<>> /\ Head(toAgent) \in Part
        BY <1>7 DEF AgentReads
      <4> QED
        BY <1>7, <2>2, <4>1 DEF AgentReads, Part
    <3>2. half' # None
      BY <3>1, WritersDiffer DEF Writer
    <3>3. UNCHANGED <<netVars, open, quiet, timers, writers, toRelay>>
      BY <1>7, <2>2 DEF AgentReads
    <3> QED
      BY <3>2, <3>3
  <2> QED
    BY <2>1, <2>2
<1>8. CASE RelayReads
  BY <1>8 DEF RelayReads
<1>9. ASSUME NEW e \in End, ReadExpires(e) PROVE AwakeInv'
  <2>1. open' = [open EXCEPT ![e] = FALSE] /\ quiet[e] >= ReadTimeout
        /\ UNCHANGED <<netVars, quiet, timers>>
    BY <1>9 DEF ReadExpires
  <2>2. long
    BY <2>1, SilentLong
  <2>3. ~open'[e]
    BY <2>1
  <2> QED
    BY <2>1, <2>2, <2>3
<1>10. ASSUME NEW e \in End, ReadEnds(e) PROVE AwakeInv'
  BY <1>10 DEF ReadEnds
<1>11. CASE Replaced
  BY <1>11 DEF Replaced
<1>12. CASE Redial
  BY <1>12 DEF Redial, Fresh
<1>13. CASE Tick
  <2>1. UNCHANGED open /\ HealthyKept'
    BY <1>13 DEF Tick
  <2>2. \A d \in End : down'[d] >= ReadTimeout - PingInterval => long'
    BY <1>13 DEF Tick
  <2>3. ASSUME \A e \in End : open[e], NEW e \in End
        PROVE  /\ quiet'[e] <= PingInterval + down'[e]
               /\ quiet'[e] <= phase'[Other(e)] \/ Pending(e)'
    <3>1. /\ quiet[e] < ReadTimeout /\ quiet'[e] = quiet[e] + 1
          /\ quiet[e] <= PingInterval + down[e]
          /\ quiet[e] <= phase[Other(e)] \/ Pending(e)
      BY <1>13, <2>3 DEF Tick, Idle
    <3>2. Pending(e) => Pending(e)'
      BY <1>13 DEF Tick
    <3>3. /\ Fires(Other(e)) => Pending(e)'
          /\ ~Fires(Other(e)) => phase'[Other(e)] = phase[Other(e)] + 1
      BY <1>13 DEF Tick, Fires
    <3>4. phase[Other(e)] \in Nat /\ phase[Other(e)] < PingInterval /\ quiet[e] \in Nat
      OBVIOUS
    <3>5. quiet'[e] <= phase'[Other(e)] \/ Pending(e)'
      <4> HIDE DEF Pending, Other
      <4>1. CASE Pending(e) \/ Fires(Other(e))
        BY <3>2, <3>3, <4>1
      <4>2. CASE ~Pending(e) /\ ~Fires(Other(e))
        <5>1. quiet'[e] = quiet[e] + 1 /\ phase'[Other(e)] = phase[Other(e)] + 1
              /\ quiet[e] <= phase[Other(e)]
          BY <3>1, <3>3, <4>2
        <5> QED
          BY <3>4, <5>1
      <4> QED
        BY <4>1, <4>2
    <3>6. CASE net[e] = "ok"
      <4>1. ~Pending(e) /\ down'[e] = 0
        BY <1>13, <2>3, <3>6, IdleOnlyDown DEF Tick, Aged
      <4> HIDE DEF Pending, Other
      <4> QED
        BY <3>1, <3>4, <3>5, <4>1
    <3>7. CASE net[e] # "ok"
      <4>1. down'[e] = down[e] + 1
        BY <1>13, <2>3, <3>7, AgedFacts, OpenCounts
      <4>2. quiet[e] \in Nat /\ down[e] \in Nat /\ PingInterval \in Nat
        OBVIOUS
      <4> HIDE DEF Pending, Other, IInv, TypeOK, AwakeInv
      <4>3. quiet'[e] <= PingInterval + down'[e]
        BY <3>1, <4>1, <4>2
      <4> QED
        BY <3>5, <4>3
    <3> QED
      BY <3>6, <3>7
  <2> QED
    BY <2>1, <2>2, <2>3
<1>14. ASSUME NEW c \in Client, Request(c) PROVE AwakeInv'
  BY <1>14, WritersDiffer DEF Request
<1>15. ASSUME NEW d \in End, Resumes(d) PROVE AwakeInv'
  BY <1>15 DEF Resumes
<1>16. ASSUME NEW d \in End, NEW how \in {"stalled", "cut"}, Stops(d, how) PROVE AwakeInv'
  BY <1>16 DEF Stops
<1>17. CASE UNCHANGED vars
  BY <1>17 DEF vars
<1> QED
  BY <1>1, <1>2, <1>3, <1>5, <1>6, <1>6a, <1>7, <1>8, <1>9, <1>10, <1>11, <1>12,
    <1>13, <1>14, <1>15, <1>16, <1>17 DEF Next, Process

------------------------------------------------------------------------------
(* The theorems *)

LEMMA InitIInv == Init => IInv
<1> SUFFICES ASSUME Init PROVE IInv
  OBVIOUS
<1> USE TimesNat, BoundsNat, WritersDiffer DEF Init, Fresh
<1>1. TypeOK
  <2>1. <<>> \in Seq(Part) /\ Len(<<>>) = 0
    OBVIOUS
  <2>2. phase \in [End -> 0..PingInterval - 1]
    OBVIOUS
  <2>3. writer \in [Writer -> {"idle", "lock", "hdr", "body", "told", "failed"}]
    OBVIOUS
  <2>4. /\ net \in [End -> {"ok", "stalled", "cut"}]
        /\ open \in [End -> BOOLEAN] /\ tick \in [End -> BOOLEAN]
        /\ down \in [End -> Nat] /\ quiet \in [End -> Nat]
    OBVIOUS
  <2>5. /\ toAgent \in Seq(Part) /\ Len(toAgent) <= Capacity
        /\ toRelay \in 0..Capacity /\ faults \in 0..MaxFaults
    BY <2>1
  <2>6. mu \in Writer \cup {None} /\ half \in Writer \cup {None} /\ long \in BOOLEAN
    OBVIOUS
  <2> HIDE DEF Init
  <2> QED
    BY <2>2, <2>3, <2>4, <2>5, <2>6 DEF TypeOK
<1>2. MutexInv
  BY DEF MutexInv, Writer
<1>3. StreamInv
  <2>1. Stream = <<>>
    BY DEF Stream
  <2> QED
    BY <2>1 DEF StreamInv, Framed, TipInv
<1>4. DownInv
  BY DEF DownInv, End, Other
<1>5. AwakeInv
  BY DEF AwakeInv, HealthyKept, Pending, End, Other
<1> QED
  BY <1>1, <1>2, <1>3, <1>4, <1>5 DEF IInv

\* The parts of the invariant hold throughout every behaviour.
THEOREM Invariance == Spec => []IInv
<1>1. IInv /\ [Next]_vars => IInv'
  BY TypeStep, MutexStep, StreamStep, DownStep, AwakeStep DEF IInv
<1> QED
  BY <1>1, InitIInv, PTL DEF Spec

\* Every variable keeps its type and the connection its capacity, whatever the
\* number of clients, the intervals and the faults.
THEOREM TypeCorrect == Spec => []TypeOK
<1>1. IInv => TypeOK
  BY DEF IInv
<1> QED
  BY <1>1, Invariance, PTL

\* ac.mu keeps the two writes of a frame together, however many clients ask for
\* the agent while the heartbeat pings it.
THEOREM FramesWhole == Spec => []Framed
<1>1. IInv => Framed
  BY DEF IInv, StreamInv
<1> QED
  BY <1>1, Invariance, PTL

\* Both ends keep a link whose outages are shorter than ReadTimeout - PingInterval.
THEOREM HealthySurvives == Spec => []HealthyKept
<1>1. IInv => HealthyKept
  BY DEF IInv, AwakeInv
<1> QED
  BY <1>1, Invariance, PTL

\* Within ReadTimeout of the loss of one direction the end that it leads to has
\* given the link up, and within twice that time so has the other.
THEOREM DeathNoticed == Spec => []DeadNoticed
<1>1. IInv => DeadNoticed
  <2> SUFFICES ASSUME IInv, NEW d \in End
               PROVE  /\ open[d] => down[d] <= ReadTimeout
                      /\ open[Other(d)] => down[d] <= 2 * ReadTimeout
    BY DEF DeadNoticed
  <2>1. /\ Other(d) \in End /\ Other(Other(d)) = d
        /\ down[d] \in Nat /\ down[Other(d)] \in Nat /\ ReadTimeout \in Nat
    BY TimesNat DEF IInv, TypeOK, End, Other
  <2> QED
    BY <2>1 DEF IInv, DownInv
<1> QED
  BY <1>1, Invariance, PTL

===============================================================================
