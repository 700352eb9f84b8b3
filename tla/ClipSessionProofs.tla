--------------------------- MODULE ClipSessionProofs ---------------------------
(* Proofs about ClipSession for all limits, every number of attempts and every *)
(* number of failures: its type invariant, sync is not declared up unless the *)
(* agent serves it, and failures in a row slow down.                          *)

EXTENDS ClipSession, TLAPS, WellFoundedInduction

------------------------------------------------------------------------------
(* The inductive invariant, in named parts *)

\* TypeOK, but for what a connection carries and how many sessions have failed.
Typed ==
    /\ wsURL \in BOOLEAN
    /\ pc \in {"dial", "ack", "hello", "sync", "sleep"}
    /\ attempt \in 0..Attempts
    /\ elapsed \in Nat
    /\ backoff \in MinBackoff..MaxBackoff
    /\ request \in {"none", "made", "parked", "served", "silent", "closed"}
    /\ ackDue \in BOOLEAN /\ cut \in BOOLEAN
    /\ inbox \in Seq({"ok", "nak", "hello"})
    /\ failures \in 0..MaxFailures
    /\ failed \in Nat

\* A hello comes from an agent that serves the request, and the request stays as it
\* is from then on, until the client closes its connection.
HelloInv == \A i \in DOMAIN inbox : inbox[i] = "hello" => request = "served"

\* A nak comes from a relay that has closed the connection.
NakInv == \A i \in DOMAIN inbox : inbox[i] = "nak" => request = "closed"

\* Between two connections nothing is left of the last one.
RestInv ==
    pc \in {"dial", "sleep"} => request = "none" /\ ~ackDue /\ inbox = <<>> /\ ~cut

\* The ack that is due and the hello of a parked request have their place in the inbox.
RoomInv ==
    /\ Len(inbox) <= 2
    /\ ackDue \/ request = "parked" => Len(inbox) <= 1
    /\ ackDue /\ request = "parked" => Len(inbox) = 0
    /\ request = "made" => inbox = <<>> /\ ~ackDue

\* An ack that has been written waits in the inbox until it is read.
AckInv == pc = "ack" /\ request = "parked" /\ ~ackDue /\ ~cut => inbox # <<>>

\* This session cannot come up: something has gone wrong, and it has been counted.
Troubled ==
    \/ pc = "dial" /\ attempt = Attempts
    \/ pc \in {"ack", "hello"} /\ (cut \/ request \in {"closed", "silent"})
    \/ pc \in {"ack", "hello"} /\ request = "served" /\ ackDue
    \/ pc = "ack" /\ inbox # <<>> /\ Head(inbox) = "hello"

\* No more sessions have failed than things have gone wrong.
CountInv == failed <= failures /\ (Troubled => failed < failures)

\* What a session has taken so far, at most, if no dial of it has overrun.
Dialling == DialLimit + 3 * Attempts
TimeInv == failed > 0 =>
    /\ pc = "dial" => elapsed <= attempt * Dialling
    /\ pc = "ack" => elapsed <= Attempts * Dialling
    /\ pc = "hello" => elapsed <= Attempts * Dialling + AckLimit

\* The pause is ready for the session that is being set up to fail as well.
SlowInv ==
    /\ pc \in {"dial", "ack", "hello"} => backoff >= Slowed(failed + 1)
    /\ pc = "sync" => failed = 0
    /\ SlowsDown

IInv ==
    /\ Typed /\ HelloInv /\ NakInv /\ RestInv /\ RoomInv /\ AckInv
    /\ CountInv /\ TimeInv /\ SlowInv /\ UpMeansServed

------------------------------------------------------------------------------
(* Powers of two, and the pauses they make *)

NatLess == {ss \in Nat \X Nat : ss[1] < ss[2]}

\* A set of numbers that is not empty has a least one.
LEMMA Least ==
    ASSUME NEW T \in SUBSET Nat, T # {}
    PROVE  \E n \in T : \A m \in T : ~(m < n)
<1>1. IsWellFoundedOn(NatLess, Nat)
  BY NatLessThanWellFounded DEF OpToRel, NatLess
<1>2. PICK n \in T : \A m \in T : <<m, n>> \notin NatLess
  BY <1>1, WFMin
<1>3. \A m \in T : ~(m < n)
  BY <1>2 DEF NatLess
<1> QED
  BY <1>3

\* f doubles from 1 on, up to n.
Doubles(f, n) == f[0] = 1 /\ \A i \in 1..n : f[i] = 2 * f[i - 1]

\* Such a function exists for every n.
LEMMA DoublesExists ==
    ASSUME NEW n \in Nat
    PROVE  \E f \in [0..n -> Nat] : Doubles(f, n)
<1> DEFINE T == {m \in Nat : ~ \E f \in [0..m -> Nat] : Doubles(f, m)}
<1> SUFFICES ASSUME T # {} PROVE FALSE
  OBVIOUS
<1>1. PICK m \in T : \A k \in T : ~(k < m)
  BY Least
<1>2. CASE m = 0
  <2> DEFINE f == [i \in 0..m |-> 1]
  <2>1. f \in [0..m -> Nat] /\ f[0] = 1 /\ 1..m = {}
    BY <1>2
  <2> QED
    BY <2>1 DEF Doubles
<1>3. CASE m # 0
  <2>1. m \in Nat /\ m - 1 \in Nat /\ m - 1 < m
    BY <1>3
  <2>2. PICK f \in [0..m - 1 -> Nat] : Doubles(f, m - 1)
    BY <1>1, <2>1
  <2> DEFINE g == [i \in 0..m |-> IF i = m THEN 2 * f[m - 1] ELSE f[i]]
  <2>3. g \in [0..m -> Nat]
    BY <2>1
  <2>4. g[0] = 1
    BY <1>3, <2>1, <2>2 DEF Doubles
  <2>5. ASSUME NEW i \in 1..m PROVE g[i] = 2 * g[i - 1]
    <3>1. CASE i = m
      BY <2>1, <3>1
    <3>2. CASE i # m
      BY <2>1, <2>2, <3>2 DEF Doubles
    <3> QED
      BY <3>1, <3>2
  <2>6. Doubles(g, m)
    BY <2>4, <2>5 DEF Doubles
  <2> QED
    BY <2>3, <2>6
<1> QED
  BY <1>2, <1>3

\* Two of them agree as far as both go.
LEMMA DoublesAgree ==
    ASSUME NEW n \in Nat, NEW f, Doubles(f, n), NEW k \in Nat, NEW g, Doubles(g, k)
    PROVE  \A i \in Nat : i <= n /\ i <= k => f[i] = g[i]
<1> DEFINE T == {i \in Nat : i <= n /\ i <= k /\ f[i] # g[i]}
<1> SUFFICES ASSUME T # {} PROVE FALSE
  OBVIOUS
<1>1. PICK i \in T : \A j \in T : ~(j < i)
  BY Least
<1>2. i # 0
  BY DEF Doubles
<1>3. f[i - 1] = g[i - 1]
  BY <1>1, <1>2
<1> QED
  BY <1>2, <1>3 DEF Doubles

\* TwoTo is what it is defined to be.
LEMMA TwoToDoubles ==
    /\ TwoTo \in [Nat -> Nat]
    /\ TwoTo[0] = 1
    /\ \A n \in Nat : TwoTo[n + 1] = 2 * TwoTo[n]
<1> DEFINE Up(n) == CHOOSE f \in [0..n -> Nat] : Doubles(f, n)
           g == [n \in Nat |-> Up(n)[n]]
<1>1. ASSUME NEW n \in Nat PROVE Up(n) \in [0..n -> Nat] /\ Doubles(Up(n), n)
  BY DoublesExists
<1>2. g \in [Nat -> Nat]
  <2> HIDE DEF Up
  <2>1. ASSUME NEW n \in Nat PROVE Up(n)[n] \in Nat
    <3>1. n \in 0..n
      OBVIOUS
    <3> QED
      BY <1>1, <3>1
  <2> QED
    BY <2>1
<1>3. g[0] = 1
  BY <1>1 DEF Doubles
<1>4. ASSUME NEW n \in Nat, n # 0 PROVE g[n] = 2 * g[n - 1]
  <2>1. n - 1 \in Nat /\ n \in 1..n
    BY <1>4
  <2>2. Up(n)[n] = 2 * Up(n)[n - 1]
    BY <1>1, <2>1 DEF Doubles
  <2>3. Up(n)[n - 1] = Up(n - 1)[n - 1]
    <3>1. Doubles(Up(n), n) /\ Doubles(Up(n - 1), n - 1)
      BY <1>1, <2>1
    <3> HIDE DEF Up
    <3> QED
      BY <2>1, <3>1, DoublesAgree
  <2> HIDE DEF Up
  <2> QED
    BY <2>1, <2>2, <2>3
<1> HIDE DEF g
<1>5. g = [n \in Nat |-> IF n = 0 THEN 1 ELSE 2 * g[n - 1]]
  <2> DEFINE h == [n \in Nat |-> IF n = 0 THEN 1 ELSE 2 * g[n - 1]]
  <2>1. \A n \in Nat : h[n] = g[n]
    BY <1>3, <1>4
  <2>2. h \in [Nat -> Nat]
    BY <1>2, <1>3, <1>4
  <2> HIDE DEF h
  <2>3. h = g
    BY <1>2, <2>1, <2>2
  <2> QED
    BY <2>3 DEF h
<1>6. TwoTo = [n \in Nat |-> IF n = 0 THEN 1 ELSE 2 * TwoTo[n - 1]]
  BY <1>5 DEF TwoTo
<1>7. TwoTo[0] = 1 /\ \A n \in Nat : n # 0 => TwoTo[n] = 2 * TwoTo[n - 1]
  BY <1>6
<1>8. \A n \in Nat : TwoTo[n] \in Nat
  <2> DEFINE T == {n \in Nat : TwoTo[n] \notin Nat}
  <2> SUFFICES ASSUME T # {} PROVE FALSE
    OBVIOUS
  <2>1. PICK n \in T : \A m \in T : ~(m < n)
    BY Least
  <2>2. n # 0
    BY <1>7
  <2>3. TwoTo[n - 1] \in Nat
    BY <2>1, <2>2
  <2> QED
    BY <1>7, <2>2, <2>3
<1>9. TwoTo \in [Nat -> Nat]
  BY <1>6, <1>8
<1>10. ASSUME NEW n \in Nat PROVE TwoTo[n + 1] = 2 * TwoTo[n]
  BY <1>7
<1> QED
  BY <1>7, <1>9, <1>10

\* The smaller of two numbers.
LEMMA MinOfTwo ==
    ASSUME NEW a \in Nat, NEW b \in Nat
    PROVE  Min({a, b}) = IF a <= b THEN a ELSE b
<1> DEFINE m == IF a <= b THEN a ELSE b
<1>1. m \in {a, b} /\ \A y \in {a, b} : m <= y
  OBVIOUS
<1>2. \A x \in {a, b} : (\A y \in {a, b} : x <= y) => x = m
  OBVIOUS
<1> QED
  BY <1>1, <1>2 DEF Min

\* A pause that is doubled keeps up with one more session that fails.
LEMMA SlowedTwice ==
    ASSUME NEW n \in Nat \ {0}, NEW b \in Nat, b >= Slowed(n)
    PROVE  Min({2 * b, MaxBackoff}) >= Slowed(n + 1)
<1> DEFINE s == MinBackoff * TwoTo[n - 1]
<1>1. TwoTo[n - 1] \in Nat /\ TwoTo[n] = 2 * TwoTo[n - 1]
  BY TwoToDoubles
<1>2. s \in Nat /\ MinBackoff * TwoTo[n] = 2 * s
  BY <1>1, LimitsNat
<1>3. Slowed(n + 1) = Min({2 * s, MaxBackoff})
  <2>1. (n + 1) - 1 = n
    OBVIOUS
  <2> QED
    BY <1>2, <2>1 DEF Slowed
<1>4. b >= s \/ b >= MaxBackoff
  BY <1>2, MinOfTwo, LimitsNat DEF Slowed
<1> HIDE DEF s
<1> QED
  BY <1>2, <1>3, <1>4, MinOfTwo, LimitsNat

\* The first pause.
LEMMA SlowedOnce == Slowed(1) = MinBackoff
<1>1. TwoTo[1 - 1] = 1
  BY TwoToDoubles
<1>2. MinBackoff * TwoTo[1 - 1] = MinBackoff
  BY <1>1, LimitsNat
<1> QED
  BY <1>2, MinOfTwo, LimitsNat DEF Slowed

------------------------------------------------------------------------------
(* Each part is kept by every step *)

Failing == DialGivesUp \/ AckRefused \/ AckMissing \/ HelloMissing

\* What Next consists of.
LEMMA StepCases ==
    ASSUME [Next]_vars
    PROVE  \/ Dials \/ DialFails \/ ReadsAck \/ ReadsHello \/ Wakes \/ SyncEnds \/ Failing
           \/ RelayRefuses \/ RelayParks \/ RelayAcks \/ AgentServes \/ AgentDeclines
           \/ Cuts \/ UNCHANGED vars
BY DEF Next, AckRead, HelloRead, RelayStep, AgentStep, Failing

\* A session that ends leaves nothing behind.
LEMMA EndsClean ==
    ASSUME Typed, Failing \/ SyncEnds
    PROVE  /\ pc' = "sleep" /\ request' = "none" /\ ackDue' = FALSE /\ inbox' = <<>> /\ cut' = FALSE
           /\ elapsed' \in Nat /\ UNCHANGED <<wsURL, attempt, failures>>
           /\ backoff' = IF elapsed' > Minute THEN MinBackoff ELSE backoff
<1>1. \E from : \E T \in SUBSET Nat : Ends(from, T)
  <2>1. {0} \in SUBSET Nat /\ {0, AckLimit} \in SUBSET Nat /\ {0, HelloLimit} \in SUBSET Nat
        /\ {0, Minute + 1} \in SUBSET Nat
    BY LimitsNat
  <2> QED
    BY <2>1 DEF Failing, DialGivesUp, AckRefused, AckMissing, HelloMissing, SyncEnds, Fails
<1> QED
  BY <1>1 DEF Ends, Goes, Takes, Typed

\* A session that fails is one that cannot come up, and it is counted.
LEMMA FailingCounts ==
    ASSUME Typed, NakInv, Failing
    PROVE  Troubled /\ failed' = failed + 1 /\ pc \in {"dial", "ack", "hello"}
<1>1. failed' = failed + 1
  BY DEF Failing, DialGivesUp, AckRefused, AckMissing, HelloMissing, Fails
<1>2. CASE DialGivesUp
  BY <1>2 DEF DialGivesUp, Fails, Ends, Goes, Troubled
<1>3. CASE AckRefused
  <2>1. pc = "ack" /\ inbox # <<>> /\ (Head(inbox) = "nak" \/ Head(inbox) = "hello")
    BY <1>3 DEF AckRefused, Fails, Ends, Goes, Typed
  <2>2. 1 \in DOMAIN inbox /\ inbox[1] = Head(inbox)
    BY <2>1 DEF Typed
  <2>3. Head(inbox) = "nak" => request = "closed"
    BY <2>2 DEF NakInv
  <2> QED
    BY <1>1, <2>1, <2>3, Zenon DEF Troubled
<1>4. CASE AckMissing \/ HelloMissing
  BY <1>4 DEF AckMissing, HelloMissing, Fails, Ends, Goes, Nothing, Troubled
<1> QED
  BY <1>1, <1>2, <1>3, <1>4 DEF Failing, Troubled

\* Every step keeps the types.
LEMMA TypedStep == Typed /\ NakInv /\ [Next]_vars => Typed'
<1> SUFFICES ASSUME Typed, NakInv, [Next]_vars PROVE Typed'
  OBVIOUS
<1>0. ASSUME Failing \/ SyncEnds
      PROVE  /\ pc' = "sleep" /\ request' = "none" /\ ackDue' = FALSE /\ inbox' = <<>> /\ cut' = FALSE
             /\ elapsed' \in Nat /\ attempt' = attempt /\ failures' = failures /\ wsURL' = wsURL
             /\ backoff' = IF elapsed' > Minute THEN MinBackoff ELSE backoff
             /\ failed' \in Nat
  <2>1. failed \in Nat
    BY DEF Typed
  <2>2. failed' = failed \/ failed' = failed + 1
    BY <1>0, FailingCounts DEF SyncEnds
  <2>3. failed' \in Nat
    BY <2>1, <2>2
  <2> QED
    BY <1>0, <2>3, EndsClean, Zenon
<1> USE LimitsNat DEF Typed, Goes, Takes, loop, connection
<1>0a. ASSUME NEW pause \in Nat, DialTakes(pause) PROVE elapsed' \in Nat /\ failed' \in Nat
  BY <1>0a DEF DialTakes, DialTime
<1>1. CASE Dials
  <2>1. elapsed' \in Nat /\ failed' \in Nat
    BY <1>0a, <1>1 DEF Dials
  <2> QED
    BY <1>1, <2>1 DEF Dials
<1>2. CASE DialFails
  <2>1. attempt' \in 0..Attempts /\ failures' \in 0..MaxFailures
    BY <1>2 DEF DialFails, Trouble
  <2>2. 3 * (attempt + 1) \in Nat
    OBVIOUS
  <2>3. elapsed' \in Nat /\ failed' \in Nat
    BY <1>0a, <1>2, <2>2 DEF DialFails
  <2> QED
    BY <1>2, <2>1, <2>3 DEF DialFails
<1>3. CASE ReadsAck
  BY <1>3 DEF ReadsAck
<1>4. CASE ReadsHello
  BY <1>4 DEF ReadsHello
<1>5. CASE Wakes
  <2>1. backoff' \in MinBackoff..MaxBackoff
    BY <1>5, MinOfTwo DEF Wakes
  <2> QED
    BY <1>5, <2>1 DEF Wakes
<1>6. CASE Failing \/ SyncEnds
  <2>1. /\ pc' = "sleep" /\ request' = "none" /\ ackDue' = FALSE /\ inbox' = <<>> /\ cut' = FALSE
        /\ elapsed' \in Nat /\ attempt' = attempt /\ failures' = failures /\ wsURL' \in BOOLEAN
        /\ backoff' = MinBackoff \/ backoff' = backoff
        /\ failed' \in Nat
    BY <1>0, <1>6, Zenon
  <2>2. backoff' \in MinBackoff..MaxBackoff
    BY <2>1
  <2>3. ackDue' \in BOOLEAN /\ cut' \in BOOLEAN
    BY <2>1
  <2>4. inbox' \in Seq({"ok", "nak", "hello"})
    BY <2>1
  <2>5. failures' \in 0..MaxFailures /\ attempt' \in 0..Attempts
    BY <2>1
  <2> QED
    BY <2>1, <2>2, <2>3, <2>4, <2>5
<1>8. CASE RelayRefuses
  BY <1>8 DEF RelayRefuses, Trouble
<1>9. CASE RelayParks
  BY <1>9 DEF RelayParks
<1>10. CASE RelayAcks
  <2>1. inbox' \in Seq({"ok", "nak", "hello"})
    BY <1>10 DEF RelayAcks, Delivers
  <2> QED
    BY <1>10, <2>1 DEF RelayAcks
<1>11. CASE AgentServes
  <2>1. inbox' \in Seq({"ok", "nak", "hello"})
    BY <1>11 DEF AgentServes, Delivers
  <2>2. failures' \in 0..MaxFailures
    BY <1>11 DEF AgentServes, Trouble
  <2> QED
    BY <1>11, <2>1, <2>2 DEF AgentServes
<1>12. CASE AgentDeclines
  BY <1>12 DEF AgentDeclines, Trouble
<1>13. CASE Cuts
  BY <1>13 DEF Cuts, Trouble
<1>14. CASE UNCHANGED vars
  BY <1>14 DEF vars
<1> QED
  BY <1>1, <1>2, <1>3, <1>4, <1>5, <1>6, <1>8, <1>9, <1>10, <1>11, <1>12, <1>13,
    <1>14, StepCases

\* What the parts say of the connection.
ConnectionInv == HelloInv /\ NakInv /\ RestInv /\ RoomInv /\ AckInv /\ UpMeansServed

\* A step that takes the first frame off the inbox keeps what is true of the frames.
LEMMA TakesFrame ==
    ASSUME Typed, HelloInv, NakInv, inbox # <<>>, inbox' = Tail(inbox), UNCHANGED request
    PROVE  HelloInv' /\ NakInv' /\ Len(inbox') = Len(inbox) - 1
<1>1. /\ Len(inbox') = Len(inbox) - 1
      /\ \A i \in DOMAIN inbox' : i + 1 \in DOMAIN inbox /\ inbox'[i] = inbox[i + 1]
  BY DEF Typed
<1> QED
  BY <1>1 DEF HelloInv, NakInv

\* So does a step that adds a frame that is true of the request.
LEMMA AddsFrame ==
    ASSUME Typed, HelloInv, NakInv, NEW m \in {"ok", "nak", "hello"},
           inbox' = inbox \/ inbox' = Append(inbox, m),
           m = "hello" => request' = "served",
           m = "nak" => request' = "closed",
           request \in {"served", "closed"} => request' = request
    PROVE  /\ HelloInv' /\ NakInv'
           /\ Len(inbox') = IF inbox' = inbox THEN Len(inbox) ELSE Len(inbox) + 1
<1>1. CASE inbox' = inbox
  BY <1>1 DEF HelloInv, NakInv
<1>2. CASE inbox' = Append(inbox, m)
  <2>1. /\ Len(inbox') = Len(inbox) + 1
        /\ \A i \in DOMAIN inbox' :
             (i \in DOMAIN inbox /\ inbox'[i] = inbox[i]) \/ inbox'[i] = m
    BY <1>2 DEF Typed
  <2> QED
    BY <2>1 DEF HelloInv, NakInv
<1> QED
  BY <1>1, <1>2

\* Every step keeps what is true of the connection.
LEMMA ConnectionStep == Typed /\ ConnectionInv /\ [Next]_vars => ConnectionInv'
<1> SUFFICES ASSUME Typed, ConnectionInv, [Next]_vars PROVE ConnectionInv'
  OBVIOUS
<1>a. Typed'
  BY TypedStep DEF ConnectionInv
<1>b. HelloInv /\ NakInv /\ RestInv /\ RoomInv /\ AckInv /\ UpMeansServed
  BY DEF ConnectionInv
<1>c. /\ ackDue \in BOOLEAN /\ ackDue' \in BOOLEAN
      /\ Len(inbox) \in Nat /\ (Len(inbox) = 0 <=> inbox = <<>>) /\ Len(<<>>) = 0
  BY <1>a DEF Typed
<1> USE DEF Goes, loop, connection
<1>1. CASE Dials
  BY <1>1, <1>b, <1>c DEF Dials, ConnectionInv, HelloInv, NakInv, RestInv, RoomInv, AckInv,
    UpMeansServed
<1>2. CASE DialFails
  BY <1>2, <1>b DEF DialFails, ConnectionInv, HelloInv, NakInv, RestInv, RoomInv, AckInv,
    UpMeansServed
<1>3. CASE ReadsAck
  <2>1. HelloInv' /\ NakInv' /\ Len(inbox') = Len(inbox) - 1
    BY <1>3, <1>b, TakesFrame DEF ReadsAck
  <2>2. RoomInv'
    BY <1>3, <1>b, <1>c, <2>1 DEF ReadsAck, RoomInv
  <2> QED
    BY <1>3, <1>b, <1>c, <2>1, <2>2 DEF ReadsAck, ConnectionInv, RestInv, AckInv, UpMeansServed
<1>4. CASE ReadsHello
  <2>1. HelloInv' /\ NakInv' /\ Len(inbox') = Len(inbox) - 1
    BY <1>4, <1>b, TakesFrame DEF ReadsHello
  <2>2. request = "served"
    <3>1. 1 \in DOMAIN inbox /\ inbox[1] = "hello"
      BY <1>4 DEF ReadsHello, Typed
    <3> QED
      BY <1>b, <3>1 DEF HelloInv
  <2> QED
    BY <1>4, <1>b, <1>c, <2>1, <2>2
    DEF ReadsHello, ConnectionInv, RestInv, RoomInv, AckInv, UpMeansServed
<1>5. CASE Wakes
  BY <1>5, <1>b
  DEF Wakes, ConnectionInv, HelloInv, NakInv, RestInv, RoomInv, AckInv, UpMeansServed
<1>6. CASE Failing \/ SyncEnds
  <2>1. /\ pc' = "sleep" /\ request' = "none" /\ ackDue' = FALSE /\ inbox' = <<>> /\ cut' = FALSE
    BY <1>6, EndsClean
  <2> QED
    BY <2>1, <1>c
    DEF ConnectionInv, HelloInv, NakInv, RestInv, RoomInv, AckInv, UpMeansServed
<1>7. CASE RelayRefuses
  <2>1. HelloInv' /\ NakInv' /\ Len(inbox') = 1
    BY <1>7, <1>b, <1>c, AddsFrame DEF RelayRefuses, RoomInv
  <2> QED
    BY <1>7, <1>b, <1>c, <2>1
    DEF RelayRefuses, ConnectionInv, RestInv, RoomInv, AckInv, UpMeansServed
<1>8. CASE RelayParks
  <2>1. HelloInv' /\ NakInv'
    BY <1>8, <1>b, AddsFrame DEF RelayParks
  <2> QED
    BY <1>8, <1>b, <1>c, <2>1
    DEF RelayParks, ConnectionInv, RestInv, RoomInv, AckInv, UpMeansServed
<1>9. CASE RelayAcks
  <2>1. /\ HelloInv' /\ NakInv'
        /\ Len(inbox') = IF inbox' = inbox THEN Len(inbox) ELSE Len(inbox) + 1
    BY <1>9, <1>b, AddsFrame DEF RelayAcks, Delivers
  <2>2. request = "parked" /\ ~cut => inbox' # <<>>
    BY <1>9 DEF RelayAcks, Delivers, Typed
  <2>3. RoomInv'
    BY <1>9, <1>b, <1>c, <2>1, <2>2 DEF RelayAcks, RoomInv
  <2> QED
    BY <1>9, <1>b, <1>c, <2>1, <2>2, <2>3 DEF RelayAcks, ConnectionInv, RestInv, AckInv, UpMeansServed
<1>10. CASE AgentServes
  <2>1. /\ HelloInv' /\ NakInv'
        /\ Len(inbox') = IF inbox' = inbox THEN Len(inbox) ELSE Len(inbox) + 1
    BY <1>10, <1>b, AddsFrame DEF AgentServes, Delivers
  <2>2. RoomInv'
    BY <1>10, <1>b, <1>c, <2>1 DEF AgentServes, RoomInv
  <2> QED
    BY <1>10, <1>b, <1>c, <2>1, <2>2 DEF AgentServes, ConnectionInv, RestInv, AckInv, UpMeansServed
<1>11. CASE AgentDeclines
  <2>1. HelloInv' /\ NakInv'
    BY <1>11, <1>b, AddsFrame DEF AgentDeclines
  <2>2. RoomInv'
    BY <1>11, <1>b, <1>c, <2>1 DEF AgentDeclines, RoomInv
  <2> QED
    BY <1>11, <1>b, <1>c, <2>1, <2>2 DEF AgentDeclines, ConnectionInv, RestInv, AckInv, UpMeansServed
<1>12. CASE Cuts
  BY <1>12, <1>b, <1>c
  DEF Cuts, ConnectionInv, HelloInv, NakInv, RestInv, RoomInv, AckInv, UpMeansServed
<1>13. CASE UNCHANGED vars
  BY <1>13, <1>b
  DEF vars, ConnectionInv, HelloInv, NakInv, RestInv, RoomInv, AckInv, UpMeansServed
<1> QED
  BY <1>1, <1>2, <1>3, <1>4, <1>5, <1>6, <1>7, <1>8, <1>9, <1>10, <1>11, <1>12, <1>13,
    StepCases

\* Every step keeps the count of what has gone wrong ahead of the sessions that fail.
LEMMA CountStep == Typed /\ ConnectionInv /\ CountInv /\ [Next]_vars => CountInv'
<1> SUFFICES ASSUME Typed, ConnectionInv, CountInv, [Next]_vars PROVE CountInv'
  OBVIOUS
<1>a. Typed'
  BY TypedStep DEF ConnectionInv
<1>b. /\ failed \in Nat /\ failures \in Nat /\ failed <= failures
      /\ Troubled => failed < failures
      /\ failed' \in Nat /\ failures' \in Nat
  BY <1>a, LimitsNat DEF Typed, CountInv
<1> USE DEF Goes, loop, connection
<1>0. ASSUME failed' = failed \/ failed' = 0, failures' = failures + 1 PROVE CountInv'
  BY <1>b, <1>0 DEF CountInv
<1>1. ASSUME failed' = failed \/ failed' = 0, failures' = failures, Troubled' => Troubled PROVE CountInv'
  BY <1>b, <1>1 DEF CountInv
<1>2. CASE Dials
  <2>1. failed' = failed \/ failed' = 0
    BY <1>2 DEF Dials, DialTakes
  <2> QED
    BY <1>1, <1>2, <2>1 DEF Dials, Troubled, ConnectionInv, RestInv
<1>3. CASE DialFails
  <2>1. (failed' = failed \/ failed' = 0) /\ pc = "dial" /\ pc' = "dial"
    BY <1>3 DEF DialFails, DialTakes
  <2>2. CASE attempt' = Attempts
    BY <1>0, <1>3, <2>1, <2>2 DEF DialFails, Trouble
  <2>3. CASE attempt' # Attempts
    BY <1>1, <1>3, <2>1, <2>3 DEF DialFails, Troubled
  <2> QED
    BY <2>2, <2>3
<1>4. CASE ReadsAck
  BY <1>1, <1>4 DEF ReadsAck, Troubled
<1>5. CASE ReadsHello
  BY <1>5, <1>b DEF ReadsHello, Troubled, CountInv
<1>6. CASE Wakes
  <2>1. attempt' # Attempts
    BY <1>6, LimitsNat DEF Wakes
  <2> QED
    BY <1>1, <1>6, <2>1 DEF Wakes, Troubled
<1>7. CASE Failing
  <2>1. failed < failures /\ failed' = failed + 1 /\ failures' = failures /\ pc' = "sleep"
    BY <1>7, <1>b, EndsClean, FailingCounts DEF ConnectionInv
  <2> QED
    BY <1>b, <2>1 DEF CountInv, Troubled
<1>8. CASE SyncEnds
  <2>1. failed' = failed /\ failures' = failures /\ pc' = "sleep"
    BY <1>8, EndsClean DEF SyncEnds
  <2> QED
    BY <1>1, <2>1 DEF Troubled
<1>9. CASE RelayRefuses
  BY <1>0, <1>9 DEF RelayRefuses, Trouble
<1>10. CASE RelayParks
  BY <1>1, <1>10 DEF RelayParks, Troubled
<1>11. CASE RelayAcks
  <2>1. inbox = <<>> => (inbox' # <<>> => Head(inbox') = "ok")
    BY <1>11 DEF RelayAcks, Delivers
  <2>2. inbox # <<>> => Head(inbox') = Head(inbox)
    BY <1>11 DEF RelayAcks, Delivers, Typed
  <2> QED
    BY <1>1, <1>11, <2>1, <2>2 DEF RelayAcks, Troubled
<1>12. CASE AgentServes
  <2>1. CASE ackDue
    BY <1>0, <1>12, <2>1 DEF AgentServes, Trouble
  <2>2. CASE ~ackDue
    <3>1. pc = "ack" /\ ~cut => inbox # <<>>
      BY <1>12, <2>2 DEF AgentServes, ConnectionInv, AckInv
    <3>2. inbox # <<>> => Head(inbox') = Head(inbox)
      BY <1>12 DEF AgentServes, Delivers, Typed
    <3> QED
      BY <1>1, <1>12, <2>2, <3>1, <3>2 DEF AgentServes, Troubled
  <2> QED
    BY <2>1, <2>2
<1>13. CASE AgentDeclines
  BY <1>0, <1>13 DEF AgentDeclines, Trouble
<1>14. CASE Cuts
  BY <1>0, <1>14 DEF Cuts, Trouble
<1>15. CASE UNCHANGED vars
  BY <1>1, <1>15 DEF vars, Troubled
<1> QED
  BY <1>2, <1>3, <1>4, <1>5, <1>6, <1>7, <1>8, <1>9, <1>10, <1>11, <1>12, <1>13, <1>14,
    <1>15, StepCases

\* Every step keeps to its limit.
LEMMA TimeStep == Typed /\ NakInv /\ TimeInv /\ [Next]_vars => TimeInv'
<1> SUFFICES ASSUME Typed, NakInv, TimeInv, [Next]_vars PROVE TimeInv'
  OBVIOUS
<1> DEFINE D == Dialling
<1>a. D \in Nat /\ DialLimit <= D /\ (\A n \in 0..Attempts : DialLimit + 3 * n <= D)
  BY LimitsNat DEF Dialling
<1>b. \A n \in 0..Attempts - 1 : n * D \in Nat /\ (n + 1) * D = n * D + D /\ (n + 1) * D <= Attempts * D
  <2> TAKE n \in 0..Attempts - 1
  <2>1. PICK k \in Nat : Attempts = n + 1 + k
    BY LimitsNat
  <2>2. Attempts * D = n * D + D + k * D /\ k * D \in Nat /\ n * D \in Nat
    <3> HIDE DEF D
    <3> QED
      BY <1>a, <2>1
  <2> HIDE DEF D
  <2> QED
    BY <1>a, <2>2
<1>c. attempt \in 0..Attempts /\ elapsed \in Nat
  BY DEF Typed
<1> HIDE DEF D
<1>d. ASSUME NEW pause \in Nat, DialTakes(pause), failed' > 0
      PROVE  failed > 0 /\ elapsed' \in Nat /\ elapsed' <= elapsed + DialLimit + pause
  <2>1. PICK t \in DialTime : elapsed' = elapsed + t + pause /\ failed' = IF Overruns(t) THEN 0 ELSE failed
    BY <1>d DEF DialTakes
  <2>2. t \in Nat /\ ~Overruns(t) /\ failed' = failed
    BY <1>d, <2>1, LimitsNat DEF DialTime
  <2>3. t <= DialLimit
    BY <2>1, <2>2, LimitsNat DEF Overruns, DialTime
  <2> QED
    BY <1>c, <1>d, <2>1, <2>2, <2>3, LimitsNat
<1> USE DEF Goes, Takes, loop
<1>1. CASE Dials
  <2> SUFFICES ASSUME failed' > 0 PROVE elapsed' <= Attempts * D
    BY <1>1 DEF Dials, TimeInv, D
  <2>1. failed > 0 /\ elapsed' \in Nat /\ elapsed' <= elapsed + DialLimit + 0
    BY <1>1, <1>d DEF Dials
  <2>2. elapsed <= attempt * D /\ attempt \in 0..Attempts - 1
    BY <1>1, <1>c, <2>1, LimitsNat DEF Dials, TimeInv, D
  <2> QED
    BY <1>a, <1>b, <1>c, <2>1, <2>2, LimitsNat
<1>2. CASE DialFails
  <2>1. pc = "dial" /\ pc' = "dial" /\ attempt' = attempt + 1 /\ attempt \in 0..Attempts - 1
    BY <1>2, <1>c, LimitsNat DEF DialFails
  <2> SUFFICES ASSUME failed' > 0 PROVE elapsed' <= attempt' * D
    BY <2>1 DEF TimeInv, D
  <2>2. 3 * (attempt + 1) \in Nat
    BY <1>c
  <2>3. failed > 0 /\ elapsed' \in Nat /\ elapsed' <= elapsed + DialLimit + 3 * (attempt + 1)
    BY <1>2, <1>d, <2>2 DEF DialFails
  <2>4. elapsed <= attempt * D
    BY <2>1, <2>3 DEF TimeInv, D
  <2>5. DialLimit + 3 * (attempt + 1) <= D /\ attempt * D \in Nat /\ (attempt + 1) * D = attempt * D + D
    BY <1>a, <1>b, <2>1, LimitsNat
  <2> QED
    BY <1>a, <1>c, <2>1, <2>2, <2>3, <2>4, <2>5, LimitsNat
<1>3. CASE ReadsAck
  <2> SUFFICES ASSUME failed > 0 PROVE elapsed' <= Attempts * D + AckLimit
    BY <1>3 DEF ReadsAck, TimeInv, D
  <2>1. elapsed <= Attempts * D /\ \E t \in {0, AckLimit} : elapsed' = elapsed + t
    BY <1>3 DEF ReadsAck, TimeInv, D
  <2>2. Attempts * D \in Nat
    BY <1>a, LimitsNat
  <2> QED
    BY <1>c, <2>1, <2>2, LimitsNat
<1>4. CASE ReadsHello
  BY <1>4 DEF ReadsHello, TimeInv
<1>5. CASE Wakes
  BY <1>5, <1>a DEF Wakes, TimeInv, D
<1>6. CASE Failing \/ SyncEnds
  BY <1>6, EndsClean, Zenon DEF TimeInv
<1>7. CASE RelayRefuses \/ RelayParks \/ RelayAcks \/ AgentServes \/ AgentDeclines
  BY <1>7 DEF RelayRefuses, RelayParks, RelayAcks, AgentServes, AgentDeclines, TimeInv
<1>8. CASE Cuts \/ UNCHANGED vars
  BY <1>8 DEF Cuts, vars, TimeInv
<1> QED
  BY <1>1, <1>2, <1>3, <1>4, <1>5, <1>6, <1>7, <1>8, StepCases

\* A session that fails, and is not the first to do so, has not taken a minute.
LEMMA FailsSoon ==
    ASSUME Typed, TimeInv, Failing, failed > 0
    PROVE  ~(elapsed' > Minute)
<1> DEFINE A == Attempts * Dialling
<1>1. A \in Nat /\ A + AckLimit + HelloLimit <= Minute
  BY LimitsNat, FailsInAMinute DEF Dialling
<1> HIDE DEF A
<1> USE LimitsNat DEF Fails, Ends, Goes, Takes, Typed
<1>2. CASE DialGivesUp
  <2>1. elapsed' = elapsed /\ elapsed <= A
    BY <1>2 DEF DialGivesUp, TimeInv, A
  <2> QED
    BY <1>1, <2>1
<1>3. CASE AckRefused \/ AckMissing
  <2>1. pc = "ack" /\ \E t \in {0, AckLimit} : elapsed' = elapsed + t
    BY <1>3 DEF AckRefused, AckMissing
  <2>2. elapsed <= A
    BY <2>1 DEF TimeInv, A
  <2> QED
    BY <1>1, <2>1, <2>2
<1>4. CASE HelloMissing
  <2>1. pc = "hello" /\ \E t \in {0, HelloLimit} : elapsed' = elapsed + t
    BY <1>4 DEF HelloMissing
  <2>2. elapsed <= A + AckLimit
    BY <2>1 DEF TimeInv, A
  <2> QED
    BY <1>1, <2>1, <2>2
<1> QED
  BY <1>2, <1>3, <1>4 DEF Failing

\* Every step keeps the pause as long as the failures in a row call for.
LEMMA SlowStep == Typed /\ NakInv /\ TimeInv /\ SlowInv /\ [Next]_vars => SlowInv'
<1> SUFFICES ASSUME Typed, NakInv, TimeInv, SlowInv, [Next]_vars PROVE SlowInv'
  OBVIOUS
<1>a. failed \in Nat /\ backoff \in Nat /\ MinBackoff <= backoff
  BY LimitsNat DEF Typed
<1> USE DEF Goes, loop
<1>0. CASE Dials \/ DialFails
  <2>1. UNCHANGED backoff /\ pc = "dial" /\ pc' \in {"dial", "ack"} /\ (failed' = failed \/ failed' = 0)
    BY <1>0 DEF Dials, DialFails, DialTakes
  <2>2. backoff >= Slowed(failed + 1) /\ backoff >= Slowed(0 + 1)
    BY <1>a, <2>1, SlowedOnce DEF SlowInv
  <2>3. backoff' >= Slowed(failed' + 1)
    BY <2>1, <2>2
  <2> QED
    BY <2>1, <2>3 DEF SlowInv, SlowsDown, Slowed
<1>1. CASE ReadsAck
  BY <1>1 DEF ReadsAck, SlowInv, SlowsDown, Slowed
<1>2. CASE ReadsHello
  BY <1>2 DEF ReadsHello, SlowInv, SlowsDown
<1>3. CASE Wakes
  <2>1. failed' = failed /\ backoff' = Min({2 * backoff, MaxBackoff}) /\ pc' = "dial"
    BY <1>3 DEF Wakes
  <2>2. CASE failed = 0
    <3>1. backoff' >= MinBackoff
      BY <1>a, <2>1, MinOfTwo, LimitsNat
    <3> QED
      BY <2>1, <2>2, <3>1, SlowedOnce DEF SlowInv, SlowsDown, Slowed
  <2>3. CASE failed # 0
    <3>1. backoff >= Slowed(failed)
      BY <1>3, <1>a, <2>3 DEF Wakes, SlowInv, SlowsDown
    <3>2. backoff' >= Slowed(failed + 1)
      BY <1>a, <2>1, <2>3, <3>1, SlowedTwice
    <3> QED
      BY <2>1, <3>2 DEF SlowInv, SlowsDown, Slowed
  <2> QED
    BY <2>2, <2>3
<1>4. CASE Failing
  <2>1. /\ pc \in {"dial", "ack", "hello"} /\ pc' = "sleep" /\ failed' = failed + 1
        /\ backoff' = IF elapsed' > Minute THEN MinBackoff ELSE backoff
    BY <1>4, FailingCounts, EndsClean
  <2>2. CASE failed = 0
    <3>1. backoff' >= MinBackoff /\ failed' = 1
      BY <1>a, <2>1, <2>2, LimitsNat
    <3>2. backoff' >= Slowed(failed')
      BY <3>1, SlowedOnce
    <3> QED
      BY <2>1, <3>2 DEF SlowInv, SlowsDown, Slowed
  <2>3. CASE failed > 0
    <3>1. backoff' = backoff
      BY <1>4, <2>1, <2>3, FailsSoon
    <3> QED
      BY <2>1, <3>1 DEF SlowInv, SlowsDown, Slowed
  <2> QED
    BY <1>a, <2>2, <2>3
<1>5. CASE SyncEnds
  <2>1. pc' = "sleep" /\ failed' = 0
    BY <1>5, EndsClean DEF SyncEnds, Ends, SlowInv
  <2> QED
    BY <2>1 DEF SlowInv, SlowsDown
<1>6. CASE RelayRefuses \/ RelayParks \/ RelayAcks \/ AgentServes \/ AgentDeclines
  BY <1>6 DEF RelayRefuses, RelayParks, RelayAcks, AgentServes, AgentDeclines, SlowInv,
    SlowsDown, Slowed
<1>7. CASE Cuts \/ UNCHANGED vars
  BY <1>7 DEF Cuts, vars, SlowInv, SlowsDown, Slowed
<1> QED
  BY <1>0, <1>1, <1>2, <1>3, <1>4, <1>5, <1>6, <1>7, StepCases

------------------------------------------------------------------------------
(* The theorems *)

LEMMA InitIInv == Init => IInv
<1> SUFFICES ASSUME Init PROVE IInv
  OBVIOUS
<1> USE LimitsNat DEF Init
<1>1. Typed
  <2>1. inbox \in Seq({"ok", "nak", "hello"}) /\ backoff \in MinBackoff..MaxBackoff
    OBVIOUS
  <2>2. attempt \in 0..Attempts /\ failures \in 0..MaxFailures
    OBVIOUS
  <2> QED
    BY <2>1, <2>2 DEF Typed
<1>2. HelloInv /\ NakInv /\ RestInv /\ RoomInv /\ AckInv /\ UpMeansServed
  BY DEF HelloInv, NakInv, RestInv, RoomInv, AckInv, UpMeansServed
<1>3. CountInv
  BY DEF CountInv, Troubled
<1>4. TimeInv
  BY DEF TimeInv, Dialling
<1>5. SlowInv
  BY SlowedOnce DEF SlowInv, SlowsDown
<1> QED
  BY <1>1, <1>2, <1>3, <1>4, <1>5 DEF IInv

\* The parts of the invariant hold throughout every behaviour.
THEOREM Invariance == Spec => []IInv
<1>1. IInv /\ [Next]_vars => IInv'
  BY TypedStep, ConnectionStep, CountStep, TimeStep, SlowStep DEF IInv, ConnectionInv
<1> QED
  BY <1>1, InitIInv, PTL DEF Spec

\* Every variable keeps its type, a connection carries one answer of the relay and
\* one hello at most, and no more sessions fail than things go wrong.
THEOREM TypeCorrect == Spec => []TypeOK
<1>1. IInv => TypeOK
  BY LimitsNat DEF IInv, Typed, RoomInv, CountInv, TypeOK
<1> QED
  BY <1>1, Invariance, PTL

\* Sync is declared up only when the agent serves this very connection, whatever
\* order the relay and the agent answer in and whatever the network does.
THEOREM UpIsServed == Spec => []UpMeansServed
<1>1. IInv => UpMeansServed
  BY DEF IInv
<1> QED
  BY <1>1, Invariance, PTL

\* After n sessions in a row that did not come up the pause has doubled n - 1 times,
\* or is as long as it gets.  On a ws:// or wss:// address, where ctx bounds a dial, n
\* counts all of them: that three dials, an ack and a hello fit in a minute is an
\* assumption there, true of the program's limits.  On a host:port address, where
\* SystemLimit may be anything, n counts those since a dial last outlasted ctx.
THEOREM FailuresSlowDown == Spec => []SlowsDown
<1>1. IInv => SlowsDown
  BY DEF IInv, SlowInv
<1> QED
  BY <1>1, Invariance, PTL

===============================================================================
