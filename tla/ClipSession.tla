----------------------------- MODULE ClipSession ------------------------------
(* How the client keeps one clipboard session open: clipLoop, runClipSession  *)
(* and dialRelay of src/cmd/client/main.go, against what the relay and the    *)
(* agent (serveClipboard of src/cmd/agent/main.go) do with the request.  A    *)
(* session is dialled, acknowledged by the relay, announced by the agent's    *)
(* hello, and then runs Sync until that returns.                              *)
(*                                                                            *)
(* Time is what the client measures: each step of a session adds to elapsed,  *)
(* in units of 100 ms, nothing or as much as the limit on that step allows.   *)

EXTENDS Naturals, Sequences, FiniteSetsExt

CONSTANTS
    DialLimit,   \* what ctx allows one DialRelay of a ws:// or wss:// address
    SystemLimit, \* what the operating system allows one of a host:port address
    AckLimit,    \* the read deadline of the ack
    HelloLimit,  \* HelloTimeout
    Minute,      \* what a session has to last for the backoff to be reset
    MinBackoff, MaxBackoff,
    Attempts,    \* attempts of dialRelay
    MaxFailures  \* bound: sessions that do not come up

ASSUME LimitsNat ==
    /\ DialLimit \in Nat /\ SystemLimit \in Nat /\ AckLimit \in Nat
    /\ HelloLimit \in Nat /\ Minute \in Nat
    /\ MinBackoff \in Nat \ {0} /\ MaxBackoff \in Nat /\ MinBackoff <= MaxBackoff
    /\ Attempts \in Nat \ {0} /\ MaxFailures \in Nat

\* All that a session may take before it comes up, if every dial keeps to DialLimit
\* and every pause between two dials is as long as the last, fits in a minute.
\* Nothing is assumed of SystemLimit.
ASSUME FailsInAMinute ==
    Attempts * (DialLimit + 3 * Attempts) + AckLimit + HelloLimit <= Minute

VARIABLES
    wsURL,     \* IsWSURL(relayAddr): the address does not change while the client runs
    pc,        \* where the client stands
    attempt,   \* attempts of dialRelay that have failed
    elapsed,   \* time since start
    backoff,
    request,   \* what has become of the request
    ackDue,    \* the agent is told of the request, the client is not
    inbox,     \* frames on their way to the client
    cut,       \* the network has dropped the connection, or delays it too long
    failures,  \* counter of the bound
    failed     \* history: sessions in a row that never came up, see DialTakes

vars == <<wsURL, pc, attempt, elapsed, backoff, request, ackDue, inbox, cut, failures,
          failed>>

connection == <<request, ackDue, inbox, cut>>
loop == <<attempt, backoff, failed>>

Init ==
    /\ wsURL \in BOOLEAN
    /\ pc = "dial"
    /\ attempt = 0
    /\ elapsed = 0
    /\ backoff = MinBackoff
    /\ request = "none"
    /\ ackDue = FALSE
    /\ inbox = <<>>
    /\ cut = FALSE
    /\ failures = 0
    /\ failed = 0

Goes(from, to) == pc = from /\ pc' = to

\* Something goes wrong that keeps this session from coming up.
Trouble == failures < MaxFailures /\ failures' = failures + 1

\* A step takes no time at all, or all that its limit allows.
Takes(T) == \E t \in T : elapsed' = elapsed + t

\* runClipSession returns, which closes the connection, and clipLoop sets the pause.
Ends(from, T) ==
    /\ Goes(from, "sleep")
    /\ Takes(T)
    /\ backoff' = IF elapsed' > Minute THEN MinBackoff ELSE backoff
    /\ request' = "none" /\ ackDue' = FALSE /\ inbox' = <<>> /\ cut' = FALSE
    /\ UNCHANGED <<wsURL, attempt, failures>>

\* It returns and the hello has not come.
Fails(from, T) == Ends(from, T) /\ failed' = failed + 1

\* Nothing more comes from the other end.
Nothing == inbox = <<>> /\ (cut \/ request \in {"closed", "silent"})

------------------------------------------------------------------------------
(* Faults: definitions as a plausible bug would have them.  They are no part of *)
(* the specification; each shows that some property below can fail.            *)

\* The dial and the TLS handshake inside it have a limit each.
DialTimeTwice == {0, IF wsURL THEN 2 * DialLimit ELSE SystemLimit}

\* The hello has no deadline: only the end of the stream shows that none comes.
HelloAwaited == Nothing /\ request = "closed" /\ ~cut /\ Fails("hello", {0})

\* The ack is taken for the sign that sync is up.
UpOnAck ==
    /\ Goes("ack", "sync")
    /\ inbox # <<>> /\ Head(inbox) = "ok"
    /\ inbox' = Tail(inbox)
    /\ Takes({0, AckLimit})
    /\ UNCHANGED <<wsURL, loop, failures, request, ackDue, cut>>

\* The ack is written when the agent has been told, and again when it dials back.
RelayAcksAgain ==
    /\ ackDue
    /\ ackDue' = (request = "parked")
    /\ inbox' = IF cut \/ request = "closed" THEN inbox ELSE Append(inbox, "ok")
    /\ UNCHANGED <<wsURL, pc, elapsed, loop, failures, request, cut>>

------------------------------------------------------------------------------
(* The client *)

\* ctx bounds the dial and the handshakes of a ws:// or wss:// address.  A host:port
\* address is dialled without it, and only the system ends a dial that hangs.
DialTime == {0, IF wsURL THEN DialLimit ELSE SystemLimit}

\* A dial without ctx that takes longer than ctx allows.
Overruns(t) == ~wsURL /\ t > DialLimit

\* After a dial that overruns, failed counts from this session on.
DialTakes(pause) == \E t \in DialTime :
    /\ elapsed' = elapsed + t + pause
    /\ failed' = IF Overruns(t) THEN 0 ELSE failed

Dials ==
    /\ Goes("dial", "ack")
    /\ attempt < Attempts
    /\ DialTakes(0)
    /\ request' = "made"
    /\ UNCHANGED <<wsURL, attempt, backoff, failures, ackDue, inbox, cut>>

\* Every attempt that fails is followed by a pause: 300 ms, 600 ms, 900 ms.
DialFails ==
    /\ pc = "dial" /\ attempt < Attempts
    /\ attempt' = attempt + 1
    /\ DialTakes(3 * (attempt + 1))
    /\ IF attempt' = Attempts THEN Trouble ELSE UNCHANGED failures
    /\ UNCHANGED <<wsURL, pc, backoff, connection>>

DialGivesUp == attempt = Attempts /\ Fails("dial", {0})

ReadsAck ==
    /\ Goes("ack", "hello")
    /\ inbox # <<>> /\ Head(inbox) = "ok"
    /\ inbox' = Tail(inbox)
    /\ Takes({0, AckLimit})
    /\ UNCHANGED <<wsURL, loop, failures, request, ackDue, cut>>

\* A nak, or a hello that has come before the ack and reads like a nak.
AckRefused ==
    /\ inbox # <<>> /\ Head(inbox) # "ok"
    /\ Fails("ack", {0, AckLimit})

AckMissing == Nothing /\ Fails("ack", {0, AckLimit})

ReadsHello ==
    /\ Goes("hello", "sync")
    /\ inbox # <<>> /\ Head(inbox) = "hello"
    /\ inbox' = Tail(inbox)
    /\ Takes({0, HelloLimit})
    /\ failed' = 0
    /\ UNCHANGED <<wsURL, attempt, backoff, failures, request, ackDue, cut>>

HelloMissing == Nothing /\ Fails("hello", {0, HelloLimit})

\* Sync returns, at once or after a long time.
SyncEnds == Ends("sync", {0, Minute + 1}) /\ UNCHANGED failed

Wakes ==
    /\ Goes("sleep", "dial")
    /\ attempt' = 0 /\ elapsed' = 0
    /\ backoff' = Min({2 * backoff, MaxBackoff})
    /\ UNCHANGED <<wsURL, connection, failures, failed>>

------------------------------------------------------------------------------
(* The relay and the agent *)

\* The agent is offline or unreachable.
RelayRefuses ==
    /\ request = "made" /\ request' = "closed"
    /\ ~cut /\ inbox' = Append(inbox, "nak")
    /\ Trouble
    /\ UNCHANGED <<wsURL, pc, elapsed, loop, ackDue, cut>>

RelayParks ==
    /\ request = "made" /\ request' = "parked"
    /\ ackDue' = TRUE
    /\ UNCHANGED <<wsURL, pc, elapsed, loop, failures, inbox, cut>>

Delivers(m) == inbox' = IF cut THEN inbox ELSE Append(inbox, m)

RelayAcks ==
    /\ ackDue /\ ackDue' = FALSE
    /\ IF request = "closed" THEN UNCHANGED inbox ELSE Delivers("ok")
    /\ UNCHANGED <<wsURL, pc, elapsed, loop, failures, request, cut>>

\* The request is dialled back and reaches serveClipboard, which says hello: too
\* early if the relay has not written its ack yet.
AgentServes ==
    /\ request = "parked" /\ request' = "served"
    /\ Delivers("hello")
    /\ IF ackDue THEN Trouble ELSE UNCHANGED failures
    /\ UNCHANGED <<wsURL, pc, elapsed, loop, ackDue, cut>>

\* The port is not allowed, nobody listens on it or no dial-back comes and the
\* relay reaps the request: the connection is closed.  Or the port is served by
\* something that says no hello.
AgentDeclines ==
    /\ request = "parked" /\ request' \in {"closed", "silent"}
    /\ Trouble
    /\ UNCHANGED <<wsURL, pc, elapsed, loop, ackDue, inbox, cut>>

Cuts ==
    /\ pc \in {"ack", "hello"}
    /\ ~cut /\ cut' = TRUE
    /\ inbox' = <<>>
    /\ Trouble
    /\ UNCHANGED <<wsURL, pc, elapsed, loop, request, ackDue>>

RelayStep == RelayRefuses \/ RelayParks
AgentStep == AgentServes \/ AgentDeclines
AckRead == ReadsAck \/ AckRefused \/ AckMissing
HelloRead == ReadsHello \/ HelloMissing

Next ==
    \/ Dials \/ DialFails \/ DialGivesUp \/ AckRead \/ HelloRead \/ SyncEnds \/ Wakes
    \/ RelayStep \/ RelayAcks \/ AgentStep \/ Cuts

Spec == Init /\ [][Next]_vars

\* Deadlines pass, pauses end, and the relay and the agent answer in the end; a
\* session that is up may last for ever.
Fairness ==
    /\ WF_vars(Dials \/ DialFails \/ DialGivesUp) /\ WF_vars(AckRead) /\ WF_vars(HelloRead)
    /\ WF_vars(Wakes)
    /\ WF_vars(RelayStep) /\ WF_vars(RelayAcks) /\ WF_vars(AgentStep)

FairSpec == Spec /\ Fairness

------------------------------------------------------------------------------
(* Properties *)

\* Every variable keeps its type, and a connection carries one answer of the
\* relay and one hello at most.
TypeOK ==
    /\ wsURL \in BOOLEAN
    /\ pc \in {"dial", "ack", "hello", "sync", "sleep"}
    /\ attempt \in 0..Attempts
    /\ elapsed \in Nat
    /\ backoff \in MinBackoff..MaxBackoff
    /\ request \in {"none", "made", "parked", "served", "silent", "closed"}
    /\ ackDue \in BOOLEAN /\ cut \in BOOLEAN
    /\ inbox \in Seq({"ok", "nak", "hello"}) /\ Len(inbox) <= 2
    /\ failures \in 0..MaxFailures
    /\ failed \in 0..MaxFailures

TwoTo[n \in Nat] == IF n = 0 THEN 1 ELSE 2 * TwoTo[n - 1]

\* The pause after n sessions in a row that did not come up.
Slowed(n) == Min({MinBackoff * TwoTo[n - 1], MaxBackoff})

\* "Rapid-fire failures must slow down": what resets the backoff is a session that
\* was up, and however long it takes to find that one does not come up (three
\* dials, an ack and a hello, each at its limit), it does not pass for that.  This
\* holds of every session on a ws:// or wss:// address.  On a host:port address it
\* holds of the sessions since a dial last took longer than ctx allows: one that
\* hangs for a minute does pass for a session that was up, and failed counts from
\* it on.
SlowsDown == pc = "sleep" /\ failed > 0 => backoff >= Slowed(failed)

\* Sync is declared up only if the agent serves this very connection, which it
\* does not when it merely was online, or when the request is still parked.
UpMeansServed == pc = "sync" => request = "served"

\* Whatever has gone wrong, with the relay, the agent, the network or the order of
\* their answers: once it is over the session comes up.
ComesBack == []<>(pc = "sync")
===============================================================================
