------------------------------ MODULE ControlLink ------------------------------
(* The control link between an agent and the relay, and the time it takes to  *)
(* find that it is dead: run of src/cmd/agent/main.go and handleAgent of      *)
(* src/cmd/relay/main.go, with the part of handleClient that writes a Notify. *)
(* Both ends ping every PingInterval and give the link up when they read      *)
(* nothing for ReadTimeout.  On the relay the heartbeat and the handlers of   *)
(* clients write to one connection, each frame in two writes, under ac.mu.    *)
(*                                                                            *)
(* One link lives at a time.  What the relay does with the requests and with  *)
(* the registration of a link is the matter of the module Relay.  Processes   *)
(* are fast: time passes when none of them has anything to do.                *)

EXTENDS Naturals, Sequences

CONSTANTS
    Client,        \* clients whose request makes the relay write a Notify
    Beat,          \* the heartbeat of the relay, a writer like them
    None,          \* nobody
    PingInterval,  \* PingInterval
    ReadTimeout,   \* ControlReadTimeout
    Capacity,      \* bound: writes the connection takes before one blocks
    MaxFaults      \* bound: faults of the network

ASSUME WritersDiffer == Beat \notin Client /\ None \notin Client \cup {Beat}
ASSUME TimesNat ==
    /\ PingInterval \in Nat \ {0}
    /\ ReadTimeout \in Nat /\ ReadTimeout > PingInterval
ASSUME BoundsNat == Capacity \in Nat \ {0} /\ MaxFaults \in Nat

End == {"relay", "agent"}
Writer == Client \cup {Beat}

\* Directions are named by the end they lead to.
Other(e) == IF e = "relay" THEN "agent" ELSE "relay"

VARIABLES
    net,      \* what the network does with the direction: "ok", "stalled" or "cut"
    down,     \* how long it has delivered nothing, as of the last Tick
    long,     \* history: a direction was down for ReadTimeout - PingInterval
    open,     \* the end has not closed the link
    quiet,    \* time since the end set its read deadline
    phase,    \* time since the end's ticker fired
    tick,     \* the ticker's channel holds a tick
    writer,   \* where a writer of the relay stands
    mu,       \* who holds ac.mu
    toAgent,  \* writes on their way to the agent
    half,     \* whose frame the agent has begun to read
    toRelay,  \* pings on their way to the relay
    faults    \* counter of the bound

vars == <<net, down, long, open, quiet, phase, tick, writer, mu, toAgent, half,
          toRelay, faults>>

netVars == <<net, down, long, faults>>
timers == <<phase, tick>>
writers == <<writer, mu>>
pipes == <<toAgent, half, toRelay>>

Fresh(x) == [e \in End |-> x]

Init ==
    /\ net = Fresh("ok")
    /\ down = Fresh(0)
    /\ long = FALSE
    /\ open = Fresh(TRUE)
    /\ quiet = Fresh(0)
    /\ phase = Fresh(0)
    /\ tick = Fresh(FALSE)
    /\ writer = [w \in Writer |-> "idle"]
    /\ mu = None
    /\ toAgent = <<>>
    /\ half = None
    /\ toRelay = 0
    /\ faults = 0

\* The other end has closed the link, and the network says so.
Reset(e) == ~open[Other(e)] /\ net[e] = "ok"

------------------------------------------------------------------------------
(* Faults: definitions as a plausible bug would have them.  They are no part of *)
(* the specification; each shows that some property below can fail.            *)

\* A write never waits for the network.
CanAlwaysWrite == open["relay"]

\* The frames of one connection are written without ac.mu.
LockNothing(w) ==
    /\ writer[w] = "lock" /\ writer' = [writer EXCEPT ![w] = "hdr"]
    /\ UNCHANGED <<netVars, open, quiet, timers, mu, pipes>>

\* A failing write returns before ac.mu is released.
WriteFailsLocked(w) ==
    /\ writer[w] \in {"hdr", "body"}
    /\ ~open["relay"] \/ Reset("relay")
    /\ writer' = [writer EXCEPT ![w] = IF w = Beat THEN "idle" ELSE "failed"]
    /\ open' = IF w = Beat THEN [open EXCEPT !["relay"] = FALSE] ELSE open
    /\ UNCHANGED <<netVars, quiet, timers, mu, pipes>>

\* The relay sets its read deadline once, before the loop.
RelayReadsOn ==
    /\ open["relay"] /\ net["relay"] = "ok"
    /\ toRelay > 0 /\ toRelay' = toRelay - 1
    /\ UNCHANGED <<netVars, open, quiet, timers, writers, toAgent, half>>

\* Only the relay has a read deadline.
ReadExpiresRelay(e) ==
    /\ open[e] /\ open' = [open EXCEPT ![e] = FALSE]
    /\ quiet[e] >= ReadTimeout
    /\ e = "relay"
    /\ UNCHANGED <<netVars, quiet, timers, writers, pipes>>

\* A ping that is sent renews the deadline for reading as well.
AgentPingsRenew ==
    /\ open["agent"]
    /\ tick["agent"] /\ tick' = [tick EXCEPT !["agent"] = FALSE]
    /\ toRelay < Capacity /\ toRelay' = toRelay + 1
    /\ quiet' = [quiet EXCEPT !["agent"] = 0]
    /\ UNCHANGED <<netVars, open, phase, writers, toAgent, half>>

------------------------------------------------------------------------------
(* The relay's writers: the heartbeat, and handleClient for each client *)

BeatDue ==
    /\ open["relay"]
    /\ tick["relay"] /\ tick' = [tick EXCEPT !["relay"] = FALSE]
    /\ writer[Beat] = "idle" /\ writer' = [writer EXCEPT ![Beat] = "lock"]
    /\ UNCHANGED <<netVars, open, quiet, phase, mu, pipes>>

\* The client has found the agent's link in r.agents.
Request(c) ==
    /\ open["relay"]
    /\ writer[c] = "idle" /\ writer' = [writer EXCEPT ![c] = "lock"]
    /\ UNCHANGED <<netVars, open, quiet, timers, mu, pipes>>

Lock(w) ==
    /\ writer[w] = "lock" /\ writer' = [writer EXCEPT ![w] = "hdr"]
    /\ mu = None /\ mu' = w
    /\ UNCHANGED <<netVars, open, quiet, timers, pipes>>

CanWrite == open["relay"] /\ Len(toAgent) < Capacity

\* WriteMsg writes the length of the frame, ...
WriteHeader(w) ==
    /\ writer[w] = "hdr" /\ writer' = [writer EXCEPT ![w] = "body"]
    /\ CanWrite
    /\ toAgent' = Append(toAgent, [of |-> w, part |-> "hdr"])
    /\ UNCHANGED <<netVars, open, quiet, timers, mu, half, toRelay>>

\* ... and then the frame.
WriteBody(w) ==
    /\ writer[w] = "body"
    /\ writer' = [writer EXCEPT ![w] = IF w = Beat THEN "idle" ELSE "told"]
    /\ CanWrite
    /\ toAgent' = Append(toAgent, [of |-> w, part |-> "body"])
    /\ mu' = None
    /\ UNCHANGED <<netVars, open, quiet, timers, half, toRelay>>

\* The connection was closed, at this end or at the other: the heartbeat closes it
\* and ends, a client is refused.
WriteFails(w) ==
    /\ writer[w] \in {"hdr", "body"}
    /\ ~open["relay"] \/ Reset("relay")
    /\ writer' = [writer EXCEPT ![w] = IF w = Beat THEN "idle" ELSE "failed"]
    /\ mu' = None
    /\ open' = IF w = Beat THEN [open EXCEPT !["relay"] = FALSE] ELSE open
    /\ UNCHANGED <<netVars, quiet, timers, pipes>>

------------------------------------------------------------------------------
(* The agent's heartbeat, and the two read loops *)

AgentPings ==
    /\ open["agent"]
    /\ tick["agent"] /\ tick' = [tick EXCEPT !["agent"] = FALSE]
    /\ toRelay < Capacity /\ toRelay' = toRelay + 1
    /\ UNCHANGED <<netVars, open, quiet, phase, writers, toAgent, half>>

\* A ping that cannot be sent closes the link.
AgentPingFails ==
    /\ open["agent"] /\ open' = [open EXCEPT !["agent"] = FALSE]
    /\ tick["agent"] /\ tick' = [tick EXCEPT !["agent"] = FALSE]
    /\ Reset("agent")
    /\ UNCHANGED <<netVars, quiet, phase, writers, pipes>>

\* io.ReadFull takes the length, and then the frame; only a frame renews the
\* deadline.
AgentReads ==
    /\ open["agent"] /\ net["agent"] = "ok"
    /\ toAgent # <<>> /\ toAgent' = Tail(toAgent)
    /\ \/ /\ half = None
          /\ half' = Head(toAgent).of
          /\ UNCHANGED quiet
       \/ /\ half # None
          /\ half' = None
          /\ quiet' = [quiet EXCEPT !["agent"] = 0]
    /\ UNCHANGED <<netVars, open, timers, writers, toRelay>>

RelayReads ==
    /\ open["relay"] /\ net["relay"] = "ok"
    /\ toRelay > 0 /\ toRelay' = toRelay - 1
    /\ quiet' = [quiet EXCEPT !["relay"] = 0]
    /\ UNCHANGED <<netVars, open, timers, writers, toAgent, half>>

\* The read deadline passes; the link is closed and, on the relay, deregistered.
ReadExpires(e) ==
    /\ open[e] /\ open' = [open EXCEPT ![e] = FALSE]
    /\ quiet[e] >= ReadTimeout
    /\ UNCHANGED <<netVars, quiet, timers, writers, pipes>>

\* The other end has closed the link and everything before that has been read.
ReadEnds(e) ==
    /\ open[e] /\ open' = [open EXCEPT ![e] = FALSE]
    /\ ~open[Other(e)] /\ net[e] = "ok"
    /\ IF e = "agent" THEN toAgent = <<>> ELSE toRelay = 0
    /\ UNCHANGED <<netVars, quiet, timers, writers, pipes>>

\* The agent has dialled again: registering, the relay closes the link it had
\* under the name, ...
Replaced ==
    /\ ~open["agent"]
    /\ open["relay"] /\ open' = [open EXCEPT !["relay"] = FALSE]
    /\ UNCHANGED <<netVars, quiet, timers, writers, pipes>>

\* ... and the new link begins, here once the handlers that hold on to the old one
\* have failed.
Redial ==
    /\ \A e \in End : ~open[e]
    /\ \A w \in Writer : writer[w] \notin {"lock", "hdr", "body"}
    /\ net' = Fresh("ok") /\ down' = Fresh(0) /\ long' = FALSE
    /\ open' = Fresh(TRUE)
    /\ quiet' = Fresh(0)
    /\ phase' = Fresh(0) /\ tick' = Fresh(FALSE)
    /\ toAgent' = <<>> /\ half' = None /\ toRelay' = 0
    /\ UNCHANGED <<faults, writers>>

------------------------------------------------------------------------------
(* Time and the network *)

Process ==
    \/ BeatDue
    \/ \E w \in Writer : Lock(w) \/ WriteHeader(w) \/ WriteBody(w) \/ WriteFails(w)
    \/ AgentPings \/ AgentPingFails \/ AgentReads \/ RelayReads
    \/ \E e \in End : ReadExpires(e) \/ ReadEnds(e)

\* No process has anything to do: no guard of Process holds.
Idle ==
    /\ \A e \in End :
          /\ open[e] => quiet[e] < ReadTimeout
          /\ open[e] /\ net[e] = "ok" => open[Other(e)]
    /\ open["relay"] =>
          /\ tick["relay"] => writer[Beat] # "idle"
          /\ net["relay"] = "ok" => toRelay = 0
    /\ open["agent"] =>
          /\ tick["agent"] => toRelay = Capacity
          /\ net["agent"] = "ok" => toAgent = <<>>
    /\ \A w \in Writer :
          /\ writer[w] = "lock" => mu # None
          /\ writer[w] \in {"hdr", "body"} => open["relay"] /\ Len(toAgent) >= Capacity

Fires(e) == phase[e] + 1 = PingInterval

\* Counted no further than matters.
Aged(d) ==
    IF net[d] = "ok" THEN 0
    ELSE IF down[d] > 2 * ReadTimeout THEN down[d] ELSE down[d] + 1

Tick ==
    /\ Idle
    /\ quiet' = [e \in End |->
            IF open[e] /\ quiet[e] < ReadTimeout THEN quiet[e] + 1 ELSE quiet[e]]
    /\ phase' = [e \in End |-> IF Fires(e) THEN 0 ELSE phase[e] + 1]
    /\ tick' = [e \in End |-> tick[e] \/ Fires(e)]
    /\ down' = [d \in End |-> Aged(d)]
    /\ long' = (long \/ \E d \in End : Aged(d) >= ReadTimeout - PingInterval)
    /\ UNCHANGED <<net, faults, open, writers, pipes>>

\* Nothing is delivered for a while, or never again.  An outage that is over for no
\* time at all is not over.
Stops(d, how) ==
    /\ faults < MaxFaults /\ faults' = faults + 1
    /\ \/ net[d] = "ok" /\ down[d] = 0
       \/ net[d] = "stalled" /\ how = "cut"
    /\ net' = [net EXCEPT ![d] = how]
    /\ UNCHANGED <<down, long, open, quiet, timers, writers, pipes>>

Resumes(d) ==
    /\ net[d] = "stalled" /\ net' = [net EXCEPT ![d] = "ok"]
    /\ UNCHANGED <<down, long, faults, open, quiet, timers, writers, pipes>>

Next ==
    \/ Process
    \/ Replaced \/ Redial
    \/ Tick
    \/ \E c \in Client : Request(c)
    \/ \E d \in End : Resumes(d) \/ (\E how \in {"stalled", "cut"} : Stops(d, how))

Spec == Init /\ [][Next]_vars

\* Goroutines run, time passes, and the agent gets through when it dials again.
Fairness ==
    /\ WF_vars(BeatDue)
    /\ \A w \in Writer :
          WF_vars(Lock(w)) /\ WF_vars(WriteHeader(w) \/ WriteBody(w) \/ WriteFails(w))
    /\ WF_vars(AgentPings \/ AgentPingFails) /\ WF_vars(AgentReads) /\ WF_vars(RelayReads)
    /\ \A e \in End : WF_vars(ReadExpires(e)) /\ WF_vars(ReadEnds(e))
    /\ WF_vars(Replaced) /\ WF_vars(Redial)
    /\ WF_vars(Tick)

FairSpec == Spec /\ Fairness

------------------------------------------------------------------------------
(* Properties *)

Part == [of : Writer, part : {"hdr", "body"}]

\* Every variable keeps its type, and the connection its capacity.
TypeOK ==
    /\ net \in [End -> {"ok", "stalled", "cut"}]
    /\ down \in [End -> Nat] /\ long \in BOOLEAN
    /\ open \in [End -> BOOLEAN]
    /\ quiet \in [End -> Nat]
    /\ phase \in [End -> 0..PingInterval - 1] /\ tick \in [End -> BOOLEAN]
    /\ writer \in [Writer -> {"idle", "lock", "hdr", "body", "told", "failed"}]
    /\ mu \in Writer \cup {None}
    /\ toAgent \in Seq(Part) /\ Len(toAgent) <= Capacity
    /\ half \in Writer \cup {None}
    /\ toRelay \in 0..Capacity
    /\ faults \in 0..MaxFaults

\* What the agent has still to read, from the beginning of a frame.
Stream == (IF half = None THEN <<>> ELSE <<[of |-> half, part |-> "hdr"]>>) \o toAgent

\* The two writes of a frame follow each other on the link, whoever else has a
\* frame to write: as long as the agent reads, it never takes one writer's frame for
\* another's length.
Framed == open["agent"] =>
    \A i \in DOMAIN Stream :
        IF Stream[i].part = "hdr"
        THEN i < Len(Stream) => Stream[i + 1] = [of |-> Stream[i].of, part |-> "body"]
        ELSE i > 1 /\ Stream[i - 1] = [of |-> Stream[i].of, part |-> "hdr"]

\* An outage that is shorter than ReadTimeout - PingInterval, in whichever
\* direction, costs no link: neither end gives up one that works.
HealthyKept == ~long => \A e \in End : open[e]

\* A dead link is noticed, even if it is dead in one direction only: by the end
\* that hears nothing within ReadTimeout, by the other within twice that time.
DeadNoticed ==
    \A d \in End :
        /\ open[d] => down[d] <= ReadTimeout
        /\ open[Other(d)] => down[d] <= 2 * ReadTimeout

\* A handler that waits for ac.mu, or for a connection that takes nothing, gets
\* on: it has no deadline of its own, but the link it writes to has.
NotifyReleased ==
    \A c \in Client : writer[c] = "lock" ~> writer[c] \in {"told", "failed"}

\* The agent always comes back: when the faults are over both ends hold a link
\* that works.
AgentReturns == []<>(\A e \in End : open[e] /\ net[e] = "ok")
===============================================================================
