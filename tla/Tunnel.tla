-------------------------------- MODULE Tunnel --------------------------------
(* One forwarded connection from end to end.  It takes four connections and   *)
(* three processes that join them:                                            *)
(*                                                                            *)
(*   user --1-- client --2-- relay --3-- agent --4-- service                  *)
(*                                                                            *)
(* handleConn of src/cmd/client/main.go, handleClient and handleAgentSession  *)
(* of src/cmd/relay/main.go and handleSession of src/cmd/agent/main.go set    *)
(* the three up, and each then runs proto.Pipe on its two connections.        *)
(* Relay has all clients and agents at once; here there is one of each, and   *)
(* what they send each other.                                                 *)
(*                                                                            *)
(* A connection is two streams, up towards the service and down towards the   *)
(* user.  A reader finds what is left in a stream first and its end after     *)
(* that; a broken connection gives both ends an error and loses what it held. *)

EXTENDS Naturals, Sequences

CONSTANTS
    MaxSend,    \* bound: pieces of data sent in each direction, [Dir -> Nat]
    MaxBreaks   \* bound: connections that break on their own

Hop == 1..4
Dir == {"up", "down"}
Stream == Hop \X Dir
Pipes == {"client", "relay", "agent"}

ASSUME BoundsNat == MaxSend \in [Dir -> Nat] /\ MaxBreaks \in Nat

VARIABLES
    stage,    \* where each process stands
    ran,      \* processes that have begun to pipe
    flows,    \* copies that run, as <<process, direction>>
    ackDue,   \* handleClient has yet to write its ok
    dialled,  \* the Hello of the agent's data connection is on its way
    buf,      \* what is in each stream
    fin,      \* streams whose writer has shut them
    shut,     \* streams whose reader has closed the connection
    broken,   \* connections that are broken
    breaks,   \* how many broke on their own
    sent,     \* pieces of data put in by the user (up) and the service (down)
    got,      \* pieces taken out at the other end
    seen      \* directions whose receiver has seen the end

vars == <<stage, ran, flows, ackDue, dialled, buf, fin, shut, broken, breaks,
          sent, got, seen>>

streams == <<buf, fin, shut, broken>>
ends == <<breaks, sent, got, seen>>

\* The connection of a process on the side of the user.
Near == [client |-> 1, relay |-> 2, agent |-> 3]

\* The streams a copy of p reads and writes, and the reverse of a stream.
Src(p, x) == <<IF x = "up" THEN Near[p] ELSE Near[p] + 1, x>>
Dst(p, x) == <<IF x = "up" THEN Near[p] + 1 ELSE Near[p], x>>
Back(s) == <<s[1], IF s[2] = "up" THEN "down" ELSE "up">>

Stage == {"idle", "dial", "ack", "parked", "told", "local", "piping", "done", "failed"}

Init ==
    /\ stage = [client |-> "dial", relay |-> "idle", agent |-> "idle"]
    /\ ran = {}
    /\ flows = {}
    /\ ackDue = FALSE
    /\ dialled = FALSE
    /\ buf = [s \in Stream |-> <<>>]
    /\ fin = {}
    /\ shut = {}
    /\ broken = {}
    /\ breaks = 0
    /\ sent = [x \in Dir |-> 0]
    /\ got = [x \in Dir |-> 0]
    /\ seen = {}

\* A read of s returns EOF or an error; a write to s fails.
AtEnd(s) == buf[s] = <<>> /\ s \in fin
ReadFails(s) == s[1] \in broken \/ s \in shut
WriteFails(s) == s[1] \in broken \/ s \in shut \/ s \in fin

Goes(p, from, to) == stage[p] = from /\ stage' = [stage EXCEPT ![p] = to]

\* ReadMsg takes one frame off the stream to the client and no byte beyond it;
\* what does not parse as a frame is an error.
HasFrame(m) == buf[<<2, "down">>] # <<>> /\ Head(buf[<<2, "down">>]) = m

\* WriteMsg puts one frame into s, or fails.
Written(s, m) == IF WriteFails(s) THEN buf[s] ELSE Append(buf[s], m)

\* Connections are closed at the ends that write the streams of S.  Input that
\* was not read may turn the close into a reset, which loses what is under way.
Close(S) ==
    /\ fin' = fin \cup S
    /\ shut' = shut \cup {Back(s) : s \in S}
    /\ \E reset \in SUBSET {s[1] : s \in {t \in S : buf[Back(t)] # <<>>}} :
          /\ broken' = broken \cup reset
          /\ buf' = [s \in Stream |->
                IF s[1] \in reset \/ Back(s) \in S THEN <<>> ELSE buf[s]]

\* The client's Hello is on its way to the relay.
Asked == stage["client"] \notin {"dial", "failed"}

StartPipe(p) ==
    /\ ran' = ran \cup {p}
    /\ flows' = flows \cup ({p} \X Dir)

------------------------------------------------------------------------------
(* Faults: actions as a plausible bug would have them.  They are no part of the *)
(* specification; each shows that some property below can fail.                *)

\* The first copy that is over closes both connections.
PipeReturnsEarly(p) ==
    /\ Goes(p, "piping", "done")
    /\ \E x \in Dir : <<p, x>> \notin flows
    /\ Close({<<Near[p], "down">>, <<Near[p] + 1, "up">>})
    /\ UNCHANGED <<ran, flows, ackDue, dialled, ends>>

\* Nothing is copied once the other direction has ended.
CopyWhileBoth(p, x) ==
    /\ {p} \X Dir \subseteq flows
    /\ ~ReadFails(Src(p, x)) /\ buf[Src(p, x)] # <<>>
    /\ ~WriteFails(Dst(p, x))
    /\ buf' = [buf EXCEPT ![Src(p, x)] = Tail(@),
                          ![Dst(p, x)] = Append(@, Head(buf[Src(p, x)]))]
    /\ UNCHANGED <<stage, ran, flows, ackDue, dialled, fin, shut, broken, ends>>

\* A copy that is over does not shut the stream it wrote.
FlowEndsQuietly(p, x) ==
    /\ <<p, x>> \in flows
    /\ \/ AtEnd(Src(p, x)) \/ ReadFails(Src(p, x))
       \/ buf[Src(p, x)] # <<>> /\ WriteFails(Dst(p, x))
    /\ flows' = flows \ {<<p, x>>}
    /\ UNCHANGED <<stage, ran, ackDue, dialled, streams, ends>>

\* The client begins to pipe without waiting for the answer of the relay.
ClientPipesAtOnce ==
    /\ Goes("client", "ack", "piping")
    /\ StartPipe("client")
    /\ UNCHANGED <<ackDue, dialled, streams, ends>>

\* The data connection of an unknown session is left open.
RelayTurnsAwayOpen ==
    /\ dialled
    /\ stage["relay"] = "done"
    /\ dialled' = FALSE
    /\ UNCHANGED <<stage, ran, flows, ackDue, streams, ends>>

------------------------------------------------------------------------------
(* The client: handleConn *)

ClientDials ==
    /\ Goes("client", "dial", "ack")
    /\ UNCHANGED <<ran, flows, ackDue, dialled, streams, ends>>

\* Three attempts have failed.
ClientDialFails ==
    /\ Goes("client", "dial", "failed")
    /\ Close({<<1, "down">>})
    /\ UNCHANGED <<ran, flows, ackDue, dialled, ends>>

ClientConnected ==
    /\ Goes("client", "ack", "piping")
    /\ ~ReadFails(<<2, "down">>) /\ HasFrame("ok")
    /\ buf' = [buf EXCEPT ![<<2, "down">>] = Tail(@)]
    /\ StartPipe("client")
    /\ UNCHANGED <<ackDue, dialled, fin, shut, broken, ends>>

\* A nak, the end of the stream, something that is no ack, or 10 s of nothing.
ClientGivesUp ==
    /\ Goes("client", "ack", "done")
    /\ ~HasFrame("ok")
    /\ Close({<<1, "down">>, <<2, "up">>})
    /\ UNCHANGED <<ran, flows, ackDue, dialled, ends>>

------------------------------------------------------------------------------
(* The relay: handleClient and handleAgentSession *)

\* The agent is offline or unreachable.
RelayRefuses ==
    /\ Asked
    /\ Goes("relay", "idle", "done")
    /\ fin' = fin \cup {<<2, "down">>}
    /\ shut' = shut \cup {<<2, "up">>}
    /\ buf' = [buf EXCEPT ![<<2, "down">>] = Written(<<2, "down">>, "nak")]
    /\ UNCHANGED <<ran, flows, ackDue, dialled, broken, ends>>

\* The request is parked, and its Notify arrives or is lost with its link.
RelayParks ==
    /\ Asked
    /\ stage["relay"] = "idle"
    /\ \E agent \in {"told", "done"} :
          stage' = [stage EXCEPT !["relay"] = "parked", !["agent"] = agent]
    /\ ackDue' = TRUE
    /\ UNCHANGED <<ran, flows, dialled, streams, ends>>

\* The length and the frame are two writes, and a pipe that runs already may write
\* between them.  The client then gives up (ClientGivesUp), as it does when data come
\* before the ack, so that one item stands for both.
RelayAcks ==
    /\ ackDue
    /\ <<2, "down">> \notin fin
    /\ ackDue' = FALSE
    /\ buf' = [buf EXCEPT ![<<2, "down">>] = Written(<<2, "down">>, "ok")]
    /\ UNCHANGED <<stage, ran, flows, dialled, fin, shut, broken, ends>>

\* The request is withdrawn if it is parked still; its connection is closed even
\* if it is being piped.
RelayAckFails ==
    /\ ackDue
    /\ WriteFails(<<2, "down">>)
    /\ ackDue' = FALSE
    /\ stage' = [stage EXCEPT !["relay"] = IF @ = "parked" THEN "done" ELSE @]
    /\ Close({<<2, "down">>})
    /\ UNCHANGED <<ran, flows, dialled, ends>>

RelayReaps ==
    /\ ~ackDue
    /\ Goes("relay", "parked", "done")
    /\ Close({<<2, "down">>})
    /\ UNCHANGED <<ran, flows, ackDue, dialled, ends>>

RelayPairs ==
    /\ dialled
    /\ dialled' = FALSE
    /\ Goes("relay", "parked", "piping")
    /\ StartPipe("relay")
    /\ UNCHANGED <<ackDue, streams, ends>>

RelayTurnsAway ==
    /\ dialled
    /\ stage["relay"] = "done"
    /\ dialled' = FALSE
    /\ Close({<<3, "up">>})
    /\ UNCHANGED <<stage, ran, flows, ackDue, ends>>

------------------------------------------------------------------------------
(* The agent: handleSession and closeSession *)

\* The Hello is written before the service is dialled.
AgentDials ==
    /\ Goes("agent", "told", "local")
    /\ dialled' = TRUE
    /\ UNCHANGED <<ran, flows, ackDue, streams, ends>>

AgentDialFails ==
    /\ Goes("agent", "told", "done")
    /\ UNCHANGED <<ran, flows, ackDue, dialled, streams, ends>>

\* The port is not allowed: the session is dialled back and closed at once.
AgentCloses ==
    /\ Goes("agent", "told", "done")
    /\ dialled' = TRUE
    /\ Close({<<3, "down">>})
    /\ UNCHANGED <<ran, flows, ackDue, ends>>

AgentConnects ==
    /\ Goes("agent", "local", "piping")
    /\ StartPipe("agent")
    /\ UNCHANGED <<ackDue, dialled, streams, ends>>

\* Nobody listens on the port.
AgentLocalFails ==
    /\ Goes("agent", "local", "done")
    /\ Close({<<3, "down">>})
    /\ UNCHANGED <<ran, flows, ackDue, dialled, ends>>

------------------------------------------------------------------------------
(* proto.Pipe *)

\* io.Copy moves a piece on.
Copy(p, x) ==
    /\ <<p, x>> \in flows
    /\ ~ReadFails(Src(p, x)) /\ buf[Src(p, x)] # <<>>
    /\ ~WriteFails(Dst(p, x))
    /\ buf' = [buf EXCEPT ![Src(p, x)] = Tail(@),
                          ![Dst(p, x)] = Append(@, Head(buf[Src(p, x)]))]
    /\ UNCHANGED <<stage, ran, flows, ackDue, dialled, fin, shut, broken, ends>>

\* A write to a connection that the other end has left succeeds and is lost; it
\* may be answered by a reset.
CopyLost(p, x) ==
    /\ <<p, x>> \in flows
    /\ ~ReadFails(Src(p, x)) /\ buf[Src(p, x)] # <<>>
    /\ WriteFails(Dst(p, x)) /\ Dst(p, x) \notin fin
    /\ \E reset \in SUBSET {Dst(p, x)[1]} :
          /\ broken' = broken \cup reset
          /\ buf' = [s \in Stream |->
                CASE s = Src(p, x) -> Tail(buf[s])
                  [] s[1] \in reset -> <<>>
                  [] OTHER -> buf[s]]
    /\ UNCHANGED <<stage, ran, flows, ackDue, dialled, fin, shut, ends>>

\* io.Copy returns, at the end of its input or with an error that nobody looks
\* at, and the stream it wrote is shut.
FlowEnds(p, x) ==
    /\ <<p, x>> \in flows
    /\ \/ AtEnd(Src(p, x)) \/ ReadFails(Src(p, x))
       \/ buf[Src(p, x)] # <<>> /\ WriteFails(Dst(p, x))
    /\ flows' = flows \ {<<p, x>>}
    /\ fin' = fin \cup {Dst(p, x)}
    /\ UNCHANGED <<stage, ran, ackDue, dialled, buf, shut, broken, ends>>

\* Both copies are over, and both connections are closed.
PipeReturns(p) ==
    /\ Goes(p, "piping", "done")
    /\ \A x \in Dir : <<p, x>> \notin flows
    /\ Close({<<Near[p], "down">>, <<Near[p] + 1, "up">>})
    /\ UNCHANGED <<ran, flows, ackDue, dialled, ends>>

------------------------------------------------------------------------------
(* The environment: the user's program, the service, the network *)

\* The streams by which data enters and leaves the tunnel.
Entry(x) == IF x = "up" THEN <<1, "up">> ELSE <<4, "down">>
Exit(x) == IF x = "up" THEN <<4, "up">> ELSE <<1, "down">>

\* The user is there from the start, the service once the agent has dialled it.
Present(x) == x = "up" \/ "agent" \in ran

Sends(x) ==
    /\ Present(x)
    /\ sent[x] < MaxSend[x]
    /\ ~WriteFails(Entry(x))
    /\ sent' = [sent EXCEPT ![x] = @ + 1]
    /\ buf' = [buf EXCEPT ![Entry(x)] = Append(@, "data")]
    /\ UNCHANGED <<stage, ran, flows, ackDue, dialled, fin, shut, broken, breaks, got, seen>>

\* The sender shuts its stream and goes on reading.
Finishes(x) ==
    /\ Present(x)
    /\ Entry(x) \notin fin
    /\ fin' = fin \cup {Entry(x)}
    /\ UNCHANGED <<stage, ran, flows, ackDue, dialled, buf, shut, broken, ends>>

\* The sender closes its connection.
Leaves(x) ==
    /\ Present(x)
    /\ Back(Entry(x)) \notin shut
    /\ Close({Entry(x)})
    /\ UNCHANGED <<stage, ran, flows, ackDue, dialled, ends>>

Gets(x) ==
    /\ ~ReadFails(Exit(x)) /\ buf[Exit(x)] # <<>>
    /\ buf' = [buf EXCEPT ![Exit(x)] = Tail(@)]
    /\ got' = [got EXCEPT ![x] = @ + 1]
    /\ UNCHANGED <<stage, ran, flows, ackDue, dialled, fin, shut, broken, breaks, sent, seen>>

SeesEnd(x) ==
    /\ ~ReadFails(Exit(x)) /\ AtEnd(Exit(x))
    /\ x \notin seen
    /\ seen' = seen \cup {x}
    /\ UNCHANGED <<stage, ran, flows, ackDue, dialled, streams, breaks, sent, got>>

Breaks(h) ==
    /\ breaks < MaxBreaks
    /\ h = 2 => Asked
    /\ h = 3 => dialled \/ "relay" \in ran
    /\ h \notin broken
    /\ breaks' = breaks + 1
    /\ broken' = broken \cup {h}
    /\ buf' = [s \in Stream |-> IF s[1] = h THEN <<>> ELSE buf[s]]
    /\ UNCHANGED <<stage, ran, flows, ackDue, dialled, fin, shut, sent, got, seen>>

------------------------------------------------------------------------------
ClientAck == ClientConnected \/ ClientGivesUp
RelayAck == RelayAcks \/ RelayAckFails
Accept == RelayPairs \/ RelayTurnsAway
AgentAnswers == AgentDials \/ AgentDialFails \/ AgentCloses
AgentBridges == AgentConnects \/ AgentLocalFails

Next ==
    \/ ClientDials \/ ClientDialFails \/ ClientAck
    \/ RelayRefuses \/ RelayParks \/ RelayAck \/ RelayReaps \/ Accept
    \/ AgentAnswers \/ AgentBridges
    \/ \E p \in Pipes, x \in Dir : Copy(p, x) \/ CopyLost(p, x) \/ FlowEnds(p, x)
    \/ \E p \in Pipes : PipeReturns(p)
    \/ \E x \in Dir : Sends(x) \/ Finishes(x) \/ Leaves(x) \/ Gets(x) \/ SeesEnd(x)
    \/ \E h \in {2, 3} : Breaks(h)

Spec == Init /\ [][Next]_vars

\* Processes go on, timers fire, and the two ends read what arrives.  Nobody owes
\* the tunnel data, or the end of a stream.
Fairness ==
    /\ WF_vars(ClientDials \/ ClientDialFails) /\ WF_vars(ClientAck)
    /\ WF_vars(RelayRefuses \/ RelayParks) /\ WF_vars(RelayAck)
    /\ WF_vars(RelayReaps) /\ WF_vars(Accept)
    /\ WF_vars(AgentAnswers) /\ WF_vars(AgentBridges)
    /\ \A p \in Pipes : WF_vars(PipeReturns(p))
    /\ \A p \in Pipes, x \in Dir : WF_vars(Copy(p, x) \/ CopyLost(p, x) \/ FlowEnds(p, x))
    /\ \A x \in Dir : WF_vars(Gets(x) \/ SeesEnd(x))

FairSpec == Spec /\ Fairness

------------------------------------------------------------------------------
(* Properties *)

\* Every variable keeps its type, and only a process that pipes has copies
\* running.
TypeOK ==
    /\ stage \in [Pipes -> Stage]
    /\ ran \subseteq Pipes
    /\ flows \subseteq {p \in Pipes : stage[p] = "piping"} \X Dir
    /\ ackDue \in BOOLEAN /\ dialled \in BOOLEAN
    /\ buf \in [Stream -> Seq({"ok", "nak", "data"})]
    /\ fin \subseteq Stream /\ shut \subseteq Stream
    /\ broken \subseteq Hop
    /\ breaks \in 0..MaxBreaks
    /\ sent \in [Dir -> Nat] /\ got \in [Dir -> Nat]
    /\ seen \subseteq Dir

\* The end of a stream stands for all of it: once the three processes have
\* joined, a receiver that sees the end has got every piece that was sent,
\* whoever finished, left or lost interest, unless a connection was broken or
\* reset (proto.Pipe: each direction is independent of the other).
NoTruncation ==
    ran = Pipes /\ broken = {} => \A x \in seen : got[x] = sent[x]

\* The frames of the session protocol share their connection with the data that
\* follows, and reach neither program: whatever the user or the service reads was
\* sent by the other of the two.  The relay answers once, before or after it begins
\* to pipe, and the client takes that answer off the stream before it does.
OnlyData ==
    \A x \in Dir : \A i \in DOMAIN buf[Exit(x)] : buf[Exit(x)][i] = "data"

\* A request stream that ends early does not cost the reply: what the service
\* sends reaches a user who has not left, unless a connection breaks.
ReplyDelivered ==
    \A n \in 1..MaxSend["down"] :
        ran = Pipes /\ sent["down"] >= n
            ~> got["down"] >= n \/ <<1, "down">> \in shut \/ broken # {}

\* No silent hang: when the service has ended, a connection broke, or the relay
\* or the agent has given up, the user's program is told by the end of its input.
UserTold ==
    \/ <<4, "down">> \in fin
    \/ broken # {}
    \/ stage["relay"] = "done"
    \/ stage["agent"] = "done"
        ~> <<1, "down">> \in fin \cup shut

\* When both the user and the service have finished, every process is done with
\* the session and has closed its connections.
TornDown ==
    {<<1, "up">>, <<4, "down">>} \subseteq fin
        ~> \A p \in Pipes : stage[p] = "done"
===============================================================================
