-------------------------------- MODULE Relay --------------------------------
(* The relay process of src/cmd/relay/main.go: its three tables under r.mu,   *)
(* one handler goroutine per connection, the heartbeat of a control link and  *)
(* the reaper of a parked client.  Each critical section and each socket      *)
(* write between two of them is one action.                                   *)
(*                                                                            *)
(* A session id is 128 random bits drawn for one client connection, so the    *)
(* connection itself stands for the id: waiting[sid] is c \in waiting.        *)
(* Time is left out: a deadline or the reaper may fire whenever the code has  *)
(* armed it.  Agents and clients are the environment; a connection ends on    *)
(* their side (PeerGone) by a close, a crash or a silently severed link.      *)

EXTENDS Naturals, Sequences

CONSTANTS
    AgentId,      \* names under which agents register
    CtlConn,      \* connections whose Hello has role agent_control
    CliConn,      \* connections whose Hello has role client_session
    DataConn,     \* connections whose Hello has role agent_session
    None,         \* the nil agentConn, and a name not yet announced
    MaxRestarts,  \* bound: how often the relay process dies and comes back
    MaxData       \* bound: pieces of data piped to one client

Conn == CtlConn \cup CliConn \cup DataConn

ASSUME ConnsDisjoint ==
    /\ CtlConn \cap CliConn = {}
    /\ CtlConn \cap DataConn = {}
    /\ CliConn \cap DataConn = {}
ASSUME NoneIsFresh == None \notin AgentId \cup CtlConn \cup CliConn \cup DataConn
ASSUME BoundsNat == MaxRestarts \in Nat /\ MaxData \in Nat

VARIABLES
    agents,    \* r.agents: the link registered for each agent, or None
    waiting,   \* r.waiting: the parked sessions
    sessions,  \* r.sessions: the sessions listed as live
    ctl,       \* where handleAgent stands, for each control link
    cli,       \* where handleClient and its reaper stand, for each client
    dat,       \* where handleAgentSession stands, for each data connection
    name,      \* the AgentID in the Hello of a control link or a client
    link,      \* the ac that handleClient read from r.agents
    sid,       \* the SessionID in the Hello of a data connection
    flow,      \* the ends that Pipe still reads from, for each data connection
    closed,    \* connections the relay has closed
    gone,      \* connections that have ended on the far side
    told,      \* sessions whose Notify reached an agent
    sent,      \* what has been written to each client
    restarts   \* how often the process has died

vars == <<agents, waiting, sessions, ctl, cli, dat, name, link, sid, flow,
          closed, gone, told, sent, restarts>>

tables == <<agents, waiting, sessions>>
cliVars == <<cli, link, told, sent>>
datVars == <<dat, sid, flow>>

CtlState == {"idle", "register", "reading", "cleanup", "done"}
CliState == {"idle", "lookup", "park", "notify", "unpark", "ack", "reaper", "done"}
DatState == {"idle", "take", "piping", "unlist", "done"}

Init ==
    /\ agents = [a \in AgentId |-> None]
    /\ waiting = {}
    /\ sessions = {}
    /\ ctl = [k \in CtlConn |-> "idle"]
    /\ cli = [c \in CliConn |-> "idle"]
    /\ dat = [d \in DataConn |-> "idle"]
    /\ name = [x \in CtlConn \cup CliConn |-> None]
    /\ link = [c \in CliConn |-> None]
    /\ sid = [d \in DataConn |-> None]
    /\ flow = [d \in DataConn |-> {}]
    /\ closed = {}
    /\ gone = {}
    /\ told = {}
    /\ sent = [c \in CliConn |-> <<>>]
    /\ restarts = 0

\* A write or read on x fails for sure once the relay has closed x, and may
\* fail (or, for a write, vanish in a buffer) once the far side is gone.
Broken(x) == x \in closed \cup gone

\* Pipe has told the client that no more data comes: the write half is closed.
HalfClosed(c) == \E d \in DataConn : dat[d] = "piping" /\ sid[d] = c /\ d \notin flow[d]

\* A handler moves from one of its steps to another.
CtlGoes(k, from, to) == ctl[k] = from /\ ctl' = [ctl EXCEPT ![k] = to]
CliGoes(c, from, to) == cli[c] = from /\ cli' = [cli EXCEPT ![c] = to]
DatGoes(d, from, to) == dat[d] = from /\ dat' = [dat EXCEPT ![d] = to]

\* A nak is written, and the connection closed, outside any lock.
Refuse(c) ==
    /\ sent' = [sent EXCEPT ![c] = Append(@, "nak")]
    /\ closed' = closed \cup {c}
    /\ cli' = [cli EXCEPT ![c] = "done"]

------------------------------------------------------------------------------
(* Faults: actions as a plausible bug would have them.  They are no part of the *)
(* specification; each shows that some property below can fail.                *)

\* The table is given the name instead of the link.
RegisterName(k) ==
    /\ CtlGoes(k, "register", "reading")
    /\ closed' = closed \cup ({agents[name[k]]} \ {None})
    /\ agents' = [agents EXCEPT ![name[k]] = name[k]]
    /\ UNCHANGED <<waiting, sessions, cliVars, datVars, name, gone, restarts>>

\* The replaced link is left open.
RegisterBeside(k) ==
    /\ CtlGoes(k, "register", "reading")
    /\ agents' = [agents EXCEPT ![name[k]] = k]
    /\ UNCHANGED <<waiting, sessions, cliVars, datVars, name, closed, gone, restarts>>

\* The cleanup does not look whose entry it deletes.
DeregisterAny(k) ==
    /\ CtlGoes(k, "cleanup", "done")
    /\ agents' = [agents EXCEPT ![name[k]] = None]
    /\ closed' = closed \cup {k}
    /\ UNCHANGED <<waiting, sessions, cliVars, datVars, name, gone, restarts>>

\* The cleanup closes the link and leaves its entry.
DeregisterNone(k) ==
    /\ CtlGoes(k, "cleanup", "done")
    /\ closed' = closed \cup {k}
    /\ UNCHANGED <<tables, cliVars, datVars, name, gone, restarts>>

\* A Notify that was slow to be written counts as failed although it arrived.
NotifyArrivesLate(c) ==
    /\ cli[c] = "notify"
    /\ ~Broken(link[c])
    /\ told' = told \cup {c}
    /\ \E pc \in {"ack", "unpark"} : cli' = [cli EXCEPT ![c] = pc]
    /\ UNCHANGED <<tables, ctl, datVars, name, link, closed, gone, sent, restarts>>

\* The reaper is not armed.
AckUnwatched(c) ==
    /\ CliGoes(c, "ack", "done")
    /\ c \notin closed
    /\ ~HalfClosed(c)
    /\ sent' = [sent EXCEPT ![c] = Append(@, "ok")]
    /\ UNCHANGED <<tables, ctl, datVars, name, link, closed, gone, told, restarts>>

\* A request whose client is gone stays parked.
AckFailsParked(c) ==
    /\ CliGoes(c, "ack", "done")
    /\ Broken(c) \/ HalfClosed(c)
    /\ closed' = closed \cup {c}
    /\ UNCHANGED <<tables, ctl, datVars, name, link, gone, told, sent, restarts>>

\* The reaper does not look whether the session was taken.
ReapAny(c) ==
    /\ CliGoes(c, "reaper", "done")
    /\ closed' = closed \cup {c}
    /\ waiting' = waiting \ {c}
    /\ UNCHANGED <<agents, sessions, ctl, datVars, name, link, gone, told,
                   sent, restarts>>

\* The reaper withdraws the request and leaves its connection open.
ReapUnclosed(c) ==
    /\ CliGoes(c, "reaper", "done")
    /\ waiting' = waiting \ {c}
    /\ UNCHANGED <<agents, sessions, ctl, datVars, name, link, closed, gone, told,
                   sent, restarts>>

\* The session stays parked while it is piped.
PairParked(d) ==
    /\ DatGoes(d, "take", "piping")
    /\ sid[d] \in waiting
    /\ sessions' = sessions \cup {sid[d]}
    /\ flow' = [flow EXCEPT ![d] = {sid[d], d}]
    /\ UNCHANGED <<agents, waiting, ctl, cliVars, name, sid, closed, gone, restarts>>

\* The session stays listed after its pipe.
UnlistNone(d) ==
    /\ DatGoes(d, "unlist", "done")
    /\ UNCHANGED <<tables, ctl, cliVars, sid, flow, name, closed, gone, restarts>>

------------------------------------------------------------------------------
(* handle: the Hello and the dispatch on its role *)

\* No Hello within 10 s, a bad key, an unknown role or an empty agent id.
RejectControl(k) ==
    /\ CtlGoes(k, "idle", "done")
    /\ closed' = closed \cup {k}
    /\ UNCHANGED <<tables, cliVars, datVars, name, gone, restarts>>

RejectClient(c) ==
    /\ CliGoes(c, "idle", "done")
    /\ closed' = closed \cup {c}
    /\ UNCHANGED <<tables, ctl, link, told, sent, datVars, name, gone, restarts>>

RejectSession(d) ==
    /\ DatGoes(d, "idle", "done")
    /\ closed' = closed \cup {d}
    /\ UNCHANGED <<tables, ctl, cliVars, sid, flow, name, gone, restarts>>

HelloControl(k, a) ==
    /\ CtlGoes(k, "idle", "register")
    /\ name' = [name EXCEPT ![k] = a]
    /\ UNCHANGED <<tables, cliVars, datVars, closed, gone, restarts>>

HelloClient(c, a) ==
    /\ CliGoes(c, "idle", "lookup")
    /\ name' = [name EXCEPT ![c] = a]
    /\ UNCHANGED <<tables, ctl, datVars, link, told, sent, closed, gone, restarts>>

\* An agent dials back for a session it was told of, however late.
HelloSession(d, s) ==
    /\ DatGoes(d, "idle", "take")
    /\ s \in told
    /\ sid' = [sid EXCEPT ![d] = s]
    /\ UNCHANGED <<tables, ctl, cliVars, name, flow, closed, gone, restarts>>

------------------------------------------------------------------------------
(* handleAgent: one control link *)

Register(k) ==
    /\ CtlGoes(k, "register", "reading")
    /\ closed' = closed \cup ({agents[name[k]]} \ {None})
    /\ agents' = [agents EXCEPT ![name[k]] = k]
    /\ UNCHANGED <<waiting, sessions, cliVars, datVars, name, gone, restarts>>

\* The read loop returns: the link was closed here, or ended, or 90 s silent.  ReadMsg
\* also fails on a frame it cannot parse or that is too long; the program's agents
\* write none, since each control link has one writer there, and WriteMsg checks.
ReadFails(k) ==
    /\ CtlGoes(k, "reading", "cleanup")
    /\ Broken(k)
    /\ UNCHANGED <<tables, cliVars, datVars, name, closed, gone, restarts>>

\* The heartbeat goroutine, which outlives the read loop until stop is closed.
HeartbeatFails(k) ==
    /\ ctl[k] \in {"reading", "cleanup"}
    /\ k \in gone \ closed
    /\ closed' = closed \cup {k}
    /\ UNCHANGED <<tables, ctl, cliVars, datVars, name, gone, restarts>>

\* The deferred cleanup leaves alone a registration that has replaced this one.
Deregister(k) ==
    /\ CtlGoes(k, "cleanup", "done")
    /\ agents' = IF agents[name[k]] = k
                   THEN [agents EXCEPT ![name[k]] = None]
                   ELSE agents
    /\ closed' = closed \cup {k}
    /\ UNCHANGED <<waiting, sessions, cliVars, datVars, name, gone, restarts>>

------------------------------------------------------------------------------
(* handleClient: one client request *)

AgentOffline(c) ==
    /\ cli[c] = "lookup"
    /\ agents[name[c]] = None
    /\ Refuse(c)
    /\ UNCHANGED <<tables, ctl, datVars, name, link, gone, told, restarts>>

\* The handler keeps the link it saw; the table may change from now on.
AgentFound(c) ==
    /\ CliGoes(c, "lookup", "park")
    /\ agents[name[c]] # None
    /\ link' = [link EXCEPT ![c] = agents[name[c]]]
    /\ UNCHANGED <<tables, ctl, datVars, name, closed, gone, told, sent, restarts>>

\* NewSessionID finds no randomness.
NoSessionID(c) ==
    /\ cli[c] = "park"
    /\ Refuse(c)
    /\ UNCHANGED <<tables, ctl, datVars, name, link, gone, told, restarts>>

Park(c) ==
    /\ CliGoes(c, "park", "notify")
    /\ waiting' = waiting \cup {c}
    /\ UNCHANGED <<agents, sessions, ctl, datVars, name, link, closed, gone,
                   told, sent, restarts>>

\* The Notify is written to the link that AgentFound saw, whatever became of it.
NotifyArrives(c) ==
    /\ CliGoes(c, "notify", "ack")
    /\ ~Broken(link[c])
    /\ told' = told \cup {c}
    /\ UNCHANGED <<tables, ctl, datVars, name, link, closed, gone, sent, restarts>>

\* It vanishes in the buffers of a link whose far side is gone.
NotifyVanishes(c) ==
    /\ CliGoes(c, "notify", "ack")
    /\ link[c] \in gone \ closed
    /\ UNCHANGED <<tables, ctl, datVars, name, link, closed, gone, told, sent, restarts>>

NotifyFails(c) ==
    /\ CliGoes(c, "notify", "unpark")
    /\ Broken(link[c])
    /\ UNCHANGED <<tables, ctl, datVars, name, link, closed, gone, told, sent, restarts>>

\* The Notify was not written: "agent unreachable".
Unpark(c) ==
    /\ cli[c] = "unpark"
    /\ waiting' = waiting \ {c}
    /\ Refuse(c)
    /\ UNCHANGED <<agents, sessions, ctl, datVars, name, link, gone, told, restarts>>

\* SessionAck{OK: true}; its success arms the reaper.  WriteMsg writes the length and
\* the frame apart and shares no lock with Pipe: that a pipe writes between the two is
\* not told from data before the ack, since the client gives up on either.
AckWritten(c) ==
    /\ CliGoes(c, "ack", "reaper")
    /\ c \notin closed
    /\ ~HalfClosed(c)
    /\ sent' = [sent EXCEPT ![c] = Append(@, "ok")]
    /\ UNCHANGED <<tables, ctl, datVars, name, link, closed, gone, told, restarts>>

\* The client is gone, or the agent was so quick that Pipe has already closed the
\* client's write half: the handler then closes a connection that is still piped.
AckFails(c) ==
    /\ CliGoes(c, "ack", "done")
    /\ Broken(c) \/ HalfClosed(c)
    /\ waiting' = waiting \ {c}
    /\ closed' = closed \cup {c}
    /\ UNCHANGED <<agents, sessions, ctl, datVars, name, link, gone, told, sent, restarts>>

\* Fifteen seconds later: only a request that is still parked is cut off.
Reap(c) ==
    /\ CliGoes(c, "reaper", "done")
    /\ closed' = IF c \in waiting THEN closed \cup {c} ELSE closed
    /\ waiting' = waiting \ {c}
    /\ UNCHANGED <<agents, sessions, ctl, datVars, name, link, gone, told,
                   sent, restarts>>

------------------------------------------------------------------------------
(* handleAgentSession: one data connection *)

\* The session is parked: it leaves r.waiting and enters r.sessions in one
\* critical section, and Pipe starts to read from both ends.
Pair(d) ==
    /\ DatGoes(d, "take", "piping")
    /\ sid[d] \in waiting
    /\ waiting' = waiting \ {sid[d]}
    /\ sessions' = sessions \cup {sid[d]}
    /\ flow' = [flow EXCEPT ![d] = {sid[d], d}]
    /\ UNCHANGED <<agents, ctl, cliVars, name, sid, closed, gone, restarts>>

\* The session is unknown, expired or already taken.
TurnAway(d) ==
    /\ DatGoes(d, "take", "done")
    /\ sid[d] \notin waiting
    /\ closed' = closed \cup {d}
    /\ UNCHANGED <<tables, ctl, cliVars, name, sid, flow, gone, restarts>>

\* Pipe copies something from the agent to the client.
PipeData(d) ==
    /\ dat[d] = "piping"
    /\ d \in flow[d]
    /\ ~Broken(sid[d])
    /\ Len(sent[sid[d]]) <= MaxData
    /\ sent' = [sent EXCEPT ![sid[d]] = Append(@, "data")]
    /\ UNCHANGED <<tables, ctl, cli, link, told, datVars, name, closed, gone, restarts>>

\* The copy that reads from x is over (EOF, or an error at either end), and the
\* other end is told so by a half-close.
FlowEnds(d, x) ==
    /\ dat[d] = "piping"
    /\ x \in flow[d]
    /\ flow' = [flow EXCEPT ![d] = @ \ {x}]
    /\ UNCHANGED <<tables, ctl, cliVars, dat, sid, name, closed, gone, restarts>>

\* Both copies are over: Pipe closes both connections and returns.
PipeReturns(d) ==
    /\ DatGoes(d, "piping", "unlist")
    /\ flow[d] = {}
    /\ closed' = closed \cup {sid[d], d}
    /\ UNCHANGED <<tables, ctl, cliVars, sid, flow, name, gone, restarts>>

Unlist(d) ==
    /\ DatGoes(d, "unlist", "done")
    /\ sessions' = sessions \ {sid[d]}
    /\ UNCHANGED <<agents, waiting, ctl, cliVars, sid, flow, name, closed,
                   gone, restarts>>

------------------------------------------------------------------------------
(* The environment *)

Connected ==
    {k \in CtlConn : ctl[k] # "idle"} \cup {c \in CliConn : cli[c] # "idle"}
        \cup {d \in DataConn : dat[d] # "idle"}

PeerGone(x) ==
    /\ x \in Connected \ (closed \cup gone)
    /\ gone' = gone \cup {x}
    /\ UNCHANGED <<tables, ctl, cliVars, datVars, name, closed, restarts>>

Ended(pc) == [x \in DOMAIN pc |-> IF pc[x] = "idle" THEN "idle" ELSE "done"]

\* The relay process dies, and every connection with it; main starts with empty
\* tables.  What agents and clients have learned stays with them.
Restart ==
    /\ restarts < MaxRestarts
    /\ restarts' = restarts + 1
    /\ agents' = [a \in AgentId |-> None]
    /\ waiting' = {}
    /\ sessions' = {}
    /\ closed' = closed \cup Connected
    /\ ctl' = Ended(ctl)
    /\ cli' = Ended(cli)
    /\ dat' = Ended(dat)
    /\ flow' = [d \in DataConn |-> {}]
    /\ UNCHANGED <<name, link, sid, gone, told, sent>>

------------------------------------------------------------------------------
AgentStep(k) ==
    \/ RejectControl(k)
    \/ \E a \in AgentId : HelloControl(k, a)
    \/ Register(k)
    \/ ReadFails(k)
    \/ HeartbeatFails(k)
    \/ Deregister(k)

Lookup(c) == AgentOffline(c) \/ AgentFound(c)
Notify(c) == NotifyArrives(c) \/ NotifyVanishes(c) \/ NotifyFails(c)
Ack(c) == AckWritten(c) \/ AckFails(c)

ClientStep(c) ==
    \/ RejectClient(c)
    \/ \E a \in AgentId : HelloClient(c, a)
    \/ Lookup(c)
    \/ NoSessionID(c)
    \/ Park(c)
    \/ Notify(c)
    \/ Unpark(c)
    \/ Ack(c)
    \/ Reap(c)

Take(d) == Pair(d) \/ TurnAway(d)

SessionStep(d) ==
    \/ RejectSession(d)
    \/ \E s \in CliConn : HelloSession(d, s)
    \/ Take(d)
    \/ PipeData(d)
    \/ \E x \in CliConn \cup {d} : FlowEnds(d, x)
    \/ PipeReturns(d)
    \/ Unlist(d)

Next ==
    \/ \E k \in CtlConn : AgentStep(k)
    \/ \E c \in CliConn : ClientStep(c)
    \/ \E d \in DataConn : SessionStep(d)
    \/ \E x \in Conn : PeerGone(x)
    \/ Restart

Spec == Init /\ [][Next]_vars

\* A goroutine that can go on does.  Nobody owes the relay a Hello, data, the
\* end of a stream or a crash; but a read from an ended connection returns.
FlowBreaks(d) == \E x \in flow[d] : Broken(x) /\ FlowEnds(d, x)

Fairness ==
    /\ \A k \in CtlConn :
          WF_vars(Register(k)) /\ WF_vars(ReadFails(k)) /\ WF_vars(Deregister(k))
    /\ \A c \in CliConn :
          /\ WF_vars(Lookup(c)) /\ WF_vars(Park(c)) /\ WF_vars(Notify(c))
          /\ WF_vars(Unpark(c)) /\ WF_vars(Ack(c)) /\ WF_vars(Reap(c))
    /\ \A d \in DataConn :
          /\ WF_vars(Take(d)) /\ WF_vars(FlowBreaks(d))
          /\ WF_vars(PipeReturns(d)) /\ WF_vars(Unlist(d))

FairSpec == Spec /\ Fairness

------------------------------------------------------------------------------
(* Invariants *)

\* Every variable keeps its type: the tables of type relay hold what their Go
\* types say, each handler is at one of its steps.
TypeOK ==
    /\ agents \in [AgentId -> CtlConn \cup {None}]
    /\ waiting \in SUBSET CliConn
    /\ sessions \in SUBSET CliConn
    /\ ctl \in [CtlConn -> CtlState]
    /\ cli \in [CliConn -> CliState]
    /\ dat \in [DataConn -> DatState]
    /\ name \in [CtlConn \cup CliConn -> AgentId \cup {None}]
    /\ link \in [CliConn -> CtlConn \cup {None}]
    /\ sid \in [DataConn -> CliConn \cup {None}]
    /\ flow \in [DataConn -> SUBSET Conn]
    /\ closed \in SUBSET Conn
    /\ gone \in SUBSET Conn
    /\ told \in SUBSET CliConn
    /\ sent \in [CliConn -> Seq({"ok", "nak", "data"})]
    /\ restarts \in Nat

Reachable(a) == agents[a] # None

\* A link whose read loop runs and that nobody closed is the one its agent is
\* reachable under: neither a replacement nor the cleanup of an older link
\* leaves a live link unregistered (handleAgent, the check agents[id] == ac).
OpenLinkRegistered ==
    \A k \in CtlConn : ctl[k] = "reading" /\ k \notin closed => agents[name[k]] = k

\* No ghost agents: an entry of r.agents is a link whose handler still runs and
\* will clean it up, and it stands under the name that link announced.
NoGhostAgent ==
    \A a \in AgentId : Reachable(a) =>
        name[agents[a]] = a /\ ctl[agents[a]] \in {"reading", "cleanup"}

\* A parked request is open and some code will still decide it: its own handler
\* or the reaper (every return of handleClient after parking unparks it).
ParkedIsWatched ==
    \A c \in waiting :
        cli[c] \in {"notify", "unpark", "ack", "reaper"} /\ c \notin closed

Piped(d) == dat[d] \in {"piping", "unlist"}

\* r.sessions lists exactly the sessions some handleAgentSession is piping, each
\* piped once, and none of them is parked as well: a request is handed to one
\* data connection at most, however many dial back.
SessionsMatchPipes ==
    /\ \A c \in sessions : \E d \in DataConn : Piped(d) /\ sid[d] = c
    /\ \A d \in DataConn : Piped(d) => sid[d] \in sessions
    /\ \A d, e \in DataConn : Piped(d) /\ Piped(e) /\ sid[d] = sid[e] => d = e
    /\ sessions \cap waiting = {}

\* A running pipe is not cut by the relay: the reaper and the error paths of
\* handleClient close a client being piped only if it is gone, or if its agent
\* has already said all it had to say.
PipeNotCut ==
    \A d \in DataConn : dat[d] = "piping" =>
        /\ d \notin closed
        /\ sid[d] \in closed => sid[d] \in gone \/ d \notin flow[d]

\* No connection is forgotten: one that is open has a handler that still runs, or
\* is parked with the reaper on its way, or is piped.  The handler of a client
\* returns and leaves the connection open on purpose, so each of the ways out of
\* the tables (Unpark, AckFails, Reap, PipeReturns) has to close it.
NothingLeaks ==
    /\ \A k \in CtlConn : ctl[k] = "done" => k \in closed
    /\ \A d \in DataConn : dat[d] \in {"unlist", "done"} => d \in closed
    /\ \A c \in CliConn : cli[c] \notin {"idle", "lookup", "park"} =>
          \/ c \in closed \cup waiting
          \/ \E d \in DataConn : dat[d] = "piping" /\ sid[d] = c

\* A client that is refused is told so once and gets nothing else: no data of a
\* session reaches a connection that was, or will be, sent a nak.
RefusedGetsNothing ==
    \A c \in CliConn : (\E i \in DOMAIN sent[c] : sent[c][i] = "nak") => sent[c] = <<"nak">>

\* What proto.SessionAck's comment and the README promise a client: the answer
\* comes before the connection switches to raw piping.
AckBeforePipe ==
    \A c \in CliConn : sent[c] # <<>> => sent[c][1] # "data"

------------------------------------------------------------------------------
(* Action properties *)

EntryMovesOn(a) ==
    agents'[a] # agents[a] =>
        /\ agents[a] # None => agents[a] \in closed' \cup gone
        /\ agents'[a] # None => ctl[agents'[a]] = "register"

\* The newest registration wins: an agent's entry is replaced or removed only
\* when the link it named is closed or has ended, and a link that left the
\* table never comes back (handleAgent's registration and deferred cleanup).
NewestRegistrationWins == [][\A a \in AgentId : EntryMovesOn(a)]_vars

------------------------------------------------------------------------------
(* Liveness *)

\* No silent hang: a client whose Hello was accepted is paired with its agent or
\* has its connection closed; it never stays parked.
ClientResolved ==
    \A c \in CliConn : cli[c] = "lookup" ~> c \in sessions \cup closed

\* A link whose far side is gone leaves the table of agents.
DeadLinkDropped ==
    \A k \in CtlConn : ctl[k] = "reading" /\ k \in gone ~> \A a \in AgentId : agents[a] # k

\* A session whose two ends are gone leaves the dashboard's list.
DeadSessionUnlisted ==
    \A d \in DataConn :
        dat[d] = "piping" /\ {d, sid[d]} \subseteq gone ~> sid[d] \notin sessions

------------------------------------------------------------------------------
(* Refinement *)

RequestOf(c) ==
    IF cli[c] = "idle" THEN "new"
    ELSE IF c \in waiting THEN "parked"
    ELSE IF c \in sessions THEN "paired"
    ELSE IF cli[c] \in {"lookup", "park"} THEN "asking"
    ELSE "over"

Requests == [c \in CliConn |-> RequestOf(c)]
Pipes == {p \in CliConn \X DataConn : Piped(p[2]) /\ sid[p[2]] = p[1]}
SpentLinks == {k \in CtlConn : ctl[k] \notin {"idle", "register"}}
SpentDials == {d \in DataConn : dat[d] \notin {"idle", "take"}}
BrokenLinks == (closed \cup gone) \cap CtlConn

Promise == INSTANCE Rendezvous WITH
    request <- Requests,
    pipes <- Pipes,
    spent <- SpentLinks \cup SpentDials,
    directory <- agents,
    broken <- BrokenLinks

\* The relay implements the rendezvous it promises.
ImplementsPromise == Promise!Spec
===============================================================================
