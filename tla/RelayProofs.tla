----------------------------- MODULE RelayProofs -----------------------------
(* Proofs about Relay for every set of agents, links, clients and data        *)
(* connections: its type invariant, its safety invariants, and that it        *)
(* implements Rendezvous.                                                     *)

EXTENDS Relay, TLAPS

------------------------------------------------------------------------------
(* The inductive invariant, in named parts *)

\* A handler past its Hello knows the name it was told, and a cleanup starts only
\* on a broken link.
LinksNamed ==
    /\ \A k \in CtlConn : ctl[k] \in {"register", "reading", "cleanup"} => name[k] \in AgentId
    /\ \A k \in CtlConn : ctl[k] = "cleanup" => k \in closed \cup gone
    /\ \A c \in CliConn : cli[c] = "lookup" => name[c] \in AgentId

\* Before its Notify is out, a request is in no table of live sessions, no agent
\* knows of it and nothing was written to its client; before it is parked it is
\* also open.
RequestsFresh ==
    \A c \in CliConn :
        /\ cli[c] \in {"idle", "lookup", "park", "notify", "unpark"} =>
              c \notin told /\ sent[c] = <<>>
        /\ cli[c] \in {"idle", "lookup", "park"} => c \notin closed

\* A data connection is for a session that an agent was told of; it stays open
\* until its pipe returns, and the pipe reads from its two ends only.
DialBacksKnown ==
    \A d \in DataConn :
        /\ dat[d] \in {"take", "piping", "unlist"} => sid[d] \in told
        /\ dat[d] \in {"idle", "take", "piping"} => d \notin closed
        /\ dat[d] = "piping" => flow[d] \subseteq {sid[d], d}

HasNak(c) == \E i \in DOMAIN sent[c] : sent[c][i] = "nak"

\* No agent was ever told of a request that was refused, and its handler is over.
RefusedUntold ==
    \A c \in CliConn : HasNak(c) => c \notin told /\ cli[c] = "done"

DirectoryInv == LinksNamed /\ NoGhostAgent /\ OpenLinkRegistered
RequestInv == RequestsFresh /\ ParkedIsWatched /\ RefusedUntold /\ RefusedGetsNothing
SessionInv == DialBacksKnown /\ SessionsMatchPipes /\ PipeNotCut

IInv == TypeOK /\ DirectoryInv /\ RequestInv /\ SessionInv

------------------------------------------------------------------------------
(* Each part is kept by every step *)

\* Every step keeps the types.
LEMMA TypeStep == IInv /\ [Next]_vars => TypeOK'
<1> SUFFICES ASSUME IInv, [Next]_vars PROVE TypeOK'
  OBVIOUS
<1>1. ASSUME NEW k \in CtlConn, RejectControl(k) PROVE TypeOK'
  BY <1>1 DEF RejectControl, tables, cliVars, datVars, TypeOK, Conn, CtlState,
    CliState, DatState, IInv, DirectoryInv, CtlGoes
<1>2. ASSUME NEW k \in CtlConn, NEW a \in AgentId, HelloControl(k, a) PROVE TypeOK'
  BY <1>2 DEF HelloControl, tables, cliVars, datVars, TypeOK, Conn, CtlState,
    CliState, DatState, IInv, DirectoryInv, CtlGoes
<1>3. ASSUME NEW k \in CtlConn, Register(k) PROVE TypeOK'
  BY <1>3 DEF Register, cliVars, datVars, TypeOK, Conn, CtlState, CliState,
    DatState, IInv, DirectoryInv, LinksNamed, CtlGoes
<1>4. ASSUME NEW k \in CtlConn, ReadFails(k) PROVE TypeOK'
  BY <1>4 DEF ReadFails, Broken, tables, cliVars, datVars, TypeOK, Conn, CtlState,
    CliState, DatState, IInv, DirectoryInv, CtlGoes
<1>5. ASSUME NEW k \in CtlConn, HeartbeatFails(k) PROVE TypeOK'
  BY <1>5 DEF HeartbeatFails, tables, cliVars, datVars, TypeOK, Conn, CtlState,
    CliState, DatState, IInv
<1>6. ASSUME NEW k \in CtlConn, Deregister(k) PROVE TypeOK'
  BY <1>6 DEF Deregister, cliVars, datVars, TypeOK, Conn, CtlState, CliState,
    DatState, IInv, DirectoryInv, CtlGoes
<1>7. ASSUME NEW c \in CliConn, RejectClient(c) PROVE TypeOK'
  BY <1>7 DEF RejectClient, tables, datVars, TypeOK, Conn, CtlState, CliState,
    DatState, IInv, DirectoryInv, CliGoes
<1>8. ASSUME NEW c \in CliConn, NEW a \in AgentId, HelloClient(c, a) PROVE TypeOK'
  BY <1>8 DEF HelloClient, tables, datVars, TypeOK, Conn, CtlState, CliState,
    DatState, IInv, DirectoryInv, CliGoes
<1>9. ASSUME NEW c \in CliConn, AgentOffline(c) PROVE TypeOK'
  BY <1>9 DEF AgentOffline, Refuse, tables, datVars, TypeOK, Conn, CtlState,
    CliState, DatState, IInv
<1>10. ASSUME NEW c \in CliConn, AgentFound(c) PROVE TypeOK'
  BY <1>10 DEF AgentFound, tables, datVars, TypeOK, Conn, CtlState, CliState,
    DatState, IInv, DirectoryInv, LinksNamed, CliGoes
<1>11. ASSUME NEW c \in CliConn, NoSessionID(c) PROVE TypeOK'
  BY <1>11 DEF NoSessionID, Refuse, tables, datVars, TypeOK, Conn, CtlState,
    CliState, DatState, IInv
<1>12. ASSUME NEW c \in CliConn, Park(c) PROVE TypeOK'
  BY <1>12 DEF Park, datVars, TypeOK, Conn, CtlState, CliState, DatState, IInv,
    DirectoryInv, CliGoes
<1>13. ASSUME NEW c \in CliConn, NotifyArrives(c) PROVE TypeOK'
  BY <1>13 DEF NotifyArrives, Broken, tables, datVars, TypeOK, Conn, CtlState,
    CliState, DatState, IInv, DirectoryInv, CliGoes
<1>14. ASSUME NEW c \in CliConn, NotifyVanishes(c) PROVE TypeOK'
  BY <1>14 DEF NotifyVanishes, tables, datVars, TypeOK, Conn, CtlState, CliState,
    DatState, IInv, DirectoryInv, CliGoes
<1>15. ASSUME NEW c \in CliConn, NotifyFails(c) PROVE TypeOK'
  BY <1>15 DEF NotifyFails, Broken, tables, datVars, TypeOK, Conn, CtlState,
    CliState, DatState, IInv, DirectoryInv, CliGoes
<1>16. ASSUME NEW c \in CliConn, Unpark(c) PROVE TypeOK'
  BY <1>16 DEF Unpark, Refuse, datVars, TypeOK, Conn, CtlState, CliState, DatState,
    IInv
<1>17. ASSUME NEW c \in CliConn, AckWritten(c) PROVE TypeOK'
  BY <1>17 DEF AckWritten, tables, datVars, TypeOK, Conn, CtlState, CliState,
    DatState, IInv, DirectoryInv, CliGoes
<1>18. ASSUME NEW c \in CliConn, AckFails(c) PROVE TypeOK'
  BY <1>18 DEF AckFails, datVars, TypeOK, Conn, CtlState, CliState, DatState, IInv,
    DirectoryInv, CliGoes
<1>19. ASSUME NEW c \in CliConn, Reap(c) PROVE TypeOK'
  BY <1>19 DEF Reap, datVars, TypeOK, Conn, CtlState, CliState, DatState, IInv,
    DirectoryInv, CliGoes
<1>20. ASSUME NEW d \in DataConn, RejectSession(d) PROVE TypeOK'
  BY <1>20 DEF RejectSession, tables, cliVars, TypeOK, Conn, CtlState, CliState,
    DatState, IInv, DirectoryInv, DatGoes
<1>21. ASSUME NEW d \in DataConn, NEW s \in CliConn, HelloSession(d, s) PROVE TypeOK'
  BY <1>21 DEF HelloSession, tables, cliVars, TypeOK, Conn, CtlState, CliState,
    DatState, IInv, DirectoryInv, DatGoes
<1>22. ASSUME NEW d \in DataConn, Pair(d) PROVE TypeOK'
  BY <1>22 DEF Pair, cliVars, TypeOK, Conn, CtlState, CliState, DatState, IInv,
    DirectoryInv, DatGoes
<1>23. ASSUME NEW d \in DataConn, TurnAway(d) PROVE TypeOK'
  BY <1>23 DEF TurnAway, tables, cliVars, TypeOK, Conn, CtlState, CliState,
    DatState, IInv, DirectoryInv, DatGoes
<1>24. ASSUME NEW d \in DataConn, PipeData(d) PROVE TypeOK'
  BY <1>24 DEF PipeData, Broken, tables, datVars, TypeOK, Conn, CtlState, CliState,
    DatState, IInv, DirectoryInv, SessionInv, DialBacksKnown
<1>25. ASSUME NEW d \in DataConn, NEW x \in CliConn \cup {d}, FlowEnds(d, x) PROVE TypeOK'
  BY <1>25 DEF FlowEnds, tables, cliVars, TypeOK, Conn, CtlState, CliState,
    DatState, IInv
<1>26. ASSUME NEW d \in DataConn, PipeReturns(d) PROVE TypeOK'
  BY <1>26 DEF PipeReturns, tables, cliVars, TypeOK, Conn, CtlState, CliState,
    DatState, IInv, DirectoryInv, SessionInv, DialBacksKnown, DatGoes
<1>27. ASSUME NEW d \in DataConn, Unlist(d) PROVE TypeOK'
  BY <1>27 DEF Unlist, cliVars, TypeOK, Conn, CtlState, CliState, DatState, IInv,
    DirectoryInv, DatGoes
<1>28. ASSUME NEW x \in Conn, PeerGone(x) PROVE TypeOK'
  BY <1>28 DEF PeerGone, Connected, tables, cliVars, datVars, TypeOK, Conn,
    CtlState, CliState, DatState, IInv
<1>29. CASE Restart
  BY <1>29 DEF Restart, Ended, Connected, TypeOK, Conn, CtlState, CliState,
    DatState, IInv
<1>30. CASE UNCHANGED vars
  BY <1>30 DEF vars, tables, cliVars, datVars, TypeOK, Conn, CtlState, CliState,
    DatState, IInv
<1> QED
  BY <1>1, <1>2, <1>3, <1>4, <1>5, <1>6, <1>7, <1>8, <1>9, <1>10, <1>11, <1>12,
    <1>13, <1>14, <1>15, <1>16, <1>17, <1>18, <1>19, <1>20, <1>21, <1>22, <1>23,
    <1>24, <1>25, <1>26, <1>27, <1>28, <1>29, <1>30 DEF Next, AgentStep, ClientStep,
    SessionStep, Lookup, Notify, Ack, Take

\* Every step keeps the directory consistent with the handlers of its links.
LEMMA DirectoryStep == IInv /\ [Next]_vars => DirectoryInv'
<1> SUFFICES ASSUME IInv, [Next]_vars PROVE DirectoryInv'
  OBVIOUS
<1> USE DEF DirectoryInv
<1>1. ASSUME NEW k \in CtlConn, RejectControl(k) PROVE DirectoryInv'
  BY <1>1 DEF RejectControl, tables, cliVars, datVars, IInv, TypeOK, CtlState,
    LinksNamed, NoGhostAgent, OpenLinkRegistered, Reachable, CtlGoes
<1>2. ASSUME NEW k \in CtlConn, NEW a \in AgentId, HelloControl(k, a) PROVE DirectoryInv'
  BY <1>2 DEF HelloControl, tables, cliVars, datVars, IInv, TypeOK, CtlState,
    LinksNamed, NoGhostAgent, OpenLinkRegistered, Reachable, CtlGoes
<1>3. ASSUME NEW k \in CtlConn, Register(k) PROVE DirectoryInv'
  BY <1>3, NoneIsFresh DEF Register, cliVars, datVars, IInv, TypeOK, CtlState,
    LinksNamed, NoGhostAgent, OpenLinkRegistered, Reachable, CtlGoes
<1>4. ASSUME NEW k \in CtlConn, ReadFails(k) PROVE DirectoryInv'
  BY <1>4 DEF ReadFails, Broken, tables, cliVars, datVars, IInv, TypeOK, CtlState,
    LinksNamed, NoGhostAgent, OpenLinkRegistered, Reachable, CtlGoes
<1>5. ASSUME NEW k \in CtlConn, HeartbeatFails(k) PROVE DirectoryInv'
  BY <1>5 DEF HeartbeatFails, tables, cliVars, datVars, IInv, TypeOK, CtlState,
    LinksNamed, NoGhostAgent, OpenLinkRegistered, Reachable
<1>6. ASSUME NEW k \in CtlConn, Deregister(k) PROVE DirectoryInv'
  BY <1>6 DEF Deregister, cliVars, datVars, IInv, TypeOK, CtlState, LinksNamed,
    NoGhostAgent, OpenLinkRegistered, Reachable, CtlGoes
<1>7. ASSUME NEW c \in CliConn, RejectClient(c) PROVE DirectoryInv'
  BY <1>7 DEF RejectClient, tables, datVars, IInv, TypeOK, CtlState, LinksNamed,
    NoGhostAgent, OpenLinkRegistered, Reachable, CliGoes
<1>8. ASSUME NEW c \in CliConn, NEW a \in AgentId, HelloClient(c, a) PROVE DirectoryInv'
  BY <1>8, ConnsDisjoint DEF HelloClient, tables, datVars, IInv, TypeOK, CtlState,
    LinksNamed, NoGhostAgent, OpenLinkRegistered, Reachable, CliGoes
<1>9. ASSUME NEW c \in CliConn, AgentOffline(c) PROVE DirectoryInv'
  BY <1>9 DEF AgentOffline, Refuse, tables, datVars, IInv, TypeOK, CtlState,
    LinksNamed, NoGhostAgent, OpenLinkRegistered, Reachable
<1>10. ASSUME NEW c \in CliConn, AgentFound(c) PROVE DirectoryInv'
  BY <1>10 DEF AgentFound, tables, datVars, IInv, TypeOK, CtlState, LinksNamed,
    NoGhostAgent, OpenLinkRegistered, Reachable, CliGoes
<1>11. ASSUME NEW c \in CliConn, NoSessionID(c) PROVE DirectoryInv'
  BY <1>11 DEF NoSessionID, Refuse, tables, datVars, IInv, TypeOK, CtlState,
    LinksNamed, NoGhostAgent, OpenLinkRegistered, Reachable
<1>12. ASSUME NEW c \in CliConn, Park(c) PROVE DirectoryInv'
  BY <1>12 DEF Park, datVars, IInv, TypeOK, CtlState, LinksNamed, NoGhostAgent,
    OpenLinkRegistered, Reachable, CliGoes
<1>13. ASSUME NEW c \in CliConn, NotifyArrives(c) PROVE DirectoryInv'
  BY <1>13 DEF NotifyArrives, Broken, tables, datVars, IInv, TypeOK, CtlState,
    LinksNamed, NoGhostAgent, OpenLinkRegistered, Reachable, CliGoes
<1>14. ASSUME NEW c \in CliConn, NotifyVanishes(c) PROVE DirectoryInv'
  BY <1>14 DEF NotifyVanishes, tables, datVars, IInv, TypeOK, CtlState, LinksNamed,
    NoGhostAgent, OpenLinkRegistered, Reachable, CliGoes
<1>15. ASSUME NEW c \in CliConn, NotifyFails(c) PROVE DirectoryInv'
  BY <1>15 DEF NotifyFails, Broken, tables, datVars, IInv, TypeOK, CtlState,
    LinksNamed, NoGhostAgent, OpenLinkRegistered, Reachable, CliGoes
<1>16. ASSUME NEW c \in CliConn, Unpark(c) PROVE DirectoryInv'
  BY <1>16 DEF Unpark, Refuse, datVars, IInv, TypeOK, CtlState, LinksNamed,
    NoGhostAgent, OpenLinkRegistered, Reachable
<1>17. ASSUME NEW c \in CliConn, AckWritten(c) PROVE DirectoryInv'
  BY <1>17 DEF AckWritten, tables, datVars, IInv, TypeOK, CtlState, LinksNamed,
    NoGhostAgent, OpenLinkRegistered, Reachable, CliGoes
<1>18. ASSUME NEW c \in CliConn, AckFails(c) PROVE DirectoryInv'
  BY <1>18 DEF AckFails, datVars, IInv, TypeOK, CtlState, LinksNamed, NoGhostAgent,
    OpenLinkRegistered, Reachable, CliGoes
<1>19. ASSUME NEW c \in CliConn, Reap(c) PROVE DirectoryInv'
  BY <1>19 DEF Reap, datVars, IInv, TypeOK, CtlState, LinksNamed, NoGhostAgent,
    OpenLinkRegistered, Reachable, CliGoes
<1>20. ASSUME NEW d \in DataConn, RejectSession(d) PROVE DirectoryInv'
  BY <1>20 DEF RejectSession, tables, cliVars, IInv, TypeOK, CtlState, LinksNamed,
    NoGhostAgent, OpenLinkRegistered, Reachable
<1>21. ASSUME NEW d \in DataConn, NEW s \in CliConn, HelloSession(d, s) PROVE DirectoryInv'
  BY <1>21 DEF HelloSession, tables, cliVars, IInv, TypeOK, CtlState, LinksNamed,
    NoGhostAgent, OpenLinkRegistered, Reachable
<1>22. ASSUME NEW d \in DataConn, Pair(d) PROVE DirectoryInv'
  BY <1>22 DEF Pair, cliVars, IInv, TypeOK, CtlState, LinksNamed, NoGhostAgent,
    OpenLinkRegistered, Reachable
<1>23. ASSUME NEW d \in DataConn, TurnAway(d) PROVE DirectoryInv'
  BY <1>23 DEF TurnAway, tables, cliVars, IInv, TypeOK, CtlState, LinksNamed,
    NoGhostAgent, OpenLinkRegistered, Reachable
<1>24. ASSUME NEW d \in DataConn, PipeData(d) PROVE DirectoryInv'
  BY <1>24 DEF PipeData, Broken, tables, datVars, IInv, TypeOK, CtlState,
    LinksNamed, NoGhostAgent, OpenLinkRegistered, Reachable
<1>25. ASSUME NEW d \in DataConn, NEW x \in CliConn \cup {d}, FlowEnds(d, x) PROVE DirectoryInv'
  BY <1>25 DEF FlowEnds, tables, cliVars, IInv, TypeOK, CtlState, LinksNamed,
    NoGhostAgent, OpenLinkRegistered, Reachable
<1>26. ASSUME NEW d \in DataConn, PipeReturns(d) PROVE DirectoryInv'
  BY <1>26 DEF PipeReturns, tables, cliVars, IInv, TypeOK, CtlState, LinksNamed,
    NoGhostAgent, OpenLinkRegistered, Reachable
<1>27. ASSUME NEW d \in DataConn, Unlist(d) PROVE DirectoryInv'
  BY <1>27 DEF Unlist, cliVars, IInv, TypeOK, CtlState, LinksNamed, NoGhostAgent,
    OpenLinkRegistered, Reachable
<1>28. ASSUME NEW x \in Conn, PeerGone(x) PROVE DirectoryInv'
  BY <1>28 DEF PeerGone, Connected, tables, cliVars, datVars, IInv, TypeOK,
    CtlState, LinksNamed, NoGhostAgent, OpenLinkRegistered, Reachable
<1>29. CASE Restart
  BY <1>29 DEF Restart, Ended, Connected, IInv, TypeOK, CtlState, LinksNamed,
    NoGhostAgent, OpenLinkRegistered, Reachable
<1>30. CASE UNCHANGED vars
  BY <1>30 DEF vars, tables, cliVars, datVars, IInv, TypeOK, CtlState, LinksNamed,
    NoGhostAgent, OpenLinkRegistered, Reachable
<1> QED
  BY <1>1, <1>2, <1>3, <1>4, <1>5, <1>6, <1>7, <1>8, <1>9, <1>10, <1>11, <1>12,
    <1>13, <1>14, <1>15, <1>16, <1>17, <1>18, <1>19, <1>20, <1>21, <1>22, <1>23,
    <1>24, <1>25, <1>26, <1>27, <1>28, <1>29, <1>30 DEF Next, AgentStep, ClientStep,
    SessionStep, Lookup, Notify, Ack, Take

\* Every step keeps each request watched and its client answered once.
LEMMA RequestStep == IInv /\ [Next]_vars => RequestInv'
<1> SUFFICES ASSUME IInv, [Next]_vars PROVE RequestInv'
  OBVIOUS
<1> USE DEF RequestInv
<1>1. ASSUME NEW k \in CtlConn, RejectControl(k) PROVE RequestInv'
  BY <1>1, ConnsDisjoint DEF RejectControl, tables, cliVars, datVars, IInv, TypeOK,
    RequestsFresh, ParkedIsWatched, RefusedUntold, RefusedGetsNothing, HasNak,
    SessionInv, CtlGoes
<1>2. ASSUME NEW k \in CtlConn, NEW a \in AgentId, HelloControl(k, a) PROVE RequestInv'
  BY <1>2 DEF HelloControl, tables, cliVars, datVars, IInv, TypeOK, RequestsFresh,
    ParkedIsWatched, RefusedUntold, RefusedGetsNothing, HasNak
<1>3. ASSUME NEW k \in CtlConn, Register(k) PROVE RequestInv'
  BY <1>3, ConnsDisjoint DEF Register, cliVars, datVars, IInv, TypeOK,
    RequestsFresh, ParkedIsWatched, RefusedUntold, RefusedGetsNothing, HasNak,
    SessionInv, DialBacksKnown, SessionsMatchPipes, DirectoryInv, LinksNamed,
    CtlGoes
<1>4. ASSUME NEW k \in CtlConn, ReadFails(k) PROVE RequestInv'
  BY <1>4 DEF ReadFails, Broken, tables, cliVars, datVars, IInv, TypeOK,
    RequestsFresh, ParkedIsWatched, RefusedUntold, RefusedGetsNothing, HasNak
<1>5. ASSUME NEW k \in CtlConn, HeartbeatFails(k) PROVE RequestInv'
  BY <1>5, ConnsDisjoint DEF HeartbeatFails, tables, cliVars, datVars, IInv, TypeOK,
    RequestsFresh, ParkedIsWatched, RefusedUntold, RefusedGetsNothing, HasNak,
    SessionInv
<1>6. ASSUME NEW k \in CtlConn, Deregister(k) PROVE RequestInv'
  BY <1>6, ConnsDisjoint DEF Deregister, cliVars, datVars, IInv, TypeOK,
    RequestsFresh, ParkedIsWatched, RefusedUntold, RefusedGetsNothing, HasNak,
    SessionInv, CtlGoes
<1>7. ASSUME NEW c \in CliConn, RejectClient(c) PROVE RequestInv'
  BY <1>7 DEF RejectClient, tables, datVars, IInv, TypeOK, RequestsFresh,
    ParkedIsWatched, RefusedUntold, RefusedGetsNothing, HasNak, SessionInv, CliGoes
<1>8. ASSUME NEW c \in CliConn, NEW a \in AgentId, HelloClient(c, a) PROVE RequestInv'
  BY <1>8 DEF HelloClient, tables, datVars, IInv, TypeOK, RequestsFresh,
    ParkedIsWatched, RefusedUntold, RefusedGetsNothing, HasNak, SessionInv, CliGoes
<1>9. ASSUME NEW c \in CliConn, AgentOffline(c) PROVE RequestInv'
  <2>1. sent[c] = <<>> /\ c \notin told /\ c \in CliConn
    BY <1>9 DEF AgentOffline, IInv, RequestsFresh
  <2>2. sent' = [sent EXCEPT ![c] = <<"nak">>]
    BY <1>9, <2>1 DEF AgentOffline, Refuse
  <2>3. RequestsFresh' /\ ParkedIsWatched'
    BY <1>9, <2>2 DEF AgentOffline, Refuse, tables, datVars, IInv, TypeOK,
      RequestsFresh, ParkedIsWatched
  <2>4. RefusedUntold' /\ RefusedGetsNothing'
    BY <1>9, <2>1, <2>2 DEF AgentOffline, Refuse, IInv, TypeOK, RefusedUntold,
      RefusedGetsNothing, HasNak
  <2> QED
    BY <2>3, <2>4
<1>10. ASSUME NEW c \in CliConn, AgentFound(c) PROVE RequestInv'
  BY <1>10 DEF AgentFound, tables, datVars, IInv, TypeOK, RequestsFresh,
    ParkedIsWatched, RefusedUntold, RefusedGetsNothing, HasNak, SessionInv, CliGoes
<1>11. ASSUME NEW c \in CliConn, NoSessionID(c) PROVE RequestInv'
  <2>1. sent[c] = <<>> /\ c \notin told /\ c \in CliConn
    BY <1>11 DEF NoSessionID, IInv, RequestsFresh
  <2>2. sent' = [sent EXCEPT ![c] = <<"nak">>]
    BY <1>11, <2>1 DEF NoSessionID, Refuse
  <2>3. RequestsFresh' /\ ParkedIsWatched'
    BY <1>11, <2>2 DEF NoSessionID, Refuse, tables, datVars, IInv, TypeOK,
      RequestsFresh, ParkedIsWatched
  <2>4. RefusedUntold' /\ RefusedGetsNothing'
    BY <1>11, <2>1, <2>2 DEF NoSessionID, Refuse, IInv, TypeOK, RefusedUntold,
      RefusedGetsNothing, HasNak
  <2> QED
    BY <2>3, <2>4
<1>12. ASSUME NEW c \in CliConn, Park(c) PROVE RequestInv'
  BY <1>12 DEF Park, datVars, IInv, TypeOK, RequestsFresh, ParkedIsWatched,
    RefusedUntold, RefusedGetsNothing, HasNak, SessionInv, CliGoes
<1>13. ASSUME NEW c \in CliConn, NotifyArrives(c) PROVE RequestInv'
  BY <1>13 DEF NotifyArrives, Broken, tables, datVars, IInv, TypeOK, RequestsFresh,
    ParkedIsWatched, RefusedUntold, RefusedGetsNothing, HasNak, SessionInv, CliGoes
<1>14. ASSUME NEW c \in CliConn, NotifyVanishes(c) PROVE RequestInv'
  BY <1>14 DEF NotifyVanishes, tables, datVars, IInv, TypeOK, RequestsFresh,
    ParkedIsWatched, RefusedUntold, RefusedGetsNothing, HasNak, SessionInv, CliGoes
<1>15. ASSUME NEW c \in CliConn, NotifyFails(c) PROVE RequestInv'
  BY <1>15 DEF NotifyFails, Broken, tables, datVars, IInv, TypeOK, RequestsFresh,
    ParkedIsWatched, RefusedUntold, RefusedGetsNothing, HasNak, SessionInv, CliGoes
<1>16. ASSUME NEW c \in CliConn, Unpark(c) PROVE RequestInv'
  <2>1. sent[c] = <<>> /\ c \notin told /\ c \in CliConn
    BY <1>16 DEF Unpark, IInv, RequestsFresh
  <2>2. sent' = [sent EXCEPT ![c] = <<"nak">>]
    BY <1>16, <2>1 DEF Unpark, Refuse
  <2>3. RequestsFresh' /\ ParkedIsWatched'
    BY <1>16, <2>2 DEF Unpark, Refuse, tables, datVars, IInv, TypeOK, RequestsFresh,
      ParkedIsWatched
  <2>4. RefusedUntold' /\ RefusedGetsNothing'
    BY <1>16, <2>1, <2>2 DEF Unpark, Refuse, IInv, TypeOK, RefusedUntold,
      RefusedGetsNothing, HasNak
  <2> QED
    BY <2>3, <2>4
<1>17. ASSUME NEW c \in CliConn, AckWritten(c) PROVE RequestInv'
  <2>1. sent' = [sent EXCEPT ![c] = Append(sent[c], "ok")]
    BY <1>17 DEF AckWritten
  <2>2. ~HasNak(c)'
    <3>1. ~HasNak(c) /\ sent[c] \in Seq({"ok", "nak", "data"})
      BY <1>17 DEF AckWritten, IInv, TypeOK, RefusedUntold, CliGoes
    <3>2. sent'[c] = Append(sent[c], "ok")
      BY <2>1 DEF IInv, TypeOK
    <3> QED
      BY <3>1, <3>2 DEF HasNak
  <2>3. RequestsFresh' /\ ParkedIsWatched'
    BY <1>17, <2>1 DEF AckWritten, tables, datVars, IInv, RequestsFresh,
      ParkedIsWatched, CliGoes
  <2>4. RefusedUntold' /\ RefusedGetsNothing'
    BY <1>17, <2>1, <2>2 DEF AckWritten, IInv, RefusedUntold, RefusedGetsNothing,
      HasNak, CliGoes
  <2> QED
    BY <2>3, <2>4
<1>18. ASSUME NEW c \in CliConn, AckFails(c) PROVE RequestInv'
  BY <1>18 DEF AckFails, datVars, IInv, TypeOK, RequestsFresh, ParkedIsWatched,
    RefusedUntold, RefusedGetsNothing, HasNak, SessionInv, CliGoes
<1>19. ASSUME NEW c \in CliConn, Reap(c) PROVE RequestInv'
  BY <1>19 DEF Reap, datVars, IInv, TypeOK, RequestsFresh, ParkedIsWatched,
    RefusedUntold, RefusedGetsNothing, HasNak, SessionInv, CliGoes
<1>20. ASSUME NEW d \in DataConn, RejectSession(d) PROVE RequestInv'
  BY <1>20, ConnsDisjoint DEF RejectSession, tables, cliVars, IInv, TypeOK,
    RequestsFresh, ParkedIsWatched, RefusedUntold, RefusedGetsNothing, HasNak,
    SessionInv, DatGoes
<1>21. ASSUME NEW d \in DataConn, NEW s \in CliConn, HelloSession(d, s) PROVE RequestInv'
  BY <1>21 DEF HelloSession, tables, cliVars, IInv, TypeOK, RequestsFresh,
    ParkedIsWatched, RefusedUntold, RefusedGetsNothing, HasNak
<1>22. ASSUME NEW d \in DataConn, Pair(d) PROVE RequestInv'
  BY <1>22 DEF Pair, cliVars, IInv, TypeOK, RequestsFresh, ParkedIsWatched,
    RefusedUntold, RefusedGetsNothing, HasNak
<1>23. ASSUME NEW d \in DataConn, TurnAway(d) PROVE RequestInv'
  BY <1>23, ConnsDisjoint DEF TurnAway, tables, cliVars, IInv, TypeOK,
    RequestsFresh, ParkedIsWatched, RefusedUntold, RefusedGetsNothing, HasNak,
    SessionInv, DatGoes
<1>24. ASSUME NEW d \in DataConn, PipeData(d) PROVE RequestInv'
  BY <1>24 DEF PipeData, Broken, tables, datVars, IInv, TypeOK, RequestsFresh,
    ParkedIsWatched, RefusedUntold, RefusedGetsNothing, HasNak, SessionInv,
    DialBacksKnown
<1>25. ASSUME NEW d \in DataConn, NEW x \in CliConn \cup {d}, FlowEnds(d, x) PROVE RequestInv'
  BY <1>25 DEF FlowEnds, tables, cliVars, IInv, TypeOK, RequestsFresh,
    ParkedIsWatched, RefusedUntold, RefusedGetsNothing, HasNak
<1>26. ASSUME NEW d \in DataConn, PipeReturns(d) PROVE RequestInv'
  BY <1>26, ConnsDisjoint DEF PipeReturns, tables, cliVars, IInv, TypeOK,
    RequestsFresh, ParkedIsWatched, RefusedUntold, RefusedGetsNothing, HasNak,
    SessionInv, DialBacksKnown, SessionsMatchPipes, Piped, DatGoes
<1>27. ASSUME NEW d \in DataConn, Unlist(d) PROVE RequestInv'
  BY <1>27 DEF Unlist, cliVars, IInv, TypeOK, RequestsFresh, ParkedIsWatched,
    RefusedUntold, RefusedGetsNothing, HasNak
<1>28. ASSUME NEW x \in Conn, PeerGone(x) PROVE RequestInv'
  BY <1>28 DEF PeerGone, Connected, tables, cliVars, datVars, IInv, TypeOK,
    RequestsFresh, ParkedIsWatched, RefusedUntold, RefusedGetsNothing, HasNak
<1>29. CASE Restart
  BY <1>29, ConnsDisjoint DEF Restart, Ended, Connected, IInv, TypeOK,
    RequestsFresh, ParkedIsWatched, RefusedUntold, RefusedGetsNothing, HasNak,
    SessionInv
<1>30. CASE UNCHANGED vars
  BY <1>30 DEF vars, tables, cliVars, datVars, IInv, TypeOK, RequestsFresh,
    ParkedIsWatched, RefusedUntold, RefusedGetsNothing, HasNak
<1> QED
  BY <1>1, <1>2, <1>3, <1>4, <1>5, <1>6, <1>7, <1>8, <1>9, <1>10, <1>11, <1>12,
    <1>13, <1>14, <1>15, <1>16, <1>17, <1>18, <1>19, <1>20, <1>21, <1>22, <1>23,
    <1>24, <1>25, <1>26, <1>27, <1>28, <1>29, <1>30 DEF Next, AgentStep, ClientStep,
    SessionStep, Lookup, Notify, Ack, Take

\* Every step keeps sessions and pipes matched.
LEMMA SessionStepInv == IInv /\ [Next]_vars => SessionInv'
<1> SUFFICES ASSUME IInv, [Next]_vars PROVE SessionInv'
  OBVIOUS
<1> USE DEF SessionInv
<1>1. ASSUME NEW k \in CtlConn, RejectControl(k) PROVE SessionInv'
  BY <1>1, ConnsDisjoint DEF RejectControl, tables, cliVars, datVars, IInv, TypeOK,
    DialBacksKnown, SessionsMatchPipes, PipeNotCut, Piped, CtlGoes
<1>2. ASSUME NEW k \in CtlConn, NEW a \in AgentId, HelloControl(k, a) PROVE SessionInv'
  BY <1>2 DEF HelloControl, tables, cliVars, datVars, IInv, TypeOK, DialBacksKnown,
    SessionsMatchPipes, PipeNotCut, Piped
<1>3. ASSUME NEW k \in CtlConn, Register(k) PROVE SessionInv'
  BY <1>3, ConnsDisjoint DEF Register, cliVars, datVars, IInv, TypeOK,
    DialBacksKnown, SessionsMatchPipes, PipeNotCut, Piped, RequestInv,
    RequestsFresh, DirectoryInv, LinksNamed, CtlGoes
<1>4. ASSUME NEW k \in CtlConn, ReadFails(k) PROVE SessionInv'
  BY <1>4 DEF ReadFails, Broken, tables, cliVars, datVars, IInv, TypeOK,
    DialBacksKnown, SessionsMatchPipes, PipeNotCut, Piped
<1>5. ASSUME NEW k \in CtlConn, HeartbeatFails(k) PROVE SessionInv'
  BY <1>5, ConnsDisjoint DEF HeartbeatFails, tables, cliVars, datVars, IInv, TypeOK,
    DialBacksKnown, SessionsMatchPipes, PipeNotCut, Piped
<1>6. ASSUME NEW k \in CtlConn, Deregister(k) PROVE SessionInv'
  BY <1>6, ConnsDisjoint DEF Deregister, cliVars, datVars, IInv, TypeOK,
    DialBacksKnown, SessionsMatchPipes, PipeNotCut, Piped, CtlGoes
<1>7. ASSUME NEW c \in CliConn, RejectClient(c) PROVE SessionInv'
  BY <1>7, ConnsDisjoint DEF RejectClient, tables, datVars, IInv, TypeOK,
    DialBacksKnown, SessionsMatchPipes, PipeNotCut, Piped, RequestInv,
    RequestsFresh, CliGoes
<1>8. ASSUME NEW c \in CliConn, NEW a \in AgentId, HelloClient(c, a) PROVE SessionInv'
  BY <1>8 DEF HelloClient, tables, datVars, IInv, TypeOK, DialBacksKnown,
    SessionsMatchPipes, PipeNotCut, Piped
<1>9. ASSUME NEW c \in CliConn, AgentOffline(c) PROVE SessionInv'
  BY <1>9, ConnsDisjoint DEF AgentOffline, Refuse, tables, datVars, IInv, TypeOK,
    DialBacksKnown, SessionsMatchPipes, PipeNotCut, Piped, RequestInv, RequestsFresh
<1>10. ASSUME NEW c \in CliConn, AgentFound(c) PROVE SessionInv'
  BY <1>10 DEF AgentFound, tables, datVars, IInv, TypeOK, DialBacksKnown,
    SessionsMatchPipes, PipeNotCut, Piped
<1>11. ASSUME NEW c \in CliConn, NoSessionID(c) PROVE SessionInv'
  BY <1>11, ConnsDisjoint DEF NoSessionID, Refuse, tables, datVars, IInv, TypeOK,
    DialBacksKnown, SessionsMatchPipes, PipeNotCut, Piped, RequestInv, RequestsFresh
<1>12. ASSUME NEW c \in CliConn, Park(c) PROVE SessionInv'
  BY <1>12 DEF Park, datVars, IInv, TypeOK, DialBacksKnown, SessionsMatchPipes,
    PipeNotCut, Piped, RequestInv, RequestsFresh, CliGoes
<1>13. ASSUME NEW c \in CliConn, NotifyArrives(c) PROVE SessionInv'
  BY <1>13 DEF NotifyArrives, Broken, tables, datVars, IInv, TypeOK, DialBacksKnown,
    SessionsMatchPipes, PipeNotCut, Piped
<1>14. ASSUME NEW c \in CliConn, NotifyVanishes(c) PROVE SessionInv'
  BY <1>14 DEF NotifyVanishes, tables, datVars, IInv, TypeOK, DialBacksKnown,
    SessionsMatchPipes, PipeNotCut, Piped
<1>15. ASSUME NEW c \in CliConn, NotifyFails(c) PROVE SessionInv'
  BY <1>15 DEF NotifyFails, Broken, tables, datVars, IInv, TypeOK, DialBacksKnown,
    SessionsMatchPipes, PipeNotCut, Piped
<1>16. ASSUME NEW c \in CliConn, Unpark(c) PROVE SessionInv'
  BY <1>16, ConnsDisjoint DEF Unpark, Refuse, datVars, IInv, TypeOK, DialBacksKnown,
    SessionsMatchPipes, PipeNotCut, Piped, RequestInv, RequestsFresh
<1>17. ASSUME NEW c \in CliConn, AckWritten(c) PROVE SessionInv'
  BY <1>17 DEF AckWritten, tables, datVars, IInv, TypeOK, DialBacksKnown,
    SessionsMatchPipes, PipeNotCut, Piped
<1>18. ASSUME NEW c \in CliConn, AckFails(c) PROVE SessionInv'
  <2>1. DialBacksKnown' /\ SessionsMatchPipes'
    BY <1>18, ConnsDisjoint DEF AckFails, datVars, IInv, TypeOK, DialBacksKnown,
      SessionsMatchPipes, Piped, CliGoes
  <2>2. ASSUME NEW d \in DataConn, dat[d] = "piping", sid[d] = c
        PROVE c \in closed \cup gone \/ d \notin flow[d]
    BY <1>18, <2>2 DEF AckFails, Broken, HalfClosed, IInv, SessionInv,
      SessionsMatchPipes, Piped
  <2>3. PipeNotCut'
    BY <1>18, <2>2, ConnsDisjoint DEF AckFails, datVars, IInv, SessionInv,
      PipeNotCut
  <2> QED
    BY <2>1, <2>3
<1>19. ASSUME NEW c \in CliConn, Reap(c) PROVE SessionInv'
  BY <1>19, ConnsDisjoint DEF Reap, datVars, IInv, TypeOK, DialBacksKnown,
    SessionsMatchPipes, PipeNotCut, Piped, CliGoes
<1>20. ASSUME NEW d \in DataConn, RejectSession(d) PROVE SessionInv'
  <2>1. DialBacksKnown' /\ PipeNotCut'
    BY <1>20, ConnsDisjoint DEF RejectSession, tables, cliVars, IInv, TypeOK,
      DialBacksKnown, PipeNotCut, DatGoes
  <2>2. \A e \in DataConn : Piped(e)' <=> Piped(e)
    BY <1>20 DEF RejectSession, Piped, DatGoes
  <2>3. SessionsMatchPipes'
    BY <1>20, <2>2 DEF RejectSession, tables, IInv, SessionsMatchPipes
  <2> QED
    BY <2>1, <2>3
<1>21. ASSUME NEW d \in DataConn, NEW s \in CliConn, HelloSession(d, s) PROVE SessionInv'
  <2>1. DialBacksKnown' /\ PipeNotCut'
    BY <1>21 DEF HelloSession, tables, cliVars, IInv, TypeOK, SessionInv,
      DialBacksKnown, PipeNotCut, DatGoes
  <2>2. \A e \in DataConn : (Piped(e)' <=> Piped(e)) /\ (Piped(e) => sid'[e] = sid[e])
    BY <1>21 DEF HelloSession, IInv, TypeOK, Piped, DatGoes
  <2>3. SessionsMatchPipes'
    BY <1>21, <2>2 DEF HelloSession, tables, IInv, SessionInv, SessionsMatchPipes
  <2> QED
    BY <2>1, <2>3
<1>22. ASSUME NEW d \in DataConn, Pair(d) PROVE SessionInv'
  BY <1>22 DEF Pair, cliVars, IInv, TypeOK, DialBacksKnown, SessionsMatchPipes,
    PipeNotCut, Piped, RequestInv, ParkedIsWatched, DatGoes
<1>23. ASSUME NEW d \in DataConn, TurnAway(d) PROVE SessionInv'
  <2>1. DialBacksKnown' /\ PipeNotCut'
    BY <1>23, ConnsDisjoint DEF TurnAway, tables, cliVars, IInv, TypeOK,
      DialBacksKnown, PipeNotCut, DatGoes
  <2>2. \A e \in DataConn : Piped(e)' <=> Piped(e)
    BY <1>23 DEF TurnAway, Piped, DatGoes
  <2>3. SessionsMatchPipes'
    BY <1>23, <2>2 DEF TurnAway, tables, IInv, SessionsMatchPipes
  <2> QED
    BY <2>1, <2>3
<1>24. ASSUME NEW d \in DataConn, PipeData(d) PROVE SessionInv'
  BY <1>24 DEF PipeData, Broken, tables, datVars, IInv, TypeOK, DialBacksKnown,
    SessionsMatchPipes, PipeNotCut, Piped
<1>25. ASSUME NEW d \in DataConn, NEW x \in CliConn \cup {d}, FlowEnds(d, x) PROVE SessionInv'
  BY <1>25 DEF FlowEnds, tables, cliVars, IInv, TypeOK, DialBacksKnown,
    SessionsMatchPipes, PipeNotCut, Piped
<1>26. ASSUME NEW d \in DataConn, PipeReturns(d) PROVE SessionInv'
  BY <1>26, ConnsDisjoint DEF PipeReturns, tables, cliVars, IInv, TypeOK,
    DialBacksKnown, SessionsMatchPipes, PipeNotCut, Piped, DatGoes
<1>27. ASSUME NEW d \in DataConn, Unlist(d) PROVE SessionInv'
  BY <1>27 DEF Unlist, cliVars, IInv, TypeOK, DialBacksKnown, SessionsMatchPipes,
    PipeNotCut, Piped, DatGoes
<1>28. ASSUME NEW x \in Conn, PeerGone(x) PROVE SessionInv'
  BY <1>28 DEF PeerGone, Connected, tables, cliVars, datVars, IInv, TypeOK,
    DialBacksKnown, SessionsMatchPipes, PipeNotCut, Piped
<1>29. CASE Restart
  BY <1>29, ConnsDisjoint DEF Restart, Ended, Connected, IInv, TypeOK,
    DialBacksKnown, SessionsMatchPipes, PipeNotCut, Piped
<1>30. CASE UNCHANGED vars
  BY <1>30 DEF vars, tables, cliVars, datVars, IInv, TypeOK, DialBacksKnown,
    SessionsMatchPipes, PipeNotCut, Piped
<1> QED
  BY <1>1, <1>2, <1>3, <1>4, <1>5, <1>6, <1>7, <1>8, <1>9, <1>10, <1>11, <1>12,
    <1>13, <1>14, <1>15, <1>16, <1>17, <1>18, <1>19, <1>20, <1>21, <1>22, <1>23,
    <1>24, <1>25, <1>26, <1>27, <1>28, <1>29, <1>30 DEF Next, AgentStep, ClientStep,
    SessionStep, Lookup, Notify, Ack, Take

------------------------------------------------------------------------------
(* Every step is one of the rendezvous *)

\* A request that is not parked yet is in no table.
LEMMA FreshRequest ==
  ASSUME IInv, NEW c \in CliConn, cli[c] \in {"idle", "lookup", "park"}
  PROVE  c \notin waiting /\ c \notin sessions
<1>1. c \notin waiting
  BY DEF IInv, RequestInv, ParkedIsWatched
<1>2. c \notin told
  BY DEF IInv, RequestInv, RequestsFresh
<1>3. c \notin sessions
  BY <1>2 DEF IInv, SessionInv, SessionsMatchPipes, DialBacksKnown, Piped
<1> QED
  BY <1>1, <1>3

\* A request that moves alone moves so in the abstract state.
LEMMA MoveRequest ==
  ASSUME NEW c \in CliConn, NEW r, RequestOf(c)' = r,
         \A e \in CliConn \ {c} : RequestOf(e)' = RequestOf(e)
  PROVE  Requests' = [Requests EXCEPT ![c] = r]
BY DEF Requests

\* Every step of the relay is a step of the rendezvous or changes nothing in it.
LEMMA RefinementStep == IInv /\ [Next]_vars => [Promise!Next]_Promise!vars
<1> SUFFICES ASSUME IInv, [Next]_vars PROVE [Promise!Next]_Promise!vars
  OBVIOUS
<1> USE DEF Conn
<1>1. ASSUME NEW k \in CtlConn, RejectControl(k) PROVE Promise!TurnAway(k)
  BY <1>1 DEF RejectControl, tables, cliVars, datVars, IInv, TypeOK, DirectoryInv,
    LinksNamed, NoGhostAgent, Reachable, RequestInv, RequestsFresh, ParkedIsWatched,
    SessionInv, DialBacksKnown, SessionsMatchPipes, Piped, Requests, RequestOf,
    Pipes, SpentLinks, SpentDials, BrokenLinks, Promise!TurnAway, CtlGoes
<1>2. ASSUME NEW k \in CtlConn, NEW a \in AgentId, HelloControl(k, a) PROVE UNCHANGED Promise!vars
  BY <1>2 DEF HelloControl, tables, cliVars, datVars, IInv, TypeOK, DirectoryInv,
    LinksNamed, NoGhostAgent, Reachable, RequestInv, RequestsFresh, ParkedIsWatched,
    SessionInv, DialBacksKnown, SessionsMatchPipes, Piped, Requests, RequestOf,
    Pipes, SpentLinks, SpentDials, BrokenLinks, Promise!vars, CtlGoes
<1>3. ASSUME NEW k \in CtlConn, Register(k) PROVE Promise!Online(name[k], k) /\ name[k] \in AgentId
  BY <1>3, ConnsDisjoint DEF Register, cliVars, datVars, IInv, TypeOK, DirectoryInv,
    LinksNamed, NoGhostAgent, Reachable, RequestInv, RequestsFresh, ParkedIsWatched,
    SessionInv, DialBacksKnown, SessionsMatchPipes, Piped, Requests, RequestOf,
    Pipes, SpentLinks, SpentDials, BrokenLinks, Promise!Online, CtlGoes
<1>4. ASSUME NEW k \in CtlConn, ReadFails(k) PROVE UNCHANGED Promise!vars
  BY <1>4 DEF ReadFails, Broken, tables, cliVars, datVars, IInv, TypeOK,
    DirectoryInv, LinksNamed, NoGhostAgent, Reachable, RequestInv, RequestsFresh,
    ParkedIsWatched, SessionInv, DialBacksKnown, SessionsMatchPipes, Piped,
    Requests, RequestOf, Pipes, SpentLinks, SpentDials, BrokenLinks, Promise!vars,
    CtlGoes
<1>5. ASSUME NEW k \in CtlConn, HeartbeatFails(k) PROVE Promise!Break(k)
  BY <1>5 DEF HeartbeatFails, tables, cliVars, datVars, IInv, TypeOK, DirectoryInv,
    LinksNamed, NoGhostAgent, Reachable, RequestInv, RequestsFresh, ParkedIsWatched,
    SessionInv, DialBacksKnown, SessionsMatchPipes, Piped, Requests, RequestOf,
    Pipes, SpentLinks, SpentDials, BrokenLinks, Promise!Break
<1>6. ASSUME NEW k \in CtlConn, Deregister(k) PROVE
      \/ Promise!Offline(name[k]) /\ name[k] \in AgentId
      \/ UNCHANGED Promise!vars
  <2>1. UNCHANGED <<Requests, Pipes, SpentLinks, SpentDials, BrokenLinks>> /\ k \in BrokenLinks
    BY <1>6 DEF Deregister, cliVars, datVars, IInv, TypeOK, DirectoryInv,
      LinksNamed, Requests, RequestOf, Pipes, Piped, SpentLinks, SpentDials,
      BrokenLinks, CtlGoes
  <2> QED
    BY <1>6, <2>1 DEF Deregister, Promise!Offline, Promise!vars, IInv, DirectoryInv,
      LinksNamed, CtlGoes
<1>7. ASSUME NEW c \in CliConn, RejectClient(c) PROVE Promise!GiveUp(c)
  <2>1. RequestOf(c) = "new" /\ RequestOf(c)' = "over"
    BY <1>7, FreshRequest DEF RejectClient, tables, datVars, RequestOf, IInv,
      TypeOK, CliGoes
  <2>2. \A e \in CliConn \ {c} : RequestOf(e)' = RequestOf(e)
    BY <1>7 DEF RejectClient, tables, RequestOf, CliGoes
  <2>3. Requests[c] = "new" /\ Requests' = [Requests EXCEPT ![c] = "over"]
    BY <2>1, <2>2 DEF Requests
  <2>4. UNCHANGED <<Pipes, SpentLinks, SpentDials, agents, BrokenLinks>>
    BY <1>7, ConnsDisjoint DEF RejectClient, tables, datVars, Pipes, Piped,
      SpentLinks, SpentDials, BrokenLinks, CliGoes
  <2> QED
    BY <2>3, <2>4 DEF Promise!GiveUp
<1>8. ASSUME NEW c \in CliConn, NEW a \in AgentId, HelloClient(c, a) PROVE Promise!Ask(c)
  <2>1. RequestOf(c) = "new" /\ RequestOf(c)' = "asking"
    BY <1>8, FreshRequest DEF HelloClient, tables, datVars, RequestOf, IInv, TypeOK,
      CliGoes
  <2>2. \A e \in CliConn \ {c} : RequestOf(e)' = RequestOf(e)
    BY <1>8 DEF HelloClient, tables, RequestOf, CliGoes
  <2>3. Requests[c] = "new" /\ Requests' = [Requests EXCEPT ![c] = "asking"]
    BY <2>1, <2>2 DEF Requests
  <2>4. UNCHANGED <<Pipes, SpentLinks, SpentDials, agents, BrokenLinks>>
    BY <1>8 DEF HelloClient, tables, datVars, Pipes, Piped, SpentLinks, SpentDials,
      BrokenLinks
  <2> QED
    BY <2>3, <2>4 DEF Promise!Ask
<1>9. ASSUME NEW c \in CliConn, AgentOffline(c) PROVE Promise!GiveUp(c)
  <2>1. RequestOf(c) = "asking" /\ RequestOf(c)' = "over"
    BY <1>9, FreshRequest DEF AgentOffline, Refuse, tables, datVars, RequestOf,
      IInv, TypeOK
  <2>2. \A e \in CliConn \ {c} : RequestOf(e)' = RequestOf(e)
    BY <1>9 DEF AgentOffline, Refuse, tables, RequestOf
  <2>3. Requests[c] = "asking" /\ Requests' = [Requests EXCEPT ![c] = "over"]
    BY <2>1, <2>2 DEF Requests
  <2>4. UNCHANGED <<Pipes, SpentLinks, SpentDials, agents, BrokenLinks>>
    BY <1>9, ConnsDisjoint DEF AgentOffline, Refuse, tables, datVars, Pipes, Piped,
      SpentLinks, SpentDials, BrokenLinks
  <2> QED
    BY <2>3, <2>4 DEF Promise!GiveUp
<1>10. ASSUME NEW c \in CliConn, AgentFound(c) PROVE UNCHANGED Promise!vars
  BY <1>10 DEF AgentFound, tables, datVars, IInv, TypeOK, DirectoryInv, LinksNamed,
    NoGhostAgent, Reachable, RequestInv, RequestsFresh, ParkedIsWatched, SessionInv,
    DialBacksKnown, SessionsMatchPipes, Piped, Requests, RequestOf, Pipes,
    SpentLinks, SpentDials, BrokenLinks, Promise!vars, CliGoes
<1>11. ASSUME NEW c \in CliConn, NoSessionID(c) PROVE Promise!GiveUp(c)
  <2>1. RequestOf(c) = "asking" /\ RequestOf(c)' = "over"
    BY <1>11, FreshRequest DEF NoSessionID, Refuse, tables, datVars, RequestOf,
      IInv, TypeOK
  <2>2. \A e \in CliConn \ {c} : RequestOf(e)' = RequestOf(e)
    BY <1>11 DEF NoSessionID, Refuse, tables, RequestOf
  <2>3. Requests[c] = "asking" /\ Requests' = [Requests EXCEPT ![c] = "over"]
    BY <2>1, <2>2 DEF Requests
  <2>4. UNCHANGED <<Pipes, SpentLinks, SpentDials, agents, BrokenLinks>>
    BY <1>11, ConnsDisjoint DEF NoSessionID, Refuse, tables, datVars, Pipes, Piped,
      SpentLinks, SpentDials, BrokenLinks
  <2> QED
    BY <2>3, <2>4 DEF Promise!GiveUp
<1>12. ASSUME NEW c \in CliConn, Park(c) PROVE Promise!Park(c)
  <2>1. RequestOf(c) = "asking" /\ RequestOf(c)' = "parked"
    BY <1>12, FreshRequest DEF Park, datVars, RequestOf, CliGoes
  <2>2. \A e \in CliConn \ {c} : RequestOf(e)' = RequestOf(e)
    BY <1>12 DEF Park, RequestOf, CliGoes
  <2>3. Requests[c] = "asking" /\ Requests' = [Requests EXCEPT ![c] = "parked"]
    BY <2>1, <2>2 DEF Requests
  <2>4. UNCHANGED <<Pipes, SpentLinks, SpentDials, agents, BrokenLinks>>
    BY <1>12 DEF Park, datVars, Pipes, Piped, SpentLinks, SpentDials, BrokenLinks
  <2> QED
    BY <2>3, <2>4 DEF Promise!Park
<1>13. ASSUME NEW c \in CliConn, NotifyArrives(c) PROVE UNCHANGED Promise!vars
  BY <1>13 DEF NotifyArrives, Broken, tables, datVars, IInv, TypeOK, DirectoryInv,
    LinksNamed, NoGhostAgent, Reachable, RequestInv, RequestsFresh, ParkedIsWatched,
    SessionInv, DialBacksKnown, SessionsMatchPipes, Piped, Requests, RequestOf,
    Pipes, SpentLinks, SpentDials, BrokenLinks, Promise!vars, CliGoes
<1>14. ASSUME NEW c \in CliConn, NotifyVanishes(c) PROVE UNCHANGED Promise!vars
  BY <1>14 DEF NotifyVanishes, tables, datVars, IInv, TypeOK, DirectoryInv,
    LinksNamed, NoGhostAgent, Reachable, RequestInv, RequestsFresh, ParkedIsWatched,
    SessionInv, DialBacksKnown, SessionsMatchPipes, Piped, Requests, RequestOf,
    Pipes, SpentLinks, SpentDials, BrokenLinks, Promise!vars, CliGoes
<1>15. ASSUME NEW c \in CliConn, NotifyFails(c) PROVE UNCHANGED Promise!vars
  BY <1>15 DEF NotifyFails, Broken, tables, datVars, IInv, TypeOK, DirectoryInv,
    LinksNamed, NoGhostAgent, Reachable, RequestInv, RequestsFresh, ParkedIsWatched,
    SessionInv, DialBacksKnown, SessionsMatchPipes, Piped, Requests, RequestOf,
    Pipes, SpentLinks, SpentDials, BrokenLinks, Promise!vars, CliGoes
<1>16. ASSUME NEW c \in CliConn, Unpark(c) PROVE Promise!GiveUp(c) \/ UNCHANGED Promise!vars
  <2>1. CASE c \in waiting
    <3>1. RequestOf(c) = "parked" /\ RequestOf(c)' = "over"
      BY <1>16, <2>1 DEF Unpark, Refuse, datVars, RequestOf, IInv, SessionInv,
        SessionsMatchPipes
    <3>2. \A e \in CliConn \ {c} : RequestOf(e)' = RequestOf(e)
      BY <1>16, <2>1 DEF Unpark, Refuse, RequestOf
    <3>3. Requests[c] = "parked" /\ Requests' = [Requests EXCEPT ![c] = "over"]
      BY <3>1, <3>2 DEF Requests
    <3>4. UNCHANGED <<Pipes, SpentLinks, SpentDials, agents, BrokenLinks>>
      BY <1>16, <2>1, ConnsDisjoint DEF Unpark, Refuse, datVars, Pipes, Piped,
        SpentLinks, SpentDials, BrokenLinks
    <3> QED
      BY <3>3, <3>4 DEF Promise!GiveUp
  <2>2. CASE c \notin waiting
    BY <1>16, <2>2, ConnsDisjoint DEF Unpark, Refuse, datVars, IInv, TypeOK,
      RequestOf, Requests, Pipes, Piped, SpentLinks, SpentDials, BrokenLinks,
      Promise!vars
  <2> QED
    BY <2>1, <2>2
<1>17. ASSUME NEW c \in CliConn, AckWritten(c) PROVE UNCHANGED Promise!vars
  BY <1>17 DEF AckWritten, tables, datVars, IInv, TypeOK, DirectoryInv, LinksNamed,
    NoGhostAgent, Reachable, RequestInv, RequestsFresh, ParkedIsWatched, SessionInv,
    DialBacksKnown, SessionsMatchPipes, Piped, Requests, RequestOf, Pipes,
    SpentLinks, SpentDials, BrokenLinks, Promise!vars, CliGoes
<1>18. ASSUME NEW c \in CliConn, AckFails(c) PROVE Promise!GiveUp(c) \/ UNCHANGED Promise!vars
  <2>1. CASE c \in waiting
    <3>1. RequestOf(c) = "parked" /\ RequestOf(c)' = "over"
      BY <1>18, <2>1 DEF AckFails, datVars, RequestOf, IInv, SessionInv,
        SessionsMatchPipes, CliGoes
    <3>2. \A e \in CliConn \ {c} : RequestOf(e)' = RequestOf(e)
      BY <1>18, <2>1 DEF AckFails, RequestOf, CliGoes
    <3>3. Requests[c] = "parked" /\ Requests' = [Requests EXCEPT ![c] = "over"]
      BY <3>1, <3>2 DEF Requests
    <3>4. UNCHANGED <<Pipes, SpentLinks, SpentDials, agents, BrokenLinks>>
      BY <1>18, <2>1, ConnsDisjoint DEF AckFails, datVars, Pipes, Piped, SpentLinks,
        SpentDials, BrokenLinks, CliGoes
    <3> QED
      BY <3>3, <3>4 DEF Promise!GiveUp
  <2>2. CASE c \notin waiting
    BY <1>18, <2>2, ConnsDisjoint DEF AckFails, datVars, IInv, TypeOK, RequestOf,
      Requests, Pipes, Piped, SpentLinks, SpentDials, BrokenLinks, Promise!vars,
      CliGoes
  <2> QED
    BY <2>1, <2>2
<1>19. ASSUME NEW c \in CliConn, Reap(c) PROVE Promise!GiveUp(c) \/ UNCHANGED Promise!vars
  <2>1. CASE c \in waiting
    <3>1. RequestOf(c) = "parked" /\ RequestOf(c)' = "over"
      BY <1>19, <2>1 DEF Reap, datVars, RequestOf, IInv, SessionInv,
        SessionsMatchPipes, CliGoes
    <3>2. \A e \in CliConn \ {c} : RequestOf(e)' = RequestOf(e)
      BY <1>19, <2>1 DEF Reap, RequestOf, CliGoes
    <3>3. Requests[c] = "parked" /\ Requests' = [Requests EXCEPT ![c] = "over"]
      BY <3>1, <3>2 DEF Requests
    <3>4. UNCHANGED <<Pipes, SpentLinks, SpentDials, agents, BrokenLinks>>
      BY <1>19, <2>1, ConnsDisjoint DEF Reap, datVars, Pipes, Piped, SpentLinks,
        SpentDials, BrokenLinks, CliGoes
    <3> QED
      BY <3>3, <3>4 DEF Promise!GiveUp
  <2>2. CASE c \notin waiting
    BY <1>19, <2>2 DEF Reap, datVars, IInv, TypeOK, RequestOf, Requests, Pipes,
      Piped, SpentLinks, SpentDials, BrokenLinks, Promise!vars, CliGoes
  <2> QED
    BY <2>1, <2>2
<1>20. ASSUME NEW d \in DataConn, RejectSession(d) PROVE Promise!TurnAway(d)
  BY <1>20 DEF RejectSession, tables, cliVars, IInv, TypeOK, DirectoryInv,
    LinksNamed, NoGhostAgent, Reachable, RequestInv, RequestsFresh, ParkedIsWatched,
    SessionInv, DialBacksKnown, SessionsMatchPipes, Piped, Requests, RequestOf,
    Pipes, SpentLinks, SpentDials, BrokenLinks, Promise!TurnAway, DatGoes
<1>21. ASSUME NEW d \in DataConn, NEW s \in CliConn, HelloSession(d, s) PROVE UNCHANGED Promise!vars
  BY <1>21 DEF HelloSession, tables, cliVars, IInv, TypeOK, DirectoryInv,
    LinksNamed, NoGhostAgent, Reachable, RequestInv, RequestsFresh, ParkedIsWatched,
    SessionInv, DialBacksKnown, SessionsMatchPipes, Piped, Requests, RequestOf,
    Pipes, SpentLinks, SpentDials, BrokenLinks, Promise!vars, DatGoes
<1>22. ASSUME NEW d \in DataConn, Pair(d) PROVE \E s \in CliConn : Promise!Pair(s, d)
  <2> PICK s \in CliConn : s = sid[d]
    BY <1>22 DEF Pair, IInv, TypeOK
  <2>1. s \in waiting /\ s \notin sessions /\ cli[s] # "idle"
    BY <1>22 DEF Pair, IInv, TypeOK, SessionInv, SessionsMatchPipes, RequestInv,
      ParkedIsWatched
  <2>2. RequestOf(s) = "parked" /\ RequestOf(s)' = "paired"
    BY <1>22, <2>1 DEF Pair, cliVars, RequestOf
  <2>3. \A e \in CliConn \ {s} : RequestOf(e)' = RequestOf(e)
    BY <1>22 DEF Pair, cliVars, RequestOf
  <2>4. Requests[s] = "parked" /\ Requests' = [Requests EXCEPT ![s] = "paired"]
    BY <2>1, <2>2, <2>3 DEF Requests
  <2>5. Pipes' = Pipes \cup {<<s, d>>}
    BY <1>22, <2>1 DEF Pair, Pipes, Piped, IInv, TypeOK, DatGoes
  <2>6. d \notin SpentLinks \cup SpentDials
    BY <1>22, ConnsDisjoint DEF Pair, SpentLinks, SpentDials, DatGoes
  <2>7. UNCHANGED <<SpentLinks, agents, BrokenLinks>> /\ SpentDials' = SpentDials \cup {d}
    BY <1>22 DEF Pair, SpentLinks, SpentDials, BrokenLinks, IInv, TypeOK, DatGoes
  <2> QED
    BY <2>4, <2>5, <2>6, <2>7 DEF Promise!Pair
<1>23. ASSUME NEW d \in DataConn, TurnAway(d) PROVE Promise!TurnAway(d)
  BY <1>23 DEF TurnAway, tables, cliVars, IInv, TypeOK, DirectoryInv, LinksNamed,
    NoGhostAgent, Reachable, RequestInv, RequestsFresh, ParkedIsWatched, SessionInv,
    DialBacksKnown, SessionsMatchPipes, Piped, Requests, RequestOf, Pipes,
    SpentLinks, SpentDials, BrokenLinks, Promise!TurnAway, DatGoes
<1>24. ASSUME NEW d \in DataConn, PipeData(d) PROVE UNCHANGED Promise!vars
  BY <1>24 DEF PipeData, Broken, tables, datVars, IInv, TypeOK, DirectoryInv,
    LinksNamed, NoGhostAgent, Reachable, RequestInv, RequestsFresh, ParkedIsWatched,
    SessionInv, DialBacksKnown, SessionsMatchPipes, Piped, Requests, RequestOf,
    Pipes, SpentLinks, SpentDials, BrokenLinks, Promise!vars
<1>25. ASSUME NEW d \in DataConn, NEW x \in CliConn \cup {d}, FlowEnds(d, x) PROVE UNCHANGED Promise!vars
  BY <1>25 DEF FlowEnds, tables, cliVars, IInv, TypeOK, DirectoryInv, LinksNamed,
    NoGhostAgent, Reachable, RequestInv, RequestsFresh, ParkedIsWatched, SessionInv,
    DialBacksKnown, SessionsMatchPipes, Piped, Requests, RequestOf, Pipes,
    SpentLinks, SpentDials, BrokenLinks, Promise!vars
<1>26. ASSUME NEW d \in DataConn, PipeReturns(d) PROVE UNCHANGED Promise!vars
  BY <1>26, ConnsDisjoint DEF PipeReturns, tables, cliVars, IInv, TypeOK,
    DirectoryInv, LinksNamed, NoGhostAgent, Reachable, RequestInv, RequestsFresh,
    ParkedIsWatched, SessionInv, DialBacksKnown, SessionsMatchPipes, Piped,
    Requests, RequestOf, Pipes, SpentLinks, SpentDials, BrokenLinks, Promise!vars,
    DatGoes
<1>27. ASSUME NEW d \in DataConn, Unlist(d) PROVE \E s \in CliConn : Promise!Unpair(s, d)
  <2> PICK s \in CliConn : s = sid[d]
    BY <1>27 DEF Unlist, IInv, TypeOK, SessionInv, DialBacksKnown, DatGoes
  <2>1. s \in sessions /\ s \notin waiting /\ s \in told
    BY <1>27 DEF Unlist, IInv, TypeOK, SessionInv, SessionsMatchPipes,
      DialBacksKnown, Piped, DatGoes
  <2>2. cli[s] \notin {"idle", "lookup", "park"}
    BY <2>1 DEF IInv, RequestInv, RequestsFresh
  <2>3. RequestOf(s)' = "over" /\ \A e \in CliConn \ {s} : RequestOf(e)' = RequestOf(e)
    BY <1>27, <2>1, <2>2 DEF Unlist, cliVars, RequestOf
  <2>4. Requests' = [Requests EXCEPT ![s] = "over"]
    BY <2>1, <2>3 DEF Requests
  <2>5. <<s, d>> \in Pipes /\ Pipes' = Pipes \ {<<s, d>>}
    BY <1>27, <2>1 DEF Unlist, Pipes, Piped, IInv, TypeOK, DatGoes
  <2>6. UNCHANGED <<SpentLinks, SpentDials, agents, BrokenLinks>>
    BY <1>27 DEF Unlist, SpentLinks, SpentDials, BrokenLinks, DatGoes
  <2> QED
    BY <2>4, <2>5, <2>6 DEF Promise!Unpair
<1>28. ASSUME NEW x \in Conn, PeerGone(x) PROVE
      \/ Promise!Break(x) /\ x \in CtlConn
      \/ UNCHANGED Promise!vars
  <2>1. UNCHANGED <<Requests, Pipes, SpentLinks, SpentDials, agents>>
    BY <1>28 DEF PeerGone, Connected, tables, cliVars, datVars, Requests, RequestOf,
      Pipes, Piped, SpentLinks, SpentDials
  <2>2. BrokenLinks' = BrokenLinks \cup ({x} \cap CtlConn)
    BY <1>28 DEF PeerGone, BrokenLinks
  <2> QED
    BY <2>1, <2>2 DEF Promise!Break, Promise!vars
<1>29. ASSUME Restart PROVE Promise!Crash
  <2>1. Requests' = [c \in CliConn |-> IF Requests[c] = "new" THEN "new" ELSE "over"]
    <3>1. \A c \in CliConn : RequestOf(c)' = IF cli[c] = "idle" THEN "new" ELSE "over"
      BY <1>29 DEF Restart, Ended, RequestOf, IInv, TypeOK
    <3>2. \A c \in CliConn : RequestOf(c) = "new" <=> cli[c] = "idle"
      BY DEF RequestOf
    <3> QED
      BY <3>1, <3>2 DEF Requests
  <2>2. Pipes' = {} /\ agents' = [a \in AgentId |-> None]
    BY <1>29 DEF Restart, Ended, Pipes, Piped, IInv, TypeOK
  <2>3. /\ SpentLinks \cup SpentDials \subseteq (SpentLinks \cup SpentDials)'
        /\ (SpentLinks \cup SpentDials)' \subseteq CtlConn \cup DataConn
    BY <1>29 DEF Restart, Ended, SpentLinks, SpentDials, IInv, TypeOK
  <2>4. \E lost \in SUBSET (CtlConn \cup DataConn) :
           (SpentLinks \cup SpentDials)' = (SpentLinks \cup SpentDials) \cup lost
    <3> DEFINE lost == (SpentLinks \cup SpentDials)'
    <3>1. lost \in SUBSET (CtlConn \cup DataConn)
      BY <2>3
    <3>2. lost = (SpentLinks \cup SpentDials) \cup lost
      BY <2>3
    <3> QED
      BY <3>1, <3>2
  <2>5. \E lost \in SUBSET CtlConn : BrokenLinks' = BrokenLinks \cup lost
    <3>1. BrokenLinks \subseteq BrokenLinks' /\ BrokenLinks' \in SUBSET CtlConn
      BY <1>29 DEF BrokenLinks
    <3> QED
      BY <3>1
  <2> QED
    BY <2>1, <2>2, <2>4, <2>5 DEF Promise!Crash
<1>30. CASE UNCHANGED vars
  BY <1>30 DEF vars, tables, cliVars, datVars, Promise!vars, Requests, RequestOf,
    Pipes, Piped, SpentLinks, SpentDials, BrokenLinks
<1> QED
  BY <1>1, <1>2, <1>3, <1>4, <1>5, <1>6, <1>7, <1>8, <1>9, <1>10, <1>11, <1>12,
    <1>13, <1>14, <1>15, <1>16, <1>17, <1>18, <1>19, <1>20, <1>21, <1>22, <1>23,
    <1>24, <1>25, <1>26, <1>27, <1>28, <1>29, <1>30 DEF Next, AgentStep, ClientStep,
    SessionStep, Lookup, Notify, Ack, Take, Promise!Next

------------------------------------------------------------------------------
(* The theorems *)

\* The invariant holds when the relay starts.
LEMMA InitInv == Init => IInv
<1> SUFFICES ASSUME Init PROVE IInv
  OBVIOUS
<1>1. TypeOK
  BY DEF Init, TypeOK, CtlState, CliState, DatState
<1>2. DirectoryInv
  BY DEF Init, DirectoryInv, LinksNamed, NoGhostAgent, OpenLinkRegistered, Reachable
<1>3. RequestInv
  BY DEF Init, RequestInv, RequestsFresh, ParkedIsWatched, RefusedUntold,
    RefusedGetsNothing, HasNak
<1>4. SessionInv
  BY DEF Init, SessionInv, DialBacksKnown, SessionsMatchPipes, PipeNotCut, Piped
<1> QED
  BY <1>1, <1>2, <1>3, <1>4 DEF IInv

\* Every step keeps the invariant.
LEMMA StepInv == IInv /\ [Next]_vars => IInv'
  BY TypeStep, DirectoryStep, RequestStep, SessionStepInv DEF IInv

\* The invariant holds in every reachable state, for any number of agents, links,
\* clients and data connections; the safety theorems below are parts of it.
THEOREM RelayInvariant == Spec => []IInv
  BY InitInv, StepInv, PTL DEF Spec

\* In every reachable state the tables and handlers of the relay are of their
\* types, for any number of agents and connections.
THEOREM RelayTypeOK == Spec => []TypeOK
<1>1. IInv => TypeOK
  BY DEF IInv
<1> QED
  BY <1>1, RelayInvariant, PTL

\* A link being read and not closed is registered, whatever links of the same
\* agent came before or after it, and no entry outlives its handler.
THEOREM DirectoryCorrect == Spec => [](OpenLinkRegistered /\ NoGhostAgent)
<1>1. IInv => OpenLinkRegistered /\ NoGhostAgent
  BY DEF IInv, DirectoryInv
<1> QED
  BY <1>1, RelayInvariant, PTL

\* The directory never lists an agent whose handler is over: no client is sent to a
\* link that nothing serves.
THEOREM NoGhosts == Spec => []NoGhostAgent
<1>1. IInv => NoGhostAgent
  BY DEF IInv, DirectoryInv
<1> QED
  BY <1>1, RelayInvariant, PTL

\* No parked request is forgotten by the code that must decide it.
THEOREM ParkedWatched == Spec => []ParkedIsWatched
<1>1. IInv => ParkedIsWatched
  BY DEF IInv, RequestInv
<1> QED
  BY <1>1, RelayInvariant, PTL

\* A refused client never sees data of a session.
THEOREM RefusalIsFinal == Spec => []RefusedGetsNothing
<1>1. IInv => RefusedGetsNothing
  BY DEF IInv, RequestInv
<1> QED
  BY <1>1, RelayInvariant, PTL

\* However many data connections dial back, a session is piped once, listed while
\* it is piped, and not parked meanwhile.
THEOREM SessionsCorrect == Spec => []SessionsMatchPipes
<1>1. IInv => SessionsMatchPipes
  BY DEF IInv, SessionInv
<1> QED
  BY <1>1, RelayInvariant, PTL

\* Neither reaper nor error path closes a client in mid-pipe, unless it is gone or
\* its agent has said all it had to say.
THEOREM PipesKept == Spec => []PipeNotCut
<1>1. IInv => PipeNotCut
  BY DEF IInv, SessionInv
<1> QED
  BY <1>1, RelayInvariant, PTL

\* Every step leaves the connections it is done with closed, or in other hands.
LEMMA LeakStep == IInv /\ NothingLeaks /\ [Next]_vars => NothingLeaks'
<1> SUFFICES ASSUME IInv, NothingLeaks, [Next]_vars PROVE NothingLeaks'
  OBVIOUS
<1>0. TypeOK
  BY DEF IInv
<1>1. ASSUME NEW k \in CtlConn, RejectControl(k) PROVE NothingLeaks'
  BY <1>0, <1>1 DEF NothingLeaks, TypeOK, RejectControl, CtlGoes, tables,
    cliVars, datVars
<1>2. ASSUME NEW k \in CtlConn, NEW a \in AgentId, HelloControl(k, a) PROVE NothingLeaks'
  BY <1>0, <1>2 DEF NothingLeaks, TypeOK, HelloControl, CtlGoes, tables,
    cliVars, datVars
<1>3. ASSUME NEW k \in CtlConn, Register(k) PROVE NothingLeaks'
  BY <1>0, <1>3 DEF NothingLeaks, TypeOK, Register, CtlGoes, cliVars, datVars
<1>4. ASSUME NEW k \in CtlConn, ReadFails(k) PROVE NothingLeaks'
  BY <1>0, <1>4 DEF NothingLeaks, TypeOK, ReadFails, CtlGoes, tables, cliVars,
    datVars
<1>5. ASSUME NEW k \in CtlConn, HeartbeatFails(k) PROVE NothingLeaks'
  BY <1>0, <1>5 DEF NothingLeaks, TypeOK, HeartbeatFails, tables, cliVars,
    datVars
<1>6. ASSUME NEW k \in CtlConn, Deregister(k) PROVE NothingLeaks'
  BY <1>0, <1>6 DEF NothingLeaks, TypeOK, Deregister, CtlGoes, cliVars, datVars
<1>7. ASSUME NEW c \in CliConn, RejectClient(c) PROVE NothingLeaks'
  BY <1>0, <1>7 DEF NothingLeaks, TypeOK, RejectClient, CliGoes, tables, datVars
<1>8. ASSUME NEW c \in CliConn, NEW a \in AgentId, HelloClient(c, a) PROVE NothingLeaks'
  BY <1>0, <1>8 DEF NothingLeaks, TypeOK, HelloClient, CliGoes, tables, datVars
<1>9. ASSUME NEW c \in CliConn, AgentOffline(c) PROVE NothingLeaks'
  BY <1>0, <1>9 DEF NothingLeaks, TypeOK, AgentOffline, Refuse, tables, datVars
<1>10. ASSUME NEW c \in CliConn, AgentFound(c) PROVE NothingLeaks'
  BY <1>0, <1>10 DEF NothingLeaks, TypeOK, AgentFound, CliGoes, tables, datVars
<1>11. ASSUME NEW c \in CliConn, NoSessionID(c) PROVE NothingLeaks'
  BY <1>0, <1>11 DEF NothingLeaks, TypeOK, NoSessionID, Refuse, tables, datVars
<1>12. ASSUME NEW c \in CliConn, Park(c) PROVE NothingLeaks'
  BY <1>0, <1>12 DEF NothingLeaks, TypeOK, Park, CliGoes, datVars
<1>13. ASSUME NEW c \in CliConn, NotifyArrives(c) PROVE NothingLeaks'
  BY <1>0, <1>13 DEF NothingLeaks, TypeOK, NotifyArrives, CliGoes, tables,
    datVars
<1>14. ASSUME NEW c \in CliConn, NotifyVanishes(c) PROVE NothingLeaks'
  BY <1>0, <1>14 DEF NothingLeaks, TypeOK, NotifyVanishes, CliGoes, tables,
    datVars
<1>15. ASSUME NEW c \in CliConn, NotifyFails(c) PROVE NothingLeaks'
  BY <1>0, <1>15 DEF NothingLeaks, TypeOK, NotifyFails, CliGoes, tables, datVars
<1>16. ASSUME NEW c \in CliConn, Unpark(c) PROVE NothingLeaks'
  BY <1>0, <1>16 DEF NothingLeaks, TypeOK, Unpark, Refuse, datVars
<1>17. ASSUME NEW c \in CliConn, AckWritten(c) PROVE NothingLeaks'
  BY <1>0, <1>17 DEF NothingLeaks, TypeOK, AckWritten, CliGoes, tables, datVars
<1>18. ASSUME NEW c \in CliConn, AckFails(c) PROVE NothingLeaks'
  BY <1>0, <1>18 DEF NothingLeaks, TypeOK, AckFails, CliGoes, datVars
<1>19. ASSUME NEW c \in CliConn, Reap(c) PROVE NothingLeaks'
  BY <1>0, <1>19 DEF NothingLeaks, TypeOK, Reap, CliGoes, datVars
<1>20. ASSUME NEW d \in DataConn, RejectSession(d) PROVE NothingLeaks'
  BY <1>0, <1>20 DEF NothingLeaks, TypeOK, RejectSession, DatGoes, tables,
    cliVars
<1>21. ASSUME NEW d \in DataConn, NEW s \in CliConn, HelloSession(d, s) PROVE NothingLeaks'
  BY <1>0, <1>21 DEF NothingLeaks, TypeOK, HelloSession, DatGoes, tables,
    cliVars
<1>22. ASSUME NEW d \in DataConn, Pair(d) PROVE NothingLeaks'
  BY <1>0, <1>22 DEF NothingLeaks, TypeOK, Pair, DatGoes, cliVars
<1>23. ASSUME NEW d \in DataConn, TurnAway(d) PROVE NothingLeaks'
  BY <1>0, <1>23 DEF NothingLeaks, TypeOK, TurnAway, DatGoes, tables, cliVars
<1>24. ASSUME NEW d \in DataConn, PipeData(d) PROVE NothingLeaks'
  BY <1>0, <1>24 DEF NothingLeaks, TypeOK, PipeData, tables, datVars
<1>25. ASSUME NEW d \in DataConn, NEW x \in CliConn \cup {d}, FlowEnds(d, x) PROVE NothingLeaks'
  BY <1>0, <1>25 DEF NothingLeaks, TypeOK, FlowEnds, tables, cliVars
<1>26. ASSUME NEW d \in DataConn, PipeReturns(d) PROVE NothingLeaks'
  BY <1>0, <1>26 DEF NothingLeaks, TypeOK, PipeReturns, DatGoes, tables, cliVars
<1>27. ASSUME NEW d \in DataConn, Unlist(d) PROVE NothingLeaks'
  BY <1>0, <1>27 DEF NothingLeaks, TypeOK, Unlist, DatGoes, cliVars
<1>28. ASSUME NEW x \in Conn, PeerGone(x) PROVE NothingLeaks'
  BY <1>0, <1>28 DEF NothingLeaks, TypeOK, PeerGone, tables, cliVars, datVars
<1>29. CASE Restart
  BY <1>0, <1>29 DEF NothingLeaks, TypeOK, Restart, Ended, Connected
<1>30. CASE UNCHANGED vars
  BY <1>30 DEF NothingLeaks, vars
<1> QED
  BY <1>1, <1>2, <1>3, <1>4, <1>5, <1>6, <1>7, <1>8, <1>9, <1>10, <1>11, <1>12,
    <1>13, <1>14, <1>15, <1>16, <1>17, <1>18, <1>19, <1>20, <1>21, <1>22, <1>23,
    <1>24, <1>25, <1>26, <1>27, <1>28, <1>29, <1>30 DEF Next, AgentStep, ClientStep,
    SessionStep, Lookup, Notify, Ack, Take

\* The relay forgets no connection: however requests, dial-backs, timers, failures
\* and crashes interleave, one that it is done with is closed.
THEOREM NothingForgotten == Spec => []NothingLeaks
<1>1. Init => NothingLeaks
  BY DEF Init, NothingLeaks
<1> QED
  BY <1>1, RelayInvariant, LeakStep, PTL DEF Spec

\* Every step changes an entry of r.agents as a registration, a cleanup of the
\* link in it, or a restart does.
LEMMA RegistrationStep ==
  IInv /\ [Next]_vars => \A a \in AgentId : EntryMovesOn(a)
<1> SUFFICES ASSUME IInv, [Next]_vars, NEW a \in AgentId PROVE EntryMovesOn(a)
  OBVIOUS
<1> USE DEF EntryMovesOn
<1>1. CASE \E k \in CtlConn : Register(k)
  BY <1>1 DEF Register, IInv, CtlGoes
<1>2. CASE \E k \in CtlConn : Deregister(k)
  BY <1>2 DEF Deregister
<1>3. CASE Restart
  <2>1. agents'[a] = None
    BY <1>3 DEF Restart
  <2>2. ASSUME agents[a] # None PROVE agents[a] \in CtlConn /\ ctl[agents[a]] # "idle"
    BY <2>2 DEF IInv, TypeOK, DirectoryInv, NoGhostAgent, Reachable
  <2>3. agents[a] # None => agents[a] \in closed'
    BY <1>3, <2>2 DEF Restart, Connected
  <2> QED
    BY <2>1, <2>3
<1>4. CASE UNCHANGED agents
  BY <1>4
<1> QED
  BY <1>1, <1>2, <1>3, <1>4 DEF Next, AgentStep, ClientStep, SessionStep, Lookup,
    Notify, Ack, Take, vars, tables, Refuse, RejectControl, HelloControl, ReadFails,
    HeartbeatFails, RejectClient, HelloClient, AgentOffline, AgentFound,
    NoSessionID, Park, NotifyArrives, NotifyVanishes, NotifyFails, Unpark,
    AckWritten, AckFails, Reap, RejectSession, HelloSession, Pair, TurnAway,
    PipeData, FlowEnds, PipeReturns, Unlist, PeerGone, CliGoes

\* An entry of the table leaves it only with a link that is closed or has ended.
THEOREM NewestWins == Spec => NewestRegistrationWins
  BY RelayInvariant, RegistrationStep, PTL DEF Spec, NewestRegistrationWins

\* The relay starts as a rendezvous nobody has used.
LEMMA RefinementInit == Init => Promise!Init
  BY DEF Init, Promise!Init, Requests, RequestOf, Pipes, Piped, SpentLinks,
    SpentDials, BrokenLinks

\* The relay implements the rendezvous: each request has one fate and at most one
\* partner, and the directory changes as promised.
THEOREM RelayImplementsPromise == Spec => ImplementsPromise
<1>1. Init => Promise!Init
  BY RefinementInit
<1>2. IInv /\ [Next]_vars => [Promise!Next]_Promise!vars
  BY RefinementStep
<1> QED
  BY <1>1, <1>2, RelayInvariant, PTL DEF Spec, ImplementsPromise, Promise!Spec
==============================================================================
