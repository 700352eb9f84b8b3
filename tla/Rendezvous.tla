------------------------------ MODULE Rendezvous ------------------------------
(* What the relay promises, without its locks, handlers and goroutines.       *)
(*                                                                            *)
(* A client request is asked, parked, paired with at most one data connection *)
(* of the agent, and then over; it never goes back.  A directory holds for    *)
(* each agent the link registered last; an entry disappears only when its     *)
(* link has broken, and is replaced only by a link that was never registered, *)
(* which breaks the replaced one.  A crash of the relay loses everything.     *)

CONSTANTS
    AgentId,    \* names under which agents register
    CtlConn,    \* control links of agents
    CliConn,    \* client requests; one connection each
    DataConn,   \* data connections agents dial back
    None        \* no link

VARIABLES
    request,    \* request[c]: how far the request of client c has come
    pipes,      \* the pairs <<client, data connection>> joined right now
    spent,      \* links and data connections that had their one use
    directory,  \* directory[a]: the link under which agent a is reachable
    broken      \* links that are closed or whose agent is gone

vars == <<request, pipes, spent, directory, broken>>

Init ==
    /\ request = [c \in CliConn |-> "new"]
    /\ pipes = {}
    /\ spent = {}
    /\ directory = [a \in AgentId |-> None]
    /\ broken = {}

Ask(c) ==
    /\ request[c] = "new"
    /\ request' = [request EXCEPT ![c] = "asking"]
    /\ UNCHANGED <<pipes, spent, directory, broken>>

Park(c) ==
    /\ request[c] = "asking"
    /\ request' = [request EXCEPT ![c] = "parked"]
    /\ UNCHANGED <<pipes, spent, directory, broken>>

\* The request is refused, withdrawn or timed out, without a partner.
GiveUp(c) ==
    /\ request[c] \in {"new", "asking", "parked"}
    /\ request' = [request EXCEPT ![c] = "over"]
    /\ UNCHANGED <<pipes, spent, directory, broken>>

Pair(c, d) ==
    /\ request[c] = "parked"
    /\ d \notin spent
    /\ request' = [request EXCEPT ![c] = "paired"]
    /\ pipes' = pipes \cup {<<c, d>>}
    /\ spent' = spent \cup {d}
    /\ UNCHANGED <<directory, broken>>

Unpair(c, d) ==
    /\ <<c, d>> \in pipes
    /\ pipes' = pipes \ {<<c, d>>}
    /\ request' = [request EXCEPT ![c] = "over"]
    /\ UNCHANGED <<spent, directory, broken>>

\* A link or data connection is used up without having been of any use.
TurnAway(x) ==
    /\ spent' = spent \cup {x}
    /\ UNCHANGED <<request, pipes, directory>>
    /\ broken' \in {broken, broken \cup ({x} \cap CtlConn)}

Online(a, k) ==
    /\ k \notin spent
    /\ spent' = spent \cup {k}
    /\ directory' = [directory EXCEPT ![a] = k]
    /\ broken' = broken \cup ({directory[a]} \ {None})
    /\ UNCHANGED <<request, pipes>>

\* The entry goes only because its own link is broken.
Offline(a) ==
    /\ directory[a] \in broken
    /\ directory' = [directory EXCEPT ![a] = None]
    /\ UNCHANGED <<request, pipes, spent, broken>>

Break(k) ==
    /\ broken' = broken \cup {k}
    /\ UNCHANGED <<request, pipes, spent, directory>>

\* The relay process dies and starts again with empty tables.
Crash ==
    /\ request' = [c \in CliConn |-> IF request[c] = "new" THEN "new" ELSE "over"]
    /\ pipes' = {}
    /\ directory' = [a \in AgentId |-> None]
    /\ \E lost \in SUBSET (CtlConn \cup DataConn) : spent' = spent \cup lost
    /\ \E lost \in SUBSET CtlConn : broken' = broken \cup lost

Next ==
    \/ \E c \in CliConn : Ask(c) \/ Park(c) \/ GiveUp(c)
    \/ \E c \in CliConn, d \in DataConn : Pair(c, d) \/ Unpair(c, d)
    \/ \E x \in CtlConn \cup DataConn : TurnAway(x)
    \/ \E a \in AgentId, k \in CtlConn : Online(a, k)
    \/ \E a \in AgentId : Offline(a)
    \/ \E k \in CtlConn : Break(k)
    \/ Crash

Spec == Init /\ [][Next]_vars
===============================================================================
