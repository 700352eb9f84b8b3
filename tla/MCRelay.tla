------------------------------- MODULE MCRelay -------------------------------
(* Small instances of Relay for TLC. *)

EXTENDS Relay, TLC

\* Nothing tells connections of one role apart, nor agent names.
Symmetry ==
    Permutations(CtlConn) \cup Permutations(CliConn) \cup Permutations(DataConn)
        \cup Permutations(AgentId)
===============================================================================
