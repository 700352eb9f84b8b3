------------------------------- MODULE MCTunnel -------------------------------
(* Small instances of Tunnel for TLC. *)

EXTENDS Tunnel, TLC

\* A request of one piece and a reply of one.
Both == [x \in Dir |-> 1]
===============================================================================
