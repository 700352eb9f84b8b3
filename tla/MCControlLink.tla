---------------------------- MODULE MCControlLink -----------------------------
(* Small instances of ControlLink for TLC. *)

EXTENDS ControlLink
===============================================================================
