------------------------------ MODULE MCClipSync ------------------------------
(* Small instances of ClipSync for TLC. *)

EXTENDS ClipSync

\* A pasteboard that returns the PNG it was given.
Verbatim == [i \in Image |-> i]
===============================================================================
