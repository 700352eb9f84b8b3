---------------------------- MODULE MCClipSession -----------------------------
(* Small instances of ClipSession for TLC. *)

EXTENDS ClipSession
===============================================================================
