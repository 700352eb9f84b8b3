------------------------------ MODULE MCClipWire ------------------------------
(* Small instances of ClipWire for TLC, with the limits of the program but for *)
(* maxImage, which is two chunks and four chunks instead of 256.              *)

EXTENDS ClipWire, TLC

CONSTANTS note, long, markup, photo, poster, agent, client

KiB == 1024

\* A text and an image at the limit, and one of each beyond it.
Sizes == [c \in Content |->
    CASE c = note -> 48 * KiB
      [] c = long -> 64 * KiB
      [] c = markup -> 12 * KiB
      [] c = photo -> 64 * KiB
      [] c = poster -> 96 * KiB + 1]

\* Plain letters, and a markup text of nothing but angle brackets: \u003c.
EscapedSizes == [c \in Text |-> IF c = markup THEN 6 * Sizes[c] ELSE Sizes[c]]

\* The agent's version takes smaller images than the client's.
Limits == [p \in Peer |-> IF p = agent THEN 64 * KiB ELSE 128 * KiB]
===============================================================================
