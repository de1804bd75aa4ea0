---------------------------- MODULE MCMessageRing ----------------------------
(* Two clients that repeat themselves, and more messages than slots.          *)
EXTENDS MessageRing

CONSTANTS c1, c2

MCBytesOf == [m \in Message |-> m[1]]
=============================================================================
