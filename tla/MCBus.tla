------------------------------- MODULE MCBus -------------------------------
(***************************************************************************)
(* Three or four messages, one of which may expire.  The messages that     *)
(* live for ever, and the publishers, are interchangeable.                 *)
(***************************************************************************)
EXTENDS MessageBus, TLC

CONSTANTS m1, m2, m3, p1, p2, c1
=============================================================================
