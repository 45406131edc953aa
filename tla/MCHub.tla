------------------------------- MODULE MCHub --------------------------------
(***************************************************************************)
(* Two nodes with room for one agent each at first, so that a fleet is at  *)
(* 0, 50 or 100 percent: with a threshold of 60, 50 lies between the alarm *)
(* and its reset at 42.  A node started again with room for two brings the *)
(* fleet to 33 percent, below the reset, though no load fell.              *)
(***************************************************************************)
EXTENDS HubPoller, TLC

CONSTANTS n1, n2, a1, a2

Symmetric == Permutations({n1, n2}) \cup Permutations({a1, a2})
=============================================================================
