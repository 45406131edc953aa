---------------------------- MODULE MCMonitoring ----------------------------
(***************************************************************************)
(* One agent, rules of each kind, and one request that edits them.         *)
(***************************************************************************)
EXTENDS Monitoring, TLC

CONSTANTS x, crashing, failing, stressed, e1

MCMetric ==
  crashing :> [kind |-> "crashes", agent |-> x, threshold |-> 1] @@
  failing :> [kind |-> "score", agent |-> x, threshold |-> 50] @@
  stressed :> [kind |-> "fleet", agent |-> x, threshold |-> 50]
=============================================================================
