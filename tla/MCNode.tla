------------------------------- MODULE MCNode -------------------------------
(***************************************************************************)
(* One tenant with two agents (its list is shared by every task), an API   *)
(* task and a CLI process, and fewer pids than starts could want.          *)
(***************************************************************************)
EXTENDS NodeRuntime, TLC

CONSTANTS t1, a1, a2, p1, p2, p3, c1, c2, x1, s1, s2

MCBlocked == {}
MCMaxInstances == [t \in Tenants |-> 2]

Symmetry == Permutations(Agents) \cup Permutations(Pids) \cup Permutations(Api)
              \cup Permutations(Stamps)
=============================================================================
