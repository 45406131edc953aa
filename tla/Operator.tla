------------------------------ MODULE Operator ------------------------------
(***************************************************************************)
(* The Kubernetes operator: for one ApolloAgent resource it compares the   *)
(* replicas that are wanted with what the node runs, calls the node's API, *)
(* and writes the status.  The controller reconciles again 30 seconds      *)
(* later, 60 after an error, and when the resource changes.                *)
(*                                                                         *)
(* Of the node there are the records of the agent that say running, which  *)
(* is what its capacity is about, and its process: a start kills the one   *)
(* before it, and adds a record.                                           *)
(***************************************************************************)
EXTENDS Naturals

CONSTANTS
  MaxReplicas,
  MaxAgents,    \* the node's capacity
  MaxErrors,    \* bounds: starts that fail or whose answer is lost,
  MaxChanges    \* changes of everything else

VARIABLES
  resource,  \* the resource: replicas, whether it has a source, its status
  exists,    \* whether it is there
  secret, reachable,  \* whether the API key is found, and the node answers
  registered, records, live,  \* the agent on the node
  pc, left,  \* what the operator does, and the starts it has still to ask for
  phase,     \* the status it will write
  errors, changes

vars == <<resource, exists, secret, reachable, registered, records, live, pc, left, phase, errors, changes>>
node == <<registered, records, live>>
cluster == <<resource, exists, secret, reachable, changes>>

Init ==
  /\ resource \in [replicas : 0..MaxReplicas, source : BOOLEAN, status : {"none"}]
  /\ exists = TRUE /\ secret \in BOOLEAN /\ reachable = TRUE
  /\ registered \in BOOLEAN /\ records = 0 /\ live = FALSE
  /\ pc = "idle" /\ left = 0 /\ phase = "none" /\ errors = 0 /\ changes = 0

-----------------------------------------------------------------------------
(* reconcile, the steps up to a call of the node.  Without the key it is   *)
(* an error, and nothing changes.                                          *)
Reconcile ==
  /\ pc = "idle" /\ exists /\ secret
  /\ pc' = "register"
  /\ left' = resource.replicas /\ phase' = "none"
  /\ UNCHANGED <<node, errors, cluster>>

(* register_agent, whose errors are ignored.                               *)
Register ==
  /\ pc = "register"
  /\ pc' = "count"
  /\ registered' \in {registered, registered \/ (resource.source /\ reachable)}
  /\ UNCHANGED <<records, live, left, phase, errors, cluster>>

(* count_running: the answer's total_starts and total_stops are sought as  *)
(* `starts` and `stops`, and what is not found, or fails, is zero.         *)
CountRunning == 0

Count ==
  /\ pc = "count"
  /\ IF left = 0 /\ CountRunning = 0 THEN phase' = "Stopped" /\ pc' = "patch"
     ELSE phase' = "Running" /\ pc' = IF CountRunning < left THEN "run" ELSE "patch"
  /\ left' = IF CountRunning < left THEN left - CountRunning ELSE 0
  /\ UNCHANGED <<node, errors, cluster>>

Started == records' = records + 1 /\ live' = TRUE

(* run_agent: the node refuses, or starts the agent, or fails after it has *)
(* killed the old process; and an answer may get lost.  Any error ends the *)
(* reconciliation.                                                         *)
RunAgent ==
  /\ pc = "run"
  /\ \/ /\ reachable /\ registered /\ records < MaxAgents
        /\ \/ /\ Started /\ left' = left - 1 /\ UNCHANGED errors
              /\ pc' = IF left = 1 THEN "patch" ELSE "run"
           \/ /\ errors < MaxErrors /\ errors' = errors + 1
              /\ Started \/ (live' = FALSE /\ UNCHANGED records)
              /\ left' = 0 /\ pc' = "idle"
     \/ /\ ~(reachable /\ registered /\ records < MaxAgents)
        /\ left' = 0 /\ pc' = "idle"
        /\ UNCHANGED <<records, live, errors>>
  /\ UNCHANGED <<registered, phase, cluster>>

(* The status is written, or the cluster's API fails.                      *)
PatchStatus ==
  /\ pc = "patch"
  /\ pc' = "idle"
  /\ \/ exists /\ resource' = [resource EXCEPT !.status = phase]
     \/ UNCHANGED resource
  /\ UNCHANGED <<exists, secret, reachable, node, left, phase, errors, changes>>

-----------------------------------------------------------------------------
(* The resource is edited or deleted, the key or the node come and go, the *)
(* agent exits.                                                            *)
Edit(n) ==
  /\ exists /\ resource' = [resource EXCEPT !.replicas = n]
  /\ UNCHANGED <<exists, secret, reachable, node>>

Delete == exists /\ exists' = FALSE /\ UNCHANGED <<resource, secret, reachable, node>>

Toggle ==
  /\ \/ secret' = ~secret /\ UNCHANGED reachable
     \/ reachable' = ~reachable /\ UNCHANGED secret
  /\ UNCHANGED <<resource, exists, node>>

Exit == live /\ live' = FALSE /\ UNCHANGED <<resource, exists, secret, reachable, registered, records>>

Change ==
  /\ changes < MaxChanges
  /\ changes' = changes + 1
  /\ (\E n \in 0..MaxReplicas : Edit(n)) \/ Delete \/ Toggle \/ Exit
  /\ UNCHANGED <<pc, left, phase, errors>>

Operate == Reconcile \/ Register \/ Count \/ RunAgent \/ PatchStatus
Next == Operate \/ Change

(* The controller keeps reconciling a resource that exists.                *)
Spec == Init /\ [][Next]_vars /\ WF_vars(Operate)

-----------------------------------------------------------------------------
TypeOK ==
  /\ resource \in [replicas : 0..MaxReplicas, source : BOOLEAN,
                   status : {"none", "Stopped", "Running"}]
  /\ {exists, secret, reachable, registered, live} \subseteq BOOLEAN
  /\ records \in 0..MaxAgents /\ left \in 0..MaxReplicas /\ errors \in 0..MaxErrors /\ changes \in 0..MaxChanges
  /\ pc \in {"idle", "register", "count", "run", "patch"}
  /\ phase \in {"none", "Stopped", "Running"}

Operable == exists /\ secret /\ reachable /\ registered

(* What the resource's definition says of replicas, the "desired number    *)
(* of replicas (instances for this tenant)": once the resource stays, with *)
(* its key and a node that answers, the node comes to run that many.       *)
ReplicasReached == <>[]Operable => <>[](records = resource.replicas)
=============================================================================
