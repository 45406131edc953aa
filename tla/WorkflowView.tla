---------------------------- MODULE WorkflowView ----------------------------
(***************************************************************************)
(* What a client polling GET /workflows/runs/:run_id may rely on, whatever *)
(* the engine does behind the file: a step only moves forward, it leaves   *)
(* Pending only after its dependencies, optional steps are never Failed    *)
(* and the others never Skipped, and a verdict appears once, when every    *)
(* step is terminal, and agrees with them.  The file may become unreadable *)
(* at any time; nothing is promised about it afterwards.                   *)
(***************************************************************************)
CONSTANTS Steps, Definitions

VARIABLES def, file, verdict, status

view == <<def, file, verdict, status>>

Done(st) == {s \in Steps : st[s] \in {"Completed", "Skipped"}}

Init ==
  /\ def \in Definitions
  /\ file = "absent"
  /\ verdict = "Pending"
  /\ status = [s \in Steps |-> "Pending"]

Appear ==
  /\ file = "absent"
  /\ file' = "ok"
  /\ UNCHANGED <<def, verdict, status>>

Vanish ==
  /\ file = "ok"
  /\ file' = "garbled"
  /\ UNCHANGED <<def, verdict, status>>

Admit ==
  /\ file = "ok"
  /\ verdict = "Pending"
  /\ verdict' = "Running"
  /\ UNCHANGED <<def, file, status>>

(* A step may reach any later status in one observation (the client can    *)
(* miss Running), but only once its dependencies are done.                 *)
Forward(s, new) ==
  \/ new = status[s]
  \/ /\ status[s] \in {"Pending", "Running"}
     /\ def.deps[s] \subseteq Done(status)
     /\ \/ new = "Running"
        \/ new = "Completed"
        \/ new = "Skipped" /\ s \in def.optional
        \/ new = "Failed" /\ s \notin def.optional

Advance ==
  /\ file = "ok"
  /\ verdict \in {"Pending", "Running"}
  /\ DOMAIN status' = Steps
  /\ \A s \in Steps : Forward(s, status'[s])
  /\ UNCHANGED <<def, file, verdict>>

Conclude ==
  /\ file = "ok"
  /\ verdict \in {"Pending", "Running"}
  /\ \/ Done(status) = Steps /\ verdict' = "Completed"
     \/ /\ verdict' = "Failed"
        /\ \A s \in Steps : status[s] \notin {"Pending", "Running"}
        /\ \E s \in Steps : status[s] = "Failed"
  /\ UNCHANGED <<def, file, status>>

Next == Appear \/ Vanish \/ Admit \/ Advance \/ Conclude

Spec == Init /\ [][Next]_view

=============================================================================
