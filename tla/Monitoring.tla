----------------------------- MODULE Monitoring -----------------------------
(***************************************************************************)
(* The health loop and the alerting loop of a node: what the first writes  *)
(* into the health records is what the rules of the second are about.      *)
(***************************************************************************)
EXTENDS HealthMonitor

CONSTANTS
  Rules, Cooldown, Editors, NoRule,
  Metric   \* of each rule: its kind, its agent, and its threshold

ASSUME AlertAssumption == NoRule \notin Rules /\ Cooldown \in Nat \ {0}

ASSUME MetricAssumption ==
  \A r \in Rules :
    /\ Metric[r].kind \in {"score", "crashes", "fleet"}
    /\ Metric[r].agent \in Agents /\ Metric[r].threshold \in Nat

VARIABLES rules, aloop, edit, believed, since, forgotten, early

-----------------------------------------------------------------------------
(* The records a reader may find readable: one that is written just now    *)
(* may not be.                                                             *)
Readings ==
  {Records \ unreadable :
     unreadable \in SUBSET (IF pc = "check" THEN {p[1] : p \in seen} ELSE {})}

(* evaluate_metric over the records that were read.                        *)
Breach(r, records) ==
  LET m == Metric[r] IN
  CASE m.kind = "score" -> m.agent \in records /\ health[m.agent].score < m.threshold
    [] m.kind = "crashes" -> m.agent \in records /\ health[m.agent].crashes > m.threshold
    [] m.kind = "fleet" -> 100 - AverageScore(records) > m.threshold

Breached == {r \in Rules : \E records \in Readings : Breach(r, records)}
Missed == {r \in Rules : \E records \in Readings : ~Breach(r, records)}

Alerts == INSTANCE Alerting WITH breached <- Breached, missed <- Missed

avars == <<rules, aloop, edit, believed, since, forgotten, early>>
vars == <<hvars, avars, events>>

-----------------------------------------------------------------------------
Init == HInit /\ Alerts!AInit

Request(a) ==
  \/ StartBegins(a) \/ StartListed(a) \/ StartFails(a) \/ StartUnlisted(a)
  \/ StopBegins(a) \/ StopListed(a) \/ StopUnlisted(a)

HealthLoop == HealthLoad \/ HealthScan \/ \E p \in Places : Check(p)

AlertLoop ==
  \/ Alerts!AlertLoad \/ Alerts!AlertWrite
  \/ \E r \in Rules : Alerts!Evaluate(r)

Edit(e) ==
  \/ \E r \in Rules : Alerts!Create(e, r) \/ Alerts!Delete(e, r)
  \/ Alerts!EditWrite(e)

Next ==
  \/ /\ HealthLoop \/ \E a \in Agents : Request(a) \/ Dies(a)
     /\ UNCHANGED avars
  \/ /\ AlertLoop \/ \E e \in Editors : Edit(e)
     /\ UNCHANGED hvars
  \/ HealthRestart /\ Alerts!AlertRestart

(* Both loops run for ever, and a request that has begun to edit the rules *)
(* ends; nothing else is due.                                              *)
Fairness ==
  /\ WF_vars(UNCHANGED avars /\ HealthLoop)
  /\ WF_vars(UNCHANGED hvars /\ AlertLoop)
  /\ WF_vars(UNCHANGED hvars /\ \E e \in Editors : Alerts!EditWrite(e))

Spec == Init /\ [][Next]_vars /\ Fairness

-----------------------------------------------------------------------------
TypeOK ==
  /\ listed \in [Agents -> Seq({"stopped", "running"})]
  /\ last \in [Agents -> 0..MaxRecords]
  /\ op \in [Agents -> {"none", "starting", "stopping"}]
  /\ health \in [Agents -> Record \cup {NoRecord}]
  /\ pc \in {"sleep", "scan", "check"}
  /\ {present, died, handled} \subseteq SUBSET Agents
  /\ {seen, gone, todo} \subseteq SUBSET Places
  /\ Alerts!IsList(rules) /\ Alerts!IsList(aloop.list)
  /\ aloop.pc \in {"sleep", "evaluate", "write"} /\ aloop.todo \subseteq DOMAIN aloop.list
  /\ \A e \in Editors : Alerts!IsList(edit[e].list) /\ edit[e].rule \in Rules \cup {NoRule}
  /\ since \in [Rules -> 0..Cooldown]
  /\ believed \in [Rules -> {"in", "out", "unsure"}]
  /\ {forgotten, early} \subseteq SUBSET Rules

(* A crash is only ever recorded of an agent that has lost the process its *)
(* last record names, or that was being started or stopped while the loop  *)
(* looked: the lists and the process table are read one after the other,   *)
(* and the list says "running" before and after there is a process.        *)
(* Excepted are the records that a later start of the agent left behind    *)
(* (save_instance): the loop finds each of them crashed in every round.    *)
CrashesAreReal ==
  [][\A a \in Agents :
       health'[a] # NoRecord /\ health'[a].crashes > LoadOrCreate(a).crashes
         => a \in died \cup handled \/ <<a, last[a]>> \notin todo \ todo']_vars

(* A rule does not fire again within its cooldown, unless the mark of its  *)
(* firing was lost: to a request that had read the file before, or to the  *)
(* end of the node between the delivery and the write.                     *)
CooldownKept == early = {}

(* The file holds the rules that were created and not those that were      *)
(* deleted, where no other writer was between its read and its write.      *)
RulesAsEdited ==
  \A r \in Rules :
    /\ believed[r] = "in" => r \in DOMAIN rules
    /\ believed[r] = "out" => r \notin DOMAIN rules

(* From a lost process to the alert, through both loops (run_health_loop,  *)
(* evaluate_metric): an agent that is listed and has no process makes      *)
(* every rule on its crashes fire again and again, and every rule on a     *)
(* score that crashes alone can reach; a fleet of which that is true of    *)
(* every agent makes the rules on the fleet fire.  The metrics are those   *)
(* the code computes, which are not those that alerting.rs:31 and 33       *)
(* announce: crashes are counted for ever, not in the window, and the      *)
(* fleet is at what its average score lacks to 100, not at the share of    *)
(* its capacity in use.                                                    *)
Unattended(a) == Running(a) # {} /\ a \notin present /\ op[a] = "none"

Alarming(r) ==
  LET m == Metric[r] IN
  /\ r \in DOMAIN rules
  /\ \/ m.kind = "crashes" /\ m.threshold < MaxCount /\ Unattended(m.agent)
     \/ m.kind = "score" /\ m.threshold > 40 /\ Unattended(m.agent)
     \/ m.kind = "fleet" /\ m.threshold < 60 /\ \A a \in Agents : Unattended(a)

DeathIsAlerted == \A r \in Rules : <>[]Alarming(r) => []<>(since[r] = 0)
=============================================================================
