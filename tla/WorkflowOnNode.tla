--------------------------- MODULE WorkflowOnNode ---------------------------
(***************************************************************************)
(* One run of a workflow together with the processes it starts.            *)
(* WorkflowEngine takes step ids to be unique and a start to be one event  *)
(* per step; here a definition is what a client may really send: a list of *)
(* steps in which ids and agents may repeat.  Everything the engine looks  *)
(* up by id it finds at the first step of that id, and each start of an    *)
(* agent kills the process that the agent's pid file names.                *)
(*                                                                         *)
(* A start is one step, since ProcessRuntime::start gives no other future  *)
(* of the wave a turn; starts of one agent by several tasks at once, lists *)
(* of instances and recovery are NodeRuntime's subject.                    *)
(***************************************************************************)
EXTENDS Naturals, FiniteSets

CONSTANTS
  Definitions,  \* sequences of steps: id, deps (a set of ids), optional, agent
  Agents,
  MaxOps, MaxFailures

VARIABLES
  def,
  file,      \* the run file: "absent", "ok" or "garbled",
  verdict,   \* its status,
  status,    \* for each step of the definition, its status
  recorded,  \* and its agent_pid, or 0
  pc, wave,  \* where the engine is, the steps it is launching
  result,    \* of each step of the wave: {}, {0} for an error, or {its process}
  pidFile,   \* of each agent: a process or 0
  live,      \* of each agent: its live processes
  born,      \* processes started so far
  ops, failures,  \* bounds: what others have done to the agents, failures left
  served,    \* history: steps for which their own agent was started
  touched,   \* history: agents that exited, or others started or stopped
  swept      \* history: agents whose last start killed and then failed

wvars == <<def, file, verdict, status, recorded, pc, wave, result, pidFile, live, born,
           ops, failures, served, touched, swept>>
run == <<file, verdict, status, recorded>>
node == <<pidFile, live, born, served, touched, swept>>

Steps == DOMAIN def
Satisfied == {"Completed", "Skipped"}

(* def.steps.iter().find and run.steps.iter().find, by id.                 *)
First(id) ==
  CHOOSE i \in Steps : def[i].id = id /\ \A j \in Steps : def[j].id = id => i <= j

WInit ==
  /\ def \in Definitions
  /\ file = "absent" /\ verdict = "Pending"
  /\ status = [i \in Steps |-> "Pending"] /\ recorded = [i \in Steps |-> 0]
  /\ pc = "idle" /\ wave = {} /\ result = [i \in Steps |-> {}]
  /\ pidFile = [a \in Agents |-> 0] /\ live = [a \in Agents |-> {}] /\ born = 0
  /\ ops = 0 /\ failures = MaxFailures
  /\ served = {} /\ touched = {} /\ swept = {}

-----------------------------------------------------------------------------
(* `let _ = save_workflow_run(..)`.                                        *)
SaveRun(v, st, pids) ==
  \/ file' = file /\ verdict' = v /\ status' = st /\ recorded' = pids /\ UNCHANGED failures
  \/ /\ failures > 0 /\ failures' = failures - 1
     /\ file' \in {file, "garbled"} /\ UNCHANGED <<verdict, status, recorded>>

(* handle_workflows_run: the run is created, and saved again as Running.   *)
CreateRun ==
  /\ pc = "idle"
  /\ \/ file' = "ok" /\ verdict' = "Running" /\ UNCHANGED failures
     \/ /\ failures > 0 /\ failures' = failures - 1
        /\ file' \in {"ok", "garbled"} /\ UNCHANGED verdict
  /\ pc' = "load"
  /\ UNCHANGED <<def, status, recorded, wave, result, node, ops>>

(* ready_steps_with_def: a step is as ready as the first of its id.        *)
Ready ==
  LET completed == {def[i].id : i \in {j \in Steps : status[j] \in Satisfied}} IN
  {i \in Steps : status[First(def[i].id)] = "Pending" /\ def[i].deps \subseteq completed}

(* The head of the loop, and the marks of a wave, which are saved.         *)
LoadRun ==
  /\ pc = "load"
  /\ IF file = "ok" /\ Ready # {}
     THEN /\ pc' = "launch" /\ wave' = Ready
          /\ LET marked == {First(def[i].id) : i \in Ready} IN
             SaveRun(verdict, [i \in Steps |-> IF i \in marked THEN "Running" ELSE status[i]],
                     recorded)
     ELSE /\ pc' = IF file # "ok" THEN "done"
                   ELSE IF \A i \in Steps : status[i] \in Satisfied \cup {"Failed"}
                   THEN "finalize" ELSE "sleep"
          /\ UNCHANGED <<run, wave, failures>>
  /\ result' = [i \in Steps |-> {}]
  /\ UNCHANGED <<def, node, ops>>

WakeUp ==
  /\ pc = "sleep"
  /\ pc' = "load"
  /\ UNCHANGED <<def, run, wave, result, node, ops, failures>>

(* Mutant of Swept: the sweep finds no process.                            *)
Swept_Blind(a) == live[a]

(* sweep_orphan.                                                           *)
Swept(a) == live[a] \ {pidFile[a]}

(* A future of the wave: the step is looked up by its id, and its agent    *)
(* started; or that fails, before or after the sweep.                      *)
Launch(i) ==
  /\ pc = "launch" /\ i \in wave /\ result[i] = {}
  /\ LET s == First(def[i].id)
         a == def[s].agent
     IN
     \/ /\ born' = born + 1
        /\ live' = [live EXCEPT ![a] = Swept(a) \cup {born'}]
        /\ pidFile' = [pidFile EXCEPT ![a] = born']
        /\ result' = [result EXCEPT ![i] = {born'}]
        /\ served' = served \cup {s} /\ swept' = swept \ {a}
        /\ UNCHANGED <<touched, failures>>
     \/ /\ failures > 0 /\ failures' = failures - 1
        /\ result' = [result EXCEPT ![i] = {0}]
        /\ \/ UNCHANGED <<live, pidFile, swept>>
           \/ /\ live' = [live EXCEPT ![a] = Swept(a)]
              /\ pidFile' = [pidFile EXCEPT ![a] = 0]
              /\ swept' = swept \cup {a}
        /\ UNCHANGED <<born, served, touched>>
  /\ UNCHANGED <<def, run, pc, wave, ops>>

(* The results of the wave in the order of its steps: of two with one id,  *)
(* the last decides the status, and the last that started something the    *)
(* agent_pid.                                                              *)
Resolved(i) ==
  LET mine == {j \in wave : def[j].id = def[i].id}
      last == CHOOSE j \in mine : \A o \in mine : o <= j
  IN  IF 0 \notin result[last] THEN "Completed"
      ELSE IF def[First(def[i].id)].optional THEN "Skipped" ELSE "Failed"

LastPid(i) ==
  LET pids == UNION {result[j] \ {0} : j \in {o \in wave : def[o].id = def[i].id}}
      last == {j \in wave : /\ def[j].id = def[i].id /\ 0 \notin result[j]
                            /\ \A o \in wave : def[o].id = def[i].id /\ 0 \notin result[o] => o <= j}
  IN  IF pids = {} THEN recorded[i] ELSE CHOOSE p \in pids : \E j \in last : p \in result[j]

(* join_all has returned, the run is reloaded and the results are saved.   *)
RecordWave ==
  /\ pc = "launch" /\ \A i \in wave : result[i] # {}
  /\ IF file = "ok"
     THEN LET firsts == {First(def[i].id) : i \in wave} IN
          /\ SaveRun(verdict, [i \in Steps |-> IF i \in firsts THEN Resolved(i) ELSE status[i]],
                     [i \in Steps |-> IF i \in firsts THEN LastPid(i) ELSE recorded[i]])
          /\ pc' = "load"
     ELSE pc' = "done" /\ UNCHANGED <<run, failures>>
  /\ UNCHANGED <<def, wave, result, node, ops>>

Finalize ==
  /\ pc = "finalize"
  /\ LET failed == {i \in Steps : status[i] = "Failed" /\ ~def[First(def[i].id)].optional} IN
     SaveRun(IF failed # {} THEN "Failed" ELSE "Completed", status, recorded)
  /\ pc' = "done"
  /\ UNCHANGED <<def, wave, result, node, ops>>

(* An agent exits, is stopped, or is started by somebody else.             *)
Touch(a) ==
  /\ ops < MaxOps /\ ops' = ops + 1
  /\ \/ live[a] # {} /\ \E p \in live[a] : live' = [live EXCEPT ![a] = @ \ {p}]
        /\ UNCHANGED <<pidFile, born>>
     \/ /\ born' = born + 1
        /\ live' = [live EXCEPT ![a] = Swept(a) \cup {born'}]
        /\ pidFile' = [pidFile EXCEPT ![a] = born']
  /\ touched' = touched \cup {a}
  /\ UNCHANGED <<def, run, pc, wave, result, failures, served, swept>>

(* The node dies, and with it the engine; the agents do not.               *)
WCrash ==
  /\ pc \notin {"idle", "done"} /\ failures > 0
  /\ failures' = failures - 1
  /\ pc' = "done"
  /\ file' \in {file} \cup (IF pc = "sleep" THEN {} ELSE {"garbled"})
  /\ UNCHANGED <<def, verdict, status, recorded, wave, result, node, ops>>

WNext ==
  \/ CreateRun \/ LoadRun \/ WakeUp \/ RecordWave \/ Finalize
  \/ \E i \in Steps : Launch(i)
  \/ \E a \in Agents : Touch(a)
  \/ WCrash

WSpec == WInit /\ [][WNext]_wvars

-----------------------------------------------------------------------------
WTypeOK ==
  /\ DOMAIN status = Steps /\ DOMAIN recorded = Steps
  /\ \A i \in Steps : status[i] \in Satisfied \cup {"Pending", "Running", "Failed"}
  /\ pc \in {"idle", "load", "sleep", "launch", "finalize", "done"}
  /\ wave \cup served \subseteq Steps /\ touched \cup swept \subseteq Agents
  /\ \A a \in Agents : live[a] \subseteq 1..born /\ pidFile[a] \in 0..born
  /\ ops \in 0..MaxOps /\ failures \in 0..MaxFailures

Own(i) == def[i].agent \notin touched \cup swept

(* An agent was started for a step that ended as skipped: neither the mark *)
(* of its wave nor the wave's result was saved, so it was launched again,  *)
(* and that failed.                                                        *)
Unnamed(a) == \E i \in served : def[i].agent = a /\ status[i] = "Skipped"

(* What a completed run leaves behind.  An agent never has two processes,  *)
(* although steps of one wave may name it and ids may repeat.  When the    *)
(* run says Completed, each of its mandatory steps had its own agent       *)
(* started, and the agent runs, unless others touched it, or a later start *)
(* of it, by a step that may have been optional, killed it and failed.     *)
(* Its process is the one that some step of the run names, which is        *)
(* another step only if that has the same agent; save for a step that was  *)
(* started in vain.                                                        *)
RunServed ==
  /\ \A a \in Agents : Cardinality(live[a]) <= 1
  /\ file = "ok" /\ verdict = "Completed" =>
       \A i \in Steps : ~def[i].optional =>
         /\ i \in served
         /\ Own(i) =>
              /\ live[def[i].agent] # {}
              /\ \/ Unnamed(def[i].agent)
                 \/ \E j \in Steps : /\ def[j].agent = def[i].agent
                                     /\ recorded[j] \in live[def[i].agent]
=============================================================================
