--------------------------- MODULE WorkflowEngine ---------------------------
(***************************************************************************)
(* One run of a workflow DAG: the handler that creates it                  *)
(* (handle_workflows_run) and the background task that executes it         *)
(* (run_workflow_parallel).  The run lives in one JSON file which the      *)
(* engine reads back before every decision, so the file and not the        *)
(* engine's memory is the state of the run.  Every save of the engine is   *)
(* `let _ = save_workflow_run(..)`: an error is dropped, and since         *)
(* fs::write truncates first, it can leave the old file or a garbled one.  *)
(* The node may crash at any point; no code picks a run up again.          *)
(***************************************************************************)
EXTENDS Naturals, FiniteSets

CONSTANTS
  Steps,         \* step ids of the definition (unique)
  Definitions,   \* the workflow definitions a client may submit
  MaxLostSaves,  \* bound on failed saves in one behaviour
  MayCrash       \* whether the node may crash during the run

(* depends_on is a list of strings nobody validates: it may name a step    *)
(* that does not exist, the step itself, or close a cycle.                 *)
WorkflowDef == [deps: [Steps -> SUBSET (Steps \cup {"unknown"})],
                optional: SUBSET Steps]

ASSUME WorkflowAssumption ==
  /\ Definitions \subseteq WorkflowDef
  /\ "unknown" \notin Steps
  /\ MaxLostSaves \in Nat
  /\ MayCrash \in BOOLEAN

VARIABLES
  def,       \* the definition this run executes (a copy: later edits do not reach it)
  file,      \* "absent", "ok" or "garbled": the run file
  verdict,   \* WorkflowRun.status in the file
  status,    \* StepExecution.status per step, in the file
  pc,        \* where the handler and then the engine task are
  wave,      \* `ready`: the steps being launched together
  outcome,   \* what get_agent_spec and start returned for a step of the wave
  launches,  \* history: processes started for each step
  lost       \* history: saves that did not reach the disk

vars == <<def, file, verdict, status, pc, wave, outcome, launches, lost>>

StepStatus == {"Pending", "Running", "Completed", "Failed", "Skipped"}
WorkflowStatus == {"Pending", "Running", "Completed", "Failed"}
Outcome == {"none", "started", "error"}
Location == {"idle", "created", "load", "sleep", "mark", "launch", "record",
             "finalize", "done", "dead"}

Satisfied == {"Completed", "Skipped"}
Terminal == {"Completed", "Failed", "Skipped"}

(* Mutants of Ready: the dependencies are not looked at; a failed one will *)
(* do.                                                                     *)
Ready_Undirected(st) == {s \in Steps : st[s] = "Pending"}
Ready_AfterFailure(st) ==
  {s \in Steps : /\ st[s] = "Pending"
                 /\ \A d \in def.deps[s] : d \in Steps /\ st[d] \in Terminal}

(* ready_steps_with_def: pending steps all of whose dependencies are       *)
(* completed or skipped.                                                   *)
Ready(st) ==
  {s \in Steps : /\ st[s] = "Pending"
                 /\ \A d \in def.deps[s] : d \in Steps /\ st[d] \in Satisfied}

NoOutcome == [s \in Steps |-> "none"]

-----------------------------------------------------------------------------
Init ==
  /\ def \in Definitions
  /\ file = "absent"
  /\ verdict = "Pending"
  /\ status = [s \in Steps |-> "Pending"]
  /\ pc = "idle"
  /\ wave = {}
  /\ outcome = NoOutcome
  /\ launches = [s \in Steps |-> 0]
  /\ lost = 0

(* `let _ = save_workflow_run(..)` of the run with these fields.           *)
Save(v, st) ==
  \/ /\ file' = file
     /\ verdict' = v
     /\ status' = st
     /\ lost' = lost
  \/ /\ lost < MaxLostSaves
     /\ lost' = lost + 1
     /\ file' \in {file, "garbled"}
     /\ UNCHANGED <<verdict, status>>

(* create_workflow_run: every step Pending.  Its save is checked (`?`), so *)
(* a run whose first save fails is answered with 500 and never starts.     *)
CreateRun ==
  /\ pc = "idle"
  /\ file' = "ok"
  /\ pc' = "created"
  /\ UNCHANGED <<def, verdict, status, wave, outcome, launches, lost>>

(* handle_workflows_run: status becomes Running, the engine is spawned.    *)
AdmitRun ==
  /\ pc = "created"
  /\ Save("Running", status)
  /\ pc' = "load"
  /\ UNCHANGED <<def, wave, outcome, launches>>

(* Mutant of LoadRun: only Completed and Failed count as terminal.         *)
LoadRun_SkippedPending ==
  /\ pc = "load"
  /\ pc' = IF file # "ok" THEN "done"
           ELSE IF Ready(status) # {} THEN "mark"
           ELSE IF \A s \in Steps : status[s] \in {"Completed", "Failed"} THEN "finalize"
           ELSE "sleep"
  /\ UNCHANGED <<def, file, verdict, status, wave, outcome, launches, lost>>

(* The head of the loop: reload, and leave if the file is unreadable.      *)
LoadRun ==
  /\ pc = "load"
  /\ pc' = IF file # "ok" THEN "done"
           ELSE IF Ready(status) # {} THEN "mark"
           ELSE IF \A s \in Steps : status[s] \in Terminal THEN "finalize"
           ELSE "sleep"
  /\ UNCHANGED <<def, file, verdict, status, wave, outcome, launches, lost>>

(* Nothing ready and not all terminal: sleep(2 s), then `continue`.        *)
WakeUp ==
  /\ pc = "sleep"
  /\ pc' = "load"
  /\ UNCHANGED <<def, file, verdict, status, wave, outcome, launches, lost>>

(* Mutant of MarkWave: the wave is launched without being marked.          *)
MarkWave_Unmarked ==
  /\ pc = "mark"
  /\ wave' = Ready(status)
  /\ Save(verdict, status)
  /\ outcome' = NoOutcome
  /\ pc' = "launch"
  /\ UNCHANGED <<def, launches>>

(* Mark the wave Running and save.                                         *)
MarkWave ==
  /\ pc = "mark"
  /\ LET ready == Ready(status)
     IN  /\ wave' = ready
         /\ Save(verdict,
                 [s \in Steps |-> IF s \in ready THEN "Running" ELSE status[s]])
  /\ outcome' = NoOutcome
  /\ pc' = "launch"
  /\ UNCHANGED <<def, launches>>

(* One future of the wave: look the agent up and start its process.        *)
Launch(s) ==
  /\ pc = "launch"
  /\ s \in wave
  /\ outcome[s] = "none"
  /\ \/ /\ outcome' = [outcome EXCEPT ![s] = "started"]
        /\ launches' = [launches EXCEPT ![s] = @ + 1]
     \/ /\ outcome' = [outcome EXCEPT ![s] = "error"]
        /\ UNCHANGED launches
  /\ UNCHANGED <<def, file, verdict, status, pc, wave, lost>>

(* join_all returns once every future of the wave has.                     *)
JoinAll ==
  /\ pc = "launch"
  /\ \A s \in wave : outcome[s] # "none"
  /\ pc' = "record"
  /\ UNCHANGED <<def, file, verdict, status, wave, outcome, launches, lost>>

(* Mutant of Resolved: the future's result is stored as it came.           *)
Resolved_Raw(s) == IF outcome[s] = "started" THEN "Completed" ELSE outcome[s]

(* The status of a step of the wave once its future has returned.          *)
Resolved(s) ==
  IF outcome[s] = "started" THEN "Completed"
  ELSE IF s \in def.optional THEN "Skipped" ELSE "Failed"

(* Reload the run, write the results of the wave into it, save.            *)
RecordWave ==
  /\ pc = "record"
  /\ IF file = "ok"
     THEN /\ Save(verdict,
                  [s \in Steps |-> IF s \in wave THEN Resolved(s) ELSE status[s]])
          /\ pc' = "load"
     ELSE /\ pc' = "done"
          /\ UNCHANGED <<file, verdict, status, lost>>
  /\ UNCHANGED <<def, wave, outcome, launches>>

(* Mutant of Finalize: an optional step excuses the failure of the others. *)
Finalize_Lenient ==
  /\ pc = "finalize"
  /\ LET failed == {s \in Steps : status[s] = "Failed"}
     IN  Save(IF failed # {} /\ def.optional = {} THEN "Failed" ELSE "Completed", status)
  /\ pc' = "done"
  /\ UNCHANGED <<def, wave, outcome, launches>>

(* After the loop: reload, and write the run's final status.               *)
Finalize ==
  /\ pc = "finalize"
  /\ LET nonOptFailed == \E s \in Steps \ def.optional : status[s] = "Failed"
     IN  Save(IF nonOptFailed THEN "Failed" ELSE "Completed", status)
  /\ pc' = "done"
  /\ UNCHANGED <<def, wave, outcome, launches>>

(* The node dies.  A write in progress leaves a garbled file; at restart   *)
(* startup_recovery looks at instances only, so the engine task is gone.   *)
Crash ==
  /\ MayCrash
  /\ pc \notin {"idle", "done", "dead"}
  /\ pc' = "dead"
  /\ IF pc \in {"created", "mark", "record", "finalize"}
     THEN file' \in {file, "garbled"}
     ELSE file' = file
  /\ UNCHANGED <<def, verdict, status, wave, outcome, launches, lost>>

Next ==
  \/ CreateRun
  \/ AdmitRun
  \/ LoadRun
  \/ WakeUp
  \/ MarkWave
  \/ \E s \in Steps : Launch(s)
  \/ JoinAll
  \/ RecordWave
  \/ Finalize
  \/ Crash

(* tokio runs a spawned task as long as it can make a step; only the crash *)
(* and the client's request are not due.                                   *)
Engine ==
  \/ AdmitRun
  \/ LoadRun
  \/ WakeUp
  \/ MarkWave
  \/ \E s \in Steps : Launch(s)
  \/ JoinAll
  \/ RecordWave
  \/ Finalize

Spec == Init /\ [][Next]_vars /\ WF_vars(Engine)

-----------------------------------------------------------------------------
(* Type invariant of the run file, the engine task and the histories.      *)
TypeOK ==
  /\ def \in Definitions
  /\ file \in {"absent", "ok", "garbled"}
  /\ verdict \in WorkflowStatus
  /\ status \in [Steps -> StepStatus]
  /\ pc \in Location
  /\ wave \in SUBSET Steps
  /\ outcome \in [Steps -> Outcome]
  /\ launches \in [Steps -> Nat]
  /\ lost \in 0..MaxLostSaves

(* No process is ever started for a step before each of its dependencies   *)
(* has itself been started, or was optional and given up: this holds of    *)
(* the processes, not only of the file, whatever saves are lost            *)
(* (ready_steps_with_def).  An unknown dependency blocks its step forever. *)
DepsBeforeLaunch ==
  \A s \in Steps : launches[s] > 0 =>
    \A d \in def.deps[s] : d \in Steps /\ (launches[d] > 0 \/ d \in def.optional)

(* A step's process is started again only when both saves around its wave  *)
(* (the one that marks it Running and the one that records its result)     *)
(* were lost: n lost saves buy at most n/2 repeated starts                 *)
(* (run_workflow_parallel ignores save errors).                            *)
RelaunchBudget == \A s \in Steps : 2 * launches[s] <= lost + 2

(* The final status a client reads is true of what happened: Completed     *)
(* means every mandatory step was started, Failed that a mandatory step    *)
(* failed, and either that no step is still in flight (the finalisation of *)
(* run_workflow_parallel).                                                 *)
VerdictSound ==
  verdict \in {"Completed", "Failed"} =>
    /\ \A s \in Steps : status[s] \in Terminal
    /\ pc = "done"
    /\ verdict = "Completed" =>
          \A s \in Steps \ def.optional : status[s] = "Completed" /\ launches[s] > 0
    /\ verdict = "Failed" => \E s \in Steps \ def.optional : status[s] = "Failed"

(* The dependencies can be satisfied in some order, i.e. no cycle and no   *)
(* unknown step: every nonempty set of steps has one that depends on none  *)
(* of them.                                                                *)
Acyclic ==
  /\ \A s \in Steps : def.deps[s] \subseteq Steps
  /\ \A S \in SUBSET Steps \ {{}} : \E s \in S : def.deps[s] \cap S = {}

Verdict == file = "ok" /\ verdict \in {"Completed", "Failed"}

Crashed == pc = "dead"
MandatoryFailure == \E s \in Steps : status[s] = "Failed"
Trouble == Crashed \/ lost > 0 \/ MandatoryFailure \/ ~Acyclic

(* A run of a well-formed workflow reaches its verdict unless the node     *)
(* crashes, a save is lost or a mandatory step fails: the loop of          *)
(* run_workflow_parallel does not spin for ever.                           *)
Finishes == (pc = "created") ~> (Verdict \/ Trouble)

(* report.md:167, "Non-optional step failure -> Failed (workflow           *)
(* terminates)".  The engine instead keeps waiting for the steps that      *)
(* depend on the failed one.                                               *)
FailureTerminates == MandatoryFailure ~> (verdict = "Failed" \/ Crashed \/ lost > 0)

View == INSTANCE WorkflowView

(* The run file obeys the contract with the clients that poll it.          *)
ViewSpec == View!Spec

=============================================================================
