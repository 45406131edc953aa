------------------------ MODULE WorkflowEngineProofs ------------------------
(***************************************************************************)
(* For every set of steps, every set of definitions (cyclic ones           *)
(* included), any number of lost saves and a crash at any point: the       *)
(* safety properties of WorkflowEngine, and that it implements the         *)
(* contract of WorkflowView.                                               *)
(***************************************************************************)
EXTENDS WorkflowEngine, TLAPS

(* The steps whose dependencies are all satisfied in st.                   *)
DepsMet(st, s) == \A d \in def.deps[s] : d \in Steps /\ st[d] \in Satisfied

(* What the file may say of a step, given what has happened to it.         *)
FileInv ==
  \A s \in Steps :
    /\ status[s] # "Pending" => DepsMet(status, s)
    /\ launches[s] > 0 => DepsMet(status, s)
    /\ status[s] = "Completed" => launches[s] > 0
    /\ status[s] = "Skipped" => s \in def.optional
    /\ status[s] = "Failed" => s \notin def.optional

(* The wave in flight: its steps may run, and are not yet recorded.        *)
WaveInv ==
  pc \in {"launch", "record"} => \A s \in wave :
    /\ DepsMet(status, s)
    /\ status[s] \in {"Pending", "Running"}
    /\ outcome[s] = "started" => launches[s] > 0
    /\ pc = "record" => outcome[s] # "none"

(* How many lost saves each repeated start has cost.                       *)
Unlaunched(s) == 2 * launches[s] <= lost

BudgetInv ==
  \A s \in Steps :
    /\ 2 * launches[s] <= lost + 2
    /\ status[s] = "Pending" /\ file # "garbled" /\ pc # "dead" =>
         \/ Unlaunched(s)
         \/ pc \in {"launch", "record"} /\ s \in wave /\ 2 * launches[s] <= lost + 1
    /\ pc = "mark" /\ s \in Ready(status) => Unlaunched(s)
    /\ pc \in {"launch", "record"} /\ s \in wave =>
         /\ outcome[s] = "none" => Unlaunched(s)
         /\ outcome[s] = "none" /\ status[s] = "Pending" => 2 * launches[s] + 1 <= lost

FinalInv ==
  /\ pc = "finalize" => \A s \in Steps : status[s] \in Terminal
  /\ pc \in {"created", "mark", "finalize", "sleep"} => file = "ok"
  /\ pc \in {"idle", "created"} => verdict = "Pending"
  /\ file = "absent" <=> pc = "idle"
  /\ VerdictSound

IInv == TypeOK /\ FileInv /\ WaveInv /\ BudgetInv /\ FinalInv

-----------------------------------------------------------------------------
(* A save either writes the new fields or loses them; in both cases the    *)
(* file's fields stay in their types.                                      *)
LEMMA SaveTyped ==
  ASSUME TypeOK, NEW v \in WorkflowStatus, NEW st \in [Steps -> StepStatus],
         Save(v, st), file # "absent"
  PROVE  /\ file' \in {"absent", "ok", "garbled"}
         /\ verdict' \in WorkflowStatus
         /\ status' \in [Steps -> StepStatus]
         /\ lost' \in 0..MaxLostSaves
BY WorkflowAssumption DEF TypeOK, Save

(* What a step becomes when its future has returned.                       *)
LEMMA ResolvedTyped ==
  ASSUME NEW s \in Steps
  PROVE  Resolved(s) \in Terminal
BY DEF Resolved, Terminal

(* Every state of a run is well typed: TypeOK of WorkflowEngine, for every *)
(* set of steps and definitions.                                           *)
THEOREM TypeCorrect == Spec => []TypeOK
<1>1. Init => TypeOK
  BY WorkflowAssumption
  DEF Init, TypeOK, WorkflowStatus, StepStatus, Location, Outcome, NoOutcome
<1>2. TypeOK /\ [Next]_vars => TypeOK'
  <2> SUFFICES ASSUME TypeOK, [Next]_vars PROVE TypeOK'
    OBVIOUS
  <2> USE WorkflowAssumption DEF TypeOK
  <2>1. CASE CreateRun
    BY <2>1 DEF CreateRun, Location
  <2>2. CASE AdmitRun
    BY <2>2 DEF AdmitRun, Location, Save, WorkflowStatus
  <2>3. CASE LoadRun
    BY <2>3 DEF LoadRun, Location
  <2>4. CASE WakeUp
    BY <2>4 DEF WakeUp, Location
  <2>5. CASE MarkWave
    <3>1. [s \in Steps |-> IF s \in Ready(status) THEN "Running" ELSE status[s]]
            \in [Steps -> StepStatus]
      BY DEF StepStatus
    <3>2. Ready(status) \subseteq Steps
      BY DEF Ready
    <3> QED
      BY <2>5, <3>1, <3>2 DEF MarkWave, Save, Location, NoOutcome, Outcome
  <2>6. ASSUME NEW s \in Steps, Launch(s) PROVE TypeOK'
    BY <2>6 DEF Launch, Outcome, Location
  <2>7. CASE JoinAll
    BY <2>7 DEF JoinAll, Location
  <2>8. CASE RecordWave
    <3>1. [s \in Steps |-> IF s \in wave THEN Resolved(s) ELSE status[s]]
            \in [Steps -> StepStatus]
      BY ResolvedTyped DEF StepStatus, Terminal
    <3> QED
      BY <2>8, <3>1 DEF RecordWave, Save, Location
  <2>9. CASE Finalize
    BY <2>9 DEF Finalize, Save, Location, WorkflowStatus
  <2>10. CASE Crash
    BY <2>10 DEF Crash, Location
  <2>11. CASE UNCHANGED vars
    BY <2>11 DEF vars
  <2> QED
    BY <2>1, <2>2, <2>3, <2>4, <2>5, <2>6, <2>7, <2>8, <2>9, <2>10, <2>11 DEF Next
<1> QED
  BY <1>1, <1>2, PTL DEF Spec

-----------------------------------------------------------------------------
(* The strengthening: RelaunchBudget and VerdictSound are not inductive,   *)
(* because whether a step may be started again depends on what the file    *)
(* says of it and on how far its wave has come.                            *)
LEMMA InitIInv == Init => IInv
<1> SUFFICES ASSUME Init PROVE IInv
  OBVIOUS
<1>1. TypeOK
  BY WorkflowAssumption
  DEF Init, TypeOK, WorkflowStatus, StepStatus, Location, Outcome, NoOutcome
<1> QED
  BY <1>1, WorkflowAssumption
  DEF Init, IInv, FileInv, WaveInv, BudgetInv, Unlaunched, FinalInv, VerdictSound

LEMMA NextIInv == IInv /\ TypeOK' /\ [Next]_vars => IInv'
<1> SUFFICES ASSUME IInv, TypeOK', [Next]_vars PROVE IInv'
  OBVIOUS
<1> USE WorkflowAssumption DEF IInv, TypeOK
<1>1. CASE CreateRun
  <2>1. FileInv'
    BY <1>1 DEF CreateRun, FileInv, DepsMet, Satisfied
  <2>2. WaveInv'
    BY <1>1 DEF CreateRun, WaveInv, DepsMet, Satisfied
  <2>3. BudgetInv'
    BY <1>1 DEF CreateRun, FinalInv, BudgetInv, Unlaunched, Ready, Satisfied
  <2>4. FinalInv'
    BY <1>1 DEF CreateRun, FinalInv, VerdictSound, Terminal
  <2> QED
    BY <2>1, <2>2, <2>3, <2>4
<1>2. CASE AdmitRun
  <2>1. FileInv'
    BY <1>2 DEF AdmitRun, Save, FileInv, DepsMet, Satisfied
  <2>2. WaveInv'
    BY <1>2 DEF AdmitRun, Save, WaveInv, DepsMet, Satisfied
  <2>3. BudgetInv'
    BY <1>2 DEF AdmitRun, Save, BudgetInv, Unlaunched, Ready, Satisfied
  <2>4. FinalInv'
    BY <1>2 DEF AdmitRun, Save, FinalInv, VerdictSound, Terminal
  <2> QED
    BY <2>1, <2>2, <2>3, <2>4
<1>3. CASE LoadRun
  <2>1. FileInv'
    BY <1>3 DEF LoadRun, Ready, FileInv, DepsMet, Satisfied
  <2>2. WaveInv'
    BY <1>3 DEF LoadRun, Ready, WaveInv, DepsMet, Satisfied
  <2>3. BudgetInv'
    BY <1>3 DEF LoadRun, Ready, BudgetInv, Unlaunched, Satisfied
  <2>4. FinalInv'
    BY <1>3 DEF LoadRun, Ready, FinalInv, VerdictSound, Terminal
  <2> QED
    BY <2>1, <2>2, <2>3, <2>4
<1>4. CASE WakeUp
  <2>1. FileInv'
    BY <1>4 DEF WakeUp, FileInv, DepsMet, Satisfied
  <2>2. WaveInv'
    BY <1>4 DEF WakeUp, WaveInv, DepsMet, Satisfied
  <2>3. BudgetInv'
    BY <1>4 DEF WakeUp, BudgetInv, Unlaunched, Ready, Satisfied
  <2>4. FinalInv'
    BY <1>4 DEF WakeUp, FinalInv, VerdictSound, Terminal
  <2> QED
    BY <2>1, <2>2, <2>3, <2>4
<1>5. CASE MarkWave
  <2>1. FileInv'
    BY <1>5 DEF MarkWave, Save, Ready, NoOutcome, FileInv, DepsMet, Satisfied
  <2>2. WaveInv'
    BY <1>5 DEF MarkWave, Save, Ready, NoOutcome, WaveInv, DepsMet, Satisfied
  <2>3. BudgetInv'
    BY <1>5 DEF MarkWave, Save, Ready, NoOutcome, BudgetInv, Unlaunched, Satisfied
  <2>4. FinalInv'
    BY <1>5 DEF MarkWave, Save, Ready, NoOutcome, FinalInv, VerdictSound, Terminal
  <2> QED
    BY <2>1, <2>2, <2>3, <2>4
<1>6. ASSUME NEW s \in Steps, Launch(s) PROVE IInv'
  <2>1. FileInv'
    BY <1>6 DEF Launch, WaveInv, FileInv, DepsMet, Satisfied
  <2>2. WaveInv'
    BY <1>6 DEF Launch, WaveInv, DepsMet, Satisfied
  <2>3. BudgetInv'
    BY <1>6 DEF Launch, BudgetInv, Unlaunched, Ready, Satisfied
  <2>4. FinalInv'
    BY <1>6 DEF Launch, FinalInv, VerdictSound, Terminal
  <2> QED
    BY <2>1, <2>2, <2>3, <2>4
<1>7. CASE JoinAll
  <2>1. FileInv'
    BY <1>7 DEF JoinAll, FileInv, DepsMet, Satisfied
  <2>2. WaveInv'
    BY <1>7 DEF JoinAll, WaveInv, DepsMet, Satisfied
  <2>3. BudgetInv'
    BY <1>7 DEF JoinAll, BudgetInv, Unlaunched, Ready, Satisfied
  <2>4. FinalInv'
    BY <1>7 DEF JoinAll, FinalInv, VerdictSound, Terminal
  <2> QED
    BY <2>1, <2>2, <2>3, <2>4
<1>8. CASE RecordWave
  <2>1. FileInv'
    BY <1>8 DEF RecordWave, Save, Resolved, WaveInv, FileInv, DepsMet, Satisfied
  <2>2. WaveInv'
    BY <1>8 DEF RecordWave, Save, Resolved, WaveInv, FileInv, DepsMet, Satisfied
  <2>3. BudgetInv'
    BY <1>8 DEF RecordWave, Save, Resolved, FinalInv, BudgetInv, Unlaunched, Ready, Satisfied
  <2>4. FinalInv'
    BY <1>8 DEF RecordWave, Save, Resolved, WaveInv, FileInv, FinalInv, VerdictSound, Terminal
  <2> QED
    BY <2>1, <2>2, <2>3, <2>4
<1>9. CASE Finalize
  <2>1. FileInv'
    BY <1>9 DEF Finalize, Save, FileInv, DepsMet, Satisfied
  <2>2. WaveInv'
    BY <1>9 DEF Finalize, Save, FileInv, WaveInv, DepsMet, Satisfied
  <2>3. BudgetInv'
    BY <1>9 DEF Finalize, Save, FileInv, BudgetInv, Unlaunched, Ready, Satisfied
  <2>4. FinalInv'
    BY <1>9 DEF Finalize, Save, FileInv, FinalInv, VerdictSound, Terminal
  <2> QED
    BY <2>1, <2>2, <2>3, <2>4
<1>10. CASE Crash
  <2>1. FileInv'
    BY <1>10 DEF Crash, FileInv, DepsMet, Satisfied
  <2>2. WaveInv'
    BY <1>10 DEF Crash, WaveInv, DepsMet, Satisfied
  <2>3. BudgetInv'
    BY <1>10 DEF Crash, BudgetInv, Unlaunched, Ready, Satisfied
  <2>4. FinalInv'
    BY <1>10 DEF Crash, FinalInv, VerdictSound, Terminal
  <2> QED
    BY <2>1, <2>2, <2>3, <2>4
<1>11. CASE UNCHANGED vars
  BY <1>11 DEF vars, FileInv, WaveInv, BudgetInv, FinalInv, DepsMet, Unlaunched,
            Ready, VerdictSound
<1> QED
  BY <1>1, <1>2, <1>3, <1>4, <1>5, <1>6, <1>7, <1>8, <1>9, <1>10, <1>11 DEF Next

(* The strengthened invariant of every behaviour.                          *)
THEOREM Invariant == Spec => []IInv
<1>1. Spec => []TypeOK
  BY TypeCorrect
<1> QED
  BY <1>1, InitIInv, NextIInv, PTL DEF Spec

(* DepsBeforeLaunch of WorkflowEngine: no process before those of the      *)
(* steps its step depends on, whatever saves are lost.                     *)
THEOREM Ordering == Spec => []DepsBeforeLaunch
<1>1. IInv => DepsBeforeLaunch
  BY DEF IInv, FileInv, DepsMet, Satisfied, DepsBeforeLaunch
<1> QED
  BY <1>1, Invariant, PTL

(* RelaunchBudget of WorkflowEngine: n lost saves buy at most n/2 repeated *)
(* starts of a step.                                                       *)
THEOREM Budget == Spec => []RelaunchBudget
<1>1. IInv => RelaunchBudget
  BY DEF IInv, BudgetInv, RelaunchBudget
<1> QED
  BY <1>1, Invariant, PTL

(* VerdictSound of WorkflowEngine: the final status agrees with what       *)
(* happened to the steps.                                                  *)
THEOREM Soundness == Spec => []VerdictSound
<1>1. IInv => VerdictSound
  BY DEF IInv, FinalInv
<1> QED
  BY <1>1, Invariant, PTL

-----------------------------------------------------------------------------
(* Every step of the engine is a step of the client's contract, or is      *)
(* invisible to the client.                                                *)
LEMMA StepRefines == IInv /\ IInv' /\ [Next]_vars => [View!Next]_(View!view)
<1> SUFFICES ASSUME IInv, IInv', [Next]_vars
             PROVE  View!Next \/ UNCHANGED <<def, file, verdict, status>>
  BY DEF View!view
<1> USE DEF IInv, TypeOK
<1>1. CASE CreateRun
  BY <1>1 DEF CreateRun, FinalInv, View!Next, View!Appear
<1>2. CASE AdmitRun
  BY <1>2 DEF AdmitRun, Save, FinalInv, VerdictSound, View!Next, View!Admit,
              View!Vanish
<1>3. CASE LoadRun
  BY <1>3 DEF LoadRun
<1>4. CASE WakeUp
  BY <1>4 DEF WakeUp
<1>5. CASE MarkWave
  <2>1. file = "ok" /\ verdict \in {"Pending", "Running"}
    BY <1>5 DEF MarkWave, FinalInv, VerdictSound, WorkflowStatus
  <2>2. \A s \in Ready(status) : def.deps[s] \subseteq View!Done(status)
    BY DEF Ready, Satisfied, View!Done
  <2> QED
    BY <1>5, <2>1, <2>2 DEF MarkWave, Save, Ready, View!Next, View!Advance,
       View!Forward, View!Vanish
<1>6. ASSUME NEW s \in Steps, Launch(s)
      PROVE  UNCHANGED <<def, file, verdict, status>>
  BY <1>6 DEF Launch
<1>7. CASE JoinAll
  BY <1>7 DEF JoinAll
<1>8. CASE RecordWave
  <2>1. verdict \in {"Pending", "Running"}
    BY <1>8 DEF RecordWave, FinalInv, VerdictSound, WorkflowStatus
  <2>2. \A s \in wave : def.deps[s] \subseteq View!Done(status)
    BY <1>8 DEF RecordWave, WaveInv, DepsMet, Satisfied, View!Done
  <2> QED
    BY <1>8, <2>1, <2>2 DEF RecordWave, Save, WaveInv, Resolved, View!Next,
       View!Advance, View!Forward, View!Vanish
<1>9. CASE Finalize
  <2>1. file = "ok" /\ \A s \in Steps : status[s] \in Terminal
    BY <1>9 DEF Finalize, FinalInv
  <2>2. verdict \in {"Pending", "Running"}
    BY <1>9 DEF Finalize, FinalInv, VerdictSound, WorkflowStatus
  <2> QED
    BY <1>9, <2>1, <2>2 DEF Finalize, Save, FileInv, Terminal, View!Next,
       View!Conclude, View!Done, View!Vanish
<1>10. CASE Crash
  BY <1>10 DEF Crash, FinalInv, View!Next, View!Vanish
<1>11. CASE UNCHANGED vars
  BY <1>11 DEF vars
<1> QED
  BY <1>1, <1>2, <1>3, <1>4, <1>5, <1>6, <1>7, <1>8, <1>9, <1>10, <1>11 DEF Next

(* WorkflowEngine implements WorkflowView: a polling client sees only what *)
(* the contract allows.                                                    *)
THEOREM Refinement == Spec => ViewSpec
<1>1. Init => View!Init
  BY DEF Init, View!Init
<1>2. IInv /\ IInv' /\ [Next]_vars => [View!Next]_(View!view)
  BY StepRefines
<1> QED
  BY <1>1, <1>2, Invariant, PTL DEF Spec, ViewSpec, View!Spec
=============================================================================
