-------------------------- MODULE JobSchedulerProofs -------------------------
(***************************************************************************)
(* For any finite sets of jobs and firing tasks, any schedules, and any    *)
(* number of requests, crashes and failed writes: the types, the logs of   *)
(* the firings, and once-jobs, of JobScheduler.                            *)
(***************************************************************************)
EXTENDS JobScheduler, FiniteSetTheorems, FunctionTheorems, TLAPS

Finite == IsFiniteSet(Jobs) /\ IsFiniteSet(Firers)

LogState == [lines: Nat, tail: Nat, joined: Nat, missed: Nat]
Lists == UNION {[ids -> Job] : ids \in SUBSET Jobs}
TaskState == [pc: Stage, job: Jobs \cup {NoJob}, manual: BOOLEAN, list: Lists]

(* Firers start, mark and log; editors write, and forget a deleted job.    *)
TaskInv ==
  /\ task \in [Tasks -> TaskState]
  /\ \A k \in Tasks :
       /\ task[k].pc = "idle" => task[k] = IdleTask
       /\ task[k].pc # "idle" => task[k].job \in Jobs
       /\ k \in Firers => task[k].pc # "forget"
       /\ k \in Editors => task[k].pc \in {"idle", "write", "forget"}
       /\ task[k].manual => task[k].job \in repeated

DataInv ==
  /\ now \in 0..Horizon /\ jobs \in Lists
  /\ attempts \in [Jobs -> Nat] /\ log \in [Jobs -> LogState]
  /\ raced \in BOOLEAN
  /\ repeated \subseteq Jobs /\ forgotten \subseteq Jobs /\ issued \subseteq Jobs
  /\ requests \in 0..MaxRequests /\ faults \in 0..MaxFaults

TypeInv == TaskInv /\ DataInv

-----------------------------------------------------------------------------
(* A list of jobs, as TypeOK says it.                                      *)
LEMMA ListsTyped ==
  ASSUME NEW list
  PROVE  list \in Lists <=> IsList(list) /\ list = [j \in DOMAIN list |-> list[j]]
  BY DEF Lists, IsList

(* The empty list is a list.                                               *)
LEMMA NoJobsTyped == NoJobs \in Lists /\ DOMAIN NoJobs = {}
  BY DEF NoJobs, Lists

(* An idle task has no job.                                                *)
LEMMA IdleTyped == /\ IdleTask \in TaskState /\ IdleTask.pc = "idle" /\ IdleTask.job = NoJob
                   /\ ~IdleTask.manual /\ NoJob \notin Jobs
  BY NoJobsTyped, SchedulerAssumption DEF IdleTask, TaskState, Stage

(* Whatever a list is loaded for, it is a list.                            *)
LEMMA LoadedTyped ==
  ASSUME NEW k, DataInv, NEW list \in Loaded(k)
  PROVE  list \in Lists /\ (list = jobs \/ (list = NoJobs /\ Overlap(k)))
  BY NoJobsTyped DEF Loaded, DataInv

(* The moment after which a job runs next is one.                          *)
LEMMA NextAfterTyped ==
  ASSUME NEW s \in Schedules, NEW t \in Nat, NEW d \in Nat
  PROVE  NextAfter(s, t, d) \in Nat
  <1>1. s \in Schedule
    BY SchedulerAssumption
  <1>2. CASE s \in [type: {"once"}, at: Nat]
    BY <1>2 DEF NextAfter
  <1>3. CASE s \in [type: {"interval"}, secs: Nat]
    BY <1>3 DEF NextAfter
  <1> QED
    BY <1>1, <1>2, <1>3 DEF Schedule

(* Created and updated jobs are jobs.                                      *)
LEMMA CreatedTyped ==
  ASSUME NEW s \in Schedules, NEW enabled \in BOOLEAN, NEW t \in Nat
  PROVE  Created(s, enabled, t) \in Job
  BY NextAfterTyped DEF Created, Job

LEMMA UpdatedTyped ==
  ASSUME NEW s \in Schedules, NEW enabled \in BOOLEAN, NEW t \in Nat, NEW d \in Nat
  PROVE  Updated(s, enabled, d, t) \in Job
  BY NextAfterTyped DEF Updated, Job

(* A fired job keeps its schedule, and a once-job is disabled.             *)
LEMMA FiredTyped ==
  ASSUME NEW job \in Job, NEW t \in Nat
  PROVE  /\ Fired(job, t) \in Job /\ Fired(job, t).schedule = job.schedule
         /\ job.schedule.type = "once" => ~Fired(job, t).enabled
  <1> DEFINE n == NextAfter(job.schedule, t, t + Day)
             e == job.enabled /\ job.schedule.type # "once"
  <1>1. job.schedule \in Schedules /\ job.enabled \in BOOLEAN
    BY DEF Job
  <1>2. n \in Nat
    <2>1. t + Day \in Nat
      BY SchedulerAssumption
    <2> QED
      BY <1>1, <2>1, NextAfterTyped
  <1>3. e \in BOOLEAN /\ (job.schedule.type = "once" => e = FALSE)
    BY <1>1
  <1>4. Fired(job, t) = [[job EXCEPT !.nextRun = n] EXCEPT !.enabled = e]
    BY Zenon DEF Fired
  <1> HIDE DEF n, e
  <1>5. [job EXCEPT !.nextRun = n] \in Job /\ [job EXCEPT !.nextRun = n].schedule = job.schedule
    BY <1>2 DEF Job
  <1>6. ASSUME NEW r \in Job
        PROVE  /\ [r EXCEPT !.enabled = e] \in Job
               /\ [r EXCEPT !.enabled = e].schedule = r.schedule
               /\ [r EXCEPT !.enabled = e].enabled = e
    BY <1>3 DEF Job
  <1>7. /\ Fired(job, t) \in Job /\ Fired(job, t).schedule = job.schedule
        /\ Fired(job, t).enabled = e
    BY <1>4, <1>5, <1>6
  <1> QED
    BY <1>3, <1>7

(* Lists with one entry replaced, added or dropped.                        *)
LEMMA ListEdits ==
  ASSUME NEW list \in Lists, NEW j \in Jobs, NEW r \in Job
  PROVE  /\ [list EXCEPT ![j] = r] \in Lists
         /\ DOMAIN [list EXCEPT ![j] = r] = DOMAIN list
         /\ \A i \in DOMAIN list : [list EXCEPT ![j] = r][i] = IF i = j THEN r ELSE list[i]
         /\ Restrict(list, DOMAIN list \ {j}) \in Lists
         /\ DOMAIN Restrict(list, DOMAIN list \ {j}) = DOMAIN list \ {j}
         /\ \A i \in DOMAIN list \ {j} : Restrict(list, DOMAIN list \ {j})[i] = list[i]
  <1>1. PICK ids \in SUBSET Jobs : list \in [ids -> Job]
    BY DEF Lists
  <1>2. DOMAIN list = ids
    BY <1>1
  <1>3. [list EXCEPT ![j] = r] \in [ids -> Job]
    BY <1>1
  <1>5. Restrict(list, DOMAIN list \ {j}) \in [ids \ {j} -> Job]
    BY <1>1, <1>2 DEF Restrict
  <1>6. \A i \in DOMAIN list \ {j} : Restrict(list, DOMAIN list \ {j})[i] = list[i]
    BY <1>1, <1>2 DEF Restrict
  <1> QED
    BY <1>1, <1>2, <1>3, <1>5, <1>6 DEF Lists

(* Tasks enough are told apart: the loop gives each due job one.           *)
LEMMA Assigned ==
  ASSUME Finite, NEW due \in SUBSET Jobs, NEW idle \in SUBSET Firers,
         Cardinality(due) <= Cardinality(idle)
  PROVE  (CHOOSE g \in Injection(due, idle) : TRUE) \in Injection(due, idle)
  <1>1. IsFiniteSet(due) /\ IsFiniteSet(idle)
    BY FS_Subset DEF Finite
  <1>2. /\ Cardinality(due) \in Nat /\ ExistsBijection(1..Cardinality(due), due)
        /\ Cardinality(idle) \in Nat /\ ExistsBijection(1..Cardinality(idle), idle)
    BY <1>1, FS_CardinalityType
  <1>3. PICK f \in Bijection(due, 1..Cardinality(due)) : TRUE
    BY <1>2, Fun_ExistsBijSymmetric, Fun_ExistsBij
  <1>4. PICK g \in Bijection(1..Cardinality(idle), idle) : TRUE
    BY <1>2, Fun_ExistsBij
  <1>5. /\ f \in [due -> 1..Cardinality(due)] /\ \A a, b \in due : f[a] = f[b] => a = b
        /\ g \in [1..Cardinality(idle) -> idle]
        /\ \A a, b \in 1..Cardinality(idle) : g[a] = g[b] => a = b
    BY <1>3, <1>4 DEF Bijection, Injection, IsInjective
  <1>6. f \in [due -> 1..Cardinality(idle)]
    BY <1>2, <1>5
  <1>7. [s \in due |-> g[f[s]]] \in Injection(due, idle)
    BY <1>5, <1>6, Fun_IsInj
  <1> QED
    BY <1>7

-----------------------------------------------------------------------------
(* The types at the start.                                                 *)
LEMMA InitTypeInv == ASSUME Init PROVE TypeInv
  <1>1. jobs \in Lists
    <2>1. PICK ids \in SUBSET Jobs : jobs \in [ids -> {Created(s, TRUE, 0) : s \in Schedules}]
      BY DEF Init
    <2>2. \A s \in Schedules : Created(s, TRUE, 0) \in Job
      BY CreatedTyped
    <2>3. jobs \in [ids -> Job]
      BY <2>1, <2>2
    <2> QED
      BY <2>3 DEF Lists
  <1>2. issued \subseteq Jobs
    BY <1>1 DEF Init, Lists
  <1>3. DataInv
    <2>3. NoLog \in LogState
      BY DEF NoLog, LogState
    <2>1. {Horizon, MaxRequests, MaxFaults} \subseteq Nat
      BY SchedulerAssumption
    <2>2. now \in 0..Horizon /\ requests \in 0..MaxRequests /\ faults \in 0..MaxFaults
      BY <2>1 DEF Init
    <2> QED
      BY <1>1, <1>2, <2>2, <2>3 DEF Init, DataInv
  <1>4. TaskInv
    BY IdleTyped DEF Init, TaskInv, Tasks
  <1> QED
    BY <1>3, <1>4 DEF TypeInv

(* What the loop does to the tasks: those that are idle may be given a job *)
(* that was due in the file, each another one.                             *)
Started(k, j) ==
  /\ k \in Firers /\ task[k] = IdleTask
  /\ j \in DOMAIN jobs /\ jobs[j].enabled /\ j \in Jobs
  /\ task'[k] = [pc |-> "start", job |-> j, manual |-> FALSE, list |-> NoJobs]
  /\ InFlight(j) # {} => j \in repeated'

(* The loop starts idle tasks only, one for each due job.                  *)
LEMMA TickTasks ==
  ASSUME Finite, TypeInv, Tick
  PROVE  /\ \A k \in Tasks : task'[k] = task[k] \/ \E j \in Jobs : Started(k, j)
         /\ \A k, m \in Tasks, j \in Jobs : Started(k, j) /\ Started(m, j) => k = m
         /\ DOMAIN task' = Tasks /\ task' = [k \in Tasks |-> task'[k]]
         /\ repeated \subseteq repeated' /\ repeated' \subseteq Jobs
  <1>1. PICK list \in Loaded("loop") :
          LET due == Due(list, now')
              idle == {k \in Firers : task[k].pc = "idle"}
              f == CHOOSE g \in Injection(due, idle) : TRUE
          IN  /\ Cardinality(due) <= Cardinality(idle)
              /\ task' = [k \in Tasks |->
                   IF \E j \in due : f[j] = k
                   THEN [IdleTask EXCEPT !.pc = "start", !.job = CHOOSE j \in due : f[j] = k]
                   ELSE task[k]]
              /\ repeated' = repeated \cup {j \in due : InFlight(j) # {}}
    BY DEF Tick
  <1> DEFINE due == Due(list, now')
             idle == {k \in Firers : task[k].pc = "idle"}
             f == CHOOSE g \in Injection(due, idle) : TRUE
  <1>2. /\ Cardinality(due) <= Cardinality(idle)
        /\ task' = [k \in Tasks |->
             IF \E j \in due : f[j] = k
             THEN [IdleTask EXCEPT !.pc = "start", !.job = CHOOSE j \in due : f[j] = k]
             ELSE task[k]]
        /\ repeated' = repeated \cup {j \in due : InFlight(j) # {}}
    BY <1>1
  <1>3. /\ due \subseteq Jobs
        /\ \A j \in due : j \in DOMAIN jobs /\ jobs[j].enabled
    BY LoadedTyped, NoJobsTyped DEF Due, TypeInv, Lists
  <1>4. f \in Injection(due, idle)
    BY <1>2, <1>3, Assigned
  <1>5. f \in [due -> idle] /\ \A a, b \in due : f[a] = f[b] => a = b
    BY <1>4 DEF Injection, IsInjective
  <1> HIDE DEF f, due
  <1>6. ASSUME NEW k \in Tasks, NEW j \in due, f[j] = k
        PROVE  Started(k, j)
    <2>1. (CHOOSE i \in due : f[i] = k) = j
      BY <1>5, <1>6
    <2>2. k \in Firers /\ task[k] = IdleTask
      BY <1>5, <1>6 DEF TypeInv, TaskInv, Tasks
    <2>3. task'[k] = [IdleTask EXCEPT !.pc = "start", !.job = j]
      BY <1>2, <1>6, <2>1
    <2>4. task'[k] = [pc |-> "start", job |-> j, manual |-> FALSE, list |-> NoJobs]
      BY <2>3 DEF IdleTask
    <2> QED
      BY <1>2, <1>3, <2>2, <2>4 DEF Started
  <1>7. ASSUME NEW k \in Tasks, ~\E j \in due : f[j] = k
        PROVE  task'[k] = task[k]
    BY <1>2, <1>7
  <1>8. ASSUME NEW k \in Tasks, NEW j \in Jobs, Started(k, j)
        PROVE  j \in due /\ f[j] = k
    <2>1. task'[k] # task[k]
      BY <1>8 DEF Started, IdleTask
    <2>2. PICK i \in due : f[i] = k
      BY <2>1, <1>7
    <2>3. i = j
      <3>1. Started(k, i)
        BY <1>6, <2>2
      <3>2. task'[k].job = i /\ task'[k].job = j
        BY <3>1, <1>8 DEF Started
      <3> QED
        BY <3>2
    <2> QED
      BY <2>2, <2>3
  <1>9. \A k \in Tasks : task'[k] = task[k] \/ \E j \in Jobs : Started(k, j)
    BY <1>3, <1>6, <1>7
  <1>10. \A k, m \in Tasks, j \in Jobs : Started(k, j) /\ Started(m, j) => k = m
    BY <1>8
  <1> QED
    BY <1>2, <1>3, <1>9, <1>10 DEF TypeInv, DataInv

LEMMA TickTypeInv == ASSUME Finite, TypeInv, Tick PROVE TypeInv'
  <1>1. now' \in 0..Horizon
    <2>1. Horizon \in Nat
      BY SchedulerAssumption
    <2>2. now \in 0..Horizon /\ now' = IF now < Horizon THEN now + 1 ELSE now
      BY DEF Tick, TypeInv, DataInv
    <2> QED
      BY <2>1, <2>2
  <1>2. DataInv'
    BY <1>1, TickTasks DEF Tick, TypeInv, DataInv
  <1>3. ASSUME NEW k \in Tasks, NEW j \in Jobs, Started(k, j)
        PROVE  /\ task'[k] \in TaskState /\ task'[k].pc = "start" /\ task'[k].job \in Jobs
               /\ k \in Firers /\ k \notin Editors /\ ~task'[k].manual
    BY <1>3, NoJobsTyped, SchedulerAssumption DEF Started, TaskState, Stage
  <1>4. task' \in [Tasks -> TaskState]
    BY <1>3, TickTasks DEF TypeInv, TaskInv
  <1>5. TaskInv'
    <2> SUFFICES ASSUME NEW k \in Tasks
                 PROVE  /\ task'[k].pc = "idle" => task'[k] = IdleTask
                        /\ task'[k].pc # "idle" => task'[k].job \in Jobs
                        /\ k \in Firers => task'[k].pc # "forget"
                        /\ k \in Editors => task'[k].pc \in {"idle", "write", "forget"}
                        /\ task'[k].manual => task'[k].job \in repeated'
      BY <1>4 DEF TaskInv
    <2>1. CASE task'[k] = task[k]
      BY <2>1, TickTasks DEF TypeInv, TaskInv
    <2>2. CASE \E j \in Jobs : Started(k, j)
      BY <2>2, <1>3
    <2> QED
      BY <2>1, <2>2, TickTasks
  <1> QED
    BY <1>2, <1>5 DEF TypeInv

(* A task with one field changed.                                          *)
LEMMA TaskEdits ==
  ASSUME NEW r \in TaskState
  PROVE  /\ \A pc \in Stage :
              /\ [r EXCEPT !.pc = pc] = [pc |-> pc, job |-> r.job, manual |-> r.manual, list |-> r.list]
              /\ [r EXCEPT !.pc = pc] \in TaskState
         /\ \A j \in Jobs :
              /\ [r EXCEPT !.job = j] = [pc |-> r.pc, job |-> j, manual |-> r.manual, list |-> r.list]
              /\ [r EXCEPT !.job = j] \in TaskState
         /\ \A list \in Lists :
              /\ [r EXCEPT !.list = list] = [pc |-> r.pc, job |-> r.job, manual |-> r.manual, list |-> list]
              /\ [r EXCEPT !.list = list] \in TaskState
         /\ [r EXCEPT !.manual = TRUE] = [pc |-> r.pc, job |-> r.job, manual |-> TRUE, list |-> r.list]
  <1>1. ASSUME NEW pc \in Stage
        PROVE  /\ [r EXCEPT !.pc = pc] = [pc |-> pc, job |-> r.job, manual |-> r.manual, list |-> r.list]
               /\ [r EXCEPT !.pc = pc] \in TaskState
    BY DEF TaskState
  <1>2. ASSUME NEW j \in Jobs
        PROVE  /\ [r EXCEPT !.job = j] = [pc |-> r.pc, job |-> j, manual |-> r.manual, list |-> r.list]
               /\ [r EXCEPT !.job = j] \in TaskState
    BY DEF TaskState
  <1>3. ASSUME NEW list \in Lists
        PROVE  /\ [r EXCEPT !.list = list] = [pc |-> r.pc, job |-> r.job, manual |-> r.manual, list |-> list]
               /\ [r EXCEPT !.list = list] \in TaskState
    BY DEF TaskState
  <1>4. [r EXCEPT !.manual = TRUE] = [pc |-> r.pc, job |-> r.job, manual |-> TRUE, list |-> r.list]
    <2>1. \A b \in BOOLEAN :
            [r EXCEPT !.manual = b] = [pc |-> r.pc, job |-> r.job, manual |-> b, list |-> r.list]
      BY DEF TaskState
    <2> QED
      BY <2>1
  <1> QED
    BY <1>1, <1>2, <1>3, <1>4

(* A step of one task.                                                     *)
LEMMA OneTask ==
  ASSUME TaskInv, NEW k \in Tasks, NEW r \in TaskState, task' = [task EXCEPT ![k] = r],
         repeated \subseteq repeated',
         r.pc = "idle" => r = IdleTask,
         r.pc # "idle" => r.job \in Jobs,
         k \in Firers => r.pc # "forget",
         k \in Editors => r.pc \in {"idle", "write", "forget"},
         r.manual => r.job \in repeated'
  PROVE  /\ TaskInv' /\ task'[k] = r /\ \A m \in Tasks \ {k} : task'[m] = task[m]
  <1>1. task' \in [Tasks -> TaskState]
    BY DEF TaskInv
  <1>2. task'[k] = r /\ \A m \in Tasks \ {k} : task'[m] = task[m]
    BY DEF TaskInv
  <1>3. ASSUME NEW m \in Tasks
        PROVE  /\ task'[m].pc = "idle" => task'[m] = IdleTask
               /\ task'[m].pc # "idle" => task'[m].job \in Jobs
               /\ m \in Firers => task'[m].pc # "forget"
               /\ m \in Editors => task'[m].pc \in {"idle", "write", "forget"}
               /\ task'[m].manual => task'[m].job \in repeated'
    <2>1. CASE m = k
      BY <2>1, <1>2
    <2>2. CASE m # k
      BY <2>2, <1>2 DEF TaskInv
    <2> QED
      BY <2>1, <2>2
  <1> QED
    BY <1>1, <1>2, <1>3 DEF TaskInv

(* The task k becomes r, and no other changes.                             *)
Becomes(k, r) == /\ r \in TaskState /\ task'[k] = r
                 /\ \A m \in Tasks \ {k} : task'[m] = task[m]

Writing(k, j, list) == [pc |-> "write", job |-> j, manual |-> task[k].manual, list |-> list]
Staged(k, pc) == [pc |-> pc, job |-> task[k].job, manual |-> task[k].manual, list |-> task[k].list]

(* A task that has loaded the list goes on to write it.                    *)
LEMMA BeginTask ==
  ASSUME TaskInv, DataInv, NEW k \in Tasks, NEW j \in Jobs, NEW list \in Lists, Begin(k, j, list),
         repeated \subseteq repeated', task[k].manual => j \in repeated',
         task[k].pc # "forget"
  PROVE  /\ TaskInv' /\ Becomes(k, Writing(k, j, list))
         /\ raced' \in BOOLEAN /\ (~raced' => ~raced /\ ~Overlap(k))
  <1>1. task[k] \in TaskState
    BY DEF TaskInv
  <1>2. Writing(k, j, list) \in TaskState
    BY <1>1 DEF TaskState, Stage, Writing
  <1>3. [task[k] EXCEPT !.pc = "write", !.job = j, !.list = list] = Writing(k, j, list)
    <2>1. [task[k] EXCEPT !.pc = "write", !.job = j, !.list = list]
            = [[[task[k] EXCEPT !.pc = "write"] EXCEPT !.job = j] EXCEPT !.list = list]
      BY Zenon
    <2> DEFINE r1 == [task[k] EXCEPT !.pc = "write"]
               r2 == [r1 EXCEPT !.job = j]
               r3 == [r2 EXCEPT !.list = list]
    <2>2. /\ r1 = [pc |-> "write", job |-> task[k].job, manual |-> task[k].manual, list |-> task[k].list]
          /\ r1 \in TaskState
      BY <1>1, TaskEdits DEF Stage
    <2> HIDE DEF r1
    <2>3. r2 = [pc |-> "write", job |-> j, manual |-> task[k].manual, list |-> task[k].list]
          /\ r2 \in TaskState
      BY <2>2, TaskEdits
    <2> HIDE DEF r2
    <2>4. r3 = Writing(k, j, list)
      BY <2>3, TaskEdits DEF Writing
    <2> QED
      BY <2>1, <2>4 DEF r1, r2
  <1>4. task' = [task EXCEPT ![k] = Writing(k, j, list)]
    BY <1>3 DEF Begin
  <1>5. Writing(k, j, list).pc = "write" /\ Writing(k, j, list).job = j
        /\ Writing(k, j, list).manual = task[k].manual
    BY DEF Writing
  <1>6. TaskInv' /\ Becomes(k, Writing(k, j, list))
    BY <1>2, <1>4, <1>5, OneTask DEF Becomes
  <1>7. raced' = (raced \/ Overlap(k))
    BY DEF Begin
  <1>8. raced \in BOOLEAN /\ Overlap(k) \in BOOLEAN
    BY DEF DataInv, Overlap
  <1> QED
    BY <1>6, <1>7, <1>8

(* A task goes on to another stage.                                        *)
LEMMA StagedTask ==
  ASSUME TaskInv, NEW k \in Tasks, NEW pc \in Stage \ {"idle"}, task' = [task EXCEPT ![k].pc = pc],
         task[k].pc # "idle", repeated \subseteq repeated',
         k \in Firers => pc # "forget",
         k \in Editors => pc \in {"write", "forget"}
  PROVE  TaskInv' /\ Becomes(k, Staged(k, pc))
  <1>1. task[k] \in TaskState
    BY DEF TaskInv
  <1>2. Staged(k, pc) \in TaskState
    BY <1>1 DEF TaskState, Staged
  <1>3. [task[k] EXCEPT !.pc = pc] = Staged(k, pc)
    BY <1>1 DEF TaskState, Staged
  <1>4. task' = [task EXCEPT ![k] = Staged(k, pc)]
    BY <1>3
  <1>5. Staged(k, pc).pc = pc /\ Staged(k, pc).job = task[k].job
        /\ Staged(k, pc).manual = task[k].manual
    BY DEF Staged
  <1>6. /\ task[k].job \in Jobs /\ (task[k].manual => task[k].job \in repeated')
        /\ pc # "idle"
    BY DEF TaskInv
  <1>7. /\ Staged(k, pc).manual => Staged(k, pc).job \in repeated'
        /\ Staged(k, pc).pc # "idle" /\ Staged(k, pc).job \in Jobs
        /\ k \in Firers => Staged(k, pc).pc # "forget"
        /\ k \in Editors => Staged(k, pc).pc \in {"idle", "write", "forget"}
    BY <1>5, <1>6
  <1>8. /\ TaskInv' /\ task'[k] = Staged(k, pc)
        /\ \A m \in Tasks \ {k} : task'[m] = task[m]
    BY <1>2, <1>4, <1>7, OneTask
  <1> QED
    BY <1>2, <1>8 DEF Becomes

(* A task is done.                                                         *)
LEMMA IdledTask ==
  ASSUME TaskInv, NEW k \in Tasks, task' = [task EXCEPT ![k] = IdleTask], repeated \subseteq repeated'
  PROVE  TaskInv' /\ Becomes(k, IdleTask)
  BY IdleTyped, OneTask DEF Becomes

-----------------------------------------------------------------------------
(* What each step of a task does, and that it keeps the types.             *)
LEMMA RunNowEffect ==
  ASSUME TypeInv, NEW k \in Firers, NEW j \in Jobs, RunNow(k, j)
  PROVE  /\ TypeInv' /\ task[k] = IdleTask /\ j \in DOMAIN jobs
         /\ Becomes(k, [pc |-> "start", job |-> j, manual |-> TRUE, list |-> NoJobs])
         /\ repeated' = repeated \cup {j}
  <1> DEFINE r == [pc |-> "start", job |-> j, manual |-> TRUE, list |-> NoJobs]
  <1>1. k \in Tasks /\ k \notin Editors /\ task[k] = IdleTask
    BY SchedulerAssumption DEF RunNow, TypeInv, TaskInv, Tasks
  <1>2. [IdleTask EXCEPT !.pc = "start", !.job = j, !.manual = TRUE] = r
    <2>1. [IdleTask EXCEPT !.pc = "start", !.job = j, !.manual = TRUE]
            = [[[IdleTask EXCEPT !.pc = "start"] EXCEPT !.job = j] EXCEPT !.manual = TRUE]
      BY Zenon
    <2> DEFINE r1 == [IdleTask EXCEPT !.pc = "start"]
               r2 == [r1 EXCEPT !.job = j]
               r3 == [r2 EXCEPT !.manual = TRUE]
    <2>2. /\ r1 = [pc |-> "start", job |-> NoJob, manual |-> FALSE, list |-> NoJobs]
          /\ r1 \in TaskState
      <3>1. "start" \in Stage
        BY DEF Stage
      <3>2. r1 = [pc |-> "start", job |-> IdleTask.job, manual |-> IdleTask.manual, list |-> IdleTask.list]
            /\ r1 \in TaskState
        BY <3>1, IdleTyped, NoJobsTyped, TaskEdits
      <3> QED
        BY <3>2 DEF IdleTask
    <2> HIDE DEF r1
    <2>3. r2 = [pc |-> "start", job |-> j, manual |-> FALSE, list |-> NoJobs]
          /\ r2 \in TaskState
      BY <2>2, TaskEdits
    <2> HIDE DEF r2
    <2>4. r3 = r
      BY <2>3, TaskEdits
    <2> QED
      BY <2>1, <2>4 DEF r1, r2
  <1>3. r \in TaskState
    BY NoJobsTyped DEF TaskState, Stage
  <1>4. task' = [task EXCEPT ![k] = r] /\ repeated' = repeated \cup {j}
    BY <1>2 DEF RunNow
  <1>5. TaskInv' /\ Becomes(k, r)
    BY <1>1, <1>3, <1>4, OneTask DEF Becomes, TypeInv
  <1>6. j \in DOMAIN jobs
    BY LoadedTyped, NoJobsTyped DEF RunNow, TypeInv
  <1>7. requests' \in 0..MaxRequests
    BY SchedulerAssumption DEF RunNow, TypeInv, DataInv
  <1>8. DataInv'
    BY <1>4, <1>7 DEF RunNow, TypeInv, DataInv
  <1> QED
    BY <1>1, <1>4, <1>5, <1>6, <1>8 DEF TypeInv

(* A start returns: its success is counted, a failure is passed over by    *)
(* hand only.                                                              *)
LEMMA StartReturnsEffect ==
  ASSUME TypeInv, NEW k \in Tasks, StartReturns(k)
  PROVE  /\ TypeInv' /\ k \in Firers /\ task[k].pc = "start" /\ task[k].job \in Jobs
         /\ \/ /\ Becomes(k, Staged(k, "load"))
               /\ attempts' = [attempts EXCEPT ![task[k].job] = @ + 1]
            \/ /\ Becomes(k, IdleTask) /\ task[k].job \in repeated
               /\ attempts' = attempts
  <1>1. task[k].pc = "start" /\ k \in Firers /\ k \notin Editors /\ task[k].job \in Jobs
    BY DEF StartReturns, TypeInv, TaskInv, Tasks
  <1>2. repeated' = repeated
    BY DEF StartReturns
  <1>3. CASE /\ task' = [task EXCEPT ![k].pc = "load"]
             /\ attempts' = [attempts EXCEPT ![task[k].job] = @ + 1]
    <2>1. TaskInv' /\ Becomes(k, Staged(k, "load"))
      BY <1>1, <1>2, <1>3, StagedTask DEF TypeInv, Stage
    <2>2. attempts' \in [Jobs -> Nat]
      BY <1>1, <1>3 DEF TypeInv, DataInv
    <2>3. DataInv'
      BY <2>2 DEF StartReturns, TypeInv, DataInv
    <2> QED
      BY <1>1, <1>3, <2>1, <2>3 DEF TypeInv
  <1>4. CASE task[k].manual /\ task' = [task EXCEPT ![k] = IdleTask] /\ attempts' = attempts
    <2>1. TaskInv' /\ Becomes(k, IdleTask)
      BY <1>2, <1>4, IdledTask DEF TypeInv
    <2>2. DataInv'
      BY <1>4 DEF StartReturns, TypeInv, DataInv
    <2>3. task[k].job \in repeated
      BY <1>4 DEF TypeInv, TaskInv
    <2> QED
      BY <1>1, <1>4, <2>1, <2>2, <2>3 DEF TypeInv
  <1> QED
    BY <1>3, <1>4 DEF StartReturns

(* A firing is marked, or only logged if the job is not listed.            *)
LEMMA MarkLoadEffect ==
  ASSUME TypeInv, NEW k \in Tasks, MarkLoad(k)
  PROVE  /\ TypeInv' /\ k \in Firers /\ task[k].pc = "load" /\ task[k].job \in Jobs
         /\ ~raced' => ~raced /\ ~Overlap(k)
         /\ \/ \E list \in Loaded(k) :
                 /\ task[k].job \in DOMAIN list
                 /\ Becomes(k, Writing(k, task[k].job,
                      [list EXCEPT ![task[k].job] = Fired(list[task[k].job], now)]))
            \/ /\ Becomes(k, Staged(k, "log"))
               /\ ~raced' => task[k].job \notin DOMAIN jobs
  <1>1. task[k].pc = "load" /\ k \in Firers /\ k \notin Editors /\ task[k].job \in Jobs
    BY DEF MarkLoad, TypeInv, TaskInv, Tasks
  <1>2. repeated' = repeated /\ (task[k].manual => task[k].job \in repeated')
    BY DEF MarkLoad, TypeInv, TaskInv
  <1> DEFINE j == task[k].job
  <1>3. PICK list \in Loaded(k) :
          IF j \in DOMAIN list
          THEN Begin(k, j, [list EXCEPT ![j] = Fired(list[j], now)])
          ELSE /\ task' = [task EXCEPT ![k].pc = "log"]
               /\ raced' = (raced \/ Overlap(k))
    BY DEF MarkLoad
  <1>4. list \in Lists /\ (list = jobs \/ Overlap(k))
    BY LoadedTyped DEF TypeInv
  <1>5. CASE j \in DOMAIN list
    <2>1. list[j] \in Job /\ now \in Nat
      BY <1>4, <1>5 DEF Lists, TypeInv, DataInv
    <2>2. [list EXCEPT ![j] = Fired(list[j], now)] \in Lists
      BY <1>1, <1>4, <2>1, FiredTyped, ListEdits
    <2>3. /\ TaskInv' /\ Becomes(k, Writing(k, j, [list EXCEPT ![j] = Fired(list[j], now)]))
          /\ raced' \in BOOLEAN /\ (~raced' => ~raced /\ ~Overlap(k))
      BY <1>1, <1>2, <1>3, <1>5, <2>2, BeginTask DEF TypeInv
    <2>4. DataInv'
      BY <2>3 DEF MarkLoad, TypeInv, DataInv
    <2> QED
      BY <1>1, <1>5, <2>3, <2>4 DEF TypeInv
  <1>6. CASE j \notin DOMAIN list
    <2>1. TaskInv' /\ Becomes(k, Staged(k, "log"))
      BY <1>1, <1>2, <1>3, <1>6, StagedTask DEF TypeInv, Stage
    <2>2. raced' \in BOOLEAN /\ (~raced' => ~raced /\ ~Overlap(k))
      BY <1>3, <1>6 DEF TypeInv, DataInv, Overlap
    <2>3. DataInv'
      BY <2>2 DEF MarkLoad, TypeInv, DataInv
    <2>4. ~raced' => j \notin DOMAIN jobs
      BY <1>4, <1>6, <2>2
    <2> QED
      BY <1>1, <2>1, <2>2, <2>3, <2>4 DEF TypeInv
  <1> QED
    BY <1>5, <1>6

(* A log with one field changed.                                           *)
LEMMA FieldEdits ==
  ASSUME NEW l \in LogState, NEW n \in Nat
  PROVE  /\ [l EXCEPT !.lines = n] = [lines |-> n, tail |-> l.tail, joined |-> l.joined, missed |-> l.missed]
         /\ [l EXCEPT !.tail = n] = [lines |-> l.lines, tail |-> n, joined |-> l.joined, missed |-> l.missed]
         /\ [l EXCEPT !.joined = n] = [lines |-> l.lines, tail |-> l.tail, joined |-> n, missed |-> l.missed]
         /\ [l EXCEPT !.missed = n] = [lines |-> l.lines, tail |-> l.tail, joined |-> l.joined, missed |-> n]
         /\ l.lines \in Nat /\ l.tail \in Nat /\ l.joined \in Nat /\ l.missed \in Nat
  BY DEF LogState

(* What is done to a log, and what can be read from it then.               *)
LEMMA LogEdits ==
  ASSUME NEW l \in LogState, NEW n \in Nat
  PROVE  /\ NoLog \in LogState
         /\ WithRecord(l) \in LogState /\ WithRecord(l).lines = l.lines
         /\ WithRecord(l).tail = l.tail + 1 /\ WithRecord(l).missed = l.missed
         /\ WithRecord(l).joined = IF l.tail = 0 THEN l.joined ELSE l.joined + 1
         /\ WithNewline(l) \in LogState /\ WithNewline(l).tail = 0
         /\ WithNewline(l).lines = IF l.tail = 1 THEN l.lines + 1 ELSE l.lines
         /\ WithNewline(l).joined = l.joined /\ WithNewline(l).missed = l.missed
         /\ WithMissed(l, n) \in LogState /\ WithMissed(l, n).lines = l.lines
         /\ WithMissed(l, n).tail = l.tail /\ WithMissed(l, n).joined = l.joined
         /\ WithMissed(l, n).missed = l.missed + n
  <1> DEFINE joined == IF l.tail = 0 THEN l.joined ELSE l.joined + 1
             lines == IF l.tail = 1 THEN l.lines + 1 ELSE l.lines
             tail == l.tail + 1
             missed == l.missed + n
             r1 == [l EXCEPT !.tail = tail]
             n1 == [l EXCEPT !.lines = lines]
  <1>0. l.lines \in Nat /\ l.tail \in Nat /\ l.joined \in Nat /\ l.missed \in Nat
    BY FieldEdits
  <1>1. tail \in Nat /\ missed \in Nat /\ joined \in Nat /\ lines \in Nat
    BY <1>0
  <1>2. WithRecord(l) = [r1 EXCEPT !.joined = joined]
    BY Zenon DEF WithRecord
  <1>3. WithNewline(l) = [n1 EXCEPT !.tail = 0]
    BY Zenon DEF WithNewline
  <1>4. WithMissed(l, n) = [l EXCEPT !.missed = missed]
    BY Zenon DEF WithMissed
  <1> HIDE DEF joined, lines, tail, missed
  <1>5. r1 = [lines |-> l.lines, tail |-> tail, joined |-> l.joined, missed |-> l.missed]
    BY <1>1, FieldEdits
  <1>6. n1 = [lines |-> lines, tail |-> l.tail, joined |-> l.joined, missed |-> l.missed]
    BY <1>1, FieldEdits
  <1>7. WithMissed(l, n) = [lines |-> l.lines, tail |-> l.tail, joined |-> l.joined, missed |-> missed]
    BY <1>1, <1>4, FieldEdits
  <1> HIDE DEF r1, n1
  <1>8. r1 \in LogState /\ n1 \in LogState
    BY <1>0, <1>1, <1>5, <1>6 DEF LogState
  <1>9. WithRecord(l) = [lines |-> r1.lines, tail |-> r1.tail, joined |-> joined, missed |-> r1.missed]
    BY <1>1, <1>2, <1>8, FieldEdits
  <1>10. WithNewline(l) = [lines |-> n1.lines, tail |-> 0, joined |-> n1.joined, missed |-> n1.missed]
    BY <1>3, <1>8, FieldEdits
  <1>11. /\ r1.lines = l.lines /\ r1.tail = tail /\ r1.missed = l.missed
         /\ n1.lines = lines /\ n1.joined = l.joined /\ n1.missed = l.missed
    BY <1>5, <1>6
  <1>12. /\ WithRecord(l) \in LogState /\ WithRecord(l).lines = l.lines
         /\ WithRecord(l).tail = tail /\ WithRecord(l).missed = l.missed
         /\ WithRecord(l).joined = joined
    BY <1>0, <1>1, <1>9, <1>11 DEF LogState
  <1>13. /\ WithNewline(l) \in LogState /\ WithNewline(l).tail = 0 /\ WithNewline(l).lines = lines
         /\ WithNewline(l).joined = l.joined /\ WithNewline(l).missed = l.missed
    BY <1>0, <1>1, <1>10, <1>11 DEF LogState
  <1>14. /\ WithMissed(l, n) \in LogState /\ WithMissed(l, n).lines = l.lines
         /\ WithMissed(l, n).tail = l.tail /\ WithMissed(l, n).joined = l.joined
         /\ WithMissed(l, n).missed = missed
    BY <1>0, <1>1, <1>7 DEF LogState
  <1>15. NoLog \in LogState
    BY DEF NoLog, LogState
  <1> QED
    BY <1>12, <1>13, <1>14, <1>15 DEF joined, lines, tail, missed

(* A firing's record is in the log, and its line to be ended.              *)
LEMMA LogEffect ==
  ASSUME TypeInv, NEW k \in Tasks, Log(k)
  PROVE  /\ TypeInv' /\ k \in Firers /\ task[k].pc = "log" /\ task[k].job \in Jobs
         /\ Becomes(k, Staged(k, "newline"))
  <1>1. task[k].pc = "log" /\ k \in Firers /\ task[k].job \in Jobs
    BY DEF Log, TypeInv, TaskInv, Tasks
  <1>2. TaskInv' /\ Becomes(k, Staged(k, "newline"))
    <2>1. k \notin Editors /\ task' = [task EXCEPT ![k].pc = "newline"] /\ repeated' = repeated
      BY <1>1, SchedulerAssumption DEF Log
    <2> QED
      BY <1>1, <2>1, StagedTask DEF TypeInv, Stage
  <1>3. log' \in [Jobs -> LogState]
    BY <1>1, LogEdits DEF Log, TypeInv, DataInv
  <1>4. DataInv'
    BY <1>3 DEF Log, TypeInv, DataInv
  <1> QED
    BY <1>1, <1>2, <1>4 DEF TypeInv

(* The line is ended, and the task done.                                   *)
LEMMA EndLineEffect ==
  ASSUME TypeInv, NEW k \in Tasks, EndLine(k)
  PROVE  /\ TypeInv' /\ k \in Firers /\ task[k].pc = "newline" /\ task[k].job \in Jobs
         /\ Becomes(k, IdleTask)
  <1>1. task[k].pc = "newline" /\ k \in Firers /\ task[k].job \in Jobs
    BY DEF EndLine, TypeInv, TaskInv, Tasks
  <1>2. TaskInv' /\ Becomes(k, IdleTask)
    BY IdledTask DEF EndLine, TypeInv
  <1>3. log' \in [Jobs -> LogState]
    BY <1>1, LogEdits DEF EndLine, TypeInv, DataInv
  <1>4. DataInv'
    BY <1>3 DEF EndLine, TypeInv, DataInv
  <1> QED
    BY <1>1, <1>2, <1>4 DEF TypeInv

(* The task is done, the record or the end of its line missing.            *)
LEMMA LogFailsEffect ==
  ASSUME TypeInv, NEW k \in Tasks, LogFails(k)
  PROVE  /\ TypeInv' /\ k \in Firers /\ task[k].pc \in {"log", "newline"} /\ task[k].job \in Jobs
         /\ Becomes(k, IdleTask)
  <1>1. task[k].pc \in {"log", "newline"} /\ k \in Firers /\ task[k].job \in Jobs
    BY DEF LogFails, TypeInv, TaskInv, Tasks
  <1>2. TaskInv' /\ Becomes(k, IdleTask)
    BY IdledTask DEF LogFails, TypeInv
  <1>3. log' \in [Jobs -> LogState]
    BY <1>1, LogEdits DEF LogFails, TypeInv, DataInv
  <1>4. faults' \in 0..MaxFaults
    BY SchedulerAssumption DEF LogFails, TypeInv, DataInv
  <1>5. DataInv'
    BY <1>3, <1>4 DEF LogFails, TypeInv, DataInv
  <1> QED
    BY <1>1, <1>2, <1>5 DEF TypeInv

(* The list is not saved, and the task is done.                            *)
LEMMA WriteFailsEffect ==
  ASSUME TypeInv, NEW k \in Tasks, WriteFails(k)
  PROVE  /\ TypeInv' /\ task[k].pc = "write" /\ task[k].job \in Jobs
         /\ Becomes(k, IdleTask) /\ (jobs' = jobs \/ jobs' = NoJobs)
         /\ repeated \subseteq repeated' /\ (k \in Firers => task[k].job \in repeated')
  <1>1. task[k].pc = "write" /\ task[k].job \in Jobs
    BY DEF WriteFails, TypeInv, TaskInv
  <1>2. /\ repeated \subseteq repeated' /\ repeated' \subseteq Jobs
        /\ k \in Firers => task[k].job \in repeated'
    BY <1>1 DEF WriteFails, TypeInv, DataInv
  <1>3. TaskInv' /\ Becomes(k, IdleTask)
    BY <1>2, IdledTask DEF WriteFails, TypeInv
  <1>4. log' \in [Jobs -> LogState]
    <2>1. log \in [Jobs -> LogState] /\ 1 \in Nat
      BY DEF TypeInv, DataInv
    <2>2. CASE log' = log
      BY <2>1, <2>2
    <2>3. CASE log' = [log EXCEPT ![task[k].job] = WithMissed(@, 1)]
      BY <1>1, <2>1, <2>3, LogEdits
    <2> QED
      BY <2>2, <2>3 DEF WriteFails
  <1>5. jobs' \in Lists /\ (jobs' = jobs \/ jobs' = NoJobs)
    BY NoJobsTyped DEF WriteFails, TypeInv, DataInv
  <1>6. faults' \in 0..MaxFaults
    BY SchedulerAssumption DEF WriteFails, TypeInv, DataInv
  <1>7. DataInv'
    BY <1>2, <1>4, <1>5, <1>6 DEF WriteFails, TypeInv, DataInv
  <1> QED
    BY <1>1, <1>2, <1>3, <1>5, <1>7 DEF TypeInv

(* A deleted job loses its log.                                            *)
LEMMA ForgetEffect ==
  ASSUME TypeInv, NEW k \in Tasks, Forget(k)
  PROVE  /\ TypeInv' /\ k \notin Firers /\ task[k].pc = "forget" /\ task[k].job \in Jobs
         /\ Becomes(k, IdleTask)
  <1>1. task[k].pc = "forget" /\ k \notin Firers /\ task[k].job \in Jobs
    BY DEF Forget, TypeInv, TaskInv, Tasks
  <1>2. TaskInv' /\ Becomes(k, IdleTask)
    BY IdledTask DEF Forget, TypeInv
  <1>3. log' \in [Jobs -> LogState] /\ forgotten' \subseteq Jobs
    <2>1. NoLog \in LogState
      BY DEF NoLog, LogState
    <2> QED
      BY <1>1, <2>1 DEF Forget, TypeInv, DataInv
  <1>4. DataInv'
    BY <1>3 DEF Forget, TypeInv, DataInv
  <1> QED
    BY <1>1, <1>2, <1>4 DEF TypeInv

(* The list of a task becomes the file.                                    *)
LEMMA WriteEffect ==
  ASSUME TypeInv, NEW k \in Tasks, Write(k)
  PROVE  /\ TypeInv' /\ task[k].pc = "write" /\ task[k].job \in Jobs
         /\ task[k].list \in Lists /\ jobs' = task[k].list
         /\ k \in Firers => Becomes(k, Staged(k, "log"))
         /\ k \notin Firers => k \in Editors /\ (Becomes(k, Staged(k, "forget")) \/ Becomes(k, IdleTask))
  <1>1. task[k].pc = "write" /\ task[k].job \in Jobs /\ task[k].list \in Lists /\ jobs' = task[k].list
    BY DEF Write, TypeInv, TaskInv, TaskState
  <1>2. repeated' = repeated
    BY DEF Write
  <1>3. DataInv'
    BY <1>1 DEF Write, TypeInv, DataInv
  <1>4. CASE k \in Firers
    <2>1. k \notin Editors /\ task' = [task EXCEPT ![k].pc = "log"]
      BY <1>4, SchedulerAssumption DEF Write
    <2>2. TaskInv' /\ Becomes(k, Staged(k, "log"))
      BY <1>1, <1>2, <2>1, StagedTask DEF TypeInv, Stage
    <2> QED
      BY <1>1, <1>3, <1>4, <2>2 DEF TypeInv
  <1>5. CASE k \notin Firers /\ task' = [task EXCEPT ![k].pc = "forget"]
    <2>1. k \in Editors
      BY <1>5 DEF Tasks
    <2>2. TaskInv' /\ Becomes(k, Staged(k, "forget"))
      BY <1>1, <1>2, <1>5, StagedTask DEF TypeInv, Stage
    <2> QED
      BY <1>1, <1>3, <1>5, <2>1, <2>2 DEF TypeInv
  <1>6. CASE k \notin Firers /\ task' = [task EXCEPT ![k] = IdleTask]
    <2>1. k \in Editors
      BY <1>6 DEF Tasks
    <2>2. TaskInv' /\ Becomes(k, IdleTask)
      BY <1>2, <1>6, IdledTask DEF TypeInv
    <2> QED
      BY <1>1, <1>3, <1>6, <2>1, <2>2 DEF TypeInv
  <1> QED
    BY <1>4, <1>5, <1>6 DEF Write

(* A request has loaded a list and changed the entry of job j in it.       *)
Edits(k, j, list) ==
  /\ TypeInv' /\ task[k] = IdleTask /\ list \in Lists
  /\ Becomes(k, Writing(k, j, list))
  /\ jobs' = jobs /\ attempts' = attempts /\ log' = log /\ forgotten' = forgotten
  /\ repeated \subseteq repeated' /\ issued \subseteq issued'
  /\ DOMAIN list \ {j} \subseteq DOMAIN jobs
  /\ ~raced' => /\ ~raced /\ ~Overlap(k)
                /\ \A i \in DOMAIN list \ {j} : i \in DOMAIN jobs /\ list[i] = jobs[i]

(* Whatever a request changes, it changes one job of what it loaded.       *)
LEMMA EditingTask ==
  ASSUME TypeInv, NEW k \in Editors, NEW j \in Jobs, NEW old \in Loaded(k), NEW list \in Lists,
         Edit(k), Begin(k, j, list),
         repeated' \in {repeated, repeated \cup {j}}, issued' \in {issued, issued \cup {j}},
         \A i \in DOMAIN list \ {j} : i \in DOMAIN old /\ list[i] = old[i]
  PROVE  Edits(k, j, list)
  <1>1. k \in Tasks /\ task[k] = IdleTask
    BY DEF Edit, TypeInv, TaskInv, Tasks
  <1>2. ~task[k].manual /\ task[k].pc = "idle"
    BY <1>1, IdleTyped
  <1>3. /\ TaskInv' /\ Becomes(k, Writing(k, j, list))
        /\ raced' \in BOOLEAN /\ (~raced' => ~raced /\ ~Overlap(k))
    BY <1>1, <1>2, BeginTask DEF TypeInv
  <1>4. requests' \in 0..MaxRequests
    BY SchedulerAssumption DEF Edit, TypeInv, DataInv
  <1>5. DataInv'
    BY <1>3, <1>4 DEF Edit, TypeInv, DataInv
  <1>6. (old = jobs \/ Overlap(k)) /\ DOMAIN old \subseteq DOMAIN jobs
    BY LoadedTyped, NoJobsTyped DEF TypeInv
  <1> QED
    BY <1>1, <1>3, <1>5, <1>6 DEF Edits, Edit, TypeInv

(* A job is created with an id that was never issued.                      *)
LEMMA CreateEffect ==
  ASSUME TypeInv, NEW k \in Editors, NEW j \in Jobs, Create(k, j)
  PROVE  /\ \E list \in Lists : Edits(k, j, list)
         /\ j \notin issued /\ issued' = issued \cup {j} /\ repeated' = repeated
  <1>1. PICK old \in Loaded(k), s \in Schedules, enabled \in BOOLEAN :
          Begin(k, j, [i \in DOMAIN old \cup {j} |-> IF i = j THEN Created(s, enabled, now) ELSE old[i]])
    BY DEF Create
  <1> DEFINE list == [i \in DOMAIN old \cup {j} |-> IF i = j THEN Created(s, enabled, now) ELSE old[i]]
  <1>2. /\ Edit(k) /\ j \notin issued /\ issued' = issued \cup {j} /\ repeated' = repeated
    BY DEF Create
  <1>3. now \in Nat
    BY SchedulerAssumption DEF TypeInv, DataInv
  <1>4. list \in Lists
    <2>1. old \in Lists
      BY LoadedTyped DEF TypeInv
    <2>2. Created(s, enabled, now) \in Job
      BY <1>3, CreatedTyped
    <2>3. DOMAIN old \subseteq Jobs /\ \A i \in DOMAIN old : old[i] \in Job
      BY <2>1 DEF Lists
    <2>4. list \in [DOMAIN old \cup {j} -> Job]
      BY <2>2, <2>3
    <2>5. DOMAIN old \cup {j} \in SUBSET Jobs
      BY <2>3
    <2> HIDE DEF list
    <2> QED
      BY <2>4, <2>5 DEF Lists
  <1>5. \A i \in DOMAIN list \ {j} : i \in DOMAIN old /\ list[i] = old[i]
    OBVIOUS
  <1> HIDE DEF list
  <1>6. Begin(k, j, list)
    BY <1>1 DEF list
  <1>7. Edits(k, j, list)
    BY <1>2, <1>4, <1>5, <1>6, EditingTask
  <1> QED
    BY <1>2, <1>4, <1>7

(* An updated job was listed, and counts as repeated.                      *)
LEMMA UpdateEffect ==
  ASSUME TypeInv, NEW k \in Editors, NEW j \in Jobs, Update(k, j)
  PROVE  /\ \E list \in Lists : Edits(k, j, list)
         /\ issued' = issued /\ repeated' = repeated \cup {j}
         /\ j \in DOMAIN jobs
  <1>1. PICK old \in Loaded(k), s \in Schedules, enabled \in BOOLEAN :
          /\ j \in DOMAIN old
          /\ \E sent \in {0, old[j].nextRun} :
               Begin(k, j, [old EXCEPT ![j] = Updated(s, enabled, sent, now)])
    BY DEF Update
  <1>2. PICK sent \in {0, old[j].nextRun} :
          Begin(k, j, [old EXCEPT ![j] = Updated(s, enabled, sent, now)])
    BY <1>1
  <1> DEFINE list == [old EXCEPT ![j] = Updated(s, enabled, sent, now)]
  <1>3. Edit(k) /\ issued' = issued /\ repeated' = repeated \cup {j}
    BY DEF Update
  <1>4. old \in Lists
    BY LoadedTyped DEF TypeInv
  <1>5. sent \in Nat /\ now \in Nat
    BY <1>1, <1>4, SchedulerAssumption DEF TypeInv, DataInv, Lists, Job
  <1>6. list \in Lists
    BY <1>4, <1>5, UpdatedTyped, ListEdits
  <1>7. \A i \in DOMAIN list \ {j} : i \in DOMAIN old /\ list[i] = old[i]
    BY <1>4, <1>5, UpdatedTyped, ListEdits
  <1> HIDE DEF list
  <1>8. Begin(k, j, list)
    BY <1>2 DEF list
  <1>9. Edits(k, j, list)
    BY <1>3, <1>6, <1>7, <1>8, EditingTask
  <1>10. DOMAIN old \subseteq DOMAIN jobs
    BY LoadedTyped, NoJobsTyped DEF TypeInv
  <1> QED
    BY <1>1, <1>3, <1>6, <1>9, <1>10

(* A deleted job was listed and is no more.                                *)
LEMMA DeleteEffect ==
  ASSUME TypeInv, NEW k \in Editors, NEW j \in Jobs, Delete(k, j)
  PROVE  /\ \E list \in Lists : Edits(k, j, list) /\ j \notin DOMAIN list
         /\ issued' = issued /\ repeated' = repeated /\ j \in DOMAIN jobs
  <1>1. PICK old \in Loaded(k) : j \in DOMAIN old /\ Begin(k, j, Restrict(old, DOMAIN old \ {j}))
    BY DEF Delete
  <1> DEFINE list == Restrict(old, DOMAIN old \ {j})
  <1>2. Edit(k) /\ issued' = issued /\ repeated' = repeated
    BY DEF Delete
  <1>3. old \in Lists
    BY LoadedTyped DEF TypeInv
  <1>4. old[j] \in Job
    BY <1>1, <1>3 DEF Lists
  <1>5. /\ list \in Lists /\ j \notin DOMAIN list
        /\ \A i \in DOMAIN list \ {j} : i \in DOMAIN old /\ list[i] = old[i]
    <2>1. /\ list \in Lists /\ DOMAIN list = DOMAIN old \ {j}
          /\ \A i \in DOMAIN old \ {j} : list[i] = old[i]
      BY <1>3, <1>4, ListEdits
    <2> HIDE DEF list
    <2> QED
      BY <2>1
  <1> HIDE DEF list
  <1>6. Begin(k, j, list)
    BY <1>1 DEF list
  <1>7. Edits(k, j, list)
    BY <1>2, <1>5, <1>6, EditingTask
  <1>8. DOMAIN old \subseteq DOMAIN jobs
    BY LoadedTyped, NoJobsTyped DEF TypeInv
  <1> QED
    BY <1>1, <1>2, <1>5, <1>7, <1>8

(* There are finitely many firings whose record is still to come.          *)
LEMMA PendingFinite ==
  ASSUME Finite, NEW j
  PROVE  IsFiniteSet(Pending(j)) /\ Cardinality(Pending(j)) \in Nat
  <1>1. Pending(j) \subseteq Firers
    BY DEF Pending, InFlight
  <1> QED
    BY <1>1, FS_Subset, FS_CardinalityType DEF Finite

(* A crash ends the tasks, and counts their jobs as repeated.              *)
LEMMA CrashEffect ==
  ASSUME Finite, TypeInv, Crash
  PROVE  /\ TypeInv' /\ \A k \in Tasks : task'[k] = IdleTask
         /\ ~raced' => ~raced /\ jobs' = jobs
         /\ DOMAIN jobs' \subseteq DOMAIN jobs
         /\ \A j \in Jobs : InFlight(j) # {} => j \in repeated'
         /\ repeated \subseteq repeated'
  <1>1. task' = [k \in Tasks |-> IdleTask]
    BY DEF Crash
  <1>2. TaskInv'
    BY <1>1, IdleTyped DEF TaskInv, Tasks
  <1>3. /\ jobs' \in Lists /\ raced' \in BOOLEAN /\ (~raced' => ~raced /\ jobs' = jobs)
        /\ DOMAIN jobs' \subseteq DOMAIN jobs
    <2>1. raced \in BOOLEAN /\ jobs \in Lists
      BY DEF TypeInv, DataInv
    <2>2. CASE jobs' = jobs /\ raced' = raced
      BY <2>1, <2>2
    <2>3. CASE jobs' = NoJobs /\ raced' = TRUE
      BY <2>3, NoJobsTyped
    <2> QED
      BY <2>2, <2>3 DEF Crash
  <1>4. repeated' = repeated \cup {j \in Jobs : InFlight(j) # {}}
    BY DEF Crash
  <1>7. log' \in [Jobs -> LogState]
    <2>1. \A j \in Jobs : log[j] \in LogState
      BY DEF TypeInv, DataInv
    <2>2. \A j \in Jobs : WithMissed(log[j], Cardinality(Pending(j))) \in LogState
      BY <2>1, PendingFinite, LogEdits
    <2> QED
      BY <2>2 DEF Crash
  <1>5. faults' \in 0..MaxFaults
    BY SchedulerAssumption DEF Crash, TypeInv, DataInv
  <1>6. DataInv'
    BY <1>3, <1>4, <1>5, <1>7 DEF Crash, TypeInv, DataInv
  <1> QED
    BY <1>1, <1>2, <1>3, <1>4, <1>6 DEF TypeInv

(* Every step keeps the types.                                             *)
LEMMA NextTypeInv == ASSUME Finite, TypeInv, [Next]_vars PROVE TypeInv'
  <1>1. CASE Next
    <2>1. ASSUME NEW k \in Editors, NEW j \in Jobs, Create(k, j) \/ Update(k, j) \/ Delete(k, j)
          PROVE  TypeInv'
      BY <2>1, CreateEffect, UpdateEffect, DeleteEffect DEF Edits
    <2> QED
      BY <1>1, <2>1, TickTypeInv, RunNowEffect, StartReturnsEffect, MarkLoadEffect, LogEffect,
         EndLineEffect, LogFailsEffect, ForgetEffect, WriteEffect, WriteFailsEffect,
         CrashEffect DEF Next, TaskStep
  <1>2. CASE UNCHANGED vars
    BY <1>2 DEF vars, TypeInv, TaskInv, DataInv
  <1> QED
    BY <1>1, <1>2

(* They imply TypeOK.                                                      *)
LEMMA Typed == ASSUME TypeInv PROVE TypeOK
  <1>1. IsList(jobs) /\ \A k \in Tasks : IsList(task[k].list)
    BY ListsTyped DEF TypeInv, DataInv, TaskInv, TaskState
  <1>2. DOMAIN task = Tasks
    BY DEF TypeInv, TaskInv
  <1>3. \A k \in Tasks : /\ task[k].pc \in Stage /\ task[k].job \in Jobs \cup {NoJob}
                         /\ task[k].manual \in BOOLEAN
    BY DEF TypeInv, TaskInv, TaskState
  <1> QED
    BY <1>1, <1>2, <1>3 DEF TypeInv, DataInv, LogState, TypeOK

-----------------------------------------------------------------------------
(* How a step of one task changes the firings whose record is to come.     *)
LEMMA PendingStep ==
  ASSUME NEW k \in Tasks, NEW r, Becomes(k, r), NEW j
  PROVE  Pending(j)' = IF k \in Firers /\ r.job = j /\ r.pc \in {"load", "write", "log"}
                       THEN Pending(j) \cup {k} ELSE Pending(j) \ {k}
  BY DEF Pending, InFlight, Becomes, Tasks

(* What a log answers against a jobs' firings, of which n are to come.     *)
Balanced(l, n, a) ==
  LET over == a - n - l.missed
  IN  Records(l) <= over /\ over <= Records(l) + 2 * l.joined

(* A record more, the end of a line, or a firing that is missed.           *)
LEMMA BalanceKept ==
  ASSUME NEW l \in LogState, NEW n \in Nat, NEW m \in Nat, NEW a \in Nat, Balanced(l, n, a)
  PROVE  /\ Balanced(l, n + 1, a + 1)
         /\ Balanced(WithRecord(l), n - 1, a)
         /\ Balanced(WithNewline(l), n, a)
         /\ Balanced(WithMissed(l, m), n - m, a)
  <1>1. l.lines \in Nat /\ l.tail \in Nat /\ l.joined \in Nat /\ l.missed \in Nat
    BY DEF LogState
  <1>2. Balanced(l, n + 1, a + 1)
    BY <1>1 DEF Balanced, Records
  <1>3. Balanced(WithRecord(l), n - 1, a)
    <2>1. /\ WithRecord(l).lines = l.lines /\ WithRecord(l).tail = l.tail + 1
          /\ WithRecord(l).joined = IF l.tail = 0 THEN l.joined ELSE l.joined + 1
          /\ WithRecord(l).missed = l.missed
      BY LogEdits
    <2> QED
      BY <1>1, <2>1 DEF Balanced, Records
  <1>4. Balanced(WithNewline(l), n, a)
    <2>1. /\ WithNewline(l).lines = IF l.tail = 1 THEN l.lines + 1 ELSE l.lines
          /\ WithNewline(l).tail = 0
          /\ WithNewline(l).joined = l.joined /\ WithNewline(l).missed = l.missed
      BY LogEdits
    <2> QED
      BY <1>1, <2>1 DEF Balanced, Records
  <1>5. Balanced(WithMissed(l, m), n - m, a)
    <2>1. /\ WithMissed(l, m).lines = l.lines /\ WithMissed(l, m).tail = l.tail
          /\ WithMissed(l, m).joined = l.joined /\ WithMissed(l, m).missed = l.missed + m
      BY LogEdits
    <2> QED
      BY <1>1, <2>1 DEF Balanced, Records
  <1> QED
    BY <1>2, <1>3, <1>4, <1>5

(* Every step keeps the logs complete.                                     *)
LEMMA LogStep ==
  ASSUME Finite, TypeInv, LogComplete, Next
  PROVE  LogComplete'
  <1> SUFFICES ASSUME NEW j \in Jobs, j \notin forgotten'
               PROVE  Balanced(log'[j], Cardinality(Pending(j)'), attempts'[j])
    BY DEF LogComplete, Balanced
  <1>0. /\ log \in [Jobs -> LogState] /\ log[j] \in LogState /\ attempts[j] \in Nat
        /\ IsFiniteSet(Pending(j)) /\ Cardinality(Pending(j)) \in Nat
    BY PendingFinite DEF TypeInv, DataInv
  <1>1. ASSUME j \notin forgotten
        PROVE  Balanced(log[j], Cardinality(Pending(j)), attempts[j])
    BY <1>1 DEF LogComplete, Balanced
  <1>2. ASSUME j \notin forgotten, attempts'[j] = attempts[j], log'[j] = log[j],
               Pending(j)' = Pending(j)
        PROVE  Balanced(log'[j], Cardinality(Pending(j)'), attempts'[j])
    BY <1>1, <1>2
  <1>3. CASE Tick
    <2>1. Pending(j)' = Pending(j)
      <3>1. \A k \in Tasks : \/ task'[k] = task[k]
                             \/ task[k].pc = "idle" /\ task'[k].pc = "start"
        BY <1>3, TickTasks, IdleTyped DEF Started
      <3> QED
        BY <3>1 DEF Pending, InFlight, Tasks
    <2> QED
      BY <1>2, <1>3, <2>1 DEF Tick
  <1>4. ASSUME NEW k \in Firers, NEW i \in Jobs, RunNow(k, i)
        PROVE  Balanced(log'[j], Cardinality(Pending(j)'), attempts'[j])
    <2>1. k \in Tasks /\ k \notin Pending(j)
      BY <1>4, RunNowEffect, IdleTyped DEF Tasks, Pending
    <2>2. Pending(j)' = Pending(j)
      <3> DEFINE r == [pc |-> "start", job |-> i, manual |-> TRUE, list |-> NoJobs]
      <3>1. Becomes(k, r) /\ r.pc = "start"
        BY <1>4, RunNowEffect
      <3> HIDE DEF r
      <3>2. Pending(j)' = Pending(j) \ {k}
        BY <2>1, <3>1, PendingStep
      <3> QED
        BY <2>1, <3>2
    <2> QED
      BY <1>2, <1>4, <2>2 DEF RunNow
  <1>5. ASSUME NEW k \in Tasks, StartReturns(k)
        PROVE  Balanced(log'[j], Cardinality(Pending(j)'), attempts'[j])
    <2>1. k \notin Pending(j) /\ k \in Firers /\ task[k].job \in Jobs
      BY <1>5, StartReturnsEffect DEF Pending
    <2>2. log' = log /\ forgotten' = forgotten
      BY <1>5 DEF StartReturns
    <2>3. CASE Becomes(k, IdleTask) /\ attempts' = attempts
      <3>1. Pending(j)' = Pending(j)
        BY <2>1, <2>3, PendingStep, IdleTyped
      <3> QED
        BY <1>2, <2>2, <2>3, <3>1
    <2>4. CASE Becomes(k, Staged(k, "load")) /\ attempts' = [attempts EXCEPT ![task[k].job] = @ + 1]
      <3>1. Staged(k, "load").job = task[k].job /\ Staged(k, "load").pc = "load"
        BY DEF Staged
      <3>2. CASE j = task[k].job
        <4>1. Pending(j)' = Pending(j) \cup {k}
          BY <2>1, <2>4, <3>1, <3>2, PendingStep
        <4>2. Cardinality(Pending(j)') = Cardinality(Pending(j)) + 1
          BY <2>1, <4>1, PendingFinite, FS_AddElement
        <4>3. attempts'[j] = attempts[j] + 1
          BY <2>4, <3>2 DEF TypeInv, DataInv
        <4> QED
          BY <1>0, <1>1, <2>2, <4>2, <4>3, BalanceKept
      <3>3. CASE j # task[k].job
        <4>1. Pending(j)' = Pending(j)
          BY <2>1, <2>4, <3>1, <3>3, PendingStep
        <4>2. attempts'[j] = attempts[j]
          BY <2>1, <2>4, <3>3 DEF TypeInv, DataInv
        <4> QED
          BY <1>2, <2>2, <4>1, <4>2
      <3> QED
        BY <3>2, <3>3
    <2> QED
      BY <1>5, <2>3, <2>4, StartReturnsEffect
  <1>6. ASSUME NEW k \in Tasks, MarkLoad(k)
        PROVE  Balanced(log'[j], Cardinality(Pending(j)'), attempts'[j])
    <2>1. PICK r : Becomes(k, r) /\ r.job = task[k].job /\ r.pc \in {"write", "log"}
      <3>1. ASSUME NEW list PROVE /\ Writing(k, task[k].job, list).job = task[k].job
                                  /\ Writing(k, task[k].job, list).pc = "write"
        BY DEF Writing
      <3>2. Staged(k, "log").job = task[k].job /\ Staged(k, "log").pc = "log"
        BY DEF Staged
      <3>3. \/ \E list : Becomes(k, Writing(k, task[k].job, list))
            \/ Becomes(k, Staged(k, "log"))
        BY <1>6, MarkLoadEffect
      <3> QED
        BY <3>1, <3>2, <3>3
    <2>2. k \in Pending(j) <=> task[k].job = j
      BY <1>6, MarkLoadEffect DEF Pending, InFlight
    <2>3. Pending(j)' = Pending(j)
      <3>1. k \in Firers
        BY <1>6, MarkLoadEffect
      <3>2. Pending(j)' = IF task[k].job = j THEN Pending(j) \cup {k} ELSE Pending(j) \ {k}
        BY <2>1, <3>1, PendingStep
      <3> QED
        BY <2>2, <3>2
    <2> QED
      BY <1>2, <1>6, <2>3 DEF MarkLoad
  <1>7. ASSUME NEW k \in Tasks, Log(k)
        PROVE  Balanced(log'[j], Cardinality(Pending(j)'), attempts'[j])
    <2>1. Pending(j)' = Pending(j) \ {k}
      <3>1. Staged(k, "newline").pc = "newline"
        BY DEF Staged
      <3>2. Becomes(k, Staged(k, "newline"))
        BY <1>7, LogEffect
      <3> QED
        BY <3>1, <3>2, PendingStep
    <2>2. k \in Pending(j) <=> task[k].job = j
      BY <1>7, LogEffect DEF Pending, InFlight
    <2>3. /\ attempts' = attempts /\ forgotten' = forgotten
          /\ log' = [log EXCEPT ![task[k].job] = WithRecord(@)]
      BY <1>7 DEF Log
    <2>4. CASE task[k].job = j
      <3>1. Cardinality(Pending(j)') = Cardinality(Pending(j)) - 1
        BY <2>1, <2>2, <2>4, PendingFinite, FS_RemoveElement
      <3>2. log'[j] = WithRecord(log[j])
        BY <1>0, <2>3, <2>4
      <3> QED
        BY <1>0, <1>1, <2>3, <3>1, <3>2, BalanceKept
    <2>5. CASE task[k].job # j
      <3>1. Pending(j)' = Pending(j) /\ log'[j] = log[j]
        BY <1>0, <2>1, <2>2, <2>3, <2>5
      <3> QED
        BY <1>2, <2>3, <3>1
    <2> QED
      BY <2>4, <2>5
  <1>13. ASSUME NEW k \in Tasks, EndLine(k)
         PROVE  Balanced(log'[j], Cardinality(Pending(j)'), attempts'[j])
    <2>1. k \notin Pending(j)
      BY <1>13, EndLineEffect DEF Pending
    <2>2. Pending(j)' = Pending(j)
      BY <1>13, <2>1, EndLineEffect, PendingStep, IdleTyped
    <2>3. /\ attempts' = attempts /\ forgotten' = forgotten
          /\ log' = [log EXCEPT ![task[k].job] = WithNewline(@)]
      BY <1>13 DEF EndLine
    <2>4. log'[j] = WithNewline(log[j]) \/ log'[j] = log[j]
      BY <1>0, <2>3
    <2> QED
      BY <1>0, <1>1, <2>2, <2>3, <2>4, BalanceKept
  <1>14. ASSUME NEW k \in Tasks, LogFails(k)
         PROVE  Balanced(log'[j], Cardinality(Pending(j)'), attempts'[j])
    <2>1. Pending(j)' = Pending(j) \ {k}
      BY <1>14, LogFailsEffect, PendingStep, IdleTyped
    <2>2. k \in Pending(j) <=> task[k].job = j /\ task[k].pc = "log"
      BY <1>14, LogFailsEffect DEF Pending, InFlight
    <2> DEFINE n == IF task[k].pc = "log" THEN 1 ELSE 0
    <2>3. /\ attempts' = attempts /\ forgotten' = forgotten
          /\ log' = [log EXCEPT ![task[k].job] = WithMissed(@, n)]
      BY <1>14 DEF LogFails
    <2>4. n \in Nat
      OBVIOUS
    <2>5. CASE task[k].job = j
      <3>1. Cardinality(Pending(j)') = Cardinality(Pending(j)) - n
        <4>1. CASE task[k].pc = "log"
          BY <2>1, <2>2, <2>5, <4>1, PendingFinite, FS_RemoveElement
        <4>2. CASE task[k].pc # "log"
          <5>1. Pending(j)' = Pending(j)
            BY <2>1, <2>2, <4>2
          <5> QED
            BY <1>0, <4>2, <5>1
        <4> QED
          BY <4>1, <4>2
      <3>2. log'[j] = WithMissed(log[j], n)
        BY <1>0, <2>3, <2>5
      <3> HIDE DEF n
      <3> QED
        BY <1>0, <1>1, <2>3, <2>4, <3>1, <3>2, BalanceKept
    <2>6. CASE task[k].job # j
      <3>1. Pending(j)' = Pending(j) /\ log'[j] = log[j]
        BY <1>0, <2>1, <2>2, <2>3, <2>6
      <3> QED
        BY <1>2, <2>3, <3>1
    <2> QED
      BY <2>5, <2>6
  <1>15. ASSUME NEW k \in Tasks, WriteFails(k)
         PROVE  Balanced(log'[j], Cardinality(Pending(j)'), attempts'[j])
    <2>1. Pending(j)' = Pending(j) \ {k}
      BY <1>15, WriteFailsEffect, PendingStep, IdleTyped
    <2>2. k \in Pending(j) <=> task[k].job = j /\ k \in Firers
      BY <1>15, WriteFailsEffect DEF Pending, InFlight
    <2>3. attempts' = attempts /\ forgotten' = forgotten
      BY <1>15 DEF WriteFails
    <2>4. CASE task[k].job = j /\ k \in Firers
      <3>1. Cardinality(Pending(j)') = Cardinality(Pending(j)) - 1
        BY <2>1, <2>2, <2>4, PendingFinite, FS_RemoveElement
      <3>2. log' = [log EXCEPT ![task[k].job] = WithMissed(@, 1)]
        BY <1>15, <2>4 DEF WriteFails
      <3>3. log'[j] = WithMissed(log[j], 1)
        BY <1>0, <2>4, <3>2
      <3> QED
        BY <1>0, <1>1, <2>3, <3>1, <3>3, BalanceKept
    <2>5. CASE ~(task[k].job = j /\ k \in Firers)
      <3>1. Pending(j)' = Pending(j)
        BY <2>1, <2>2, <2>5
      <3>2. log'[j] = log[j]
        <4>1. CASE k \in Firers
          <5>1. log' = [log EXCEPT ![task[k].job] = WithMissed(@, 1)]
            BY <1>15, <4>1 DEF WriteFails
          <5> QED
            BY <1>0, <2>5, <4>1, <5>1
        <4>2. CASE k \notin Firers
          BY <1>15, <4>2 DEF WriteFails
        <4> QED
          BY <4>1, <4>2
      <3> QED
        BY <1>2, <2>3, <3>1, <3>2
    <2> QED
      BY <2>4, <2>5
  <1>8. ASSUME NEW k \in Tasks, Forget(k)
        PROVE  Balanced(log'[j], Cardinality(Pending(j)'), attempts'[j])
    <2>1. Pending(j)' = Pending(j)
      BY <1>8, ForgetEffect, PendingStep DEF Pending, InFlight
    <2>2. attempts' = attempts /\ j \notin forgotten /\ log'[j] = log[j]
      BY <1>8 DEF Forget, TypeInv, DataInv
    <2> QED
      BY <1>2, <2>1, <2>2
  <1>9. ASSUME NEW k \in Tasks, Write(k)
        PROVE  Balanced(log'[j], Cardinality(Pending(j)'), attempts'[j])
    <2>1. Pending(j)' = Pending(j)
      <3>1. CASE k \in Firers
        <4>1. k \in Pending(j) <=> task[k].job = j
          BY <1>9, <3>1, WriteEffect DEF Pending, InFlight
        <4>2. PICK r : Becomes(k, r) /\ r.job = task[k].job /\ r.pc = "log"
          <5>1. Staged(k, "log").job = task[k].job /\ Staged(k, "log").pc = "log"
            BY DEF Staged
          <5>2. Becomes(k, Staged(k, "log"))
            BY <1>9, <3>1, WriteEffect
          <5> QED
            BY <5>1, <5>2
        <4>3. Pending(j)' = IF task[k].job = j THEN Pending(j) \cup {k} ELSE Pending(j) \ {k}
          BY <3>1, <4>2, PendingStep
        <4> QED
          BY <4>1, <4>3
      <3>2. CASE k \notin Firers
        <4>1. k \notin Pending(j)
          BY <3>2 DEF Pending, InFlight
        <4> QED
          BY <1>9, <3>2, <4>1, WriteEffect, PendingStep
      <3> QED
        BY <3>1, <3>2
    <2> QED
      BY <1>2, <1>9, <2>1 DEF Write
  <1>10. ASSUME NEW k \in Editors, NEW i \in Jobs, Create(k, i) \/ Update(k, i) \/ Delete(k, i)
         PROVE  Balanced(log'[j], Cardinality(Pending(j)'), attempts'[j])
    <2>1. PICK list \in Lists : Edits(k, i, list)
      BY <1>10, CreateEffect, UpdateEffect, DeleteEffect
    <2>2. k \in Tasks /\ k \notin Firers
      BY SchedulerAssumption DEF Tasks
    <2>3. Pending(j)' = Pending(j)
      BY <2>1, <2>2, PendingStep DEF Edits, Pending, InFlight
    <2> QED
      BY <1>2, <2>1, <2>3 DEF Edits
  <1>11. CASE Crash
    <2>1. Pending(j)' = {}
      BY <1>11, CrashEffect, IdleTyped DEF Pending, InFlight, Tasks
    <2>2. Cardinality(Pending(j)') = 0
      BY <2>1, FS_EmptySet
    <2>3. /\ attempts' = attempts /\ forgotten' = forgotten
          /\ log'[j] = WithMissed(log[j], Cardinality(Pending(j)))
      BY <1>11 DEF Crash
    <2>4. Balanced(log'[j], Cardinality(Pending(j)) - Cardinality(Pending(j)), attempts'[j])
      BY <1>0, <1>1, <2>3, BalanceKept
    <2> QED
      BY <1>0, <2>2, <2>4
  <1>12. Next
    OBVIOUS
  <1> QED
    BY <1>3, <1>4, <1>5, <1>6, <1>7, <1>8, <1>9, <1>10, <1>11, <1>12, <1>13, <1>14, <1>15
    DEF Next, TaskStep

-----------------------------------------------------------------------------
(* Once-jobs.  A job that was never issued has no list, task or firing.    *)
IssuedInv ==
  /\ DOMAIN jobs \subseteq issued
  /\ \A k \in Tasks : /\ DOMAIN task[k].list \subseteq issued
                      /\ task[k].pc # "idle" => task[k].job \in issued
  /\ \A j \in Jobs \ issued : attempts[j] = 0

(* Without a race one task at most is about to write, and its list differs *)
(* from the file in its own job only: a firer has disabled a once-job; an  *)
(* editor has dropped the job, changed it, or listed a new one.            *)
OwnJob(k, j, list) ==
  /\ \A i \in DOMAIN list \ {j} : i \in DOMAIN jobs /\ list[i] = jobs[i]
  /\ k \in Firers => /\ j \in DOMAIN list /\ j \in DOMAIN jobs
                     /\ list[j].schedule = jobs[j].schedule
                     /\ list[j].schedule.type = "once" => ~list[j].enabled
  /\ k \notin Firers /\ j \in DOMAIN list =>
       \/ j \in repeated
       \/ j \notin DOMAIN jobs /\ attempts[j] = 0 /\ InFlight(j) = {}

WriterInv ==
  ~raced =>
    /\ \A k, m \in Tasks : task[k].pc = "write" /\ task[m].pc = "write" => k = m
    /\ \A k \in Tasks : task[k].pc = "write" => OwnJob(k, task[k].job, task[k].list)

(* A once-job: enabled and not taken up before its one firing, then taken  *)
(* up by one task, and disabled in the file before that task is done.      *)
OnceAt(j) ==
  /\ attempts[j] <= 1
  /\ \A f, g \in InFlight(j) : f = g
  /\ jobs[j].enabled /\ InFlight(j) = {} => attempts[j] = 0
  /\ \A f \in InFlight(j) : /\ task[f].pc = "start" => attempts[j] = 0
                            /\ task[f].pc \in {"log", "newline"} => ~jobs[j].enabled

OnceInv ==
  ~raced => \A j \in DOMAIN jobs \ repeated : jobs[j].schedule.type = "once" => OnceAt(j)

ListInv == TypeInv /\ IssuedInv /\ WriterInv /\ OnceInv

(* How a step of one task changes the firings in flight.                   *)
LEMMA InFlightStep ==
  ASSUME NEW k \in Tasks, NEW r, Becomes(k, r), NEW j
  PROVE  InFlight(j)' = IF k \in Firers /\ r.job = j THEN InFlight(j) \cup {k} ELSE InFlight(j) \ {k}
  BY DEF InFlight, Becomes, Tasks

(* A task in flight is not idle.                                           *)
LEMMA InFlightBusy ==
  ASSUME TypeInv, NEW j \in Jobs, NEW f \in InFlight(j)
  PROVE  f \in Firers /\ f \in Tasks /\ task[f].job = j /\ task[f].pc # "idle"
  BY IdleTyped DEF InFlight, Tasks, TypeInv, TaskInv

(* A job that was never issued is not listed and was never fired.          *)
LEMMA NotIssued ==
  ASSUME TypeInv, IssuedInv, NEW j \in Jobs, j \notin issued
  PROVE  j \notin DOMAIN jobs /\ attempts[j] = 0 /\ InFlight(j) = {}
  BY InFlightBusy DEF IssuedInv

(* A step that leaves the list and a job in flight as they are.            *)
LEMMA OnceKept ==
  ASSUME NEW j, OnceAt(j), jobs'[j].enabled = jobs[j].enabled, attempts'[j] = attempts[j],
         InFlight(j)' = InFlight(j), \A f \in InFlight(j) : task'[f].pc = task[f].pc
  PROVE  OnceAt(j)'
  BY DEF OnceAt

(* A step after which nobody writes who did not write before.              *)
LEMMA WriterKept ==
  ASSUME TypeInv, WriterInv, ~raced' => ~raced /\ jobs' = jobs,
         repeated \subseteq repeated',
         \A k \in Tasks : task'[k].pc = "write" => task'[k] = task[k],
         \A j \in Jobs : j \notin DOMAIN jobs /\ attempts[j] = 0 /\ InFlight(j) = {} =>
                           attempts'[j] = 0 /\ InFlight(j)' = {}
  PROVE  WriterInv'
  <1> SUFFICES ASSUME ~raced'
               PROVE  /\ \A k, m \in Tasks : task'[k].pc = "write" /\ task'[m].pc = "write" => k = m
                      /\ \A k \in Tasks : task'[k].pc = "write" => OwnJob(k, task[k].job, task[k].list)'
    BY DEF WriterInv
  <1>1. \A k, m \in Tasks : task'[k].pc = "write" /\ task'[m].pc = "write" => k = m
    BY DEF WriterInv
  <1>2. ASSUME NEW k \in Tasks, task'[k].pc = "write"
        PROVE  OwnJob(k, task[k].job, task[k].list)'
    <2>1. task'[k] = task[k] /\ task[k].pc = "write" /\ task[k].job \in Jobs
      BY <1>2 DEF TypeInv, TaskInv
    <2>2. OwnJob(k, task[k].job, task[k].list) /\ jobs' = jobs
      BY <2>1 DEF WriterInv
    <2> QED
      BY <2>1, <2>2 DEF OwnJob
  <1> QED
    BY <1>1, <1>2

(* A task that has just loaded the list is the only one to write.          *)
LEMMA WriterBegins ==
  ASSUME NEW k \in Tasks, NEW r, Becomes(k, r),
         ~raced' => ~Overlap(k), ~raced' => OwnJob(k, r.job, r.list)'
  PROVE  WriterInv'
  <1> SUFFICES ASSUME ~raced'
               PROVE  /\ \A j, m \in Tasks : task'[j].pc = "write" /\ task'[m].pc = "write" => j = m
                      /\ \A m \in Tasks : task'[m].pc = "write" => OwnJob(m, task[m].job, task[m].list)'
    BY DEF WriterInv
  <1>1. \A m \in Tasks \ {k} : task'[m].pc # "write"
    BY DEF Overlap, Becomes
  <1>2. OwnJob(k, task[k].job, task[k].list)'
    BY DEF Becomes
  <1> QED
    BY <1>1, <1>2

-----------------------------------------------------------------------------
(* The invariant at the start.                                             *)
LEMMA InitListInv == ASSUME Init PROVE ListInv
  <1>1. TypeInv
    BY InitTypeInv
  <1>2. \A k \in Tasks : task[k] = IdleTask
    BY DEF Init
  <1>3. IssuedInv
    BY <1>2, IdleTyped, NoJobsTyped DEF Init, IssuedInv, IdleTask
  <1>4. WriterInv
    BY <1>2, IdleTyped DEF WriterInv
  <1>5. OnceInv
    <2> SUFFICES ASSUME NEW j \in DOMAIN jobs PROVE OnceAt(j)
      BY DEF OnceInv
    <2>1. j \in Jobs
      BY <1>1 DEF TypeInv, DataInv, Lists
    <2>2. InFlight(j) = {}
      BY <1>2, <2>1, IdleTyped DEF InFlight, Tasks
    <2>3. attempts[j] = 0
      BY <2>1 DEF Init
    <2> QED
      BY <2>2, <2>3 DEF OnceAt
  <1> QED
    BY <1>1, <1>3, <1>4, <1>5 DEF ListInv

(* The loop takes up a once-job only while it is enabled, so before its    *)
(* firing.                                                                 *)
LEMMA TickListInv == ASSUME Finite, ListInv, Tick PROVE ListInv'
  <1>1. TypeInv'
    BY TickTypeInv DEF ListInv
  <1>2. /\ jobs' = jobs /\ attempts' = attempts /\ raced' = raced /\ issued' = issued
        /\ repeated \subseteq repeated'
    BY TickTasks DEF Tick, ListInv
  <1>3. \A k \in Tasks : task'[k] = task[k] \/ \E j \in Jobs : Started(k, j)
    BY TickTasks DEF ListInv
  <1>4. ASSUME NEW j \in Jobs, \A k \in Tasks : ~Started(k, j)
        PROVE  InFlight(j)' = InFlight(j) /\ \A f \in InFlight(j) : task'[f] = task[f]
    <2>1. ASSUME NEW f \in Firers
          PROVE  f \in InFlight(j)' <=> f \in InFlight(j)
      <3>1. CASE task'[f] = task[f]
        BY <3>1 DEF InFlight
      <3>2. CASE \E i \in Jobs : Started(f, i)
        <4>1. PICK i \in Jobs : Started(f, i)
          BY <3>2
        <4>2. f \in Tasks
          BY DEF Tasks
        <4>3. i # j
          BY <4>1, <4>2, <1>4
        <4>4. task[f].job = NoJob /\ task'[f].job = i
          BY <4>1, IdleTyped DEF Started
        <4> QED
          BY <4>3, <4>4, IdleTyped DEF InFlight
      <3> QED
        BY <1>3, <3>1, <3>2 DEF Tasks
    <2>2. ASSUME NEW f \in InFlight(j) PROVE task'[f] = task[f]
      <3>1. f \in Tasks /\ task[f].pc # "idle"
        BY <2>2, InFlightBusy DEF ListInv
      <3> QED
        BY <3>1, <1>3, IdleTyped DEF Started
    <2> QED
      BY <2>1, <2>2 DEF InFlight
  <1>5. IssuedInv'
    <2>1. ASSUME NEW k \in Tasks
          PROVE  DOMAIN task'[k].list \subseteq issued /\ (task'[k].pc # "idle" => task'[k].job \in issued)
      <3>1. CASE task'[k] = task[k]
        BY <3>1 DEF ListInv, IssuedInv
      <3>2. CASE \E j \in Jobs : Started(k, j)
        BY <3>2, NoJobsTyped DEF Started, ListInv, IssuedInv
      <3> QED
        BY <1>3, <3>1, <3>2
    <2> QED
      BY <1>2, <2>1 DEF ListInv, IssuedInv
  <1>6. WriterInv'
    <2>1. ASSUME NEW k \in Tasks, task'[k].pc = "write" PROVE task'[k] = task[k]
      <3>1. \A j \in Jobs : ~Started(k, j)
        BY <2>1 DEF Started
      <3> QED
        BY <3>1, <1>3
    <2>2. \A j \in Jobs : j \notin DOMAIN jobs /\ attempts[j] = 0 /\ InFlight(j) = {} =>
                            attempts'[j] = 0 /\ InFlight(j)' = {}
      BY <1>2, <1>4 DEF Started
    <2> QED
      BY <1>2, <2>1, <2>2, WriterKept DEF ListInv
  <1>7. OnceInv'
    <2> SUFFICES ASSUME ~raced, NEW j \in DOMAIN jobs, j \notin repeated',
                        jobs[j].schedule.type = "once"
                 PROVE  OnceAt(j)'
      BY <1>2 DEF OnceInv
    <2>1. OnceAt(j) /\ j \in Jobs
      BY <1>2 DEF ListInv, OnceInv, TypeInv, DataInv, Lists
    <2>2. CASE \A k \in Tasks : ~Started(k, j)
      BY <2>1, <2>2, <1>2, <1>4, OnceKept
    <2>3. CASE \E k \in Tasks : Started(k, j)
      <3>1. PICK k \in Tasks : Started(k, j)
        BY <2>3
      <3>2. InFlight(j) = {} /\ attempts[j] = 0
        BY <3>1, <2>1 DEF Started, OnceAt
      <3>3. InFlight(j)' = {k} /\ task'[k].pc = "start"
        <4>1. k \in InFlight(j)' /\ task'[k].pc = "start"
          BY <3>1 DEF Started, InFlight
        <4>2. ASSUME NEW f \in InFlight(j)' PROVE f = k
          <5>1. f \in Firers /\ f \in Tasks /\ task'[f].job = j
            BY <4>2 DEF InFlight, Tasks
          <5>2. task'[f] # task[f]
            BY <5>1, <3>2 DEF InFlight
          <5>3. PICK i \in Jobs : Started(f, i)
            BY <5>1, <5>2, <1>3
          <5>4. i = j
            BY <5>1, <5>3 DEF Started
          <5> QED
            BY <3>1, <5>1, <5>3, <5>4, <2>1, TickTasks DEF ListInv
        <4> QED
          BY <4>1, <4>2
      <3> QED
        BY <1>2, <3>2, <3>3 DEF OnceAt
    <2> QED
      BY <2>2, <2>3
  <1> QED
    BY <1>1, <1>5, <1>6, <1>7 DEF ListInv

(* A job that is run by hand counts as repeated.                           *)
LEMMA RunNowListInv ==
  ASSUME ListInv, NEW k \in Firers, NEW j \in Jobs, RunNow(k, j)
  PROVE  ListInv'
  <1> DEFINE r == [pc |-> "start", job |-> j, manual |-> TRUE, list |-> NoJobs]
  <1>1. /\ TypeInv' /\ task[k] = IdleTask /\ j \in DOMAIN jobs /\ Becomes(k, r)
        /\ repeated' = repeated \cup {j} /\ k \in Tasks
        /\ r.pc = "start" /\ r.job = j /\ r.list = NoJobs
    BY RunNowEffect DEF ListInv, Tasks
  <1> HIDE DEF r
  <1>2. jobs' = jobs /\ attempts' = attempts /\ raced' = raced /\ issued' = issued
    BY DEF RunNow
  <1>3. ASSUME NEW i \in Jobs, i # j
        PROVE  InFlight(i)' = InFlight(i) /\ \A f \in InFlight(i) : task'[f] = task[f]
    <2>1. k \notin InFlight(i)
      BY <1>1, InFlightBusy, IdleTyped DEF ListInv
    <2>2. InFlight(i)' = InFlight(i)
      BY <1>1, <1>3, <2>1, InFlightStep
    <2> QED
      BY <1>1, <2>1, <2>2, InFlightBusy DEF Becomes, ListInv
  <1>4. IssuedInv'
    BY <1>1, <1>2, NoJobsTyped DEF ListInv, IssuedInv, Becomes
  <1>5. WriterInv'
    <2>1. \A m \in Tasks : task'[m].pc = "write" => task'[m] = task[m]
      BY <1>1 DEF Becomes
    <2>2. \A i \in Jobs : i \notin DOMAIN jobs /\ attempts[i] = 0 /\ InFlight(i) = {} =>
                            attempts'[i] = 0 /\ InFlight(i)' = {}
      BY <1>1, <1>2, <1>3
    <2> QED
      BY <1>1, <1>2, <2>1, <2>2, WriterKept DEF ListInv
  <1>6. OnceInv'
    <2> SUFFICES ASSUME ~raced, NEW i \in DOMAIN jobs, i \notin repeated',
                        jobs[i].schedule.type = "once"
                 PROVE  OnceAt(i)'
      BY <1>2 DEF OnceInv
    <2>1. i \in Jobs /\ i # j /\ OnceAt(i)
      BY <1>1 DEF ListInv, OnceInv, TypeInv, DataInv, Lists
    <2> QED
      BY <2>1, <1>2, <1>3, OnceKept
  <1> QED
    BY <1>1, <1>4, <1>5, <1>6 DEF ListInv

(* A task's step leaves the other jobs in flight as they are.              *)
LEMMA OthersKept ==
  ASSUME TypeInv, NEW k \in Tasks, NEW r, Becomes(k, r), NEW i \in Jobs,
         k \notin InFlight(i), k \notin Firers \/ r.job # i
  PROVE  InFlight(i)' = InFlight(i) /\ \A f \in InFlight(i) : task'[f] = task[f]
  <1>1. InFlight(i)' = InFlight(i)
    BY InFlightStep
  <1>2. ASSUME NEW f \in InFlight(i) PROVE task'[f] = task[f]
    <2>1. f \in Tasks \ {k}
      BY InFlightBusy
    <2> QED
      BY <2>1 DEF Becomes
  <1> QED
    BY <1>1, <1>2

(* A firer's step that keeps its job leaves all of them in flight.         *)
LEMMA SameInFlight ==
  ASSUME TypeInv, NEW k \in Tasks, k \in Firers, NEW r, Becomes(k, r), r.job = task[k].job, NEW i \in Jobs
  PROVE  InFlight(i)' = InFlight(i) /\ \A f \in InFlight(i) \ {k} : task'[f] = task[f]
  <1>1. k \in InFlight(i) <=> task[k].job = i
    BY DEF InFlight
  <1>2. InFlight(i)' = InFlight(i)
    BY <1>1, InFlightStep
  <1>3. ASSUME NEW f \in InFlight(i) \ {k} PROVE task'[f] = task[f]
    <2>1. f \in Tasks \ {k}
      BY InFlightBusy
    <2> QED
      BY <2>1 DEF Becomes
  <1> QED
    BY <1>2, <1>3

(* The start of a once-job is the first: nothing else is in flight.        *)
LEMMA StartReturnsListInv ==
  ASSUME ListInv, NEW k \in Tasks, StartReturns(k)
  PROVE  ListInv'
  <1> DEFINE j == task[k].job
  <1>1. /\ TypeInv /\ TypeInv' /\ k \in Firers /\ task[k].pc = "start" /\ j \in Jobs
        /\ \/ /\ Becomes(k, Staged(k, "load"))
              /\ attempts' = [attempts EXCEPT ![j] = @ + 1]
           \/ /\ Becomes(k, IdleTask) /\ j \in repeated
              /\ attempts' = attempts
    BY StartReturnsEffect DEF ListInv
  <1>2. jobs' = jobs /\ raced' = raced /\ repeated' = repeated /\ issued' = issued
    BY DEF StartReturns
  <1>3. k \in InFlight(j) /\ (\A i \in Jobs : k \in InFlight(i) => i = j)
    BY <1>1 DEF InFlight
  <1>4. CASE Becomes(k, Staged(k, "load")) /\ attempts' = [attempts EXCEPT ![j] = @ + 1]
    <2> DEFINE r == Staged(k, "load")
    <2>1. Becomes(k, r) /\ r.job = j /\ r.pc = "load" /\ r.list = task[k].list
      BY <1>4 DEF Staged
    <2> HIDE DEF r
    <2>2. \A i \in Jobs : InFlight(i)' = InFlight(i) /\ \A f \in InFlight(i) \ {k} : task'[f] = task[f]
      BY <1>1, <2>1, SameInFlight
    <2>3. attempts'[j] = attempts[j] + 1 /\ \A i \in Jobs \ {j} : attempts'[i] = attempts[i]
      BY <1>1, <1>4 DEF TypeInv, DataInv
    <2>4. task'[k] = r /\ \A m \in Tasks \ {k} : task'[m] = task[m]
      BY <2>1 DEF Becomes
    <2>5. IssuedInv'
      <3>1. j \in issued
        BY <1>1 DEF ListInv, IssuedInv
      <3> QED
        BY <1>2, <2>1, <2>3, <2>4, <3>1 DEF ListInv, IssuedInv
    <2>6. WriterInv'
      <3>1. \A m \in Tasks : task'[m].pc = "write" => task'[m] = task[m]
        BY <2>1, <2>4
      <3>2. \A i \in Jobs : i \notin DOMAIN jobs /\ attempts[i] = 0 /\ InFlight(i) = {} =>
                              attempts'[i] = 0 /\ InFlight(i)' = {}
        BY <1>3, <2>2, <2>3
      <3> QED
        BY <1>2, <3>1, <3>2, WriterKept DEF ListInv
    <2>7. OnceInv'
      <3> SUFFICES ASSUME ~raced, NEW i \in DOMAIN jobs, i \notin repeated,
                          jobs[i].schedule.type = "once"
                   PROVE  OnceAt(i)'
        BY <1>2 DEF OnceInv
      <3>1. OnceAt(i) /\ i \in Jobs
        BY DEF ListInv, OnceInv, TypeInv, DataInv, Lists
      <3>2. CASE i = j
        <4>1. InFlight(i)' = InFlight(i) /\ k \in InFlight(i)
          BY <1>1, <2>2, <3>1, <3>2 DEF InFlight
        <4>2. attempts[i] = 0 /\ \A f \in InFlight(i) : f = k
          BY <1>1, <3>1, <4>1 DEF OnceAt
        <4>3. attempts'[i] = 1
          BY <2>3, <3>2, <4>2
        <4>4. task'[k].pc = "load"
          BY <2>1, <2>4
        <4> QED
          BY <4>1, <4>2, <4>3, <4>4 DEF OnceAt
      <3>3. CASE i # j
        BY <1>2, <1>3, <2>2, <2>3, <3>1, <3>3, OnceKept
      <3> QED
        BY <3>2, <3>3
    <2> QED
      BY <1>1, <2>5, <2>6, <2>7 DEF ListInv
  <1>5. CASE Becomes(k, IdleTask) /\ j \in repeated /\ attempts' = attempts
    <2>1. ASSUME NEW i \in Jobs
          PROVE  /\ InFlight(i) = {} => InFlight(i)' = {}
                 /\ i # j => InFlight(i)' = InFlight(i) /\ \A f \in InFlight(i) : task'[f] = task[f]
      <3>1. InFlight(i)' = InFlight(i) \ {k}
        BY <1>5, IdleTyped, InFlightStep
      <3>2. i # j => InFlight(i)' = InFlight(i) /\ \A f \in InFlight(i) : task'[f] = task[f]
        BY <1>1, <1>3, <1>5, IdleTyped, OthersKept
      <3> QED
        BY <3>1, <3>2
    <2>2. task'[k] = IdleTask /\ \A m \in Tasks \ {k} : task'[m] = task[m]
      BY <1>5 DEF Becomes
    <2>3. IssuedInv'
      <3>1. DOMAIN IdleTask.list = {} /\ IdleTask.pc = "idle"
        BY NoJobsTyped DEF IdleTask
      <3> QED
        BY <1>2, <1>5, <2>2, <3>1 DEF ListInv, IssuedInv
    <2>4. WriterInv'
      <3>1. \A m \in Tasks : task'[m].pc = "write" => task'[m] = task[m]
        BY <2>2, IdleTyped
      <3> QED
        BY <1>2, <1>5, <2>1, <3>1, WriterKept DEF ListInv
    <2>5. OnceInv'
      <3> SUFFICES ASSUME ~raced, NEW i \in DOMAIN jobs, i \notin repeated,
                          jobs[i].schedule.type = "once"
                   PROVE  OnceAt(i)'
        BY <1>2 DEF OnceInv
      <3>1. OnceAt(i) /\ i \in Jobs /\ i # j
        BY <1>5 DEF ListInv, OnceInv, TypeInv, DataInv, Lists
      <3> QED
        BY <1>2, <1>5, <2>1, <3>1, OnceKept
    <2> QED
      BY <1>1, <2>3, <2>4, <2>5 DEF ListInv
  <1> QED
    BY <1>1, <1>4, <1>5

(* The list about to be written has the once-job disabled.                 *)
LEMMA MarkLoadListInv ==
  ASSUME ListInv, NEW k \in Tasks, MarkLoad(k)
  PROVE  ListInv'
  <1>0. PICK j : j = task[k].job
    OBVIOUS
  <1>1. /\ TypeInv /\ TypeInv' /\ k \in Firers /\ task[k].pc = "load" /\ j \in Jobs
        /\ ~raced' => ~raced /\ ~Overlap(k)
        /\ \/ \E list \in Loaded(k) :
                /\ j \in DOMAIN list
                /\ Becomes(k, Writing(k, j, [list EXCEPT ![j] = Fired(list[j], now)]))
           \/ /\ Becomes(k, Staged(k, "log"))
              /\ ~raced' => j \notin DOMAIN jobs
    BY <1>0, MarkLoadEffect DEF ListInv
  <1>2. jobs' = jobs /\ attempts' = attempts /\ repeated' = repeated /\ issued' = issued
    BY DEF MarkLoad
  <1>3. k \in InFlight(j) /\ (\A i \in Jobs : k \in InFlight(i) => i = j) /\ j \in issued
    BY <1>0, <1>1 DEF InFlight, ListInv, IssuedInv
  <1>4. ASSUME NEW list \in Loaded(k), j \in DOMAIN list,
               Becomes(k, Writing(k, j, [list EXCEPT ![j] = Fired(list[j], now)]))
        PROVE  ListInv'
    <2>0. PICK new, r : new = [list EXCEPT ![j] = Fired(list[j], now)] /\ r = Writing(k, j, new)
      OBVIOUS
    <2>1. list \in Lists /\ (list = jobs \/ Overlap(k)) /\ DOMAIN list \subseteq DOMAIN jobs
      BY <1>1, LoadedTyped, NoJobsTyped DEF TypeInv
    <2>2. list[j] \in Job /\ now \in Nat
      BY <1>1, <1>4, <2>1 DEF Lists, TypeInv, DataInv
    <2>3. /\ DOMAIN new = DOMAIN list
          /\ \A i \in DOMAIN list : new[i] = IF i = j THEN Fired(list[j], now) ELSE list[i]
      BY <1>1, <2>0, <2>1, <2>2, FiredTyped, ListEdits
    <2>4. Becomes(k, r) /\ r.job = j /\ r.pc = "write" /\ r.list = new
      BY <1>4, <2>0 DEF Writing
    <2>5. \A i \in Jobs : InFlight(i)' = InFlight(i) /\ \A f \in InFlight(i) \ {k} : task'[f] = task[f]
      BY <1>0, <1>1, <2>4, SameInFlight
    <2>6. task'[k] = r /\ \A m \in Tasks \ {k} : task'[m] = task[m]
      BY <2>4 DEF Becomes
    <2>7. IssuedInv'
      <3>1. DOMAIN new \subseteq issued
        BY <2>1, <2>3 DEF ListInv, IssuedInv
      <3> QED
        BY <1>2, <1>3, <2>4, <2>6, <3>1 DEF ListInv, IssuedInv
    <2>8. WriterInv'
      <3>1. ASSUME ~raced' PROVE OwnJob(k, j, new)'
        <4>1. list = jobs
          BY <1>1, <2>1, <3>1
        <4>2. /\ new[j].schedule = jobs[j].schedule
              /\ new[j].schedule.type = "once" => ~new[j].enabled
          BY <1>4, <2>2, <2>3, <4>1, FiredTyped
        <4> QED
          BY <1>1, <1>2, <1>4, <2>3, <4>1, <4>2 DEF OwnJob
      <3>2. ASSUME ~raced' PROVE OwnJob(k, r.job, r.list)'
        BY <2>4, <3>1, <3>2 DEF OwnJob
      <3> QED
        BY <1>1, <2>4, <3>2, WriterBegins
    <2>9. OnceInv'
      <3> SUFFICES ASSUME ~raced', NEW i \in DOMAIN jobs, i \notin repeated,
                          jobs[i].schedule.type = "once"
                   PROVE  OnceAt(i)'
        BY <1>2 DEF OnceInv
      <3>1. OnceAt(i) /\ i \in Jobs
        BY <1>1 DEF ListInv, OnceInv, TypeInv, DataInv, Lists
      <3>2. CASE i = j
        <4>1. InFlight(i)' = InFlight(i) /\ k \in InFlight(i)
          BY <1>0, <1>1, <2>5, <3>1, <3>2 DEF InFlight
        <4>2. task'[k].pc = "write" /\ \A f \in InFlight(i) : f = k
          BY <2>4, <2>6, <3>1, <4>1 DEF OnceAt
        <4> QED
          BY <1>2, <3>1, <4>1, <4>2 DEF OnceAt
      <3>3. CASE i # j
        BY <1>2, <1>3, <2>5, <3>1, <3>3, OnceKept
      <3> QED
        BY <3>2, <3>3
    <2> QED
      BY <1>1, <2>7, <2>8, <2>9 DEF ListInv
  <1>5. CASE Becomes(k, Staged(k, "log")) /\ (~raced' => j \notin DOMAIN jobs)
    <2> DEFINE r == Staged(k, "log")
    <2>1. Becomes(k, r) /\ r.job = j /\ r.pc = "log" /\ r.list = task[k].list
      BY <1>0, <1>5 DEF Staged
    <2> HIDE DEF r
    <2>2. \A i \in Jobs : InFlight(i)' = InFlight(i) /\ \A f \in InFlight(i) \ {k} : task'[f] = task[f]
      BY <1>0, <1>1, <2>1, SameInFlight
    <2>3. task'[k] = r /\ \A m \in Tasks \ {k} : task'[m] = task[m]
      BY <2>1 DEF Becomes
    <2>4. IssuedInv'
      BY <1>2, <1>3, <2>1, <2>3 DEF ListInv, IssuedInv
    <2>5. WriterInv'
      <3>1. \A m \in Tasks : task'[m].pc = "write" => task'[m] = task[m]
        BY <2>1, <2>3
      <3> QED
        BY <1>1, <1>2, <2>2, <3>1, WriterKept DEF ListInv
    <2>6. OnceInv'
      <3> SUFFICES ASSUME ~raced', NEW i \in DOMAIN jobs, i \notin repeated,
                          jobs[i].schedule.type = "once"
                   PROVE  OnceAt(i)'
        BY <1>2 DEF OnceInv
      <3>1. OnceAt(i) /\ i \in Jobs /\ i # j
        BY <1>1, <1>5 DEF ListInv, OnceInv, TypeInv, DataInv, Lists
      <3> QED
        BY <1>2, <1>3, <2>2, <3>1, OnceKept
    <2> QED
      BY <1>1, <2>4, <2>5, <2>6 DEF ListInv
  <1> QED
    BY <1>1, <1>4, <1>5

(* A firer is done.  Its once-job is disabled in the file if it was marked,*)
(* and excepted if the mark could not be saved.                            *)
LEMMA FirerDone ==
  ASSUME ListInv, TypeInv', NEW k \in Tasks, k \in Firers, task[k].job \in Jobs,
         Becomes(k, IdleTask), UNCHANGED <<jobs, attempts, raced, issued>>,
         repeated \subseteq repeated',
         task[k].pc \in {"log", "newline"} \/ task[k].job \in repeated'
  PROVE  ListInv'
  <1>0. PICK j : j = task[k].job
    OBVIOUS
  <1>1. /\ TypeInv /\ TypeInv' /\ k \in Firers /\ j \in Jobs
        /\ task[k].pc \in {"log", "newline"} \/ j \in repeated'
        /\ Becomes(k, IdleTask)
    BY <1>0 DEF ListInv
  <1>2. /\ jobs' = jobs /\ attempts' = attempts /\ raced' = raced
        /\ repeated \subseteq repeated' /\ issued' = issued
    OBVIOUS
  <1>3. k \in InFlight(j) /\ (\A i \in Jobs : k \in InFlight(i) => i = j)
    BY <1>0, <1>1 DEF InFlight
  <1>4. ASSUME NEW i \in Jobs
        PROVE  /\ InFlight(i)' = InFlight(i) \ {k}
               /\ i # j => InFlight(i)' = InFlight(i) /\ \A f \in InFlight(i) : task'[f] = task[f]
    <2>1. InFlight(i)' = InFlight(i) \ {k}
      BY <1>1, IdleTyped, InFlightStep
    <2>2. i # j => InFlight(i)' = InFlight(i) /\ \A f \in InFlight(i) : task'[f] = task[f]
      BY <1>1, <1>3, IdleTyped, OthersKept
    <2> QED
      BY <2>1, <2>2
  <1>5. task'[k] = IdleTask /\ \A m \in Tasks \ {k} : task'[m] = task[m]
    BY <1>1 DEF Becomes
  <1>6. IssuedInv'
    <2>1. DOMAIN IdleTask.list = {} /\ IdleTask.pc = "idle"
      BY NoJobsTyped DEF IdleTask
    <2> QED
      BY <1>2, <1>5, <2>1 DEF ListInv, IssuedInv
  <1>7. WriterInv'
    <2>1. \A m \in Tasks : task'[m].pc = "write" => task'[m] = task[m]
      BY <1>5, IdleTyped
    <2> QED
      BY <1>2, <1>4, <2>1, WriterKept DEF ListInv
  <1>8. OnceInv'
    <2> SUFFICES ASSUME ~raced, NEW i \in DOMAIN jobs, i \notin repeated',
                        jobs[i].schedule.type = "once"
                 PROVE  OnceAt(i)'
      BY <1>2 DEF OnceInv
    <2>1. OnceAt(i) /\ i \in Jobs
      BY <1>1, <1>2 DEF ListInv, OnceInv, TypeInv, DataInv, Lists
    <2>2. CASE i = j
      <3>1. k \in InFlight(i) /\ InFlight(i)' = InFlight(i) \ {k}
        BY <1>3, <1>4, <2>1, <2>2
      <3>2. InFlight(i)' = {} /\ ~jobs[i].enabled
        BY <1>1, <2>1, <2>2, <3>1 DEF OnceAt
      <3> QED
        BY <1>2, <2>1, <3>2 DEF OnceAt
    <2>3. CASE i # j
      BY <1>2, <1>4, <2>1, <2>3, OnceKept
    <2> QED
      BY <2>2, <2>3
  <1> QED
    BY <1>1, <1>6, <1>7, <1>8 DEF ListInv

(* A record in the log: the firing is still the only one.                  *)
LEMMA LogListInv ==
  ASSUME ListInv, NEW k \in Tasks, Log(k)
  PROVE  ListInv'
  <1>0. PICK j, r : j = task[k].job /\ r = Staged(k, "newline")
    OBVIOUS
  <1>1. /\ TypeInv /\ TypeInv' /\ k \in Firers /\ task[k].pc = "log" /\ j \in Jobs
        /\ Becomes(k, r) /\ r.job = j /\ r.pc = "newline" /\ r.list = task[k].list
    BY <1>0, LogEffect DEF ListInv, Staged
  <1>2. /\ jobs' = jobs /\ attempts' = attempts /\ raced' = raced
        /\ repeated' = repeated /\ issued' = issued
    BY DEF Log
  <1>3. k \in InFlight(j) /\ \A i \in Jobs : k \in InFlight(i) => i = j
    BY <1>0, <1>1 DEF InFlight
  <1>4. \A i \in Jobs : InFlight(i)' = InFlight(i) /\ \A f \in InFlight(i) \ {k} : task'[f] = task[f]
    BY <1>0, <1>1, SameInFlight
  <1>5. task'[k] = r /\ \A m \in Tasks \ {k} : task'[m] = task[m]
    BY <1>1 DEF Becomes
  <1>6. IssuedInv'
    BY <1>0, <1>1, <1>2, <1>5 DEF ListInv, IssuedInv
  <1>7. WriterInv'
    <2>1. \A m \in Tasks : task'[m].pc = "write" => task'[m] = task[m]
      BY <1>1, <1>5
    <2> QED
      BY <1>1, <1>2, <1>4, <2>1, WriterKept DEF ListInv
  <1>8. OnceInv'
    <2> SUFFICES ASSUME ~raced, NEW i \in DOMAIN jobs, i \notin repeated,
                        jobs[i].schedule.type = "once"
                 PROVE  OnceAt(i)'
      BY <1>2 DEF OnceInv
    <2>1. OnceAt(i) /\ i \in Jobs
      BY <1>1 DEF ListInv, OnceInv, TypeInv, DataInv, Lists
    <2>2. CASE i = j
      <3>1. InFlight(i)' = InFlight(i) /\ (\A f \in InFlight(i) : f = k) /\ ~jobs[i].enabled
        BY <1>1, <1>3, <1>4, <2>1, <2>2 DEF OnceAt
      <3> QED
        BY <1>1, <1>2, <1>5, <2>1, <3>1 DEF OnceAt
    <2>3. CASE i # j
      BY <1>2, <1>3, <1>4, <2>1, <2>3, OnceKept
    <2> QED
      BY <2>2, <2>3
  <1> QED
    BY <1>1, <1>6, <1>7, <1>8 DEF ListInv

(* The line is ended, or an append failed: the firer is done.              *)
LEMMA LoggedListInv ==
  ASSUME ListInv, NEW k \in Tasks, EndLine(k) \/ LogFails(k)
  PROVE  ListInv'
  <1>1. TypeInv
    BY DEF ListInv
  <1>2. CASE EndLine(k)
    <2>1. /\ UNCHANGED <<jobs, attempts, raced, issued>> /\ repeated' = repeated
      BY <1>2 DEF EndLine
    <2> QED
      BY <1>1, <1>2, <2>1, EndLineEffect, FirerDone
  <1>3. CASE LogFails(k)
    <2>1. /\ UNCHANGED <<jobs, attempts, raced, issued>> /\ repeated' = repeated
      BY <1>3 DEF LogFails
    <2> QED
      BY <1>1, <1>3, <2>1, LogFailsEffect, FirerDone
  <1> QED
    BY <1>2, <1>3

(* A request's task is no firer's: it leaves what is in flight as it is.   *)
LEMMA EditorDone ==
  ASSUME ListInv, TypeInv', NEW k \in Tasks, k \notin Firers, Becomes(k, IdleTask),
         UNCHANGED <<jobs, attempts, raced, repeated, issued>>
  PROVE  ListInv'
  <1>1. /\ TypeInv /\ TypeInv' /\ k \notin Firers /\ Becomes(k, IdleTask)
    BY DEF ListInv
  <1>2. /\ jobs' = jobs /\ attempts' = attempts /\ raced' = raced
        /\ repeated' = repeated /\ issued' = issued
    OBVIOUS
  <1>3. \A i \in Jobs : InFlight(i)' = InFlight(i) /\ \A f \in InFlight(i) : task'[f] = task[f]
    BY <1>1, OthersKept DEF InFlight
  <1>4. task'[k] = IdleTask /\ \A m \in Tasks \ {k} : task'[m] = task[m]
    BY <1>1 DEF Becomes
  <1>5. IssuedInv'
    <2>1. DOMAIN IdleTask.list = {} /\ IdleTask.pc = "idle"
      BY NoJobsTyped DEF IdleTask
    <2> QED
      BY <1>2, <1>4, <2>1 DEF ListInv, IssuedInv
  <1>6. WriterInv'
    <2>1. \A m \in Tasks : task'[m].pc = "write" => task'[m] = task[m]
      BY <1>4, IdleTyped
    <2> QED
      BY <1>2, <1>3, <2>1, WriterKept DEF ListInv
  <1>7. OnceInv'
    <2> SUFFICES ASSUME ~raced, NEW i \in DOMAIN jobs, i \notin repeated,
                        jobs[i].schedule.type = "once"
                 PROVE  OnceAt(i)'
      BY <1>2 DEF OnceInv
    <2>1. OnceAt(i) /\ i \in Jobs
      BY <1>1 DEF ListInv, OnceInv, TypeInv, DataInv, Lists
    <2> QED
      BY <1>2, <1>3, <2>1, OnceKept
  <1> QED
    BY <1>1, <1>5, <1>6, <1>7 DEF ListInv

(* A deleted job's log is dropped.                                         *)
LEMMA ForgetListInv ==
  ASSUME ListInv, NEW k \in Tasks, Forget(k)
  PROVE  ListInv'
  <1>1. UNCHANGED <<jobs, attempts, raced, repeated, issued>>
    BY DEF Forget
  <1> QED
    BY <1>1, ForgetEffect, EditorDone DEF ListInv

(* A list that is not saved leaves the file, or nothing of it.             *)
LEMMA WriteFailsListInv ==
  ASSUME ListInv, NEW k \in Tasks, WriteFails(k)
  PROVE  ListInv'
  <1>1. /\ TypeInv /\ TypeInv' /\ task[k].pc = "write" /\ task[k].job \in Jobs
        /\ Becomes(k, IdleTask) /\ (jobs' = jobs \/ jobs' = NoJobs)
        /\ repeated \subseteq repeated' /\ (k \in Firers => task[k].job \in repeated')
    BY WriteFailsEffect DEF ListInv
  <1>2. UNCHANGED <<attempts, raced, issued>>
    BY DEF WriteFails
  <1>3. CASE jobs' = jobs /\ k \in Firers
    BY <1>1, <1>2, <1>3, FirerDone
  <1>4. CASE jobs' = jobs /\ k \notin Firers
    <2>1. repeated' = repeated
      BY <1>4 DEF WriteFails
    <2> QED
      BY <1>1, <1>2, <1>4, <2>1, EditorDone
  <1>5. CASE jobs' = NoJobs
    <2>1. DOMAIN jobs' = {} /\ DOMAIN IdleTask.list = {} /\ IdleTask.pc = "idle"
      BY <1>5, NoJobsTyped DEF IdleTask
    <2>2. task'[k] = IdleTask /\ \A m \in Tasks \ {k} : task'[m] = task[m]
      BY <1>1 DEF Becomes
    <2>3. IssuedInv'
      BY <1>2, <2>1, <2>2 DEF ListInv, IssuedInv
    <2>4. WriterInv'
      <3> SUFFICES ASSUME ~raced PROVE \A m \in Tasks : task'[m].pc # "write"
        BY <1>2 DEF WriterInv
      <3>1. \A m \in Tasks : task[m].pc = "write" => m = k
        BY <1>1 DEF ListInv, WriterInv
      <3> QED
        BY <2>1, <2>2, <3>1
    <2>5. OnceInv'
      BY <2>1 DEF OnceInv
    <2> QED
      BY <1>1, <2>3, <2>4, <2>5 DEF ListInv
  <1> QED
    BY <1>1, <1>3, <1>4, <1>5

(* A request begins to write what it loaded, with its own job changed.     *)
LEMMA EditsListInv ==
  ASSUME ListInv, NEW k \in Editors, NEW j \in Jobs, NEW list \in Lists, Edits(k, j, list),
         j \in issued',
         j \in DOMAIN list => \/ j \in repeated'
                              \/ j \notin DOMAIN jobs /\ attempts[j] = 0 /\ InFlight(j) = {}
  PROVE  ListInv'
  <1>1. PICK r : r = Writing(k, j, list)
    OBVIOUS
  <1>2. /\ TypeInv /\ TypeInv' /\ k \notin Firers /\ k \in Tasks /\ Becomes(k, r)
        /\ r.pc = "write" /\ r.job = j /\ r.list = list
    BY <1>1, SchedulerAssumption DEF Edits, ListInv, Tasks, Writing
  <1>3. /\ jobs' = jobs /\ attempts' = attempts /\ repeated \subseteq repeated'
        /\ issued \subseteq issued' /\ DOMAIN list \ {j} \subseteq DOMAIN jobs
        /\ ~raced' => /\ ~raced /\ ~Overlap(k)
                      /\ \A i \in DOMAIN list \ {j} : i \in DOMAIN jobs /\ list[i] = jobs[i]
    BY DEF Edits
  <1>4. \A i \in Jobs : InFlight(i)' = InFlight(i) /\ \A f \in InFlight(i) : task'[f] = task[f]
    BY <1>2, OthersKept DEF InFlight
  <1>5. task'[k] = r /\ \A m \in Tasks \ {k} : task'[m] = task[m]
    BY <1>2 DEF Becomes
  <1>6. IssuedInv'
    <2>1. DOMAIN list \subseteq issued' /\ DOMAIN jobs' \subseteq issued'
      BY <1>3 DEF ListInv, IssuedInv
    <2>2. \A m \in Tasks : /\ DOMAIN task'[m].list \subseteq issued'
                           /\ task'[m].pc # "idle" => task'[m].job \in issued'
      BY <1>2, <1>3, <1>5, <2>1 DEF ListInv, IssuedInv
    <2>3. \A i \in Jobs \ issued' : attempts'[i] = 0
      BY <1>3 DEF ListInv, IssuedInv
    <2> QED
      BY <2>1, <2>2, <2>3 DEF IssuedInv
  <1>7. WriterInv'
    <2>1. ASSUME ~raced' PROVE OwnJob(k, r.job, r.list)'
      BY <1>2, <1>3, <1>4, <2>1 DEF OwnJob
    <2> QED
      BY <1>2, <1>3, <2>1, WriterBegins
  <1>8. OnceInv'
    <2> SUFFICES ASSUME ~raced', NEW i \in DOMAIN jobs, i \notin repeated',
                        jobs[i].schedule.type = "once"
                 PROVE  OnceAt(i)'
      BY <1>3 DEF OnceInv
    <2>1. OnceAt(i) /\ i \in Jobs
      BY <1>2, <1>3 DEF ListInv, OnceInv, TypeInv, DataInv, Lists
    <2> QED
      BY <1>3, <1>4, <2>1, OnceKept
  <1> QED
    BY <1>2, <1>6, <1>7, <1>8 DEF ListInv

(* Each of the three requests does.                                        *)
LEMMA RequestListInv ==
  ASSUME ListInv, NEW k \in Editors, NEW j \in Jobs, Create(k, j) \/ Update(k, j) \/ Delete(k, j)
  PROVE  ListInv'
  <1>1. CASE Create(k, j)
    BY <1>1, CreateEffect, NotIssued, EditsListInv DEF ListInv
  <1>2. DOMAIN jobs \subseteq issued
    BY DEF ListInv, IssuedInv
  <1>3. CASE Update(k, j)
    <2>1. /\ issued' = issued /\ repeated' = repeated \cup {j} /\ j \in DOMAIN jobs
      BY <1>3, UpdateEffect DEF ListInv
    <2>2. PICK list \in Lists : Edits(k, j, list)
      BY <1>3, UpdateEffect DEF ListInv
    <2>3. j \in issued' /\ j \in repeated'
      BY <1>2, <2>1
    <2> QED
      BY <2>2, <2>3, EditsListInv
  <1>4. CASE Delete(k, j)
    BY <1>2, <1>4, DeleteEffect, EditsListInv DEF ListInv
  <1> QED
    BY <1>1, <1>3, <1>4

(* A write changes its own job only: the others' entries are those of the  *)
(* file.                                                                   *)
LEMMA WriteListInv ==
  ASSUME ListInv, NEW k \in Tasks, Write(k)
  PROVE  ListInv'
  <1>0. PICK j, list : j = task[k].job /\ list = task[k].list
    OBVIOUS
  <1>1. /\ TypeInv /\ TypeInv' /\ task[k].pc = "write" /\ j \in Jobs
        /\ list \in Lists /\ jobs' = list
    BY <1>0, WriteEffect DEF ListInv
  <1>2. /\ attempts' = attempts /\ raced' = raced /\ repeated' = repeated /\ issued' = issued
    BY DEF Write
  <1>3. PICK r : /\ Becomes(k, r) /\ r.pc # "write"
                 /\ k \in Firers => r.pc = "log" /\ r.job = j
                 /\ DOMAIN r.list \subseteq issued /\ (r.pc # "idle" => r.job \in issued)
    <2>1. /\ Staged(k, "log").pc = "log" /\ Staged(k, "log").job = j /\ Staged(k, "log").list = list
          /\ Staged(k, "forget").pc = "forget" /\ Staged(k, "forget").job = j
          /\ Staged(k, "forget").list = list
      BY <1>0 DEF Staged
    <2>2. DOMAIN IdleTask.list = {} /\ IdleTask.pc = "idle"
      BY NoJobsTyped DEF IdleTask
    <2>3. DOMAIN list \subseteq issued /\ j \in issued
      BY <1>0, <1>1 DEF ListInv, IssuedInv
    <2>4. CASE k \in Firers
      <3>1. Becomes(k, Staged(k, "log"))
        BY <1>1, <2>4, WriteEffect
      <3> QED
        BY <2>1, <2>3, <3>1
    <2>5. CASE k \notin Firers
      <3>1. Becomes(k, Staged(k, "forget")) \/ Becomes(k, IdleTask)
        BY <1>1, <2>5, WriteEffect
      <3> QED
        BY <2>1, <2>2, <2>3, <2>5, <3>1
    <2> QED
      BY <2>4, <2>5
  <1>4. \A i \in Jobs : InFlight(i)' = InFlight(i) /\ \A f \in InFlight(i) \ {k} : task'[f] = task[f]
    <2>1. CASE k \in Firers
      BY <1>0, <1>1, <1>3, <2>1, SameInFlight
    <2>2. CASE k \notin Firers
      BY <1>1, <1>3, <2>2, OthersKept DEF InFlight
    <2> QED
      BY <2>1, <2>2
  <1>5. task'[k] = r /\ \A m \in Tasks \ {k} : task'[m] = task[m]
    BY <1>3 DEF Becomes
  <1>6. IssuedInv'
    <2>1. DOMAIN list \subseteq issued
      BY <1>0 DEF ListInv, IssuedInv
    <2>2. \A m \in Tasks : /\ DOMAIN task'[m].list \subseteq issued
                           /\ task'[m].pc # "idle" => task'[m].job \in issued
      BY <1>3, <1>5 DEF ListInv, IssuedInv
    <2> QED
      BY <1>1, <1>2, <2>1, <2>2 DEF ListInv, IssuedInv
  <1>7. WriterInv'
    <2> SUFFICES ASSUME ~raced PROVE \A m \in Tasks : task'[m].pc # "write"
      BY <1>2 DEF WriterInv
    <2>1. \A m \in Tasks : task[m].pc = "write" => m = k
      BY <1>1 DEF ListInv, WriterInv
    <2> QED
      BY <1>3, <1>5, <2>1
  <1>8. OnceInv'
    <2> SUFFICES ASSUME ~raced, NEW i \in DOMAIN list, i \notin repeated,
                        list[i].schedule.type = "once"
                 PROVE  OnceAt(i)'
      BY <1>1, <1>2 DEF OnceInv
    <2>1. OwnJob(k, j, list) /\ i \in Jobs
      BY <1>0, <1>1 DEF ListInv, WriterInv, Lists
    <2>2. CASE i # j
      <3>1. i \in DOMAIN jobs /\ list[i] = jobs[i]
        BY <2>1, <2>2 DEF OwnJob
      <3>2. OnceAt(i)
        BY <3>1 DEF ListInv, OnceInv
      <3>3. k \notin InFlight(i)
        BY <1>0, <2>2 DEF InFlight
      <3> QED
        BY <1>1, <1>2, <1>4, <2>1, <3>1, <3>2, <3>3, OnceKept
    <2>3. CASE i = j /\ k \in Firers
      <3>1. i \in DOMAIN jobs /\ jobs[i].schedule.type = "once" /\ ~list[i].enabled
        BY <2>1, <2>3 DEF OwnJob
      <3>2. OnceAt(i)
        BY <3>1 DEF ListInv, OnceInv
      <3>3. k \in InFlight(i) /\ InFlight(i)' = InFlight(i) /\ task'[k].pc = "log"
        BY <1>0, <1>3, <1>4, <1>5, <2>1, <2>3 DEF InFlight
      <3>4. \A f \in InFlight(i) : f = k
        BY <3>2, <3>3 DEF OnceAt
      <3> QED
        BY <1>1, <1>2, <3>1, <3>2, <3>3, <3>4 DEF OnceAt
    <2>4. CASE i = j /\ k \notin Firers
      <3>1. attempts[i] = 0 /\ InFlight(i) = {}
        BY <2>1, <2>4 DEF OwnJob
      <3>2. attempts'[i] = 0 /\ InFlight(i)' = {}
        BY <1>2, <1>4, <2>1, <3>1
      <3> QED
        BY <3>2 DEF OnceAt
    <2> QED
      BY <2>2, <2>3, <2>4
  <1> QED
    BY <1>1, <1>6, <1>7, <1>8 DEF ListInv

(* After a crash nothing is in flight, and what was is excepted.           *)
LEMMA CrashListInv == ASSUME Finite, ListInv, Crash PROVE ListInv'
  <1>1. /\ TypeInv /\ TypeInv' /\ \A k \in Tasks : task'[k] = IdleTask
        /\ ~raced' => ~raced /\ jobs' = jobs
        /\ DOMAIN jobs' \subseteq DOMAIN jobs
        /\ \A j \in Jobs : InFlight(j) # {} => j \in repeated'
        /\ repeated \subseteq repeated'
    BY CrashEffect DEF ListInv
  <1>2. attempts' = attempts /\ issued' = issued
    BY DEF Crash
  <1>3. \A j \in Jobs : InFlight(j)' = {}
    BY <1>1, IdleTyped DEF InFlight, Tasks
  <1>4. IssuedInv'
    <2>1. DOMAIN IdleTask.list = {} /\ IdleTask.pc = "idle"
      BY NoJobsTyped DEF IdleTask
    <2> QED
      BY <1>1, <1>2, <2>1 DEF ListInv, IssuedInv
  <1>5. WriterInv'
    BY <1>1, IdleTyped DEF WriterInv
  <1>6. OnceInv'
    <2> SUFFICES ASSUME ~raced', NEW j \in DOMAIN jobs', j \notin repeated',
                        jobs'[j].schedule.type = "once"
                 PROVE  OnceAt(j)'
      BY DEF OnceInv
    <2>1. j \in DOMAIN jobs /\ j \notin repeated /\ ~raced /\ jobs' = jobs
      BY <1>1
    <2>2. j \in Jobs /\ OnceAt(j)
      BY <1>1, <2>1 DEF ListInv, OnceInv, TypeInv, DataInv, Lists
    <2>3. InFlight(j) = {} /\ InFlight(j)' = {}
      BY <1>1, <1>3, <2>2
    <2> QED
      BY <1>2, <2>1, <2>2, <2>3 DEF OnceAt
  <1> QED
    BY <1>1, <1>4, <1>5, <1>6 DEF ListInv

(* Every step keeps the invariant.                                         *)
LEMMA NextListInv == ASSUME Finite, ListInv, [Next]_vars PROVE ListInv'
  <1>1. CASE Next
    BY <1>1, TickListInv, RunNowListInv, RequestListInv, StartReturnsListInv, MarkLoadListInv,
       LogListInv, LoggedListInv, ForgetListInv, WriteListInv, WriteFailsListInv, CrashListInv
       DEF Next, TaskStep
  <1>2. CASE UNCHANGED vars
    <2>1. TypeInv'
      BY <1>2, NextTypeInv DEF ListInv
    <2>2. IssuedInv' /\ WriterInv' /\ OnceInv'
      BY <1>2 DEF vars, ListInv, IssuedInv, WriterInv, OnceInv, OwnJob, OnceAt, InFlight
    <2> QED
      BY <2>1, <2>2 DEF ListInv
  <1> QED
    BY <1>1, <1>2

(* Nothing is fired and nothing logged at the start.                       *)
LEMMA InitLogComplete == ASSUME Init PROVE LogComplete
  <1> SUFFICES ASSUME NEW j \in Jobs
               PROVE  Balanced(log[j], Cardinality(Pending(j)), attempts[j])
    BY DEF LogComplete, Balanced
  <1>1. Pending(j) = {}
    BY IdleTyped DEF Init, Pending, InFlight, Tasks
  <1>2. Cardinality(Pending(j)) = 0 /\ attempts[j] = 0 /\ log[j] = NoLog
    BY <1>1, FS_EmptySet DEF Init
  <1> QED
    BY <1>2 DEF Balanced, Records, NoLog

(* The inductive invariant: the types, what each writer of the list is     *)
(* about to write, the one firing of a once-job, and the logs.             *)
THEOREM Invariant == ASSUME Finite PROVE Spec => [](ListInv /\ LogComplete)
  <1>1. Init => ListInv /\ LogComplete
    BY InitListInv, InitLogComplete
  <1>2. ListInv /\ LogComplete /\ [Next]_vars => (ListInv /\ LogComplete)'
    <2> SUFFICES ASSUME ListInv, LogComplete, [Next]_vars PROVE ListInv' /\ LogComplete'
      OBVIOUS
    <2>1. ListInv'
      BY NextListInv
    <2>2. CASE Next
      BY <2>1, <2>2, LogStep DEF ListInv
    <2>3. CASE UNCHANGED vars
      BY <2>1, <2>3 DEF vars, LogComplete, Pending, InFlight
    <2> QED
      BY <2>2, <2>3
  <1> QED
    BY <1>1, <1>2, PTL DEF Spec

(* The list, its writers and the histories keep their types.               *)
THEOREM TypeCorrect == ASSUME Finite PROVE Spec => []TypeOK
  <1>1. ListInv => TypeOK
    BY Typed DEF ListInv
  <1> QED
    BY <1>1, Invariant, PTL

(* Every firing of a job has its record or is about to write it, except    *)
(* those counted as missed and those of joined lines, two for each join at *)
(* most, whatever the races do to the list.                                *)
THEOREM LogsComplete == ASSUME Finite PROVE Spec => []LogComplete
  BY Invariant, PTL

(* A once-job that is not edited, run by hand, taken up again, cut off by a*)
(* crash or left unmarked by a failed write fires at most once, as long as *)
(* no two writes interleave.                                               *)
THEOREM Once == ASSUME Finite PROVE Spec => []OnceUnlessRaced
  <1>1. ListInv => OnceUnlessRaced
    BY DEF ListInv, OnceInv, OnceAt, OnceUnlessRaced
  <1> QED
    BY <1>1, Invariant, PTL

=============================================================================
