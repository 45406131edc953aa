---------------------------- MODULE JobScheduler ----------------------------
(***************************************************************************)
(* Scheduled jobs: scheduler/jobs.json, the loop that looks at it every    *)
(* 30 s and spawns one task per due job (run_scheduler_loop), the manual   *)
(* trigger, and the requests that create, update and delete jobs.  Every   *)
(* writer loads the whole list, changes one job and writes the whole list  *)
(* back, with no lock; load_jobs answers the empty list for a file it      *)
(* cannot parse, such as one that another task is rewriting.  The log of a *)
(* job is appended to in two writes, a record and the end of its line, and *)
(* load_history drops a line that holds anything but one record.           *)
(*                                                                         *)
(* Time is counted in periods of the loop, and stands still at Horizon     *)
(* while the loop goes on.  Job ids are unique (the server draws a UUID;   *)
(* a client that sends an id of its own is trusted to send a fresh one).   *)
(***************************************************************************)
EXTENDS Integers, FiniteSets, Functions

CONSTANTS
  Jobs,        \* job ids
  NoJob,
  Schedules,   \* schedules a client may ask for
  Firers,      \* tasks that fire a job (bounds how many overlap)
  Editors,     \* requests that change the job list
  SlowTasks,   \* whether a task may take longer than a period of the loop
  Horizon,     \* last moment of the model
  Day,         \* 86400 s, beyond the Horizon
  MaxRequests, MaxFaults   \* bounds of the model: requests; crashes and failed writes

Schedule == [type: {"once"}, at: Nat] \cup [type: {"interval"}, secs: Nat]

ASSUME SchedulerAssumption ==
  /\ Schedules \subseteq Schedule
  /\ Firers \cap Editors = {} /\ NoJob \notin Jobs
  /\ {Horizon, Day, MaxRequests, MaxFaults} \subseteq Nat /\ Day > Horizon
  /\ SlowTasks \in BOOLEAN

VARIABLES
  now,
  jobs,      \* jobs.json: a function on the ids of the jobs it lists
  task,      \* local state of firers and editors
  attempts,  \* history: firings of each job whose start has returned
  log,       \* history/{job}.jsonl: its lines of one record, the records on the line
             \* that has no end yet; history: records put on such a line, firings that
             \* got no record because a write failed or a crash came first
  raced,     \* history: two tasks were between load and write of the list at once,
             \* or a crash destroyed it
  repeated,  \* history: jobs edited, run by hand, taken up while still firing, in
             \* flight at a crash, or whose mark could not be saved
  forgotten, \* history: jobs whose log was deleted
  issued,    \* job ids given out
  requests, faults

vars == <<now, jobs, task, attempts, log, raced, repeated, forgotten, issued, requests, faults>>

Tasks == Firers \cup Editors

Job == [schedule: Schedules, enabled: BOOLEAN, nextRun: Nat]

(* A task's stages: a firer starts the agent, loads, writes, logs its      *)
(* record and ends the line; an editor writes the list it loaded, and a    *)
(* delete then drops the log.                                              *)
Stage == {"idle", "start", "load", "write", "log", "newline", "forget"}

IsList(list) == DOMAIN list \subseteq Jobs /\ \A j \in DOMAIN list : list[j] \in Job
NoJobs == [j \in {} |-> 0]

IdleTask == [pc |-> "idle", job |-> NoJob, manual |-> FALSE, list |-> NoJobs]

-----------------------------------------------------------------------------
(* Schedule::next_after, with the value used when there is none.           *)
NextAfter(schedule, t, default) ==
  CASE schedule.type = "interval" -> t + schedule.secs
    [] schedule.type = "once" /\ schedule.at > t -> schedule.at
    [] OTHER -> default

(* Mutant of Created: the default lies a day back, not a minute ahead.      *)
Created_Past(schedule, enabled, t) ==
  [schedule |-> schedule, enabled |-> enabled, nextRun |-> NextAfter(schedule, t, t - Day)]

(* create_job; a once-job whose moment is past runs a minute later.        *)
Created(schedule, enabled, t) ==
  [schedule |-> schedule, enabled |-> enabled, nextRun |-> NextAfter(schedule, t, t + 2)]

(* update_job replaces the job; next_run is the client's if nothing is due.*)
Updated(schedule, enabled, nextRun, t) ==
  [schedule |-> schedule, enabled |-> enabled,
   nextRun |-> NextAfter(schedule, t, nextRun)]

(* Mutant of Fired: a job with no next run keeps the one it has.           *)
Fired_Again(job, t) ==
  [job EXCEPT !.nextRun = NextAfter(job.schedule, t, job.nextRun)]

(* mark_fired, of success and failure alike.                               *)
Fired(job, t) ==
  [job EXCEPT !.nextRun = NextAfter(job.schedule, t, t + Day),
              !.enabled = @ /\ job.schedule.type # "once"]

(* Mutant of Due: a moment that was missed is passed over.                 *)
Due_Exact(list, t) == {j \in DOMAIN list : list[j].enabled /\ list[j].nextRun = t}

(* due_jobs.                                                               *)
Due(list, t) == {j \in DOMAIN list : list[j].enabled /\ list[j].nextRun <= t}

(* Another task is between its load and its write of the list.             *)
Overlap(k) == \E m \in Tasks \ {k} : task[m].pc = "write"

(* What load_jobs may return: the file, or nothing while it is rewritten.  *)
Loaded(k) ==
  {jobs} \cup (IF Overlap(k) THEN {NoJobs} ELSE {})

(* The list loaded and changed, about to be written.  From its load to its *)
(* write nothing keeps another task from doing the same.                   *)
Begin(k, j, list) ==
  /\ task' = [task EXCEPT ![k].pc = "write", ![k].job = j, ![k].list = list]
  /\ raced' = (raced \/ Overlap(k))

InFlight(j) == {f \in Firers : task[f].job = j}

(* Firings whose start has returned and whose record is still to come.     *)
Pending(j) == {f \in InFlight(j) : task[f].pc \in {"load", "write", "log"}}

NoLog == [lines |-> 0, tail |-> 0, joined |-> 0, missed |-> 0]

(* What appending a record or the end of a line makes of a log.            *)
WithRecord(l) ==
  [l EXCEPT !.tail = @ + 1, !.joined = IF l.tail = 0 THEN @ ELSE @ + 1]
WithNewline(l) ==
  [l EXCEPT !.lines = IF l.tail = 1 THEN @ + 1 ELSE @, !.tail = 0]
WithMissed(l, n) == [l EXCEPT !.missed = @ + n]

(* load_history, the last line included whether it has an end or not.      *)
Records(l) == l.lines + (IF l.tail = 1 THEN 1 ELSE 0)

-----------------------------------------------------------------------------
Init ==
  /\ now = 0
  /\ jobs \in UNION {[ids -> {Created(s, TRUE, 0) : s \in Schedules}] : ids \in SUBSET Jobs}
  /\ task = [k \in Tasks |-> IdleTask]
  /\ attempts = [j \in Jobs |-> 0]
  /\ log = [j \in Jobs |-> NoLog]
  /\ raced = FALSE /\ repeated = {} /\ forgotten = {}
  /\ issued = DOMAIN jobs
  /\ requests = 0 /\ faults = 0

(* The loop wakes up: a task is spawned for every due job.  Tasks that are *)
(* not SlowTasks are done within a period.  At the Horizon the loop waits  *)
(* for them in any case (a bound of the model, not of the code).           *)
Tick ==
  /\ ~SlowTasks \/ now = Horizon => \A k \in Tasks : task[k].pc = "idle"
  /\ now' = IF now < Horizon THEN now + 1 ELSE now
  /\ \E list \in Loaded("loop") :
       LET due == Due(list, now')
           idle == {k \in Firers : task[k].pc = "idle"}
           f == CHOOSE g \in Injection(due, idle) : TRUE   \* the tasks are alike
       IN  /\ Cardinality(due) <= Cardinality(idle)
           /\ task' = [k \in Tasks |->
                IF \E j \in due : f[j] = k
                THEN [IdleTask EXCEPT !.pc = "start", !.job = CHOOSE j \in due : f[j] = k]
                ELSE task[k]]
           /\ repeated' = repeated \cup {j \in due : InFlight(j) # {}}
  /\ UNCHANGED <<jobs, attempts, log, raced, forgotten, issued, requests, faults>>

(* POST /schedule/{id}/run, whatever the job's schedule and state.         *)
RunNow(k, j) ==
  /\ task[k].pc = "idle"
  /\ requests < MaxRequests
  /\ requests' = requests + 1
  /\ \E list \in Loaded(k) : j \in DOMAIN list
  /\ task' = [task EXCEPT ![k] = [IdleTask EXCEPT !.pc = "start", !.job = j,
                                                 !.manual = TRUE]]
  /\ repeated' = repeated \cup {j}
  /\ UNCHANGED <<now, jobs, attempts, log, raced, forgotten, issued, faults>>

(* The agent was looked up and started, or one of the two failed; only the *)
(* loop's tasks mark a failed firing.                                      *)
StartReturns(k) ==
  /\ task[k].pc = "start"
  /\ \/ /\ task' = [task EXCEPT ![k].pc = "load"]
        /\ attempts' = [attempts EXCEPT ![task[k].job] = @ + 1]
     \/ /\ task[k].manual
        /\ task' = [task EXCEPT ![k] = IdleTask]
        /\ UNCHANGED attempts
  /\ UNCHANGED <<now, jobs, log, raced, repeated, forgotten, issued, requests, faults>>

(* Mutant of MarkLoad: a job that is not listed is not logged.             *)
MarkLoad_OnlyListed(k) ==
  /\ task[k].pc = "load"
  /\ LET j == task[k].job
     IN  \E list \in Loaded(k) :
           IF j \in DOMAIN list
           THEN Begin(k, j, [list EXCEPT ![j] = Fired(list[j], now)])
           ELSE /\ task' = [task EXCEPT ![k] = IdleTask]
                /\ raced' = (raced \/ Overlap(k))
  /\ UNCHANGED <<now, jobs, attempts, log, repeated, forgotten, issued, requests, faults>>

(* mark_fired: load, change the job if it is listed; else only log.        *)
MarkLoad(k) ==
  /\ task[k].pc = "load"
  /\ LET j == task[k].job
     IN  \E list \in Loaded(k) :
           IF j \in DOMAIN list
           THEN Begin(k, j, [list EXCEPT ![j] = Fired(list[j], now)])
           ELSE /\ task' = [task EXCEPT ![k].pc = "log"]
                /\ raced' = (raced \/ Overlap(k))
  /\ UNCHANGED <<now, jobs, attempts, log, repeated, forgotten, issued, requests, faults>>

(* The record is appended to the job's log, then the end of its line.      *)
Log(k) ==
  /\ task[k].pc = "log"
  /\ log' = [log EXCEPT ![task[k].job] = WithRecord(@)]
  /\ task' = [task EXCEPT ![k].pc = "newline"]
  /\ UNCHANGED <<now, jobs, attempts, raced, repeated, forgotten, issued, requests, faults>>

EndLine(k) ==
  /\ task[k].pc = "newline"
  /\ log' = [log EXCEPT ![task[k].job] = WithNewline(@)]
  /\ task' = [task EXCEPT ![k] = IdleTask]
  /\ UNCHANGED <<now, jobs, attempts, raced, repeated, forgotten, issued, requests, faults>>

(* Either append fails, and mark_fired ends there; nobody looks at that.   *)
LogFails(k) ==
  /\ task[k].pc \in {"log", "newline"}
  /\ faults < MaxFaults
  /\ faults' = faults + 1
  /\ log' = [log EXCEPT ![task[k].job] = WithMissed(@, IF task[k].pc = "log" THEN 1 ELSE 0)]
  /\ task' = [task EXCEPT ![k] = IdleTask]
  /\ UNCHANGED <<now, jobs, attempts, raced, repeated, forgotten, issued, requests>>

-----------------------------------------------------------------------------
Edit(k) ==
  /\ task[k].pc = "idle"
  /\ requests < MaxRequests
  /\ requests' = requests + 1
  /\ UNCHANGED <<now, jobs, attempts, log, forgotten, faults>>

(* A new job goes to the end of whatever could be read.                    *)
Create(k, j) ==
  /\ Edit(k)
  /\ j \notin issued
  /\ issued' = issued \cup {j}
  /\ \E list \in Loaded(k), s \in Schedules, enabled \in BOOLEAN :
       Begin(k, j, [i \in DOMAIN list \cup {j} |->
                      IF i = j THEN Created(s, enabled, now) ELSE list[i]])
  /\ UNCHANGED repeated

Update(k, j) ==
  /\ Edit(k)
  /\ \E list \in Loaded(k), s \in Schedules, enabled \in BOOLEAN :
       /\ j \in DOMAIN list
       /\ \E sent \in {0, list[j].nextRun} :   \* made up, or read before
            Begin(k, j, [list EXCEPT ![j] = Updated(s, enabled, sent, now)])
  /\ repeated' = repeated \cup {j}
  /\ UNCHANGED issued

Delete(k, j) ==
  /\ Edit(k)
  /\ \E list \in Loaded(k) :
       /\ j \in DOMAIN list
       /\ Begin(k, j, Restrict(list, DOMAIN list \ {j}))
  /\ UNCHANGED <<repeated, issued>>

(* Then its log, if there is one.                                          *)
Forget(k) ==
  /\ task[k].pc = "forget"
  /\ log' = [log EXCEPT ![task[k].job] = NoLog]
  /\ forgotten' = forgotten \cup {task[k].job}
  /\ task' = [task EXCEPT ![k] = IdleTask]
  /\ UNCHANGED <<now, jobs, attempts, raced, repeated, issued, requests, faults>>

(* save_jobs, of every writer.                                             *)
Write(k) ==
  /\ task[k].pc = "write"
  /\ jobs' = task[k].list
  /\ task' = IF k \in Firers THEN [task EXCEPT ![k].pc = "log"]
             ELSE IF task[k].job \notin DOMAIN task[k].list
                  THEN [task EXCEPT ![k].pc = "forget"]
                  ELSE [task EXCEPT ![k] = IdleTask]
  /\ UNCHANGED <<now, attempts, log, raced, repeated, forgotten, issued, requests, faults>>

(* The list cannot be saved: the file keeps what it had, or has nothing    *)
(* left.  A request is refused; a firing ends without its record.          *)
WriteFails(k) ==
  /\ task[k].pc = "write"
  /\ faults < MaxFaults
  /\ faults' = faults + 1
  /\ jobs' \in {jobs, NoJobs}
  /\ task' = [task EXCEPT ![k] = IdleTask]
  /\ IF k \in Firers
     THEN /\ log' = [log EXCEPT ![task[k].job] = WithMissed(@, 1)]
          /\ repeated' = repeated \cup {task[k].job}
     ELSE UNCHANGED <<log, repeated>>
  /\ UNCHANGED <<now, attempts, raced, forgotten, issued, requests>>

(* The node dies and comes back.  A list caught in a write is unreadable,  *)
(* which is as good as empty.                                              *)
Crash ==
  /\ faults < MaxFaults
  /\ faults' = faults + 1
  /\ \/ UNCHANGED <<jobs, raced>>
     \/ /\ \E k \in Tasks : task[k].pc = "write"
        /\ jobs' = NoJobs
        /\ raced' = TRUE
  /\ task' = [k \in Tasks |-> IdleTask]
  /\ repeated' = repeated \cup {j \in Jobs : InFlight(j) # {}}
  /\ log' = [j \in Jobs |-> WithMissed(log[j], Cardinality(Pending(j)))]
  /\ UNCHANGED <<now, attempts, forgotten, issued, requests>>

(* What a task does once it is under way.                                  *)
TaskStep(k) ==
  StartReturns(k) \/ MarkLoad(k) \/ Write(k) \/ Log(k) \/ EndLine(k) \/ Forget(k)

Next ==
  \/ Tick
  \/ \E k \in Firers, j \in Jobs : RunNow(k, j)
  \/ \E k \in Editors, j \in Jobs : Create(k, j) \/ Update(k, j) \/ Delete(k, j)
  \/ \E k \in Tasks : TaskStep(k) \/ LogFails(k) \/ WriteFails(k)
  \/ Crash

(* tokio runs the loop and every task it spawned; requests and crashes     *)
(* need not come.                                                          *)
Fairness ==
  /\ WF_vars(Tick)
  /\ \A k \in Tasks : WF_vars(TaskStep(k))

Spec == Init /\ [][Next]_vars /\ Fairness

-----------------------------------------------------------------------------
(* Type invariant of the list, its writers and the histories.              *)
TypeOK ==
  /\ now \in 0..Horizon
  /\ IsList(jobs)
  /\ DOMAIN task = Tasks
  /\ \A k \in Tasks : /\ task[k].pc \in Stage
                       /\ task[k].job \in Jobs \cup {NoJob}
                       /\ task[k].manual \in BOOLEAN
                       /\ IsList(task[k].list)
  /\ attempts \in [Jobs -> Nat]
  /\ log \in [Jobs -> [lines: Nat, tail: Nat, joined: Nat, missed: Nat]]
  /\ raced \in BOOLEAN
  /\ repeated \subseteq Jobs /\ forgotten \subseteq Jobs /\ issued \subseteq Jobs
  /\ requests \in 0..MaxRequests /\ faults \in 0..MaxFaults

(* A once-job that nobody edits or runs by hand fires at most once, unless *)
(* one of the things happens that nothing in the code prevents: the loop   *)
(* takes it up again while its start is not yet marked or after its mark   *)
(* could not be saved, a load and a write of the list interleave with      *)
(* another write, or the node crashes in between.                          *)
OnceUnlessRaced ==
  ~raced => \A j \in DOMAIN jobs \ repeated :
    jobs[j].schedule.type = "once" => attempts[j] <= 1

(* What load_history answers against what was fired, whatever the races do *)
(* to the list itself.  Until a job's log is deleted, a firing that is     *)
(* over has its record, except those cut off by a failed write or a crash, *)
(* which are counted, and those of records joined on one line: each record *)
(* put on a line without an end costs itself and one other at most.        *)
LogComplete ==
  \A j \in Jobs \ forgotten :
    LET over == attempts[j] - Cardinality(Pending(j)) - log[j].missed
    IN  Records(log[j]) <= over /\ over <= Records(log[j]) + 2 * log[j].joined

Waiting(j) == j \in DOMAIN jobs /\ jobs[j].enabled /\ jobs[j].nextRun <= now

(* A job that is due is taken up (or dropped from the list, or disabled):  *)
(* the loop never goes on passing over it.                                 *)
DueFires == \A j \in Jobs : Waiting(j) ~> (~Waiting(j) \/ InFlight(j) # {})

(* scheduler.rs:7, "run exactly once at a given Unix timestamp", of jobs   *)
(* nobody edits or runs by hand.                                           *)
RunExactlyOnce ==
  requests = 0 => \A j \in DOMAIN jobs : jobs[j].schedule.type = "once" => attempts[j] <= 1

=============================================================================
