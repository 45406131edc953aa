# A model of the APOLLO node

APOLLO (Rust, `crates/`) runs AI agents as operating-system processes on a
node, for many tenants, and drives them through an HTTP API: start and stop,
workflows, scheduled jobs, messaging, policies, metering. This directory holds
TLA+ modules of the parts whose correctness depends on the order in which
things happen, TLC configurations that check them on small instances, and
proofs, checked by TLAPS, of what holds for every instance.

One trait of the code shapes every module: **all state is in JSON files, and
nothing locks them**. A request loads a whole file, changes it, and writes it
back with `fs::write`, which truncates first. The runtime is multi-threaded
tokio, and the command line is a second process on the same directory. So a
load and the save that follows it are separate actions everywhere below, a read
may find a file another task is rewriting, and a crash may leave one truncated.

## 1. Inventory

| component | source | state | operations |
|---|---|---|---|
| node runtime | `apollo-runtime/process.rs`, `apollo-node/main.rs` | process table, `.apollo.pid` files, `instances/{tenant}.json` | run, stop, deploy, CLI run/stop, exit, crash, recovery |
| workflow engine | `orchestration.rs`, `main.rs:1800-1931` | one run file per run | create, execute wave by wave, finalise |
| job scheduler | `scheduler.rs`, `main.rs:1489-1544, 2066-2167` | `scheduler/jobs.json`, one log per job | loop, fire, mark, create/update/delete, manual run |
| message bus | `messaging.rs`, `main.rs:2290-2330` | `messages.jsonl` and `meta.json` per topic | publish, poll, clear, expire |
| agent registry | `agents.rs` | registry file, code directories, versions | register, rollback, remove |
| packages and runtimes | `fetch.rs`, `runtime_registry.rs`, `detect.rs` | staging directories, `runtimes/{kind}/` | fetch, check, install, launch |
| groups and blueprints | `orchestration.rs`, `main.rs:1557-1760` | one file per entity | save, delete, run/stop all members |
| usage metering | `usage.rs`, `main.rs:2001` | one file per tenant | start, stop, sample, reset |
| health | `health.rs`, `main.rs:2026` | one record per instance | sample, crash, score |
| alerting | `alerting.rs` | rules file, history | create, delete, evaluate, fire |
| policy | `policy.rs` | one file per tenant | check run, tool, model |
| memory, traces, secrets | `memory.rs`, `tracing.rs`, `secrets.rs` | a file per agent, per trace and an index, per tenant and one key | put, delete, clear, expire; post, finalise; upsert, delete, load at a start |
| model router | `model_router.rs` | registry of models, usage records | register, remove, feedback, route |
| architecture selector | `arch_selector.rs` | none | advise, classify |
| webhooks | `webhook.rs` | none | post with two retries |
| hub | `apollo-hub/main.rs` | nodes file | poll, scale, add, pick the best node |
| operator | `apollo-operator/main.rs` | none of its own | reconcile |

How they interact: handlers, blueprints, groups, workflows, jobs and recovery
all call the one `ProcessRuntime::start`, which sweeps, spawns and writes the
pid file, and then `save_instance`. The metering and health loops read the
instance lists. The hub polls nodes over HTTP, the operator posts to one.
Nothing calls back.

What is hard: interleaved read-modify-write of a file (every component);
processes that outlive the node, and a recovery that infers them from stale
files (node runtime); background tasks that die with the node (workflow
engine, scheduler); tasks that outlast the period of the loop that spawned
them (scheduler); write errors that are ignored, `let _ = fs::write(..)` (all of
them); counters that restart (message bus); records that a later start leaves
behind (node runtime, health). `PROJECT.json` lists each at its line under
"hazards".

What makes each component correct is stated in its section below.

## 2. Modules

### WorkflowEngine, WorkflowView

`handle_workflows_run` and `run_workflow_parallel`. The engine reads its run
file back before each decision, so the file (`file`, `verdict`, `status`) is
the state and `pc`, `wave`, `outcome` are what the task keeps between two
reads. One action per step of the loop: `LoadRun` decides (leave, launch,
finalise or sleep), `MarkWave` and `RecordWave` save, `Launch(s)` is one future
of the wave, `Finalize` writes the verdict. `Save` is `let _ =
save_workflow_run(..)`: it succeeds, or it is lost and leaves the old file or a
garbled one. `Crash` kills the task anywhere; nothing resumes it.

`WorkflowView` is the abstract specification: what a client that polls the run
may rely on. `WorkflowEngine` implements it with the identity on `def`, `file`,
`verdict` and `status` (property `ViewSpec`, theorem `Refinement`).

Step ids are taken to be unique here; the status `Cancelled` is left out because
no code assigns it.

### WorkflowOnNode

The same loop over a definition as a client may send it, a list of steps in
which ids and agents repeat, together with the processes that its launches
leave. `First` is every lookup by id. A later start of an agent kills the
process of an earlier one, within a wave too, and `agent_pid` keeps the pid of
the dead one. A definition with an id twice launches the first step of that id
once per duplicate and the others never, and its run gets no verdict.
`RunServed` says what a run that completed leaves behind; its exceptions are
agents that others touched, those whose last start killed and then failed, and,
for the pid in the record, agents of a step that was started in vain
(`Unnamed`): both saves of its wave are lost (`let _ = save_workflow_run`), so
the engine launches the optional step again, that launch fails, and the step is
recorded as skipped while the process of the first launch runs, having killed
the one that the record names. It takes three failures in one run; the attempt
to prove `RunServed` without this exception found it. It is one more part of
`Stores`.

### NodeRuntime

One action per access to a file or to the process table by every task that starts
or stops an agent. A start is a sweep (`SweepRead` reads the pid file, `SweepLook` takes
the process table, `SweepKill` kills what is there, `SweepUnlink` removes the
file), then `Spawn`, `WritePid`, and `save_instance` as a load and a save; a stop is
`kill -> write`. So a sweep that comes late removes the pid file of a newer
start. Recovery uses the same steps of a start and then its own scan. The CLI
tasks survive a crash of the node, the API tasks do not; one of each is enough
for any two to meet.

What fails: a read or write of a file (`MaxFailures`). The write of a pid file is
`let _ =`, and a process whose pid file was not written is found by no later
sweep: `unmarked` are the processes that no pid file names, because of that, of
a crash before the write or of a pid file that could not be read. A list is
written by `fs::write`, which truncates first, so a failed write and a crash may
leave it `cut`: no reader can parse it until somebody writes it whole, and what
nobody could read nobody writes back. `Torn` is a read of a list that is being
rewritten: a start drops the error and leaves its process unrecorded, a stop
answers 404, an admission check counts it as empty.

History variables say what a property may except: `raced` the agents two starts
of which overlapped, `unmarked` the processes above, `unread` the tenants whose
list recovery could not parse, and `disturbed` the agents whose process ended,
was stopped or could not be started while the node recovers. `listed` is what
the lists on disk said when the node started, and recovery is held to that, not
to its own copy. The policy is reduced to the pairs it denies (`Blocked`) and a
number per tenant. Recovery interleaves the tenants' lists, since the code takes
them in directory order, and decides from one snapshot of the process table.

### JobScheduler

The list `jobs` as a function on the ids it holds, the loop (`Tick`), the tasks
it spawns (`StartReturns`, `MarkLoad`, `Write`, `Log`) and the editing
requests, which share `Write`. `Loaded` is what `load_jobs` may return: the
file, or the empty list while somebody rewrites it. A firing is logged in two
writes, since `writeln!` on an unbuffered file writes the record (`Log`) and the
end of the line (`EndLine`) one after the other: `log[j]` counts the lines of
one record, which are all that `load_history` returns, the records on the line
that has no end yet, and for the property those that were put on such a line
and those never written. Each write may fail, and a list that cannot be saved
ends `mark_fired` before the log. Time is counted in periods of the loop (30 s),
so the constants 60 s and 86400 s become 2 and `Day`. Cron schedules are left
out here; they are `CronSearch`.

### MessageBus

One topic. `publish` is four actions, because the text and the newline are two
writes; `log` therefore keeps lines, and a line parses only if it holds exactly
one message. `Parsed` are the positions of those lines, `Ahead` and `Fresh` those
a poll finds behind its cursor and gives out. Each write may fail
(`AppendFails`, `SaveMetaFails`): a failed append answers 500 and, if it was the
newline, leaves the line open for the next message; a meta file that was not
saved is ignored, so publish answers 201 and the next message gets the same
number (`unsaved`). `remove_dir_all` is three removals in directory order. Consumers are external and go on from the highest number
they were given.

### HubPoller

The hub and the `apollo-hub add` command on one nodes file. A turn is `Tick`
(spawn the polls), `Check` (the alarm, while the answers are still under way),
and per node `Merge`, `SaveOpen`, `SaveWrite`; the command is `AddLoad`,
`AddOpen`, `AddWrite`. Here the file itself is modelled through `fs::write`:
truncated first, and `garbled` when two writers overlap. What a node answers is
the environment (`Change`): its load, whether it answers, and its `room`, the
`max_agents` it was last started with, which the hub takes from every answer.
`Capacity` is only the most that a node is ever set up for. Sums over the fleet
count its places: `Total(field)` is the size of the set of pairs of a node and a
place up to its number. The back-off counts (5 failures, every sixth turn) are
constants. The catalog and a save that fails are left out.

### HealthMonitor, Alerting, Monitoring

`HealthMonitor` is the health loop and its records. `HealthLoad` reads the
instance lists, `HealthScan` the process table, `Check(p)` updates the health
record of one instance's agent, or fails to write it; agents are started and
stopped meanwhile in two steps each (`StartBegins`, then `StartListed`,
`StartUnlisted` or `StartFails`; `StopBegins`, then `StopListed` or
`StopUnlisted`), because the process goes before the list says so, and because
the errors of both saves are ignored. `listed[a]` is the sequence of an agent's
instance records, of which `save_instance` appends one per start unless the id,
agent and second, was had before: a start over a running agent leaves the old
record running with the pid of a process that is gone. `last[a]` is the record
of the agent's last process. Recovery starts the agent once for each such
record, the later start ending the process of the earlier one. `Alerting` is the rules file: a round of the loop
is `AlertLoad`, one `Evaluate(r)` per rule with the delivery in it, and
`AlertWrite` if any rule fired; a request is `Create` or `Delete`, which load
the file, and `EditWrite`. Its variables `breached` and `missed` are inputs:
the rules whose metric can be read to be over the threshold, or not to be.
`Monitoring` composes the two and substitutes for them what `evaluate_metric`
finds in the health records, of which one that is being written cannot be read.

Times are ages in rounds. What a rule's firing left behind is told apart by
history variables: `since` is when it really fired, `forgotten` says that the
mark was lost, `believed` what the last edit promises. The score keeps crashes
and one penalty for cpu and memory; latency and OOM are never reported by the
loop, and `record_restart` is never called.

### The stores: UsageMeter, SecretStore, MemoryStore, TraceLog, PolicyEngine, ModelRouter, AgentRegistry, RuntimeInstall, AgentGroups

Nine modules on files that share nothing with each other, each with its own
variables, next-state relation and properties. `Stores` instantiates all of
them, WorkflowOnNode and the two calculations below, and sets them side by side:
the variable `part`, chosen by `Init`, says which one a behaviour is about.
`MCStores` gives its constants values; the theorems are about `Stores` itself. Loads and saves
are separate actions here too, and every module has a crash or a failure. A
property that a race can break says so in its antecedent, by a history variable
that is set exactly by the steps that race; the hazard's entry in `PROJECT.json`
says which loss the code then allows.

* `UsageMeter`: one tenant's usage file under the handlers and the metering
  loop. Lost updates lower the counts; none but a late write over a reset
  raises them. A start over a running agent counts an instance that no stop
  takes off (`drifted`).
* `SecretStore`: each tenant's encrypted file and the master key all of them
  share, which whoever finds no 32 bytes in its file makes anew. A file that
  does not decrypt reads as empty, and the next upsert makes that permanent.
  `SecretsKept` excepts tasks that were making the key at once, but not a crash
  in the middle of it: whoever comes next makes another, and nothing was
  encrypted with the first.
* `MemoryStore`: one agent's memory. Only a put prunes what has expired; a put
  over an entry that is alive keeps its `created_at`, so that its time to live
  counts from then. The property checks that rule; guide.rs:347 states another.
* `TraceLog`: spans, summaries and the bill. `writeln!` is two writes, as in
  MessageBus. Finalising twice bills twice; a span posted after it is not billed.
* `PolicyEngine`: `check_run` against the list and the policy, which are read
  long before the agent is listed; nothing is reserved in between. `Bypass`
  is whoever starts an agent without asking: blueprints, groups, jobs,
  workflows.
* `ModelRouter`: the registry of models, which every feedback rewrites whole,
  and `Route`, asked every request of a set in every state of the registry. Cost
  and latency filter; what chooses is the preference, then the priority.
* `AgentRegistry`: the registry file, the code directories and the backups,
  copied file by file, with a failure possible at each. `dirs` maps a directory
  to the package each file came from.
* `RuntimeInstall`: a registration up to the copy: staging directory, fetch,
  checks, `ensure_runtime`, installation. `Available` is what registration
  looks at, `Launchable` what a start finds: another PATH and other rules. The
  exceptions of `PackagesRun` are real: a command whose binary nobody looks for,
  a download under another name, a file written half and never replaced.
  A fetch that fails returns before `cleanup_staging`.
* `AgentGroups`: a group's members started or stopped one after another, with
  the copy of a tenant's list kept over two seconds for each, against requests
  for single agents and edits of the group.

### CronSearch, ArchSelector

Calculations, one action per round of the code's loops, so that what the loop
keeps can be checked too, against definitions written without the code's method.
`CronSearch` is `next_cron`: the reference counts the days of the calendar
forwards and takes the first that the expression names, which is the code's
reading of it: all five fields hold, also when both the day of the month and
the day of the week are restricted, where POSIX takes either. (Two things a reader
may stumble over: a job for 29 February that is due that very minute finds
nothing within 1460 days, so `mark_fired` falls back to a day later; and a step
of zero panics.) `ArchSelector` is `analyse_dag`, `check_governance`, the scores
and the configuration. Its scores are kept in tenths, which is exact; reasoning
and confidence are left out. Note that the comment at arch_selector.rs:321,
"don't allow multi-agent", is a penalty only: `AdviceSound` names the case in
which it does not suffice.

### Operator

`reconcile` of one resource: `Reconcile`, `Register`, `Count`, `RunAgent` (one
call of the node), `PatchStatus`, and around it `Change`. `CountRunning` is the
constant 0, because the keys it reads are not in the answer; so the branch that
stops replicas is never reached, and for zero replicas "Stopped" is written with
no call at all. A resource that is deleted is just not reconciled any more: the
header's "CRD deleted: stop agent" has no code.

### Proof modules

`WorkflowEngineProofs`, `NodeRuntimeProofs`, `JobSchedulerProofs`,
`MessageBusProofs`, `HubPollerProofs`, `MonitoringProofs`, `StoreProofs` and
`AgentProofs`, see section 5.

Each MC module only names model values and the inputs. Operators named
`X_Something` are mutants of the operator `X`: plausible slips of the code that
a property of a run is known to catch. They are not part of any specification.

## 3. Runs

| run | shows | size |
|---|---|---|
| `workflow` | order of launches, bound on repeated launches, truth of the verdict, termination, the contract of the run file | 520 definitions of three steps, 3 lost saves, 1 crash; 546,780 states |
| `workflow_failure` | *violated*: report.md:167, a failed mandatory step terminates the run | chain of 3 |
| `node` | isolation, one process per agent, recovery | 1 tenant, 2 agents, 1 API task, 1 CLI, 3 pids, 3 requests, 1 crash, 1 failed read or write; NODESTATES |
| `node_orphans` | *violated*: docs/sla.md:157, no orphan after recovery | 1 task, 1 crash |
| `scheduler` | once-jobs, complete logs, due jobs fire | 2 jobs, 2 firing tasks, 1 request, 1 crash or failed write, 3 periods; 1.04 M states |
| `scheduler_once` | *violated*: scheduler.rs:7, a once-job runs exactly once | 2 jobs, no request, no crash |
| `bus` | what a consumer can miss and why | 3 messages, 2 publishers, 1 clear, 1 crash or failed write |
| `hub` | where `/nodes/best` ends up, how often the alarm is sent | 2 nodes, room for up to 2 agents, 2 changes of load, room or answer, 1 crash; 1.46 M states |
| `hub_files` | which registrations can be lost | 2 nodes, 2 commands, 1 crash; 1.59 M states up to symmetry |
| `monitoring` | which crashes are recorded, what alerts follow, which edits and cooldowns the loop's late write can undo | 1 agent, a rule on its crashes and one on the fleet, 1 editing request, up to 2 records in the agent's list, any 2 disturbances (request, death, restart, edit, failed save); 645,189 states |
| `stores` | what survives on each of nine stores when two tasks and a failure meet on it; the processes a completed workflow leaves; cron times and advice against their references | 2 tasks, 3 or 4 requests, 1 crash or failure per store; 1 event and 3 failures per workflow (`MaxUnsaved`); 3 starts for each cron expression; all graphs of 3 steps; 1.95 M states up to symmetry |
| `operator` | *violated*: main.rs:61 of the operator, the desired number of replicas | 2 replicas, room for 3, 1 change; 1,422 states |

Why the bounds are enough. The hazards are races between two tasks, or one task
and a crash; every run has at least two tasks on one file, one crash, and one
request more than tasks, so that a task can be followed by another that finds
what it left. Three steps make every shape of dependency that matters (chain,
fork, join, cycle) and each set of optional steps, on 64 graphs, and eight more with
a dependency that names no step, and three lost saves exceed the two a
repeated launch costs. Three pids are one more than two agents use, so a
superseded process can be told from its successor. In `scheduler` two jobs fall
due in one period and the model goes on after the once-job's. One
tenant suffices in `node` because tasks meet only through one tenant's list;
the theorem `Isolation` covers any number.

In `monitoring` the window of 300 s is 3 rounds instead of 10 and the cooldown
2 instead of 10: the window must hold the four crashes at which the penalty is
capped, and a rule must be able to be in its cooldown and out of it. One agent
is enough because records are files of their own; a rule on a score reads the
same number as a rule on a fleet of one, so only the latter is in the run. Any
two disturbances may come together, with both loops running on without bound. Two
records are one more than an agent needs: the second is that of a start over a
running agent, and in that state everything a third could do happens already.

In the hub's runs the back-off is scaled down to 2 failures and every third
turn: what matters is that a node can be in it and that turns pass. Nodes begin
with room for one agent (`Rooms`), so that the fleet is at 0, 50 or 100
percent: with a threshold of 60, 50 lies between the alarm and its reset at 42. A
node started again with room for two brings it to 33 percent, below the reset,
though no load fell. Symmetry is used in `hub_files` only, which has no
liveness property.

In `stores` a part has two tasks, so any two operations can overlap, and one
request more, so that what they leave is found by another; where the property
relates a file to what came before it (usage, traces, policy), two more. Symmetry
exchanges the tasks only. The numbers that the code compares are scaled to the
other side of each comparison: a time to live of 1 and of more than the run, a
limit of 1 below a node's capacity of 2. The cron starts are the last second of
a year, the last minutes of a 29 February and a day in a plain year; the
expressions have every combination of free and named fields, and some that do
not parse. TLC's integers end in 2038, so the search from 2027 is as far as it goes.

### Where the code and its own text disagree

The four violated runs are statements of the repository's own documentation
that the code does not keep. Elsewhere a run passes because its property says
what the code does, and a comment or a guide says something else; the
property's comment names the line. `PROJECT.json` "findings" explains each.

| said | done | seen in |
|---|---|---|
| report.md:167: a failed mandatory step terminates the run | the loop sleeps for ever when another step depends on it | `workflow_failure` |
| docs/sla.md:157: no orphan remains after recovery | a process that was spawned and not recorded does | `node_orphans` |
| docs/sla.md:78-81: agents are not re-launched after a crash | `startup_recovery` starts every recorded one | `node`, `RecoveryRestores` |
| scheduler.rs:7: a once-job runs exactly once | twice, when two marks overlap | `scheduler_once` |
| main.rs:61 of the operator: the desired number of replicas | as many as the node has room for | `operator` |
| main.rs:2043: a pid that is not there is a process gone | also the pid of a record that a later start left behind; a crash of the agent is counted for it in every round | `monitoring`, `CrashesAreReal` |
| alerting.rs:33: fleet utilization is active/capacity | what the average health score lacks to 100: a dead fleet is at 60% or more, one without records at 100% | `monitoring`, `DeathIsAlerted` |
| alerting.rs:31: crashes in the window | crashes ever counted | `monitoring`, `DeathIsAlerted` |
| guide.rs:347: the ttl counts from now | from when the key came to life, if it is still alive | `stores`, `MemoryKept` |
| model_router.rs:233, guide.rs:391: ranked by cost and latency | the preferred, then the lowest priority | `stores`, `RoutedWell` |
| scheduler.rs:231, guide.rs:416: POSIX cron fields | day of month and day of week must both match | `stores`, `CronExact` |

Three more were met that no property is about: sequence numbers are not monotone
under concurrent publishers (messaging.rs:27; `NothingSkipped` exempts them,
`raced`), a node added to a running hub stays unknown to it (Scenarios.md:119;
`RegistrationKept` exempts it), and a record is never left Dead, "process not
found" (health.rs:34), because `record_crash` recomputes the status from the
score right after the loop sets it.

## 4. Fairness

* `WorkflowEngine`: weak fairness of the engine's next step. It is a spawned
  task that tokio keeps polling; it never waits on anything but timers, file
  operations and process starts, which all return. The crash and the client's
  request are not due.
* `JobScheduler`: weak fairness of the loop and of each spawned task, for the
  same reason.
* `MessageBus`: weak fairness of each consumer's poll, an assumption about the
  agents: the bus itself promises nothing to those that do not ask.
* `HubPoller`: weak fairness of the poller, of each poll (its requests have a
  timeout of 3 s) and of a command that has begun. Nothing obliges anyone to
  start the hub or to add a node: RoutingConverges assumes a hub that stays up.
* `Monitoring`: weak fairness of the two loops, which sleep 30 s and go on for
  ever, and of the write of a request that has read the rules. Nothing obliges
  an agent to start, stop or die, and DeathIsAlerted assumes one that stays dead.
* `Operator`: weak fairness of the operator's steps: the controller requeues a
  resource after 30 s, or 60 s after an error, for ever.
* `NodeRuntime` and the modules of `stores`: none. All their properties are
  safety properties.

## 5. Proofs

`WorkflowEngineProofs` proves, for every finite or infinite set of steps, every
set of definitions and every number of lost saves:

* `TypeCorrect`, `Ordering` (DepsBeforeLaunch), `Budget` (RelaunchBudget),
  `Soundness` (VerdictSound), from one inductive invariant. RelaunchBudget is
  not inductive: that a launched step is Pending in the file says nothing of
  how many saves it cost. The invariant says, for each place of the loop, how
  many lost saves the launches of a step have already used: a step that is
  still Pending in a readable file has cost two for each launch, or one less
  while it is in the wave in flight; one that is in the wave and not launched
  yet has paid for all its launches, and one more if its Running mark was lost.
  The rest of it says that a step that is not Pending or is in the wave has its
  dependencies satisfied, and that the wave is frozen while it is launched.
* `Refinement` (ViewSpec): every step maps to a step of WorkflowView or leaves
  its variables unchanged.

`NodeRuntimeProofs` proves, for any number of tenants, agents, tasks, requests
and crashes, **assuming the kernel does not reuse pids** (`FreshPids`):

* `Isolation`: no signal crosses from one agent to another. The invariant ties
  every place where a pid is kept (pid files, records, the copies of stale
  lists in tasks, recovery's image) to the agent that pid was spawned for;
  without pid reuse that tie never breaks, however stale the copy.
* `AtMostOne` (SingleInstance): every live process of an agent whose starts
  never overlapped, apart from those no pid file was written for (`unmarked`), is
  either in the agent's pid file or the one the single start in progress has
  just spawned. `LiveInv` says where a sweep may stand meanwhile: one that has
  read the pid file holds this very pid until it has killed it, and only then is
  the file removed.
* `StopEffective`, `TypeCorrect`.
* `RecoveryComplete` (RecoveryRestores): once recovery has gone through the
  lists, every agent that the lists on disk had as running is served again,
  unless its tenant's list could not be parsed (`ListedInv`) or something outside
  recovery disturbed it. RecoveryRestores speaks of the end of the scan only;
  `RestoreInv` says it of every record the scan has passed, and of those whose
  process is in recovery's snapshot, which it will skip. A process that recovery
  sweeps away may be the one that a settled record relied on, so the invariant
  lets the agent wait for the start that recovery, or a command, is about to
  make, and notes that a start of recovery which wrote its pid file has a
  process. `ServingInv` adds that requests wait until the node serves.

The assumption is needed: with `ReusePids = TRUE` a stale pid file can name
another tenant's process after the pid went around, and the sweep kills it; and
a pid in recovery's snapshot would no longer tell whose process it is.

`JobSchedulerProofs` proves, for any finite sets of jobs and firing tasks, any
editors and schedules, and any number of requests, crashes and failed writes:

* `TypeCorrect` and `LogsComplete` (LogComplete). What `load_history` finds can
  fall as well as grow: a record put on a line that has no end spoils the one
  that is there. The bounds are inductive with the types all the same
  (`Balanced`): each step changes the lines, the firings that are over and those
  never written together, and a record that joins a line costs two at most
  (`BalanceKept`, `LogStep`).
* `Once` (OnceUnlessRaced). That a once-job fired at most once is not inductive:
  nothing in it keeps a task from writing an old list that still has the job
  enabled. `WriterInv` says that without a race one task at most is about to
  write, and that its list differs from the file in its own job only; `OnceAt`
  that a once-job which is enabled and not in flight has not fired, that one
  task at most has it in flight, and that it is disabled in the file before that
  task logs; `IssuedInv` that an id never issued has left no trace, which a
  created job needs.

`MessageBusProofs` proves, for any finite set of messages and any publishers,
consumers, clears and crashes:

* `TypesHold` (TypeOK). Numbers are bounded by the messages there are; that
  `meta` is at most the number of messages sent (`NumbersFit`) is what makes
  this inductive.
* `DamageBounded` (DamageBound): without an overlap or a clear, no more
  acknowledged messages are unreadable than crashes and failed writes of the
  newline cut a line. A cut costs nothing at once, but the next message is written on the line it left, so
  `LossInv` counts a line that is already spoiled as a loss to come, against the
  same cut; and says that a publication has the file to itself, what its line
  ends with, and that nothing on an open line is acknowledged.
* `CursorsSkipNothing` (NothingSkipped): what was acknowledged and is not given
  to a consumer is still ahead of its cursor or has expired, as long as nothing
  disturbs the topic, an ignored failure to save the meta file included. `OrderInv` says why: numbers grow along the log and none
  exceeds `Tip`, so that a cursor that moves to the highest number it was given
  passes nothing that comes later.

`HubPollerProofs` proves, for any finite set of nodes, any commands, turns and
crashes:

* `TypesHold` (TypeOK) and `RegistrationsKept` (RegistrationKept). A
  registration is safe in the file as long as every list that somebody is about
  to write has it: `KeptInv` says so of the hub's copies, which come from its
  memory, and of a command's, which come from the file, and that a command that
  still counts as alone has nobody beside it.
* `AlarmsBounded` (AlarmBound). Each alarm must be paid for: `AlarmInv` keeps a
  credit, the nodes of which the hub counts more load or less room than they
  have, and one more while the alarm is armed, and shows that the alarms sent and
  the credit left never exceed what the starts of the hub, the drops in load and
  the rises of a node's room have brought.

`MonitoringProofs` proves, for any finite set of agents and any rules, editors,
window and cooldown:

* `CrashesReal` (CrashesAreReal, an action property): a record's count of
  crashes grows only for an agent that died or that a request was handling, or
  for an instance record that a later start left behind. The loop compares two
  snapshots taken at different moments; `LostIsKnown` says of each of its places
  that an agent whose last record is in the first and whose process is not in the
  second is accounted for by one of those two reasons.
* `TypesHold` (TypeOK), `CooldownsKept` (CooldownKept), `EditsKept`
  (RulesAsEdited). `MarksKept` says that no list makes a rule's last firing
  older than it was: the loop's copy never, the file and the requests' copies
  once the loop has saved; `ListsBelieved` that each list which will be written
  holds every rule that is believed to be there, and a request's every one but
  its own.

`StoreProofs` proves, for any tenants, agents, keys and policies and any number
of tasks, requests and crashes, about six of the stores and about a workflow.
`Steps` reduces a step of `Stores` to one of the store that the behaviour is
about; each invariant below is then claimed under its own `part`.

* `Honest` (MeterHonest). `UsageInv` compares what a task is about to write
  with what will have happened once it has written: never more, as long as no
  reset was overtaken; exactly that, and only one task holding the file, without
  a race; and the running instances agree with the list up to the event of the
  one task that has changed it and not yet the file.
* `Held` (PolicyHeld). Nothing is reserved between a check and the start it
  allows, so the limit itself is not kept. `PolicyInv` counts who was let in
  together with the requests that were allowed and are not listed yet: each was
  let in while the list was below the limit, so there are fewer than the limit
  plus the number of tasks.
* `Kept` (SecretsKept). `KeyInv` says that while one task alone makes a key
  there is none, in use or in any file, so that nothing was promised yet and no
  key is ever replaced that a file depends on; `HeldInv` that a tenant's file
  holds what was promised until its one writer has cut it, and that the writer
  then holds it, with the key that is in force.
* `Remembered` (MemoryKept). The file and what is kept differ in the expired
  entries that only a put removes, so they are compared as readers see them at a
  time (`Same`). `SameInv` says that they look the same now, and that the copy of
  the one task that is saving will, however long it takes; `Later` that what
  looks the same at one time does at all later ones.
* `RunsServe` (RunServed), for any definitions with any ids, dependencies and
  agents, and any number of failures. Statuses are kept at the first step of an
  id, so a definition with an id twice never ends (`Distinct`), and only a run
  that can end has to keep books. `Owned` follows the process of an agent that
  nobody else touched to the step it was started for: in the record as soon as
  that step is recorded as completed, in the hands of the engine before, or
  lost with a save, and then the step is still to be launched, or stuck, or
  skipped. `Lone` says that an agent has no process but the one its pid file names. That the lookup
  by id finds a step at all (`Found`) is the least-number principle, taken from
  the library's theorem that the natural numbers are well-founded (`Least`). The
  proof needs that the agents of a definition are agents of the node.
* `Routed` (RoutedWell). `RouterSame` says that the file holds the records that
  the requests left, or, while one request saves, that its copy will; `RouterOnce`
  that ids are unique in the file and in every copy, so that an id stands for a
  record. What `Route` computes from such a list is a lemma (`RouteFacts`) that
  needs no invariant: its model is the best of those that can serve, `Nth`
  enumerates what is left (`Places`), and so the fallbacks are the others, each
  once. The proof needs that the files a node starts with hold an id once, as
  `register_model` sees to (model_router.rs:151).
* `Charges` (TokensBilled). `FilesTrue` says that, as long as no lines were
  joined, the last line of each span in the file of its trace is what the span
  reported last, so that the sum over the last lines (`Summed`) is the cost of
  the trace (`SummedIs`). `Expected` says that what waits to be written is that
  cost and that each trace was summed up as often as it has summaries, written
  or waiting; `Billed` follows the sum of what is written against the charge:
  each summary adds the cost to one and the cost, rounded down to an even
  number, to the other. A post changes a cost that no summary holds, or the
  trace is late. Sums are numbers of pairs (`Total`), so that the lemmas about
  them are about the cardinalities of finite sets. The proof needs that traces
  and spans are finitely many and that each span belongs to one trace.

`AgentProofs` proves, again under `Stores`' own `Spec`, about three more and about
the advice on a workflow, for any tenants, agents, packages, group members, tasks,
requests and failures:

* `Truthful` (RegistryTruthful). RegistryTruthful speaks of the moments at which
  nothing is under way, and a change goes through many: `Staged` says for each
  stage of one (`BackingUp`, `Copying`, `Saving`) which of the registry, the
  agent's directory and its backup it has altered already, and what its copy of
  the registry will make of them. `Alone` says that a task which another overlaps
  for the same agent or for the registry file is among those that are hurt, and
  `Loaded` that what a task has loaded is still true of all other agents, so that
  its late write takes nothing from them. The proof needs that every package holds
  an agent.yaml (agents.rs:69 refuses one without) and that an agent's
  directory, `<name>`, is none of its backups, `<name>.v<version>` (agents.rs:100);
  the model itself leaves out agents whose names look like the backup of another.
* `GroupsTruthful` (GroupTruth). The status says what was done long ago, to one
  member after the other. `UnderWay` says that of a group's request: the members
  it is through with run, or have stopped, and the member it is at has a live
  process as long as nobody else touched it. `CopyTrue` says what a stop's copy of
  a list is worth after the waits: unless the list was crossed, it lacks records
  of the very agent that is stopped only, and none of those has a process.
  `OnList` closes the gap between a process and its record: a live process is
  on its tenant's list or in the hands of the one start that is about to add it.
  A single start or stop that is still under way counts as having touched its
  agent, which is why a request for the group takes over the members of those
  when it clears the rest (`later`). The proof needs that members are slots.
* `PackagesReady` (PackagesRun). `InstallKept` says that what is registered, or
  about to be, is `Provided`: its runtime was found under its own name on the
  node or in the directory of its kind, unless one of the cases that
  PackagesRun names explains it (`Excused`); and that this stays so, because
  nothing removes a file there. `WholeFiles` says that a file which cannot be
  executed is being written, or its kind is spoilt for good. Every staging
  directory is in the hands of a task, or abandoned. The proof needs that
  packages have the types of `Package` and that `sh` is on both PATHs, as on
  any Unix.
* `Advised` (AdviceSound), for any workflow, of any size and with any cycles,
  and any policy. `SortTrue` says of the first loop that the steps sorted or
  waiting are exactly those that need only sorted ones, that each count is of the
  dependencies not sorted yet (so that the one at 1 is the one to free), and that
  a step's level is just above the highest sorted one that it needs; `ChainTrue`
  says the same of the chains and of the steps seen by the second loop, where no
  chain of a step seen grows again. What that makes of the graph is about paths
  and heights alone. Steps whose dependencies are all among them and lower are
  not held up by a cycle (`NoCycle`); those that need one of themselves each are,
  because a longest path among them starts on one (`Cycle`); so what is sorted
  is what no cycle holds up. Without one, levels and chains are both heights, of
  which a graph has one (`OneHeight`), the length of the longest path to a step;
  and the function that `CriticalPath` defines by recursion exists (`WayDown`)
  and gives such a path (`DownPath`). Inductions are least counterexamples. The
  points are bounded by arithmetic (`SingleStep`, `SeveralAgents`, `QuickIs`).
  The proof needs that workflows are sequences of at least one step, and that
  the counts of a quick classification are natural numbers.

The types of the constants (each module's ASSUME, and `Bounded` and `Finite` that
follow from the one of `Stores`) are the assumptions of these theorems.

Only model-checked:

* `Finishes`, `DueFires`, `Delivered`, `RoutingConverges`, `DeathIsAlerted`:
  liveness under fairness, beyond this prover.
* `CronExact`: what the search computes from the calendar. The library's induction
  theorems take an operator as a parameter and cannot be instantiated; `Least`
  serves as an induction, as it does for the graph of a workflow, but the two
  calendars, one of which counts days forwards, have yet to be shown equal.
* `TypeOK` of the stores, which spans all twelve parts: that a search's time stays
  a number needs the calendar. Where a proof needs the types of its part, its
  invariant states them.

## 6. Not modelled

Listed with reasons in `PROJECT.json` "components". In short: clients (CLI
shell, SDKs, dashboard), packaging, HTTP authentication and the detection of
the machine keep no state of their own or are I/O. Workflow definitions and
blueprints are one file each, written whole, with nothing read back between two
requests. Webhooks are posted by a task of their own, with retries after 1 and
2 s (not "1s/2s/4s", webhook.rs:8), so a stop may be announced before the start
it ends; nothing in the code depends on their order. Texts, times and
formatting are left out everywhere, encryption is modelled by what it does, the
ranking of a memory search is floating point over texts. The usage file is
left out of NodeRuntime because no decision there reads it. `compact_topic`,
`record_restart` and the Qdrant back end are never called.

## 7. Plan

What is left, in this order:

1. The rate limiter's window, which needs no more than one module of its own.
2. Proofs: the calendar of `CronSearch`, by least counterexamples, and with it the
   types of all parts.
