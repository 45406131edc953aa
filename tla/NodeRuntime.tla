---------------------------- MODULE NodeRuntime ----------------------------
(***************************************************************************)
(* The life of agent processes on one node: the tasks that start and stop  *)
(* them (handle_agents_run, handle_agents_stop, blueprint deployment, and  *)
(* the CLI working on the same directory), what they leave on disk (one    *)
(* pid file per tenant and agent, one instance list per tenant), node      *)
(* crashes, and startup_recovery.  The usage file that the API tasks       *)
(* update last is read by no decision here and left out.                   *)
(*                                                                         *)
(* Nothing locks a file.  The tokio runtime is multi-threaded and the CLI  *)
(* is another process, so a load and the save that follows it are separate *)
(* steps; a file can be read while it is being rewritten, and is cut for   *)
(* good if the write fails or the node dies in it (fs::write truncates     *)
(* first).  No caller looks at the result of a write.  Agents run in       *)
(* process groups of their own and outlive the node.                       *)
(***************************************************************************)
EXTENDS Naturals, Sequences, FiniteSets

CONSTANTS
  Tenants, Agents,
  Pids,          \* process ids the kernel may give out
  Stamps,        \* values of now % 100_000, the suffix of an instance id
  Api,           \* request tasks of the node
  Cli,           \* `apollo agent` processes on the same directory
  Recovery,      \* the task that runs startup_recovery
  NoPid, NoSlot,
  Blocked,       \* <<tenant, agent>> pairs the tenant's policy denies
  MaxInstances,  \* max_instances of a tenant's policy
  MaxAgents,     \* --max-agents
  ReusePids,     \* whether the kernel may give a dead process's pid out again
  MaxRequests, MaxCrashes,  \* bounds of the model: requests, crashes of the node,
  MaxFailures               \* reads and writes of files that fail

Slots == Tenants \X Agents
Tasks == Api \cup Cli \cup {Recovery}

ASSUME RuntimeAssumption ==
  /\ Api \cap Cli = {} /\ Recovery \notin Api \cup Cli
  /\ NoPid \notin Pids /\ NoSlot \notin Slots
  /\ Blocked \subseteq Slots /\ Stamps # {}
  /\ MaxInstances \in [Tenants -> Nat]
  /\ {MaxAgents, MaxRequests, MaxCrashes, MaxFailures} \subseteq Nat
  /\ ReusePids \in BOOLEAN

VARIABLES
  node,      \* "up", "down" or "recovering"
  alive,     \* live agent processes
  owner,     \* whose process a pid is, or last was
  used,      \* pids given out so far
  pidFile,   \* tenants/{t}/{a}/.apollo.pid
  records,   \* instances/{t}.json, as last written whole
  cut,       \* tenants whose list is cut: no reader can parse it
  task,      \* local state of every task
  image,     \* startup_recovery: its copy of all instance lists,
  next,      \* the next record of each list it looks at (0: list written back),
  snapshot,  \* and the processes alive when it began
  victims,   \* history: <<for whom, whose>> of every signal that reached a process
             \* of another slot
  raced,     \* history: slots two starts of which overlapped
  unmarked,  \* history: pids that no pid file names although they run: its write
             \* failed or the node died before it, or it could not be read
  listed,    \* history: slots recorded as running when the node was restarted,
  unread,    \* history: and tenants whose list recovery could not parse
  disturbed, \* history: slots whose process exited, was stopped, or whose restart
             \* failed, while the node recovers
  requests, crashes, failures

disk == <<pidFile, records, cut>>
recovery == <<image, next, snapshot>>
history == <<victims, raced, unmarked, listed, unread, disturbed>>
bounds == <<requests, crashes, failures>>
vars == <<node, alive, owner, used, disk, task, recovery, history, bounds>>

(* AgentInstance: the id is `{agent}-{now % 100000}`.                      *)
Record == [slot: Slots, stamp: Stamps, status: {"running", "stopped"},
           pid: Pids \cup {NoPid}]

(* The stages of a start, which is a sweep, a spawn and a pid file, of     *)
(* save_instance, of a stop, and of recovery.                              *)
Sweeping == {"look", "orphan", "unlink"}
Stage == {"idle", "sweep", "spawn", "pidfile", "load", "save", "kill", "write", "scan"}
           \cup Sweeping

TaskState == [pc: Stage, slot: Slots \cup {NoSlot}, pid: Pids \cup {NoPid},
              stamp: Stamps, list: Seq(Record), pos: Nat]

IdleTask == [pc |-> "idle", slot |-> NoSlot, pid |-> NoPid,
             stamp |-> CHOOSE x \in Stamps : TRUE, list |-> <<>>, pos |-> 0]

Running(list) == {i \in DOMAIN list : list[i].status = "running"}
Tenant(s) == s[1]

(* count_active_instances: running records of these tenants.               *)
ActiveInstances(tenants) == UNION {{t} \X Running(records[t]) : t \in tenants}

(* startup_recovery has looked at every record.                            *)
Scanned == \A t \in Tenants : next[t] \notin DOMAIN image[t]

(* A read of a list another task is rewriting finds truncated JSON.        *)
Torn(t, k) ==
  \/ \E j \in Tasks \ {k} : /\ task[j].pc \in {"save", "write"}
                            /\ Tenant(task[j].slot) = t
  \/ k # Recovery /\ task[Recovery].pc = "scan" /\ Scanned /\ next[t] > 0

(* A read or write of a file fails.                                        *)
Fails == failures < MaxFailures /\ failures' = failures + 1

(* fs::write of a list: all of it, or nothing, or the old one is cut.      *)
WriteList(t, list) ==
  \/ /\ records' = [records EXCEPT ![t] = list] /\ cut' = cut \ {t}
     /\ UNCHANGED failures
  \/ Fails /\ records' = records /\ cut' \in {cut, cut \cup {t}}

Signal(by, p) ==
  victims' = IF p \in alive /\ owner[p] # by THEN victims \cup {<<by, owner[p]>>} ELSE victims

Disturbs(s) == disturbed' = IF node = "recovering" THEN disturbed \cup {s} ELSE disturbed

Goto(k, pc) == [task EXCEPT ![k].pc = pc]

-----------------------------------------------------------------------------
Init ==
  /\ node = "up"
  /\ alive = {} /\ used = {}
  /\ owner = [p \in Pids |-> NoSlot]
  /\ pidFile = [s \in Slots |-> NoPid]
  /\ records = [t \in Tenants |-> <<>>] /\ cut = {}
  /\ task = [k \in Tasks |-> IdleTask]
  /\ image = [t \in Tenants |-> <<>>]
  /\ next = [t \in Tenants |-> 0]
  /\ snapshot = {}
  /\ victims = {} /\ raced = {} /\ disturbed = {}
  /\ unmarked = {} /\ listed = {} /\ unread = {}
  /\ requests = 0 /\ crashes = 0 /\ failures = 0

Free(k) == /\ task[k].pc = "idle"
           /\ requests < MaxRequests
           /\ requests' = requests + 1
           /\ (k \in Api => node = "up")

(* PolicyEngine::check_run, then the node's capacity: all that             *)
(* handle_agents_run looks at before it starts a process.  A list it       *)
(* cannot parse counts as empty.                                           *)
Admitted(k, s) ==
  LET readable == {t \in Tenants \ cut : ~Torn(t, k)}
      tenantRunning == ActiveInstances({Tenant(s)} \cap readable)
  IN  /\ s \notin Blocked
      /\ Cardinality(tenantRunning) < MaxInstances[Tenant(s)]
      /\ Cardinality(ActiveInstances(readable)) < MaxAgents

BeginStart(k, s) ==
  task' = [task EXCEPT ![k] = [IdleTask EXCEPT !.pc = "sweep", !.slot = s]]

(* POST /agents/run.                                                       *)
Run(k, s) ==
  /\ k \in Api
  /\ Free(k)
  /\ Admitted(k, s)
  /\ BeginStart(k, s)
  /\ UNCHANGED <<node, alive, owner, used, disk, recovery, history, crashes, failures>>

(* Blueprint deployment (k \in Api) and `apollo agent run` (k \in Cli): no *)
(* policy and no capacity check.                                           *)
Deploy(k, s) ==
  /\ k \in Api \cup Cli
  /\ Free(k)
  /\ BeginStart(k, s)
  /\ UNCHANGED <<node, alive, owner, used, disk, recovery, history, crashes, failures>>

(* Mutant of Stop: the first record with a pid, whichever agent it is of.  *)
Stop_AnyAgent(k, s) ==
  /\ k \in Api \cup Cli
  /\ Free(k)
  /\ Tenant(s) \notin cut
  /\ LET list == records[Tenant(s)]
         matches == {i \in DOMAIN list : list[i].pid # NoPid}
     IN  \E pos \in matches :
         /\ \A i \in matches : pos <= i
         /\ task' = [task EXCEPT ![k] = [IdleTask EXCEPT !.pc = "kill",
                       !.slot = s, !.pid = list[pos].pid, !.list = list, !.pos = pos]]
         /\ Signal(s, list[pos].pid)
         /\ alive' \in {alive, alive \ {list[pos].pid}}
  /\ Disturbs(s)
  /\ UNCHANGED <<node, owner, used, disk, recovery, raced, unmarked, listed, unread,
                 crashes, failures>>

(* handle_agents_stop: load the list, take the first record of the agent   *)
(* whatever its status; if it has a pid, SIGTERM its group.  The list is   *)
(* kept across the two seconds the process is given to exit.  (A list it   *)
(* cannot parse is answered with 404.)                                     *)
Stop(k, s) ==
  /\ k \in Api \cup Cli
  /\ Free(k)
  /\ Tenant(s) \notin cut
  /\ LET list == records[Tenant(s)]
         matches == {i \in DOMAIN list : list[i].slot = s}
     IN  \E pos \in matches :
         /\ \A i \in matches : pos <= i
         /\ list[pos].pid # NoPid
         /\ task' = [task EXCEPT ![k] = [IdleTask EXCEPT !.pc = "kill",
                       !.slot = s, !.pid = list[pos].pid, !.list = list, !.pos = pos]]
         /\ Signal(s, list[pos].pid)
         /\ alive' \in {alive, alive \ {list[pos].pid}}
  /\ Disturbs(s)
  /\ UNCHANGED <<node, owner, used, disk, recovery, raced, unmarked, listed, unread,
                 crashes, failures>>

-----------------------------------------------------------------------------
(* ProcessRuntime::start, shared by every starter and by recovery.         *)

(* What a failed start leads to: an error answer, or the next record.      *)
Abandon(k) ==
  IF k = Recovery
  THEN /\ task' = [task EXCEPT ![k] = [IdleTask EXCEPT !.pc = "scan"]]
       /\ next' = [next EXCEPT ![Tenant(task[k].slot)] = @ + 1]
  ELSE /\ task' = [task EXCEPT ![k] = IdleTask]
       /\ UNCHANGED next

(* sweep_orphan: read the pid file.  If there is none, or it cannot be     *)
(* read, there is nothing to sweep; while another start is writing it, it  *)
(* is empty, and only removed.  From here on a start overlaps with others  *)
(* of its agent.                                                           *)
SweepRead(k) ==
  /\ task[k].pc = "sweep"
  /\ LET s == task[k].slot
         p == pidFile[s]
         others == {j \in Tasks \ {k} : task[j].pc \in Sweeping \cup {"spawn", "pidfile"}
                                         /\ task[j].slot = s}
     IN  /\ raced' = IF others # {} THEN raced \cup {s} ELSE raced
         /\ \/ /\ p # NoPid
               /\ task' = [task EXCEPT ![k].pc = "look", ![k].pid = p]
               /\ UNCHANGED <<unmarked, failures>>
            \/ /\ p = NoPid
               /\ task' = Goto(k, "spawn")
               /\ UNCHANGED <<unmarked, failures>>
            \/ /\ Fails
               /\ task' = Goto(k, "spawn")
               /\ unmarked' = unmarked \cup ({p} \ {NoPid})
            \/ /\ \E j \in others : task[j].pc = "pidfile"
               /\ task' = Goto(k, "unlink")
               /\ UNCHANGED <<unmarked, failures>>
  /\ UNCHANGED <<node, alive, owner, used, disk, recovery, victims, listed, unread,
                 disturbed, requests, crashes>>

(* Mutant of SweepLook: no process of the table is taken for the orphan.   *)
SweepLook_Blind(k) ==
  /\ task[k].pc = "look"
  /\ task' = Goto(k, "unlink")
  /\ UNCHANGED <<node, alive, owner, used, disk, recovery, history, bounds>>

(* ... look for the pid in a new process table,                            *)
SweepLook(k) ==
  /\ task[k].pc = "look"
  /\ task' = Goto(k, IF task[k].pid \in alive THEN "orphan" ELSE "unlink")
  /\ UNCHANGED <<node, alive, owner, used, disk, recovery, history, bounds>>

(* ... kill its group.  It is not asked whose process that is.             *)
SweepKill(k) ==
  /\ task[k].pc = "orphan"
  /\ Signal(task[k].slot, task[k].pid)
  /\ alive' = alive \ {task[k].pid}
  /\ task' = Goto(k, "unlink")
  /\ UNCHANGED <<node, owner, used, disk, recovery, raced, unmarked, listed, unread,
                 disturbed, bounds>>

(* ... and remove the file, whatever it names by now.                      *)
SweepUnlink(k) ==
  /\ task[k].pc = "unlink"
  /\ pidFile' = [pidFile EXCEPT ![task[k].slot] = NoPid]
  /\ task' = [task EXCEPT ![k].pc = "spawn", ![k].pid = NoPid]
  /\ UNCHANGED <<node, alive, owner, used, records, cut, recovery, history, bounds>>

Spawn(k) ==
  /\ task[k].pc = "spawn"
  /\ \E p \in Pids \ alive :
       /\ ReusePids \/ p \notin used
       /\ alive' = alive \cup {p}
       /\ used' = used \cup {p}
       /\ owner' = [owner EXCEPT ![p] = task[k].slot]
       /\ task' = [task EXCEPT ![k].pc = "pidfile", ![k].pid = p]
  /\ UNCHANGED <<node, disk, recovery, history, bounds>>

(* The agent is not registered or its runtime is missing (before the       *)
(* sweep), or the spawn itself fails (after it).                           *)
StartFails(k) ==
  /\ task[k].pc \in {"sweep", "spawn"}
  /\ Abandon(k)
  /\ Disturbs(task[k].slot)
  /\ UNCHANGED <<node, alive, owner, used, disk, image, snapshot, victims,
                 raced, unmarked, listed, unread, bounds>>

(* The pid file is written, or stays as it was, or empty: the start does   *)
(* not ask.  The instance gets its id.  Recovery puts the new pid into the *)
(* old record of its copy.                                                 *)
WritePid(k) ==
  /\ task[k].pc = "pidfile"
  /\ LET s == task[k].slot
         p == task[k].pid
     IN  /\ \/ pidFile' = [pidFile EXCEPT ![s] = p] /\ UNCHANGED <<unmarked, failures>>
            \/ /\ Fails
               /\ pidFile' \in {pidFile, [pidFile EXCEPT ![s] = NoPid]}
               /\ unmarked' = unmarked \cup {p}
         /\ IF k = Recovery
            THEN /\ image' = [image EXCEPT ![Tenant(s)][next[Tenant(s)]].pid = p]
                 /\ Abandon(k)
            ELSE /\ \E x \in Stamps :
                      task' = [task EXCEPT ![k].pc = "load", ![k].stamp = x]
                 /\ UNCHANGED <<image, next>>
  /\ UNCHANGED <<node, alive, owner, used, records, cut, snapshot, victims, raced,
                 listed, unread, disturbed, requests, crashes>>

-----------------------------------------------------------------------------
(* save_instance: load the tenant's list.  If it cannot be parsed the      *)
(* error is dropped and the process stays without a record.                *)
SaveLoad(k) ==
  /\ task[k].pc = "load"
  /\ LET t == Tenant(task[k].slot)
     IN  \/ /\ t \notin cut
            /\ task' = [task EXCEPT ![k].pc = "save", ![k].list = records[t]]
         \/ /\ t \in cut \/ Torn(t, k)
            /\ task' = [task EXCEPT ![k] = IdleTask]
  /\ UNCHANGED <<node, alive, owner, used, disk, recovery, history, bounds>>

(* ... replace the record with the new instance's id, or append it.        *)
Upsert(list, r) ==
  LET same == {i \in DOMAIN list : list[i].slot = r.slot /\ list[i].stamp = r.stamp}
  IN  IF same = {} THEN Append(list, r)
      ELSE [list EXCEPT ![CHOOSE i \in same : \A j \in same : i <= j] = r]

SaveWrite(k) ==
  /\ task[k].pc = "save"
  /\ LET s == task[k].slot
         r == [slot |-> s, stamp |-> task[k].stamp, status |-> "running",
               pid |-> task[k].pid]
     IN  WriteList(Tenant(s), Upsert(task[k].list, r))
  /\ task' = [task EXCEPT ![k] = IdleTask]
  /\ UNCHANGED <<node, alive, owner, used, pidFile, recovery, history, requests, crashes>>

(* Mutant of StopKill: a process that ignored SIGTERM is left alone.       *)
StopKill_TermOnly(k) ==
  /\ task[k].pc = "kill"
  /\ Disturbs(task[k].slot)
  /\ task' = Goto(k, "write")
  /\ UNCHANGED <<node, alive, owner, used, disk, recovery, victims, raced, unmarked,
                 listed, unread, bounds>>

(* ProcessRuntime::stop after its two seconds: SIGKILL to the same pid.    *)
StopKill(k) ==
  /\ task[k].pc = "kill"
  /\ Signal(task[k].slot, task[k].pid)
  /\ alive' = alive \ {task[k].pid}
  /\ Disturbs(task[k].slot)
  /\ task' = Goto(k, "write")
  /\ UNCHANGED <<node, owner, used, disk, recovery, raced, unmarked, listed, unread,
                 bounds>>

(* Mutant of StopWrite: a status the readers of the list do not know.      *)
StopWrite_Killed(k) ==
  /\ task[k].pc = "write"
  /\ WriteList(Tenant(task[k].slot), [task[k].list EXCEPT ![task[k].pos].status = "killed"])
  /\ task' = [task EXCEPT ![k] = IdleTask]
  /\ UNCHANGED <<node, alive, owner, used, pidFile, recovery, history, requests, crashes>>

(* Mark the record in the list read before the wait, write that list.      *)
StopWrite(k) ==
  /\ task[k].pc = "write"
  /\ WriteList(Tenant(task[k].slot),
               [task[k].list EXCEPT ![task[k].pos].status = "stopped",
                                    ![task[k].pos].pid = NoPid])
  /\ task' = [task EXCEPT ![k] = IdleTask]
  /\ UNCHANGED <<node, alive, owner, used, pidFile, recovery, history, requests, crashes>>

-----------------------------------------------------------------------------
(* An agent exits, crashes, or is killed by its resource monitor: no       *)
(* record changes.                                                         *)
Exit(p) ==
  /\ p \in alive
  /\ alive' = alive \ {p}
  /\ Disturbs(owner[p])
  /\ UNCHANGED <<node, owner, used, disk, task, recovery, victims, raced, unmarked,
                 listed, unread, bounds>>

(* The node dies with its tasks; agents and CLI processes live on.  A list *)
(* or a pid file that was being written may stay cut.                      *)
Crash ==
  /\ node # "down"
  /\ crashes < MaxCrashes
  /\ crashes' = crashes + 1
  /\ node' = "down"
  /\ LET dying == Tasks \ Cli
         marking == {k \in dying : task[k].pc = "pidfile"}
         writing == {Tenant(task[k].slot) : k \in {j \in dying : task[j].pc \in {"save", "write"}}}
                      \cup {t \in Tenants : task[Recovery].pc = "scan" /\ Scanned /\ next[t] > 0}
     IN  /\ \E lists \in SUBSET writing : cut' = cut \cup lists
         /\ \E files \in SUBSET {task[k].slot : k \in marking} :
              pidFile' = [s \in Slots |-> IF s \in files THEN NoPid ELSE pidFile[s]]
         /\ unmarked' = unmarked \cup {task[k].pid : k \in marking}
         /\ task' = [k \in Tasks |-> IF k \in dying THEN IdleTask ELSE task[k]]
  /\ image' = [t \in Tenants |-> <<>>]
  /\ next' = [t \in Tenants |-> 0]
  /\ snapshot' = {}
  /\ listed' = {} /\ unread' = {} /\ disturbed' = {}
  /\ UNCHANGED <<alive, owner, used, records, victims, raced, requests, failures>>

(* startup_recovery loads every list it can parse and looks once at what   *)
(* is running.  The API is not up yet.                                     *)
Restart ==
  /\ node = "down"
  /\ node' = "recovering"
  /\ task' = [task EXCEPT ![Recovery] = [IdleTask EXCEPT !.pc = "scan"]]
  /\ \E torn \in SUBSET {t \in Tenants : Torn(t, Recovery)} : unread' = cut \cup torn
  /\ image' = [t \in Tenants |-> IF t \in unread' THEN <<>> ELSE records[t]]
  /\ next' = [t \in Tenants |-> IF image'[t] = <<>> THEN 0 ELSE 1]
  /\ listed' = UNION {{records[t][i].slot : i \in Running(records[t])} : t \in Tenants}
  /\ snapshot' = alive
  /\ UNCHANGED <<alive, owner, used, disk, victims, raced, unmarked, disturbed, bounds>>

(* Mutant of RecoverNext: a record with a pid is taken for a live process. *)
RecoverNext_TrustsPid(t) ==
  /\ task[Recovery].pc = "scan"
  /\ next[t] \in DOMAIN image[t]
  /\ LET r == image[t][next[t]]
     IN  IF r.status = "running" /\ r.pid = NoPid
         THEN /\ task' = [task EXCEPT ![Recovery].pc = "sweep", ![Recovery].slot = r.slot]
              /\ UNCHANGED next
         ELSE /\ next' = [next EXCEPT ![t] = @ + 1]
              /\ UNCHANGED task
  /\ UNCHANGED <<node, alive, owner, used, disk, image, snapshot, history, bounds>>

(* Look at the next record: start its agent if it should run and its pid   *)
(* was not in the snapshot.                                                *)
RecoverNext(t) ==
  /\ task[Recovery].pc = "scan"
  /\ next[t] \in DOMAIN image[t]
  /\ LET r == image[t][next[t]]
     IN  IF r.status = "running" /\ r.pid \notin snapshot
         THEN /\ task' = [task EXCEPT ![Recovery].pc = "sweep", ![Recovery].slot = r.slot]
              /\ UNCHANGED next
         ELSE /\ next' = [next EXCEPT ![t] = @ + 1]
              /\ UNCHANGED task
  /\ UNCHANGED <<node, alive, owner, used, disk, image, snapshot, history, bounds>>

(* Once every record was looked at, the lists are written back one by one. *)
RecoverSave(t) ==
  /\ task[Recovery].pc = "scan"
  /\ Scanned
  /\ next[t] > 0
  /\ WriteList(t, image[t])
  /\ next' = [next EXCEPT ![t] = 0]
  /\ UNCHANGED <<node, alive, owner, used, pidFile, task, image, snapshot,
                 history, requests, crashes>>

(* Then the background loops and the API server start.                     *)
Serve ==
  /\ task[Recovery].pc = "scan"
  /\ \A t \in Tenants : next[t] = 0
  /\ node' = "up"
  /\ task' = [task EXCEPT ![Recovery] = IdleTask]
  /\ image' = [t \in Tenants |-> <<>>]
  /\ snapshot' = {}
  /\ listed' = {} /\ unread' = {} /\ disturbed' = {}
  /\ UNCHANGED <<alive, owner, used, disk, next, victims, raced, unmarked, bounds>>

Next ==
  \/ \E k \in Api \cup Cli, s \in Slots : Run(k, s) \/ Deploy(k, s) \/ Stop(k, s)
  \/ \E k \in Tasks : \/ SweepRead(k) \/ SweepLook(k) \/ SweepKill(k) \/ SweepUnlink(k)
                      \/ Spawn(k) \/ StartFails(k) \/ WritePid(k)
                      \/ SaveLoad(k) \/ SaveWrite(k) \/ StopKill(k) \/ StopWrite(k)
  \/ \E t \in Tenants : RecoverNext(t) \/ RecoverSave(t)
  \/ \E p \in Pids : Exit(p)
  \/ Crash \/ Restart \/ Serve

Spec == Init /\ [][Next]_vars

-----------------------------------------------------------------------------
(* Type invariant of the processes, the files, the tasks and the histories. *)
TypeOK ==
  /\ node \in {"up", "down", "recovering"}
  /\ alive \subseteq used /\ used \subseteq Pids
  /\ owner \in [Pids -> Slots \cup {NoSlot}]
  /\ pidFile \in [Slots -> Pids \cup {NoPid}]
  /\ records \in [Tenants -> Seq(Record)] /\ cut \subseteq Tenants
  /\ task \in [Tasks -> TaskState]
  /\ image \in [Tenants -> Seq(Record)]
  /\ next \in [Tenants -> Nat]
  /\ snapshot \subseteq Pids
  /\ victims \subseteq Slots \X Slots
  /\ raced \subseteq Slots /\ disturbed \subseteq Slots
  /\ unmarked \subseteq Pids /\ listed \subseteq Slots /\ unread \subseteq Tenants
  /\ requests \in 0..MaxRequests /\ crashes \in 0..MaxCrashes
  /\ failures \in 0..MaxFailures

(* Isolation: a signal sent on behalf of one tenant's agent (by a stop, by *)
(* the sweep of a start, by recovery) never reaches the process of another *)
(* agent or tenant, however stale the list or pid file it was read from.   *)
SlotIsolation == victims = {}

(* Once a stop goes on to rewrite the list, its process is gone, even one  *)
(* that ignored SIGTERM (ProcessRuntime::stop).                            *)
StopKills == \A k \in Tasks : task[k].pc = "write" => task[k].pid \notin alive

(* One live process per tenant and agent, whatever is requested in between *)
(* and however stale the records are: the pid file and the sweep ensure it *)
(* for every agent whose starts never overlapped (nothing in the code      *)
(* keeps them from it), apart from processes that no pid file names: a     *)
(* failed write of it, which is ignored, a crash before it, or a failed    *)
(* read hides at most the one process concerned, for good.                 *)
SingleInstance == \A s \in Slots \ raced : \A p, q \in alive \ unmarked :
  owner[p] = s /\ owner[q] = s => p = q

(* When startup_recovery has gone through the lists, every agent that was  *)
(* recorded as running when the node was started has a live process again, *)
(* although restarting one record sweeps away the process of another       *)
(* record of the same agent.  Excepted are the tenants whose list could    *)
(* not be parsed (a crash or a failed save has cut it, or a command is     *)
(* writing it), and agents whose start failed, or that something else      *)
(* stopped or is starting meanwhile.  (docs/sla.md:81 says that the        *)
(* runtime does not attempt to re-launch agents at all.)                   *)
RecoveryRestores ==
  task[Recovery].pc = "scan" /\ Scanned =>
    \A s \in listed :
      \/ Tenant(s) \in unread
      \/ s \in disturbed
      \/ \E p \in alive : owner[p] = s
      \/ \E k \in Cli : task[k].slot = s /\ task[k].pc \in {"unlink", "spawn"}

(* docs/sla.md:157, "No orphan processes remain from the prior session":   *)
(* when recovery is through and the API is about to serve, a live process  *)
(* that recovery saw when it began is at least named by a record.          *)
(* (sla.md:63-64 even says none is alive.)                                 *)
NoOrphans ==
  task[Recovery].pc = "scan" /\ (\A t \in Tenants : next[t] = 0) =>
    \A p \in snapshot \cap alive :
      \E t \in Tenants \ cut : \E i \in DOMAIN records[t] : records[t][i].pid = p

=============================================================================
