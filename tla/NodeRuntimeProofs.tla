------------------------- MODULE NodeRuntimeProofs -------------------------
(***************************************************************************)
(* For every set of tenants, agents and tasks, any number of requests and  *)
(* crashes: types, isolation, the kill of a stop, one process per slot and *)
(* what recovery brings back in NodeRuntime, as long as the kernel does    *)
(* not give the pid of a dead process out again (FreshPids).               *)
(***************************************************************************)
EXTENDS NodeRuntime, SequenceTheorems, TLAPS

FreshPids == ~ReusePids

(* A pid read from anywhere is either none, or was given to slot s.        *)
Given(p, s) == p # NoPid => p \in used /\ owner[p] = s

OwnedList(list, t) ==
  \A i \in DOMAIN list : /\ Tenant(list[i].slot) = t
                         /\ Given(list[i].pid, list[i].slot)

OwnerInv == \A p \in used : owner[p] \in Slots

FilesInv ==
  /\ \A s \in Slots : Given(pidFile[s], s)
  /\ \A t \in Tenants : OwnedList(records[t], t) /\ OwnedList(image[t], t)

(* A task holds a slot, and once it has a pid and a list, ones of that     *)
(* slot and its tenant.                                                    *)
TaskInv(k) ==
  /\ task[k].pc \notin {"idle", "scan"} => task[k].slot \in Slots
  /\ task[k].pc \in {"look", "orphan", "pidfile", "load", "save", "kill", "write"} =>
       task[k].pid # NoPid /\ Given(task[k].pid, task[k].slot)
  /\ task[k].pc \in {"save", "kill", "write"} =>
       OwnedList(task[k].list, Tenant(task[k].slot))
  /\ task[k].pc \in {"kill", "write"} => task[k].pos \in DOMAIN task[k].list

TasksInv == \A k \in Tasks : TaskInv(k)

(* Recovery works on the record it stands at.                              *)
RecoveryInv ==
  /\ \A k \in Tasks : task[k].pc = "scan" => k = Recovery
  /\ task[Recovery].pc \in {"idle", "scan", "sweep", "spawn", "pidfile"} \cup Sweeping
  /\ node = "down" => task[Recovery].pc = "idle"
  /\ task[Recovery].pc \in {"sweep", "spawn", "pidfile"} \cup Sweeping =>
       LET t == Tenant(task[Recovery].slot)
       IN  /\ next[t] \in DOMAIN image[t]
           /\ image[t][next[t]].slot = task[Recovery].slot

(* Where a live process of an agent is known, if no two of its starts      *)
(* overlapped and it did not escape the pid file: in the pid file, which   *)
(* the start at work, if any, has read and not yet dealt with, or in the   *)
(* one start about to write it.                                            *)
Busy(k, s) == task[k].pc \in Sweeping \cup {"spawn", "pidfile"} /\ task[k].slot = s

Writing(k, s, p) == task[k].pc = "pidfile" /\ task[k].slot = s /\ task[k].pid = p

Known(s, p) ==
  \/ /\ p = pidFile[s]
     /\ \A k \in Tasks : Busy(k, s) => task[k].pc \in {"look", "orphan"} /\ task[k].pid = p
  \/ \E k \in Tasks : Writing(k, s, p)

LiveInv ==
  \A s \in Slots \ raced :
    /\ \A p \in alive \ unmarked : owner[p] = s => Known(s, p)
    /\ \A j, k \in Tasks : Busy(j, s) /\ Busy(k, s) => j = k

(* The lists recovery works on exist while it runs, and no request runs    *)
(* until the node serves again.                                            *)
ServingInv ==
  /\ node # "recovering" => /\ task[Recovery].pc = "idle"
                            /\ \A t \in Tenants : image[t] = <<>>
  /\ node # "up" => \A k \in Api : task[k].pc = "idle"

(* An agent is served while one of its processes lives, while a command    *)
(* that swept that process away is about to start another, and once it was *)
(* disturbed.                                                              *)
Served(s) ==
  \/ s \in disturbed
  \/ \E p \in alive : owner[p] = s
  \/ \E k \in Cli : task[k].slot = s /\ task[k].pc \in {"unlink", "spawn"}

Respawning(s) == task[Recovery].slot = s /\ task[Recovery].pc \in {"unlink", "spawn"}

(* Records that recovery has dealt with, and those whose process it saw    *)
(* when it began: it will leave them alone.                                *)
Settled(t, i) == i < next[t] \/ next[t] = 0 \/ image[t][i].pid \in snapshot

RestoreInv ==
  /\ task[Recovery].pc = "pidfile" => Served(task[Recovery].slot)
  /\ \A t \in Tenants : \A i \in Running(image[t]) :
       Settled(t, i) => Served(image[t][i].slot) \/ Respawning(image[t][i].slot)

(* Recovery holds a running record of every agent that had one, if it      *)
(* could read the list.                                                    *)
ListedInv ==
  node = "recovering" => \A s \in listed :
    \/ Tenant(s) \in unread
    \/ \E i \in Running(image[Tenant(s)]) : image[Tenant(s)][i].slot = s

IInv == /\ TypeOK /\ OwnerInv /\ FilesInv /\ TasksInv /\ RecoveryInv
        /\ SlotIsolation /\ StopKills /\ LiveInv

-----------------------------------------------------------------------------
(* The local state of a task that does nothing is well typed.              *)
LEMMA IdleTyped == IdleTask \in TaskState /\ IdleTask.pc = "idle" /\ IdleTask.slot = NoSlot
  <1>1. (CHOOSE x \in Stamps : TRUE) \in Stamps
    BY RuntimeAssumption
  <1>2. <<>> \in Seq(Record)
    OBVIOUS
  <1> QED
    BY <1>1, <1>2 DEF IdleTask, TaskState, Stage, Sweeping

(* What save_instance writes: the list it loaded with the record replaced  *)
(* or appended, so every element is old or the new record.                 *)
LEMMA UpsertProp ==
  ASSUME NEW list \in Seq(Record), NEW r \in Record
  PROVE  /\ Upsert(list, r) \in Seq(Record)
         /\ \A i \in DOMAIN Upsert(list, r) :
              \/ Upsert(list, r)[i] = r
              \/ i \in DOMAIN list /\ Upsert(list, r)[i] = list[i]
  <1> DEFINE same == {i \in DOMAIN list : list[i].slot = r.slot /\ list[i].stamp = r.stamp}
             pos == CHOOSE i \in same : \A j \in same : i <= j
  <1>1. CASE same = {}
    <2>1. Upsert(list, r) = Append(list, r)
      BY <1>1 DEF Upsert
    <2> QED
      BY <2>1
  <1>2. CASE same # {}
    <2>1. Upsert(list, r) = [list EXCEPT ![pos] = r]
      BY <1>2 DEF Upsert
    <2>2. CASE pos \in 1..Len(list)
      <3> HIDE DEF pos
      <3>1. /\ [list EXCEPT ![pos] = r] \in Seq(Record)
            /\ DOMAIN [list EXCEPT ![pos] = r] = DOMAIN list
            /\ \A i \in 1..Len(list) :
                 [list EXCEPT ![pos] = r][i] = IF i = pos THEN r ELSE list[i]
        BY <2>2, ExceptSeq
      <3> QED
        BY <2>1, <3>1
    <2>3. CASE pos \notin 1..Len(list)
      <3> HIDE DEF pos
      <3>1. [list EXCEPT ![pos] = r] = list
        BY <2>3
      <3> QED
        BY <2>1, <3>1
    <2> QED
      BY <2>2, <2>3
  <1> QED
    BY <1>1, <1>2

-----------------------------------------------------------------------------
(* A task that only goes on to another stage keeps its type.               *)
LEMMA GotoTyped ==
  ASSUME task \in [Tasks -> TaskState], NEW k \in Tasks, NEW pc \in Stage
  PROVE  Goto(k, pc) \in [Tasks -> TaskState]
  BY DEF Goto, TaskState

(* Variations of the idle task, as the starts and stops set them up.       *)
LEMMA IdleVariants ==
  /\ \A pc \in Stage : [IdleTask EXCEPT !.pc = pc] \in TaskState
  /\ \A pc \in Stage, s \in Slots : [IdleTask EXCEPT !.pc = pc, !.slot = s] \in TaskState
  BY IdleTyped DEF TaskState

(* A failed start leaves the task idle, or recovery at the next record.    *)
LEMMA AbandonTyped ==
  ASSUME TypeOK, NEW k \in Tasks, task[k].slot \in Slots, Abandon(k)
  PROVE  /\ task' \in [Tasks -> TaskState]
         /\ next' \in [Tenants -> Nat]
  <1>1. task \in [Tasks -> TaskState] /\ next \in [Tenants -> Nat]
    BY DEF TypeOK
  <1>2. Tenant(task[k].slot) \in Tenants
    BY DEF Slots, Tenant
  <1>3. [IdleTask EXCEPT !.pc = "scan"] \in TaskState /\ IdleTask \in TaskState
    BY IdleVariants, IdleTyped DEF Stage
  <1> QED
    BY <1>1, <1>2, <1>3 DEF Abandon

(* What the inductive invariant says of a task in the middle of its work.  *)
LEMMA TaskFacts ==
  ASSUME IInv, NEW k \in Tasks
  PROVE  /\ task[k] \in TaskState /\ IdleTask \in TaskState
         /\ task[k].pc \notin {"idle", "scan"} =>
              task[k].slot \in Slots /\ Tenant(task[k].slot) \in Tenants
         /\ task[k].pc \in {"look", "orphan", "pidfile", "load", "save", "kill", "write"} =>
              task[k].pid \in used /\ task[k].pid \in Pids /\ owner[task[k].pid] \in Slots
         /\ task[k].list \in Seq(Record)
         /\ task[k].pc \in {"kill", "write"} => task[k].pos \in 1..Len(task[k].list)
  <1>1. task[k] \in TaskState /\ IdleTask \in TaskState
    BY IdleTyped DEF IInv, TypeOK
  <1>2. task[k].pc \notin {"idle", "scan"} =>
          task[k].slot \in Slots /\ Tenant(task[k].slot) \in Tenants
    BY DEF IInv, TasksInv, TaskInv, Slots, Tenant
  <1>3. task[k].list \in Seq(Record)
    BY <1>1 DEF TaskState
  <1>4. task[k].pc \in {"kill", "write"} => task[k].pos \in 1..Len(task[k].list)
    BY <1>3 DEF IInv, TasksInv, TaskInv
  <1>5. task[k].pc \in {"look", "orphan", "pidfile", "load", "save", "kill", "write"} =>
          task[k].pid \in used /\ owner[task[k].pid] = task[k].slot
    BY DEF IInv, TasksInv, TaskInv, Given
  <1>6. used \subseteq Pids
    BY DEF IInv, TypeOK
  <1> QED
    BY <1>1, <1>2, <1>3, <1>4, <1>5, <1>6

(* The file of a list is written, or it is as before or cut.               *)
LEMMA WriteListTyped ==
  ASSUME TypeOK, NEW t \in Tenants, NEW list \in Seq(Record), WriteList(t, list)
  PROVE  /\ records' \in [Tenants -> Seq(Record)] /\ cut' \subseteq Tenants
         /\ failures' \in 0..MaxFailures
  <1>1. Fails => failures' \in 0..MaxFailures
    BY RuntimeAssumption DEF Fails, TypeOK
  <1>2. records' = records \/ records' = [records EXCEPT ![t] = list]
    BY DEF WriteList
  <1>3. records' \in [Tenants -> Seq(Record)]
    BY <1>2 DEF TypeOK
  <1>4. cut' \in {cut, cut \ {t}, cut \cup {t}}
    BY DEF WriteList
  <1>5. cut' \subseteq Tenants
    BY <1>4 DEF TypeOK
  <1>6. failures' \in 0..MaxFailures
    BY <1>1 DEF WriteList, TypeOK
  <1> QED
    BY <1>3, <1>5, <1>6

(* A signal is sent on behalf of a slot, to a process that has an owner.   *)
LEMMA SignalTyped ==
  ASSUME IInv, NEW s \in Slots, NEW p, Signal(s, p)
  PROVE  victims' \subseteq Slots \X Slots
  BY DEF Signal, IInv, TypeOK, OwnerInv

(* Types: every action keeps every variable in its type.                   *)
LEMMA TypeStep ==
  ASSUME IInv, [Next]_vars
  PROVE  TypeOK'
  <1> USE RuntimeAssumption
  <1>0. TypeOK
    BY DEF IInv
  <1>1. ASSUME NEW k \in Api \cup Cli, NEW s \in Slots, BeginStart(k, s), Free(k),
               UNCHANGED <<node, alive, owner, used, disk, recovery, history,
                           crashes, failures>>
        PROVE  TypeOK'
    <2>1. task' \in [Tasks -> TaskState]
      BY <1>0, <1>1, IdleVariants DEF TypeOK, BeginStart, Stage
    <2> QED
      BY <1>0, <1>1, <2>1 DEF TypeOK, Free, disk, recovery, history
  <1>2. ASSUME NEW k \in Api \cup Cli, NEW s \in Slots, Run(k, s) \/ Deploy(k, s)
        PROVE  TypeOK'
    BY <1>1, <1>2 DEF Run, Deploy
  <1>3. ASSUME NEW k \in Api \cup Cli, NEW s \in Slots, Stop(k, s)  PROVE TypeOK'
    <2> DEFINE list == records[Tenant(s)]
    <2>1. list \in Seq(Record)
      BY <1>0 DEF TypeOK, Slots, Tenant
    <2>2. PICK pos \in DOMAIN list :
            /\ task' = [task EXCEPT ![k] = [IdleTask EXCEPT !.pc = "kill",
                          !.slot = s, !.pid = list[pos].pid, !.list = list, !.pos = pos]]
            /\ Signal(s, list[pos].pid)
            /\ alive' \in {alive, alive \ {list[pos].pid}}
      BY <1>3 DEF Stop
    <2>3. list[pos] \in Record /\ pos \in Nat
      BY <2>1
    <2> HIDE DEF list
    <2>4. [IdleTask EXCEPT !.pc = "kill", !.slot = s, !.pid = list[pos].pid,
                           !.list = list, !.pos = pos] \in TaskState
      BY <2>1, <2>3, IdleTyped DEF TaskState, Stage, Record
    <2>5. task' \in [Tasks -> TaskState]
      BY <1>0, <2>2, <2>4 DEF TypeOK
    <2>6. victims' \subseteq Slots \X Slots
      BY <2>2, SignalTyped
    <2>7. alive' \subseteq used
      BY <1>0, <2>2 DEF TypeOK
    <2>8. disturbed' \subseteq Slots /\ requests' \in 0..MaxRequests
      BY <1>0, <1>3 DEF TypeOK, Stop, Free, Disturbs
    <2> QED
      BY <1>0, <1>3, <2>5, <2>6, <2>7, <2>8 DEF TypeOK, Stop, disk, recovery
  <1>4. ASSUME NEW k \in Tasks, SweepRead(k)  PROVE TypeOK'
    <2> DEFINE s == task[k].slot
    <2>1. s \in Slots /\ task[k] \in TaskState
      BY <1>4, TaskFacts DEF SweepRead
    <2>2. pidFile[s] \in Pids \cup {NoPid}
      BY <1>0, <2>1 DEF TypeOK
    <2>3. [task[k] EXCEPT !.pc = "look", !.pid = pidFile[s]] \in TaskState
      BY <2>1, <2>2 DEF TaskState, Stage, Sweeping
    <2>4. \/ task' = [task EXCEPT ![k] = [task[k] EXCEPT !.pc = "look", !.pid = pidFile[s]]]
          \/ task' = Goto(k, "spawn")
          \/ task' = Goto(k, "unlink")
      BY <1>0, <1>4 DEF SweepRead, TypeOK
    <2>5. task' \in [Tasks -> TaskState]
      <3>1. Goto(k, "spawn") \in [Tasks -> TaskState] /\ Goto(k, "unlink") \in [Tasks -> TaskState]
        BY <1>0, GotoTyped DEF TypeOK, Stage, Sweeping
      <3>2. [task EXCEPT ![k] = [task[k] EXCEPT !.pc = "look", !.pid = pidFile[s]]]
              \in [Tasks -> TaskState]
        <4> DEFINE new == [task[k] EXCEPT !.pc = "look", !.pid = pidFile[s]]
        <4>1. new \in TaskState
          BY <2>3
        <4> HIDE DEF new
        <4>2. [task EXCEPT ![k] = new] \in [Tasks -> TaskState]
          BY <1>0, <4>1 DEF TypeOK
        <4> QED
          BY <4>2 DEF new
      <3> QED
        BY <2>4, <3>1, <3>2
    <2>6. unmarked' \subseteq Pids /\ failures' \in 0..MaxFailures
      BY <1>0, <1>4, <2>2 DEF SweepRead, Fails, TypeOK
    <2>7. raced' \subseteq Slots
      BY <1>0, <1>4, <2>1 DEF SweepRead, TypeOK
    <2> QED
      BY <1>0, <1>4, <2>5, <2>6, <2>7 DEF TypeOK, SweepRead, disk, recovery
  <1>19. ASSUME NEW k \in Tasks, SweepLook(k)  PROVE TypeOK'
    <2>1. task' \in [Tasks -> TaskState]
      BY <1>0, <1>19, GotoTyped DEF TypeOK, SweepLook, Stage, Sweeping
    <2> QED
      BY <1>0, <1>19, <2>1 DEF TypeOK, SweepLook, disk, recovery, history, bounds
  <1>20. ASSUME NEW k \in Tasks, SweepKill(k)  PROVE TypeOK'
    <2>1. task[k].slot \in Slots /\ task' \in [Tasks -> TaskState]
      BY <1>0, <1>20, GotoTyped, TaskFacts DEF TypeOK, SweepKill, Stage, Sweeping
    <2>2. victims' \subseteq Slots \X Slots
      BY <1>20, <2>1, SignalTyped DEF SweepKill
    <2> QED
      BY <1>0, <1>20, <2>1, <2>2 DEF TypeOK, SweepKill, disk, recovery, bounds
  <1>21. ASSUME NEW k \in Tasks, SweepUnlink(k)  PROVE TypeOK'
    <2>1. task[k] \in TaskState /\ task[k].slot \in Slots
      BY <1>21, TaskFacts DEF SweepUnlink
    <2>2. [task[k] EXCEPT !.pc = "spawn", !.pid = NoPid] \in TaskState
      BY <2>1 DEF TaskState, Stage
    <2>3. task' = [task EXCEPT ![k] = [task[k] EXCEPT !.pc = "spawn", !.pid = NoPid]]
      BY <1>0, <1>21 DEF SweepUnlink, TypeOK
    <2>4. task' \in [Tasks -> TaskState]
      BY <1>0, <2>2, <2>3 DEF TypeOK
    <2> QED
      BY <1>0, <1>21, <2>1, <2>4 DEF TypeOK, SweepUnlink, recovery, history, bounds
  <1>5. ASSUME NEW k \in Tasks, Spawn(k)  PROVE TypeOK'
    <2>1. PICK p \in Pids \ alive :
            /\ alive' = alive \cup {p} /\ used' = used \cup {p}
            /\ owner' = [owner EXCEPT ![p] = task[k].slot]
            /\ task' = [task EXCEPT ![k] = [task[k] EXCEPT !.pc = "pidfile", !.pid = p]]
      BY <1>0, <1>5 DEF Spawn, TypeOK, TaskState
    <2>2. task[k].slot \in Slots /\ task[k] \in TaskState
      BY <1>5, TaskFacts DEF Spawn
    <2>3. [task[k] EXCEPT !.pc = "pidfile", !.pid = p] \in TaskState
      BY <2>2 DEF TaskState, Stage
    <2>4. task' \in [Tasks -> TaskState]
      BY <1>0, <2>1, <2>3 DEF TypeOK
    <2> QED
      BY <1>0, <1>5, <2>1, <2>2, <2>4 DEF TypeOK, Spawn, disk, recovery, history, bounds
  <1>6. ASSUME NEW k \in Tasks, StartFails(k)  PROVE TypeOK'
    <2>1. task[k].slot \in Slots
      BY <1>6, TaskFacts DEF StartFails
    <2>2. task' \in [Tasks -> TaskState] /\ next' \in [Tenants -> Nat]
      BY <1>0, <1>6, <2>1, AbandonTyped DEF StartFails
    <2> QED
      BY <1>0, <1>6, <2>1, <2>2 DEF TypeOK, StartFails, Disturbs, disk, bounds
  <1>7. ASSUME NEW k \in Tasks, WritePid(k)  PROVE TypeOK'
    <2> DEFINE s == task[k].slot
               t == Tenant(s)
    <2>1. s \in Slots /\ t \in Tenants /\ task[k].pid \in Pids /\ task[k] \in TaskState
      BY <1>7, TaskFacts DEF WritePid
    <2>2. /\ pidFile' \in [Slots -> Pids \cup {NoPid}]
          /\ unmarked' \subseteq Pids /\ failures' \in 0..MaxFailures
      <3>1. \/ UNCHANGED pidFile
            \/ pidFile' = [pidFile EXCEPT ![s] = task[k].pid]
            \/ pidFile' = [pidFile EXCEPT ![s] = NoPid]
        BY <1>7 DEF WritePid
      <3>2. pidFile' \in [Slots -> Pids \cup {NoPid}]
        BY <1>0, <2>1, <3>1 DEF TypeOK
      <3>3. unmarked' \in {unmarked, unmarked \cup {task[k].pid}}
        BY <1>7 DEF WritePid
      <3>4. UNCHANGED failures \/ Fails
        BY <1>7 DEF WritePid
      <3> QED
        BY <1>0, <2>1, <3>2, <3>3, <3>4 DEF TypeOK, Fails
    <2>3. CASE k = Recovery
      <3>1. image[t] \in Seq(Record) /\ next[t] \in 1..Len(image[t])
        BY <1>0, <1>7, <2>1, <2>3 DEF TypeOK, WritePid, IInv, RecoveryInv
      <3> DEFINE r == [image[t][next[t]] EXCEPT !.pid = task[k].pid]
      <3>2. r \in Record
        <4>1. image[t][next[t]] \in Record
          BY <3>1
        <4> QED
          BY <2>1, <4>1 DEF Record
      <3>3. image' = [image EXCEPT ![t] = [image[t] EXCEPT ![next[t]] = r]]
        BY <1>0, <1>7, <2>1, <2>3, <3>1 DEF WritePid, TypeOK
      <3> HIDE DEF r
      <3>4. [image[t] EXCEPT ![next[t]] = r] \in Seq(Record)
        BY <3>1, <3>2, ExceptSeq
      <3>5. image' \in [Tenants -> Seq(Record)]
        BY <1>0, <2>1, <3>3, <3>4 DEF TypeOK
      <3>6. task' \in [Tasks -> TaskState] /\ next' \in [Tenants -> Nat]
        BY <1>0, <1>7, <2>1, <2>3, AbandonTyped DEF WritePid
      <3> QED
        BY <1>0, <1>7, <2>2, <3>5, <3>6 DEF TypeOK, WritePid
    <2>4. CASE k # Recovery
      <3>0. PICK x \in Stamps : task' = [task EXCEPT ![k].pc = "load", ![k].stamp = x]
        BY <1>7, <2>4 DEF WritePid
      <3>1. task' = [task EXCEPT ![k] = [task[k] EXCEPT !.pc = "load", !.stamp = x]]
        BY <1>0, <3>0 DEF TypeOK
      <3>2. [task[k] EXCEPT !.pc = "load", !.stamp = x] \in TaskState
        BY <2>1 DEF TaskState, Stage
      <3>3. task' \in [Tasks -> TaskState]
        BY <1>0, <3>1, <3>2 DEF TypeOK
      <3> QED
        BY <1>0, <1>7, <2>2, <2>4, <3>3 DEF TypeOK, WritePid
    <2> QED
      BY <2>3, <2>4
  <1>8. ASSUME NEW k \in Tasks, SaveLoad(k)  PROVE TypeOK'
    <2> DEFINE t == Tenant(task[k].slot)
    <2>1. t \in Tenants /\ task[k] \in TaskState /\ IdleTask \in TaskState
      BY <1>8, TaskFacts DEF SaveLoad
    <2>2. [task[k] EXCEPT !.pc = "save", !.list = records[t]] \in TaskState
      BY <1>0, <2>1 DEF TypeOK, TaskState, Stage
    <2>3. \/ task' = [task EXCEPT ![k] = [task[k] EXCEPT !.pc = "save", !.list = records[t]]]
          \/ task' = [task EXCEPT ![k] = IdleTask]
      BY <1>0, <1>8 DEF SaveLoad, TypeOK
    <2>4. task' \in [Tasks -> TaskState]
      BY <1>0, <2>1, <2>2, <2>3 DEF TypeOK
    <2> QED
      BY <1>0, <1>8, <2>4 DEF TypeOK, SaveLoad, disk, recovery, history, bounds
  <1>9. ASSUME NEW k \in Tasks, SaveWrite(k)  PROVE TypeOK'
    <2> DEFINE s == task[k].slot
               r == [slot |-> s, stamp |-> task[k].stamp, status |-> "running",
                     pid |-> task[k].pid]
    <2>1. /\ s \in Slots /\ Tenant(s) \in Tenants /\ task[k].pid \in Pids
          /\ task[k] \in TaskState /\ task[k].list \in Seq(Record)
      BY <1>9, TaskFacts DEF SaveWrite
    <2>2. r \in Record
      BY <2>1 DEF Record, TaskState
    <2>3. WriteList(Tenant(s), Upsert(task[k].list, r))
      BY <1>9 DEF SaveWrite
    <2> HIDE DEF r
    <2>4. Upsert(task[k].list, r) \in Seq(Record)
      BY <2>1, <2>2, UpsertProp
    <2>5. /\ records' \in [Tenants -> Seq(Record)] /\ cut' \subseteq Tenants
          /\ failures' \in 0..MaxFailures
      BY <1>0, <2>1, <2>3, <2>4, WriteListTyped
    <2>6. task' \in [Tasks -> TaskState]
      BY <1>0, <1>9, IdleTyped DEF TypeOK, SaveWrite
    <2> QED
      BY <1>0, <1>9, <2>5, <2>6 DEF TypeOK, SaveWrite, recovery, history
  <1>10. ASSUME NEW k \in Tasks, StopKill(k)  PROVE TypeOK'
    <2>1. task[k].slot \in Slots /\ task' \in [Tasks -> TaskState]
      BY <1>0, <1>10, GotoTyped, TaskFacts DEF TypeOK, StopKill, Stage
    <2>2. victims' \subseteq Slots \X Slots
      BY <1>10, <2>1, SignalTyped DEF StopKill
    <2> QED
      BY <1>0, <1>10, <2>1, <2>2 DEF TypeOK, StopKill, Disturbs, disk, recovery, bounds
  <1>11. ASSUME NEW k \in Tasks, StopWrite(k)  PROVE TypeOK'
    <2> DEFINE list == task[k].list
               pos == task[k].pos
               r == [list[pos] EXCEPT !.status = "stopped", !.pid = NoPid]
    <2>1. list \in Seq(Record) /\ pos \in 1..Len(list)
      BY <1>11, TaskFacts DEF StopWrite
    <2>2. list[pos] \in Record
      BY <2>1
    <2>3. r \in Record
      BY <2>2 DEF Record
    <2>4. WriteList(Tenant(task[k].slot), [list EXCEPT ![pos] = r])
      BY <1>11, <2>1 DEF StopWrite
    <2>5. [list EXCEPT ![pos] = r] \in Seq(Record)
      <3> HIDE DEF r, list, pos
      <3> QED
        BY <2>1, <2>3, ExceptSeq
    <2>6. /\ records' \in [Tenants -> Seq(Record)] /\ cut' \subseteq Tenants
          /\ failures' \in 0..MaxFailures
      <3>1. Tenant(task[k].slot) \in Tenants
        BY <1>11, TaskFacts DEF StopWrite
      <3> QED
        BY <1>0, <2>4, <2>5, <3>1, WriteListTyped
    <2>7. task' \in [Tasks -> TaskState]
      BY <1>0, <1>11, IdleTyped DEF TypeOK, StopWrite
    <2> QED
      BY <1>0, <1>11, <2>6, <2>7 DEF TypeOK, StopWrite, recovery, history
  <1>12. ASSUME NEW t \in Tenants, RecoverNext(t)  PROVE TypeOK'
    <2> DEFINE r == image[t][next[t]]
    <2>1. image[t] \in Seq(Record) /\ next[t] \in 1..Len(image[t]) /\ Recovery \in Tasks
      BY <1>0, <1>12 DEF TypeOK, RecoverNext, Tasks
    <2>2. r \in Record /\ task[Recovery] \in TaskState
      BY <1>0, <2>1 DEF TypeOK
    <2>3. [task[Recovery] EXCEPT !.pc = "sweep", !.slot = r.slot] \in TaskState
      <3> HIDE DEF r
      <3> QED
        BY <2>2 DEF Record, TaskState, Stage
    <2>4. \/ task' = [task EXCEPT ![Recovery] =
                        [task[Recovery] EXCEPT !.pc = "sweep", !.slot = r.slot]]
          \/ task' = task
      BY <1>0, <1>12, <2>1 DEF RecoverNext, TypeOK
    <2>5. task' \in [Tasks -> TaskState]
      BY <1>0, <2>1, <2>3, <2>4 DEF TypeOK
    <2>6. next' \in [Tenants -> Nat]
      BY <1>0, <1>12 DEF TypeOK, RecoverNext
    <2> QED
      BY <1>0, <1>12, <2>5, <2>6 DEF TypeOK, RecoverNext, disk, history, bounds
  <1>13. ASSUME NEW t \in Tenants, RecoverSave(t)  PROVE TypeOK'
    <2>1. image[t] \in Seq(Record)
      BY <1>0 DEF TypeOK
    <2>2. /\ records' \in [Tenants -> Seq(Record)] /\ cut' \subseteq Tenants
          /\ failures' \in 0..MaxFailures
      BY <1>0, <1>13, <2>1, WriteListTyped DEF RecoverSave
    <2> QED
      BY <1>0, <1>13, <2>2 DEF TypeOK, RecoverSave, history
  <1>14. ASSUME NEW p \in Pids, Exit(p)  PROVE TypeOK'
    BY <1>0, <1>14 DEF TypeOK, Exit, Disturbs, disk, recovery, bounds, IInv, OwnerInv
  <1>15. CASE Crash
    <2>1. task' \in [Tasks -> TaskState]
      BY <1>0, <1>15, IdleTyped DEF TypeOK, Crash
    <2>2. unmarked' \subseteq Pids
      <3>1. \A k \in Tasks : task[k].pc = "pidfile" => task[k].pid \in Pids
        BY TaskFacts
      <3> QED
        BY <1>0, <1>15, <3>1 DEF TypeOK, Crash
    <2>3. image' \in [Tenants -> Seq(Record)]
      BY <1>15 DEF Crash
    <2>4. pidFile' \in [Slots -> Pids \cup {NoPid}]
      BY <1>0, <1>15 DEF TypeOK, Crash
    <2>5. cut' \subseteq Tenants
      <3>1. \A k \in Tasks : task[k].pc \in {"save", "write"} => Tenant(task[k].slot) \in Tenants
        BY TaskFacts
      <3> QED
        BY <1>0, <1>15, <3>1 DEF TypeOK, Crash
    <2> QED
      BY <1>0, <1>15, <2>1, <2>2, <2>3, <2>4, <2>5 DEF TypeOK, Crash
  <1>16. CASE Restart
    <2>1. task' \in [Tasks -> TaskState]
      BY <1>0, <1>16, IdleVariants DEF TypeOK, Restart, Stage, Tasks
    <2>2. image' \in [Tenants -> Seq(Record)] /\ next' \in [Tenants -> Nat]
      BY <1>0, <1>16 DEF TypeOK, Restart
    <2>3. listed' \subseteq Slots
      <3>1. \A t \in Tenants : \A i \in Running(records[t]) : records[t][i].slot \in Slots
        <4>1. ASSUME NEW t \in Tenants, NEW i \in Running(records[t])
              PROVE  records[t][i] \in Record
          BY <1>0 DEF TypeOK, Running
        <4> QED
          BY <4>1 DEF Record
      <3> QED
        BY <1>16, <3>1 DEF Restart
    <2>4. unread' \subseteq Tenants
      BY <1>0, <1>16 DEF TypeOK, Restart
    <2> QED
      BY <1>0, <1>16, <2>1, <2>2, <2>3, <2>4 DEF TypeOK, Restart, disk, bounds
  <1>17. CASE Serve
    <2>1. task' \in [Tasks -> TaskState]
      BY <1>0, <1>17, IdleTyped DEF TypeOK, Serve, Tasks
    <2>2. image' \in [Tenants -> Seq(Record)]
      BY <1>17 DEF Serve
    <2> QED
      BY <1>0, <1>17, <2>1, <2>2 DEF TypeOK, Serve, disk, bounds
  <1>18. CASE UNCHANGED vars
    BY <1>0, <1>18 DEF TypeOK, vars, disk, recovery, history, bounds
  <1> QED
    BY <1>2, <1>3, <1>4, <1>5, <1>6, <1>7, <1>8, <1>9, <1>10, <1>11, <1>12,
       <1>13, <1>14, <1>15, <1>16, <1>17, <1>18, <1>19, <1>20, <1>21 DEF Next

-----------------------------------------------------------------------------
(* A pid keeps its owner for good: only a spawn names owners, and only of  *)
(* pids not given out before.                                              *)
LEMMA OwnerStep ==
  ASSUME IInv, [Next]_vars, FreshPids
  PROVE  /\ used \subseteq used'
         /\ \A p \in used : owner'[p] = owner[p]
         /\ OwnerInv'
  <1>0. TypeOK /\ OwnerInv
    BY DEF IInv
  <1>1. CASE UNCHANGED <<used, owner>>
    BY <1>0, <1>1 DEF OwnerInv
  <1>2. ASSUME NEW k \in Tasks, Spawn(k)
        PROVE  used \subseteq used' /\ (\A p \in used : owner'[p] = owner[p]) /\ OwnerInv'
    <2>1. task[k].slot \in Slots
      BY <1>2, TaskFacts DEF Spawn
    <2>2. PICK p \in Pids \ alive : /\ p \notin used
                                    /\ used' = used \cup {p}
                                    /\ owner' = [owner EXCEPT ![p] = task[k].slot]
      BY <1>2 DEF Spawn, FreshPids
    <2> QED
      BY <1>0, <2>1, <2>2 DEF TypeOK, OwnerInv
  <1>3. \/ UNCHANGED <<used, owner>>
        \/ \E k \in Tasks : Spawn(k)
    BY DEF Next, vars, Run, Deploy, Stop, SweepRead, SweepLook, SweepKill, SweepUnlink,
           StartFails, WritePid, SaveLoad, SaveWrite, StopKill, StopWrite, RecoverNext, RecoverSave, Exit, Crash,
           Restart, Serve
  <1> QED
    BY <1>1, <1>2, <1>3

(* The pid file of an agent and the lists of a tenant name, as long as the *)
(* code rewrites them, only processes that were started for them.          *)
LEMMA FilesStep ==
  ASSUME IInv, [Next]_vars, FreshPids
  PROVE  FilesInv'
  <1>0. TypeOK /\ FilesInv
    BY DEF IInv
  <1>a. used \subseteq used' /\ \A p \in used : owner'[p] = owner[p]
    BY OwnerStep
  <1>b. ASSUME NEW k \in Tasks, task[k].pc \in {"pidfile", "save", "kill", "write"}
        PROVE  /\ task[k].slot \in Slots /\ Tenant(task[k].slot) \in Tenants
               /\ Given(task[k].pid, task[k].slot)
               /\ task[k].pc # "pidfile" => OwnedList(task[k].list, Tenant(task[k].slot))
    BY <1>b, TaskFacts DEF IInv, TasksInv, TaskInv
  <1>1. CASE UNCHANGED <<pidFile, records, image>>
    BY <1>0, <1>1, <1>a DEF FilesInv, OwnedList, Given
  <1>2. ASSUME \A s \in Slots : pidFile'[s] \in {pidFile[s], NoPid},
               UNCHANGED records, \A t \in Tenants : image'[t] \in {<<>>, image[t]}
        PROVE  FilesInv'
    BY <1>0, <1>a, <1>2 DEF FilesInv, OwnedList, Given
  <1>11. ASSUME NEW k \in Tasks, SweepUnlink(k)  PROVE FilesInv'
    <2>1. task[k].slot \in Slots
      BY <1>11, TaskFacts DEF SweepUnlink
    <2>2. \A s \in Slots : pidFile'[s] \in {pidFile[s], NoPid}
      BY <1>0, <1>11, <2>1 DEF SweepUnlink, TypeOK
    <2> QED
      BY <1>2, <1>11, <2>2 DEF SweepUnlink, recovery
  <1>3. ASSUME NEW k \in Tasks, WritePid(k)  PROVE FilesInv'
    <2> DEFINE s == task[k].slot
               t == Tenant(s)
    <2>1. s \in Slots /\ t \in Tenants /\ Given(task[k].pid, s)
      BY <1>3, <1>b DEF WritePid
    <2>2. \A q \in Slots : Given(pidFile[q], q)'
      <3>1. \A q \in Slots : \/ pidFile'[q] \in {pidFile[q], NoPid}
                             \/ q = s /\ pidFile'[q] = task[k].pid
        BY <1>0, <1>3, <2>1 DEF WritePid, TypeOK
      <3> QED
        BY <1>0, <1>a, <2>1, <3>1 DEF FilesInv, Given
    <2>3. \A u \in Tenants : OwnedList(records[u], u)'
      BY <1>0, <1>3, <1>a DEF FilesInv, OwnedList, Given, WritePid
    <2>4. CASE k # Recovery
      <3>1. UNCHANGED image
        BY <1>3, <2>4 DEF WritePid
      <3>2. \A u \in Tenants : OwnedList(image[u], u)'
        BY <1>0, <1>a, <3>1 DEF FilesInv, OwnedList, Given
      <3> QED
        BY <2>2, <2>3, <3>2 DEF FilesInv
    <2>5. CASE k = Recovery
      <3>1. /\ next[t] \in DOMAIN image[t]
            /\ image[t][next[t]].slot = s
        BY <1>3, <2>5 DEF IInv, RecoveryInv, WritePid
      <3>2. image[t] \in Seq(Record) /\ image[t][next[t]] \in Record
        BY <1>0, <2>1, <3>1 DEF TypeOK
      <3> DEFINE r == [image[t][next[t]] EXCEPT !.pid = task[k].pid]
      <3>3. r.slot = s /\ r.pid = task[k].pid
        BY <3>1, <3>2 DEF Record
      <3>4. image' = [image EXCEPT ![t] = [image[t] EXCEPT ![next[t]] = r]]
        BY <1>0, <1>3, <2>1, <2>5, <3>1 DEF WritePid, TypeOK
      <3> HIDE DEF r
      <3>5. /\ DOMAIN image'[t] = DOMAIN image[t]
            /\ \A i \in DOMAIN image[t] :
                 image'[t][i] = IF i = next[t] THEN r ELSE image[t][i]
            /\ \A u \in Tenants \ {t} : image'[u] = image[u]
        BY <1>0, <2>1, <3>2, <3>4 DEF TypeOK
      <3>6. \A u \in Tenants \ {t} : OwnedList(image[u], u)'
        BY <1>0, <1>a, <3>5 DEF FilesInv, OwnedList, Given
      <3>7. \A u \in Tenants : u = t => OwnedList(image[u], u)'
        BY <1>0, <1>a, <2>1, <3>3, <3>5 DEF FilesInv, OwnedList, Given
      <3>8. \A u \in Tenants : OwnedList(image[u], u)'
        BY <3>6, <3>7
      <3> QED
        BY <2>2, <2>3, <3>8 DEF FilesInv
    <2> QED
      BY <2>4, <2>5
  <1>4. ASSUME NEW t \in Tenants, NEW list, WriteList(t, list), UNCHANGED <<pidFile, image>>,
               \A i \in DOMAIN list :
                 Tenant(list[i].slot) = t /\ Given(list[i].pid, list[i].slot)
        PROVE  FilesInv'
    <2>1. /\ records'[t] \in {list, records[t]}
          /\ \A u \in Tenants \ {t} : records'[u] = records[u]
      BY <1>0, <1>4 DEF TypeOK, WriteList
    <2>2. OwnedList(records[t], t)'
      <3>1. CASE records'[t] = list
        BY <1>a, <1>4, <3>1 DEF OwnedList, Given
      <3>2. CASE records'[t] = records[t]
        BY <1>0, <1>a, <3>2 DEF FilesInv, OwnedList, Given
      <3> QED
        BY <2>1, <3>1, <3>2
    <2>3. \A u \in Tenants \ {t} : OwnedList(records[u], u)'
      BY <1>0, <1>a, <2>1 DEF FilesInv, OwnedList, Given
    <2>4. \A u \in Tenants : OwnedList(image[u], u)'
      BY <1>0, <1>a, <1>4 DEF FilesInv, OwnedList, Given
    <2>5. \A q \in Slots : Given(pidFile[q], q)'
      BY <1>0, <1>a, <1>4 DEF FilesInv, Given
    <2> QED
      BY <2>2, <2>3, <2>4, <2>5 DEF FilesInv
  <1>5. ASSUME NEW k \in Tasks, SaveWrite(k)  PROVE FilesInv'
    <2> DEFINE s == task[k].slot
               r == [slot |-> s, stamp |-> task[k].stamp, status |-> "running",
                     pid |-> task[k].pid]
               list == Upsert(task[k].list, r)
    <2>1. /\ s \in Slots /\ Tenant(s) \in Tenants /\ Given(task[k].pid, s)
          /\ OwnedList(task[k].list, Tenant(s))
      BY <1>5, <1>b DEF SaveWrite
    <2>2. r \in Record /\ task[k].list \in Seq(Record)
      BY <1>5, TaskFacts DEF SaveWrite, Record, TaskState
    <2>3. r.slot = s /\ r.pid = task[k].pid
      OBVIOUS
    <2>4. WriteList(Tenant(s), list)
      BY <1>5 DEF SaveWrite
    <2>5. UNCHANGED <<pidFile, image>>
      BY <1>5 DEF SaveWrite, recovery
    <2> HIDE DEF r
    <2>6. \A i \in DOMAIN list : \/ list[i] = r
                                 \/ i \in DOMAIN task[k].list /\ list[i] = task[k].list[i]
      BY <2>2, UpsertProp
    <2> HIDE DEF list
    <2>7. \A i \in DOMAIN list :
            Tenant(list[i].slot) = Tenant(s) /\ Given(list[i].pid, list[i].slot)
      BY <2>1, <2>3, <2>6 DEF OwnedList
    <2> QED
      BY <1>4, <2>1, <2>4, <2>5, <2>7
  <1>6. ASSUME NEW k \in Tasks, StopWrite(k)  PROVE FilesInv'
    <2> DEFINE t == Tenant(task[k].slot)
               old == task[k].list
               pos == task[k].pos
               r == [old[pos] EXCEPT !.status = "stopped", !.pid = NoPid]
               list == [old EXCEPT ![pos] = r]
    <2>1. t \in Tenants /\ OwnedList(old, t)
      BY <1>6, <1>b DEF StopWrite
    <2>2. old \in Seq(Record) /\ pos \in 1..Len(old)
      BY <1>6, TaskFacts DEF StopWrite
    <2>3. old[pos] \in Record
      BY <2>2
    <2>4. r.slot = old[pos].slot /\ r.pid = NoPid
      BY <2>3 DEF Record
    <2>5. WriteList(t, list)
      BY <1>6, <2>2 DEF StopWrite
    <2>6. UNCHANGED <<pidFile, image>>
      BY <1>6 DEF StopWrite, recovery
    <2> HIDE DEF r, old, pos
    <2>7. \A i \in DOMAIN list : i \in DOMAIN old /\ list[i] = IF i = pos THEN r ELSE old[i]
      BY <2>2
    <2> HIDE DEF list
    <2>8. \A i \in DOMAIN list :
            Tenant(list[i].slot) = t /\ Given(list[i].pid, list[i].slot)
      BY <2>1, <2>2, <2>4, <2>7 DEF OwnedList, Given
    <2> QED
      BY <1>4, <2>1, <2>5, <2>6, <2>8
  <1>7. ASSUME NEW t \in Tenants, RecoverSave(t)  PROVE FilesInv'
    <2>1. \A i \in DOMAIN image[t] :
            Tenant(image[t][i].slot) = t /\ Given(image[t][i].pid, image[t][i].slot)
      BY <1>0 DEF FilesInv, OwnedList
    <2> QED
      BY <1>4, <1>7, <2>1 DEF RecoverSave
  <1>8. ASSUME UNCHANGED <<pidFile, records>>,
               \A t \in Tenants : image'[t] \in {<<>>, records[t]}
        PROVE  FilesInv'
    <2>1. \A t \in Tenants : OwnedList(records[t], t)' /\ OwnedList(image[t], t)'
      BY <1>0, <1>a, <1>8 DEF FilesInv, OwnedList, Given
    <2> QED
      BY <1>0, <1>a, <1>8, <2>1 DEF FilesInv, Given
  <1>9. CASE Crash \/ Restart \/ Serve
    <2>1. CASE Crash
      <3>1. \A s \in Slots : pidFile'[s] \in {pidFile[s], NoPid}
        BY <2>1 DEF Crash
      <3> QED
        BY <1>2, <2>1, <3>1 DEF Crash
    <2>2. CASE Restart
      <3>1. \A t \in Tenants : image'[t] \in {<<>>, records[t]}
        BY <2>2 DEF Restart
      <3> QED
        BY <1>8, <2>2, <3>1 DEF Restart, disk
    <2>3. CASE Serve
      BY <1>8, <2>3 DEF Serve, disk
    <2> QED
      BY <1>9, <2>1, <2>2, <2>3
  <1>10. \/ UNCHANGED <<pidFile, records, image>>
         \/ \E k \in Tasks : SweepUnlink(k) \/ WritePid(k) \/ SaveWrite(k) \/ StopWrite(k)
         \/ \E t \in Tenants : RecoverSave(t)
         \/ Crash \/ Restart \/ Serve
    <2>1. ASSUME NEW k \in Api \cup Cli, NEW s \in Slots, Run(k, s) \/ Deploy(k, s) \/ Stop(k, s)
          PROVE  UNCHANGED <<pidFile, records, image>>
      BY <2>1 DEF Run, Deploy, Stop, recovery, disk
    <2>2. ASSUME NEW k \in Tasks, \/ SweepRead(k) \/ SweepLook(k) \/ SweepKill(k) \/ Spawn(k)
                                  \/ StartFails(k) \/ SaveLoad(k) \/ StopKill(k)
          PROVE  UNCHANGED <<pidFile, records, image>>
      BY <2>2 DEF SweepRead, SweepLook, SweepKill, Spawn, StartFails, SaveLoad, StopKill, recovery, disk
    <2>3. ASSUME NEW t \in Tenants, RecoverNext(t)  PROVE UNCHANGED <<pidFile, records, image>>
      BY <2>3 DEF RecoverNext, disk
    <2>4. ASSUME NEW p \in Pids, Exit(p)  PROVE UNCHANGED <<pidFile, records, image>>
      BY <2>4 DEF Exit, recovery, disk
    <2>5. CASE UNCHANGED vars
      BY <2>5 DEF vars, recovery, disk
    <2> QED
      BY <2>1, <2>2, <2>3, <2>4, <2>5 DEF Next
  <1> QED
    BY <1>1, <1>3, <1>5, <1>6, <1>7, <1>9, <1>10, <1>11

-----------------------------------------------------------------------------
(* Every action leaves the tasks with slots, pids and lists of their own.  *)
LEMMA TasksStep ==
  ASSUME IInv, [Next]_vars, FreshPids
  PROVE  TasksInv'
  <1>0. TypeOK /\ \A k \in Tasks : TaskInv(k)
    BY DEF IInv, TasksInv
  <1>a. used \subseteq used' /\ \A p \in used : owner'[p] = owner[p]
    BY OwnerStep
  <1>b. SUFFICES ASSUME NEW j \in Tasks  PROVE TaskInv(j)'
    BY DEF TasksInv
  <1>c. ASSUME task'[j] = task[j]  PROVE TaskInv(j)'
    BY <1>0, <1>a, <1>c DEF TaskInv, OwnedList, Given
  <1>d. ASSUME task'[j].pc \in {"idle", "scan"}  PROVE TaskInv(j)'
    BY <1>d DEF TaskInv
  <1>e. ASSUME task'[j].pc \in {"sweep", "unlink", "spawn"}, task'[j].slot \in Slots
        PROVE  TaskInv(j)'
    BY <1>e DEF TaskInv
  <1>f. ASSUME task'[j].pc \in {"look", "orphan", "pidfile", "load"}, task'[j].slot \in Slots,
               task'[j].pid # NoPid, task'[j].pid \in used', owner'[task'[j].pid] = task'[j].slot
        PROVE  TaskInv(j)'
    BY <1>f DEF TaskInv, Given
  <1>1. ASSUME NEW k \in Api \cup Cli, NEW s \in Slots, Run(k, s) \/ Deploy(k, s)
        PROVE  TaskInv(j)'
    <2>1. task' = [task EXCEPT ![k] = [IdleTask EXCEPT !.pc = "sweep", !.slot = s]]
      BY <1>1 DEF Run, Deploy, BeginStart
    <2>2. [IdleTask EXCEPT !.pc = "sweep", !.slot = s].pc = "sweep"
          /\ [IdleTask EXCEPT !.pc = "sweep", !.slot = s].slot = s
      BY DEF IdleTask
    <2>3. \/ task'[j] = task[j]
          \/ task'[j].pc = "sweep" /\ task'[j].slot = s
      BY <1>0, <2>1, <2>2 DEF TypeOK
    <2> QED
      BY <1>c, <1>e, <2>3
  <1>2. ASSUME NEW k \in Api \cup Cli, NEW s \in Slots, Stop(k, s)
        PROVE  TaskInv(j)'
    <2> DEFINE list == records[Tenant(s)]
    <2>1. PICK pos \in DOMAIN list :
            /\ list[pos].slot = s /\ list[pos].pid # NoPid
            /\ task' = [task EXCEPT ![k] = [IdleTask EXCEPT !.pc = "kill",
                          !.slot = s, !.pid = list[pos].pid, !.list = list, !.pos = pos]]
      BY <1>2 DEF Stop
    <2> DEFINE new == [IdleTask EXCEPT !.pc = "kill", !.slot = s, !.pid = list[pos].pid,
                                       !.list = list, !.pos = pos]
    <2>2. /\ new.pc = "kill" /\ new.slot = s /\ new.pid = list[pos].pid
          /\ new.list = list /\ new.pos = pos
      BY DEF IdleTask
    <2>3. Tenant(s) \in Tenants /\ OwnedList(list, Tenant(s))
      BY DEF IInv, FilesInv, Slots, Tenant
    <2> HIDE DEF list, new
    <2>4. list[pos].pid \in used' /\ owner'[list[pos].pid] = s
      BY <1>a, <2>1, <2>3 DEF OwnedList, Given
    <2>5. \A i \in DOMAIN list : /\ Tenant(list[i].slot) = Tenant(s)
                                 /\ Given(list[i].pid, list[i].slot)
      BY <2>3 DEF OwnedList
    <2>6. task' = [task EXCEPT ![k] = new]
      BY <2>1 DEF new
    <2>7. CASE j = k
      <3>1. task'[j] = new
        BY <1>0, <2>6, <2>7 DEF TypeOK
      <3> QED
        BY <1>a, <2>1, <2>2, <2>4, <2>5, <3>1 DEF TaskInv, OwnedList, Given
    <2>8. CASE j # k
      BY <1>0, <1>c, <2>6, <2>8 DEF TypeOK
    <2> QED
      BY <2>7, <2>8
  <1>3. ASSUME NEW k \in Tasks, SweepRead(k)  PROVE TaskInv(j)'
    <2> DEFINE p == pidFile[task[k].slot]
    <2>1. task[k].slot \in Slots
      BY <1>3, TaskFacts DEF SweepRead
    <2>2. p # NoPid => p \in used' /\ owner'[p] = task[k].slot
      BY <1>a, <2>1 DEF IInv, FilesInv, Given
    <2>3. \/ task'[j] = task[j]
          \/ /\ p # NoPid
             /\ task'[j].pc = "look" /\ task'[j].slot = task[k].slot /\ task'[j].pid = p
          \/ task'[j].pc \in {"unlink", "spawn"} /\ task'[j].slot = task[k].slot
      BY <1>0, <1>3 DEF SweepRead, Goto, TypeOK, TaskState
    <2> HIDE DEF p
    <2> QED
      BY <1>c, <1>e, <1>f, <2>1, <2>2, <2>3
  <1>13. ASSUME NEW k \in Tasks, SweepLook(k)  PROVE TaskInv(j)'
    <2>1. /\ task[k].slot \in Slots /\ task[k].pid # NoPid
          /\ task[k].pid \in used' /\ owner'[task[k].pid] = task[k].slot
      BY <1>0, <1>a, <1>13 DEF SweepLook, TaskInv, Given
    <2>2. \/ task'[j] = task[j]
          \/ /\ task'[j].pc \in {"orphan", "unlink"}
             /\ task'[j].slot = task[k].slot /\ task'[j].pid = task[k].pid
      BY <1>0, <1>13 DEF SweepLook, Goto, TypeOK, TaskState
    <2> QED
      BY <1>c, <1>e, <1>f, <2>1, <2>2
  <1>14. ASSUME NEW k \in Tasks, SweepKill(k) \/ SweepUnlink(k)  PROVE TaskInv(j)'
    <2>1. task[k].slot \in Slots
      BY <1>14, TaskFacts DEF SweepKill, SweepUnlink
    <2>2. \/ task'[j] = task[j]
          \/ task'[j].pc \in {"unlink", "spawn"} /\ task'[j].slot = task[k].slot
      BY <1>0, <1>14 DEF SweepKill, SweepUnlink, Goto, TypeOK, TaskState
    <2> QED
      BY <1>c, <1>e, <2>1, <2>2
  <1>4. ASSUME NEW k \in Tasks, Spawn(k)  PROVE TaskInv(j)'
    <2>1. PICK p \in Pids \ alive :
            /\ used' = used \cup {p}
            /\ owner' = [owner EXCEPT ![p] = task[k].slot]
            /\ task' = [task EXCEPT ![k].pc = "pidfile", ![k].pid = p]
      BY <1>4 DEF Spawn
    <2>2. task[k].slot \in Slots
      BY <1>4, TaskFacts DEF Spawn
    <2>3. p \in used' /\ owner'[p] = task[k].slot /\ p # NoPid
      BY <1>0, <2>1, RuntimeAssumption DEF TypeOK
    <2>4. \/ task'[j] = task[j]
          \/ task'[j].pc = "pidfile" /\ task'[j].slot = task[k].slot /\ task'[j].pid = p
      BY <1>0, <2>1 DEF TypeOK, TaskState
    <2> QED
      BY <1>c, <1>f, <2>2, <2>3, <2>4
  <1>5. ASSUME NEW k \in Tasks, StartFails(k)  PROVE TaskInv(j)'
    <2>1. task'[j] = task[j] \/ task'[j].pc \in {"idle", "scan"}
      BY <1>0, <1>5, IdleTyped DEF StartFails, Abandon, TypeOK, TaskState
    <2> QED
      BY <1>c, <1>d, <2>1
  <1>6. ASSUME NEW k \in Tasks, WritePid(k)  PROVE TaskInv(j)'
    <2>1. /\ task[k].slot \in Slots /\ task[k].pid # NoPid
          /\ task[k].pid \in used' /\ owner'[task[k].pid] = task[k].slot
      BY <1>0, <1>a, <1>6 DEF WritePid, TaskInv, Given
    <2>2. CASE k = Recovery
      <3>1. task'[j] = task[j] \/ task'[j].pc \in {"idle", "scan"}
        BY <1>0, <1>6, <2>2, IdleTyped DEF WritePid, Abandon, TypeOK, TaskState
      <3> QED
        BY <1>c, <1>d, <3>1
    <2>3. CASE k # Recovery
      <3>1. \/ task'[j] = task[j]
            \/ /\ task'[j].pc = "load"
               /\ task'[j].slot = task[k].slot /\ task'[j].pid = task[k].pid
        BY <1>0, <1>6, <2>3 DEF WritePid, TypeOK, TaskState
      <3> QED
        BY <1>c, <1>f, <2>1, <3>1
    <2> QED
      BY <2>2, <2>3
  <1>7. ASSUME NEW k \in Tasks, SaveLoad(k)  PROVE TaskInv(j)'
    <2> DEFINE t == Tenant(task[k].slot)
               list == records[t]
    <2>1. /\ task[k].slot \in Slots /\ task[k].pid # NoPid
          /\ task[k].pid \in used' /\ owner'[task[k].pid] = task[k].slot
      BY <1>0, <1>a, <1>7 DEF SaveLoad, TaskInv, Given
    <2>2. OwnedList(list, t)
      BY <2>1 DEF IInv, FilesInv, Slots, Tenant
    <2>3. \/ task' = [task EXCEPT ![k].pc = "save", ![k].list = list]
          \/ task' = [task EXCEPT ![k] = IdleTask]
      BY <1>7 DEF SaveLoad
    <2>4. \/ task'[j] = task[j]
          \/ task'[j].pc = "idle"
          \/ /\ task'[j].pc = "save" /\ task'[j].list = list
             /\ task'[j].slot = task[k].slot /\ task'[j].pid = task[k].pid
      <3> HIDE DEF list
      <3> QED
        BY <1>0, <2>3, IdleTyped DEF TypeOK, TaskState
    <2>5. CASE /\ task'[j].pc = "save" /\ task'[j].list = list
               /\ task'[j].slot = task[k].slot /\ task'[j].pid = task[k].pid
      BY <1>a, <2>1, <2>2, <2>5 DEF TaskInv, OwnedList, Given
    <2> QED
      BY <1>c, <1>d, <2>4, <2>5
  <1>8. ASSUME NEW k \in Tasks, SaveWrite(k) \/ StopWrite(k)  PROVE TaskInv(j)'
    <2>1. task'[j] = task[j] \/ task'[j].pc = "idle"
      BY <1>0, <1>8, IdleTyped DEF SaveWrite, StopWrite, TypeOK
    <2> QED
      BY <1>c, <1>d, <2>1
  <1>9. ASSUME NEW k \in Tasks, StopKill(k)  PROVE TaskInv(j)'
    <2>1. \/ task'[j] = task[j]
          \/ /\ j = k /\ task'[k] = [task[k] EXCEPT !.pc = "write"]
      BY <1>0, <1>9 DEF StopKill, Goto, TypeOK
    <2>2. CASE j = k /\ task'[k] = [task[k] EXCEPT !.pc = "write"]
      <3>1. task[k] \in TaskState /\ task[k].pc = "kill"
        BY <1>9, TaskFacts DEF StopKill
      <3>2. /\ task'[j].pc = "write" /\ task'[j].slot = task[j].slot
            /\ task'[j].pid = task[j].pid /\ task'[j].list = task[j].list
            /\ task'[j].pos = task[j].pos
        BY <2>2, <3>1 DEF TaskState
      <3> QED
        BY <1>0, <1>a, <2>2, <3>1, <3>2 DEF TaskInv, OwnedList, Given
    <2> QED
      BY <1>c, <2>1, <2>2
  <1>10. ASSUME NEW t \in Tenants, RecoverNext(t)  PROVE TaskInv(j)'
    <2>1. image[t][next[t]].slot \in Slots
      <3>1. image[t] \in Seq(Record) /\ next[t] \in DOMAIN image[t]
        BY <1>0, <1>10 DEF RecoverNext, TypeOK
      <3>2. image[t][next[t]] \in Record
        BY <3>1
      <3> QED
        BY <3>2 DEF Record
    <2>2. \/ task'[j] = task[j]
          \/ task'[j].pc = "sweep" /\ task'[j].slot = image[t][next[t]].slot
      BY <1>0, <1>10 DEF RecoverNext, TypeOK, TaskState, Tasks
    <2> QED
      BY <1>c, <1>e, <2>1, <2>2
  <1>11. CASE Crash \/ Restart \/ Serve
    <2>1. task'[j] = task[j] \/ task'[j].pc \in {"idle", "scan"}
      BY <1>0, <1>11, IdleTyped DEF Crash, Restart, Serve, TypeOK, TaskState, Tasks
    <2> QED
      BY <1>c, <1>d, <2>1
  <1>12. CASE UNCHANGED task
    BY <1>12, <1>c
  <1> QED
    BY <1>1, <1>2, <1>3, <1>4, <1>5, <1>6, <1>7, <1>8, <1>9, <1>10, <1>11, <1>12,
     <1>13, <1>14 DEF Next, RecoverSave, Exit, vars

-----------------------------------------------------------------------------
(* A request gives its task a first stage: the sweep of a start, or the    *)
(* wait of a stop.                                                         *)
LEMMA RequestTask ==
  ASSUME NEW k \in Api \cup Cli, NEW s \in Slots, Run(k, s) \/ Deploy(k, s) \/ Stop(k, s)
  PROVE  \E new : task' = [task EXCEPT ![k] = new] /\ new.pc \in {"sweep", "kill"}
  <1>1. CASE Run(k, s) \/ Deploy(k, s)
    <2>1. [IdleTask EXCEPT !.pc = "sweep", !.slot = s].pc = "sweep"
      BY DEF IdleTask
    <2> QED
      BY <1>1, <2>1 DEF Run, Deploy, BeginStart
  <1>2. CASE Stop(k, s)
    <2> DEFINE list == records[Tenant(s)]
               new(pos) == [IdleTask EXCEPT !.pc = "kill", !.slot = s,
                              !.pid = list[pos].pid, !.list = list, !.pos = pos]
    <2>1. PICK pos \in DOMAIN list : task' = [task EXCEPT ![k] = new(pos)]
      BY <1>2 DEF Stop
    <2>2. new(pos).pc = "kill"
      BY DEF IdleTask
    <2> QED
      BY <2>1, <2>2
  <1> QED
    BY <1>1, <1>2

(* Recovery starts the agent of the record it stands at, and no other.     *)
LEMMA RecoveryStep ==
  ASSUME IInv, [Next]_vars
  PROVE  RecoveryInv'
  <1>0. TypeOK /\ RecoveryInv /\ Recovery \in Tasks /\ Recovery \notin Api \cup Cli
    BY RuntimeAssumption DEF IInv, Tasks
  <1>1. ASSUME NEW k \in Tasks, k # Recovery,
               \A j \in Tasks \ {k} : task'[j] = task[j], task'[k].pc # "scan",
               UNCHANGED <<node, image, next>>
        PROVE  RecoveryInv'
    BY <1>0, <1>1 DEF RecoveryInv, Sweeping
  <1>2. ASSUME NEW k \in Api \cup Cli, NEW s \in Slots, Run(k, s) \/ Deploy(k, s) \/ Stop(k, s)
        PROVE  RecoveryInv'
    <2>1. k \in Tasks /\ k # Recovery
      BY <1>0 DEF Tasks
    <2>2. PICK new : task' = [task EXCEPT ![k] = new] /\ new.pc \in {"sweep", "kill"}
      BY <1>2, RequestTask
    <2>3. /\ \A j \in Tasks \ {k} : task'[j] = task[j]
          /\ task'[k].pc # "scan"
      BY <1>0, <2>1, <2>2 DEF TypeOK
    <2>4. UNCHANGED <<node, image, next>>
      BY <1>2 DEF Run, Deploy, Stop, recovery
    <2> QED
      BY <1>1, <2>1, <2>3, <2>4
  <1>3. ASSUME NEW k \in Tasks, k # Recovery,
               \/ SweepRead(k) \/ SweepLook(k) \/ SweepKill(k) \/ SweepUnlink(k)
               \/ Spawn(k) \/ StartFails(k) \/ WritePid(k)
               \/ SaveLoad(k) \/ SaveWrite(k) \/ StopKill(k) \/ StopWrite(k)
        PROVE  RecoveryInv'
    <2>1. /\ \A j \in Tasks \ {k} : task'[j] = task[j]
          /\ task'[k].pc # "scan"
          /\ UNCHANGED <<node, image, next>>
      BY <1>0, <1>3 DEF SweepRead, SweepLook, SweepKill, SweepUnlink, Spawn, StartFails,
             WritePid, SaveLoad, SaveWrite, StopKill, StopWrite, Abandon, Goto, TypeOK,
             TaskState, IdleTask, recovery
    <2> QED
      BY <1>1, <1>3, <2>1
  <1>4. CASE \/ SweepRead(Recovery) \/ SweepLook(Recovery) \/ SweepKill(Recovery)
             \/ SweepUnlink(Recovery) \/ Spawn(Recovery)
    <2>1. task[Recovery] \in TaskState
      BY <1>0 DEF TypeOK
    <2>2. /\ \A j \in Tasks \ {Recovery} : task'[j] = task[j]
          /\ task'[Recovery].pc \in {"spawn", "pidfile"} \cup Sweeping
          /\ task'[Recovery].slot = task[Recovery].slot
          /\ UNCHANGED <<node, image, next>>
          /\ task[Recovery].pc \in {"sweep", "spawn"} \cup Sweeping
      BY <1>0, <1>4, <2>1 DEF SweepRead, SweepLook, SweepKill, SweepUnlink, Spawn, Sweeping,
         Goto, TypeOK, TaskState, recovery
    <2> QED
      BY <1>0, <2>2 DEF RecoveryInv, Sweeping
  <1>5. CASE StartFails(Recovery) \/ WritePid(Recovery)
    <2>1. /\ \A j \in Tasks \ {Recovery} : task'[j] = task[j]
          /\ task'[Recovery].pc = "scan"
      BY <1>0, <1>5 DEF StartFails, WritePid, Abandon, TypeOK, IdleTask
    <2>2. node' # "down"
      BY <1>0, <1>5 DEF StartFails, WritePid, RecoveryInv, Sweeping
    <2> QED
      BY <1>0, <2>1, <2>2 DEF RecoveryInv, Sweeping
  <1>6. CASE SaveLoad(Recovery) \/ SaveWrite(Recovery) \/ StopKill(Recovery) \/ StopWrite(Recovery)
    BY <1>0, <1>6 DEF RecoveryInv, Sweeping, SaveLoad, SaveWrite, StopKill, StopWrite
  <1>7. ASSUME NEW t \in Tenants, RecoverNext(t)  PROVE RecoveryInv'
    <2> DEFINE r == image[t][next[t]]
    <2>1. task[Recovery] \in TaskState /\ next[t] \in DOMAIN image[t]
      BY <1>0, <1>7 DEF TypeOK, RecoverNext
    <2>2. Tenant(r.slot) = t
      BY <2>1 DEF IInv, FilesInv, OwnedList
    <2>3. CASE UNCHANGED task
      BY <1>0, <1>7, <2>3 DEF RecoveryInv, Sweeping, RecoverNext
    <2>4. CASE ~UNCHANGED task
      <3>1. /\ \A j \in Tasks \ {Recovery} : task'[j] = task[j]
            /\ task'[Recovery].pc = "sweep"
            /\ task'[Recovery].slot = r.slot
            /\ UNCHANGED <<node, image, next>>
        BY <1>0, <1>7, <2>1, <2>4 DEF RecoverNext, TypeOK, TaskState
      <3>2. node # "down"
        BY <1>0, <1>7 DEF RecoverNext, RecoveryInv, Sweeping
      <3> QED
        BY <1>0, <2>1, <2>2, <3>1, <3>2 DEF RecoveryInv, Sweeping
    <2> QED
      BY <2>3, <2>4
  <1>8. ASSUME NEW t \in Tenants, RecoverSave(t)  PROVE RecoveryInv'
    BY <1>0, <1>8 DEF RecoveryInv, Sweeping, RecoverSave
  <1>9. CASE Crash
    BY <1>0, <1>9, IdleTyped DEF RecoveryInv, Sweeping, Crash, Tasks
  <1>10. CASE Restart
    <2>1. /\ \A j \in Tasks \ {Recovery} : task'[j] = task[j]
          /\ task'[Recovery].pc = "scan"
          /\ node' = "recovering"
      BY <1>0, <1>10 DEF Restart, TypeOK, IdleTask
    <2> QED
      BY <1>0, <2>1 DEF RecoveryInv, Sweeping
  <1>11. CASE Serve
    <2>1. /\ \A j \in Tasks \ {Recovery} : task'[j] = task[j]
          /\ task'[Recovery].pc = "idle"
      BY <1>0, <1>11 DEF Serve, TypeOK, IdleTask
    <2> QED
      BY <1>0, <2>1 DEF RecoveryInv, Sweeping
  <1>12. ASSUME UNCHANGED <<node, task, image, next>>  PROVE RecoveryInv'
    BY <1>0, <1>12 DEF RecoveryInv, Sweeping
  <1>13. ASSUME NEW p \in Pids, Exit(p)  PROVE RecoveryInv'
    BY <1>12, <1>13 DEF Exit, recovery
  <1> QED
    BY <1>2, <1>3, <1>4, <1>5, <1>6, <1>7, <1>8, <1>9, <1>10, <1>11, <1>12, <1>13
    DEF Next, vars, recovery

-----------------------------------------------------------------------------
(* A signal reaches only processes of the slot it is sent for: the pid a   *)
(* stop reads from a list, a kill keeps across its wait, or a sweep reads  *)
(* from a pid file was given to that very slot.                            *)
LEMMA IsolationStep ==
  ASSUME IInv, [Next]_vars
  PROVE  SlotIsolation'
  <1>0. TypeOK /\ SlotIsolation
    BY DEF IInv
  <1>1. ASSUME NEW s, NEW p, p \in alive => owner[p] = s, Signal(s, p)
        PROVE  SlotIsolation'
    BY <1>0, <1>1 DEF Signal, SlotIsolation
  <1>2. ASSUME NEW p, NEW s \in Slots, Given(p, s)
        PROVE  p \in alive => owner[p] = s
    BY <1>0, <1>2, RuntimeAssumption DEF Given, TypeOK
  <1>3. ASSUME NEW k \in Api \cup Cli, NEW s \in Slots, Stop(k, s)  PROVE SlotIsolation'
    <2> DEFINE list == records[Tenant(s)]
    <2>1. PICK pos \in DOMAIN list : list[pos].slot = s /\ Signal(s, list[pos].pid)
      BY <1>3 DEF Stop
    <2>2. OwnedList(list, Tenant(s))
      BY DEF IInv, FilesInv, Slots, Tenant
    <2>3. Given(list[pos].pid, s)
      BY <2>1, <2>2 DEF OwnedList
    <2> QED
      BY <1>1, <1>2, <2>1, <2>3
  <1>4. ASSUME NEW k \in Tasks, SweepKill(k)  PROVE SlotIsolation'
    <2>1. task[k].slot \in Slots /\ Given(task[k].pid, task[k].slot)
      BY <1>4 DEF SweepKill, IInv, TasksInv, TaskInv
    <2> QED
      BY <1>1, <1>2, <1>4, <2>1 DEF SweepKill
  <1>5. ASSUME NEW k \in Tasks, StopKill(k)  PROVE SlotIsolation'
    <2>1. task[k].slot \in Slots /\ Given(task[k].pid, task[k].slot)
      BY <1>5 DEF StopKill, IInv, TasksInv, TaskInv
    <2> QED
      BY <1>1, <1>2, <1>5, <2>1 DEF StopKill
  <1>6. ASSUME UNCHANGED victims  PROVE SlotIsolation'
    BY <1>0, <1>6 DEF SlotIsolation
  <1>7. ASSUME NEW k \in Tasks,
               \/ SweepRead(k) \/ SweepLook(k) \/ SweepUnlink(k)
               \/ Spawn(k) \/ StartFails(k) \/ WritePid(k)
               \/ SaveLoad(k) \/ SaveWrite(k) \/ StopWrite(k)
        PROVE  UNCHANGED victims
    BY <1>7 DEF SweepRead, SweepLook, SweepUnlink, Spawn, StartFails, WritePid, SaveLoad, SaveWrite, StopWrite, history
  <1>8. ASSUME NEW k \in Api \cup Cli, NEW s \in Slots, Run(k, s) \/ Deploy(k, s)
        PROVE  UNCHANGED victims
    BY <1>8 DEF Run, Deploy, history
  <1>9. \/ UNCHANGED victims
        \/ \E k \in Api \cup Cli, s \in Slots : Stop(k, s)
        \/ \E k \in Tasks : SweepKill(k) \/ StopKill(k)
    BY <1>7, <1>8 DEF Next, vars, history, RecoverNext, RecoverSave, Exit, Crash, Restart, Serve
  <1> QED
    BY <1>3, <1>4, <1>5, <1>6, <1>9

(* The process a stop has killed stays dead: no action but a spawn adds a  *)
(* live process, and a spawn gets a pid never given out.                   *)
LEMMA KillStep ==
  ASSUME IInv, [Next]_vars, FreshPids
  PROVE  StopKills'
  <1>0. TypeOK /\ StopKills
    BY DEF IInv
  <1>1. SUFFICES ASSUME NEW j \in Tasks, task'[j].pc = "write"
                 PROVE  task'[j].pid \notin alive'
    BY DEF StopKills
  <1>2. ASSUME NEW k \in Tasks, StopKill(k)  PROVE task'[j].pid \notin alive'
    BY <1>0, <1>1, <1>2 DEF StopKill, Goto, StopKills, TypeOK, TaskState
  <1>3. ASSUME task'[j] = task[j], alive' \cap used \subseteq alive
        PROVE  task'[j].pid \notin alive'
    <2>1. task[j].pid \in used /\ task[j].pid \notin alive
      BY <1>0, <1>1, <1>3, TaskFacts DEF StopKills
    <2> QED
      BY <1>3, <2>1
  <1>4. ASSUME NEW k \in Tasks,
               \/ SweepRead(k) \/ SweepLook(k) \/ SweepKill(k) \/ SweepUnlink(k)
               \/ StartFails(k) \/ WritePid(k) \/ SaveLoad(k) \/ SaveWrite(k) \/ StopWrite(k)
        PROVE  task'[j] = task[j] /\ alive' \cap used \subseteq alive
    BY <1>0, <1>1, <1>4 DEF SweepRead, SweepLook, SweepKill, SweepUnlink, StartFails, WritePid, SaveLoad, SaveWrite, StopWrite,
       Abandon, Goto, TypeOK, TaskState, IdleTask
  <1>5. ASSUME NEW k \in Tasks, Spawn(k)
        PROVE  task'[j] = task[j] /\ alive' \cap used \subseteq alive
    BY <1>0, <1>1, <1>5 DEF Spawn, TypeOK, TaskState, FreshPids
  <1>6. ASSUME NEW k \in Api \cup Cli, NEW s \in Slots, Run(k, s) \/ Deploy(k, s) \/ Stop(k, s)
        PROVE  task'[j] = task[j] /\ alive' \cap used \subseteq alive
    <2>1. PICK new : task' = [task EXCEPT ![k] = new] /\ new.pc \in {"sweep", "kill"}
      BY <1>6, RequestTask
    <2>2. task'[j] = task[j]
      BY <1>0, <1>1, <2>1 DEF TypeOK
    <2>3. alive' \subseteq alive
      BY <1>6 DEF Run, Deploy, Stop
    <2> QED
      BY <2>2, <2>3
  <1>7. ASSUME NEW t \in Tenants, RecoverNext(t) \/ RecoverSave(t)
        PROVE  task'[j] = task[j] /\ alive' \cap used \subseteq alive
    BY <1>0, <1>1, <1>7 DEF RecoverNext, RecoverSave, TypeOK, TaskState
  <1>8. ASSUME NEW p \in Pids, Exit(p)
        PROVE  task'[j] = task[j] /\ alive' \cap used \subseteq alive
    BY <1>8 DEF Exit
  <1>9. ASSUME Crash \/ Restart \/ Serve
        PROVE  task'[j] = task[j] /\ alive' \cap used \subseteq alive
    BY <1>0, <1>1, <1>9 DEF Crash, Restart, Serve, TypeOK, IdleTask
  <1>10. ASSUME UNCHANGED vars
         PROVE  task'[j] = task[j] /\ alive' \cap used \subseteq alive
    BY <1>10 DEF vars
  <1> QED
    BY <1>2, <1>3, <1>4, <1>5, <1>6, <1>7, <1>8, <1>9, <1>10 DEF Next

-----------------------------------------------------------------------------
(* What a start at work means for the processes of its agent, if no other  *)
(* start of it is at work: only the one it has spawned, or the one it has  *)
(* read and not yet dealt with, is alive and within reach of the pid file. *)
LEMMA AtWork ==
  ASSUME TypeOK, LiveInv, NEW k \in Tasks, NEW s \in Slots \ raced, Busy(k, s),
         NEW p \in alive \ unmarked, owner[p] = s
  PROVE  /\ p = task[k].pid
         /\ \/ task[k].pc \in {"look", "orphan"} /\ p = pidFile[s]
            \/ task[k].pc = "pidfile"
  <1>1. Known(s, p) /\ \A j \in Tasks : Busy(j, s) => j = k
    BY DEF LiveInv
  <1>2. \A j \in Tasks : Writing(j, s, p) => Busy(j, s)
    BY DEF Writing, Busy
  <1> QED
    BY <1>1, <1>2 DEF Known, Writing, Busy, Sweeping

(* Live processes stay accounted for: the sweep of a start ends the one    *)
(* the pid file names before the start adds another.                       *)
LEMMA LiveStep ==
  ASSUME IInv, [Next]_vars, FreshPids
  PROVE  LiveInv'
  <1>0. TypeOK /\ LiveInv
    BY DEF IInv
  <1>a. used \subseteq used' /\ \A p \in used : owner'[p] = owner[p]
    BY OwnerStep
  <1>b. SUFFICES ASSUME NEW s \in Slots \ raced'
                 PROVE  /\ \A p \in alive' \ unmarked' : owner'[p] = s => Known(s, p)'
                        /\ \A j, k \in Tasks : Busy(j, s)' /\ Busy(k, s)' => j = k
    BY DEF LiveInv
  <1>c. raced \subseteq raced' /\ unmarked \subseteq unmarked'
    BY DEF Next, vars, history, Run, Deploy, Stop, SweepRead, SweepLook, SweepKill,
           SweepUnlink, Spawn, StartFails, WritePid, SaveLoad, SaveWrite, StopKill,
           StopWrite, RecoverNext, RecoverSave, Exit, Crash, Restart, Serve
  <1>d. s \in Slots \ raced
    BY <1>c
  <1>e. /\ \A p \in alive \ unmarked : owner[p] = s => Known(s, p)
        /\ \A j, k \in Tasks : Busy(j, s) /\ Busy(k, s) => j = k
    BY <1>0, <1>d DEF LiveInv
  <1> DEFINE Goal == /\ \A p \in alive' \ unmarked' : owner'[p] = s => Known(s, p)'
                     /\ \A j, k \in Tasks : Busy(j, s)' /\ Busy(k, s)' => j = k
  <1>1. ASSUME alive' \subseteq alive, UNCHANGED <<pidFile, owner>>,
               \A k \in Tasks : task'[k] = task[k] \/ ~Busy(k, s)',
               \A k \in Tasks : task[k].pc = "pidfile" /\ task[k].slot = s => task'[k] = task[k]
        PROVE  Goal
    <2>1. \A j, k \in Tasks : Busy(j, s)' /\ Busy(k, s)' => j = k
      BY <1>e, <1>1 DEF Busy
    <2>2. ASSUME NEW p \in alive' \ unmarked', owner'[p] = s  PROVE Known(s, p)'
      <3>1. Known(s, p)
        BY <1>c, <1>e, <1>1, <2>2
      <3> QED
        BY <1>1, <3>1 DEF Known, Busy, Writing
    <2> QED
      BY <2>1, <2>2
  <1>2. ASSUME NEW k \in Api \cup Cli, NEW r \in Slots, Run(k, r) \/ Deploy(k, r) \/ Stop(k, r)
        PROVE  Goal
    <2>1. PICK new : task' = [task EXCEPT ![k] = new] /\ new.pc \in {"sweep", "kill"}
      BY <1>2, RequestTask
    <2>2. task[k].pc = "idle"
      BY <1>2 DEF Run, Deploy, Stop, Free
    <2>3. \A j \in Tasks : task'[j] = task[j] \/ (j = k /\ task'[j].pc \in {"sweep", "kill"})
      BY <1>0, <2>1 DEF TypeOK
    <2>4. alive' \subseteq alive /\ UNCHANGED <<pidFile, owner>>
      BY <1>2 DEF Run, Deploy, Stop, disk
    <2> QED
      BY <1>1, <2>2, <2>3, <2>4 DEF Busy, Sweeping
  <1>m. ASSUME NEW k \in Tasks, task[k].slot \in Slots, task[k].slot # s,
               \A j \in Tasks \ {k} : task'[j] = task[j],
               task'[k].slot \in {task[k].slot, NoSlot},
               \A q \in Slots \ {task[k].slot} : pidFile'[q] = pidFile[q],
               \A p \in alive' \ unmarked' :
                 owner'[p] = s => p \in alive \ unmarked /\ owner[p] = s
        PROVE  Goal
    <2>1. /\ \A j \in Tasks : Busy(j, s)' => Busy(j, s) /\ task'[j] = task[j]
          /\ \A j \in Tasks, p \in alive : Writing(j, s, p) => Writing(j, s, p)'
          /\ pidFile'[s] = pidFile[s]
      BY <1>d, <1>m, RuntimeAssumption DEF Busy, Writing
    <2>2. \A j, l \in Tasks : Busy(j, s)' /\ Busy(l, s)' => j = l
      BY <1>e, <2>1
    <2>3. ASSUME NEW p \in alive' \ unmarked', owner'[p] = s  PROVE Known(s, p)'
      <3>1. p \in alive /\ Known(s, p)
        BY <1>e, <1>m, <2>3
      <3>2. CASE \E j \in Tasks : Writing(j, s, p)
        BY <2>1, <3>1, <3>2 DEF Known
      <3>3. CASE ~\E j \in Tasks : Writing(j, s, p)
        BY <2>1, <3>1, <3>3 DEF Known
      <3> QED
        BY <3>2, <3>3
    <2> QED
      BY <2>2, <2>3
  <1>o. ASSUME NEW k \in Tasks, Busy(k, s),
               \A j \in Tasks \ {k} : task'[j] = task[j]
        PROVE  /\ \A j \in Tasks \ {k} : ~Busy(j, s) /\ ~Busy(j, s)'
               /\ \A i, j \in Tasks : Busy(i, s)' /\ Busy(j, s)' => i = j
    BY <1>e, <1>o DEF Busy
  <1>3. ASSUME NEW k \in Tasks, SweepRead(k)  PROVE Goal
    <2> DEFINE r == task[k].slot
               p == pidFile[r]
    <2>1. r \in Slots /\ task[k].pc = "sweep" /\ UNCHANGED <<alive, owner, pidFile>>
      BY <1>3, TaskFacts DEF SweepRead, disk
    <2>2. /\ \A j \in Tasks \ {k} : task'[j] = task[j]
          /\ task'[k].slot = r
      BY <1>0, <1>3 DEF SweepRead, Goto, TypeOK, TaskState
    <2>3. CASE r # s
      BY <1>c, <1>m, <2>1, <2>2, <2>3
    <2>4. CASE r = s
      <3>1. \A j \in Tasks \ {k} : ~Busy(j, s)
        BY <1>3, <2>4 DEF SweepRead, Busy
      <3>2. \A j \in Tasks \ {k} : ~Busy(j, s)'
        BY <2>2, <3>1 DEF Busy
      <3>3. \A q \in alive \ unmarked : owner[q] = s => q = p /\ q # NoPid
        <4>1. \A j \in Tasks, q \in alive : ~Writing(j, s, q)
          BY <2>1, <3>1 DEF Busy, Writing
        <4>2. NoPid \notin alive
          BY <1>0, RuntimeAssumption DEF TypeOK
        <4> QED
          BY <1>e, <2>4, <4>1, <4>2 DEF Known
      <3>4. \/ p # NoPid /\ task'[k].pc = "look" /\ task'[k].pid = p
            \/ p = NoPid
            \/ p \in unmarked' \cup {NoPid}
        <4>1. \A j \in Tasks \ {k} : ~(task[j].pc = "pidfile" /\ task[j].slot = s)
          BY <3>1 DEF Busy
        <4> QED
          BY <1>0, <1>3, <2>4, <4>1 DEF SweepRead, Goto, TypeOK, TaskState
      <3>5. ASSUME NEW q \in alive' \ unmarked', owner'[q] = s  PROVE Known(s, q)'
        <4>1. q = p /\ q # NoPid
          BY <1>c, <2>1, <3>3, <3>5
        <4>2. task'[k].pc = "look" /\ task'[k].pid = q
          BY <3>4, <3>5, <4>1
        <4> QED
          BY <2>1, <2>4, <3>2, <4>1, <4>2 DEF Known
      <3> QED
        BY <3>2, <3>5
    <2> QED
      BY <2>3, <2>4
  <1>14. ASSUME NEW k \in Tasks, SweepLook(k) \/ SweepKill(k)  PROVE Goal
    <2> DEFINE r == task[k].slot
    <2>1. /\ r \in Slots /\ task[k].pc \in {"look", "orphan"}
          /\ UNCHANGED <<owner, pidFile, unmarked>> /\ alive' \subseteq alive
      BY <1>14, TaskFacts DEF SweepLook, SweepKill, disk, history
    <2>2. /\ \A j \in Tasks \ {k} : task'[j] = task[j]
          /\ task'[k].slot = r /\ task'[k].pid = task[k].pid
          /\ \/ task'[k].pc = "orphan"
             \/ task'[k].pc = "unlink" /\ task[k].pid \notin alive'
      BY <1>0, <1>14 DEF SweepLook, SweepKill, Goto, TypeOK, TaskState
    <2>3. CASE r # s
      BY <1>m, <2>1, <2>2, <2>3
    <2>4. CASE r = s
      <3>1. Busy(k, s)
        BY <2>1, <2>4 DEF Busy, Sweeping
      <3>2. /\ \A j \in Tasks \ {k} : ~Busy(j, s)'
            /\ \A i, j \in Tasks : Busy(i, s)' /\ Busy(j, s)' => i = j
        BY <1>o, <2>2, <3>1
      <3>3. ASSUME NEW q \in alive' \ unmarked', owner'[q] = s  PROVE Known(s, q)'
        <4>1. q = task[k].pid /\ q = pidFile[s]
          BY <1>0, <1>d, <2>1, <3>1, <3>3, AtWork
        <4>2. task'[k].pc = "orphan"
          BY <2>2, <3>3, <4>1
        <4> QED
          BY <2>1, <2>2, <3>2, <4>1, <4>2 DEF Known
      <3> QED
        BY <3>2, <3>3
    <2> QED
      BY <2>3, <2>4
  <1>15. ASSUME NEW k \in Tasks, SweepUnlink(k)  PROVE Goal
    <2> DEFINE r == task[k].slot
    <2>1. r \in Slots /\ task[k].pc = "unlink" /\ UNCHANGED <<alive, owner, unmarked>>
      BY <1>15, TaskFacts DEF SweepUnlink, history
    <2>2. /\ \A j \in Tasks \ {k} : task'[j] = task[j]
          /\ task'[k].slot = r
          /\ \A q \in Slots \ {r} : pidFile'[q] = pidFile[q]
      BY <1>0, <1>15 DEF SweepUnlink, TypeOK, TaskState
    <2>3. CASE r # s
      BY <1>m, <2>1, <2>2, <2>3
    <2>4. CASE r = s
      <3>1. Busy(k, s)
        BY <2>1, <2>4 DEF Busy, Sweeping
      <3>2. \A i, j \in Tasks : Busy(i, s)' /\ Busy(j, s)' => i = j
        BY <1>o, <2>2, <3>1
      <3>3. \A q \in alive \ unmarked : owner[q] # s
        BY <1>0, <1>d, <2>1, <3>1, AtWork
      <3> QED
        BY <2>1, <3>2, <3>3
    <2> QED
      BY <2>3, <2>4
  <1>4. ASSUME NEW k \in Tasks, Spawn(k)  PROVE Goal
    <2> DEFINE r == task[k].slot
    <2>1. PICK p \in Pids \ alive :
            /\ p \notin used
            /\ alive' = alive \cup {p}
            /\ owner' = [owner EXCEPT ![p] = r]
            /\ task' = [task EXCEPT ![k].pc = "pidfile", ![k].pid = p]
      BY <1>4 DEF Spawn, FreshPids
    <2>2. r \in Slots /\ task[k].pc = "spawn" /\ UNCHANGED <<pidFile, unmarked>>
      BY <1>4, TaskFacts DEF Spawn, disk, history
    <2>3. /\ \A j \in Tasks \ {k} : task'[j] = task[j]
          /\ task'[k].pc = "pidfile" /\ task'[k].slot = r /\ task'[k].pid = p
      BY <1>0, <2>1 DEF TypeOK, TaskState
    <2>4. owner'[p] = r /\ \A q \in alive : owner'[q] = owner[q]
      BY <1>0, <2>1 DEF TypeOK
    <2>5. CASE r # s
      <3>1. \A q \in alive' \ unmarked' : owner'[q] = s => q \in alive \ unmarked /\ owner[q] = s
        BY <2>1, <2>2, <2>4, <2>5
      <3> QED
        BY <1>m, <2>2, <2>3, <2>5, <3>1
    <2>6. CASE r = s
      <3>1. Busy(k, s)
        BY <2>2, <2>6 DEF Busy
      <3>2. \A i, j \in Tasks : Busy(i, s)' /\ Busy(j, s)' => i = j
        BY <1>o, <2>3, <3>1
      <3>3. \A q \in alive \ unmarked : owner[q] # s
        BY <1>0, <1>d, <2>2, <3>1, AtWork
      <3>4. ASSUME NEW q \in alive' \ unmarked', owner'[q] = s  PROVE Known(s, q)'
        <4>1. q = p
          BY <2>1, <2>2, <2>4, <3>3, <3>4
        <4> QED
          BY <2>3, <2>6, <4>1 DEF Known, Writing
      <3> QED
        BY <3>2, <3>4
    <2> QED
      BY <2>5, <2>6
  <1>5. ASSUME NEW k \in Tasks, StartFails(k)  PROVE Goal
    <2>1. \A j \in Tasks : task'[j] = task[j] \/ (j = k /\ task'[j].pc \in {"idle", "scan"})
      BY <1>0, <1>5, IdleTyped DEF StartFails, Abandon, TypeOK, IdleTask
    <2>2. task[k].pc # "pidfile" /\ alive' = alive /\ UNCHANGED <<pidFile, owner>>
      BY <1>5 DEF StartFails, disk
    <2> QED
      BY <1>1, <2>1, <2>2 DEF Busy, Sweeping
  <1>6. ASSUME NEW k \in Tasks, WritePid(k)  PROVE Goal
    <2> DEFINE r == task[k].slot
    <2>1. r \in Slots /\ task[k].pc = "pidfile" /\ alive' = alive /\ owner' = owner
      BY <1>6, TaskFacts DEF WritePid
    <2>2. /\ pidFile'[r] = task[k].pid \/ task[k].pid \in unmarked'
          /\ \A q \in Slots \ {r} : pidFile'[q] = pidFile[q]
      <3>1. \/ pidFile' = [pidFile EXCEPT ![r] = task[k].pid]
            \/ /\ task[k].pid \in unmarked'
               /\ UNCHANGED pidFile \/ pidFile' = [pidFile EXCEPT ![r] = NoPid]
        BY <1>6 DEF WritePid
      <3> QED
        BY <1>0, <2>1, <3>1 DEF TypeOK
    <2>3. /\ \A j \in Tasks \ {k} : task'[j] = task[j]
          /\ task'[k].pc \in {"scan", "load"} /\ task'[k].slot \in {r, NoSlot}
      <3>1. CASE k = Recovery
        <4>1. task' = [task EXCEPT ![k] = [IdleTask EXCEPT !.pc = "scan"]]
          BY <1>6, <3>1 DEF WritePid, Abandon
        <4> QED
          BY <1>0, <4>1 DEF TypeOK, IdleTask
      <3>2. CASE k # Recovery
        <4>1. \E x \in Stamps : task' = [task EXCEPT ![k].pc = "load", ![k].stamp = x]
          BY <1>6, <3>2 DEF WritePid
        <4> QED
          BY <1>0, <4>1 DEF TypeOK, TaskState
      <3> QED
        BY <3>1, <3>2
    <2>4. CASE r # s
      BY <1>c, <1>m, <2>1, <2>2, <2>3, <2>4
    <2>5. CASE r = s
      <3>1. Busy(k, s)
        BY <2>1, <2>5 DEF Busy
      <3>2. \A j \in Tasks : ~Busy(j, s)'
        BY <1>o, <2>3, <3>1 DEF Busy, Sweeping
      <3>3. ASSUME NEW q \in alive' \ unmarked', owner'[q] = s  PROVE Known(s, q)'
        <4>1. q = task[k].pid
          BY <1>0, <1>c, <1>d, <2>1, <3>1, <3>3, AtWork
        <4> QED
          BY <2>2, <2>5, <3>2, <3>3, <4>1 DEF Known
      <3> QED
        BY <3>2, <3>3
    <2> QED
      BY <2>4, <2>5
  <1>7. ASSUME NEW k \in Tasks, SaveLoad(k) \/ SaveWrite(k) \/ StopKill(k) \/ StopWrite(k)
        PROVE  Goal
    <2>1. /\ task[k].pc \in {"load", "save", "kill", "write"}
          /\ \A j \in Tasks : task'[j] = task[j] \/
               (j = k /\ task'[j].pc \in {"idle", "save", "write"})
      BY <1>0, <1>7, IdleTyped DEF SaveLoad, SaveWrite, StopKill, StopWrite, Goto, TypeOK, TaskState
    <2>2. alive' \subseteq alive /\ UNCHANGED <<pidFile, owner>>
      BY <1>7 DEF SaveLoad, SaveWrite, StopKill, StopWrite, disk
    <2> QED
      BY <1>1, <2>1, <2>2 DEF Busy, Sweeping
  <1>8. ASSUME NEW t \in Tenants, RecoverNext(t) \/ RecoverSave(t)  PROVE Goal
    <2>1. /\ task[Recovery].pc = "scan"
          /\ \A j \in Tasks : task'[j] = task[j] \/ (j = Recovery /\ task'[j].pc = "sweep")
      BY <1>0, <1>8 DEF RecoverNext, RecoverSave, TypeOK, TaskState
    <2>2. alive' \subseteq alive /\ UNCHANGED <<pidFile, owner>>
      BY <1>8 DEF RecoverNext, RecoverSave, disk
    <2> QED
      BY <1>1, <2>1, <2>2 DEF Busy, Sweeping
  <1>9. ASSUME NEW p \in Pids, Exit(p)  PROVE Goal
    BY <1>1, <1>9 DEF Exit, disk
  <1>10. CASE Crash
    <2>1. \A k \in Tasks : task'[k] = task[k] \/ (k \notin Cli /\ task'[k].pc = "idle")
      BY <1>0, <1>10, IdleTyped DEF Crash
    <2>2. \A k \in Tasks : task'[k] # task[k] /\ task[k].pc = "pidfile" => task[k].pid \in unmarked'
      BY <1>0, <1>10 DEF Crash
    <2>3. UNCHANGED <<alive, owner>>
      BY <1>10 DEF Crash
    <2>4. \/ pidFile'[s] = pidFile[s]
          \/ \E k \in Tasks : Writing(k, s, task[k].pid) /\ task[k].pid \in unmarked'
      BY <1>10 DEF Crash, Writing
    <2>5. \A j, k \in Tasks : Busy(j, s)' /\ Busy(k, s)' => j = k
      BY <1>e, <2>1 DEF Busy, Sweeping
    <2>6. ASSUME NEW p \in alive' \ unmarked', owner'[p] = s  PROVE Known(s, p)'
      <3>1. p \in alive \ unmarked /\ owner[p] = s
        BY <1>c, <2>3, <2>6
      <3>2. pidFile'[s] = pidFile[s]
        <4>1. \A k \in Tasks : Writing(k, s, task[k].pid) => task[k].pid = p
          BY <1>0, <1>d, <3>1, AtWork DEF Writing, Busy
        <4> QED
          BY <2>4, <2>6, <4>1
      <3>3. CASE \E k \in Tasks : Writing(k, s, p)
        BY <2>2, <2>6, <3>3 DEF Known, Writing
      <3>4. CASE /\ p = pidFile[s]
                 /\ \A k \in Tasks : Busy(k, s) =>
                      task[k].pc \in {"look", "orphan"} /\ task[k].pid = p
        BY <2>1, <3>2, <3>4 DEF Known, Busy, Sweeping
      <3> QED
        BY <1>e, <3>1, <3>3, <3>4 DEF Known
    <2> QED
      BY <2>5, <2>6
  <1>11. CASE Restart
    <2>1. \A k \in Tasks : task'[k] = task[k] \/ (k = Recovery /\ task'[k].pc = "scan")
      BY <1>0, <1>11 DEF Restart, TypeOK, IdleTask
    <2>2. task[Recovery].pc = "idle"
      BY <1>11 DEF Restart, IInv, RecoveryInv
    <2> QED
      BY <1>1, <1>11, <2>1, <2>2 DEF Restart, disk, Busy, Sweeping
  <1>12. CASE Serve
    <2>1. /\ task[Recovery].pc = "scan"
          /\ \A k \in Tasks : task'[k] = task[k] \/ (k = Recovery /\ task'[k].pc = "idle")
      BY <1>0, <1>12, IdleTyped DEF Serve, TypeOK
    <2> QED
      BY <1>1, <1>12, <2>1 DEF Serve, disk, Busy, Sweeping
  <1>13. CASE UNCHANGED vars
    BY <1>1, <1>13 DEF vars, disk
  <1> QED
    BY <1>2, <1>3, <1>4, <1>5, <1>6, <1>7, <1>8, <1>9, <1>10, <1>11, <1>12, <1>13,
       <1>14, <1>15 DEF Next

-----------------------------------------------------------------------------
(* Recovery and requests take turns.                                       *)
LEMMA ServingStep ==
  ASSUME IInv, ServingInv, [Next]_vars
  PROVE  ServingInv'
  <1>0. TypeOK /\ RecoveryInv /\ ServingInv /\ Recovery \in Tasks /\ Recovery \notin Api \cup Cli
    BY RuntimeAssumption DEF IInv, Tasks
  <1>1. ASSUME UNCHANGED <<node, image>>, task'[Recovery].pc = "idle" \/ node = "recovering",
               \A k \in Api : task[k].pc = "idle" => task'[k].pc = "idle" \/ node = "up"
        PROVE  ServingInv'
    BY <1>0, <1>1 DEF ServingInv
  <1>2. ASSUME NEW k \in Api \cup Cli, NEW s \in Slots, Run(k, s) \/ Deploy(k, s) \/ Stop(k, s)
        PROVE  ServingInv'
    <2>1. k \in Tasks /\ k # Recovery
      BY <1>0 DEF Tasks
    <2>2. PICK new : task' = [task EXCEPT ![k] = new]
      BY <1>2, RequestTask
    <2>3. \A j \in Tasks \ {k} : task'[j] = task[j]
      BY <1>0, <2>1, <2>2 DEF TypeOK
    <2>4. UNCHANGED <<node, image>> /\ (k \in Api => node = "up")
      BY <1>2 DEF Run, Deploy, Stop, Free, recovery
    <2>5. Api \subseteq Tasks
      BY DEF Tasks
    <2> QED
      BY <1>0, <1>1, <2>1, <2>3, <2>4, <2>5 DEF ServingInv
  <1>3. ASSUME NEW k \in Tasks, k # Recovery,
               \/ SweepRead(k) \/ SweepLook(k) \/ SweepKill(k) \/ SweepUnlink(k)
               \/ Spawn(k) \/ StartFails(k) \/ WritePid(k)
               \/ SaveLoad(k) \/ SaveWrite(k) \/ StopKill(k) \/ StopWrite(k)
        PROVE  ServingInv'
    <2>1. /\ \A j \in Tasks \ {k} : task'[j] = task[j]
          /\ task[k].pc # "idle"
          /\ UNCHANGED <<node, image>>
      BY <1>0, <1>3 DEF SweepRead, SweepLook, SweepKill, SweepUnlink, Spawn, StartFails,
             WritePid, SaveLoad, SaveWrite, StopKill, StopWrite, Abandon, Goto, TypeOK, TaskState, IdleTask, recovery
    <2>2. Api \subseteq Tasks
      BY DEF Tasks
    <2> QED
      BY <1>0, <1>1, <1>3, <2>1, <2>2 DEF ServingInv
  <1>4. ASSUME \/ SweepRead(Recovery) \/ SweepLook(Recovery) \/ SweepKill(Recovery)
               \/ SweepUnlink(Recovery) \/ Spawn(Recovery) \/ StartFails(Recovery)
               \/ WritePid(Recovery)
        PROVE  ServingInv'
    <2>1. /\ \A j \in Tasks \ {Recovery} : task'[j] = task[j]
          /\ task[Recovery].pc # "idle" /\ node' = node
      BY <1>0, <1>4 DEF SweepRead, SweepLook, SweepKill, SweepUnlink, Spawn, StartFails,
         WritePid, Abandon, Goto, TypeOK, TaskState, IdleTask
    <2>2. node = "recovering"
      BY <1>0, <2>1 DEF ServingInv
    <2>3. Api \subseteq Tasks /\ Recovery \notin Api
      BY <1>0 DEF Tasks
    <2> QED
      BY <1>0, <2>1, <2>2, <2>3 DEF ServingInv
  <1>5. CASE SaveLoad(Recovery) \/ SaveWrite(Recovery) \/ StopKill(Recovery) \/ StopWrite(Recovery)
    BY <1>0, <1>5 DEF RecoveryInv, Sweeping, SaveLoad, SaveWrite, StopKill, StopWrite
  <1>6. ASSUME NEW t \in Tenants, RecoverNext(t) \/ RecoverSave(t)  PROVE ServingInv'
    <2>1. node = "recovering" /\ node' = node
      BY <1>0, <1>6 DEF RecoverNext, RecoverSave, ServingInv
    <2>2. \A j \in Tasks \ {Recovery} : task'[j] = task[j]
      BY <1>0, <1>6 DEF RecoverNext, RecoverSave, TypeOK, TaskState
    <2>3. Api \subseteq Tasks /\ Recovery \notin Api
      BY <1>0 DEF Tasks
    <2> QED
      BY <1>0, <2>1, <2>2, <2>3 DEF ServingInv
  <1>7. CASE Crash
    <2>1. \A k \in Tasks \ Cli : task'[k].pc = "idle"
      BY <1>7, IdleTyped DEF Crash
    <2>2. Api \subseteq Tasks \ Cli /\ Recovery \in Tasks \ Cli
      BY <1>0, RuntimeAssumption DEF Tasks
    <2> QED
      BY <1>7, <2>1, <2>2 DEF ServingInv, Crash
  <1>8. CASE Restart
    <2>1. node' = "recovering" /\ node = "down"
      BY <1>8 DEF Restart
    <2>2. \A j \in Tasks \ {Recovery} : task'[j] = task[j]
      BY <1>0, <1>8 DEF Restart, TypeOK
    <2>3. Api \subseteq Tasks /\ Recovery \notin Api
      BY <1>0 DEF Tasks
    <2> QED
      BY <1>0, <2>1, <2>2, <2>3 DEF ServingInv
  <1>9. CASE Serve
    <2>1. node' = "up" /\ task'[Recovery].pc = "idle" /\ \A t \in Tenants : image'[t] = <<>>
      BY <1>0, <1>9, IdleTyped DEF Serve, TypeOK
    <2> QED
      BY <2>1 DEF ServingInv
  <1>10. ASSUME UNCHANGED <<node, task, image>>  PROVE ServingInv'
    BY <1>0, <1>10 DEF ServingInv
  <1>11. ASSUME NEW p \in Pids, Exit(p)  PROVE ServingInv'
    BY <1>10, <1>11 DEF Exit, recovery
  <1> QED
    BY <1>2, <1>3, <1>4, <1>5, <1>6, <1>7, <1>8, <1>9, <1>10, <1>11 DEF Next, vars, recovery

-----------------------------------------------------------------------------
(* A step that ends at most processes of one slot r, and moves no other    *)
(* command that is about to start a process, leaves other slots served.    *)
LEMMA ServedElsewhere ==
  ASSUME NEW r, disturbed \subseteq disturbed',
         \A p \in alive : owner[p] # r => p \in alive' /\ owner'[p] = owner[p],
         \A k \in Cli : task[k].pc \in {"unlink", "spawn"} /\ task[k].slot # r =>
                       task'[k] = task[k]
  PROVE  \A s \in Slots : s # r /\ Served(s) => Served(s)'
  BY DEF Served

(* What recovery holds is settled as before if it does nothing and slots   *)
(* stay served.                                                            *)
LEMMA RestoreKept ==
  ASSUME IInv, RestoreInv, UNCHANGED <<image, next, snapshot>>,
         task'[Recovery] = task[Recovery],
         \A s \in Slots : Served(s) => Served(s)'
  PROVE  RestoreInv'
  <1>1. \A t \in Tenants : \A i \in DOMAIN image[t] : image[t][i].slot \in Slots
    <2>1. ASSUME NEW t \in Tenants, NEW i \in DOMAIN image[t] PROVE image[t][i].slot \in Slots
      <3>1. image[t] \in Seq(Record)
        BY DEF IInv, TypeOK
      <3>2. image[t][i] \in Record
        BY <3>1
      <3> QED
        BY <3>2 DEF Record
    <2> QED
      BY <2>1
  <1>2. Recovery \in Tasks
    BY DEF Tasks
  <1>3. (task[Recovery].pc = "pidfile" => Served(task[Recovery].slot))'
    <2>1. task[Recovery].pc = "pidfile" => task[Recovery].slot \in Slots
      BY <1>2, TaskFacts
    <2> QED
      BY <2>1 DEF RestoreInv
  <1>4. ASSUME NEW t \in Tenants, NEW i \in Running(image[t])', Settled(t, i)'
        PROVE  Served(image[t][i].slot)' \/ Respawning(image[t][i].slot)'
    <2>1. i \in Running(image[t]) /\ i \in DOMAIN image[t] /\ Settled(t, i)
      BY <1>4 DEF Running, Settled
    <2>2. image'[t][i].slot = image[t][i].slot /\ image[t][i].slot \in Slots
      BY <1>1, <2>1
    <2>3. Served(image[t][i].slot) \/ Respawning(image[t][i].slot)
      BY <2>1 DEF RestoreInv
    <2> QED
      BY <2>2, <2>3 DEF Respawning
  <1> QED
    BY <1>3, <1>4 DEF RestoreInv

(* The records of a list are of slots.                                     *)
LEMMA ImageSlots ==
  ASSUME TypeOK, NEW t \in Tenants, NEW i \in DOMAIN image[t]
  PROVE  image[t][i].slot \in Slots /\ i \in Nat /\ i >= 1 /\ next[t] \in Nat
  <1>1. image[t] \in Seq(Record) /\ next[t] \in Nat
    BY DEF TypeOK
  <1>2. image[t][i] \in Record /\ i \in Nat /\ i >= 1
    BY <1>1
  <1> QED
    BY <1>1, <1>2 DEF Record

(* A start or a stop that a command begins while the node recovers         *)
(* disturbs no slot but its own.                                           *)
LEMMA RequestServed ==
  ASSUME IInv, node = "recovering",
         NEW k \in Api \cup Cli, NEW s \in Slots, Run(k, s) \/ Deploy(k, s) \/ Stop(k, s)
  PROVE  \A r \in Slots : Served(r) => Served(r)'
  <1>0. TypeOK /\ k \in Tasks /\ task[k].pc = "idle"
    BY DEF IInv, Tasks, Run, Deploy, Stop, Free
  <1>1. PICK new : task' = [task EXCEPT ![k] = new]
    BY RequestTask
  <1>2. \A j \in Cli : task[j].pc \in {"unlink", "spawn"} => task'[j] = task[j]
    <2>1. Cli \subseteq Tasks
      BY DEF Tasks
    <2> QED
      BY <1>0, <1>1, <2>1 DEF TypeOK
  <1>3. CASE Run(k, s) \/ Deploy(k, s)
    <2>1. UNCHANGED <<alive, owner, disturbed>>
      BY <1>3 DEF Run, Deploy, history
    <2> QED
      BY <1>2, <2>1 DEF Served
  <1>4. CASE Stop(k, s)
    <2> DEFINE list == records[Tenant(s)]
    <2>1. PICK pos \in DOMAIN list :
            /\ list[pos].slot = s /\ list[pos].pid # NoPid
            /\ alive' \in {alive, alive \ {list[pos].pid}}
      BY <1>4 DEF Stop
    <2>2. Given(list[pos].pid, s)
      BY <2>1 DEF IInv, FilesInv, Slots, Tenant, OwnedList
    <2>3. owner' = owner /\ disturbed' = disturbed \cup {s}
      BY <1>4 DEF Stop, Disturbs
    <2>4. \A p \in alive : owner[p] # s => p \in alive'
      BY <2>1, <2>2 DEF Given
    <2>5. \A r \in Slots : r # s /\ Served(r) => Served(r)'
      BY <1>2, <2>3, <2>4, ServedElsewhere
    <2>6. Served(s)'
      BY <2>3 DEF Served
    <2> QED
      BY <2>5, <2>6
  <1> QED
    BY <1>3, <1>4

(* The sweep of a start: a command that has killed the old process goes on *)
(* to start another, and so does recovery; no request sweeps while         *)
(* recovery runs.                                                          *)
LEMMA SweepRestore ==
  ASSUME IInv, ServingInv, RestoreInv, node = "recovering", NEW k \in Tasks,
         SweepRead(k) \/ SweepLook(k) \/ SweepKill(k) \/ SweepUnlink(k)
  PROVE  RestoreInv'
  <1>r. PICK r : r = task[k].slot
    OBVIOUS
  <1>0. TypeOK /\ task[k].pc \in {"sweep", "look", "orphan", "unlink"} /\ r \in Slots
    BY <1>r, TaskFacts DEF IInv, SweepRead, SweepLook, SweepKill, SweepUnlink
  <1>1. /\ \A j \in Tasks \ {k} : task'[j] = task[j]
        /\ task'[k].pc \in Sweeping \cup {"spawn"} /\ task'[k].slot = r
        /\ task[k].pc = "unlink" => task'[k].pc = "spawn"
        /\ ~UNCHANGED alive => task'[k].pc = "unlink"
    BY <1>r, <1>0 DEF SweepRead, SweepLook, SweepKill, SweepUnlink, Sweeping, Goto, TypeOK, TaskState
  <1>2. UNCHANGED <<owner, disturbed, image, next, snapshot>>
    BY DEF SweepRead, SweepLook, SweepKill, SweepUnlink, recovery, history
  <1>3. \A p \in alive : owner[p] # r => p \in alive'
    <2>1. CASE SweepKill(k)
      <3>1. Given(task[k].pid, r) /\ task[k].pid # NoPid /\ alive' = alive \ {task[k].pid}
        BY <1>r, <2>1 DEF SweepKill, IInv, TasksInv, TaskInv
      <3> QED
        BY <3>1 DEF Given
    <2>2. CASE SweepRead(k) \/ SweepLook(k) \/ SweepUnlink(k)
      BY <2>2 DEF SweepRead, SweepLook, SweepUnlink
    <2> QED
      BY <2>1, <2>2
  <1>4. \A s \in Slots : s # r /\ Served(s) => Served(s)'
    <2>1. \A j \in Cli : task[j].pc \in {"unlink", "spawn"} /\ task[j].slot # r =>
                           task'[j] = task[j]
      BY <1>r, <1>1 DEF Tasks
    <2> QED
      BY <1>2, <1>3, <2>1, ServedElsewhere
  <1>5. Recovery \in Tasks
    BY DEF Tasks
  <1>6. CASE k \in Cli
    <2>1. Served(r) => Served(r)'
      <3>1. CASE task'[k].pc \in {"unlink", "spawn"}
        BY <1>1, <1>6, <3>1 DEF Served
      <3>2. CASE task'[k].pc \notin {"unlink", "spawn"}
        <4>1. UNCHANGED alive /\ task[k].pc # "unlink" /\ task[k].pc # "spawn"
          BY <1>0, <1>1, <3>2
        <4>2. \A j \in Cli : task[j].pc \in {"unlink", "spawn"} => task'[j] = task[j]
          BY <1>1, <4>1 DEF Tasks
        <4> QED
          BY <1>2, <4>1, <4>2 DEF Served
      <3> QED
        BY <3>1, <3>2
    <2>2. task'[Recovery] = task[Recovery]
      BY <1>1, <1>5, <1>6, RuntimeAssumption
    <2> QED
      BY <1>2, <1>4, <2>1, <2>2, RestoreKept
  <1>7. CASE k \in Api
    BY <1>0, <1>7 DEF ServingInv
  <1>8. CASE k = Recovery
    <2>1. ASSUME NEW t \in Tenants, NEW i \in Running(image[t])', Settled(t, i)'
          PROVE  Served(image[t][i].slot)' \/ Respawning(image[t][i].slot)'
      <3>1. i \in Running(image[t]) /\ i \in DOMAIN image[t] /\ Settled(t, i) /\ image' = image
        BY <1>2, <2>1 DEF Running, Settled
      <3>2. image[t][i].slot \in Slots
        BY <1>0, <3>1, ImageSlots
      <3>3. \/ Served(image[t][i].slot)
            \/ image[t][i].slot = r /\ task[k].pc = "unlink"
        BY <1>r, <1>0, <1>8, <3>1 DEF RestoreInv, Respawning
      <3>4. CASE image[t][i].slot = r /\ task'[k].pc \in {"unlink", "spawn"}
        BY <1>1, <1>8, <3>1, <3>4 DEF Respawning
      <3>5. CASE image[t][i].slot = r /\ task'[k].pc \notin {"unlink", "spawn"}
        <4>1. UNCHANGED alive /\ task[k].pc # "unlink"
          BY <1>1, <3>5
        <4>2. \A j \in Cli : task'[j] = task[j]
          BY <1>1, <1>8, RuntimeAssumption DEF Tasks
        <4> QED
          BY <1>2, <3>1, <3>3, <4>1, <4>2 DEF Served
      <3>6. CASE image[t][i].slot # r
        BY <1>4, <3>1, <3>2, <3>3, <3>6
      <3> QED
        BY <3>4, <3>5, <3>6
    <2>2. task'[Recovery].pc # "pidfile"
      BY <1>1, <1>8 DEF Sweeping
    <2> QED
      BY <2>1, <2>2 DEF RestoreInv
  <1> QED
    BY <1>6, <1>7, <1>8 DEF Tasks

(* The spawn serves the slot again.                                        *)
LEMMA SpawnRestore ==
  ASSUME IInv, RestoreInv, FreshPids, NEW k \in Tasks, Spawn(k)
  PROVE  RestoreInv'
  <1>r. PICK r : r = task[k].slot
    OBVIOUS
  <1>0. TypeOK /\ task[k].pc = "spawn" /\ r \in Slots
    BY <1>r, TaskFacts DEF IInv, Spawn
  <1>1. PICK p \in Pids \ alive :
          /\ p \notin used
          /\ alive' = alive \cup {p}
          /\ owner' = [owner EXCEPT ![p] = r]
          /\ task' = [task EXCEPT ![k].pc = "pidfile", ![k].pid = p]
    BY <1>r DEF Spawn, FreshPids
  <1>2. UNCHANGED <<disturbed, image, next, snapshot>>
    BY DEF Spawn, recovery, history
  <1>3. /\ \A j \in Tasks \ {k} : task'[j] = task[j]
        /\ task'[k].pc = "pidfile" /\ task'[k].slot = r
    BY <1>r, <1>0, <1>1 DEF TypeOK, TaskState
  <1>4. p \in alive' /\ owner'[p] = r /\ \A q \in alive : q \in alive' /\ owner'[q] = owner[q]
    BY <1>0, <1>1 DEF TypeOK
  <1>5. Served(r)'
    BY <1>4 DEF Served
  <1>6. \A s \in Slots : Served(s) => Served(s)'
    <2>1. \A j \in Cli : task[j].pc \in {"unlink", "spawn"} /\ task[j].slot # r =>
                           task'[j] = task[j]
      BY <1>r, <1>3 DEF Tasks
    <2>2. \A s \in Slots : s # r /\ Served(s) => Served(s)'
      BY <1>2, <1>4, <2>1, ServedElsewhere
    <2> QED
      BY <1>5, <2>2
  <1>7. Recovery \in Tasks
    BY DEF Tasks
  <1>8. CASE k # Recovery
    BY <1>2, <1>3, <1>6, <1>7, <1>8, RestoreKept
  <1>9. CASE k = Recovery
    <2>1. (task[Recovery].pc = "pidfile" => Served(task[Recovery].slot))'
      BY <1>3, <1>5, <1>9
    <2>2. ASSUME NEW t \in Tenants, NEW i \in Running(image[t])', Settled(t, i)'
          PROVE  Served(image[t][i].slot)' \/ Respawning(image[t][i].slot)'
      <3>1. i \in Running(image[t]) /\ i \in DOMAIN image[t] /\ Settled(t, i) /\ image' = image
        BY <1>2, <2>2 DEF Running, Settled
      <3>2. image[t][i].slot \in Slots
        BY <1>0, <3>1, ImageSlots
      <3>3. Served(image[t][i].slot) \/ image[t][i].slot = r
        BY <1>r, <1>9, <3>1 DEF RestoreInv, Respawning
      <3> QED
        BY <1>5, <1>6, <3>1, <3>2, <3>3
    <2> QED
      BY <2>1, <2>2 DEF RestoreInv
  <1> QED
    BY <1>8, <1>9

(* A start that fails disturbs its slot; recovery goes on to the next      *)
(* record.                                                                 *)
LEMMA FailRestore ==
  ASSUME IInv, RestoreInv, node = "recovering", NEW k \in Tasks, StartFails(k)
  PROVE  RestoreInv'
  <1>r. PICK r : r = task[k].slot
    OBVIOUS
  <1>0. TypeOK /\ task[k].pc \in {"sweep", "spawn"} /\ r \in Slots /\ Tenant(r) \in Tenants
    BY <1>r, TaskFacts DEF IInv, StartFails
  <1>1. /\ UNCHANGED <<alive, owner, image, snapshot>>
        /\ disturbed' = disturbed \cup {r} /\ Abandon(k)
    BY <1>r DEF StartFails, Disturbs
  <1>2. \A j \in Tasks \ {k} : task'[j] = task[j]
    BY <1>0, <1>1 DEF Abandon, TypeOK
  <1>3. Served(r)'
    BY <1>1 DEF Served
  <1>4. \A s \in Slots : Served(s) => Served(s)'
    <2>1. \A j \in Cli : task[j].pc \in {"unlink", "spawn"} /\ task[j].slot # r =>
                           task'[j] = task[j]
      BY <1>r, <1>2 DEF Tasks
    <2>2. \A s \in Slots : s # r /\ Served(s) => Served(s)'
      BY <1>1, <2>1, ServedElsewhere
    <2> QED
      BY <1>3, <2>2
  <1>5. Recovery \in Tasks
    BY DEF Tasks
  <1>6. CASE k # Recovery
    <2>1. UNCHANGED next
      BY <1>1, <1>6 DEF Abandon
    <2> QED
      BY <1>1, <1>2, <1>4, <1>5, <1>6, <2>1, RestoreKept
  <1>7. CASE k = Recovery
    <2> DEFINE u == Tenant(r)
    <2>1. /\ task'[Recovery].pc = "scan"
          /\ next' = [next EXCEPT ![u] = @ + 1]
      BY <1>r, <1>0, <1>1, <1>5, <1>7 DEF Abandon, TypeOK, IdleTask
    <2>2. next[u] \in DOMAIN image[u] /\ image[u][next[u]].slot = r
      BY <1>r, <1>0, <1>7 DEF IInv, RecoveryInv
    <2>3. next'[u] = next[u] + 1 /\ \A t \in Tenants : t # u => next'[t] = next[t]
      BY <1>0, <2>1 DEF TypeOK
    <2>4. ASSUME NEW t \in Tenants, NEW i \in Running(image[t])', Settled(t, i)'
          PROVE  Served(image[t][i].slot)'
      <3>1. i \in Running(image[t]) /\ i \in DOMAIN image[t] /\ image' = image
        BY <1>1, <2>4 DEF Running
      <3>2. i \in Nat /\ next[t] \in Nat /\ image[t][i].slot \in Slots
        BY <1>0, <3>1, ImageSlots
      <3>3. Settled(t, i) \/ (t = u /\ i = next[u])
        <4>1. i < next'[t] \/ next'[t] = 0 \/ image[t][i].pid \in snapshot
          BY <1>1, <2>4 DEF Settled
        <4>2. CASE t # u
          BY <2>3, <4>1, <4>2 DEF Settled
        <4>3. CASE t = u
          <5>1. \A a, b \in Nat : /\ a < b + 1 => a < b \/ a = b
                                  /\ b + 1 # 0
            OBVIOUS
          <5> QED
            BY <2>3, <3>2, <4>1, <4>3, <5>1 DEF Settled
        <4> QED
          BY <4>2, <4>3
      <3>4. Served(image[t][i].slot) \/ image[t][i].slot = r
        BY <1>r, <1>7, <2>2, <3>1, <3>3 DEF RestoreInv, Respawning
      <3> QED
        BY <1>3, <1>4, <3>1, <3>2, <3>4
    <2> QED
      BY <2>1, <2>4 DEF RestoreInv
  <1> QED
    BY <1>6, <1>7

(* The pid file: recovery puts the new pid into its record, whose agent is *)
(* served, and goes on.                                                    *)
LEMMA WritePidRestore ==
  ASSUME IInv, RestoreInv, NEW k \in Tasks, WritePid(k)
  PROVE  RestoreInv'
  <1>r. PICK r : r = task[k].slot
    OBVIOUS
  <1>0. TypeOK /\ task[k].pc = "pidfile" /\ r \in Slots /\ Tenant(r) \in Tenants
    BY <1>r, TaskFacts DEF IInv, WritePid
  <1>1. UNCHANGED <<alive, owner, disturbed, snapshot>>
    BY DEF WritePid, history
  <1>2. \A j \in Tasks \ {k} : task'[j] = task[j]
    BY <1>0 DEF WritePid, Abandon, TypeOK
  <1>3. \A s \in Slots : Served(s) => Served(s)'
    <2>1. \A j \in Cli : task[j].pc \in {"unlink", "spawn"} => task'[j] = task[j]
      BY <1>0, <1>2 DEF Tasks
    <2> QED
      BY <1>1, <2>1 DEF Served
  <1>4. Recovery \in Tasks
    BY DEF Tasks
  <1>5. CASE k # Recovery
    <2>1. UNCHANGED <<image, next>>
      BY <1>5 DEF WritePid
    <2> QED
      BY <1>1, <1>2, <1>3, <1>4, <1>5, <2>1, RestoreKept
  <1>6. CASE k = Recovery
    <2>u. PICK u : u = Tenant(r)
      OBVIOUS
    <2>n. PICK n : n = next[u]
      OBVIOUS
    <2>1. /\ task'[Recovery].pc = "scan"
          /\ next' = [next EXCEPT ![u] = @ + 1]
          /\ image' = [image EXCEPT ![u][n].pid = task[k].pid]
      BY <1>r, <1>0, <1>4, <1>6, <2>u, <2>n DEF WritePid, Abandon, TypeOK, IdleTask
    <2>2. n \in DOMAIN image[u] /\ image[u][n].slot = r
      BY <1>r, <1>0, <1>6, <2>u, <2>n DEF IInv, RecoveryInv
    <2>3. next'[u] = n + 1 /\ \A t \in Tenants : t # u => next'[t] = next[t]
      BY <1>0, <2>1, <2>u, <2>n DEF TypeOK
    <2>4. \A t \in Tenants : t # u => image'[t] = image[t]
      BY <1>0, <2>1 DEF TypeOK
    <2>5. /\ DOMAIN image'[u] = DOMAIN image[u]
          /\ \A i \in DOMAIN image[u] : i # n => image'[u][i] = image[u][i]
          /\ image'[u][n].slot = r
      <3>1. PICK l : l = image[u]
        OBVIOUS
      <3>2. l \in Seq(Record) /\ n \in DOMAIN l /\ l[n].slot = r
        BY <1>0, <2>2, <2>u, <3>1 DEF TypeOK
      <3>3. image'[u] = [l EXCEPT ![n].pid = task[k].pid]
        BY <1>0, <2>1, <2>u, <3>1 DEF TypeOK
      <3>4. /\ DOMAIN [l EXCEPT ![n].pid = task[k].pid] = DOMAIN l
            /\ \A i \in DOMAIN l : i # n => [l EXCEPT ![n].pid = task[k].pid][i] = l[i]
            /\ [l EXCEPT ![n].pid = task[k].pid][n].slot = l[n].slot
        <4>1. l[n] \in Record
          BY <3>2
        <4> QED
          BY <3>2, <4>1 DEF Record
      <3> QED
        BY <3>1, <3>2, <3>3, <3>4
    <2>6. ASSUME NEW t \in Tenants, NEW i \in Running(image[t])', Settled(t, i)'
          PROVE  Served(image[t][i].slot)'
      <3>1. CASE t = u /\ i = n
        <4>1. image'[t][i].slot = r
          BY <2>5, <3>1
        <4>2. Served(r)
          BY <1>r, <1>0, <1>6 DEF RestoreInv
        <4>3. Served(r)'
          BY <1>0, <1>3, <4>2
        <4> QED
          BY <4>1, <4>3
      <3>2. CASE ~(t = u /\ i = n)
        <4>1. i \in DOMAIN image[t] /\ image'[t][i] = image[t][i] /\ i \in Running(image[t])
          BY <2>4, <2>5, <2>6, <3>2 DEF Running
        <4>2. i \in Nat /\ next[t] \in Nat /\ image[t][i].slot \in Slots
          BY <1>0, <4>1, ImageSlots
        <4>3. Settled(t, i)
          <5>1. i < next'[t] \/ next'[t] = 0 \/ image[t][i].pid \in snapshot
            BY <1>1, <2>6, <4>1 DEF Settled
          <5>2. CASE t # u
            BY <2>3, <5>1, <5>2 DEF Settled
          <5>3. CASE t = u
            <6>1. \A a, b \in Nat : /\ a < b + 1 => a < b \/ a = b
                                    /\ b + 1 # 0
              OBVIOUS
            <6> QED
              BY <2>3, <2>n, <3>2, <4>2, <5>1, <5>3, <6>1 DEF Settled
          <5> QED
            BY <5>2, <5>3
        <4>4. Served(image[t][i].slot)
          BY <1>0, <1>6, <4>1, <4>3 DEF RestoreInv, Respawning
        <4> QED
          BY <1>3, <4>1, <4>2, <4>4
      <3> QED
        BY <3>1, <3>2
    <2> QED
      BY <2>1, <2>6 DEF RestoreInv
  <1> QED
    BY <1>5, <1>6

(* What a task does with its list ends at most the process it was told to. *)
LEMMA ListRestore ==
  ASSUME IInv, RestoreInv, node = "recovering", NEW k \in Tasks,
         SaveLoad(k) \/ SaveWrite(k) \/ StopKill(k) \/ StopWrite(k)
  PROVE  RestoreInv'
  <1>r. PICK r : r = task[k].slot
    OBVIOUS
  <1>0. TypeOK /\ task[k].pc \in {"load", "save", "kill", "write"} /\ k # Recovery /\ r \in Slots
    BY <1>r, TaskFacts DEF IInv, RecoveryInv, Sweeping, SaveLoad, SaveWrite, StopKill, StopWrite
  <1>1. UNCHANGED <<owner, image, next, snapshot>>
    BY DEF SaveLoad, SaveWrite, StopKill, StopWrite, recovery
  <1>2. \A j \in Tasks \ {k} : task'[j] = task[j]
    BY <1>0 DEF SaveLoad, SaveWrite, StopKill, StopWrite, Goto, TypeOK
  <1>3. \A j \in Cli : task[j].pc \in {"unlink", "spawn"} => task'[j] = task[j]
    BY <1>0, <1>2 DEF Tasks
  <1>4. \A s \in Slots : Served(s) => Served(s)'
    <2>1. CASE StopKill(k)
      <3>1. disturbed' = disturbed \cup {r} /\ alive' = alive \ {task[k].pid}
        BY <1>r, <2>1 DEF StopKill, Disturbs
      <3>2. Given(task[k].pid, r) /\ task[k].pid # NoPid
        BY <1>r, <2>1 DEF StopKill, IInv, TasksInv, TaskInv
      <3>3. \A p \in alive : owner[p] # r => p \in alive'
        BY <3>1, <3>2 DEF Given
      <3>4. \A s \in Slots : s # r /\ Served(s) => Served(s)'
        BY <1>1, <1>3, <3>1, <3>3, ServedElsewhere
      <3>5. Served(r)'
        BY <3>1 DEF Served
      <3> QED
        BY <3>4, <3>5
    <2>2. CASE SaveLoad(k) \/ SaveWrite(k) \/ StopWrite(k)
      <3>1. UNCHANGED <<alive, disturbed>>
        BY <2>2 DEF SaveLoad, SaveWrite, StopWrite, history
      <3> QED
        BY <1>1, <1>3, <3>1 DEF Served
    <2> QED
      BY <2>1, <2>2
  <1>5. task'[Recovery] = task[Recovery]
    BY <1>0, <1>2 DEF Tasks
  <1> QED
    BY <1>1, <1>4, <1>5, RestoreKept

(* Recovery leaves a record alone only if it saw its process, and ends     *)
(* when it has dealt with all of them.                                     *)
LEMMA RecoverRestore ==
  ASSUME IInv, RestoreInv, NEW u \in Tenants, RecoverNext(u) \/ RecoverSave(u)
  PROVE  RestoreInv'
  <1>0. TypeOK /\ task[Recovery].pc = "scan" /\ Recovery \in Tasks /\ Recovery \notin Cli
    BY RuntimeAssumption DEF IInv, RecoverNext, RecoverSave, Tasks
  <1>1. UNCHANGED <<alive, owner, disturbed, image, snapshot>>
    BY DEF RecoverNext, RecoverSave, history
  <1>2. /\ \A j \in Tasks \ {Recovery} : task'[j] = task[j]
        /\ task'[Recovery].pc \in {"scan", "sweep"}
    BY <1>0 DEF RecoverNext, RecoverSave, TypeOK, TaskState
  <1>3. \A s \in Slots : Served(s) => Served(s)'
    <2>1. \A j \in Cli : task'[j] = task[j]
      BY <1>0, <1>2 DEF Tasks
    <2> QED
      BY <1>1, <2>1 DEF Served
  <1>4. ASSUME NEW t \in Tenants, NEW i \in Running(image[t])', Settled(t, i)'
        PROVE  Served(image[t][i].slot)'
    <2>1. i \in Running(image[t]) /\ i \in DOMAIN image[t] /\ image' = image
      BY <1>1, <1>4 DEF Running
    <2>2. i \in Nat /\ i >= 1 /\ next[t] \in Nat /\ image[t][i].slot \in Slots
      BY <1>0, <2>1, ImageSlots
    <2>3. i < next'[t] \/ next'[t] = 0 \/ image[t][i].pid \in snapshot
      BY <1>1, <1>4 DEF Settled
    <2>4. Settled(t, i)
      <3>1. CASE UNCHANGED next
        BY <2>3, <3>1 DEF Settled
      <3>2. CASE RecoverNext(u) /\ ~UNCHANGED next
        <4>1. /\ next' = [next EXCEPT ![u] = @ + 1]
              /\ \/ image[u][next[u]].status # "running"
                 \/ image[u][next[u]].pid \in snapshot
          BY <3>2 DEF RecoverNext
        <4>2. next'[u] = next[u] + 1 /\ \A q \in Tenants : q # u => next'[q] = next[q]
          BY <1>0, <4>1 DEF TypeOK
        <4>3. CASE t # u
          BY <2>3, <4>2, <4>3 DEF Settled
        <4>4. CASE t = u
          <5>1. \A a, b \in Nat : /\ a < b + 1 => a < b \/ a = b
                                  /\ b + 1 # 0
            OBVIOUS
          <5>2. i < next[t] \/ i = next[t] \/ image[t][i].pid \in snapshot
            BY <2>2, <2>3, <4>2, <4>4, <5>1
          <5>3. CASE i = next[t]
            BY <2>1, <4>1, <4>4, <5>3 DEF Running, Settled
          <5> QED
            BY <5>2, <5>3 DEF Settled
        <4> QED
          BY <4>3, <4>4
      <3>3. CASE RecoverSave(u)
        <4>1. /\ next' = [next EXCEPT ![u] = 0] /\ next[u] > 0 /\ next[u] \notin DOMAIN image[u]
          BY <3>3 DEF RecoverSave, Scanned
        <4>2. CASE t # u
          BY <1>0, <2>3, <4>1, <4>2 DEF Settled, TypeOK
        <4>3. CASE t = u
          <5>1. PICK m : m = Len(image[u])
            OBVIOUS
          <5>2. m \in Nat /\ DOMAIN image[u] = 1..m
            BY <1>0, <5>1 DEF TypeOK
          <5>3. \A a, b \in Nat : b > 0 /\ b \notin 1..m /\ a \in 1..m => a < b
            BY <5>2
          <5>4. i < next[t]
            BY <2>1, <2>2, <4>1, <4>3, <5>2, <5>3
          <5> QED
            BY <5>4 DEF Settled
        <4> QED
          BY <4>2, <4>3
      <3> QED
        BY <3>1, <3>2, <3>3
    <2>5. Served(image[t][i].slot)
      BY <1>0, <2>1, <2>4 DEF RestoreInv, Respawning
    <2> QED
      BY <1>3, <2>1, <2>2, <2>5
  <1> QED
    BY <1>2, <1>4 DEF RestoreInv

(* Recovery begins with the processes it sees alive, and nothing dealt     *)
(* with.                                                                   *)
LEMMA RestartRestore ==
  ASSUME IInv, Restart
  PROVE  RestoreInv'
  <1>0. TypeOK
    BY DEF IInv
  <1>1. /\ next' = [t \in Tenants |-> IF image'[t] = <<>> THEN 0 ELSE 1]
        /\ snapshot' = alive /\ UNCHANGED <<alive, owner>>
    BY DEF Restart
  <1>2. image' = [t \in Tenants |-> IF t \in unread' THEN <<>> ELSE records[t]]
    BY DEF Restart
  <1>3. task'[Recovery].pc = "scan"
    BY <1>0 DEF Restart, TypeOK, IdleTask, Tasks
  <1>4. ASSUME NEW t \in Tenants, NEW i \in Running(image[t])', Settled(t, i)'
        PROVE  Served(image[t][i].slot)'
    <2>1. i \in DOMAIN image'[t] /\ image'[t] # <<>>
      BY <1>4 DEF Running
    <2>2. image'[t] = records[t] /\ next'[t] = 1
      BY <1>1, <1>2, <2>1
    <2>3. image'[t][i].pid \in alive
      <3>1. i \in Nat /\ ~(i < 1)
        <4>1. records[t] \in Seq(Record)
          BY <1>0 DEF TypeOK
        <4> QED
          BY <2>1, <2>2, <4>1
      <3>2. i < next'[t] \/ next'[t] = 0 \/ image'[t][i].pid \in snapshot'
        BY <1>4 DEF Settled
      <3> QED
        BY <1>1, <2>2, <3>1, <3>2
    <2>4. Given(records[t][i].pid, records[t][i].slot)
      BY <2>1, <2>2 DEF IInv, FilesInv, OwnedList
    <2>5. NoPid \notin alive
      BY <1>0, RuntimeAssumption DEF TypeOK
    <2>6. owner[image'[t][i].pid] = image'[t][i].slot
      BY <2>2, <2>3, <2>4, <2>5 DEF Given
    <2> QED
      BY <1>1, <2>3, <2>6 DEF Served
  <1> QED
    BY <1>3, <1>4 DEF RestoreInv

(* Every step keeps what recovery has settled served.                      *)
LEMMA RestoreStep ==
  ASSUME IInv, ServingInv, RestoreInv, [Next]_vars, FreshPids
  PROVE  RestoreInv'
  <1>0. TypeOK /\ Recovery \in Tasks /\ Recovery \notin Api \cup Cli
    BY RuntimeAssumption DEF IInv, Tasks
  <1>5. CASE node' # "recovering"
    <2>1. task'[Recovery].pc = "idle" /\ \A t \in Tenants : image'[t] = <<>>
      BY <1>5, ServingStep DEF ServingInv
    <2>2. \A t \in Tenants : Running(image[t])' = {}
      BY <2>1 DEF Running
    <2> QED
      BY <2>1, <2>2 DEF RestoreInv
  <1>1. ASSUME NEW k \in Api \cup Cli, NEW s \in Slots, Run(k, s) \/ Deploy(k, s) \/ Stop(k, s),
               node' = "recovering"
        PROVE  RestoreInv'
    <2>1. UNCHANGED <<node, image, next, snapshot>>
      BY <1>1 DEF Run, Deploy, Stop, recovery
    <2>2. \A r \in Slots : Served(r) => Served(r)'
      BY <1>1, <2>1, RequestServed
    <2>3. PICK new : task' = [task EXCEPT ![k] = new]
      BY <1>1, RequestTask
    <2>4. task'[Recovery] = task[Recovery]
      BY <1>0, <2>3 DEF TypeOK
    <2> QED
      BY <2>1, <2>2, <2>4, RestoreKept
  <1>2. ASSUME NEW k \in Tasks,
               \/ SweepRead(k) \/ SweepLook(k) \/ SweepKill(k) \/ SweepUnlink(k)
               \/ Spawn(k) \/ StartFails(k) \/ WritePid(k)
               \/ SaveLoad(k) \/ SaveWrite(k) \/ StopKill(k) \/ StopWrite(k),
               node' = "recovering"
        PROVE  RestoreInv'
    <2>1. node = "recovering"
      BY <1>2 DEF SweepRead, SweepLook, SweepKill, SweepUnlink, Spawn, StartFails, WritePid,
         SaveLoad, SaveWrite, StopKill, StopWrite
    <2> QED
      BY <1>2, <2>1, SweepRestore, SpawnRestore, FailRestore, WritePidRestore, ListRestore
  <1>3. ASSUME NEW t \in Tenants, RecoverNext(t) \/ RecoverSave(t)  PROVE RestoreInv'
    BY <1>3, RecoverRestore
  <1>4. ASSUME NEW p \in Pids, Exit(p), node' = "recovering"  PROVE RestoreInv'
    <2>r. PICK r : r = owner[p]
      OBVIOUS
    <2>1. /\ UNCHANGED <<owner, task, image, next, snapshot>>
          /\ alive' = alive \ {p} /\ disturbed' = disturbed \cup {r}
      BY <1>4, <2>r DEF Exit, Disturbs, recovery
    <2>2. \A s \in Slots : s # r /\ Served(s) => Served(s)'
      BY <2>r, <2>1, ServedElsewhere
    <2>3. Served(r)'
      BY <2>1 DEF Served
    <2> QED
      BY <2>1, <2>2, <2>3, RestoreKept
  <1>6. CASE Crash \/ Serve
    BY <1>5, <1>6 DEF Crash, Serve
  <1>7. CASE Restart
    BY <1>7, RestartRestore
  <1>9. CASE UNCHANGED vars
    <2>1. UNCHANGED <<alive, owner, task, disturbed, image, next, snapshot>>
      BY <1>9 DEF vars, recovery, history
    <2>2. \A s \in Slots : Served(s) => Served(s)'
      BY <2>1 DEF Served
    <2> QED
      BY <2>1, <2>2, RestoreKept
  <1> QED
    BY <1>1, <1>2, <1>3, <1>4, <1>5, <1>6, <1>7, <1>9 DEF Next

(* Recovery keeps a running record of every agent it found to have one:    *)
(* it changes no slot and no status.                                       *)
LEMMA ListedStep ==
  ASSUME IInv, ServingInv, ListedInv, [Next]_vars
  PROVE  ListedInv'
  <1>0. TypeOK /\ RecoveryInv
    BY DEF IInv
  <1>1. ASSUME UNCHANGED <<node, listed, unread, image>>  PROVE ListedInv'
    BY <1>1 DEF ListedInv
  <1>2. ASSUME node' # "recovering"  PROVE ListedInv'
    BY <1>2 DEF ListedInv
  <1>3. ASSUME NEW k \in Api \cup Cli, NEW s \in Slots, Run(k, s) \/ Deploy(k, s) \/ Stop(k, s)
        PROVE  ListedInv'
    BY <1>1, <1>3 DEF Run, Deploy, Stop, recovery, history
  <1>4. ASSUME NEW k \in Tasks,
               \/ SweepRead(k) \/ SweepLook(k) \/ SweepKill(k) \/ SweepUnlink(k)
               \/ Spawn(k) \/ StartFails(k) \/ SaveLoad(k) \/ SaveWrite(k) \/ StopKill(k)
               \/ StopWrite(k)
        PROVE  ListedInv'
    BY <1>1, <1>4 DEF SweepRead, SweepLook, SweepKill, SweepUnlink, Spawn, StartFails,
       SaveLoad, SaveWrite, StopKill, StopWrite, recovery, history
  <1>5. ASSUME NEW k \in Tasks, WritePid(k)  PROVE ListedInv'
    <2>1. UNCHANGED <<node, listed, unread>>
      BY <1>5 DEF WritePid
    <2>2. CASE k # Recovery
      BY <1>1, <1>5, <2>1, <2>2 DEF WritePid
    <2>3. CASE k = Recovery
      <3> DEFINE u == Tenant(task[k].slot)
                 n == next[u]
      <3>1. /\ u \in Tenants /\ n \in DOMAIN image[u] /\ image[u] \in Seq(Record)
            /\ image' = [image EXCEPT ![u][n].pid = task[k].pid]
        BY <1>0, <1>5, <2>3, TaskFacts DEF WritePid, RecoveryInv, TypeOK
      <3>2. image[u][n] \in Record
        BY <3>1
      <3> HIDE DEF u, n
      <3>3. \A t \in Tenants :
              /\ DOMAIN image'[t] = DOMAIN image[t]
              /\ \A i \in DOMAIN image[t] : /\ image'[t][i].slot = image[t][i].slot
                                            /\ image'[t][i].status = image[t][i].status
        BY <1>0, <3>1, <3>2 DEF TypeOK, Record
      <3>4. \A s \in Slots : Tenant(s) \in Tenants
        BY DEF Slots, Tenant
      <3> QED
        BY <1>0, <2>1, <3>3, <3>4 DEF ListedInv, Running, TypeOK
    <2> QED
      BY <2>2, <2>3
  <1>6. ASSUME NEW t \in Tenants, RecoverNext(t) \/ RecoverSave(t)  PROVE ListedInv'
    BY <1>1, <1>6 DEF RecoverNext, RecoverSave, history
  <1>7. ASSUME NEW p \in Pids, Exit(p)  PROVE ListedInv'
    BY <1>1, <1>7 DEF Exit, recovery
  <1>8. CASE Crash \/ Serve
    BY <1>2, <1>8 DEF Crash, Serve
  <1>9. CASE Restart
    <2>1. ASSUME NEW s \in listed', Tenant(s) \notin unread'
          PROVE  \E i \in Running(image'[Tenant(s)]) : image'[Tenant(s)][i].slot = s
      <3>1. PICK t \in Tenants : \E i \in Running(records[t]) : s = records[t][i].slot
        BY <1>9, <2>1 DEF Restart
      <3>2. PICK i \in Running(records[t]) : s = records[t][i].slot
        BY <3>1
      <3>3. Tenant(s) = t
        BY <3>2 DEF Running, IInv, FilesInv, OwnedList
      <3>4. image'[t] = records[t]
        BY <1>9, <2>1, <3>3 DEF Restart
      <3> QED
        BY <3>2, <3>3, <3>4
    <2> QED
      BY <2>1 DEF ListedInv, Running
  <1>10. CASE UNCHANGED vars
    BY <1>1, <1>10 DEF vars, recovery, history
  <1> QED
    BY <1>3, <1>4, <1>5, <1>6, <1>7, <1>8, <1>9, <1>10 DEF Next

-----------------------------------------------------------------------------
(* The inductive invariant: it holds at first and every step keeps it.     *)
LEMMA InitIInv == Init => IInv
  <1> SUFFICES ASSUME Init  PROVE IInv
    OBVIOUS
  <1>1. \A k \in Tasks : task[k] = IdleTask /\ task[k].pc = "idle"
    BY IdleTyped DEF Init
  <1>2. TypeOK
    BY IdleTyped, RuntimeAssumption DEF Init, TypeOK
  <1>3. OwnerInv /\ FilesInv /\ SlotIsolation
    BY DEF Init, OwnerInv, FilesInv, Given, OwnedList, SlotIsolation
  <1>4. TasksInv /\ StopKills
    BY <1>1 DEF TasksInv, TaskInv, StopKills
  <1>5. RecoveryInv
    BY <1>1 DEF RecoveryInv, Sweeping, Init, Tasks
  <1>6. LiveInv
    BY <1>1 DEF LiveInv, Known, Busy, Sweeping, Init
  <1> QED
    BY <1>2, <1>3, <1>4, <1>5, <1>6 DEF IInv

(* Every step keeps the inductive invariant, part by part.                 *)
LEMMA NextIInv ==
  ASSUME FreshPids
  PROVE  IInv /\ [Next]_vars => IInv'
  BY TypeStep, OwnerStep, FilesStep, TasksStep, RecoveryStep, IsolationStep, KillStep,
     LiveStep DEF IInv

(* In every reachable state the inductive invariant holds.                 *)
THEOREM Invariant == ASSUME FreshPids PROVE Spec => []IInv
  BY InitIInv, NextIInv, PTL DEF Spec

(* Every variable keeps its type.                                          *)
THEOREM TypeCorrect == ASSUME FreshPids PROVE Spec => []TypeOK
  <1>1. IInv => TypeOK
    BY DEF IInv
  <1> QED
    BY <1>1, Invariant, PTL

(* No stop, sweep or recovery ever signals another agent's or tenant's     *)
(* process, whatever lists and pid files are stale, however many tasks,    *)
(* CLI processes and crashes interleave.                                   *)
THEOREM Isolation == ASSUME FreshPids PROVE Spec => []SlotIsolation
  <1>1. IInv => SlotIsolation
    BY DEF IInv
  <1> QED
    BY <1>1, Invariant, PTL

(* A stop that goes on to write its list has ended the process.            *)
THEOREM StopEffective == ASSUME FreshPids PROVE Spec => []StopKills
  <1>1. IInv => StopKills
    BY DEF IInv
  <1> QED
    BY <1>1, Invariant, PTL

(* An agent whose starts never overlapped has at most one process, apart   *)
(* from those no pid file names; however often its start was cut by a      *)
(* crash or a failed write or read of the pid file.                        *)
THEOREM AtMostOne == ASSUME FreshPids PROVE Spec => []SingleInstance
  <1>1. IInv => SingleInstance
    <2> SUFFICES ASSUME IInv, NEW s \in Slots \ raced,
                        NEW p \in alive \ unmarked, NEW q \in alive \ unmarked,
                        owner[p] = s, owner[q] = s
                 PROVE  p = q
      BY DEF SingleInstance
    <2>1. /\ Known(s, p) /\ Known(s, q)
          /\ \A j, k \in Tasks : Busy(j, s) /\ Busy(k, s) => j = k
      BY DEF IInv, LiveInv
    <2> QED
      BY <2>1 DEF Known, Writing, Busy
  <1> QED
    BY <1>1, Invariant, PTL

(* Nothing is to be recovered at first.                                    *)
LEMMA InitRestore == Init => ServingInv /\ RestoreInv /\ ListedInv
  <1> SUFFICES ASSUME Init  PROVE ServingInv /\ RestoreInv /\ ListedInv
    OBVIOUS
  <1>1. \A k \in Tasks : task[k].pc = "idle"
    BY IdleTyped DEF Init
  <1>2. Recovery \in Tasks /\ Api \subseteq Tasks
    BY DEF Tasks
  <1>3. \A t \in Tenants : image[t] = <<>> /\ Running(image[t]) = {}
    BY DEF Init, Running
  <1> QED
    BY <1>1, <1>2, <1>3 DEF ServingInv, RestoreInv, ListedInv, Init

(* When recovery has gone through the lists, every agent that was recorded *)
(* as running when the node started has a live process again, or a command *)
(* is about to start one, or something disturbed it meanwhile, or its      *)
(* tenant's list could not be parsed; however many records an agent has,   *)
(* whatever was alive when recovery began, whichever writes failed, and    *)
(* whatever the commands on the same directory do (startup_recovery).      *)
THEOREM RecoveryComplete == ASSUME FreshPids PROVE Spec => []RecoveryRestores
  <1>1. ServingInv /\ RestoreInv /\ ListedInv /\ IInv => RecoveryRestores
    <2> SUFFICES ASSUME ServingInv, RestoreInv, ListedInv, IInv,
                        task[Recovery].pc = "scan", Scanned,
                        NEW s \in listed, Tenant(s) \notin unread
                 PROVE  Served(s)
      BY DEF RecoveryRestores, Served
    <2>1. PICK t : t = Tenant(s)
      OBVIOUS
    <2>2. node = "recovering" /\ t \in Tenants
      BY <2>1 DEF ServingInv, IInv, TypeOK, Slots, Tenant
    <2>3. PICK i \in Running(image[t]) : image[t][i].slot = s
      BY <2>1, <2>2 DEF ListedInv
    <2>4. TypeOK /\ i \in DOMAIN image[t] /\ next[t] \notin DOMAIN image[t]
      BY <2>2 DEF IInv, Running, Scanned
    <2>5. Settled(t, i)
      <3>1. PICK m : m = Len(image[t])
        OBVIOUS
      <3>2. m \in Nat /\ DOMAIN image[t] = 1..m /\ next[t] \in Nat
        BY <2>2, <2>4, <3>1 DEF TypeOK
      <3>3. \A a, b \in Nat : b \notin 1..m /\ a \in 1..m => b = 0 \/ a < b
        BY <3>2
      <3> QED
        BY <2>4, <3>2, <3>3 DEF Settled
    <2> QED
      BY <2>2, <2>3, <2>5 DEF RestoreInv, Respawning
  <1>2. IInv /\ ServingInv /\ RestoreInv /\ ListedInv /\ [Next]_vars
          => ServingInv' /\ RestoreInv' /\ ListedInv'
    BY ServingStep, RestoreStep, ListedStep
  <1> QED
    BY <1>1, <1>2, InitRestore, Invariant, PTL DEF Spec

=============================================================================
