----------------------------- MODULE AgentGroups -----------------------------
(***************************************************************************)
(* A group of agents that are started and stopped together, one member     *)
(* after the other, against requests that start and stop single agents and *)
(* edits of the group.  A stop keeps its copy of a tenant's list while it  *)
(* waits, two seconds for each process, and then writes it back.           *)
(*                                                                         *)
(* A list holds the running records only, and a record is added to it in   *)
(* one step; torn files, recovery and processes whose numbers are given    *)
(* out again are NodeRuntime's subject.                                    *)
(***************************************************************************)
EXTENDS Naturals, Sequences, FiniteSets, Functions

CONSTANTS
  Slots,     \* pairs of a tenant and an agent
  Members,   \* the sequences of slots a group may have
  Tasks, MaxOps, MaxCrashes

VARIABLES
  group,     \* the group's file: a set with the group it holds, or empty
  lists,     \* the running records in the tenants' lists: a slot and a process
  alive,     \* live processes
  worker,    \* what each task does
  born,      \* processes so far
  ops, uncrashed,  \* bounds: requests so far, crashes and exits left
  crossed,   \* history: tenants whose list changed while a stop had a copy, or
             \* lacks the record of a start that a crash cut
  muddled,   \* history: a request for the group met another, or a crash
  later      \* history: slots that others have touched since the group's last request

groupVars == <<group, lists, alive, worker, born, ops, uncrashed, crossed, muddled, later>>

Tenant(s) == s[1]
GroupTenants == {Tenant(s) : s \in Slots}
Of(list, s) == {r \in list : r.slot = s}
List(t) == {r \in lists : Tenant(r.slot) = t}

Asleep == [pc |-> "idle", op |-> "none", status |-> "idle", copy |-> {}, todo |-> <<>>,
           list |-> {}, left |-> {}, failed |-> FALSE]
GroupTasks == {k \in Tasks : worker[k].op \in {"run", "stop"}}
Set(k, w) == worker' = [worker EXCEPT ![k] = w]

(* The list of t changes: what other tasks hold of it is stale.            *)
Changes(k, t) ==
  crossed' = IF \E o \in Tasks \ {k} : worker[o].pc = "kill" /\ Tenant(Head(worker[o].todo)) = t
             THEN crossed \cup {t} ELSE crossed

Touches(k, s) == later' = IF k \in GroupTasks THEN later ELSE later \cup {s}

NInit ==
  /\ group \in {{}} \cup {{[members |-> m, status |-> "idle"]} : m \in Members}
  /\ lists = {} /\ alive = {} /\ born = 0
  /\ worker = [k \in Tasks |-> Asleep]
  /\ ops = 0 /\ uncrashed = MaxCrashes
  /\ crossed = {} /\ muddled = FALSE /\ later = {}

Begin(k) ==
  /\ worker[k].pc = "idle" /\ ops < MaxOps
  /\ ops' = ops + 1

-----------------------------------------------------------------------------
(* handle_groups_run and handle_groups_stop, up to the first status.       *)
GroupRequest(k, op) ==
  /\ Begin(k)
  /\ \E g \in group :
       Set(k, [Asleep EXCEPT !.pc = "mark", !.op = op, !.todo = g.members,
                 !.status = IF op = "run" THEN "starting" ELSE "stopping"])
  /\ muddled' = (muddled \/ GroupTasks # {})
  /\ later' = UNION {Range(worker[o].todo) : o \in Tasks \ GroupTasks}
  /\ UNCHANGED <<group, lists, alive, born, uncrashed, crossed>>

(* Requests that start or stop one agent.                                  *)
AgentRequest(k, s, op) ==
  /\ Begin(k)
  /\ Set(k, [Asleep EXCEPT !.pc = IF op = "runone" THEN "run" ELSE "stop", !.op = op, !.todo = <<s>>])
  /\ Touches(k, s)
  /\ UNCHANGED <<group, lists, alive, born, uncrashed, crossed, muddled>>

(* set_group_status: load the group, unless it is gone ...                 *)
MarkLoad(k) ==
  /\ worker[k].pc = "mark"
  /\ Set(k, [worker[k] EXCEPT !.copy = group, !.pc = "put"])
  /\ UNCHANGED <<group, lists, alive, born, ops, uncrashed, crossed, muddled, later>>

(* ... and save it with the status.                                        *)
MarkSave(k) ==
  /\ worker[k].pc = "put"
  /\ LET w == worker[k] IN
       /\ group' = IF w.copy = {} THEN group ELSE {[g EXCEPT !.status = w.status] : g \in w.copy}
       /\ CASE w.status = "starting" -> Set(k, [w EXCEPT !.pc = "run"])
            [] w.status = "stopping" -> Set(k, [w EXCEPT !.pc = "stop"])
            [] OTHER -> Set(k, Asleep)
  /\ UNCHANGED <<lists, alive, born, ops, uncrashed, crossed, muddled, later>>

(* ProcessRuntime::start replaces the agent's process, or fails.           *)
StartMember(k) ==
  /\ worker[k].pc = "run" /\ worker[k].todo # <<>>
  /\ LET s == Head(worker[k].todo) IN
     \/ /\ born' = born + 1
        /\ alive' = {p \in alive : p.slot # s} \cup {[slot |-> s, pid |-> born']}
        /\ Set(k, [worker[k] EXCEPT !.pc = "list", !.left = {[slot |-> s, pid |-> born']}])
        /\ Touches(k, s)
     \/ /\ Set(k, [worker[k] EXCEPT !.todo = Tail(@), !.failed = TRUE])
        /\ UNCHANGED <<born, alive, later>>
  /\ UNCHANGED <<group, lists, ops, uncrashed, crossed, muddled>>

(* save_instance.                                                          *)
ListMember(k) ==
  /\ worker[k].pc = "list"
  /\ lists' = lists \cup worker[k].left
  /\ Changes(k, Tenant(Head(worker[k].todo)))
  /\ Set(k, [worker[k] EXCEPT !.pc = "run", !.todo = Tail(@), !.left = {}])
  /\ UNCHANGED <<group, alive, born, ops, uncrashed, muddled, later>>

(* The records a stop is about: a group's all of them, a single one's the  *)
(* first.                                                                  *)
Found(k, s) ==
  IF k \in GroupTasks THEN {Of(lists, s)} ELSE {{r} : r \in Of(lists, s)}

(* The first record of an agent may be one that is stopped already, and a  *)
(* single stop then does nothing.                                          *)
StopMember(k) ==
  /\ worker[k].pc = "stop" /\ worker[k].todo # <<>>
  /\ LET s == Head(worker[k].todo) IN
     \/ \E rs \in Found(k, s) :
          Set(k, [worker[k] EXCEPT !.pc = "kill", !.list = List(Tenant(s)), !.left = rs])
     \/ k \notin GroupTasks /\ Set(k, Asleep)
  /\ UNCHANGED <<group, lists, alive, born, ops, uncrashed, crossed, muddled, later>>

(* ProcessRuntime::stop of one process.                                    *)
Kill(k) ==
  /\ worker[k].pc = "kill"
  /\ \E r \in worker[k].left :
       /\ alive' = alive \ {r}
       /\ Set(k, [worker[k] EXCEPT !.list = @ \ {r}, !.left = @ \ {r}])
       /\ Touches(k, r.slot)
  /\ UNCHANGED <<group, lists, born, ops, uncrashed, crossed, muddled>>

(* save_tenant_instances, of the list loaded before the waits.             *)
SaveList(k) ==
  /\ worker[k].pc = "kill" /\ worker[k].left = {}
  /\ LET t == Tenant(Head(worker[k].todo)) IN
       /\ lists' = {r \in lists : Tenant(r.slot) # t} \cup worker[k].list
       /\ Changes(k, t)
  /\ Set(k, [worker[k] EXCEPT !.pc = "stop", !.todo = Tail(@), !.list = {}])
  /\ UNCHANGED <<group, alive, born, ops, uncrashed, muddled, later>>

(* Mutant of Outcome: members that did not start are overlooked.           *)
Outcome_Blind(w) == IF w.op = "stop" THEN "stopped" ELSE "running"

Outcome(w) == IF w.op = "stop" THEN "stopped" ELSE IF w.failed THEN "error" ELSE "running"

(* All members are done.                                                   *)
Finish(k) ==
  /\ worker[k].pc \in {"run", "stop"} /\ worker[k].todo = <<>>
  /\ LET w == worker[k] IN
     IF w.op \in {"runone", "stopone"} THEN Set(k, Asleep)
     ELSE Set(k, [w EXCEPT !.pc = "mark", !.status = Outcome(w)])
  /\ UNCHANGED <<group, lists, alive, born, ops, uncrashed, crossed, muddled, later>>

-----------------------------------------------------------------------------
(* save_group of a client's group, created or edited.                      *)
PutGroup(m) ==
  /\ ops < MaxOps
  /\ ops' = ops + 1
  /\ group' = {[members |-> m, status |-> "idle"]}
  /\ muddled' = (muddled \/ GroupTasks # {})
  /\ UNCHANGED <<lists, alive, worker, born, uncrashed, crossed, later>>

DeleteGroup ==
  /\ ops < MaxOps /\ group # {}
  /\ ops' = ops + 1
  /\ group' = {}
  /\ muddled' = (muddled \/ GroupTasks # {})
  /\ UNCHANGED <<lists, alive, worker, born, uncrashed, crossed, later>>

Exit(p) ==
  /\ p \in alive /\ uncrashed > 0
  /\ uncrashed' = uncrashed - 1
  /\ alive' = alive \ {p}
  /\ later' = later \cup {p.slot}
  /\ UNCHANGED <<group, lists, worker, born, ops, crossed, muddled>>

(* The node dies; the agents live on.                                      *)
NCrash ==
  /\ uncrashed > 0
  /\ uncrashed' = uncrashed - 1
  /\ muddled' = (muddled \/ GroupTasks # {})
  /\ crossed' = crossed \cup
       {Tenant(Head(worker[k].todo)) : k \in {o \in Tasks : worker[o].pc = "list"}}
  /\ worker' = [k \in Tasks |-> Asleep]
  /\ UNCHANGED <<group, lists, alive, born, ops, later>>

NNext ==
  \/ \E k \in Tasks, op \in {"run", "stop"} : GroupRequest(k, op)
  \/ \E k \in Tasks, s \in Slots, op \in {"runone", "stopone"} : AgentRequest(k, s, op)
  \/ \E k \in Tasks : MarkLoad(k) \/ MarkSave(k) \/ StartMember(k) \/ ListMember(k)
                        \/ StopMember(k) \/ Kill(k) \/ SaveList(k) \/ Finish(k)
  \/ \E m \in Members : PutGroup(m)
  \/ \E p \in alive : Exit(p)
  \/ DeleteGroup \/ NCrash

NSpec == NInit /\ [][NNext]_groupVars

-----------------------------------------------------------------------------
NTypeOK ==
  /\ Cardinality(group) <= 1 /\ \A g \in group : g.members \in Members
  /\ \A r \in lists \cup alive : r.slot \in Slots /\ r.pid \in 1..born
  /\ \A p, q \in alive : p.slot = q.slot => p = q
  /\ crossed \subseteq GroupTenants /\ later \subseteq Slots /\ muddled \in BOOLEAN
  /\ ops \in 0..MaxOps /\ uncrashed \in 0..MaxCrashes

(* A group's status can be believed.  If no request for the group met      *)
(* another or died, and no request has anything left to do, then no        *)
(* intermediate status stays behind; a group that is running has a process *)
(* with a record for each of its members, and one that is stopped has      *)
(* neither for any: a member apart that somebody else has started or       *)
(* stopped since, and tenants whose list somebody changed during a wait or *)
(* a crash left incomplete.                                                *)
GroupTruth ==
  ~muddled /\ (\A k \in Tasks : worker[k].pc = "idle") =>
    \A g \in group :
      /\ g.status \notin {"starting", "stopping"}
      /\ \A i \in DOMAIN g.members :
           LET s == g.members[i] IN
           s \notin later /\ Tenant(s) \notin crossed =>
             /\ g.status = "running" => Of(lists \cap alive, s) # {}
             /\ g.status = "stopped" => Of(lists \cup alive, s) = {}
=============================================================================
