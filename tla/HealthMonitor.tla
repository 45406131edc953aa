--------------------------- MODULE HealthMonitor ----------------------------
(***************************************************************************)
(* run_health_loop and the records of health.rs.  Every 30 s the loop      *)
(* loads the instance lists, takes a snapshot of the process table, and    *)
(* for each instance with a pid updates its record: a sample if the        *)
(* process is there, a crash if it is not.  Agents are started and stopped *)
(* meanwhile, in two steps: the process goes before the list says so, and  *)
(* comes before the list names it.  save_instance appends a record for     *)
(* each start, unless it got the id of an earlier one: a start over a      *)
(* running agent leaves the old record behind, running and with the pid of *)
(* a process that is gone.  An agent is taken to be the only one of its    *)
(* tenant, with one request at a time: what requests do to each other, and *)
(* to pid files and lists that are cut, is in NodeRuntime.                 *)
(*                                                                         *)
(* Times are ages, counted in rounds of the loop.  Of the resource history *)
(* only the penalty it leads to is kept; latency is never measured, no     *)
(* crash is an OOM and record_restart is never called, so the score is     *)
(* made of crashes and this penalty.                                       *)
(***************************************************************************)
EXTENDS Integers, FiniteSets, Sequences, FiniteSetsExt

CONSTANTS
  Agents,      \* the agents of a node, each of a tenant
  Window,      \* SLIDING_WINDOW_SECS, in rounds
  Penalties,   \* what cpu and memory may cost in score
  MaxCount,    \* where the model stops counting crashes
  MaxRecords,  \* bounds of the model: records of an agent in its list ...
  MaxEvents    \* ... requests, deaths, failed writes and restarts

ASSUME HealthAssumption ==
  /\ IsFiniteSet(Agents)
  /\ {Window, MaxCount, MaxRecords} \subseteq Nat \ {0}
  /\ Penalties \subseteq 0..30 /\ Penalties # {}
  /\ MaxEvents \in Nat

VARIABLES
  listed,   \* the status of each record of an agent in the instance list; one
            \* that is running has a pid, one that is stopped has none
  last,     \* the record that names the agent's last process: 0 for none
  present,  \* agents whose last process is there
  op,       \* the request that is starting or stopping the agent
  health,   \* the record files
  pc,       \* where the loop is
  seen,     \* records with a pid when the lists were loaded, each <<agent, position>>,
  gone,     \* ... and those whose pid the process table no longer had
  todo,     \* records of this round that are still to be looked at
  died,     \* history: agents that lost the process their last record names: it
            \* ended, no other could be started, or its stop was not saved
  handled,  \* history: agents started or stopped since the lists were loaded,
            \* and until the round ends
  events

agents == <<listed, last, present, op>>
loop == <<pc, seen, gone, todo>>
hvars == <<agents, health, loop, died, handled>>

Places == Agents \X (1..MaxRecords)
Ages == (0..Window) \X (1..MaxRecords)

Status == {"unknown", "healthy", "degraded", "critical", "dead"}

Record ==
  [crashes: 0..MaxCount,        \* crash_count
   recent: SUBSET Ages,         \* recent_crashes in the window: their age, and
                                \* which of the agent's records they are of
   stale: 0..(Window + 1) * MaxRecords,   \* how many older ones are in that list
   penalty: Penalties \cup {0},
   score: 0..100,
   status: Status]

NewRecord == [crashes |-> 0, recent |-> {}, stale |-> 0, penalty |-> 0,
              score |-> 100, status |-> "unknown"]

NoRecord == [NewRecord EXCEPT !.crashes = -1]   \* no file, or an unreadable one

FromScore(score) ==
  IF score >= 80 THEN "healthy" ELSE IF score >= 40 THEN "degraded" ELSE "critical"

(* recompute_score; each crash costs 15, all of them 60 at most.           *)
Recomputed(rec) ==
  LET window == 15 * (Cardinality(rec.recent) + rec.stale)
      score == 100 - (IF window < 60 THEN window ELSE 60) - rec.penalty
  IN  [rec EXCEPT !.score = score, !.status = FromScore(score)]

Sampled(rec, penalty) == Recomputed([rec EXCEPT !.penalty = penalty])

(* Mutant of Crashed: the window taken for milliseconds, so that only the  *)
(* newest crash is in it.                                                  *)
Crashed_Alone(rec, i) ==
  Recomputed([rec EXCEPT !.crashes = IF @ < MaxCount THEN @ + 1 ELSE @,
                         !.recent = {<<0, i>>}, !.stale = 0])

(* Mutant of Crashed: crashes that have left the window are not forgotten. *)
Crashed_Kept(rec, i) ==
  Recomputed([rec EXCEPT !.crashes = IF @ < MaxCount THEN @ + 1 ELSE @,
                         !.recent = @ \cup {<<0, i>>}])

(* record_crash forgets the crashes that have left the window.             *)
Crashed(rec, i) ==
  Recomputed([rec EXCEPT !.crashes = IF @ < MaxCount THEN @ + 1 ELSE @,
                         !.recent = @ \cup {<<0, i>>}, !.stale = 0])

(* A round later.                                                          *)
Leaving(rec) == {crash \in rec.recent : crash[1] = Window}

Older(rec) ==
  [rec EXCEPT !.recent = {<<crash[1] + 1, crash[2]>> : crash \in @ \ Leaving(rec)},
              !.stale = @ + Cardinality(Leaving(rec))]

Event == events < MaxEvents /\ events' = events + 1

Handle(a) == handled' = IF pc = "sleep" THEN {} ELSE handled \cup {a}

LoadOrCreate(a) == IF health[a] = NoRecord THEN NewRecord ELSE health[a]

Records == {a \in Agents : health[a] # NoRecord}

(* fleet_health_summary: the average, and 0 when there is nothing to read. *)
AverageScore(records) ==
  IF records = {} THEN 0
  ELSE MapThenSumSet(LAMBDA a : health[a].score, records) \div Cardinality(records)

(* The records of an agent that health and recovery look at.               *)
Running(a) == {i \in DOMAIN listed[a] : listed[a][i] = "running"}

-----------------------------------------------------------------------------
HInit ==
  /\ listed \in [Agents -> {<<>>, <<"running">>}]
  /\ present = {a \in Agents : listed[a] # <<>>}
  /\ last = [a \in Agents |-> Len(listed[a])]
  /\ op = [a \in Agents |-> "none"]
  /\ health = [a \in Agents |-> NoRecord]
  /\ pc = "sleep" /\ seen = {} /\ gone = {} /\ todo = {}
  /\ died = {} /\ handled = {}
  /\ events = 0

-----------------------------------------------------------------------------
(* handle_agents_run: the sweep ends the process there was, the new one is *)
(* spawned, and only then is its pid listed.                               *)
StartBegins(a) ==
  /\ op[a] = "none" /\ Event
  /\ op' = [op EXCEPT ![a] = "starting"]
  /\ present' = present \ {a}
  /\ Handle(a)
  /\ UNCHANGED <<listed, last, health, loop, died>>

(* save_instance: the record with the id of the new instance is replaced,  *)
(* or one is appended.                                                     *)
StartListed(a) ==
  /\ op[a] = "starting"
  /\ op' = [op EXCEPT ![a] = "none"]
  /\ \E i \in DOMAIN listed[a] \cup ({Len(listed[a]) + 1} \cap 1..MaxRecords) :
       /\ listed' = [listed EXCEPT ![a] = [j \in DOMAIN @ \cup {i} |->
                                            IF j = i THEN "running" ELSE @[j]]]
       /\ last' = [last EXCEPT ![a] = i]
       /\ gone' = IF pc = "scan" THEN gone \cup {<<a, i>>} ELSE gone
  /\ present' = present \cup {a}
  /\ died' = died \ {a}
  /\ Handle(a)
  /\ UNCHANGED <<health, pc, seen, todo, events>>

(* start fails after its sweep: the list still names the process that was. *)
StartFails(a) ==
  /\ op[a] = "starting"
  /\ op' = [op EXCEPT ![a] = "none"]
  /\ died' = died \cup {a}
  /\ UNCHANGED <<listed, last, present, health, loop, handled, events>>

(* The error of save_instance is ignored: no record names the new process. *)
StartUnlisted(a) ==
  /\ op[a] = "starting" /\ Event
  /\ op' = [op EXCEPT ![a] = "none"]
  /\ last' = [last EXCEPT ![a] = 0]
  /\ Handle(a)
  /\ UNCHANGED <<listed, present, health, loop, died>>

(* handle_agents_stop: the first record of the agent, whichever process it *)
(* is of.                                                                  *)
StopBegins(a) ==
  /\ op[a] = "none" /\ 1 \in Running(a) /\ Event
  /\ op' = [op EXCEPT ![a] = "stopping"]
  /\ present' = IF last[a] = 1 THEN present \ {a} ELSE present
  /\ Handle(a)
  /\ UNCHANGED <<listed, last, health, loop, died>>

StopListed(a) ==
  /\ op[a] = "stopping"
  /\ op' = [op EXCEPT ![a] = "none"]
  /\ listed' = [listed EXCEPT ![a][1] = "stopped"]
  /\ Handle(a)
  /\ UNCHANGED <<last, present, health, loop, died, events>>

(* The error of save_tenant_instances is ignored.                          *)
StopUnlisted(a) ==
  /\ op[a] = "stopping" /\ Event
  /\ op' = [op EXCEPT ![a] = "none"]
  /\ died' = died \cup ({a} \ present)
  /\ Handle(a)
  /\ UNCHANGED <<listed, last, present, health, loop>>

(* A process ends by itself; nothing tells the list.                       *)
Dies(a) ==
  /\ a \in present /\ Event
  /\ present' = present \ {a}
  /\ died' = died \cup {a}
  /\ UNCHANGED <<listed, last, op, health, loop, handled>>

-----------------------------------------------------------------------------
(* A round begins with these records.                                      *)
HealthSees(places) ==
  /\ pc = "sleep"
  /\ seen' = places /\ gone' = {} /\ todo' = {}
  /\ health' = [a \in Agents |-> IF a \in Records THEN Older(health[a]) ELSE NoRecord]
  /\ handled' = {p[1] : p \in places} \cap {a \in Agents : op[a] # "none"}
  /\ pc' = IF places = {} THEN "sleep" ELSE "scan"
  /\ UNCHANGED <<agents, died, events>>

(* Mutant of HealthLoad: a stopped instance is not skipped.                *)
HealthLoad_Stopped == HealthSees({p \in Places : p[2] \in DOMAIN listed[p[1]]})

(* The loop wakes up and loads the lists; an instance without a pid is     *)
(* stopped and skipped, and so is a list that is being written.            *)
HealthLoad ==
  \E unread \in SUBSET {a \in Agents : op[a] # "none"} :
    HealthSees({p \in Places : p[1] \notin unread /\ p[2] \in Running(p[1])})

(* refresh_processes: a pid that was replaced since is gone as well.       *)
HealthScan ==
  /\ pc = "scan"
  /\ gone' = {p \in seen : p[1] \in present /\ p[2] = last[p[1]] => p \in gone}
  /\ todo' = seen
  /\ pc' = "check"
  /\ UNCHANGED <<agents, health, seen, died, handled, events>>

(* One instance: its record is loaded and updated, then written.  A crash  *)
(* sets the status to Dead before record_crash recomputes it.              *)
Updates(p) ==
  IF p \in gone THEN {Crashed([LoadOrCreate(p[1]) EXCEPT !.status = "dead"], p[2])}
  ELSE {Sampled(LoadOrCreate(p[1]), penalty) : penalty \in Penalties}

Checked(p) ==
  /\ todo' = todo \ {p}
  /\ IF todo = {p} THEN pc' = "sleep" /\ seen' = {} /\ gone' = {} /\ handled' = {}
                   ELSE UNCHANGED <<pc, seen, gone, handled>>
  /\ UNCHANGED <<agents, died>>

Check(p) ==
  /\ pc = "check" /\ p \in todo
  /\ \A q \in todo : q[1] = p[1] => p[2] <= q[2]
  /\ \/ /\ health' \in {[health EXCEPT ![p[1]] = rec] : rec \in Updates(p)}
        /\ UNCHANGED events
     \/ /\ Event   \* the error of save_health is ignored
        /\ health' \in {health, [health EXCEPT ![p[1]] = NoRecord]}
  /\ Checked(p)

(* The node ends and comes back: a record that was being written is cut,   *)
(* and startup_recovery starts, one after the other, what the lists call   *)
(* running and is not, where it can.  A start ends the process that an     *)
(* earlier one of the same agent has brought, also if it then fails.       *)
Dead(a) == Running(a) \ (IF a \in present THEN {last[a]} ELSE {})

Recovers(a, i, alive) ==
  \/ Dead(a) = {} /\ i = last[a] /\ (alive <=> a \in present)
  \/ i \in Dead(a) /\ (alive \/ \E j \in Dead(a) : j > i)
  \/ Dead(a) # {} /\ i = last[a] /\ (alive => a \in present)

HealthRestart ==
  /\ Event
  /\ pc' = "sleep" /\ seen' = {} /\ gone' = {} /\ todo' = {}
  /\ op' = [a \in Agents |-> "none"]
  /\ present' \in SUBSET Agents
  /\ last' \in [Agents -> 0..MaxRecords]
  /\ \A a \in Agents : Recovers(a, last'[a], a \in present')
  /\ died' = (died \ present') \cup {a \in Agents \ present' : Dead(a) # {}}
  /\ \/ health' = health
     \/ \E p \in todo : health' = [health EXCEPT ![p[1]] = NoRecord]
  /\ handled' = {}
  /\ UNCHANGED listed
=============================================================================
