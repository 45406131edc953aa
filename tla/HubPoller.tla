----------------------------- MODULE HubPoller ------------------------------
(***************************************************************************)
(* The hub: a poller that every 10 s asks each node it knows for its load, *)
(* the alarm it derives from the answers, and `apollo-hub add`, a process  *)
(* of its own that changes the same nodes file.  The hub reads the file    *)
(* once, when it starts, and from then on writes what it holds in memory;  *)
(* the command loads, appends and writes.  fs::write truncates and then    *)
(* writes: in between the file is empty, and two writers that overlap can  *)
(* leave the tail of one list behind the other.  A file that does not      *)
(* parse counts as one that lists nothing.                                 *)
(*                                                                         *)
(* A poll makes at most two requests of at most 3 s each, so the polls of  *)
(* a turn are over when the next begins.  The catalog is not modelled.     *)
(***************************************************************************)
EXTENDS Naturals, FiniteSets

CONSTANTS
  Nodes,       \* addresses of nodes
  Capacity,    \* the most that a node is ever set up for, --max-agents
  Rooms,       \* what nodes may be set up for at first
  Adders,      \* `apollo-hub add` commands that may run at the same time
  Threshold,   \* --scale-threshold, in percent
  Failures,    \* failure_count from which a node is polled less often: 5
  Period,      \* how much less often: 6
  MaxChanges, MaxCrashes   \* bounds of the model

ASSUME HubAssumption ==
  /\ IsFiniteSet(Nodes) /\ Nodes # {}
  /\ {Capacity, Failures, Period} \subseteq Nat \ {0} /\ Threshold \in 1..100
  /\ Rooms \subseteq 0..Capacity
  /\ {MaxChanges, MaxCrashes} \subseteq Nat

VARIABLES
  hub,       \* "up" or "down"
  file,      \* the nodes file: a status for each node it lists
  garbled,   \* the file has text in it and does not parse
  mem,       \* HubState.nodes
  tick,      \* the poller's counter, of which only tick % Period is used
  checking,  \* the poller has spawned the polls of this turn and not yet
             \* looked at the load of the fleet
  fired,     \* HubState.scale_fired
  poll,      \* the task that polls a node
  adder,     \* the commands
  answers,   \* what a node does with a request
  load,      \* agents running on each node
  room,      \* max_agents of each node: another with every start of it
  safe,      \* history: nodes listed at first, or added while nothing else ran
  wiped,     \* history: a list was cut short or found unreadable
  webhooks,  \* history: alarms sent
  eased,     \* history: times the load of a node fell or its max_agents rose
  changes, crashes

disk == <<file, garbled>>
poller == <<tick, checking, fired, webhooks>>
world == <<answers, load, room, eased, changes>>
vars == <<hub, disk, mem, poller, poll, adder, world, safe, wiped, crashes>>

NodeStatus ==
  [online: BOOLEAN, active: 0..Capacity, max: 0..Capacity, failures: 0..Failures]
NoStatus == [online |-> FALSE, active |-> 0, max |-> 0, failures |-> 0]
Lists == UNION {[ns -> NodeStatus] : ns \in SUBSET Nodes}
Empty == [n \in {} |-> NoStatus]
Polls == [pc: {"idle", "ask", "save", "write"}, status: NodeStatus, list: Lists]
Adds == [pc: {"idle", "save", "write"}, list: Lists, node: SUBSET Nodes, alone: BOOLEAN]

IdlePoll == [pc |-> "idle", status |-> NoStatus, list |-> Empty]
IdleAdd == [pc |-> "idle", list |-> Empty, node |-> {}, alone |-> TRUE]

Parsed == IF garbled THEN Empty ELSE file

(* A sum over the fleet counts the places on its nodes, each node's from 1. *)
Places(field) == {p \in (DOMAIN mem) \X (1..Capacity) : p[2] <= mem[p[1]][field]}
Total(field) == Cardinality(Places(field))

Writing == \/ \E n \in Nodes : poll[n].pc = "write"
           \/ \E a \in Adders : adder[a].pc = "write"

-----------------------------------------------------------------------------
Init ==
  /\ hub = "down" /\ mem = Empty
  /\ \E known \in SUBSET Nodes :
       /\ file = [n \in known |-> NoStatus]
       /\ safe = known
  /\ garbled = FALSE
  /\ tick = 0 /\ checking = FALSE /\ fired = FALSE /\ webhooks = 0
  /\ poll = [n \in Nodes |-> IdlePoll]
  /\ adder = [a \in Adders |-> IdleAdd]
  /\ answers \in [Nodes -> {"metrics", "error"}]
  /\ load = [n \in Nodes |-> 0] /\ room \in [Nodes -> Rooms]
  /\ eased = 0 /\ changes = 0
  /\ wiped = FALSE /\ crashes = 0

(* save_nodes, by whoever writes: open the file, then write the list.      *)
Truncate ==
  /\ file' = Empty
  /\ garbled' = FALSE

WriteList(list) ==
  /\ file' = list
  /\ garbled' \in IF file = Empty THEN {FALSE} ELSE BOOLEAN

-----------------------------------------------------------------------------
(* apollo-hub start.                                                       *)
Start ==
  /\ hub = "down"
  /\ hub' = "up"
  /\ mem' = Parsed
  /\ tick' = 0 /\ checking' = FALSE /\ fired' = FALSE
  /\ wiped' = (wiped \/ ~safe \subseteq DOMAIN Parsed)
  /\ adder' = [a \in Adders |->
       IF adder[a].pc = "idle" THEN adder[a] ELSE [adder[a] EXCEPT !.alone = FALSE]]
  /\ UNCHANGED <<disk, webhooks, poll, world, safe, crashes>>

(* The hub is killed, or leaves two seconds after a ctrl-c: its tasks end  *)
(* where they are.                                                         *)
Crash ==
  /\ hub = "up" /\ crashes < MaxCrashes
  /\ crashes' = crashes + 1
  /\ hub' = "down" /\ mem' = Empty
  /\ checking' = FALSE
  /\ poll' = [n \in Nodes |-> IdlePoll]
  /\ wiped' = (wiped \/ \E n \in Nodes : poll[n].pc = "write")
  /\ UNCHANGED <<disk, tick, fired, webhooks, adder, world, safe>>

(* Mutant of Polled: a node that keeps failing is never asked again.       *)
Polled_Never(n, t) == mem[n].failures < Failures

(* run_poller: a node that keeps failing is left out of most turns.        *)
Polled(n, t) == mem[n].failures < Failures \/ t % Period = 0

Tick ==
  /\ hub = "up" /\ ~checking
  /\ \A n \in Nodes : poll[n].pc = "idle"
  /\ LET t == (tick + 1) % Period IN
       /\ tick' = t
       /\ poll' = [n \in Nodes |->
            IF n \in DOMAIN mem /\ Polled(n, t)
            THEN [pc |-> "ask", status |-> mem[n], list |-> Empty] ELSE IdlePoll]
  /\ checking' = TRUE
  /\ UNCHANGED <<hub, disk, mem, fired, webhooks, adder, world, safe, wiped, crashes>>

(* Mutant of Relaxed: re-armed at the next turn, whatever the load.        *)
Relaxed_Always == TRUE

(* The auto-scale check, over what the memory holds at that moment.        *)
Alarming == Total("active") * 100 >= Threshold * Total("max")
Relaxed == Total("active") * 1000 < Threshold * 7 * Total("max")

Check ==
  /\ hub = "up" /\ checking
  /\ checking' = FALSE
  /\ IF Total("max") = 0 THEN UNCHANGED <<fired, webhooks>>
     ELSE IF Alarming /\ ~fired THEN fired' = TRUE /\ webhooks' = webhooks + 1
     ELSE fired' = (fired /\ ~Relaxed) /\ UNCHANGED webhooks
  /\ UNCHANGED <<hub, disk, mem, tick, poll, adder, world, safe, wiped, crashes>>

(* Mutant of Answered: failures counted past the point that matters.       *)
Answered_Uncapped(n) ==
  IF answers[n] = "metrics"
  THEN [online |-> TRUE, active |-> load[n], max |-> room[n], failures |-> 0]
  ELSE [poll[n].status EXCEPT !.online = FALSE, !.failures = @ + 1]

(* What one answer makes of the status the poll began with.  failure_count *)
(* is a u32 of which only the comparison with 5 matters: it stops there.   *)
Answered(n) ==
  LET s == poll[n].status IN
  CASE answers[n] = "metrics" ->
         [online |-> TRUE, active |-> load[n], max |-> room[n], failures |-> 0]
    [] answers[n] = "nonsense" -> s
    [] answers[n] = "error" ->
         [s EXCEPT !.online = FALSE,
                   !.failures = IF s.failures < Failures THEN @ + 1 ELSE @]

(* Mutant of Merge: the answer replaces the list.                          *)
Merge_Alone(n) ==
  /\ poll[n].pc = "ask"
  /\ mem' = [x \in {n} |-> Answered(n)]
  /\ poll' = [poll EXCEPT ![n] = [IdlePoll EXCEPT !.pc = "save", !.list = mem']]
  /\ UNCHANGED <<hub, disk, poller, adder, world, safe, wiped, crashes>>

(* The answer arrives and is merged; the list to save is copied under the  *)
(* same lock.                                                              *)
Merge(n) ==
  /\ poll[n].pc = "ask"
  /\ mem' = IF n \in DOMAIN mem THEN [mem EXCEPT ![n] = Answered(n)] ELSE mem
  /\ poll' = [poll EXCEPT ![n] = [IdlePoll EXCEPT !.pc = "save", !.list = mem']]
  /\ UNCHANGED <<hub, disk, poller, adder, world, safe, wiped, crashes>>

SaveOpen(n) ==
  /\ poll[n].pc = "save"
  /\ Truncate
  /\ poll' = [poll EXCEPT ![n].pc = "write"]
  /\ UNCHANGED <<hub, mem, poller, adder, world, safe, wiped, crashes>>

SaveWrite(n) ==
  /\ poll[n].pc = "write"
  /\ WriteList(poll[n].list)
  /\ poll' = [poll EXCEPT ![n] = IdlePoll]
  /\ UNCHANGED <<hub, mem, poller, adder, world, safe, wiped, crashes>>

-----------------------------------------------------------------------------
(* apollo-hub add: a node that is listed already is left alone.            *)
AddLoad(a, n) ==
  /\ adder[a].pc = "idle"
  /\ n \notin DOMAIN Parsed
  /\ LET others == {b \in Adders \ {a} : adder[b].pc # "idle"} IN
     adder' = [b \in Adders |->
       IF b = a THEN [pc |-> "save", node |-> {n},
                      list |-> [x \in DOMAIN Parsed \cup {n} |->
                                  IF x = n THEN NoStatus ELSE file[x]],
                      alone |-> hub = "down" /\ others = {}]
       ELSE IF b \in others THEN [adder[b] EXCEPT !.alone = FALSE] ELSE adder[b]]
  /\ wiped' = (wiped \/ ~safe \subseteq DOMAIN Parsed)
  /\ UNCHANGED <<hub, disk, mem, poller, poll, world, safe, crashes>>

AddOpen(a) ==
  /\ adder[a].pc = "save"
  /\ Truncate
  /\ adder' = [adder EXCEPT ![a].pc = "write"]
  /\ UNCHANGED <<hub, mem, poller, poll, world, safe, wiped, crashes>>

AddWrite(a) ==
  /\ adder[a].pc = "write"
  /\ WriteList(adder[a].list)
  /\ safe' = IF adder[a].alone THEN safe \cup adder[a].node ELSE safe
  /\ adder' = [adder EXCEPT ![a] = IdleAdd]
  /\ UNCHANGED <<hub, mem, poller, poll, world, wiped, crashes>>

-----------------------------------------------------------------------------
(* The nodes: agents start and stop, a node is started again with room for *)
(* more or fewer, and it may stop answering, answer with an error, or with *)
(* something that is not its metrics.                                      *)
Change(n) ==
  /\ changes < MaxChanges
  /\ changes' = changes + 1
  /\ \/ /\ \E answer \in {"metrics", "nonsense", "error"} \ {answers[n]} :
             answers' = [answers EXCEPT ![n] = answer]
        /\ UNCHANGED <<load, room, eased>>
     \/ /\ \E agents \in 0..Capacity \ {load[n]} :
             /\ load' = [load EXCEPT ![n] = agents]
             /\ eased' = IF agents < load[n] THEN eased + 1 ELSE eased
        /\ UNCHANGED <<answers, room>>
     \/ /\ \E agents \in 0..Capacity \ {room[n]} :
             /\ room' = [room EXCEPT ![n] = agents]
             /\ eased' = IF agents > room[n] THEN eased + 1 ELSE eased
        /\ UNCHANGED <<answers, load>>
  /\ UNCHANGED <<hub, disk, mem, poller, poll, adder, safe, wiped, crashes>>

-----------------------------------------------------------------------------
Poll(n) == Merge(n) \/ SaveOpen(n) \/ SaveWrite(n)
Add(a) == AddOpen(a) \/ AddWrite(a)

Next ==
  \/ Start \/ Crash \/ Tick \/ Check
  \/ \E n \in Nodes : Poll(n) \/ Change(n)
  \/ \E a \in Adders : Add(a) \/ \E n \in Nodes : AddLoad(a, n)

(* tokio runs the poller and its tasks, and a command that has begun ends; *)
(* nothing obliges anyone to start the hub or to add a node.               *)
Fairness ==
  /\ WF_vars(Tick) /\ WF_vars(Check)
  /\ \A n \in Nodes : WF_vars(Poll(n))
  /\ \A a \in Adders : WF_vars(Add(a))

Spec == Init /\ [][Next]_vars /\ Fairness

-----------------------------------------------------------------------------
TypeOK ==
  /\ hub \in {"up", "down"}
  /\ {file, mem} \subseteq Lists
  /\ {garbled, checking, fired, wiped} \subseteq BOOLEAN
  /\ tick \in 0..Period - 1
  /\ poll \in [Nodes -> Polls] /\ adder \in [Adders -> Adds]
  /\ answers \in [Nodes -> {"metrics", "nonsense", "error"}]
  /\ {load, room} \subseteq [Nodes -> 0..Capacity]
  /\ safe \subseteq Nodes
  /\ {webhooks, eased} \subseteq Nat
  /\ changes \in 0..MaxChanges /\ crashes \in 0..MaxCrashes

(* A node that was listed at first, or added while neither the hub nor     *)
(* another command ran, is polled by every hub that runs and stays in the  *)
(* file whoever writes it, in whatever order; unless a writer died with    *)
(* the file open, or somebody read the file while it was cut or garbled.   *)
RegistrationKept ==
  ~wiped =>
    /\ hub = "up" => safe \subseteq DOMAIN mem
    /\ ~Writing => safe \subseteq DOMAIN file

(* The alarm does not flap.  Each one after the first needs a load that    *)
(* fell, a max_agents that rose, a node whose capacity was not counted     *)
(* yet, or a restart, which forgets that the alarm was sent and brings     *)
(* back what the file last had (run_poller, the auto-scale check).         *)
AlarmBound == webhooks <= (crashes + 1) * (Cardinality(Nodes) + 1) + eased

(* handle_nodes_best: what it offers, and what it should.                  *)
LeastLoaded(ns, agents) == {n \in ns : \A o \in ns : agents[n] <= agents[o]}

Best ==
  LeastLoaded({n \in DOMAIN mem : mem[n].online /\ mem[n].active < mem[n].max},
              [n \in DOMAIN mem |-> mem[n].active])

Serving == {n \in DOMAIN mem : answers[n] = "metrics" /\ load[n] < room[n]}

Settled == hub = "up" /\ \A n \in DOMAIN mem : answers[n] # "nonsense"

(* When the nodes have settled, /nodes/best comes to offer exactly a least *)
(* loaded one among the nodes that answer and have room, whatever was      *)
(* believed of them before: one that has failed long enough to be polled   *)
(* seldom is found again, and one that went silent is no longer offered.   *)
RoutingConverges == <>[]Settled => <>[](Best = LeastLoaded(Serving, load))
=============================================================================
