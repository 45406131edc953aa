---------------------------- MODULE PolicyEngine -----------------------------
(***************************************************************************)
(* One tenant's policy file, and the requests to run an agent that are     *)
(* checked against it.  A request reads the tenant's list of running       *)
(* agents, then the policy, and starts the agent much later; nothing is    *)
(* reserved in between.  A policy that cannot be read is one that allows   *)
(* everything.  Only handle_agents_run checks: blueprints, groups, jobs    *)
(* and workflows start what they name (Bypass).  What no code enforces     *)
(* (budgets, run times, tools) is left out.                                *)
(***************************************************************************)
EXTENDS Naturals, FiniteSets

CONSTANTS
  Agents, Tasks,
  Policies,   \* what may be put: see Policy
  Region,     \* of the node
  MaxAgents,  \* of the node
  MaxOps, MaxCrashes

VARIABLES
  policy,   \* the file: a set with the policy it holds, or empty
  cut,      \* tasks that have opened the file and not written it yet
  running,  \* agents with a running record in the list
  request,  \* what each task does
  ops, uncrashed,  \* bounds: requests so far, crashes left
  before,   \* history: agents running, or past their check, at the last put
  bypassed, \* history: agents started by someone who does not check
  misread   \* history: somebody found a file cut short

pvars == <<policy, cut, running, request, ops, uncrashed, before, bypassed, misread>>

NoLimit == MaxAgents + Cardinality(Agents)
Policy == [allowed: SUBSET Agents, blocked: SUBSET Agents,
           residency: {Region, "any", "elsewhere"}, max: 0..NoLimit]

(* TenantPolicy::default.                                                  *)
Permissive == [allowed |-> Agents, blocked |-> {}, residency |-> "any", max |-> NoLimit]

Free == [pc |-> "idle", agent |-> {}, put |-> {}]
Pending == UNION {request[k].agent : k \in {o \in Tasks : request[o].pc \in {"start", "list"}}}
Listing == {k \in Tasks : request[k].pc = "list"}

PInit ==
  /\ policy \in {{}} \cup {{p} : p \in Policies}
  /\ cut = {} /\ running = {}
  /\ request = [k \in Tasks |-> Free]
  /\ ops = 0 /\ uncrashed = MaxCrashes
  /\ before = {} /\ bypassed = {} /\ misread = FALSE

(* load_policy.                                                            *)
InForce == IF policy = {} THEN Permissive ELSE CHOOSE p \in policy : TRUE

(* Mutant of CheckRun: the limit is reached one agent too late.            *)
CheckRun_Late(p, a, count) ==
  /\ a \notin p.blocked /\ a \in p.allowed
  /\ p.residency \in {Region, "any"}
  /\ count <= p.max

(* check_run allows.                                                       *)
CheckRun(p, a, count) ==
  /\ a \notin p.blocked /\ a \in p.allowed
  /\ p.residency \in {Region, "any"}
  /\ count < p.max

-----------------------------------------------------------------------------
(* handle_agents_run up to the start.  The list or the policy may be found *)
(* while it is being rewritten: no agents, and no rules.                   *)
Check(k, a) ==
  /\ request[k].pc = "idle" /\ ops < MaxOps
  /\ ops' = ops + 1
  /\ \E count \in {Cardinality(running)} \cup (IF Listing = {} THEN {} ELSE {0}) :
       /\ CheckRun(InForce, a, count) /\ count < MaxAgents
       /\ misread' = (misread \/ cut # {} \/ count # Cardinality(running))
  /\ request' = [request EXCEPT ![k] = [Free EXCEPT !.pc = "start", !.agent = {a}]]
  /\ UNCHANGED <<policy, cut, running, uncrashed, before, bypassed>>

(* ProcessRuntime::start succeeds, or fails and nothing is listed.         *)
Start(k) ==
  /\ request[k].pc = "start"
  /\ \/ request' = [request EXCEPT ![k].pc = "list"]
     \/ request' = [request EXCEPT ![k] = Free]
  /\ UNCHANGED <<policy, cut, running, ops, uncrashed, before, bypassed, misread>>

(* save_instance.                                                          *)
List(k) ==
  /\ request[k].pc = "list"
  /\ running' = running \cup request[k].agent
  /\ request' = [request EXCEPT ![k] = Free]
  /\ UNCHANGED <<policy, cut, ops, uncrashed, before, bypassed, misread>>

Stop(a) ==
  /\ a \in running
  /\ running' = running \ {a}
  /\ before' = before \ ({a} \ Pending) /\ bypassed' = bypassed \ {a}
  /\ UNCHANGED <<policy, cut, request, ops, uncrashed, misread>>

Bypass(a) ==
  /\ ops < MaxOps /\ a \notin running
  /\ ops' = ops + 1
  /\ running' = running \cup {a}
  /\ bypassed' = bypassed \cup {a}
  /\ UNCHANGED <<policy, cut, request, uncrashed, before, misread>>

(* handle_policy_put: the file is cut, then written.                       *)
PutOpen(k, p) ==
  /\ request[k].pc = "idle" /\ ops < MaxOps
  /\ ops' = ops + 1
  /\ policy' = {} /\ cut' = cut \cup {k}
  /\ request' = [request EXCEPT ![k] = [Free EXCEPT !.pc = "put", !.put = {p}]]
  /\ UNCHANGED <<running, uncrashed, before, bypassed, misread>>

(* Two puts at once may leave a file that does not parse; what is written  *)
(* to a file that was removed meanwhile is gone.                           *)
PutWrite(k) ==
  /\ request[k].pc = "put"
  /\ IF request[k].put = {} THEN UNCHANGED <<policy, misread>>
     ELSE \/ policy' = request[k].put /\ UNCHANGED misread
          \/ policy # {} /\ policy' = {} /\ misread' = TRUE
  /\ cut' = cut \ {k}
  /\ before' = running \cup Pending
  /\ request' = [request EXCEPT ![k] = Free]
  /\ UNCHANGED <<running, ops, uncrashed, bypassed>>

(* handle_policy_delete.                                                   *)
DeletePolicy ==
  /\ ops < MaxOps /\ (policy # {} \/ cut # {})
  /\ ops' = ops + 1
  /\ policy' = {}
  /\ request' = [k \in Tasks |-> IF k \in cut THEN [request[k] EXCEPT !.put = {}] ELSE request[k]]
  /\ before' = running \cup Pending
  /\ UNCHANGED <<cut, running, uncrashed, bypassed, misread>>

(* The node is killed: a policy that was being put is none.                *)
PCrash ==
  /\ uncrashed > 0
  /\ uncrashed' = uncrashed - 1
  /\ misread' = (misread \/ cut # {} \/ Listing # {})
  /\ cut' = {} /\ request' = [k \in Tasks |-> Free]
  /\ UNCHANGED <<policy, running, ops, before, bypassed>>

PNext ==
  \/ \E k \in Tasks, a \in Agents : Check(k, a)
  \/ \E k \in Tasks : Start(k) \/ List(k) \/ PutWrite(k) \/ \E p \in Policies : PutOpen(k, p)
  \/ \E a \in Agents : Stop(a) \/ Bypass(a)
  \/ DeletePolicy \/ PCrash

PSpec == PInit /\ [][PNext]_pvars

-----------------------------------------------------------------------------
PTypeOK ==
  /\ Cardinality(policy) <= 1 /\ policy \subseteq Policies /\ Policies \subseteq Policy
  /\ cut \subseteq Tasks /\ {running, before, bypassed} \subseteq SUBSET Agents
  /\ ops \in 0..MaxOps /\ uncrashed \in 0..MaxCrashes /\ misread \in BOOLEAN

(* Who gets in.  Once a policy is in the file, no agent that it forbids    *)
(* comes to run through the API, except those that ran or had passed their *)
(* check when it was put; and however the requests interleave, those that  *)
(* get in exceed the tenant's limit, or the node's, by fewer than there    *)
(* are requests at once.  Both hold of requests that read whole files.     *)
PolicyHeld ==
  ~misread =>
    LET admitted == (running \cup Pending) \ (before \cup bypassed)
    IN  /\ \A a \in admitted : CheckRun(InForce, a, 0)
        /\ admitted # {} => \A limit \in {InForce.max, MaxAgents} :
             Cardinality(admitted) < limit + Cardinality(Tasks)
=============================================================================
