---------------------------- MODULE ArchSelector ----------------------------
(***************************************************************************)
(* The architecture that a node advises for a workflow: its steps are      *)
(* sorted into levels that can run together, the longest chain is found,   *)
(* the tenant's policy is asked about each agent, and points decide.       *)
(*                                                                         *)
(* Points are counted in tenths, which holds each sum exactly; where two   *)
(* sums are equal, the code's floating point may order them.  Steps are    *)
(* numbers, an id is used once, and workflows have at least one step.      *)
(***************************************************************************)
EXTENDS Integers, Sequences, FiniteSets, SequencesExt

CONSTANTS
  Workflows,  \* sequences of steps, each an agent, what it depends on,
              \* whether it is optional, and a time limit or 0
  Policies,   \* of the tenant: as PolicyEngine's, and what makes it strict
  Classified, \* requests for a quick classification
  Here        \* the node's region

VARIABLES
  given,     \* the request: steps and policy, or a quick classification
  phase,     \* "sort", "chain", "advise", "classify" or "done"
  queue,     \* steps whose dependencies are all sorted
  order,     \* the steps sorted so far
  walked,    \* how many of them the second loop has seen
  level, remaining,  \* of each step: its level, and dependencies not sorted yet
  chain, parent,     \* the longest chain that ends at a step, and its last link
  advice     \* the answer

archVars == <<given, phase, queue, order, walked, level, remaining, chain, parent, advice>>

Steps == DOMAIN given.steps
Known(s) == given.steps[s].deps \cap Steps
Successors(s) == {t \in Steps : s \in Known(t)}
Most(S) == CHOOSE n \in S : \A o \in S : n >= o
Ascending(S) == [k \in 1..Cardinality(S) |-> CHOOSE s \in S : Cardinality({t \in S : t < s}) = k - 1]

(* Mutant of InDegree: dependencies that do not exist are counted.         *)
InDegree_All(s) == Cardinality(given.steps[s].deps)

InDegree(s) == Cardinality(Known(s))

AInit ==
  /\ given \in [steps : Workflows, policy : Policies]
               \cup [steps : {<<>>}, policy : Policies, quick : Classified]
  /\ phase = IF given.steps = <<>> THEN "classify" ELSE "sort"
  /\ remaining = [s \in Steps |-> InDegree(s)]
  /\ queue = Ascending({s \in Steps : InDegree(s) = 0})
  /\ order = <<>> /\ walked = 0 /\ advice = {}
  /\ level = [s \in Steps |-> 0]
  /\ chain = [s \in Steps |-> 1] /\ parent = [s \in Steps |-> 0]

-----------------------------------------------------------------------------
(* The steps for which s is the last dependency.                           *)
Freed(s) == {t \in Successors(s) : remaining[t] = 1}

(* analyse_dag, a turn of its first loop ...                               *)
Sort ==
  /\ phase = "sort"
  /\ IF queue = <<>> THEN phase' = "chain" /\ UNCHANGED <<queue, order, level, remaining>>
     ELSE LET s == Head(queue) IN
          /\ order' = Append(order, s)
          /\ level' = [t \in Steps |-> IF t \in Successors(s)
                                       THEN Most({level[t], level[s] + 1}) ELSE level[t]]
          /\ remaining' = [t \in Steps |-> IF t \in Successors(s)
                                           THEN remaining[t] - 1 ELSE remaining[t]]
          /\ queue' = Tail(queue) \o Ascending(Freed(s))
          /\ phase' = phase
  /\ UNCHANGED <<given, walked, chain, parent, advice>>

(* ... and of its second, over the steps in their order.                   *)
Chain ==
  /\ phase = "chain"
  /\ IF walked = Len(order) THEN phase' = "advise" /\ UNCHANGED <<walked, chain, parent>>
     ELSE LET s == order[walked + 1]
              longer == {t \in Successors(s) : chain[s] + 1 > chain[t]}
          IN  /\ chain' = [t \in Steps |-> IF t \in longer THEN chain[s] + 1 ELSE chain[t]]
              /\ parent' = [t \in Steps |-> IF t \in longer THEN s ELSE parent[t]]
              /\ walked' = walked + 1
              /\ phase' = phase
  /\ UNCHANGED <<given, queue, order, level, remaining, advice>>

(* The measures of the graph.                                              *)
Levels == {level[s] : s \in Steps}
Group(n) == {s \in Steps : level[s] = n}
Width == Most({Cardinality(Group(n)) : n \in 0..Most(Levels)})
End == Most({s \in Steps : \A t \in Steps : chain[s] >= chain[t]})
CriticalPath ==
  LET path[s \in Steps] == IF parent[s] = 0 THEN <<s>> ELSE Append(path[parent[s]], s)
  IN  path[End]
AgentsOf == {given.steps[s].agent : s \in Steps}
Optional == {s \in Steps : given.steps[s].optional}
Timed == {s \in Steps : given.steps[s].timeout > 0}
Branching == \E s \in Steps : Cardinality(Successors(s)) >= 2
FanIn == \E s \in Steps : Cardinality(Known(s)) >= 2
Tolerant == 10 * Cardinality(Optional) >= 3 * Len(given.steps)

(* check_governance: PolicyEngine's rules with no instance running, and    *)
(* the strictness of the policy in twentieths.                             *)
Denied ==
  LET p == given.policy IN
  {a \in AgentsOf : \/ a \in p.blocked
                    \/ \E allowed \in p.allowed : a \notin allowed
                    \/ \E r \in p.residency : r \notin {Here, "any"}
                    \/ 0 \in p.max}
Strictness ==
  LET p == given.policy IN
  (IF p.audit THEN 5 ELSE 0) + (IF p.residency # {} THEN 5 ELSE 0)
    + (IF p.allowed # {} THEN 4 ELSE 0) + (IF p.max # {} THEN 3 ELSE 0)
    + (IF p.tokens THEN 3 ELSE 0)

-----------------------------------------------------------------------------
Points(condition, tenths) == IF condition THEN tenths ELSE 0
Capped(points) == IF points > 1000 THEN 1000 ELSE points

(* score.                                                                  *)
Deterministic ==
  LET one == Cardinality(AgentsOf) = 1 IN
  Capped(Points(Len(given.steps) = 1, 450) + Points(one, 150) + Points(Width = 1, 150)
    + Points(Optional = {}, 100) + Points(Timed # {}, 80) + 6 * Strictness
    + Points(Denied # {}, 200))

SingleAgent ==
  LET one == Cardinality(AgentsOf) = 1
      points == Points(one, 100) + Points(Width = 1, 50) + Points(Timed # {}, 40)
        + Points(Len(given.steps) \in 2..5, 250) + Points(one, 200) + Points(Width <= 2, 150)
        + Points(~Tolerant, 100) + Points(Len(CriticalPath) <= 4, 80)
        + Points(Branching /\ one, 120)
  IN  Capped(IF Denied = {} THEN points ELSE points \div 2)

MultiAgent ==
  LET agents == Cardinality(AgentsOf)
      points == Points(Len(given.steps) >= 3, 150) + Points(Len(given.steps) >= 5, 100)
        + Points(agents >= 2, 300) + Points(agents >= 4, 150)
        + Points(Width >= 2, 200) + Points(Width >= 4, 100) + Points(Tolerant, 120)
        + Points(FanIn, 80) + Points(Branching, 50)
        + Points(Len(CriticalPath) >= 3 /\ Width >= 2, 100)
  IN  Capped(IF Denied = {} THEN points ELSE points \div 5)

(* select: equal points go to the simpler architecture.                    *)
Winner(det, single, multi) ==
  IF det >= single /\ det >= multi THEN "deterministic"
  ELSE IF single >= multi THEN "single_agent" ELSE "multi_agent"

(* build_config.                                                           *)
SumOf(numbers) == FoldSeq(LAMBDA n, sum : n + sum, 0, numbers)
Config(arch) ==
  [architecture |-> arch,
   max_concurrency |-> IF arch # "multi_agent" THEN 1 ELSE IF Width < 8 THEN Width ELSE 8,
   fail_fast |-> arch = "deterministic" \/ (arch = "single_agent" /\ Optional = {}),
   retry_eligible |-> Optional \cup (Steps \ ToSet(CriticalPath)),
   skip |-> {s \in Optional : given.steps[s].agent \in Denied},
   groups |-> [n \in 1..Most(Levels) + 1 |-> Group(n - 1)],
   critical_path |-> CriticalPath,
   total_timeout |-> SumOf([i \in DOMAIN CriticalPath |-> given.steps[CriticalPath[i]].timeout])]

Advise ==
  /\ phase = "advise"
  /\ advice' = {Config(Winner(Deterministic, SingleAgent, MultiAgent))}
  /\ phase' = "done"
  /\ UNCHANGED <<given, queue, order, walked, level, remaining, chain, parent>>

-----------------------------------------------------------------------------
(* quick_classify, of a request without a graph.                           *)
Quick(q) ==
  LET det == Points(q.tools <= 1, 40) + Points(q.branches = 0, 20)
               + Points(q.tolerance = 0, 20) + Points(q.strict, 15)
      single == Points(q.tools = 1, 10) + Points(q.tools = 2, 30) + Points(q.tools >= 3, 15)
               + Points(q.branches = 0, 10) + Points(q.branches = 1, 25)
               + Points(q.tolerance = 1, 15) + Points(q.tolerance = 2, 8)
      multi == Points(q.tools >= 3, 30) + Points(q.tools >= 5, 20)
               + Points(q.branches >= 2, 35) + Points(q.branches >= 4, 15)
               + Points(q.tolerance = 2, 12) + Points(q.tolerance >= 3, 25)
      least(n) == IF n > 100 THEN 100 ELSE n
  IN  Winner(least(det), least(single), least(multi))

Classify ==
  /\ phase = "classify"
  /\ advice' = {[architecture |-> Quick(given.quick)]}
  /\ phase' = "done"
  /\ UNCHANGED <<given, queue, order, walked, level, remaining, chain, parent>>

ANext == Sort \/ Chain \/ Advise \/ Classify

ASpec == AInit /\ [][ANext]_archVars

-----------------------------------------------------------------------------
(* The reference: all chains of dependencies, and the steps that wait for  *)
(* a cycle.                                                                *)
Chains ==
  {c \in UNION {[1..n -> Steps] : n \in 1..Len(given.steps)} :
     /\ \A i, j \in DOMAIN c : i # j => c[i] # c[j]
     /\ \A i \in 2..Len(c) : c[i - 1] \in Known(c[i])}
ChainsTo(s) == {c \in Chains : c[Len(c)] = s}
Stuck ==
  LET cyclic == {c[1] : c \in {d \in Chains : d[Len(d)] \in Known(d[1])}} IN
  {s \in Steps : \E c \in ChainsTo(s) : c[1] \in cyclic}

ATypeOK ==
  /\ phase \in {"sort", "chain", "advise", "classify", "done"}
  /\ ToSet(queue) \cup ToSet(order) \subseteq Steps
  /\ level \in [Steps -> 0..Len(given.steps)] /\ remaining \in [Steps -> Nat]
  /\ chain \in [Steps -> 1..Len(given.steps) + 1] /\ parent \in [Steps -> {0} \cup Steps]
  /\ Cardinality(advice) <= 1

(* The plan of a workflow can be executed: without a cycle, the groups     *)
(* hold each step once, one after every group of its dependencies and as   *)
(* early as that allows, so that no step of a group waits for another of   *)
(* it; the critical path is a chain of the graph, none is longer, and the  *)
(* groups are as many as its steps.  With cycles, exactly the steps behind *)
(* one are not sorted.                                                     *)
PlanSound(a) ==
  /\ ToSet(order) = Steps \ Stuck
  /\ Stuck = {} =>
       /\ \A s \in Steps : level[s] = Most({Len(c) : c \in ChainsTo(s)}) - 1
       /\ a.critical_path \in Chains
       /\ Len(a.critical_path) = Len(a.groups)
       /\ \A c \in Chains : Len(c) <= Len(a.critical_path)

(* The plan is sound, a single step is always deterministic, and a         *)
(* workflow with an agent that the tenant may not run is not handed to     *)
(* several agents, unless it has optional steps, no time limits, several   *)
(* agents and parallel steps at once.  A quick classification never gets   *)
(* less deterministic when governance gets strict, and tolerance of errors *)
(* alone never makes it multi-agent.                                       *)
AdviceSound ==
  \A a \in IF phase = "done" THEN advice ELSE {} :
    IF given.steps = <<>>
    THEN /\ a.architecture = "deterministic" =>
              Quick([given.quick EXCEPT !.strict = TRUE]) = "deterministic"
         /\ a.architecture = "multi_agent" =>
              given.quick.tools >= 3 \/ given.quick.branches >= 2
    ELSE /\ PlanSound(a)
         /\ Len(given.steps) = 1 => a.architecture = "deterministic"
         /\ Denied # {} /\ a.architecture = "multi_agent" =>
              /\ Optional # {} /\ Timed = {}
              /\ Cardinality(AgentsOf) >= 2 /\ a.max_concurrency >= 2
=============================================================================
