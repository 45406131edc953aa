------------------------------- MODULE Stores --------------------------------
(***************************************************************************)
(* The files of a node that its handlers load, change and write back: the  *)
(* usage of a tenant, its secrets, the memory of an agent, traces, the     *)
(* policy of a tenant, the registries of models and of agents, groups, the *)
(* runtimes that packages install, and a run of a workflow with its        *)
(* processes; and its two calculations, the next time of a cron job and    *)
(* the advice on a workflow.  They share nothing, so each behaviour is     *)
(* about one of them, `part`, which Init chooses.                          *)
(***************************************************************************)
EXTENDS Naturals, FiniteSets, Sequences

CONSTANTS
  Tasks,
  MaxOps,     \* requests on usage, traces and policy,
  MaxEdits,   \* on each of the other files,
  MaxEvents,  \* and what others do to the agents of a workflow
  MaxCrashes, \* crashes, or steps that fail,
  MaxUnsaved, \* and the same in the run of a workflow
  Metered, Tenants, Names,                  \* usage and secrets
  Keys, TTLs, Forever, MaxTime,             \* memory
  Traces, Spans, TraceOf, Tokens,
  Governed, TenantPolicies, Region, MaxAgents,                      \* policy
  Models, Records, Presets, Requests, ModelPolicies, Latencies, Capabilities, NoModel, Unlimited,
  Packages, NameOf, VersionOf, Contents, Manifest, Current,         \* registry of agents
  Runtimes, Paths,                          \* packages to install, and the node's PATHs
  Slots, Members,                           \* groups
  FlowAgents, Definitions,                  \* workflows
  Expressions, Starts,                      \* cron
  Workflows, StrictPolicies, Classified, Here                       \* advice

VARIABLES
  part, ops, uncrashed,
  usage, meter, listed, billed, tangled, overtaken, drifted,
  key, secrets, user, keys, promised, keyRaced, raced,
  store, client, now, kept, mixed,
  trace, index, poster, reported, finals, joined, late,
  policy, cut, running, request, before, bypassed, misread,
  registry, editor, known, blurred,
  agents, whole, dirs, clerk, hurt, was,
  group, lists, alive, worker, born, crossed, muddled, later,
  def, file, verdict, status, recorded, engine, wave, outcome, pidFile, live, started,
  unsaved, served, touched, swept,
  asked, named, ts, result,
  own, path, runtimes, staging, registrant, registered, spoilt, abandoned,
  given, phase, queue, order, walked, level, remaining, chain, parent, advice

usageVars == <<usage, meter, listed, billed, tangled, overtaken, drifted>>
secretVars == <<key, secrets, user, keys, promised, keyRaced, raced>>
memoryVars == <<store, client, now, kept, mixed>>
traceVars == <<trace, index, poster, reported, finals, joined, late>>
policyVars == <<policy, cut, running, request, before, bypassed, misread>>
routerVars == <<registry, editor, known, blurred>>
agentVars == <<agents, whole, dirs, clerk, hurt, was>>
installVars == <<own, path, runtimes, staging, registrant, registered, spoilt, abandoned>>
groupVars == <<group, lists, alive, worker, born, crossed, muddled, later>>
flowVars == <<def, file, verdict, status, recorded, engine, wave, outcome, pidFile, live, started,
              unsaved, served, touched, swept>>
cronVars == <<asked, named, ts, result>>
adviceVars == <<given, phase, queue, order, walked, level, remaining, chain, parent, advice>>
vars == <<part, ops, uncrashed, usageVars, secretVars, memoryVars, traceVars, policyVars,
          routerVars, agentVars, installVars, groupVars, flowVars, cronVars, adviceVars>>
Usage == INSTANCE UsageMeter WITH Agents <- Metered

Secrets == INSTANCE SecretStore WITH MaxOps <- MaxEdits

Memory == INSTANCE MemoryStore WITH MaxOps <- MaxEdits

Trace == INSTANCE TraceLog

Policy == INSTANCE PolicyEngine WITH Agents <- Governed, Policies <- TenantPolicies

Router == INSTANCE ModelRouter WITH MaxOps <- MaxEdits

Registry == INSTANCE AgentRegistry WITH
  registry <- agents, worker <- clerk, failures <- uncrashed,
  MaxOps <- MaxEdits, MaxFailures <- MaxCrashes

Install == INSTANCE RuntimeInstall WITH
  cut <- spoilt, local <- runtimes, failures <- uncrashed, Packages <- Runtimes,
  MaxOps <- MaxEdits, MaxFailures <- MaxCrashes

Groups == INSTANCE AgentGroups WITH MaxOps <- MaxEdits

Flow == INSTANCE WorkflowOnNode WITH
  pc <- engine, result <- outcome, born <- started, failures <- unsaved,
  Agents <- FlowAgents, MaxOps <- MaxEvents, MaxFailures <- MaxUnsaved

Cron == INSTANCE CronSearch

Arch == INSTANCE ArchSelector WITH Policies <- StrictPolicies

ASSUME StoresAssumption ==
  /\ {MaxOps, MaxEdits, MaxEvents, MaxCrashes, MaxUnsaved, MaxAgents, MaxTime} \subseteq Nat
  /\ IsFiniteSet(Tasks) /\ IsFiniteSet(Governed)
  /\ Presets \subseteq {p \in Seq(Router!Record) : Router!IsInjective([i \in DOMAIN p |-> p[i].id])}
  /\ Records \subseteq Router!Record /\ Latencies \subseteq Nat
  /\ IsFiniteSet(Traces) /\ IsFiniteSet(Spans) /\ TraceOf \in [Spans -> Traces] /\ Tokens \subseteq Nat
  /\ TTLs \subseteq Nat /\ TenantPolicies \subseteq Policy!Policy
  /\ \A p \in Packages : Manifest \in Contents[p] /\ VersionOf[p] # Current
  /\ Members \subseteq Seq(Slots)
  /\ \A d \in Definitions : DOMAIN d \subseteq Nat /\ \A i \in DOMAIN d : d[i].agent \in FlowAgents
  /\ Runtimes \subseteq Install!Package /\ \A pair \in Paths : "sh" \in pair[1] \cap pair[2]
  /\ \A w \in Workflows : w # <<>> /\ w \in Seq({w[i] : i \in DOMAIN w})
  /\ Classified \subseteq [tools : Nat, branches : Nat, tolerance : Nat, strict : BOOLEAN]

-----------------------------------------------------------------------------
Init ==
  /\ part \in {"usage", "secrets", "memory", "traces", "policy", "models", "agents", "groups",
               "installs", "flows", "cron", "advice"}
  /\ part # "policy" => policy = {}
  /\ part # "models" => registry = CHOOSE r \in Presets : TRUE
  /\ part # "groups" => group = {}
  /\ part # "installs" => own = (CHOOSE p \in Paths : TRUE)[1] /\ path = (CHOOSE p \in Paths : TRUE)[2]
  /\ part # "flows" => def = CHOOSE d \in Definitions : TRUE
  /\ part # "cron" => asked = [expression |-> CHOOSE e \in Expressions : TRUE,
                              after |-> CHOOSE t \in Starts : TRUE]
  /\ part # "advice" => given = [steps |-> <<>>, policy |-> CHOOSE p \in StrictPolicies : TRUE,
                                quick |-> CHOOSE q \in Classified : TRUE]
  /\ Usage!UInit /\ Secrets!SInit /\ Memory!MInit /\ Trace!TInit /\ Policy!PInit
  /\ Router!RInit /\ Registry!GInit /\ Install!IInit /\ Groups!NInit /\ Flow!WInit /\ Cron!CInit /\ Arch!AInit

Next ==
  /\ UNCHANGED part
  /\ \/ part = "usage" /\ Usage!UNext
        /\ UNCHANGED <<secretVars, memoryVars, traceVars, policyVars, routerVars,
                       agentVars, installVars, groupVars, flowVars, cronVars, adviceVars>>
     \/ part = "secrets" /\ Secrets!SNext
        /\ UNCHANGED <<usageVars, memoryVars, traceVars, policyVars, routerVars,
                       agentVars, installVars, groupVars, flowVars, cronVars, adviceVars>>
     \/ part = "memory" /\ Memory!MNext
        /\ UNCHANGED <<usageVars, secretVars, traceVars, policyVars, routerVars,
                       agentVars, installVars, groupVars, flowVars, cronVars, adviceVars>>
     \/ part = "traces" /\ Trace!TNext
        /\ UNCHANGED <<usageVars, secretVars, memoryVars, policyVars, routerVars,
                       agentVars, installVars, groupVars, flowVars, cronVars, adviceVars>>
     \/ part = "policy" /\ Policy!PNext
        /\ UNCHANGED <<usageVars, secretVars, memoryVars, traceVars, routerVars,
                       agentVars, installVars, groupVars, flowVars, cronVars, adviceVars>>
     \/ part = "models" /\ Router!RNext
        /\ UNCHANGED <<usageVars, secretVars, memoryVars, traceVars, policyVars,
                       agentVars, installVars, groupVars, flowVars, cronVars, adviceVars>>
     \/ part = "agents" /\ Registry!GNext
        /\ UNCHANGED <<usageVars, secretVars, memoryVars, traceVars, policyVars,
                       routerVars, installVars, groupVars, flowVars, cronVars, adviceVars>>
     \/ part = "installs" /\ Install!INext
        /\ UNCHANGED <<usageVars, secretVars, memoryVars, traceVars, policyVars,
                       routerVars, agentVars, groupVars, flowVars, cronVars, adviceVars>>
     \/ part = "groups" /\ Groups!NNext
        /\ UNCHANGED <<usageVars, secretVars, memoryVars, traceVars, policyVars,
                       routerVars, agentVars, installVars, flowVars, cronVars, adviceVars>>
     \/ part = "flows" /\ Flow!WNext
        /\ UNCHANGED <<usageVars, secretVars, memoryVars, traceVars, policyVars, routerVars,
                       agentVars, installVars, groupVars, cronVars, adviceVars, uncrashed>>
     \/ part = "cron" /\ Cron!CNext
        /\ UNCHANGED <<usageVars, secretVars, memoryVars, traceVars, policyVars,
                       routerVars, agentVars, installVars, groupVars, flowVars, adviceVars, ops, uncrashed>>
     \/ part = "advice" /\ Arch!ANext
        /\ UNCHANGED <<usageVars, secretVars, memoryVars, traceVars, policyVars,
                       routerVars, agentVars, installVars, groupVars, flowVars, cronVars, ops, uncrashed>>

Spec == Init /\ [][Next]_vars

-----------------------------------------------------------------------------
(* Each variable has its type.                                             *)
TypeOK ==
  CASE part = "usage" -> Usage!UTypeOK
    [] part = "secrets" -> Secrets!STypeOK
    [] part = "memory" -> Memory!MTypeOK
    [] part = "traces" -> Trace!TTypeOK
    [] part = "policy" -> Policy!PTypeOK
    [] part = "models" -> Router!RTypeOK
    [] part = "agents" -> Registry!GTypeOK
    [] part = "installs" -> Install!ITypeOK
    [] part = "groups" -> Groups!NTypeOK
    [] part = "flows" -> Flow!WTypeOK
    [] part = "cron" -> Cron!CTypeOK
    [] part = "advice" -> Arch!ATypeOK

(* Usage files never charge for more than happened: see UsageMeter.        *)
MeterHonest == part = "usage" => Usage!MeterHonest

(* Secrets that were accepted are given to agents: see SecretStore.        *)
SecretsKept == part = "secrets" => Secrets!SecretsKept

(* What an agent was told to remember is what it reads: see MemoryStore.   *)
MemoryKept == part = "memory" => Memory!MemoryKept

(* Tenants are charged what their spans report: see TraceLog.              *)
TokensBilled == part = "traces" => Trace!TokensBilled

(* A policy in the file is kept by the requests after it: see PolicyEngine. *)
PolicyHeld == part = "policy" => Policy!PolicyHeld

(* Requests are given models that can serve them: see ModelRouter.         *)
RoutedWell == part = "models" => Router!RoutedWell

(* The registry of agents tells what code there is: see AgentRegistry.     *)
RegistryTruthful == part = "agents" => Registry!RegistryTruthful

(* Packages that were accepted can be started: see RuntimeInstall.         *)
PackagesRun == part = "installs" => Install!PackagesRun

(* The status of a group is what its agents do: see AgentGroups.           *)
GroupTruth == part = "groups" => Groups!GroupTruth

(* A completed run has started what it names: see WorkflowOnNode.          *)
RunServed == part = "flows" => Flow!RunServed

(* A cron job runs at the next time it names: see CronSearch.              *)
CronExact == part = "cron" => Cron!CronExact

(* The advice on a workflow can be followed: see ArchSelector.             *)
AdviceSound == part = "advice" => Arch!AdviceSound
=============================================================================
