---------------------------- MODULE AgentRegistry ----------------------------
(***************************************************************************)
(* The agents registered on a node: a registry file, a directory of code   *)
(* for each agent, and a backup directory for each version that was ever   *)
(* replaced.  Registering, rolling back and removing an agent change all   *)
(* three, file by file, with no lock: the API's tasks and `apollo agent`   *)
(* commands may overlap, and each may die half way or meet an I/O error.   *)
(*                                                                         *)
(* A load of the registry and the first change of a directory after it are *)
(* one step.  Fetching, compatibility and the runtime's installation come  *)
(* before anything is changed and are left out.                            *)
(***************************************************************************)
EXTENDS Naturals, FiniteSets, Functions

CONSTANTS
  Packages,   \* what can be registered
  NameOf,     \* of each package, in its agent.yaml,
  VersionOf,  \* as is its version
  Contents,   \* the files of each package
  Manifest,   \* agent.yaml, one of them
  Current,    \* no version: the directory the agents are started from
  Tasks, MaxOps, MaxFailures

VARIABLES
  registry,  \* agents.json: for each agent its package and previous version
  whole,     \* whether that file parses
  dirs,      \* for each directory, whose package each file is of
  worker,    \* what each task does
  ops, failures,  \* bounds: requests so far, failures left
  hurt,      \* history: agents of whose changes two overlapped, or one failed
  was        \* history: what each agent's directory held between changes

gvars == <<registry, whole, dirs, worker, ops, failures, hurt, was>>

Agents == {NameOf[p] : p \in Packages}
Versions == {VersionOf[p] : p \in Packages}
Dir(n, v) == <<n, v>>
Empty == [f \in {} |-> 0]

Resting == [pc |-> "idle", op |-> "none", name |-> {}, package |-> {}, prev |-> {},
            records |-> Empty, to |-> {}, source |-> Empty, left |-> {}]
Active == {k \in Tasks : worker[k].pc # "idle"}
NamesOf(k) == worker[k].name

GInit ==
  /\ registry = Empty /\ whole = TRUE /\ dirs = Empty
  /\ worker = [k \in Tasks |-> Resting]
  /\ ops = 0 /\ failures = MaxFailures
  /\ hurt = {} /\ was = [n \in Agents |-> {}]

With(f, x, v) == [y \in DOMAIN f \cup {x} |-> IF y = x THEN v ELSE f[y]]
Without(f, x) == Restrict(f, DOMAIN f \ {x})

(* An operation on n begins: those it overlaps, and it, may be hurt.       *)
Begin(k, n, w) ==
  /\ worker[k].pc = "idle" /\ ops < MaxOps
  /\ whole       \* or the load is an error
  /\ ops' = ops + 1
  /\ worker' = [worker EXCEPT ![k] = [w EXCEPT !.name = {n}, !.records = registry]]
  /\ hurt' = IF Active = {} THEN hurt
             ELSE hurt \cup {n} \cup UNION {NamesOf(o) : o \in Active}
  /\ UNCHANGED <<registry, whole, failures, was>>

(* create_dir_all, before the files are copied.                            *)
Made(d) == IF d \in DOMAIN dirs THEN dirs ELSE With(dirs, d, Empty)

CopyPackage(p) ==
  [Resting EXCEPT !.pc = "copy", !.op = "register", !.package = {p},
     !.to = {Dir(NameOf[p], Current)}, !.source = [f \in Contents[p] |-> p], !.left = Contents[p]]

-----------------------------------------------------------------------------
(* register_agent_package: a version that is replaced for the first time   *)
(* is copied to a backup before the package is copied over it.             *)
Register(k, p) ==
  LET n == NameOf[p]
      known == n \in DOMAIN registry
      v == VersionOf[registry[n].spec]
      here == Dir(n, Current)
      w == [CopyPackage(p) EXCEPT !.prev = IF known THEN {v} ELSE {}]
  IN  \/ /\ known /\ here \in DOMAIN dirs /\ Dir(n, v) \notin DOMAIN dirs
         /\ Begin(k, n, [w EXCEPT !.pc = "backup", !.to = {Dir(n, v)},
                          !.source = dirs[here], !.left = DOMAIN dirs[here]])
         /\ dirs' = With(dirs, Dir(n, v), Empty)
      \/ /\ ~(known /\ here \in DOMAIN dirs /\ Dir(n, v) \notin DOMAIN dirs)
         /\ Begin(k, n, w)
         /\ dirs' = Made(here)

(* rollback_agent: the directory is removed, and the backup copied.        *)
Rollback(k, n) ==
  /\ n \in DOMAIN registry /\ Dir(n, Current) \in DOMAIN dirs
  /\ \E v \in registry[n].prev :
       /\ Dir(n, v) \in DOMAIN dirs
       /\ Begin(k, n, [Resting EXCEPT !.pc = "copy", !.op = "rollback", !.to = {Dir(n, Current)},
                         !.source = dirs[Dir(n, v)], !.left = DOMAIN dirs[Dir(n, v)]])
  /\ dirs' = With(dirs, Dir(n, Current), Empty)

(* remove_agent: the backups stay.                                         *)
Remove(k, n) ==
  /\ n \in DOMAIN registry
  /\ Begin(k, n, [Resting EXCEPT !.pc = "open", !.op = "remove"])
  /\ dirs' = Without(dirs, Dir(n, Current))

(* copy_dir_all, one file.  A directory that is removed meanwhile is an    *)
(* error, see Fail.                                                        *)
CopyFile(k) ==
  /\ worker[k].pc \in {"backup", "copy"}
  /\ \E f \in worker[k].left, d \in worker[k].to :
       /\ d \in DOMAIN dirs
       /\ dirs' = [dirs EXCEPT ![d] = With(@, f, worker[k].source[f])]
       /\ worker' = [worker EXCEPT ![k].left = @ \ {f}]
  /\ UNCHANGED <<registry, whole, ops, failures, hurt, was>>

BackedUp(k) ==
  /\ worker[k].pc = "backup" /\ worker[k].left = {}
  /\ \E p \in worker[k].package :
       /\ worker' = [worker EXCEPT ![k] = [CopyPackage(p) EXCEPT
            !.name = worker[k].name, !.prev = worker[k].prev, !.records = worker[k].records]]
       /\ dirs' = Made(Dir(NameOf[p], Current))
  /\ UNCHANGED <<registry, whole, ops, failures, hurt, was>>

(* Mutant of Recorded: the new version is recorded as the previous one.    *)
Recorded_New(k, n) ==
  LET w == worker[k] IN
  CASE w.op = "register" ->
         With(w.records, n, [spec |-> CHOOSE p \in w.package : TRUE,
                             prev |-> IF w.prev = {} THEN {} ELSE {VersionOf[p] : p \in w.package}])
    [] w.op = "rollback" ->
         With(w.records, n, [spec |-> dirs[Dir(n, Current)][Manifest], prev |-> {}])
    [] w.op = "remove" -> Without(w.records, n)

(* What is saved: a rollback reads the agent.yaml that it has copied.      *)
Recorded(k, n) ==
  LET w == worker[k] IN
  CASE w.op = "register" ->
         With(w.records, n, [spec |-> CHOOSE p \in w.package : TRUE, prev |-> w.prev])
    [] w.op = "rollback" ->
         With(w.records, n, [spec |-> dirs[Dir(n, Current)][Manifest], prev |-> {}])
    [] w.op = "remove" -> Without(w.records, n)

Copied(k) ==
  /\ worker[k].pc = "copy" /\ worker[k].left = {}
  /\ \E n \in worker[k].name :
       /\ worker[k].op = "rollback" =>
            Dir(n, Current) \in DOMAIN dirs /\ Manifest \in DOMAIN dirs[Dir(n, Current)]
       /\ worker' = [worker EXCEPT ![k].pc = "open", ![k].records = Recorded(k, n)]
  /\ UNCHANGED <<registry, whole, dirs, ops, failures, hurt, was>>

(* save_agent_registry: the file is cut, then written; after two at once   *)
(* it may not parse.                                                       *)
Open(k) ==
  /\ worker[k].pc = "open"
  /\ whole' = FALSE
  /\ worker' = [worker EXCEPT ![k].pc = "write", ![k].records =
       IF worker[k].op = "remove" THEN Recorded(k, CHOOSE n \in NamesOf(k) : TRUE) ELSE @]
  /\ UNCHANGED <<registry, dirs, ops, failures, hurt, was>>

Write(k) ==
  /\ worker[k].pc = "write"
  /\ registry' = worker[k].records
  /\ whole' = TRUE \/ (whole' = FALSE /\ hurt \cap NamesOf(k) # {})
  /\ was' = [n \in Agents |->
       IF n \in NamesOf(k) \ hurt /\ Dir(n, Current) \in DOMAIN dirs
       THEN was[n] \cup {dirs[Dir(n, Current)]} ELSE was[n]]
  /\ worker' = [worker EXCEPT ![k] = Resting]
  /\ UNCHANGED <<dirs, ops, failures, hurt>>

(* The process dies, or a step of the operation is an error: it ends there. *)
(* An error of a backup is ignored, and the package copied all the same.   *)
Fail(k) ==
  /\ worker[k].pc # "idle" /\ failures > 0
  /\ failures' = failures - 1
  /\ hurt' = hurt \cup NamesOf(k)
  /\ \/ worker' = [worker EXCEPT ![k] = Resting]
     \/ worker[k].pc = "backup" /\ worker' = [worker EXCEPT ![k].left = {}]
  /\ UNCHANGED <<registry, whole, dirs, ops, was>>

GNext ==
  \/ \E k \in Tasks, p \in Packages : Register(k, p)
  \/ \E k \in Tasks, n \in Agents : Rollback(k, n) \/ Remove(k, n)
  \/ \E k \in Tasks : CopyFile(k) \/ BackedUp(k) \/ Copied(k) \/ Open(k) \/ Write(k) \/ Fail(k)

GSpec == GInit /\ [][GNext]_gvars

-----------------------------------------------------------------------------
GTypeOK ==
  /\ DOMAIN registry \subseteq Agents
  /\ \A n \in DOMAIN registry :
       NameOf[registry[n].spec] = n /\ registry[n].prev \subseteq Versions
  /\ DOMAIN dirs \subseteq Agents \X (Versions \cup {Current})
  /\ \A d \in DOMAIN dirs : \A f \in DOMAIN dirs[d] :
       NameOf[dirs[d][f]] = d[1] /\ f \in Contents[dirs[d][f]]
  /\ whole \in BOOLEAN /\ hurt \subseteq Agents
  /\ ops \in 0..MaxOps /\ failures \in 0..MaxFailures

(* An agent none of whose changes overlapped another or failed is safe     *)
(* from everything that happens to other agents.  As long as the registry  *)
(* can be read, the agent is in it if and only if there is code to start,  *)
(* which comes with the agent.yaml that the registry shows; and if it has  *)
(* a previous version, there is a backup of what once ran as that version, *)
(* so that a rollback leads to a directory that the agent really had.      *)
RegistryTruthful ==
  whole /\ Active = {} =>
    \A n \in Agents \ hurt :
      /\ n \in DOMAIN registry <=> Dir(n, Current) \in DOMAIN dirs
      /\ n \in DOMAIN registry =>
           /\ Manifest \in DOMAIN dirs[Dir(n, Current)]
           /\ dirs[Dir(n, Current)][Manifest] = registry[n].spec
           /\ \A v \in registry[n].prev :
                /\ Dir(n, v) \in DOMAIN dirs /\ dirs[Dir(n, v)] \in was[n]
                /\ VersionOf[dirs[Dir(n, v)][Manifest]] = v
=============================================================================
