--------------------------- MODULE RuntimeInstall ----------------------------
(***************************************************************************)
(* Registering a package up to the moment its files are copied (see        *)
(* AgentRegistry): the source is fetched into a staging directory, checked *)
(* against the node, and the runtime it needs is looked for or downloaded  *)
(* to the directory of its kind, which all agents of the kind share.  The  *)
(* node looks for runtimes on its own PATH; agents are started with        *)
(* another one.                                                            *)
(*                                                                         *)
(* Downloads and archives are modelled by the files they leave, digests    *)
(* and other refusals of a download by its failure, and templates of       *)
(* commands by the binary they name.  The node runs on Unix, has a shell,  *)
(* and its own binaries can be executed.                                   *)
(***************************************************************************)
EXTENDS Naturals, FiniteSets

CONSTANTS
  Packages,  \* what can be registered: see Package
  Paths,     \* pairs of the node's own binaries and those on the agents' PATH
  Tasks, MaxOps, MaxFailures

VARIABLES
  own, path,   \* one of Paths
  local,       \* runtimes/: for each kind and file, the build, and whether it can be executed
  staging,     \* staging directories
  registrant,  \* what each task does
  registered,  \* packages whose registration has passed
  ops, failures,  \* bounds: requests so far, failures left
  cut,         \* history: kinds of which an installation ended half way, or two
               \* with different downloads overlapped
  abandoned    \* history: directories whose fetch failed, or whose task died

installVars == <<own, path, local, staging, registrant, registered, ops, failures, cut, abandoned>>

Kinds == {"deno", "nodejs", "bash", "shell", "tool"}
Binaries == {"deno", "node", "bash", "sh", "tool"}

(* agent.yaml: its runtime, the binary of its command, the binary that its *)
(* install URL leaves in the directory and which build of it; where the    *)
(* source is, at which depth it holds agent.yaml, and whether node fits.   *)
Package ==
  [kind: Kinds, command: {{}} \cup {{b} : b \in Binaries},
   download: {{}} \cup {{[file |-> f, build |-> n]} : f \in Binaries \cup {"other"}, n \in 1..2},
   remote: BOOLEAN, depth: 0..3, fits: BOOLEAN]

Quiet == [pc |-> "idle", package |-> {}, dir |-> 0]
Go(k, pc) == registrant' = [registrant EXCEPT ![k].pc = pc]

(* The downloads of a kind that are being written.                         *)
Writing(kind) ==
  {w \in Tasks \X UNION {p.download : p \in Packages} :
     /\ registrant[w[1]].pc = "finish"
     /\ \E p \in registrant[w[1]].package : p.kind = kind /\ w[2] \in p.download}

IInit ==
  /\ \E pair \in Paths : own = pair[1] /\ path = pair[2]
  /\ local = [f \in {} |-> 0]
  /\ staging = {} /\ registered = {}
  /\ registrant = [k \in Tasks |-> Quiet]
  /\ ops = 0 /\ failures = MaxFailures
  /\ cut = {} /\ abandoned = {}

-----------------------------------------------------------------------------
(* runtime_binary_name: what ensure_runtime looks for.                     *)
BinaryName(kind) == IF kind = "nodejs" THEN "node" ELSE kind

(* prefer_local finds it in the directory of the kind, whatever is in it.  *)
Installed(kind, binary) == <<kind, binary>> \in DOMAIN local

(* ensure_runtime needs no installation.                                   *)
Available(p) ==
  \/ p.kind = "shell"
  \/ BinaryName(p.kind) \in own
  \/ Installed(p.kind, BinaryName(p.kind))
  \/ \E b \in p.command : b \in own

(* Mutant of LaunchBinary: a runtime goes by the name of its kind.         *)
LaunchBinary_Kind(p) ==
  IF p.command # {} THEN p.command
  ELSE CASE p.kind \in {"bash", "shell"} -> {"sh"}
         [] p.kind = "tool" -> {}
         [] OTHER -> {p.kind}

(* resolve_launch: the command's binary, the one of a known kind, or none  *)
(* for the agent's own file.                                               *)
LaunchBinary(p) ==
  IF p.command # {} THEN p.command
  ELSE CASE p.kind \in {"bash", "shell"} -> {"sh"}
         [] p.kind = "tool" -> {}
         [] OTHER -> {BinaryName(p.kind)}

Runs(kind, binary) == Installed(kind, binary) /\ local[<<kind, binary>>].ready

(* The start: a known kind's binary is taken from its directory if it is   *)
(* there, and all others from the PATH of build_path, which begins with    *)
(* that directory.                                                         *)
Launchable(p) ==
  \A b \in LaunchBinary(p) :
    IF p.command = {} /\ Installed(p.kind, b) THEN Runs(p.kind, b)
    ELSE Runs(p.kind, b) \/ b \in path

-----------------------------------------------------------------------------
(* register_agent_package: make_staging_dir, by the nanosecond ...         *)
Stage(k, p) ==
  /\ registrant[k].pc = "idle" /\ ops < MaxOps
  /\ ops' = ops + 1
  /\ staging' = staging \cup {ops'}
  /\ registrant' = [registrant EXCEPT ![k] = [pc |-> "fetch", package |-> {p}, dir |-> ops']]
  /\ UNCHANGED <<own, path, local, registered, failures, cut, abandoned>>

(* ... resolve_agent_source: a directory of a remote source is found two   *)
(* levels down at most, and its failure skips the cleanup ...              *)
Fetch(k) ==
  /\ registrant[k].pc = "fetch"
  /\ \E p \in registrant[k].package :
       IF p.remote /\ p.depth > 2
       THEN /\ registrant' = [registrant EXCEPT ![k] = Quiet]
            /\ abandoned' = abandoned \cup {registrant[k].dir}
       ELSE Go(k, "check") /\ UNCHANGED abandoned
  /\ UNCHANGED <<own, path, local, staging, registered, ops, failures, cut>>

(* ... do_register: agent.yaml is there, and suits the node ...            *)
Check(k) ==
  /\ registrant[k].pc = "check"
  /\ \E p \in registrant[k].package :
       Go(k, IF (p.remote \/ p.depth = 0) /\ p.fits THEN "ensure" ELSE "clean")
  /\ UNCHANGED <<own, path, local, staging, registered, ops, failures, cut, abandoned>>

(* ... ensure_runtime ...                                                  *)
Ensure(k) ==
  /\ registrant[k].pc = "ensure"
  /\ \E p \in registrant[k].package :
       Go(k, CASE Available(p) -> "register"
               [] ~Available(p) /\ p.download # {} -> "install"
               [] OTHER -> "clean")
  /\ UNCHANGED <<own, path, local, staging, registered, ops, failures, cut, abandoned>>

(* ... install_runtime_binary: the download arrives and its file is        *)
(* opened, which empties one that is there ...                             *)
OpenFile(k) ==
  /\ registrant[k].pc = "install"
  /\ \E p \in registrant[k].package : \E d \in p.download :
       LET f == <<p.kind, d.file>> IN
       /\ local' = [g \in DOMAIN local \cup {f} |->
                      IF g = f THEN [build |-> d.build, ready |-> FALSE] ELSE local[g]]
       /\ cut' = IF \E w \in Writing(p.kind) : w[2].file = d.file /\ w[2] # d
                 THEN cut \cup {p.kind} ELSE cut
  /\ Go(k, "finish")
  /\ UNCHANGED <<own, path, staging, registered, ops, failures, abandoned>>

(* ... and is written and made executable.  While another task writes it,  *)
(* or after one with another build did, it may not be whole.               *)
FinishFile(k) ==
  /\ registrant[k].pc = "finish"
  /\ \E p \in registrant[k].package : \E d \in p.download :
       LET alone == {w \in Writing(p.kind) : w[2].file = d.file} = {<<k, d>>} IN
       \E whole \in IF alone /\ p.kind \notin cut THEN {TRUE} ELSE BOOLEAN :
         local' = [local EXCEPT ![<<p.kind, d.file>>] = [build |-> d.build, ready |-> whole]]
  /\ Go(k, "register")
  /\ UNCHANGED <<own, path, staging, registered, ops, failures, cut, abandoned>>

(* The package is copied and recorded ...                                  *)
Record(k) ==
  /\ registrant[k].pc = "register"
  /\ registered' = registered \cup registrant[k].package
  /\ Go(k, "clean")
  /\ UNCHANGED <<own, path, local, staging, ops, failures, cut, abandoned>>

(* ... and whatever came of it, cleanup_staging.                           *)
Clean(k) ==
  /\ registrant[k].pc = "clean"
  /\ staging' = staging \ {registrant[k].dir}
  /\ registrant' = [registrant EXCEPT ![k] = Quiet]
  /\ UNCHANGED <<own, path, local, registered, ops, failures, cut, abandoned>>

(* A step is an error (the source or the runtime cannot be downloaded, its *)
(* digest is another, the disk is full), or the node dies in it.           *)
Fail(k) ==
  /\ registrant[k].pc # "idle" /\ failures > 0
  /\ failures' = failures - 1
  /\ cut' = IF registrant[k].pc = "finish"
            THEN cut \cup {p.kind : p \in registrant[k].package} ELSE cut
  /\ \/ /\ registrant' = [registrant EXCEPT ![k] = Quiet]
        /\ abandoned' = abandoned \cup {registrant[k].dir}
     \/ /\ registrant[k].pc \in {"check", "ensure", "install", "finish", "register"}
        /\ Go(k, "clean")
        /\ UNCHANGED abandoned
  /\ UNCHANGED <<own, path, local, staging, registered, ops>>

INext ==
  \/ \E k \in Tasks, p \in Packages : Stage(k, p)
  \/ \E k \in Tasks : Fetch(k) \/ Check(k) \/ Ensure(k) \/ OpenFile(k) \/ FinishFile(k)
                        \/ Record(k) \/ Clean(k) \/ Fail(k)

ISpec == IInit /\ [][INext]_installVars

-----------------------------------------------------------------------------
ITypeOK ==
  /\ Packages \subseteq Package /\ registered \subseteq Packages
  /\ own \cup path \subseteq Binaries /\ "sh" \in own \cap path
  /\ DOMAIN local \subseteq Kinds \X (Binaries \cup {"other"})
  /\ \A f \in DOMAIN local : local[f].build \in 1..2 /\ local[f].ready \in BOOLEAN
  /\ staging \cup abandoned \subseteq 1..ops /\ ops \in 0..MaxOps
  /\ failures \in 0..MaxFailures /\ cut \subseteq Kinds

(* A package that was accepted can be started.  Whatever other packages of *)
(* the kind install at the same time or fail to, its runtime is there,     *)
(* whole, except in the four cases that the node does not exclude: an      *)
(* installation of the kind ended half way or met another build of it; the *)
(* runtime was found on the node's own PATH and is not on the agents'; the *)
(* command names a binary that nobody looked for; or the download leaves   *)
(* a file of another name.  And of the staging directories, only those     *)
(* stay whose fetch failed or whose task died.                             *)
PackagesRun ==
  /\ \A p \in registered :
       Writing(p.kind) = {} /\ p.kind \notin cut =>
         \/ Launchable(p)
         \/ ((p.command \cup {BinaryName(p.kind)}) \cap own) \ path # {}
         \/ \E b \in p.command : b # BinaryName(p.kind)
         \/ \E d \in p.download : d.file # BinaryName(p.kind)
  /\ \A n \in staging \ abandoned : \E k \in Tasks : registrant[k].dir = n
=============================================================================
