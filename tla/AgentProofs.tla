----------------------------- MODULE AgentProofs -----------------------------
(***************************************************************************)
(* The agents of a node, for any packages, members, tasks, requests and    *)
(* failures: the registry and the directories that registering, rolling    *)
(* back and removing leave behind; groups of agents, with the lists and    *)
(* processes that starting and stopping them leaves behind; the runtimes   *)
(* that a registration finds or downloads; and the advice that a workflow  *)
(* of agents is given, with the graphs of its steps.                       *)
(***************************************************************************)
EXTENDS Stores, FiniteSetTheorems, WellFoundedInduction, TLAPS

Home(n) == Registry!Dir(n, Current)
Backup(n, v) == Registry!Dir(n, v)
CodeOf(n) == dirs[Home(n)]
IsFunction(f) == f = [x \in DOMAIN f |-> f[x]]

(* A backup of version v that a rollback may return to.                    *)
BackupOK(n, v) ==
  /\ dirs[Backup(n, v)] \in was[n]
  /\ Manifest \in DOMAIN dirs[Backup(n, v)]
  /\ dirs[Backup(n, v)][Manifest] \in Packages
  /\ VersionOf[dirs[Backup(n, v)][Manifest]] = v

BackupsOK(n, but) ==
  \A v \in Registry!Versions \ but : Backup(n, v) \in DOMAIN dirs => BackupOK(n, v)

Backed(n, versions) ==
  \A v \in versions : v \in Registry!Versions /\ Backup(n, v) \in DOMAIN dirs

(* An entry of the registry that tells what is in the directory.           *)
Shown(n, e) ==
  /\ Home(n) \in DOMAIN dirs /\ Manifest \in DOMAIN CodeOf(n)
  /\ e.spec = CodeOf(n)[Manifest] /\ e.spec \in Packages
  /\ Backed(n, e.prev)

(* An agent that no task is changing.                                      *)
Settled(n) ==
  /\ n \in DOMAIN agents <=> Home(n) \in DOMAIN dirs
  /\ n \in DOMAIN agents => Shown(n, agents[n]) /\ CodeOf(n) \in was[n]
  /\ BackupsOK(n, {})

(* The stages of a change that nothing disturbs.                           *)
BackingUp(w, n) ==
  /\ n \in DOMAIN agents /\ Shown(n, agents[n]) /\ CodeOf(n) \in was[n]
  /\ w.source = CodeOf(n) /\ w.left \subseteq DOMAIN w.source
  /\ LET v == VersionOf[agents[n].spec] IN
       /\ w.prev = {v} /\ w.to = {Backup(n, v)} /\ BackupsOK(n, {v})
       /\ Backup(n, v) \in DOMAIN dirs
       /\ dirs[Backup(n, v)] = [f \in DOMAIN w.source \ w.left |-> w.source[f]]

Copying(w, n) ==
  /\ w.to = {Home(n)} /\ Home(n) \in DOMAIN dirs
  /\ w.left \subseteq DOMAIN w.source
  /\ Manifest \in DOMAIN w.source /\ w.source[Manifest] \in Packages
  /\ w.op = "register" => w.package = {w.source[Manifest]}
  /\ \A f \in DOMAIN w.source \ w.left : f \in DOMAIN CodeOf(n) /\ CodeOf(n)[f] = w.source[f]
  /\ Backed(n, w.prev)
  /\ BackupsOK(n, {})

Saving(w, n) ==
  /\ w.op # "remove" => n \in DOMAIN w.records /\ Shown(n, w.records[n])
  /\ w.op = "remove" => Home(n) \notin DOMAIN dirs /\ (w.pc = "write" => n \notin DOMAIN w.records)
  /\ BackupsOK(n, {})

Staged(w, n) ==
  /\ w.pc = "backup" => BackingUp(w, n)
  /\ w.pc = "copy" => Copying(w, n)
  /\ w.pc \in {"open", "write"} => Saving(w, n)

(* What holds of every task: it is about one agent and its directories.    *)
About(w) ==
  /\ w.pc \in {"backup", "copy", "open", "write"}
  /\ w.op \in {"register", "rollback", "remove"}
  /\ w.pc = "backup" => w.op = "register"
  /\ w.pc = "copy" => w.op # "remove"
  /\ \E n \in Registry!Agents :
       /\ w.name = {n} /\ (\A d \in w.to : d[1] = n)
       /\ w.op = "register" => \E p \in Packages : NameOf[p] = n /\ w.package = {p}

IsWorker(w, pc, op, name, package, prev, records, to, source, left) ==
  /\ DOMAIN w = {"pc", "op", "name", "package", "prev", "records", "to", "source", "left"}
  /\ w.pc = pc /\ w.op = op /\ w.name = name /\ w.package = package /\ w.prev = prev
  /\ w.records = records /\ w.to = to /\ w.source = source /\ w.left = left

Workers ==
  /\ DOMAIN clerk = Tasks
  /\ \A k \in Tasks :
       /\ DOMAIN clerk[k] = DOMAIN Registry!Resting
       /\ clerk[k] = Registry!Resting \/ About(clerk[k])

Files == \A d \in DOMAIN dirs : IsFunction(dirs[d])

(* A task that another overlaps is one of those that are hurt.             *)
Alone == \A k \in Registry!Active : clerk[k].name \subseteq hurt \/ Registry!Active = {k}

(* What a task has loaded is still true of the other agents.               *)
Same(f, g, n) ==
  /\ n \in DOMAIN f <=> n \in DOMAIN g
  /\ n \in DOMAIN f => f[n] = g[n]

Loaded ==
  \A k \in Registry!Active : \A m \in Registry!Agents \ (hurt \cup clerk[k].name) :
    Same(clerk[k].records, agents, m)

Quiet(n) == \A k \in Registry!Active : n \notin clerk[k].name

InOrder(n) ==
  /\ Quiet(n) => Settled(n)
  /\ \A k \in Registry!Active : n \in clerk[k].name => Staged(clerk[k], n)

Kept ==
  /\ Workers /\ Files /\ Alone /\ Loaded
  /\ DOMAIN was = Registry!Agents
  /\ \A n \in Registry!Agents \ hurt : InOrder(n)

AgentInv == part = "agents" => Kept

-----------------------------------------------------------------------------
(* A step of the node is one of the registry, when it is about it.         *)
LEMMA AgentSteps ==
  ASSUME [Next]_vars, part = "agents"
  PROVE  part' = part /\ (Registry!GNext \/ UNCHANGED Registry!gvars)
<1>1. CASE Next
  BY <1>1 DEF Next
<1>2. CASE UNCHANGED vars
  BY <1>2 DEF vars, agentVars, Registry!gvars
<1>3. QED
  BY <1>1, <1>2

(* What the steps make of a worker.                                        *)
LEMMA Rests ==
  /\ IsWorker(Registry!Resting, "idle", "none", {}, {}, {}, Registry!Empty, {}, Registry!Empty, {})
BY DEF Registry!Resting, IsWorker

LEMMA FilesLeft ==
  ASSUME NEW w, NEW s, DOMAIN w = DOMAIN Registry!Resting
  PROVE  IsWorker([w EXCEPT !.left = s],
                  w.pc, w.op, w.name, w.package, w.prev, w.records, w.to, w.source, s)
BY Rests DEF IsWorker

LEMMA Resumed ==
  ASSUME NEW p, NEW names, NEW s, NEW r
  PROVE  IsWorker([Registry!CopyPackage(p) EXCEPT !.name = names, !.prev = s, !.records = r],
                  "copy", "register", names, {p}, s, r, {Home(NameOf[p])},
                  [f \in Contents[p] |-> p], Contents[p])
<1>1. IsWorker(Registry!CopyPackage(p), "copy", "register", {}, {p}, {}, Registry!Empty,
               {Home(NameOf[p])}, [f \in Contents[p] |-> p], Contents[p])
  BY Rests DEF IsWorker, Registry!CopyPackage, Home
<1>2. QED
  BY <1>1 DEF IsWorker

LEMMA Begun ==
  ASSUME NEW n, NEW r, NEW p, NEW s, NEW v
  PROVE  /\ IsWorker([[Registry!CopyPackage(p) EXCEPT !.prev = s] EXCEPT !.name = {n}, !.records = r],
                     "copy", "register", {n}, {p}, s, r, {Home(NameOf[p])},
                     [f \in Contents[p] |-> p], Contents[p])
         /\ IsWorker([[[Registry!CopyPackage(p) EXCEPT !.prev = s] EXCEPT !.pc = "backup",
                         !.to = {Backup(n, v)}, !.source = dirs[Home(n)], !.left = DOMAIN dirs[Home(n)]]
                       EXCEPT !.name = {n}, !.records = r],
                     "backup", "register", {n}, {p}, s, r, {Backup(n, v)},
                     dirs[Home(n)], DOMAIN dirs[Home(n)])
         /\ IsWorker([[Registry!Resting EXCEPT !.pc = "copy", !.op = "rollback", !.to = {Home(n)},
                         !.source = dirs[Backup(n, v)], !.left = DOMAIN dirs[Backup(n, v)]]
                       EXCEPT !.name = {n}, !.records = r],
                     "copy", "rollback", {n}, {}, {}, r, {Home(n)},
                     dirs[Backup(n, v)], DOMAIN dirs[Backup(n, v)])
         /\ IsWorker([[Registry!Resting EXCEPT !.pc = "open", !.op = "remove"]
                       EXCEPT !.name = {n}, !.records = r],
                     "open", "remove", {n}, {}, {}, r, {}, Registry!Empty, {})
<1>1. IsWorker(Registry!CopyPackage(p), "copy", "register", {}, {p}, {}, Registry!Empty,
               {Home(NameOf[p])}, [f \in Contents[p] |-> p], Contents[p])
  BY Rests DEF IsWorker, Registry!CopyPackage, Home
<1>2. IsWorker([Registry!CopyPackage(p) EXCEPT !.prev = s], "copy", "register", {}, {p}, s,
               Registry!Empty, {Home(NameOf[p])}, [f \in Contents[p] |-> p], Contents[p])
  BY <1>1 DEF IsWorker
<1>3. IsWorker([[Registry!CopyPackage(p) EXCEPT !.prev = s] EXCEPT !.pc = "backup",
                  !.to = {Backup(n, v)}, !.source = dirs[Home(n)], !.left = DOMAIN dirs[Home(n)]],
               "backup", "register", {}, {p}, s, Registry!Empty, {Backup(n, v)},
               dirs[Home(n)], DOMAIN dirs[Home(n)])
  BY <1>2 DEF IsWorker
<1>4. IsWorker([Registry!Resting EXCEPT !.pc = "copy", !.op = "rollback", !.to = {Home(n)},
                  !.source = dirs[Backup(n, v)], !.left = DOMAIN dirs[Backup(n, v)]],
               "copy", "rollback", {}, {}, {}, Registry!Empty, {Home(n)},
               dirs[Backup(n, v)], DOMAIN dirs[Backup(n, v)])
  BY Rests DEF IsWorker
<1>5. IsWorker([Registry!Resting EXCEPT !.pc = "open", !.op = "remove"],
               "open", "remove", {}, {}, {}, Registry!Empty, {}, Registry!Empty, {})
  BY Rests DEF IsWorker
<1>6. IsWorker([[Registry!CopyPackage(p) EXCEPT !.prev = s] EXCEPT !.name = {n}, !.records = r],
               "copy", "register", {n}, {p}, s, r, {Home(NameOf[p])},
               [f \in Contents[p] |-> p], Contents[p])
  BY <1>2 DEF IsWorker
<1>8. IsWorker([[[Registry!CopyPackage(p) EXCEPT !.prev = s] EXCEPT !.pc = "backup",
                   !.to = {Backup(n, v)}, !.source = dirs[Home(n)], !.left = DOMAIN dirs[Home(n)]]
                 EXCEPT !.name = {n}, !.records = r],
               "backup", "register", {n}, {p}, s, r, {Backup(n, v)},
               dirs[Home(n)], DOMAIN dirs[Home(n)])
  BY <1>3 DEF IsWorker
<1>9. IsWorker([[Registry!Resting EXCEPT !.pc = "copy", !.op = "rollback", !.to = {Home(n)},
                   !.source = dirs[Backup(n, v)], !.left = DOMAIN dirs[Backup(n, v)]]
                 EXCEPT !.name = {n}, !.records = r],
               "copy", "rollback", {n}, {}, {}, r, {Home(n)},
               dirs[Backup(n, v)], DOMAIN dirs[Backup(n, v)])
  BY <1>4 DEF IsWorker
<1>10. IsWorker([[Registry!Resting EXCEPT !.pc = "open", !.op = "remove"]
                  EXCEPT !.name = {n}, !.records = r],
                "open", "remove", {n}, {}, {}, r, {}, Registry!Empty, {})
  BY <1>5 DEF IsWorker
<1>11. QED
  BY <1>6, <1>8, <1>9, <1>10

-----------------------------------------------------------------------------
(* A step that leaves the directories of agents other than n as they were. *)
Apart(n) ==
  \A m \in Registry!Agents \ {n}, v \in Registry!Versions \cup {Current} :
    /\ Backup(m, v) \in DOMAIN dirs' <=> Backup(m, v) \in DOMAIN dirs
    /\ Backup(m, v) \in DOMAIN dirs => dirs'[Backup(m, v)] = dirs[Backup(m, v)]

LEMMA Elsewhere ==
  ASSUME NEW n, NEW m \in Registry!Agents \ {n}, Apart(n), Settled(m),
         Same(agents', agents, m), was[m] \subseteq was'[m]
  PROVE  Settled(m)'
<1>1. /\ Home(m) \in DOMAIN dirs' <=> Home(m) \in DOMAIN dirs
      /\ Home(m) \in DOMAIN dirs => CodeOf(m)' = CodeOf(m)
  BY DEF Apart, Home, Backup, CodeOf
<1>2. BackupsOK(m, {})'
  BY DEF Settled, BackupsOK, BackupOK, Apart, Backup
<1>3. m \in DOMAIN agents' <=> Home(m)' \in DOMAIN dirs'
  BY <1>1 DEF Settled, Same, Home
<1>4. ASSUME m \in DOMAIN agents'
      PROVE  Shown(m, agents[m])' /\ (CodeOf(m) \in was[m])'
  <2>1. agents'[m] = agents[m] /\ Shown(m, agents[m]) /\ CodeOf(m) \in was[m]
    BY <1>4 DEF Same, Settled
  <2>2. Backed(m, agents[m].prev)'
    BY <2>1 DEF Shown, Backed, Apart, Backup
  <2>3. QED
    BY <1>1, <2>1, <2>2 DEF Shown, Home
<1>5. QED
  BY <1>2, <1>3, <1>4 DEF Settled

(* A task begins to change n.                                              *)
Begins(k, n) ==
  /\ k \in Tasks /\ n \in Registry!Agents
  /\ clerk[k].pc = "idle" /\ clerk'[k].pc # "idle"
  /\ DOMAIN clerk' = Tasks /\ \A j \in Tasks \ {k} : clerk'[j] = clerk[j]
  /\ clerk'[k].name = {n} /\ clerk'[k].records = agents
  /\ hurt' = IF Registry!Active = {} THEN hurt
             ELSE hurt \cup {n} \cup UNION {Registry!NamesOf(o) : o \in Registry!Active}
  /\ agents' = agents /\ was' = was /\ Apart(n)

LEMMA BeginKeeps ==
  ASSUME NEW k, NEW n, Begins(k, n), Workers, Alone, Loaded,
         \A m \in Registry!Agents \ hurt : InOrder(m),
         Registry!Active = {} /\ n \notin hurt => Staged(clerk[k], n)'
  PROVE  /\ Alone' /\ Loaded'
         /\ (\A m \in Registry!Agents \ hurt : InOrder(m))'
<1>1. Registry!Active' = Registry!Active \cup {k} /\ k \notin Registry!Active
  BY DEF Registry!Active, Begins
<1>2. hurt \subseteq hurt'
  BY DEF Begins
<1>3. Registry!Active # {} =>
        n \in hurt' /\ \A j \in Registry!Active : clerk[j].name \subseteq hurt'
  BY DEF Begins, Registry!NamesOf
<1>4. \A j \in Registry!Active : clerk'[j] = clerk[j] /\ j \in Tasks
  BY <1>1 DEF Begins, Registry!Active
<1>5. Alone'
  <2> SUFFICES ASSUME NEW j \in Registry!Active'
               PROVE  clerk'[j].name \subseteq hurt' \/ Registry!Active' = {j}
    BY DEF Alone
  <2>1. CASE Registry!Active = {}
    BY <1>1, <2>1
  <2>2. CASE Registry!Active # {} /\ j = k
    BY <1>3, <2>2 DEF Begins
  <2>3. CASE Registry!Active # {} /\ j # k
    BY <1>1, <1>3, <1>4, <2>3
  <2>4. QED
    BY <2>1, <2>2, <2>3
<1>6. Loaded'
  <2> SUFFICES ASSUME NEW j \in Registry!Active',
                      NEW m \in Registry!Agents \ (hurt' \cup clerk'[j].name)
               PROVE  Same(clerk'[j].records, agents', m)
    BY DEF Loaded, Registry!Agents
  <2>1. CASE j = k
    BY <2>1 DEF Begins, Same
  <2>2. CASE j # k
    BY <1>1, <1>2, <1>4, <2>2 DEF Loaded, Begins
  <2>3. QED
    BY <2>1, <2>2
<1>7. ASSUME NEW m \in Registry!Agents, m \notin hurt'
      PROVE  InOrder(m)'
  <2>1. Quiet(m)
    BY <1>3, <1>7 DEF Quiet
  <2>2. Settled(m)
    BY <1>2, <1>7, <2>1 DEF InOrder
  <2>3. CASE m = n
    <3>1. Registry!Active = {} /\ n \notin hurt
      BY <1>2, <1>3, <1>7, <2>3
    <3>2. Staged(clerk[k], n)'
      BY <3>1
    <3>3. k \in Registry!Active' /\ n \in clerk'[k].name /\ Registry!Active' = {k}
      BY <1>1, <3>1 DEF Begins
    <3>4. QED
      BY <2>3, <3>2, <3>3 DEF InOrder, Quiet
  <2>4. CASE m # n
    <3>1. Settled(m)'
      BY <2>2, <2>4, Elsewhere DEF Begins, Same
    <3>2. \A j \in Registry!Active' : m \notin clerk'[j].name
      BY <1>1, <1>4, <2>1, <2>4 DEF Begins, Quiet
    <3>3. QED
      BY <3>1, <3>2 DEF InOrder
  <2>5. QED
    BY <2>3, <2>4
<1>8. QED
  BY <1>5, <1>6, <1>7 DEF Registry!Agents

(* A task goes on with its change of n, or ends it.                        *)
GoesOn(k, n) ==
  /\ k \in Registry!Active /\ n \in Registry!Agents /\ clerk[k].name = {n}
  /\ DOMAIN clerk' = Tasks /\ \A j \in Tasks \ {k} : clerk'[j] = clerk[j]
  /\ clerk'[k].pc = "idle" \/ clerk'[k].name = {n}
  /\ hurt \subseteq hurt' /\ Apart(n)
  /\ \A m \in Registry!Agents \ {n} :
       (m \notin hurt => Same(agents', agents, m)) /\ was[m] \subseteq was'[m]

LEMMA GoOnKeeps ==
  ASSUME NEW k, NEW n, GoesOn(k, n), Workers, Alone,
         \A m \in Registry!Agents \ hurt : InOrder(m),
         Registry!Active = {k} /\ n \notin hurt' /\ Staged(clerk[k], n) =>
           IF clerk'[k].pc = "idle" THEN Settled(n)' ELSE Staged(clerk[k], n)'
  PROVE  /\ Alone'
         /\ (\A m \in Registry!Agents \ hurt : InOrder(m))'
<1>1. /\ Registry!Active' \subseteq Registry!Active
      /\ Registry!Active \ {k} \subseteq Registry!Active'
      /\ k \in Registry!Active' <=> clerk'[k].pc # "idle"
  BY DEF Registry!Active, GoesOn
<1>2. \A j \in Registry!Active' : j # k => clerk'[j] = clerk[j]
  BY <1>1 DEF GoesOn, Registry!Active
<1>3. k \in Registry!Active' => clerk'[k].name = {n}
  BY <1>1 DEF GoesOn
<1>4. Alone'
  <2> SUFFICES ASSUME NEW j \in Registry!Active'
               PROVE  clerk'[j].name \subseteq hurt' \/ Registry!Active' = {j}
    BY DEF Alone
  <2>1. clerk'[j].name = clerk[j].name
    BY <1>2, <1>3 DEF GoesOn
  <2>2. clerk[j].name \subseteq hurt \/ Registry!Active = {j}
    BY <1>1 DEF Alone
  <2>3. QED
    BY <1>1, <2>1, <2>2 DEF GoesOn
<1>5. ASSUME NEW m \in Registry!Agents, m \notin hurt'
      PROVE  InOrder(m)'
  <2>1. InOrder(m) /\ m \notin hurt
    BY <1>5 DEF GoesOn
  <2>2. CASE m = n
    <3>1. Registry!Active = {k}
      BY <2>1, <2>2 DEF Alone, GoesOn
    <3>2. Staged(clerk[k], n)
      BY <2>1, <2>2 DEF InOrder, GoesOn
    <3>3. IF clerk'[k].pc = "idle" THEN Settled(n)' ELSE Staged(clerk[k], n)'
      BY <1>5, <2>2, <3>1, <3>2
    <3>4. CASE clerk'[k].pc = "idle"
      <4>1. Registry!Active' = {}
        BY <1>1, <3>1, <3>4
      <4>2. Settled(n)'
        BY <3>3, <3>4
      <4>3. QED
        BY <2>2, <4>1, <4>2 DEF InOrder
    <3>5. CASE clerk'[k].pc # "idle"
      <4>1. Registry!Active' = {k} /\ n \in clerk'[k].name
        BY <1>1, <1>3, <3>1, <3>5
      <4>2. Staged(clerk[k], n)'
        BY <3>3, <3>5
      <4>3. QED
        BY <2>2, <4>1, <4>2 DEF InOrder, Quiet
    <3>6. QED
      BY <3>4, <3>5
  <2>3. CASE m # n
    <3>1. \A j \in Registry!Active : m \notin clerk[j].name
      BY <2>1, <2>3 DEF Alone, GoesOn
    <3>2. Settled(m)
      BY <2>1, <3>1 DEF InOrder, Quiet
    <3>3. Settled(m)'
      BY <2>1, <2>3, <3>2, Elsewhere DEF GoesOn
    <3>4. \A j \in Registry!Active' : m \notin clerk'[j].name
      BY <1>1, <1>2, <1>3, <2>3, <3>1
    <3>5. QED
      BY <3>3, <3>4 DEF InOrder
  <2>4. QED
    BY <2>2, <2>3
<1>6. QED
  BY <1>4, <1>5 DEF Registry!Agents

-----------------------------------------------------------------------------
(* A step that leaves the directories of n, but for that of u, as they     *)
(* were.                                                                   *)
Beside(n, u) ==
  \A v \in (Registry!Versions \cup {Current}) \ {u} :
    /\ Backup(n, v) \in DOMAIN dirs' <=> Backup(n, v) \in DOMAIN dirs
    /\ Backup(n, v) \in DOMAIN dirs => dirs'[Backup(n, v)] = dirs[Backup(n, v)]

LEMMA Apartness ==
  ASSUME NEW n, NEW m, NEW v, NEW u
  PROVE  /\ Backup(n, v) = Backup(m, u) <=> n = m /\ v = u
         /\ Home(n) = Backup(n, Current)
         /\ Backup(n, v)[1] = n
         /\ Current \notin Registry!Versions
BY StoresAssumption DEF Backup, Home, Registry!Dir, Registry!Versions

LEMMA NewDir ==
  ASSUME NEW n \in Registry!Agents, NEW v, NEW x, IsFunction(x), Files,
         dirs' = Registry!With(dirs, Backup(n, v), x)
  PROVE  /\ Files' /\ Apart(n) /\ Beside(n, v)
         /\ Backup(n, v) \in DOMAIN dirs' /\ dirs'[Backup(n, v)] = x
<1>1. /\ DOMAIN dirs' = DOMAIN dirs \cup {Backup(n, v)} /\ dirs'[Backup(n, v)] = x
      /\ \A d \in DOMAIN dirs : d # Backup(n, v) => dirs'[d] = dirs[d]
  BY DEF Registry!With
<1>2. Files'
  BY <1>1 DEF Files
<1>3. Apart(n)
  BY <1>1, Apartness DEF Apart
<1>4. Beside(n, v)
  BY <1>1, Apartness DEF Beside
<1>5. QED
  BY <1>1, <1>2, <1>3, <1>4

LEMMA NoDir ==
  ASSUME NEW n \in Registry!Agents, NEW v, Files,
         dirs' = Registry!Without(dirs, Backup(n, v))
  PROVE  /\ Files' /\ Apart(n) /\ Beside(n, v)
         /\ Backup(n, v) \notin DOMAIN dirs'
<1>1. /\ DOMAIN dirs' = DOMAIN dirs \ {Backup(n, v)}
      /\ \A d \in DOMAIN dirs : d # Backup(n, v) => dirs'[d] = dirs[d]
  BY DEF Registry!Without, Registry!Restrict
<1>2. Files'
  BY <1>1 DEF Files
<1>3. Apart(n)
  BY <1>1, Apartness DEF Apart
<1>4. Beside(n, v)
  BY <1>1, Apartness DEF Beside
<1>5. QED
  BY <1>1, <1>2, <1>3, <1>4

LEMMA MadeHome ==
  ASSUME NEW n \in Registry!Agents, Files, dirs' = Registry!Made(Registry!Dir(n, Current))
  PROVE  /\ Files' /\ Apart(n) /\ Beside(n, Current) /\ Home(n) \in DOMAIN dirs'
         /\ Home(n) \in DOMAIN dirs => dirs' = dirs
<1>1. CASE Home(n) \in DOMAIN dirs
  <2>1. dirs' = dirs
    BY <1>1 DEF Registry!Made, Home
  <2>2. QED
    BY <1>1, <2>1 DEF Files, Apart, Beside
<1>2. CASE Home(n) \notin DOMAIN dirs
  <2>1. dirs' = Registry!With(dirs, Backup(n, Current), Registry!Empty)
    BY <1>2 DEF Registry!Made, Home, Backup
  <2>2. IsFunction(Registry!Empty)
    BY DEF IsFunction, Registry!Empty
  <2>3. QED
    BY <1>2, <2>1, <2>2, NewDir, Apartness
<1>3. QED
  BY <1>1, <1>2

LEMMA BackupsKept ==
  ASSUME NEW n, NEW u, NEW but, Beside(n, u), was[n] \subseteq was'[n], BackupsOK(n, but)
  PROVE  /\ BackupsOK(n, but \cup {u})'
         /\ u \notin Registry!Versions => BackupsOK(n, but)'
<1>1. ASSUME NEW v \in Registry!Versions, v \notin but, v # u, Backup(n, v) \in DOMAIN dirs'
      PROVE  BackupOK(n, v)'
  BY <1>1 DEF Beside, BackupsOK, BackupOK, Backup
<1>2. QED
  BY <1>1 DEF BackupsOK, Backup, Registry!Versions

(* A worker that is about its agent, after a step of one task.             *)
LEMMA WorkersKept ==
  ASSUME Workers, NEW k \in Tasks, DOMAIN clerk' = Tasks,
         \A j \in Tasks \ {k} : clerk'[j] = clerk[j],
         DOMAIN clerk'[k] = DOMAIN Registry!Resting,
         clerk'[k] = Registry!Resting \/ About(clerk[k])'
  PROVE  Workers'
<1>1. ASSUME NEW j \in Tasks, j # k
      PROVE  DOMAIN clerk'[j] = DOMAIN Registry!Resting
             /\ (clerk'[j] = Registry!Resting \/ About(clerk[j])')
  <2>1. clerk'[j] = clerk[j]
    BY <1>1
  <2>2. About(clerk[j]) => About(clerk[j])'
    BY <2>1 DEF About, Registry!Agents
  <2>3. QED
    BY <2>1, <2>2 DEF Workers
<1>2. QED
  BY <1>1 DEF Workers, Registry!Resting, Registry!Empty

-----------------------------------------------------------------------------
(* Each action keeps the invariant.                                        *)
LEMMA Homes ==
  ASSUME NEW p \in Packages
  PROVE  NameOf[p] \in Registry!Agents /\ VersionOf[p] \in Registry!Versions
         /\ VersionOf[p] # Current /\ Manifest \in Contents[p]
BY StoresAssumption DEF Registry!Agents, Registry!Versions

(* What is common to the requests.                                         *)
LEMMA Beginning ==
  ASSUME NEW k \in Tasks, NEW n \in Registry!Agents, NEW w, Registry!Begin(k, n, w), Workers, Apart(n),
         NEW pc, NEW op, NEW package, NEW prev, NEW to, NEW source, NEW left, pc # "idle",
         IsWorker([w EXCEPT !.name = {n}, !.records = agents],
                  pc, op, {n}, package, prev, agents, to, source, left)
  PROVE  Begins(k, n) /\ IsWorker(clerk'[k], pc, op, {n}, package, prev, agents, to, source, left)
<1>1. clerk' = [clerk EXCEPT ![k] = [w EXCEPT !.name = {n}, !.records = agents]]
  BY DEF Registry!Begin
<1>2. /\ DOMAIN clerk' = Tasks /\ \A j \in Tasks \ {k} : clerk'[j] = clerk[j]
      /\ clerk'[k] = [w EXCEPT !.name = {n}, !.records = agents]
  BY <1>1 DEF Workers
<1>3. IsWorker(clerk'[k], pc, op, {n}, package, prev, agents, to, source, left)
  BY <1>2
<1>4. QED
  BY <1>2, <1>3 DEF Registry!Begin, Begins, IsWorker

LEMMA RegisterBackup ==
  ASSUME Kept, NEW k \in Tasks, NEW p \in Packages, NEW n, NEW v, NEW w,
         n = NameOf[p], n \in DOMAIN agents, Home(n) \in DOMAIN dirs,
         v = VersionOf[agents[n].spec], Backup(n, v) \notin DOMAIN dirs,
         IsWorker([w EXCEPT !.name = {n}, !.records = agents],
                  "backup", "register", {n}, {p}, {v}, agents, {Backup(n, v)},
                  dirs[Home(n)], DOMAIN dirs[Home(n)]),
         Registry!Begin(k, n, w), dirs' = Registry!With(dirs, Backup(n, v), Registry!Empty)
  PROVE  Kept'
<1>0. n \in Registry!Agents
  BY Homes
<1>1. /\ Files' /\ Apart(n) /\ Beside(n, v)
      /\ Backup(n, v) \in DOMAIN dirs' /\ dirs'[Backup(n, v)] = Registry!Empty
  <2>1. IsFunction(Registry!Empty)
    BY DEF IsFunction, Registry!Empty
  <2>2. QED
    BY <1>0, <2>1, NewDir DEF Kept
<1>2. Begins(k, n)
      /\ IsWorker(clerk'[k], "backup", "register", {n}, {p}, {v}, agents, {Backup(n, v)},
                  dirs[Home(n)], DOMAIN dirs[Home(n)])
  BY <1>0, <1>1, Beginning DEF Kept
<1>3. Workers'
  <2>1. About(clerk[k])'
    BY <1>0, <1>2, Apartness DEF IsWorker, About, Registry!Agents
  <2>2. DOMAIN clerk'[k] = DOMAIN Registry!Resting
    BY <1>2, Rests DEF IsWorker
  <2>3. QED
    BY <1>2, <2>1, <2>2, WorkersKept DEF Kept, Begins
<1>4. ASSUME Registry!Active = {}, n \notin hurt
      PROVE  Staged(clerk[k], n)'
  <2>1. Settled(n)
    BY <1>0, <1>4 DEF Kept, InOrder, Quiet
  <2>2. Shown(n, agents[n]) /\ CodeOf(n) \in was[n] /\ BackupsOK(n, {})
    BY <2>1 DEF Settled
  <2>3. v \in Registry!Versions /\ v # Current
    BY <2>2, Homes DEF Shown
  <2>4. CodeOf(n)' = CodeOf(n) /\ Home(n) \in DOMAIN dirs'
    BY <1>1, <2>2, <2>3, Apartness DEF Beside, Shown, CodeOf, Home, Backup
  <2>5. agents' = agents /\ was' = was /\ Home(n)' = Home(n)
    BY <1>2 DEF Begins, Home
  <2>6. BackupsOK(n, {v})'
    <3>1. BackupsOK(n, {} \cup {v})'
      BY <1>1, <2>2, <2>5, BackupsKept
    <3>2. {} \cup {v} = {v}
      OBVIOUS
    <3>3. QED
      BY <3>1, <3>2
  <2>7. Shown(n, agents[n])'
    <3>1. Backed(n, agents[n].prev)'
      BY <1>1, <2>2, <2>5 DEF Backed, Shown, Beside, Backup
    <3>2. QED
      BY <2>2, <2>4, <2>5, <3>1 DEF Shown
  <2>8. dirs'[Backup(n, v)] = [f \in DOMAIN clerk'[k].source \ clerk'[k].left |-> clerk'[k].source[f]]
    BY <1>1, <1>2 DEF IsWorker, Registry!Empty
  <2>9. BackingUp(clerk[k], n)'
    <3>1. /\ clerk'[k].source = CodeOf(n)' /\ clerk'[k].left \subseteq DOMAIN clerk'[k].source
          /\ clerk'[k].prev = {v} /\ clerk'[k].to = {Backup(n, v)}
      BY <1>2, <2>4 DEF IsWorker, CodeOf
    <3>2. v = VersionOf[agents'[n].spec] /\ Backup(n, v)' = Backup(n, v)
      BY <2>5 DEF Backup
    <3>3. (n \in DOMAIN agents)' /\ (CodeOf(n) \in was[n])'
      BY <2>2, <2>4, <2>5
    <3>4. QED
      BY <1>1, <2>6, <2>7, <2>8, <3>1, <3>2, <3>3 DEF BackingUp
  <2>10. QED
    BY <1>2, <2>9 DEF Staged, IsWorker
<1>5. Alone' /\ Loaded' /\ (\A m \in Registry!Agents \ hurt : InOrder(m))'
  BY <1>2, <1>4, BeginKeeps DEF Kept
<1>6. QED
  BY <1>1, <1>2, <1>3, <1>5 DEF Kept, Begins, Registry!Agents

LEMMA RegisterCopy ==
  ASSUME Kept, NEW k \in Tasks, NEW p \in Packages, NEW n, NEW prev, NEW w, n = NameOf[p],
         \/ n \notin DOMAIN agents /\ prev = {}
         \/ /\ n \in DOMAIN agents /\ prev = {VersionOf[agents[n].spec]}
            /\ Home(n) \in DOMAIN dirs => Backup(n, VersionOf[agents[n].spec]) \in DOMAIN dirs,
         IsWorker([w EXCEPT !.name = {n}, !.records = agents],
                  "copy", "register", {n}, {p}, prev, agents, {Home(n)},
                  [f \in Contents[p] |-> p], Contents[p]),
         Registry!Begin(k, n, w), dirs' = Registry!Made(Registry!Dir(n, Current))
  PROVE  Kept'
<1>0. n \in Registry!Agents /\ Manifest \in Contents[p]
  BY Homes
<1>1. Files' /\ Apart(n) /\ Beside(n, Current) /\ Home(n) \in DOMAIN dirs'
  BY <1>0, MadeHome DEF Kept
<1>2. Begins(k, n)
      /\ IsWorker(clerk'[k], "copy", "register", {n}, {p}, prev, agents, {Home(n)},
                  [f \in Contents[p] |-> p], Contents[p])
  BY <1>0, <1>1, Beginning DEF Kept
<1>3. Workers'
  <2>1. About(clerk[k])'
    BY <1>0, <1>2, Apartness DEF IsWorker, About, Registry!Agents
  <2>2. DOMAIN clerk'[k] = DOMAIN Registry!Resting
    BY <1>2, Rests DEF IsWorker
  <2>3. QED
    BY <1>2, <2>1, <2>2, WorkersKept DEF Kept, Begins
<1>4. ASSUME Registry!Active = {}, n \notin hurt
      PROVE  Staged(clerk[k], n)'
  <2>1. Settled(n)
    BY <1>0, <1>4 DEF Kept, InOrder, Quiet
  <2>2. was' = was
    BY <1>2 DEF Begins
  <2>3. BackupsOK(n, {})'
    BY <1>1, <2>1, <2>2, BackupsKept, Apartness DEF Settled
  <2>4. Backed(n, prev)
    BY <2>1, Homes DEF Settled, Shown, Backed
  <2>5. \A v \in prev : v \in Registry!Versions /\ Backup(n, v) \in DOMAIN dirs'
    BY <1>1, <2>4, Apartness DEF Backed, Beside
  <2>6. Copying(clerk[k], n)'
    <3>1. /\ clerk'[k].op = "register" /\ clerk'[k].to = {Home(n)} /\ clerk'[k].prev = prev
          /\ clerk'[k].left = DOMAIN clerk'[k].source /\ Manifest \in DOMAIN clerk'[k].source
          /\ clerk'[k].source[Manifest] = p /\ clerk'[k].package = {p}
      BY <1>0, <1>2 DEF IsWorker
    <3>2. Backed(n, clerk[k].prev)'
      BY <2>5, <3>1 DEF Backed, Backup, Registry!Versions
    <3>3. Home(n)' = Home(n)
      BY DEF Home
    <3>4. QED
      BY <1>1, <2>3, <3>1, <3>2, <3>3 DEF Copying
  <2>7. QED
    BY <1>2, <2>6 DEF Staged, IsWorker
<1>5. Alone' /\ Loaded' /\ (\A m \in Registry!Agents \ hurt : InOrder(m))'
  BY <1>2, <1>4, BeginKeeps DEF Kept
<1>6. QED
  BY <1>1, <1>2, <1>3, <1>5 DEF Kept, Begins, Registry!Agents

LEMMA RegisterKeeps ==
  ASSUME Kept, NEW k \in Tasks, NEW p \in Packages, Registry!Register(k, p)
  PROVE  Kept'
<1> DEFINE n == NameOf[p]
           there == n \in DOMAIN agents
           v == VersionOf[agents[n].spec]
           prev == IF there THEN {v} ELSE {}
           w == [Registry!CopyPackage(p) EXCEPT !.prev = prev]
           u == [w EXCEPT !.pc = "backup", !.to = {Backup(n, v)}, !.source = dirs[Home(n)],
                          !.left = DOMAIN dirs[Home(n)]]
           first == there /\ Home(n) \in DOMAIN dirs /\ Backup(n, v) \notin DOMAIN dirs
<1>1. \/ first /\ Registry!Begin(k, n, u) /\ dirs' = Registry!With(dirs, Backup(n, v), Registry!Empty)
      \/ ~first /\ Registry!Begin(k, n, w) /\ dirs' = Registry!Made(Registry!Dir(n, Current))
  BY DEF Registry!Register, Home, Backup
<1>2. /\ IsWorker([w EXCEPT !.name = {n}, !.records = agents],
                  "copy", "register", {n}, {p}, prev, agents, {Home(n)},
                  [f \in Contents[p] |-> p], Contents[p])
      /\ IsWorker([u EXCEPT !.name = {n}, !.records = agents],
                  "backup", "register", {n}, {p}, prev, agents, {Backup(n, v)},
                  dirs[Home(n)], DOMAIN dirs[Home(n)])
  BY Begun
<1> HIDE DEF w, u
<1>3. CASE first /\ Registry!Begin(k, n, u) /\ dirs' = Registry!With(dirs, Backup(n, v), Registry!Empty)
  <2>1. prev = {v}
    BY <1>3
  <2> HIDE DEF prev
  <2>2. QED
    BY <1>2, <1>3, <2>1, RegisterBackup
<1>4. CASE ~first /\ Registry!Begin(k, n, w) /\ dirs' = Registry!Made(Registry!Dir(n, Current))
  <2>1. \/ n \notin DOMAIN agents /\ prev = {}
        \/ /\ n \in DOMAIN agents /\ prev = {VersionOf[agents[n].spec]}
           /\ Home(n) \in DOMAIN dirs => Backup(n, VersionOf[agents[n].spec]) \in DOMAIN dirs
    BY <1>4
  <2> HIDE DEF prev
  <2>2. QED
    BY <1>2, <1>4, <2>1, RegisterCopy
<1>5. QED
  BY <1>1, <1>3, <1>4

LEMMA RollbackKeeps ==
  ASSUME Kept, NEW k \in Tasks, NEW n \in Registry!Agents, Registry!Rollback(k, n)
  PROVE  Kept'
<1>1. PICK v \in agents[n].prev :
        /\ Backup(n, v) \in DOMAIN dirs
        /\ Registry!Begin(k, n, [Registry!Resting EXCEPT !.pc = "copy", !.op = "rollback",
             !.to = {Home(n)}, !.source = dirs[Backup(n, v)], !.left = DOMAIN dirs[Backup(n, v)]])
  BY DEF Registry!Rollback, Backup, Home
<1>2. n \in DOMAIN agents /\ dirs' = Registry!With(dirs, Backup(n, Current), Registry!Empty)
  BY DEF Registry!Rollback, Backup
<1>3. Files' /\ Apart(n) /\ Beside(n, Current) /\ Home(n) \in DOMAIN dirs'
  <2>1. IsFunction(Registry!Empty)
    BY DEF IsFunction, Registry!Empty
  <2>2. QED
    BY <1>2, <2>1, NewDir, Apartness DEF Kept
<1>4. IsWorker([[Registry!Resting EXCEPT !.pc = "copy", !.op = "rollback", !.to = {Home(n)},
                   !.source = dirs[Backup(n, v)], !.left = DOMAIN dirs[Backup(n, v)]]
                 EXCEPT !.name = {n}, !.records = agents],
               "copy", "rollback", {n}, {}, {}, agents, {Home(n)},
               dirs[Backup(n, v)], DOMAIN dirs[Backup(n, v)])
  BY Begun
<1>5. Begins(k, n)
      /\ IsWorker(clerk'[k], "copy", "rollback", {n}, {}, {}, agents, {Home(n)},
                  dirs[Backup(n, v)], DOMAIN dirs[Backup(n, v)])
  BY <1>1, <1>3, <1>4, Beginning DEF Kept
<1>6. Workers'
  <2>1. About(clerk[k])'
    BY <1>5, Apartness DEF IsWorker, About, Registry!Agents
  <2>2. DOMAIN clerk'[k] = DOMAIN Registry!Resting
    BY <1>5, Rests DEF IsWorker
  <2>3. QED
    BY <1>5, <2>1, <2>2, WorkersKept DEF Kept, Begins
<1>7. ASSUME Registry!Active = {}, n \notin hurt
      PROVE  Staged(clerk[k], n)'
  <2>1. Settled(n)
    BY <1>7 DEF Kept, InOrder, Quiet
  <2>2. was' = was
    BY <1>5 DEF Begins
  <2>3. BackupsOK(n, {})'
    BY <1>3, <2>1, <2>2, BackupsKept, Apartness DEF Settled
  <2>4. BackupOK(n, v)
    BY <1>1, <1>2, <2>1 DEF Settled, Shown, Backed, BackupsOK
  <2>5. Copying(clerk[k], n)'
    <3>1. /\ clerk'[k].op = "rollback" /\ clerk'[k].to = {Home(n)} /\ clerk'[k].prev = {}
          /\ clerk'[k].left = DOMAIN clerk'[k].source /\ Manifest \in DOMAIN clerk'[k].source
          /\ clerk'[k].source[Manifest] \in Packages
      BY <1>5, <2>4 DEF IsWorker, BackupOK
    <3>2. Backed(n, clerk[k].prev)'
      BY <3>1 DEF Backed
    <3>3. Home(n)' = Home(n)
      BY DEF Home
    <3>4. QED
      BY <1>3, <2>3, <3>1, <3>2, <3>3 DEF Copying
  <2>6. QED
    BY <1>5, <2>5 DEF Staged, IsWorker
<1>8. Alone' /\ Loaded' /\ (\A m \in Registry!Agents \ hurt : InOrder(m))'
  BY <1>5, <1>7, BeginKeeps DEF Kept
<1>9. QED
  BY <1>3, <1>5, <1>6, <1>8 DEF Kept, Begins, Registry!Agents

LEMMA RemoveKeeps ==
  ASSUME Kept, NEW k \in Tasks, NEW n \in Registry!Agents, Registry!Remove(k, n)
  PROVE  Kept'
<1>1. /\ Registry!Begin(k, n, [Registry!Resting EXCEPT !.pc = "open", !.op = "remove"])
      /\ dirs' = Registry!Without(dirs, Backup(n, Current))
  BY DEF Registry!Remove, Backup
<1>2. Files' /\ Apart(n) /\ Beside(n, Current) /\ Home(n) \notin DOMAIN dirs'
  BY <1>1, NoDir, Apartness DEF Kept
<1>3. Begins(k, n)
      /\ IsWorker(clerk'[k], "open", "remove", {n}, {}, {}, agents, {}, Registry!Empty, {})
  BY <1>1, <1>2, Begun, Beginning DEF Kept
<1>4. Workers'
  <2>1. About(clerk[k])'
    BY <1>3 DEF IsWorker, About, Registry!Agents
  <2>2. DOMAIN clerk'[k] = DOMAIN Registry!Resting
    BY <1>3, Rests DEF IsWorker
  <2>3. QED
    BY <1>3, <2>1, <2>2, WorkersKept DEF Kept, Begins
<1>5. ASSUME Registry!Active = {}, n \notin hurt
      PROVE  Staged(clerk[k], n)'
  <2>1. BackupsOK(n, {})
    BY <1>5 DEF Kept, InOrder, Quiet, Settled
  <2>2. BackupsOK(n, {})'
    BY <1>2, <1>3, <2>1, BackupsKept, Apartness DEF Begins
  <2>3. Home(n)' = Home(n)
    BY DEF Home
  <2>4. QED
    BY <1>2, <1>3, <2>2, <2>3 DEF Staged, Saving, IsWorker
<1>6. Alone' /\ Loaded' /\ (\A m \in Registry!Agents \ hurt : InOrder(m))'
  BY <1>3, <1>5, BeginKeeps DEF Kept
<1>7. QED
  BY <1>2, <1>3, <1>4, <1>6 DEF Kept, Begins, Registry!Agents

(* What is common to the other actions: the agent of an active task.       *)
LEMMA Acting ==
  ASSUME Workers, NEW k \in Tasks, clerk[k].pc # "idle"
  PROVE  \E n \in Registry!Agents :
           /\ k \in Registry!Active /\ clerk[k].name = {n} /\ About(clerk[k])
           /\ \A d \in clerk[k].to : d[1] = n
           /\ \A p \in clerk[k].package : clerk[k].op = "register" =>
                p \in Packages /\ NameOf[p] = n /\ clerk[k].package = {p}
<1>1. About(clerk[k]) /\ k \in Registry!Active
  BY Rests DEF Workers, IsWorker, Registry!Active
<1>2. PICK n \in Registry!Agents :
        /\ clerk[k].name = {n} /\ (\A d \in clerk[k].to : d[1] = n)
        /\ clerk[k].op = "register" => \E p \in Packages : NameOf[p] = n /\ clerk[k].package = {p}
  BY <1>1 DEF About
<1>3. \A p \in clerk[k].package : clerk[k].op = "register" =>
        p \in Packages /\ NameOf[p] = n /\ clerk[k].package = {p}
  BY <1>2
<1>4. QED
  BY <1>1, <1>2, <1>3

LEMMA CopyFileKeeps ==
  ASSUME Kept, NEW k \in Tasks, Registry!CopyFile(k)
  PROVE  Kept'
<1> DEFINE w == clerk[k]
<1>1. PICK f \in w.left, d \in w.to :
        /\ d \in DOMAIN dirs /\ dirs' = [dirs EXCEPT ![d] = Registry!With(@, f, w.source[f])]
        /\ clerk' = [clerk EXCEPT ![k].left = @ \ {f}]
  BY DEF Registry!CopyFile
<1>2. PICK n \in Registry!Agents :
        k \in Registry!Active /\ w.name = {n} /\ About(w) /\ \A e \in w.to : e[1] = n
  BY Acting DEF Registry!CopyFile, Kept
<1>3. /\ DOMAIN clerk' = Tasks /\ \A j \in Tasks \ {k} : clerk'[j] = clerk[j]
      /\ clerk'[k] = [w EXCEPT !.left = w.left \ {f}]
  BY <1>1 DEF Kept, Workers
<1>4. IsWorker(clerk'[k], w.pc, w.op, w.name, w.package, w.prev, w.records, w.to, w.source, w.left \ {f})
  <2>1. DOMAIN w = DOMAIN Registry!Resting
    BY DEF Kept, Workers
  <2> HIDE DEF w
  <2>2. QED
    BY <1>3, <2>1, FilesLeft
<1>5. /\ DOMAIN dirs' = DOMAIN dirs /\ \A e \in DOMAIN dirs : e # d => dirs'[e] = dirs[e]
      /\ dirs'[d] = Registry!With(dirs[d], f, w.source[f])
  BY <1>1
<1>6. Files'
  <2>1. IsFunction(dirs'[d])
    BY <1>5 DEF IsFunction, Registry!With
  <2>2. QED
    BY <1>5, <2>1 DEF Kept, Files
<1>7. Apart(n)
  BY <1>1, <1>2, <1>5, Apartness DEF Apart
<1>8. agents' = agents /\ was' = was /\ hurt' = hurt
  BY DEF Registry!CopyFile
<1>9. Workers'
  <2>1. About(clerk[k])'
    BY <1>2, <1>4 DEF IsWorker, About, Registry!Agents
  <2>2. DOMAIN clerk'[k] = DOMAIN Registry!Resting
    BY <1>4, Rests DEF IsWorker
  <2>3. QED
    BY <1>3, <2>1, <2>2, WorkersKept DEF Kept
<1>10. GoesOn(k, n)
  BY <1>2, <1>3, <1>4, <1>7, <1>8 DEF GoesOn, IsWorker, Same
<1>11. ASSUME Staged(w, n)
       PROVE  Staged(clerk[k], n)'
  <2>1. CASE w.pc = "backup"
    <3>1. PICK v : /\ v = VersionOf[agents[n].spec] /\ BackingUp(w, n)
      BY <1>11, <2>1 DEF Staged
    <3>2. /\ n \in DOMAIN agents /\ Shown(n, agents[n]) /\ CodeOf(n) \in was[n]
          /\ w.source = CodeOf(n) /\ w.left \subseteq DOMAIN w.source
          /\ w.prev = {v} /\ w.to = {Backup(n, v)} /\ BackupsOK(n, {v})
          /\ dirs[Backup(n, v)] = [g \in DOMAIN w.source \ w.left |-> w.source[g]]
      BY <3>1 DEF BackingUp
    <3>3. d = Backup(n, v)
      BY <3>2
    <3>4. v # Current
      BY <3>1, <3>2, Homes DEF Shown
    <3>5. Beside(n, v)
      BY <1>5, <3>3, Apartness DEF Beside
    <3>6. BackupsOK(n, {v})'
      <4>1. BackupsOK(n, {v} \cup {v})'
        BY <1>8, <3>2, <3>5, BackupsKept
      <4>2. {v} \cup {v} = {v}
        OBVIOUS
      <4>3. QED
        BY <4>1, <4>2
    <3>7. CodeOf(n)' = CodeOf(n) /\ Home(n)' = Home(n)
      BY <3>2, <3>4, <3>5, Apartness DEF Beside, Shown, CodeOf, Home, Backup
    <3>8. Shown(n, agents[n])'
      BY <1>5, <1>8, <3>2, <3>7 DEF Shown, Backed, Backup, Home, Registry!Versions
    <3>9. dirs'[Backup(n, v)] = [g \in DOMAIN w.source \ (w.left \ {f}) |-> w.source[g]]
      BY <1>1, <1>5, <3>2, <3>3 DEF Registry!With
    <3>10. BackingUp(clerk[k], n)'
      <4>1. /\ clerk'[k].source = CodeOf(n)' /\ clerk'[k].left \subseteq DOMAIN clerk'[k].source
            /\ clerk'[k].prev = {v} /\ clerk'[k].to = {Backup(n, v)}
            /\ dirs'[Backup(n, v)] = [g \in DOMAIN clerk'[k].source \ clerk'[k].left |-> clerk'[k].source[g]]
        BY <1>4, <3>2, <3>7, <3>9 DEF IsWorker
      <4>2. v = VersionOf[agents'[n].spec] /\ Backup(n, v)' = Backup(n, v)
        BY <1>8, <3>1 DEF Backup
      <4>3. (n \in DOMAIN agents)' /\ (CodeOf(n) \in was[n])' /\ Backup(n, v) \in DOMAIN dirs'
        BY <1>1, <1>5, <1>8, <3>2, <3>3, <3>7
      <4>4. QED
        BY <3>6, <3>8, <4>1, <4>2, <4>3 DEF BackingUp
    <3>11. QED
      BY <1>4, <2>1, <3>10 DEF Staged, IsWorker
  <2>2. CASE w.pc = "copy"
    <3>1. Copying(w, n)
      BY <1>11, <2>2 DEF Staged
    <3>2. d = Home(n) /\ Home(n) = Backup(n, Current) /\ Home(n)' = Home(n)
      BY <3>1, Apartness DEF Copying, Home
    <3>3. Beside(n, Current)
      BY <1>5, <3>2, Apartness DEF Beside
    <3>4. BackupsOK(n, {})'
      BY <1>8, <3>1, <3>3, Apartness, BackupsKept DEF Copying
    <3>5. Backed(n, clerk[k].prev)'
      BY <1>4, <1>5, <3>1 DEF Copying, Backed, Backup, IsWorker, Registry!Versions
    <3>6. \A g \in DOMAIN w.source \ (w.left \ {f}) :
            g \in DOMAIN dirs'[d] /\ dirs'[d][g] = w.source[g]
      <4>1. /\ DOMAIN dirs'[d] = DOMAIN dirs[d] \cup {f} /\ dirs'[d][f] = w.source[f]
            /\ \A g \in DOMAIN dirs[d] : g # f => dirs'[d][g] = dirs[d][g]
        BY <1>5 DEF Registry!With
      <4>2. QED
        BY <3>1, <3>2, <4>1 DEF Copying, CodeOf
    <3>7. Copying(clerk[k], n)'
      BY <1>4, <1>5, <3>1, <3>2, <3>4, <3>5, <3>6 DEF Copying, IsWorker, CodeOf
    <3>8. QED
      BY <1>4, <2>2, <3>7 DEF Staged, IsWorker
  <2>3. QED
    BY <2>1, <2>2 DEF Registry!CopyFile
<1>12. clerk'[k].pc # "idle"
  BY <1>4 DEF IsWorker, Registry!CopyFile
<1>13. Alone' /\ (\A m \in Registry!Agents \ hurt : InOrder(m))'
  BY <1>10, <1>11, <1>12, GoOnKeeps DEF Kept
<1>14. Loaded'
  <2>1. \A j \in Registry!Active' : j \in Registry!Active /\ clerk'[j].name = clerk[j].name
                                      /\ clerk'[j].records = clerk[j].records
    BY <1>2, <1>3, <1>4 DEF Registry!Active, IsWorker
  <2>2. QED
    BY <1>8, <2>1 DEF Kept, Loaded, Registry!Agents, Same
<1>15. QED
  BY <1>6, <1>8, <1>9, <1>13, <1>14 DEF Kept, Registry!Agents

LEMMA BackedUpKeeps ==
  ASSUME Kept, NEW k \in Tasks, Registry!BackedUp(k)
  PROVE  Kept'
<1> DEFINE w == clerk[k]
<1>1. w.pc = "backup" /\ w.left = {}
  BY DEF Registry!BackedUp
<1>2. PICK p \in w.package :
        /\ clerk' = [clerk EXCEPT ![k] = [Registry!CopyPackage(p) EXCEPT
             !.name = clerk[k].name, !.prev = clerk[k].prev, !.records = clerk[k].records]]
        /\ dirs' = Registry!Made(Registry!Dir(NameOf[p], Current))
  BY DEF Registry!BackedUp
<1>3. PICK n \in Registry!Agents :
        /\ k \in Registry!Active /\ w.name = {n} /\ About(w) /\ p \in Packages /\ NameOf[p] = n
        /\ w.package = {p}
  <2>1. w.op = "register"
    BY <1>1, Acting DEF Kept, About
  <2>2. QED
    BY <1>1, <1>2, <2>1, Acting DEF Kept
<1>4. /\ DOMAIN clerk' = Tasks /\ \A j \in Tasks \ {k} : clerk'[j] = clerk[j]
      /\ clerk'[k] = [Registry!CopyPackage(p) EXCEPT
           !.name = clerk[k].name, !.prev = clerk[k].prev, !.records = clerk[k].records]
  BY <1>2 DEF Kept, Workers
<1>5. IsWorker(clerk'[k], "copy", "register", w.name, {p}, w.prev, w.records, {Home(n)},
               [f \in Contents[p] |-> p], Contents[p])
  <2> HIDE DEF w
  <2>1. IsWorker([Registry!CopyPackage(p) EXCEPT
                    !.name = w.name, !.prev = w.prev, !.records = w.records],
                 "copy", "register", w.name, {p}, w.prev, w.records, {Home(NameOf[p])},
                 [f \in Contents[p] |-> p], Contents[p])
    BY Resumed
  <2>2. QED
    BY <1>3, <1>4, <2>1 DEF w
<1>6. /\ Files' /\ Apart(n) /\ Beside(n, Current) /\ Home(n) \in DOMAIN dirs'
      /\ Home(n) \in DOMAIN dirs => dirs' = dirs
  BY <1>2, <1>3, MadeHome DEF Kept
<1>7. agents' = agents /\ was' = was /\ hurt' = hurt
  BY DEF Registry!BackedUp
<1>8. Workers'
  <2>1. About(clerk[k])'
    BY <1>3, <1>5, Apartness DEF IsWorker, About, Registry!Agents
  <2>2. DOMAIN clerk'[k] = DOMAIN Registry!Resting
    BY <1>5, Rests DEF IsWorker
  <2>3. QED
    BY <1>4, <2>1, <2>2, WorkersKept DEF Kept
<1>9. GoesOn(k, n)
  BY <1>3, <1>4, <1>5, <1>6, <1>7 DEF GoesOn, IsWorker, Same
<1>10. ASSUME Staged(w, n)
       PROVE  Staged(clerk[k], n)'
  <2>1. PICK v : v = VersionOf[agents[n].spec] /\ BackingUp(w, n)
    BY <1>1, <1>10 DEF Staged
  <2>2. /\ Shown(n, agents[n]) /\ CodeOf(n) \in was[n] /\ w.source = CodeOf(n)
        /\ w.prev = {v} /\ BackupsOK(n, {v}) /\ Backup(n, v) \in DOMAIN dirs
        /\ dirs[Backup(n, v)] = [g \in DOMAIN w.source \ w.left |-> w.source[g]]
    BY <2>1 DEF BackingUp
  <2>3. v \in Registry!Versions
    BY <2>1, <2>2, Homes DEF Shown
  <2>4. dirs[Backup(n, v)] = CodeOf(n)
    <3>1. IsFunction(CodeOf(n))
      BY <2>2 DEF Kept, Files, Shown, CodeOf
    <3>2. DOMAIN w.source \ w.left = DOMAIN w.source
      BY <1>1
    <3>3. QED
      BY <2>2, <3>1, <3>2 DEF IsFunction
  <2>5. BackupOK(n, v)
    BY <2>1, <2>2, <2>4 DEF BackupOK, Shown
  <2>6. dirs' = dirs
    BY <1>6, <2>2 DEF Shown
  <2>7. BackupsOK(n, {})'
    BY <1>7, <2>2, <2>5, <2>6 DEF BackupsOK, BackupOK, Backup, Registry!Versions
  <2>8. Backed(n, clerk[k].prev)'
    BY <1>5, <2>2, <2>3, <2>6 DEF IsWorker, Backed, Backup, Registry!Versions
  <2>9. Copying(clerk[k], n)'
    <3>1. /\ clerk'[k].op = "register" /\ clerk'[k].to = {Home(n)}
          /\ clerk'[k].left = DOMAIN clerk'[k].source /\ Manifest \in DOMAIN clerk'[k].source
          /\ clerk'[k].source[Manifest] = p /\ clerk'[k].package = {p}
      BY <1>3, <1>5, Homes DEF IsWorker
    <3>2. Home(n)' = Home(n)
      BY DEF Home
    <3>3. QED
      BY <1>3, <1>6, <2>7, <2>8, <3>1, <3>2 DEF Copying
  <2>10. QED
    BY <1>5, <2>9 DEF Staged, IsWorker
<1>11. Alone' /\ (\A m \in Registry!Agents \ hurt : InOrder(m))'
  BY <1>5, <1>9, <1>10, GoOnKeeps DEF Kept, IsWorker
<1>12. Loaded'
  <2>1. \A j \in Registry!Active' : j \in Registry!Active /\ clerk'[j].name = clerk[j].name
                                      /\ clerk'[j].records = clerk[j].records
    BY <1>3, <1>4, <1>5 DEF Registry!Active, IsWorker
  <2>2. QED
    BY <1>7, <2>1 DEF Kept, Loaded, Registry!Agents, Same
<1>13. QED
  BY <1>6, <1>7, <1>8, <1>11, <1>12 DEF Kept, Registry!Agents

LEMMA CopiedKeeps ==
  ASSUME Kept, NEW k \in Tasks, Registry!Copied(k)
  PROVE  Kept'
<1> DEFINE w == clerk[k]
<1>1. w.pc = "copy" /\ w.left = {}
  BY DEF Registry!Copied
<1>2. PICK n \in w.name :
        clerk' = [clerk EXCEPT ![k].pc = "open", ![k].records = Registry!Recorded(k, n)]
  BY DEF Registry!Copied
<1>3. /\ n \in Registry!Agents /\ k \in Registry!Active /\ w.name = {n} /\ About(w)
      /\ \A d \in w.to : d[1] = n
  BY <1>1, <1>2, Acting DEF Kept
<1>4. /\ DOMAIN clerk' = Tasks /\ \A j \in Tasks \ {k} : clerk'[j] = clerk[j]
      /\ clerk'[k] = [w EXCEPT !.pc = "open", !.records = Registry!Recorded(k, n)]
  BY <1>2 DEF Kept, Workers
<1>5. IsWorker(clerk'[k], "open", w.op, w.name, w.package, w.prev, Registry!Recorded(k, n), w.to, w.source,
               w.left)
  <2>1. DOMAIN w = DOMAIN Registry!Resting
    BY DEF Kept, Workers
  <2> HIDE DEF w
  <2>2. QED
    BY <1>4, <2>1, Rests DEF IsWorker
<1>6. dirs' = dirs /\ agents' = agents /\ was' = was /\ hurt' = hurt
  BY DEF Registry!Copied
<1>7. Files' /\ Apart(n)
  BY <1>6 DEF Kept, Files, Apart
<1>8. Workers'
  <2>1. About(clerk[k])'
    BY <1>3, <1>5 DEF IsWorker, About, Registry!Agents
  <2>2. DOMAIN clerk'[k] = DOMAIN Registry!Resting
    BY <1>5, Rests DEF IsWorker
  <2>3. QED
    BY <1>4, <2>1, <2>2, WorkersKept DEF Kept
<1>9. GoesOn(k, n)
  BY <1>3, <1>4, <1>5, <1>6, <1>7 DEF GoesOn, IsWorker, Same
<1>10. \/ /\ w.op = "register"
          /\ Registry!Recorded(k, n) =
               Registry!With(w.records, n, [spec |-> CHOOSE p \in w.package : TRUE, prev |-> w.prev])
       \/ /\ w.op = "rollback"
          /\ Registry!Recorded(k, n) =
               Registry!With(w.records, n, [spec |-> CodeOf(n)[Manifest], prev |-> {}])
  BY <1>1, <1>3 DEF About, Registry!Recorded, CodeOf, Home
<1>11. ASSUME Staged(w, n)
       PROVE  Staged(clerk[k], n)'
  <2>1. Copying(w, n)
    BY <1>1, <1>11 DEF Staged
  <2>2. /\ Manifest \in DOMAIN CodeOf(n) /\ CodeOf(n)[Manifest] = w.source[Manifest]
        /\ Home(n) \in DOMAIN dirs /\ CodeOf(n)[Manifest] \in Packages
    BY <1>1, <2>1 DEF Copying
  <2>3. /\ n \in DOMAIN Registry!Recorded(k, n)
        /\ Registry!Recorded(k, n)[n].spec = CodeOf(n)[Manifest]
        /\ Backed(n, Registry!Recorded(k, n)[n].prev)
    <3>1. CASE /\ w.op = "register"
               /\ Registry!Recorded(k, n) =
                    Registry!With(w.records, n, [spec |-> CHOOSE p \in w.package : TRUE, prev |-> w.prev])
      <4>1. (CHOOSE p \in w.package : TRUE) = CodeOf(n)[Manifest]
        BY <2>1, <2>2, <3>1 DEF Copying
      <4>2. Backed(n, w.prev)
        BY <2>1 DEF Copying
      <4>3. QED
        <5> DEFINE e == [spec |-> CHOOSE p \in w.package : TRUE, prev |-> w.prev]
        <5>1. e.spec = CodeOf(n)[Manifest] /\ e.prev = w.prev
          BY <4>1
        <5>2. n \in DOMAIN Registry!Recorded(k, n) /\ Registry!Recorded(k, n)[n] = e
          BY <3>1 DEF Registry!With
        <5> HIDE DEF e
        <5>3. QED
          BY <4>2, <5>1, <5>2
    <3>2. CASE /\ w.op = "rollback"
               /\ Registry!Recorded(k, n) =
                    Registry!With(w.records, n, [spec |-> CodeOf(n)[Manifest], prev |-> {}])
      BY <3>2 DEF Registry!With, Backed
    <3>3. QED
      BY <1>10, <3>1, <3>2
  <2>4. Shown(n, clerk[k].records[n])'
    <3>1. clerk'[k].records = Registry!Recorded(k, n)
      BY <1>5 DEF IsWorker
    <3>2. Backed(n, clerk[k].records[n].prev)'
      BY <1>6, <2>3, <3>1 DEF Backed, Backup, Registry!Versions
    <3>3. QED
      BY <1>6, <2>2, <2>3, <3>1, <3>2 DEF Shown, Home, CodeOf
  <2>5. BackupsOK(n, {})'
    BY <1>6, <2>1 DEF Copying, BackupsOK, BackupOK, Backup, Registry!Versions
  <2>6. clerk'[k].op # "remove" /\ n \in DOMAIN clerk'[k].records /\ clerk'[k].pc = "open"
    BY <1>5, <1>10, <2>3 DEF IsWorker
  <2>7. QED
    BY <2>4, <2>5, <2>6 DEF Staged, Saving
<1>12. Alone' /\ (\A m \in Registry!Agents \ hurt : InOrder(m))'
  BY <1>5, <1>9, <1>11, GoOnKeeps DEF Kept, IsWorker
<1>13. Loaded'
  <2> SUFFICES ASSUME NEW j \in Registry!Active', NEW m \in Registry!Agents \ (hurt' \cup clerk'[j].name)
               PROVE  Same(clerk'[j].records, agents', m)
    BY DEF Loaded, Registry!Agents
  <2>1. CASE j = k
    <3>1. m # n /\ Same(w.records, agents, m)
      BY <1>3, <1>5, <1>6, <2>1 DEF Kept, Loaded, IsWorker
    <3>2. QED
      BY <1>5, <1>6, <1>10, <2>1, <3>1 DEF Same, IsWorker, Registry!With
  <2>2. CASE j # k
    BY <1>4, <1>6, <2>2 DEF Kept, Loaded, Registry!Active
  <2>3. QED
    BY <2>1, <2>2
<1>14. QED
  BY <1>6, <1>7, <1>8, <1>12, <1>13 DEF Kept, Registry!Agents

LEMMA OpenKeeps ==
  ASSUME Kept, NEW k \in Tasks, Registry!Open(k)
  PROVE  Kept'
<1> DEFINE w == clerk[k]
           r == IF w.op = "remove" THEN Registry!Recorded(k, CHOOSE n \in Registry!NamesOf(k) : TRUE)
                ELSE w.records
<1>1. w.pc = "open"
  BY DEF Registry!Open
<1>2. PICK n \in Registry!Agents : k \in Registry!Active /\ w.name = {n} /\ About(w)
  BY <1>1, Acting DEF Kept
<1>3. /\ DOMAIN clerk' = Tasks /\ \A j \in Tasks \ {k} : clerk'[j] = clerk[j]
      /\ clerk'[k] = [w EXCEPT !.pc = "write", !.records = r]
  BY DEF Kept, Workers, Registry!Open
<1>4. IF w.op = "remove" THEN r = Registry!Without(w.records, n) ELSE r = w.records
  <2>1. (CHOOSE m \in Registry!NamesOf(k) : TRUE) = n
    BY <1>2 DEF Registry!NamesOf
  <2>2. QED
    BY <2>1 DEF Registry!Recorded
<1> HIDE DEF r
<1>5. IsWorker(clerk'[k], "write", w.op, w.name, w.package, w.prev, r, w.to, w.source, w.left)
  <2>1. DOMAIN w = DOMAIN Registry!Resting
    BY DEF Kept, Workers
  <2> HIDE DEF w
  <2>2. QED
    BY <1>3, <2>1, Rests DEF IsWorker
<1>6. dirs' = dirs /\ agents' = agents /\ was' = was /\ hurt' = hurt
  BY DEF Registry!Open
<1>7. Files' /\ Apart(n)
  BY <1>6 DEF Kept, Files, Apart
<1>8. Workers'
  <2>1. About(clerk[k])'
    BY <1>2, <1>5 DEF IsWorker, About, Registry!Agents
  <2>2. DOMAIN clerk'[k] = DOMAIN Registry!Resting
    BY <1>5, Rests DEF IsWorker
  <2>3. QED
    BY <1>3, <2>1, <2>2, WorkersKept DEF Kept
<1>9. GoesOn(k, n)
  BY <1>2, <1>3, <1>5, <1>6, <1>7 DEF GoesOn, IsWorker, Same
<1>10. ASSUME Staged(w, n)
       PROVE  Staged(clerk[k], n)'
  <2>1. Saving(w, n)
    BY <1>1, <1>10 DEF Staged
  <2>2. BackupsOK(n, {})'
    BY <1>6, <2>1 DEF Saving, BackupsOK, BackupOK, Backup, Registry!Versions
  <2>3. CASE w.op = "remove"
    <3>1. clerk'[k].op = "remove" /\ clerk'[k].pc = "write" /\ n \notin DOMAIN clerk'[k].records
      BY <1>4, <1>5, <2>3 DEF IsWorker, Registry!Without, Registry!Restrict
    <3>2. Home(n)' \notin DOMAIN dirs'
      BY <1>6, <2>1, <2>3 DEF Saving, Home
    <3>3. QED
      BY <2>2, <3>1, <3>2 DEF Staged, Saving
  <2>4. CASE w.op # "remove"
    <3>1. /\ clerk'[k].op # "remove" /\ clerk'[k].pc = "write" /\ clerk'[k].records = w.records
          /\ n \in DOMAIN w.records /\ Shown(n, w.records[n])
      BY <1>4, <1>5, <2>1, <2>4 DEF IsWorker, Saving
    <3>2. Shown(n, clerk[k].records[n])'
      BY <1>6, <3>1 DEF Shown, Home, CodeOf, Backed, Backup, Registry!Versions
    <3>3. QED
      BY <2>2, <3>1, <3>2 DEF Staged, Saving
  <2>5. QED
    BY <2>3, <2>4
<1>11. Alone' /\ (\A m \in Registry!Agents \ hurt : InOrder(m))'
  BY <1>5, <1>9, <1>10, GoOnKeeps DEF Kept, IsWorker
<1>12. Loaded'
  <2> SUFFICES ASSUME NEW j \in Registry!Active', NEW m \in Registry!Agents \ (hurt' \cup clerk'[j].name)
               PROVE  Same(clerk'[j].records, agents', m)
    BY DEF Loaded, Registry!Agents
  <2>1. CASE j = k
    <3>1. m # n /\ Same(w.records, agents, m)
      BY <1>2, <1>5, <1>6, <2>1 DEF Kept, Loaded, IsWorker
    <3>2. QED
      BY <1>4, <1>5, <1>6, <2>1, <3>1 DEF Same, IsWorker, Registry!Without, Registry!Restrict
  <2>2. CASE j # k
    BY <1>3, <1>6, <2>2 DEF Kept, Loaded, Registry!Active
  <2>3. QED
    BY <2>1, <2>2
<1>13. QED
  BY <1>6, <1>7, <1>8, <1>11, <1>12 DEF Kept, Registry!Agents

LEMMA WriteKeeps ==
  ASSUME Kept, NEW k \in Tasks, Registry!Write(k)
  PROVE  Kept'
<1> DEFINE w == clerk[k]
<1>1. w.pc = "write"
  BY DEF Registry!Write
<1>2. PICK n \in Registry!Agents : k \in Registry!Active /\ w.name = {n} /\ About(w)
  BY <1>1, Acting DEF Kept
<1>3. /\ DOMAIN clerk' = Tasks /\ \A j \in Tasks \ {k} : clerk'[j] = clerk[j]
      /\ clerk'[k] = Registry!Resting
  BY DEF Kept, Workers, Registry!Write
<1>4. dirs' = dirs /\ agents' = w.records /\ hurt' = hurt
  BY DEF Registry!Write
<1>5. /\ DOMAIN was' = Registry!Agents
      /\ \A m \in Registry!Agents : was[m] \subseteq was'[m]
      /\ n \notin hurt /\ Home(n) \in DOMAIN dirs => CodeOf(n) \in was'[n]
  BY <1>2 DEF Registry!Write, Registry!NamesOf, Home, CodeOf
<1>6. Files' /\ Apart(n)
  BY <1>4 DEF Kept, Files, Apart
<1>7. Workers'
  BY <1>3, WorkersKept DEF Kept
<1>8. \A m \in Registry!Agents \ {n} : m \notin hurt => Same(agents', agents, m)
  BY <1>2, <1>4 DEF Kept, Loaded
<1>9. GoesOn(k, n)
  BY <1>2, <1>3, <1>4, <1>5, <1>6, <1>8, Rests DEF GoesOn, IsWorker
<1>10. clerk'[k].pc = "idle"
  BY <1>3, Rests DEF IsWorker
<1>11. ASSUME Staged(w, n), n \notin hurt'
       PROVE  Settled(n)'
  <2>1. Saving(w, n)
    BY <1>1, <1>11 DEF Staged
  <2>2. BackupsOK(n, {})'
    BY <1>4, <1>5, <2>1 DEF Saving, BackupsOK, BackupOK, Backup, Registry!Versions
  <2>3. CASE w.op = "remove"
    <3>1. Home(n)' \notin DOMAIN dirs' /\ n \notin DOMAIN agents'
      BY <1>1, <1>4, <2>1, <2>3 DEF Saving, Home
    <3>2. QED
      BY <2>2, <3>1 DEF Settled
  <2>4. CASE w.op # "remove"
    <3>1. n \in DOMAIN agents' /\ Shown(n, w.records[n])
      BY <1>4, <2>1, <2>4 DEF Saving
    <3>2. Shown(n, agents[n])'
      BY <1>4, <3>1 DEF Shown, Home, CodeOf, Backed, Backup, Registry!Versions
    <3>3. (CodeOf(n) \in was[n])' /\ Home(n)' \in DOMAIN dirs'
      BY <1>4, <1>5, <1>11, <3>1 DEF Shown, Home, CodeOf
    <3>4. QED
      BY <2>2, <3>1, <3>2, <3>3 DEF Settled
  <2>5. QED
    BY <2>3, <2>4
<1>12. Alone' /\ (\A m \in Registry!Agents \ hurt : InOrder(m))'
  BY <1>9, <1>10, <1>11, GoOnKeeps DEF Kept
<1>13. Loaded'
  <2> SUFFICES ASSUME NEW j \in Registry!Active', NEW m \in Registry!Agents \ (hurt' \cup clerk'[j].name)
               PROVE  Same(clerk'[j].records, agents', m)
    BY DEF Loaded, Registry!Agents
  <2>1. j # k /\ j \in Registry!Active /\ clerk'[j] = clerk[j]
    BY <1>3, <1>10 DEF Registry!Active
  <2>2. w.name \subseteq hurt
    BY <1>2, <2>1 DEF Kept, Alone
  <2>3. m \notin w.name /\ m \notin hurt /\ m \notin clerk[j].name
    BY <1>4, <2>1, <2>2
  <2>4. Same(w.records, agents, m) /\ Same(clerk[j].records, agents, m)
    BY <1>2, <2>1, <2>3 DEF Kept, Loaded
  <2>5. QED
    BY <1>4, <2>1, <2>4 DEF Same
<1>14. QED
  BY <1>4, <1>5, <1>6, <1>7, <1>12, <1>13 DEF Kept, Registry!Agents

LEMMA FailKeeps ==
  ASSUME Kept, NEW k \in Tasks, Registry!Fail(k)
  PROVE  Kept'
<1> DEFINE w == clerk[k]
<1>1. w.pc # "idle"
  BY DEF Registry!Fail
<1>2. PICK n \in Registry!Agents :
        /\ k \in Registry!Active /\ w.name = {n} /\ About(w) /\ \A d \in w.to : d[1] = n
  BY <1>1, Acting DEF Kept
<1>3. /\ DOMAIN clerk' = Tasks /\ \A j \in Tasks \ {k} : clerk'[j] = clerk[j]
      /\ \/ clerk'[k] = Registry!Resting
         \/ clerk'[k] = [w EXCEPT !.left = {}]
  BY DEF Kept, Workers, Registry!Fail
<1>4. dirs' = dirs /\ agents' = agents /\ was' = was /\ hurt' = hurt \cup {n}
  BY <1>2 DEF Registry!Fail, Registry!NamesOf
<1>5. clerk'[k] = Registry!Resting
      \/ IsWorker(clerk'[k], w.pc, w.op, w.name, w.package, w.prev, w.records, w.to, w.source, {})
  <2>1. DOMAIN w = DOMAIN Registry!Resting
    BY DEF Kept, Workers
  <2> HIDE DEF w
  <2>2. QED
    BY <1>3, <2>1, FilesLeft
<1>6. Files' /\ Apart(n)
  BY <1>4 DEF Kept, Files, Apart
<1>7. Workers'
  <2>1. clerk'[k] # Registry!Resting => About(clerk[k])'
    BY <1>2, <1>5 DEF IsWorker, About, Registry!Agents
  <2>2. DOMAIN clerk'[k] = DOMAIN Registry!Resting
    BY <1>5, Rests DEF IsWorker
  <2>3. QED
    BY <1>3, <2>1, <2>2, WorkersKept DEF Kept
<1>8. GoesOn(k, n)
  BY <1>2, <1>3, <1>4, <1>5, <1>6, Rests DEF GoesOn, IsWorker, Same
<1>9. Alone' /\ (\A m \in Registry!Agents \ hurt : InOrder(m))'
  BY <1>4, <1>8, GoOnKeeps DEF Kept
<1>10. Loaded'
  <2>1. \A j \in Registry!Active' : j \in Registry!Active /\ clerk'[j].name = clerk[j].name
                                      /\ clerk'[j].records = clerk[j].records
    BY <1>2, <1>3, <1>5, Rests DEF Registry!Active, IsWorker
  <2>2. QED
    BY <1>4, <2>1 DEF Kept, Loaded, Registry!Agents, Same
<1>11. QED
  BY <1>4, <1>6, <1>7, <1>9, <1>10 DEF Kept, Registry!Agents

-----------------------------------------------------------------------------
LEMMA AgentInit ==
  ASSUME Init
  PROVE  AgentInv
<1>1. /\ agents = Registry!Empty /\ dirs = Registry!Empty /\ hurt = {}
      /\ clerk = [k \in Tasks |-> Registry!Resting]
      /\ was = [n \in Registry!Agents |-> {}]
  BY DEF Init, Registry!GInit
<1>2. DOMAIN agents = {} /\ DOMAIN dirs = {}
  BY <1>1 DEF Registry!Empty
<1>3. Registry!Active = {}
  BY <1>1, Rests DEF Registry!Active, IsWorker
<1>4. Workers
  BY <1>1 DEF Workers
<1>5. ASSUME NEW n \in Registry!Agents
      PROVE  InOrder(n)
  BY <1>2, <1>3 DEF InOrder, Settled, BackupsOK
<1>6. QED
  BY <1>1, <1>2, <1>3, <1>4, <1>5 DEF AgentInv, Kept, Files, Alone, Loaded

LEMMA AgentNext ==
  ASSUME AgentInv, [Next]_vars
  PROVE  AgentInv'
<1> SUFFICES ASSUME part' = "agents"
             PROVE  Kept'
  BY DEF AgentInv
<1>1. part = "agents"
  BY DEF Next, vars
<1>2. Kept
  BY <1>1 DEF AgentInv
<1>3. Registry!GNext \/ UNCHANGED Registry!gvars
  BY <1>1, AgentSteps
<1>4. ASSUME NEW k \in Tasks, NEW p \in Packages, Registry!Register(k, p)
      PROVE  Kept'
  BY <1>2, <1>4, RegisterKeeps
<1>5. ASSUME NEW k \in Tasks, NEW n \in Registry!Agents, Registry!Rollback(k, n) \/ Registry!Remove(k, n)
      PROVE  Kept'
  BY <1>2, <1>5, RollbackKeeps, RemoveKeeps
<1>6. ASSUME NEW k \in Tasks, Registry!CopyFile(k) \/ Registry!BackedUp(k) \/ Registry!Copied(k)
                                \/ Registry!Open(k) \/ Registry!Write(k) \/ Registry!Fail(k)
      PROVE  Kept'
  BY <1>2, <1>6, CopyFileKeeps, BackedUpKeeps, CopiedKeeps, OpenKeeps, WriteKeeps, FailKeeps
<1>7. CASE UNCHANGED Registry!gvars
  <2>1. dirs' = dirs /\ agents' = agents /\ was' = was /\ hurt' = hurt /\ clerk' = clerk
    BY <1>7 DEF Registry!gvars
  <2>2. Registry!Active' = Registry!Active
    BY <2>1 DEF Registry!Active
  <2>3. Workers' /\ Files'
    BY <1>2, <2>1 DEF Kept, Workers, About, Files, Registry!Resting, Registry!Empty, Registry!Agents
  <2>4. Alone' /\ Loaded'
    BY <1>2, <2>1, <2>2 DEF Kept, Alone, Loaded, Same, Registry!Agents
  <2>5. ASSUME NEW n \in Registry!Agents, n \notin hurt
        PROVE  InOrder(n)'
    <3>1. InOrder(n)
      BY <1>2, <2>5 DEF Kept
    <3>2. Settled(n)' <=> Settled(n)
      BY <2>1 DEF Settled, Shown, Backed, BackupsOK, BackupOK, CodeOf, Home, Backup, Registry!Versions
    <3>3. \A k \in Registry!Active : Staged(clerk[k], n) => Staged(clerk[k], n)'
      BY <2>1 DEF Staged, BackingUp, Copying, Saving, Shown, Backed, BackupsOK, BackupOK, CodeOf, Home,
           Backup, Registry!Versions
    <3>4. QED
      BY <2>1, <2>2, <3>1, <3>2, <3>3 DEF InOrder, Quiet
  <2>6. QED
    BY <1>2, <2>1, <2>3, <2>4, <2>5 DEF Kept, Registry!Agents
<1>8. QED
  BY <1>3, <1>4, <1>5, <1>6, <1>7 DEF Registry!GNext

LEMMA AgentsHold == Spec => []AgentInv
<1>1. Init => AgentInv
  BY AgentInit
<1>2. AgentInv /\ [Next]_vars => AgentInv'
  BY AgentNext
<1>3. QED
  BY <1>1, <1>2, PTL DEF Spec

(* An agent whose changes neither overlapped nor failed is in the registry *)
(* exactly if there is code to start, the registry shows the agent.yaml of *)
(* that code, and the previous version can be returned to: see             *)
(* AgentRegistry.                                                          *)
THEOREM Truthful == Spec => []RegistryTruthful
<1>1. AgentInv => RegistryTruthful
  <2> SUFFICES ASSUME AgentInv, part = "agents", Registry!Active = {},
                      NEW n \in Registry!Agents \ hurt
               PROVE
                 /\ n \in DOMAIN agents <=> Home(n) \in DOMAIN dirs
                 /\ n \in DOMAIN agents =>
                      /\ Manifest \in DOMAIN dirs[Home(n)]
                      /\ dirs[Home(n)][Manifest] = agents[n].spec
                      /\ \A v \in agents[n].prev :
                           /\ Backup(n, v) \in DOMAIN dirs /\ dirs[Backup(n, v)] \in was[n]
                           /\ VersionOf[dirs[Backup(n, v)][Manifest]] = v
    BY DEF RegistryTruthful, Registry!RegistryTruthful, Home, Backup
  <2>1. Settled(n)
    BY DEF AgentInv, Kept, InOrder, Quiet
  <2>2. QED
    BY <2>1 DEF Settled, Shown, Backed, BackupsOK, BackupOK, CodeOf
<1>2. QED
  BY <1>1, AgentsHold, PTL

-----------------------------------------------------------------------------
(* Groups.  A copy of a tenant's list that nothing has crossed lacks only  *)
(* records of the agent that is being stopped, whose processes are gone.   *)
Heading(w) == Head(w.todo)
CopyTrue(w) ==
  Groups!Tenant(Heading(w)) \notin crossed =>
    /\ w.list \subseteq Groups!List(Groups!Tenant(Heading(w)))
    /\ \A r \in Groups!List(Groups!Tenant(Heading(w))) \ w.list : r.slot = Heading(w) /\ r \notin alive

(* A group's file, or a copy of it.                                        *)
Proper(groups) ==
  /\ \A g, h \in groups : g = h
  /\ \A g \in groups : DOMAIN g = {"members", "status"} /\ g.members \in Seq(Slots)

(* What holds of every request, whatever it met.                           *)
Busy(w) ==
  /\ w.pc \in {"mark", "put", "run", "list", "stop", "kill"}
  /\ w.op \in {"run", "stop", "runone", "stopone"}
  /\ w.todo \in Seq(Slots) /\ Proper(w.copy)
  /\ w.pc \in {"run", "list"} => w.op \in {"run", "runone"}
  /\ w.pc \in {"stop", "kill"} => w.op \in {"stop", "stopone"}
  /\ w.pc \in {"mark", "put"} =>
       \/ w.op = "run" /\ w.status = "starting"
       \/ w.op = "stop" /\ w.status = "stopping"
       \/ w.op \in {"run", "stop"} /\ w.todo = <<>> /\ w.status = Groups!Outcome(w)
  /\ w.pc \in {"list", "kill"} => w.todo # <<>> /\ \A r \in w.left : r.slot = Heading(w)
  /\ w.pc = "kill" => CopyTrue(w) /\ \A r \in w.list : Groups!Tenant(r.slot) = Groups!Tenant(Heading(w))
  /\ w.pc = "kill" /\ w.op = "stop" => Groups!Of(w.list, Heading(w)) = w.left
  /\ w.op \in {"runone", "stopone"} => Groups!Range(w.todo) \subseteq later

GroupWorkers ==
  /\ DOMAIN worker = Tasks
  /\ \A k \in Tasks :
       /\ DOMAIN worker[k] = DOMAIN Groups!Asleep
       /\ worker[k] = Groups!Asleep \/ Busy(worker[k])

(* Processes have numbers of their own.                                    *)
Numbered ==
  /\ born \in Nat
  /\ \A r \in lists \cup alive : r.pid \in 1..born
  /\ \A k \in Tasks : \A r \in worker[k].left \cup worker[k].list : r.pid \in 1..born

(* A live process has a record, unless its start is about to add it.       *)
OnList ==
  \A p \in alive : Groups!Tenant(p.slot) \notin crossed =>
    p \in lists \/ \E k \in Tasks : worker[k].pc = "list" /\ p \in worker[k].left

Believed(s) == s \notin later /\ Groups!Tenant(s) \notin crossed
Runs(s) == Believed(s) => Groups!Of(lists \cap alive, s) # {}
Halts(s) == Believed(s) => Groups!Of(lists \cup alive, s) = {}

(* The group while no request for it is under way ...                      *)
AtRest ==
  \A g \in group :
    /\ g.status \notin {"starting", "stopping"}
    /\ \A s \in Groups!Range(g.members) :
         (g.status = "running" => Runs(s)) /\ (g.status = "stopped" => Halts(s))

(* ... and while one is: what it has done so far.                          *)
UnderWay(w) ==
  /\ w.pc = "put" => w.copy = group
  /\ w.pc = "list" /\ Believed(Heading(w)) => w.left \cap alive # {}
  /\ \A g \in group : \A s \in Groups!Range(g.members) \ Groups!Range(w.todo) :
       (w.op = "run" /\ ~w.failed => Runs(s)) /\ (w.op = "stop" => Halts(s))

Unmuddled ==
  /\ Groups!GroupTasks = {} => AtRest
  /\ \A k \in Groups!GroupTasks : Groups!GroupTasks = {k} /\ UnderWay(worker[k])

GroupKept ==
  /\ GroupWorkers /\ Numbered /\ OnList
  /\ Proper(group)
  /\ ~muddled => Unmuddled

GroupInv == part = "groups" => GroupKept

-----------------------------------------------------------------------------
(* A step of the node is one of the groups, when it is about them.         *)
LEMMA GroupSteps ==
  ASSUME [Next]_vars, part = "groups"
  PROVE  part' = part /\ (Groups!NNext \/ UNCHANGED Groups!groupVars)
<1>1. CASE Next
  BY <1>1 DEF Next
<1>2. CASE UNCHANGED vars
  BY <1>2 DEF vars, groupVars, Groups!groupVars
<1>3. QED
  BY <1>1, <1>2

IsTask(w, pc, op, stage, copy, todo, list, left, failed) ==
  /\ DOMAIN w = {"pc", "op", "status", "copy", "todo", "list", "left", "failed"}
  /\ w.pc = pc /\ w.op = op /\ w.status = stage /\ w.copy = copy /\ w.todo = todo
  /\ w.list = list /\ w.left = left /\ w.failed = failed

(* A task that does nothing.                                               *)
LEMMA Sleeps == IsTask(Groups!Asleep, "idle", "none", "idle", {}, <<>>, {}, {}, FALSE)
BY DEF IsTask, Groups!Asleep

(* What a sequence of agents holds.                                        *)
LEMMA Ranges ==
  ASSUME NEW q \in Seq(Slots)
  PROVE  /\ Groups!Range(q) \subseteq Slots
         /\ q = <<>> => Groups!Range(q) = {}
         /\ q # <<>> => /\ Tail(q) \in Seq(Slots) /\ Head(q) \in Slots
                        /\ Groups!Range(q) = {Head(q)} \cup Groups!Range(Tail(q))
<1>1. Groups!Range(q) = {q[i] : i \in 1..Len(q)}
  BY DEF Groups!Range
<1>2. Groups!Range(q) \subseteq Slots
  BY <1>1
<1>3. q = <<>> => Groups!Range(q) = {}
  BY <1>1
<1>4. ASSUME q # <<>>
      PROVE  /\ Tail(q) \in Seq(Slots) /\ Head(q) \in Slots
             /\ Groups!Range(q) = {Head(q)} \cup Groups!Range(Tail(q))
  <2>1. /\ Tail(q) \in Seq(Slots) /\ Head(q) \in Slots /\ Head(q) = q[1]
        /\ Len(q) \in Nat /\ Len(q) >= 1 /\ Len(Tail(q)) = Len(q) - 1
        /\ \A i \in 1..Len(Tail(q)) : Tail(q)[i] = q[i + 1]
    BY <1>4
  <2>2. Groups!Range(Tail(q)) = {Tail(q)[i] : i \in 1..Len(Tail(q))}
    <3>1. DOMAIN Tail(q) = 1..Len(Tail(q))
      BY <2>1
    <3>2. QED
      BY <3>1 DEF Groups!Range
  <2>3. ASSUME NEW x \in Groups!Range(q)
        PROVE  x \in {Head(q)} \cup Groups!Range(Tail(q))
    <3>1. PICK i \in 1..Len(q) : x = q[i]
      BY <1>1, <2>3
    <3>2. CASE i = 1
      BY <2>1, <3>1, <3>2
    <3>3. CASE i # 1
      <4>1. i - 1 \in 1..Len(Tail(q)) /\ Tail(q)[i - 1] = q[i]
        BY <2>1, <3>3
      <4>2. QED
        BY <2>2, <3>1, <4>1
    <3>4. QED
      BY <3>2, <3>3
  <2>4. ASSUME NEW x \in {Head(q)} \cup Groups!Range(Tail(q))
        PROVE  x \in Groups!Range(q)
    <3>1. CASE x = Head(q)
      BY <1>1, <2>1, <3>1
    <3>2. CASE x \in Groups!Range(Tail(q))
      <4>1. PICK i \in 1..Len(Tail(q)) : x = q[i + 1]
        BY <2>1, <2>2, <3>2
      <4>2. i + 1 \in 1..Len(q)
        BY <2>1
      <4>3. QED
        BY <1>1, <4>1, <4>2
    <3>3. QED
      BY <2>4, <3>1, <3>2
  <2>5. QED
    BY <2>1, <2>3, <2>4
<1>5. QED
  BY <1>2, <1>3, <1>4

-----------------------------------------------------------------------------
(* What a step of the tasks in K leaves to the others.                     *)
Frame(K) ==
  /\ DOMAIN worker' = Tasks /\ \A j \in Tasks \ K : worker'[j] = worker[j]
  /\ crossed \subseteq crossed' /\ alive' \cap lists \subseteq alive
  /\ \A j \in Tasks \ K :
       LET t == Groups!Tenant(Heading(worker[j])) IN
       worker[j].pc = "kill" /\ t \notin crossed' => Groups!List(t)' = Groups!List(t)
  /\ \A j \in Tasks \ K : worker[j].op \in {"runone", "stopone"} => Groups!Range(worker[j].todo) \subseteq later'

(* What Frame is for: the other tasks stay as they were described.         *)
LEMMA Move ==
  ASSUME GroupWorkers, NEW K, Frame(K),
         \A k \in Tasks \cap K :
            /\ DOMAIN worker'[k] = DOMAIN Groups!Asleep
            /\ worker'[k] = Groups!Asleep \/ Busy(worker[k])'
  PROVE  GroupWorkers'
<1>1. ASSUME NEW j \in Tasks, j \notin K, Busy(worker[j])
      PROVE  Busy(worker[j])'
  <2>1. worker'[j] = worker[j]
    BY <1>1 DEF Frame
  <2>2. worker[j].pc = "kill" => CopyTrue(worker[j])'
    <3> DEFINE t == Groups!Tenant(Heading(worker[j]))
    <3> SUFFICES ASSUME worker[j].pc = "kill", t \notin crossed'
                 PROVE  /\ worker[j].list \subseteq Groups!List(t)'
                        /\ \A r \in Groups!List(t)' \ worker[j].list :
                             r.slot = Heading(worker[j]) /\ r \notin alive'
      BY <2>1 DEF CopyTrue, Heading, Groups!List, Groups!Tenant
    <3>1. t \notin crossed /\ Groups!List(t)' = Groups!List(t) /\ alive' \cap lists \subseteq alive
      BY <1>1 DEF Frame
    <3>2. CopyTrue(worker[j])
      BY <1>1 DEF Busy
    <3>3. Groups!List(t) \subseteq lists
      BY DEF Groups!List
    <3>4. QED
      BY <3>1, <3>2, <3>3 DEF CopyTrue
  <2>3. worker[j].op \in {"runone", "stopone"} => Groups!Range(worker[j].todo) \subseteq later'
    BY <1>1 DEF Frame
  <2>4. QED
    BY <1>1, <2>1, <2>2, <2>3 DEF Busy, Heading, Proper, Groups!Range, Groups!Of, Groups!Outcome
<1>2. ASSUME NEW j \in Tasks, j \notin K
      PROVE  DOMAIN worker'[j] = DOMAIN Groups!Asleep
             /\ (worker'[j] = Groups!Asleep \/ Busy(worker[j])')
  BY <1>1, <1>2 DEF GroupWorkers, Frame
<1>3. QED
  BY <1>2 DEF GroupWorkers, Frame, Groups!Asleep

(* A step that leaves the agents outside X as they were, as far as they    *)
(* are still believed.                                                     *)
Calm(X) ==
  \A s \in Slots \ X : Believed(s)' =>
    /\ Believed(s)
    /\ Groups!Of(lists, s)' = Groups!Of(lists, s) /\ Groups!Of(alive, s)' = Groups!Of(alive, s)

(* What is said of those agents stays true.                                *)
LEMMA ClaimsStay ==
  ASSUME NEW X, Calm(X), NEW s \in Slots \ X
  PROVE  (Runs(s) => Runs(s)') /\ (Halts(s) => Halts(s)')
<1>1. \A L, M : /\ Groups!Of(L \cap M, s) = Groups!Of(L, s) \cap Groups!Of(M, s)
                /\ Groups!Of(L \cup M, s) = Groups!Of(L, s) \cup Groups!Of(M, s)
  BY DEF Groups!Of
<1>2. Groups!Of(lists', s) = Groups!Of(lists, s)' /\ Groups!Of(alive', s) = Groups!Of(alive, s)'
  BY DEF Groups!Of
<1>3. SUFFICES ASSUME Believed(s)'
               PROVE  /\ Runs(s) => Groups!Of(lists' \cap alive', s) # {}
                      /\ Halts(s) => Groups!Of(lists' \cup alive', s) = {}
  BY DEF Runs, Halts, Groups!Of
<1>4. /\ Believed(s) /\ Groups!Of(lists', s) = Groups!Of(lists, s)
      /\ Groups!Of(alive', s) = Groups!Of(alive, s)
  BY <1>2, <1>3 DEF Calm
<1>5. /\ Groups!Of(lists' \cap alive', s) = Groups!Of(lists \cap alive, s)
      /\ Groups!Of(lists' \cup alive', s) = Groups!Of(lists \cup alive, s)
  <2>1. /\ Groups!Of(lists' \cap alive', s) = Groups!Of(lists', s) \cap Groups!Of(alive', s)
        /\ Groups!Of(lists' \cup alive', s) = Groups!Of(lists', s) \cup Groups!Of(alive', s)
        /\ Groups!Of(lists \cap alive, s) = Groups!Of(lists, s) \cap Groups!Of(alive, s)
        /\ Groups!Of(lists \cup alive, s) = Groups!Of(lists, s) \cup Groups!Of(alive, s)
    BY <1>1, Zenon
  <2>2. QED
    BY <1>4, <2>1, Zenon
<1>6. QED
  BY <1>4, <1>5 DEF Runs, Halts

(* A step of a request that is not the group's.                            *)
LEMMA Bystander ==
  ASSUME Unmuddled, GroupWorkers, group' = group, Calm({}),
         Proper(group),
         Groups!GroupTasks' = Groups!GroupTasks,
         \A k \in Groups!GroupTasks : worker'[k] = worker[k]
  PROVE  Unmuddled'
<1>1. ASSUME NEW g \in group, NEW s \in Groups!Range(g.members)
      PROVE  (Runs(s) => Runs(s)') /\ (Halts(s) => Halts(s)')
  <2>1. s \in Slots \ {}
    BY <1>1, Ranges DEF Proper
  <2>2. QED
    BY <2>1, ClaimsStay
<1>2. Groups!GroupTasks = {} => AtRest'
  BY <1>1 DEF Unmuddled, AtRest, Groups!Range
<1>3. ASSUME NEW k \in Groups!GroupTasks
      PROVE  UnderWay(worker[k])'
  <2>1. UnderWay(worker[k]) /\ worker'[k] = worker[k]
    BY <1>3 DEF Unmuddled
  <2>2. worker'[k].pc = "list" /\ Believed(Heading(worker[k]))' => worker'[k].left \cap alive' # {}
    <3> SUFFICES ASSUME worker[k].pc = "list", Believed(Heading(worker[k]))'
                 PROVE  worker[k].left \cap alive' # {}
      BY <2>1
    <3>1. k \in Tasks /\ Busy(worker[k])
      BY <1>3, Sleeps DEF GroupWorkers, Groups!GroupTasks, IsTask
    <3>2. Heading(worker[k]) \in Slots \ {} /\ Heading(worker[k])' = Heading(worker[k])
      BY <2>1, <3>1, Ranges DEF Busy, Heading
    <3>3. /\ Believed(Heading(worker[k]))
          /\ Groups!Of(alive, Heading(worker[k])) = Groups!Of(alive', Heading(worker[k]))
      BY <3>2 DEF Calm, Believed, Groups!Of
    <3>4. PICK p \in worker[k].left \cap alive : TRUE
      BY <2>1, <3>3 DEF UnderWay
    <3>5. p \in Groups!Of(alive, Heading(worker[k]))
      BY <3>1, <3>4 DEF Busy, Groups!Of
    <3>6. p \in alive'
      BY <3>3, <3>5 DEF Groups!Of
    <3>7. QED
      BY <3>4, <3>6
  <2>3. QED
    BY <1>1, <2>1, <2>2 DEF UnderWay, Groups!Range
<1>4. QED
  BY <1>2, <1>3 DEF Unmuddled

(* A step of the group's request, which X is about.                        *)
LEMMA OwnStep ==
  ASSUME Unmuddled, NEW k \in Groups!GroupTasks, group' = group, NEW X, Calm(X),
         Proper(group),
         Groups!GroupTasks' = Groups!GroupTasks,
         X \subseteq Groups!Range(worker[k].todo),
         worker'[k].op = worker[k].op, worker[k].failed => worker'[k].failed,
         worker'[k].pc = "put" => worker'[k].copy = group,
         worker'[k].pc = "list" => worker'[k].left \cap alive' # {},
         \A s \in Groups!Range(worker[k].todo) \ Groups!Range(worker'[k].todo) :
           /\ worker[k].op = "run" /\ ~worker'[k].failed => Runs(s)'
           /\ worker[k].op = "stop" => Halts(s)'
  PROVE  Unmuddled'
<1>1. UnderWay(worker[k]) /\ Groups!GroupTasks = {k}
  BY DEF Unmuddled
<1>2. ASSUME NEW g \in group, NEW s \in Groups!Range(g.members) \ Groups!Range(worker'[k].todo)
      PROVE  /\ worker'[k].op = "run" /\ ~worker'[k].failed => Runs(s)'
             /\ worker'[k].op = "stop" => Halts(s)'
  <2>1. CASE s \in Groups!Range(worker[k].todo)
    BY <1>2, <2>1
  <2>2. CASE s \notin Groups!Range(worker[k].todo)
    <3>1. s \in Slots \ X
      BY <1>2, <2>2, Ranges DEF Proper
    <3>2. (Runs(s) => Runs(s)') /\ (Halts(s) => Halts(s)')
      BY <3>1, ClaimsStay
    <3>3. QED
      BY <1>1, <1>2, <2>2, <3>2 DEF UnderWay
  <2>3. QED
    BY <2>1, <2>2
<1>3. UnderWay(worker[k])'
  BY <1>2 DEF UnderWay, Groups!Range
<1>4. QED
  BY <1>1, <1>3 DEF Unmuddled

-----------------------------------------------------------------------------
(* Which tasks are the group's after a step of one task.                   *)
LEMMA GroupTasksAfter ==
  ASSUME NEW k \in Tasks, \A j \in Tasks \ {k} : worker'[j] = worker[j]
  PROVE  /\ worker'[k].op \in {"run", "stop"} => Groups!GroupTasks' = Groups!GroupTasks \cup {k}
         /\ worker'[k].op \notin {"run", "stop"} => Groups!GroupTasks' = Groups!GroupTasks \ {k}
         /\ (k \in Groups!GroupTasks <=> worker'[k].op \in {"run", "stop"}) =>
              Groups!GroupTasks' = Groups!GroupTasks
<1>1. ASSUME NEW j \in Tasks
      PROVE  j \in Groups!GroupTasks' <=>
               IF j = k THEN worker'[k].op \in {"run", "stop"} ELSE j \in Groups!GroupTasks
  BY DEF Groups!GroupTasks
<1>2. Groups!GroupTasks \subseteq Tasks /\ Groups!GroupTasks' \subseteq Tasks
  BY DEF Groups!GroupTasks
<1>3. QED
  BY <1>1, <1>2

(* A task is asleep or busy.                                               *)
LEMMA Awake ==
  ASSUME GroupWorkers, NEW k \in Tasks, worker[k].pc # "idle"
  PROVE  Busy(worker[k])
BY Sleeps DEF GroupWorkers, IsTask

LEMMA Asleeps ==
  ASSUME GroupWorkers, NEW k \in Tasks, worker[k].pc = "idle"
  PROVE  worker[k] = Groups!Asleep /\ k \notin Groups!GroupTasks
<1>1. worker[k] = Groups!Asleep
  BY DEF GroupWorkers, Busy
<1>2. QED
  BY <1>1, Sleeps DEF Groups!GroupTasks, IsTask

(* A step that changes no list, no process and no history.                 *)
LEMMA Still ==
  ASSUME GroupKept, NEW K, DOMAIN worker' = Tasks, \A j \in Tasks \ K : worker'[j] = worker[j],
         lists' = lists, alive' = alive, crossed' = crossed,
         \A j \in Tasks \ K : worker[j].op \in {"runone", "stopone"} =>
           Groups!Range(worker[j].todo) \subseteq later'
  PROVE  Frame(K)
BY DEF Frame, Groups!List

(* Requests for the group and for one agent.                               *)
LEMMA GroupRequestKeeps ==
  ASSUME GroupKept, NEW k \in Tasks, NEW op \in {"run", "stop"}, Groups!GroupRequest(k, op)
  PROVE  GroupKept'
<1>1. PICK g \in group :
        worker' = [worker EXCEPT ![k] = [Groups!Asleep EXCEPT !.pc = "mark", !.op = op,
          !.todo = g.members, !.status = IF op = "run" THEN "starting" ELSE "stopping"]]
  BY DEF Groups!GroupRequest, Groups!Set
<1>2. /\ DOMAIN worker' = Tasks /\ \A j \in Tasks \ {k} : worker'[j] = worker[j]
      /\ worker'[k] = [Groups!Asleep EXCEPT !.pc = "mark", !.op = op,
           !.todo = g.members, !.status = IF op = "run" THEN "starting" ELSE "stopping"]
  BY <1>1 DEF GroupKept, GroupWorkers
<1>3. IsTask(worker'[k], "mark", op, IF op = "run" THEN "starting" ELSE "stopping", {}, g.members,
             {}, {}, FALSE)
  BY <1>2, Sleeps DEF IsTask
<1>4. /\ group' = group /\ lists' = lists /\ alive' = alive /\ born' = born /\ crossed' = crossed
      /\ muddled' = (muddled \/ Groups!GroupTasks # {})
      /\ later' = UNION {Groups!Range(worker[o].todo) : o \in Tasks \ Groups!GroupTasks}
  BY DEF Groups!GroupRequest
<1>5. worker[k] = Groups!Asleep /\ k \notin Groups!GroupTasks
  BY Asleeps DEF GroupKept, Groups!GroupRequest, Groups!Begin
<1>6. Frame({k})
  <2>1. ASSUME NEW j \in Tasks, worker[j].op \in {"runone", "stopone"}
        PROVE  Groups!Range(worker[j].todo) \subseteq later'
    <3>1. j \in Tasks \ Groups!GroupTasks
      BY <2>1 DEF Groups!GroupTasks
    <3>2. QED
      BY <1>4, <3>1
  <2>2. QED
    BY <1>2, <1>4, <2>1, Still
<1>7. GroupWorkers'
  <2>1. Busy(worker[k])'
    BY <1>3 DEF IsTask, Busy, Proper, GroupKept
  <2>2. DOMAIN worker'[k] = DOMAIN Groups!Asleep
    BY <1>3, Sleeps DEF IsTask
  <2>3. QED
    BY <1>6, <2>1, <2>2, Move DEF GroupKept
<1>8. Numbered'
  BY <1>2, <1>3, <1>4 DEF GroupKept, Numbered, IsTask
<1>9. OnList'
  BY <1>2, <1>4, <1>5, Sleeps DEF GroupKept, OnList, IsTask
<1>10. ASSUME ~muddled'
       PROVE  Unmuddled'
  <2>1. Groups!GroupTasks = {}
    BY <1>4, <1>10
  <2>2. Groups!GroupTasks' = {k}
    BY <1>2, <1>3, <2>1, GroupTasksAfter DEF IsTask
  <2>3. UnderWay(worker[k])'
    BY <1>3, <1>4 DEF UnderWay, IsTask, GroupKept, Proper, Groups!Range
  <2>4. QED
    BY <2>2, <2>3 DEF Unmuddled
<1>11. QED
  BY <1>4, <1>7, <1>8, <1>9, <1>10 DEF GroupKept, Proper

LEMMA AgentRequestKeeps ==
  ASSUME GroupKept, NEW k \in Tasks, NEW s \in Slots, NEW op \in {"runone", "stopone"},
         Groups!AgentRequest(k, s, op)
  PROVE  GroupKept'
<1>1. /\ DOMAIN worker' = Tasks /\ \A j \in Tasks \ {k} : worker'[j] = worker[j]
      /\ worker'[k] = [Groups!Asleep EXCEPT !.pc = IF op = "runone" THEN "run" ELSE "stop", !.op = op,
           !.todo = <<s>>]
  BY DEF GroupKept, GroupWorkers, Groups!AgentRequest, Groups!Set
<1>2. IsTask(worker'[k], IF op = "runone" THEN "run" ELSE "stop", op, "idle", {}, <<s>>, {}, {}, FALSE)
  BY <1>1, Sleeps DEF IsTask
<1>3. worker[k] = Groups!Asleep /\ k \notin Groups!GroupTasks
  BY Asleeps DEF GroupKept, Groups!AgentRequest, Groups!Begin
<1>4. /\ group' = group /\ lists' = lists /\ alive' = alive /\ born' = born /\ crossed' = crossed
      /\ muddled' = muddled /\ later' = later \cup {s}
  BY <1>3 DEF Groups!AgentRequest, Groups!Touches
<1>5. Frame({k})
  <2>1. ASSUME NEW j \in Tasks, worker[j].op \in {"runone", "stopone"}
        PROVE  Groups!Range(worker[j].todo) \subseteq later'
    BY <1>4, <2>1, Sleeps DEF GroupKept, GroupWorkers, Busy, IsTask
  <2>2. QED
    BY <1>1, <1>4, <2>1, Still
<1>6. GroupWorkers'
  <2>1. Groups!Range(<<s>>) = {s} /\ <<s>> \in Seq(Slots)
    BY DEF Groups!Range
  <2>2. Busy(worker[k])'
    BY <1>2, <1>4, <2>1 DEF IsTask, Busy, Proper, Groups!Range
  <2>3. DOMAIN worker'[k] = DOMAIN Groups!Asleep
    BY <1>2, Sleeps DEF IsTask
  <2>4. QED
    BY <1>5, <2>2, <2>3, Move DEF GroupKept
<1>7. Numbered'
  BY <1>1, <1>2, <1>4 DEF GroupKept, Numbered, IsTask
<1>8. OnList'
  BY <1>1, <1>3, <1>4, Sleeps DEF GroupKept, OnList, IsTask
<1>9. ASSUME ~muddled'
      PROVE  Unmuddled'
  <2>1. Calm({})
    BY <1>4 DEF Calm, Believed, Groups!Of
  <2>2. Groups!GroupTasks' = Groups!GroupTasks
    BY <1>1, <1>2, <1>3, GroupTasksAfter DEF IsTask
  <2>3. \A j \in Groups!GroupTasks : worker'[j] = worker[j]
    BY <1>1, <1>3 DEF Groups!GroupTasks
  <2>4. QED
    BY <1>4, <1>9, <2>1, <2>2, <2>3, Bystander DEF GroupKept
<1>10. QED
  BY <1>4, <1>6, <1>7, <1>8, <1>9 DEF GroupKept, Proper

(* The two steps of set_group_status.                                      *)
LEMMA MarkLoadKeeps ==
  ASSUME GroupKept, NEW k \in Tasks, Groups!MarkLoad(k)
  PROVE  GroupKept'
<1> DEFINE w == worker[k]
<1>1. /\ DOMAIN worker' = Tasks /\ \A j \in Tasks \ {k} : worker'[j] = worker[j]
      /\ worker'[k] = [w EXCEPT !.copy = group, !.pc = "put"]
  BY DEF GroupKept, GroupWorkers, Groups!MarkLoad, Groups!Set
<1>2. /\ group' = group /\ lists' = lists /\ alive' = alive /\ born' = born /\ crossed' = crossed
      /\ muddled' = muddled /\ later' = later /\ w.pc = "mark"
  BY DEF Groups!MarkLoad
<1>3. Busy(w) /\ DOMAIN w = DOMAIN Groups!Asleep
  BY <1>2, Awake DEF GroupKept, GroupWorkers
<1> HIDE DEF w
<1>4. IsTask(worker'[k], "put", w.op, w.status, group, w.todo, w.list, w.left, w.failed)
  BY <1>1, <1>3, Sleeps DEF IsTask
<1>5. Frame({k})
  <2>1. ASSUME NEW j \in Tasks, worker[j].op \in {"runone", "stopone"}
        PROVE  Groups!Range(worker[j].todo) \subseteq later'
    BY <1>2, <2>1, Sleeps DEF GroupKept, GroupWorkers, Busy, IsTask
  <2>2. QED
    BY <1>1, <1>2, <2>1, Still
<1>6. GroupWorkers'
  <2>1. Busy(worker[k])'
    BY <1>2, <1>3, <1>4 DEF IsTask, Busy, Proper, GroupKept, Groups!Outcome
  <2>2. DOMAIN worker'[k] = DOMAIN Groups!Asleep
    BY <1>4, Sleeps DEF IsTask
  <2>3. QED
    BY <1>5, <2>1, <2>2, Move DEF GroupKept
<1>7. Numbered'
  <2>1. worker'[k].left = w.left /\ worker'[k].list = w.list
    BY <1>4 DEF IsTask
  <2>2. QED
    BY <1>1, <1>2, <2>1 DEF GroupKept, Numbered, w
<1>8. OnList'
  BY <1>1, <1>2 DEF GroupKept, OnList, w
<1>9. ASSUME ~muddled'
      PROVE  Unmuddled'
  <2>1. Calm({})
    BY <1>2 DEF Calm, Believed, Groups!Of
  <2>2. k \in Groups!GroupTasks /\ Groups!GroupTasks' = Groups!GroupTasks
    <3>1. w.op \in {"run", "stop"}
      BY <1>2, <1>3 DEF Busy
    <3>2. k \in Groups!GroupTasks
      BY <3>1 DEF Groups!GroupTasks, w
    <3>3. QED
      BY <1>1, <1>4, <3>1, <3>2, GroupTasksAfter DEF IsTask
  <2>3. Groups!Range(worker'[k].todo) = Groups!Range(w.todo)
    BY <1>4 DEF IsTask
  <2>4. Unmuddled /\ Proper(group)
    BY <1>2, <1>9 DEF GroupKept
  <2>5. QED
    BY <1>2, <1>4, <2>1, <2>2, <2>3, <2>4, OwnStep DEF IsTask, w
<1>10. QED
  BY <1>2, <1>6, <1>7, <1>8, <1>9 DEF GroupKept, Proper

LEMMA MarkSaveKeeps ==
  ASSUME GroupKept, NEW k \in Tasks, Groups!MarkSave(k)
  PROVE  GroupKept'
<1> DEFINE w == worker[k]
<1>1. /\ lists' = lists /\ alive' = alive /\ born' = born /\ crossed' = crossed
      /\ muddled' = muddled /\ later' = later /\ w.pc = "put"
      /\ group' = IF w.copy = {} THEN group ELSE {[g EXCEPT !.status = w.status] : g \in w.copy}
  BY DEF Groups!MarkSave
<1>2. Busy(w) /\ DOMAIN w = DOMAIN Groups!Asleep
  BY <1>1, Awake DEF GroupKept, GroupWorkers
<1>3. \/ /\ w.op = "run" /\ w.status = "starting"
         /\ worker' = [worker EXCEPT ![k] = [w EXCEPT !.pc = "run"]]
      \/ /\ w.op = "stop" /\ w.status = "stopping"
         /\ worker' = [worker EXCEPT ![k] = [w EXCEPT !.pc = "stop"]]
      \/ /\ w.op \in {"run", "stop"} /\ w.todo = <<>> /\ w.status = Groups!Outcome(w)
         /\ worker' = [worker EXCEPT ![k] = Groups!Asleep]
  <2>1. \/ w.op = "run" /\ w.status = "starting"
        \/ w.op = "stop" /\ w.status = "stopping"
        \/ w.op \in {"run", "stop"} /\ w.todo = <<>> /\ w.status = Groups!Outcome(w)
    BY <1>1, <1>2 DEF Busy
  <2>2. Groups!Outcome(w) \in {"stopped", "error", "running"}
    BY DEF Groups!Outcome
  <2>3. QED
    BY <2>1, <2>2 DEF Groups!MarkSave, Groups!Set
<1>4. DOMAIN worker' = Tasks /\ \A j \in Tasks \ {k} : worker'[j] = worker[j]
  BY <1>3 DEF GroupKept, GroupWorkers
<1>5. /\ w.op = "run" /\ w.status = "starting" =>
           IsTask(worker'[k], "run", w.op, w.status, w.copy, w.todo, w.list, w.left, w.failed)
      /\ w.op = "stop" /\ w.status = "stopping" =>
           IsTask(worker'[k], "stop", w.op, w.status, w.copy, w.todo, w.list, w.left, w.failed)
      /\ w.status \notin {"starting", "stopping"} => worker'[k] = Groups!Asleep
  <2>1. /\ w.op = "run" /\ w.status = "starting" => worker'[k] = [w EXCEPT !.pc = "run"]
        /\ w.op = "stop" /\ w.status = "stopping" => worker'[k] = [w EXCEPT !.pc = "stop"]
        /\ w.status \notin {"starting", "stopping"} => worker'[k] = Groups!Asleep
    BY <1>3 DEF GroupKept, GroupWorkers, Groups!Outcome
  <2> HIDE DEF w
  <2>2. QED
    BY <1>2, <2>1, Sleeps DEF IsTask
<1>6. Frame({k})
  <2>1. ASSUME NEW j \in Tasks, worker[j].op \in {"runone", "stopone"}
        PROVE  Groups!Range(worker[j].todo) \subseteq later'
    BY <1>1, <2>1, Sleeps DEF GroupKept, GroupWorkers, Busy, IsTask
  <2>2. QED
    BY <1>1, <1>4, <2>1, Still
<1> HIDE DEF w
<1>7. \/ w.op = "run" /\ w.status = "starting"
      \/ w.op = "stop" /\ w.status = "stopping"
      \/ /\ w.op \in {"run", "stop"} /\ w.todo = <<>> /\ w.status = Groups!Outcome(w)
         /\ w.status \notin {"starting", "stopping"}
  BY <1>3 DEF Groups!Outcome
<1>8. GroupWorkers'
  <2>1. worker'[k] = Groups!Asleep \/ Busy(worker[k])'
    BY <1>2, <1>5, <1>7 DEF IsTask, Busy, Proper
  <2>2. DOMAIN worker'[k] = DOMAIN Groups!Asleep
    BY <1>5, <1>7, Sleeps DEF IsTask
  <2>3. QED
    BY <1>6, <2>1, <2>2, Move DEF GroupKept
<1>9. Numbered'
  <2>1. worker'[k].left \cup worker'[k].list \subseteq w.left \cup w.list
    BY <1>5, <1>7, Sleeps DEF IsTask
  <2>2. QED
    BY <1>1, <1>4, <2>1 DEF GroupKept, Numbered, w
<1>10. OnList'
  BY <1>1, <1>4 DEF GroupKept, OnList, w
<1>11. \/ w.copy = {} /\ group' = group
       \/ /\ w.copy # {} /\ Proper(group')
          /\ \A g \in group' : \E h \in w.copy : g.members = h.members /\ g.status = w.status
  <2>1. CASE w.copy # {}
    <3>1. \A h \in w.copy : LET g == [h EXCEPT !.status = w.status] IN
            /\ DOMAIN g = {"members", "status"} /\ g.members = h.members /\ g.status = w.status
      BY <1>2 DEF Busy, Proper
    <3>2. group' = {[h EXCEPT !.status = w.status] : h \in w.copy}
      BY <1>1, <2>1
    <3>3. QED
      BY <1>2, <2>1, <3>1, <3>2 DEF Busy, Proper
  <2>2. QED
    BY <1>1, <2>1
<1>12. Proper(group)'
  BY <1>11 DEF GroupKept, Proper
<1>13. ASSUME ~muddled'
       PROVE  Unmuddled'
  <2>1. Calm({})
    BY <1>1 DEF Calm, Believed, Groups!Of
  <2>2. k \in Groups!GroupTasks
    BY <1>7 DEF Groups!GroupTasks, w
  <2>3. Unmuddled
    BY <1>1, <1>13 DEF GroupKept
  <2>4. UnderWay(w) /\ w.copy = group /\ Groups!GroupTasks = {k}
    BY <1>1, <2>2, <2>3 DEF Unmuddled, UnderWay, w
  <2>5. \A g \in group' : \E h \in group : g.members = h.members /\ g.status = w.status
    BY <1>11, <2>4
  <2>6. \A g \in group : \A s \in Groups!Range(g.members) : (Runs(s) => Runs(s)') /\ (Halts(s) => Halts(s)')
    <3> SUFFICES ASSUME NEW g \in group, NEW s \in Groups!Range(g.members)
                 PROVE  (Runs(s) => Runs(s)') /\ (Halts(s) => Halts(s)')
      OBVIOUS
    <3>1. s \in Slots \ {}
      BY Ranges DEF GroupKept, Proper
    <3>2. QED
      BY <2>1, <3>1, ClaimsStay
  <2>7. CASE worker'[k].op \in {"run", "stop"}
    <3>1. /\ worker'[k].op = w.op /\ worker'[k].todo = w.todo /\ worker'[k].failed = w.failed
          /\ worker'[k].pc \notin {"put", "list"}
      BY <1>5, <1>7, <2>7, Sleeps DEF IsTask
    <3>2. UnderWay(worker[k])'
      BY <2>4, <2>5, <2>6, <3>1 DEF UnderWay, Groups!Range
    <3>3. Groups!GroupTasks' = {k}
      BY <1>4, <2>4, <2>7, GroupTasksAfter
    <3>4. QED
      BY <3>2, <3>3 DEF Unmuddled
  <2>8. CASE worker'[k].op \notin {"run", "stop"}
    <3>1. w.todo = <<>> /\ w.status = Groups!Outcome(w)
      BY <1>5, <1>7, <2>8 DEF IsTask
    <3>2. Groups!Range(w.todo) = {}
      BY <3>1 DEF Groups!Range
    <3>3. /\ w.status \notin {"starting", "stopping"}
          /\ w.status = "running" => w.op = "run" /\ ~w.failed
          /\ w.status = "stopped" => w.op = "stop"
      BY <1>7, <3>1 DEF Groups!Outcome
    <3>4. AtRest'
      BY <2>4, <2>5, <2>6, <3>2, <3>3 DEF UnderWay, AtRest, Groups!Range
    <3>5. Groups!GroupTasks' = {}
      BY <1>4, <2>4, <2>8, GroupTasksAfter
    <3>6. QED
      BY <3>4, <3>5 DEF Unmuddled
  <2>9. QED
    BY <2>7, <2>8
<1>14. QED
  BY <1>8, <1>9, <1>10, <1>12, <1>13 DEF GroupKept

(* The first agent that a busy task has yet to see to.                     *)
LEMMA NextAgent ==
  ASSUME GroupKept, NEW k \in Tasks, Busy(worker[k]), worker[k].todo # <<>>
  PROVE  LET s == Heading(worker[k]) IN
           /\ s \in Slots /\ Tail(worker[k].todo) \in Seq(Slots)
           /\ Groups!Range(worker[k].todo) = {s} \cup Groups!Range(Tail(worker[k].todo))
           /\ k \in Groups!GroupTasks \/ s \in later
<1>1. worker[k].todo \in Seq(Slots)
  BY DEF Busy
<1>2. /\ Heading(worker[k]) \in Slots /\ Tail(worker[k].todo) \in Seq(Slots)
      /\ Groups!Range(worker[k].todo) = {Heading(worker[k])} \cup Groups!Range(Tail(worker[k].todo))
  BY <1>1, Ranges DEF Heading
<1>3. k \in Groups!GroupTasks \/ Groups!Range(worker[k].todo) \subseteq later
  BY DEF Busy, Groups!GroupTasks
<1>4. QED
  BY <1>2, <1>3

(* A request for one agent has that agent among the touched ones.          *)
LEMMA Singles ==
  ASSUME GroupKept, later \subseteq later', NEW j \in Tasks, worker[j].op \in {"runone", "stopone"}
  PROVE  Groups!Range(worker[j].todo) \subseteq later'
BY Sleeps DEF GroupKept, GroupWorkers, Busy, IsTask

(* A task between two agents.                                              *)
LEMMA Walks ==
  ASSUME NEW k \in Tasks, DOMAIN worker'[k] = DOMAIN Groups!Asleep, worker'[k].todo \in Seq(Slots),
         \/ worker'[k].pc = "run" /\ worker'[k].op \in {"run", "runone"}
         \/ worker'[k].pc = "stop" /\ worker'[k].op \in {"stop", "stopone"},
         Proper(worker'[k].copy),
         worker'[k].op \in {"runone", "stopone"} => Groups!Range(worker'[k].todo) \subseteq later'
  PROVE  Busy(worker[k])'
<1>1. Proper(worker[k].copy)'
  BY DEF Proper
<1>2. worker'[k].op \in {"runone", "stopone"} => Groups!Range(worker[k].todo)' \subseteq later'
  BY DEF Groups!Range
<1>3. QED
  BY <1>1, <1>2 DEF Busy

(* A start of an agent, which replaces its process ...                     *)
LEMMA StartKeeps ==
  ASSUME GroupKept, NEW k \in Tasks, NEW s, NEW p, worker[k].pc = "run", worker[k].todo # <<>>,
         s = Heading(worker[k]), p = [slot |-> s, pid |-> born'], born' = born + 1,
         alive' = {q \in alive : q.slot # s} \cup {p},
         worker' = [worker EXCEPT ![k] = [worker[k] EXCEPT !.pc = "list", !.left = {p}]],
         Groups!Touches(k, s),
         UNCHANGED <<group, lists, crossed, muddled>>
  PROVE  GroupKept'
<1> DEFINE w == worker[k]
<1>1. /\ DOMAIN worker' = Tasks /\ \A j \in Tasks \ {k} : worker'[j] = worker[j]
      /\ worker'[k] = [w EXCEPT !.pc = "list", !.left = {p}]
  BY DEF GroupKept, GroupWorkers
<1>2. Busy(w) /\ DOMAIN w = DOMAIN Groups!Asleep
  BY Awake DEF GroupKept, GroupWorkers
<1>3. /\ s \in Slots /\ s \in Groups!Range(w.todo)
      /\ k \in Groups!GroupTasks \/ s \in later
  BY <1>2, NextAgent
<1>4. later \subseteq later' /\ (k \in Groups!GroupTasks => later' = later)
  BY DEF Groups!Touches
<1>5. p.slot = s /\ p.pid = born + 1 /\ born \in Nat /\ p \notin lists
  BY DEF GroupKept, Numbered
<1>6. IsTask(worker'[k], "list", w.op, w.status, w.copy, w.todo, w.list, {p}, w.failed)
  <2> HIDE DEF w
  <2>1. QED
    BY <1>1, <1>2, Sleeps DEF IsTask
<1>7. Frame({k})
  BY <1>1, <1>4, <1>5, Singles DEF Frame, Groups!List
<1>8. GroupWorkers'
  <2>1. Busy(worker[k])'
    <3>1. w.op \in {"run", "runone"} /\ Heading(w) = s
      BY <1>2 DEF Busy
    <3>2. worker'[k].op \in {"runone", "stopone"} => Groups!Range(worker'[k].todo) \subseteq later'
      BY <1>4, <1>6, Singles DEF IsTask
    <3> HIDE DEF w
    <3>3. QED
      BY <1>2, <1>5, <1>6, <3>1, <3>2 DEF IsTask, Busy, Heading, Groups!Range
  <2>2. DOMAIN worker'[k] = DOMAIN Groups!Asleep
    BY <1>6, Sleeps DEF IsTask
  <2>3. QED
    BY <1>7, <2>1, <2>2, Move DEF GroupKept
<1>9. Numbered'
  <2>1. \A r \in lists \cup alive : r.pid \in 1..born + 1
    <3>1. \A r \in lists \cup alive : r.pid \in 1..born
      BY DEF GroupKept, Numbered
    <3>2. QED
      BY <1>5, <3>1
  <2>2. \A j \in Tasks : \A r \in worker[j].left \cup worker[j].list : r.pid \in 1..born + 1
    <3>1. \A j \in Tasks : \A r \in worker[j].left \cup worker[j].list : r.pid \in 1..born
      BY DEF GroupKept, Numbered
    <3>2. QED
      BY <1>5, <3>1
  <2>3. worker'[k].left = {p} /\ worker'[k].list = w.list
    BY <1>6 DEF IsTask
  <2>4. \A j \in Tasks : \A r \in worker'[j].left \cup worker'[j].list : r.pid \in 1..born + 1
    BY <1>1, <1>5, <2>2, <2>3
  <2>5. QED
    BY <1>5, <2>1, <2>4 DEF Numbered
<1>10. OnList'
  <2> SUFFICES ASSUME NEW q \in alive', Groups!Tenant(q.slot) \notin crossed'
               PROVE  q \in lists' \/ \E j \in Tasks : worker'[j].pc = "list" /\ q \in worker'[j].left
    BY DEF OnList, Groups!Tenant
  <2>1. CASE q = p
    BY <1>6, <2>1 DEF IsTask
  <2>2. CASE q # p
    <3>1. q \in alive /\ (q \in lists \/ \E j \in Tasks : worker[j].pc = "list" /\ q \in worker[j].left)
      BY <2>2 DEF GroupKept, OnList
    <3>2. \A j \in Tasks : worker[j].pc = "list" => worker'[j] = worker[j]
      BY <1>1
    <3>3. QED
      BY <3>1, <3>2
  <2>3. QED
    BY <2>1, <2>2
<1>11. ASSUME ~muddled'
       PROVE  Unmuddled'
  <2>1. Unmuddled /\ Proper(group)
    BY <1>11 DEF GroupKept
  <2>2. \A u \in Slots : u # s => Groups!Of(alive', u) = Groups!Of(alive, u)
    BY <1>5 DEF Groups!Of
  <2>3. Calm({s}) /\ (s \in later' => Calm({}))
    BY <1>4, <2>2 DEF Calm, Believed, Groups!Of, Groups!Tenant
  <2>4. worker'[k].op = w.op
    BY <1>6 DEF IsTask
  <2>5. Groups!GroupTasks' = Groups!GroupTasks
    BY <1>1, <2>4, GroupTasksAfter DEF Groups!GroupTasks
  <2>6. CASE k \in Groups!GroupTasks
    <3>1. worker'[k].left \cap alive' # {}
      BY <1>6 DEF IsTask
    <3>2. /\ worker'[k].todo = w.todo /\ worker'[k].pc = "list" /\ worker'[k].failed = w.failed
      BY <1>6 DEF IsTask
    <3>3. {s} \subseteq Groups!Range(w.todo)
      BY <1>3
    <3>4. QED
      BY <2>1, <2>3, <2>4, <2>5, <2>6, <3>1, <3>2, <3>3, OwnStep
  <2>7. CASE k \notin Groups!GroupTasks
    <3>1. \A j \in Groups!GroupTasks : worker'[j] = worker[j]
      BY <1>1, <2>7 DEF Groups!GroupTasks
    <3>2. Calm({})
      BY <1>3, <1>4, <2>3, <2>7
    <3>3. QED
      BY <2>1, <2>5, <3>1, <3>2, Bystander DEF GroupKept
  <2>8. QED
    BY <2>6, <2>7
<1>12. QED
  BY <1>8, <1>9, <1>10, <1>11 DEF GroupKept, Proper

(* ... or fails.                                                           *)
LEMMA NoStartKeeps ==
  ASSUME GroupKept, NEW k \in Tasks, worker[k].pc = "run", worker[k].todo # <<>>,
         worker' = [worker EXCEPT ![k] = [worker[k] EXCEPT !.todo = Tail(worker[k].todo), !.failed = TRUE]],
         UNCHANGED <<group, lists, alive, born, crossed, muddled, later>>
  PROVE  GroupKept'
<1> DEFINE w == worker[k]
<1>1. /\ DOMAIN worker' = Tasks /\ \A j \in Tasks \ {k} : worker'[j] = worker[j]
      /\ worker'[k] = [w EXCEPT !.todo = Tail(w.todo), !.failed = TRUE]
  BY DEF GroupKept, GroupWorkers
<1>2. Busy(w) /\ DOMAIN w = DOMAIN Groups!Asleep
  BY Awake DEF GroupKept, GroupWorkers
<1>3. /\ Tail(w.todo) \in Seq(Slots)
      /\ Groups!Range(w.todo) = {Heading(w)} \cup Groups!Range(Tail(w.todo))
  BY <1>2, NextAgent
<1>4. IsTask(worker'[k], "run", w.op, w.status, w.copy, Tail(w.todo), w.list, w.left, TRUE)
  <2>1. w.pc = "run"
    OBVIOUS
  <2> HIDE DEF w
  <2>2. QED
    BY <1>1, <1>2, <2>1, Sleeps DEF IsTask
<1>5. Frame({k})
  BY <1>1, Singles, Still
<1>6. GroupWorkers'
  <2>1. w.op \in {"run", "runone"} /\ Proper(w.copy)
    BY <1>2 DEF Busy
  <2>2. w.op \in {"runone", "stopone"} => Groups!Range(Tail(w.todo)) \subseteq later'
    BY <1>2, <1>3 DEF Busy
  <2>3. /\ worker'[k].pc = "run" /\ worker'[k].op = w.op /\ worker'[k].todo = Tail(w.todo)
        /\ worker'[k].copy = w.copy /\ DOMAIN worker'[k] = DOMAIN Groups!Asleep
    BY <1>4, Sleeps DEF IsTask
  <2>4. Busy(worker[k])'
    BY <1>3, <2>1, <2>2, <2>3, Walks
  <2>5. QED
    BY <1>5, <2>3, <2>4, Move DEF GroupKept
<1>7. Numbered'
  <2>1. worker'[k].left = w.left /\ worker'[k].list = w.list
    BY <1>4 DEF IsTask
  <2>2. QED
    BY <1>1, <2>1 DEF GroupKept, Numbered
<1>8. OnList'
  BY <1>1 DEF GroupKept, OnList, Groups!Tenant
<1>9. ASSUME ~muddled'
      PROVE  Unmuddled'
  <2>1. Unmuddled /\ Proper(group) /\ Calm({})
    BY <1>9 DEF GroupKept, Calm, Believed, Groups!Of
  <2>2. /\ worker'[k].op = w.op /\ worker'[k].pc = "run" /\ worker'[k].failed = TRUE
        /\ w.op \in {"run", "runone"}
    BY <1>2, <1>4 DEF IsTask, Busy
  <2>3. Groups!GroupTasks' = Groups!GroupTasks
    BY <1>1, <2>2, GroupTasksAfter DEF Groups!GroupTasks
  <2>4. CASE k \in Groups!GroupTasks
    BY <2>1, <2>2, <2>3, <2>4, OwnStep
  <2>5. CASE k \notin Groups!GroupTasks
    <3>1. \A j \in Groups!GroupTasks : worker'[j] = worker[j]
      BY <1>1, <2>5 DEF Groups!GroupTasks
    <3>2. QED
      BY <2>1, <2>3, <3>1, Bystander DEF GroupKept
  <2>6. QED
    BY <2>4, <2>5
<1>10. QED
  BY <1>6, <1>7, <1>8, <1>9 DEF GroupKept, Proper

(* A list that another task has a copy of is crossed when it changes.      *)
LEMMA Crosses ==
  ASSUME NEW k \in Tasks, NEW t, Groups!Changes(k, t)
  PROVE  /\ crossed \subseteq crossed'
         /\ \A j \in Tasks \ {k} : worker[j].pc = "kill" /\ Groups!Tenant(Heading(worker[j])) = t => t \in crossed'
BY DEF Groups!Changes, Heading, Groups!Tenant

(* The record of a start is added to its tenant's list.                    *)
LEMMA ListMemberKeeps ==
  ASSUME GroupKept, NEW k \in Tasks, Groups!ListMember(k)
  PROVE  GroupKept'
<1> DEFINE w == worker[k]
           s == Heading(w)
<1>1. /\ DOMAIN worker' = Tasks /\ \A j \in Tasks \ {k} : worker'[j] = worker[j]
      /\ worker'[k] = [w EXCEPT !.pc = "run", !.todo = Tail(w.todo), !.left = {}]
  BY DEF GroupKept, GroupWorkers, Groups!ListMember, Groups!Set
<1>2. /\ group' = group /\ lists' = lists \cup w.left /\ alive' = alive /\ born' = born
      /\ muddled' = muddled /\ later' = later /\ w.pc = "list"
      /\ Groups!Changes(k, Groups!Tenant(s))
  BY DEF Groups!ListMember, Heading
<1>3. Busy(w) /\ DOMAIN w = DOMAIN Groups!Asleep
  BY <1>2, Awake DEF GroupKept, GroupWorkers
<1>4. w.todo # <<>> /\ w.op \in {"run", "runone"} /\ Proper(w.copy) /\ \A r \in w.left : r.slot = s
  BY <1>2, <1>3 DEF Busy
<1>5. /\ s \in Slots /\ Tail(w.todo) \in Seq(Slots)
      /\ Groups!Range(w.todo) = {s} \cup Groups!Range(Tail(w.todo))
      /\ k \in Groups!GroupTasks \/ s \in later
  BY <1>3, <1>4, NextAgent
<1>6. IsTask(worker'[k], "run", w.op, w.status, w.copy, Tail(w.todo), w.list, {}, w.failed)
  <2> HIDE DEF w
  <2>1. QED
    BY <1>1, <1>3, Sleeps DEF IsTask
<1>7. /\ crossed \subseteq crossed'
      /\ \A j \in Tasks \ {k} :
           worker[j].pc = "kill" /\ Groups!Tenant(Heading(worker[j])) = Groups!Tenant(s) =>
             Groups!Tenant(s) \in crossed'
  BY <1>2, Crosses
<1>8. Frame({k})
  <2>1. \A t : t # Groups!Tenant(s) => {r \in lists' : Groups!Tenant(r.slot) = t} = Groups!List(t)
    BY <1>2, <1>4 DEF Groups!List
  <2>2. ASSUME NEW j \in Tasks \ {k}, worker[j].pc = "kill",
               Groups!Tenant(Heading(worker[j])) \notin crossed'
        PROVE  Groups!List(Groups!Tenant(Heading(worker[j])))' = Groups!List(Groups!Tenant(Heading(worker[j])))
    <3>1. Groups!Tenant(Heading(worker[j])) # Groups!Tenant(s)
      BY <1>7, <2>2
    <3>2. Groups!Tenant(Heading(worker[j]))' = Groups!Tenant(Heading(worker[j]))
      BY <1>1, <2>2 DEF Groups!Tenant, Heading
    <3>3. QED
      BY <2>1, <3>1, <3>2 DEF Groups!List, Groups!Tenant, Heading
  <2>3. QED
    BY <1>1, <1>2, <1>7, <2>2, Singles DEF Frame
<1>9. GroupWorkers'
  <2>1. w.op \in {"runone", "stopone"} => Groups!Range(Tail(w.todo)) \subseteq later'
    BY <1>2, <1>3, <1>5 DEF Busy
  <2>2. /\ worker'[k].pc = "run" /\ worker'[k].op = w.op /\ worker'[k].todo = Tail(w.todo)
        /\ worker'[k].copy = w.copy /\ DOMAIN worker'[k] = DOMAIN Groups!Asleep
    BY <1>6, Sleeps DEF IsTask
  <2>3. Busy(worker[k])'
    BY <1>4, <1>5, <2>1, <2>2, Walks
  <2>4. QED
    BY <1>8, <2>2, <2>3, Move DEF GroupKept
<1>10. Numbered'
  <2>1. worker'[k].left = {} /\ worker'[k].list = w.list
    BY <1>6 DEF IsTask
  <2>2. QED
    BY <1>1, <1>2, <2>1 DEF GroupKept, Numbered
<1>11. OnList'
  <2> SUFFICES ASSUME NEW q \in alive', Groups!Tenant(q.slot) \notin crossed'
               PROVE  q \in lists' \/ \E j \in Tasks : worker'[j].pc = "list" /\ q \in worker'[j].left
    BY DEF OnList, Groups!Tenant
  <2>1. q \in lists \/ \E j \in Tasks : worker[j].pc = "list" /\ q \in worker[j].left
    BY <1>2, <1>7 DEF GroupKept, OnList
  <2>2. QED
    BY <1>1, <1>2, <2>1
<1>12. ASSUME ~muddled'
       PROVE  Unmuddled'
  <2>1. Unmuddled /\ Proper(group)
    BY <1>2, <1>12 DEF GroupKept
  <2>2. Calm({s}) /\ (s \in later' => Calm({}))
    BY <1>2, <1>4, <1>7 DEF Calm, Believed, Groups!Of, Groups!Tenant
  <2>3. worker'[k].op = w.op /\ worker'[k].todo = Tail(w.todo) /\ worker'[k].pc = "run" /\ worker'[k].failed = w.failed
    BY <1>6 DEF IsTask
  <2>4. Groups!GroupTasks' = Groups!GroupTasks
    BY <1>1, <2>3, GroupTasksAfter DEF Groups!GroupTasks
  <2>5. CASE k \in Groups!GroupTasks
    <3>1. ASSUME NEW u, u = s
          PROVE  Runs(u)'
      <4>1. SUFFICES ASSUME Believed(u)'
                     PROVE  Groups!Of(lists' \cap alive', u) # {}
        BY DEF Runs, Groups!Of
      <4>2. Believed(s)
        BY <1>2, <1>7, <3>1, <4>1 DEF Believed
      <4>3. PICK p \in w.left \cap alive : TRUE
        BY <1>2, <2>1, <2>5, <4>2 DEF Unmuddled, UnderWay
      <4>4. QED
        BY <1>2, <1>4, <3>1, <4>3 DEF Groups!Of
    <3>2. w.op = "run"
      BY <1>4, <2>5 DEF Groups!GroupTasks
    <3>3. {s} \subseteq Groups!Range(w.todo)
      BY <1>5
    <3>4. \A u \in Groups!Range(w.todo) \ Groups!Range(worker'[k].todo) : u = s
      BY <1>5, <2>3
    <3>5. QED
      BY <1>2, <2>1, <2>2, <2>3, <2>4, <2>5, <3>1, <3>2, <3>3, <3>4, OwnStep
  <2>6. CASE k \notin Groups!GroupTasks
    <3>1. \A j \in Groups!GroupTasks : worker'[j] = worker[j]
      BY <1>1, <2>6 DEF Groups!GroupTasks
    <3>2. Calm({})
      BY <1>2, <1>5, <2>2, <2>6
    <3>3. QED
      BY <1>2, <2>1, <2>4, <3>1, <3>2, Bystander DEF GroupKept
  <2>7. QED
    BY <2>5, <2>6
<1>13. QED
  BY <1>2, <1>9, <1>10, <1>11, <1>12 DEF GroupKept, Proper

(* A stop that has found records, and copies the list.                     *)
LEMMA StopMemberKeeps ==
  ASSUME GroupKept, NEW k \in Tasks, NEW rs, worker[k].pc = "stop", worker[k].todo # <<>>,
         rs \in Groups!Found(k, Heading(worker[k])),
         worker' = [worker EXCEPT ![k] = [worker[k] EXCEPT !.pc = "kill",
                      !.list = Groups!List(Groups!Tenant(Heading(worker[k]))), !.left = rs]],
         UNCHANGED <<group, lists, alive, born, crossed, muddled, later>>
  PROVE  GroupKept'
<1> DEFINE w == worker[k]
           s == Heading(w)
           copied == Groups!List(Groups!Tenant(s))
<1>1. /\ DOMAIN worker' = Tasks /\ \A j \in Tasks \ {k} : worker'[j] = worker[j]
      /\ worker'[k] = [w EXCEPT !.pc = "kill", !.list = copied, !.left = rs]
  BY DEF GroupKept, GroupWorkers
<1>2. Busy(w) /\ DOMAIN w = DOMAIN Groups!Asleep
  BY Awake DEF GroupKept, GroupWorkers
<1>3. IsTask(worker'[k], "kill", w.op, w.status, w.copy, w.todo, copied, rs, w.failed)
  <2> HIDE DEF w
  <2>1. QED
    BY <1>1, <1>2, Sleeps DEF IsTask
<1>4. rs \subseteq Groups!Of(lists, s) /\ (k \in Groups!GroupTasks => rs = Groups!Of(lists, s))
  BY DEF Groups!Found
<1>5. Frame({k})
  BY <1>1, Singles, Still
<1>6. GroupWorkers'
  <2>1. /\ w.op \in {"stop", "stopone"} /\ Proper(w.copy) /\ w.todo \in Seq(Slots)
        /\ w.op \in {"runone", "stopone"} => Groups!Range(w.todo) \subseteq later'
    BY <1>2 DEF Busy
  <2>2. /\ worker'[k].pc = "kill" /\ worker'[k].op = w.op /\ worker'[k].todo = w.todo
        /\ worker'[k].copy = w.copy /\ worker'[k].list = copied /\ worker'[k].left = rs
        /\ DOMAIN worker'[k] = DOMAIN Groups!Asleep
    BY <1>3, Sleeps DEF IsTask
  <2>3. \A r \in rs : r.slot = s
    BY <1>4 DEF Groups!Of
  <2>4. w.op = "stop" => Groups!Of(copied, s) = rs
    <3>1. Groups!Of(copied, s) = Groups!Of(lists, s)
      BY DEF Groups!Of, Groups!List
    <3>2. w.op = "stop" => k \in Groups!GroupTasks
      BY DEF Groups!GroupTasks
    <3>3. QED
      BY <1>4, <3>1, <3>2
  <2>5. copied' = copied
    BY <2>2 DEF Groups!List, Groups!Tenant, Heading
  <2>6. CopyTrue(worker[k])'
    BY <2>2, <2>5 DEF CopyTrue, Heading, Groups!List, Groups!Tenant
  <2>7. \A r \in copied : Groups!Tenant(r.slot) = Groups!Tenant(s)
    BY DEF Groups!List
  <2>8. Heading(worker[k])' = s
    BY <2>2 DEF Heading
  <2>9. Busy(worker[k])'
    <3>1. Proper(worker[k].copy)'
      BY <2>1, <2>2 DEF Proper
    <3>2. (\A r \in worker[k].left : r.slot = Heading(worker[k]))'
      BY <2>2, <2>3, <2>8
    <3>3. (\A r \in worker[k].list : Groups!Tenant(r.slot) = Groups!Tenant(Heading(worker[k])))'
      BY <2>2, <2>7, <2>8 DEF Groups!Tenant
    <3>4. w.op = "stop" => (Groups!Of(worker[k].list, Heading(worker[k])) = worker[k].left)'
      BY <2>2, <2>4, <2>8 DEF Groups!Of
    <3>5. worker'[k].op \in {"runone", "stopone"} => Groups!Range(worker[k].todo)' \subseteq later'
      BY <2>1, <2>2 DEF Groups!Range
    <3> HIDE DEF w, copied
    <3>6. QED
      BY <2>1, <2>2, <2>6, <3>1, <3>2, <3>3, <3>4, <3>5 DEF Busy
  <2>10. QED
    BY <1>5, <2>2, <2>9, Move DEF GroupKept
<1>7. Numbered'
  <2>1. worker'[k].left \subseteq lists /\ worker'[k].list \subseteq lists
    BY <1>3, <1>4 DEF IsTask, Groups!Of, Groups!List
  <2>2. QED
    BY <1>1, <2>1 DEF GroupKept, Numbered
<1>8. OnList'
  BY <1>1 DEF GroupKept, OnList, Groups!Tenant
<1>9. ASSUME ~muddled'
      PROVE  Unmuddled'
  <2>1. Unmuddled /\ Proper(group) /\ Calm({})
    BY <1>9 DEF GroupKept, Calm, Believed, Groups!Of
  <2>2. /\ worker'[k].op = w.op /\ worker'[k].pc = "kill" /\ worker'[k].failed = w.failed
        /\ worker'[k].todo = w.todo
    BY <1>3 DEF IsTask
  <2>3. Groups!GroupTasks' = Groups!GroupTasks
    BY <1>1, <2>2, GroupTasksAfter DEF Groups!GroupTasks
  <2>4. CASE k \in Groups!GroupTasks
    BY <2>1, <2>2, <2>3, <2>4, OwnStep
  <2>5. CASE k \notin Groups!GroupTasks
    <3>1. \A j \in Groups!GroupTasks : worker'[j] = worker[j]
      BY <1>1, <2>5 DEF Groups!GroupTasks
    <3>2. QED
      BY <2>1, <2>3, <3>1, Bystander DEF GroupKept
  <2>6. QED
    BY <2>4, <2>5
<1>10. QED
  BY <1>6, <1>7, <1>8, <1>9 DEF GroupKept, Proper

(* A single request that ends.                                             *)
LEMMA EndKeeps ==
  ASSUME GroupKept, NEW k \in Tasks, k \notin Groups!GroupTasks, worker[k].pc # "list",
         worker' = [worker EXCEPT ![k] = Groups!Asleep],
         UNCHANGED <<group, lists, alive, born, crossed, muddled, later>>
  PROVE  GroupKept'
<1>1. /\ DOMAIN worker' = Tasks /\ \A j \in Tasks \ {k} : worker'[j] = worker[j]
      /\ worker'[k] = Groups!Asleep
  BY DEF GroupKept, GroupWorkers
<1>2. Frame({k})
  BY <1>1, Singles, Still
<1>3. GroupWorkers'
  BY <1>1, <1>2, Move DEF GroupKept
<1>4. Numbered'
  <2>1. worker'[k].left = {} /\ worker'[k].list = {}
    BY <1>1, Sleeps DEF IsTask
  <2>2. QED
    BY <1>1, <2>1 DEF GroupKept, Numbered
<1>5. OnList'
  BY <1>1 DEF GroupKept, OnList, Groups!Tenant
<1>6. ASSUME ~muddled'
      PROVE  Unmuddled'
  <2>1. Unmuddled /\ Proper(group) /\ Calm({})
    BY <1>6 DEF GroupKept, Calm, Believed, Groups!Of
  <2>2. Groups!GroupTasks' = Groups!GroupTasks
    BY <1>1, Sleeps, GroupTasksAfter DEF IsTask
  <2>3. \A j \in Groups!GroupTasks : worker'[j] = worker[j]
    BY <1>1 DEF Groups!GroupTasks
  <2>4. QED
    BY <2>1, <2>2, <2>3, Bystander DEF GroupKept
<1>7. QED
  BY <1>3, <1>4, <1>5, <1>6 DEF GroupKept, Proper

(* One process of a stop's copy is stopped.                                *)
LEMMA KillKeeps ==
  ASSUME GroupKept, NEW k \in Tasks, NEW r \in worker[k].left, worker[k].pc = "kill",
         alive' = alive \ {r},
         worker' = [worker EXCEPT ![k] = [worker[k] EXCEPT !.list = worker[k].list \ {r},
                      !.left = worker[k].left \ {r}]],
         Groups!Touches(k, r.slot),
         UNCHANGED <<group, lists, born, crossed, muddled>>
  PROVE  GroupKept'
<1> DEFINE w == worker[k]
           s == Heading(w)
<1>1. /\ DOMAIN worker' = Tasks /\ \A j \in Tasks \ {k} : worker'[j] = worker[j]
      /\ worker'[k] = [w EXCEPT !.list = w.list \ {r}, !.left = w.left \ {r}]
  BY DEF GroupKept, GroupWorkers
<1>2. Busy(w) /\ DOMAIN w = DOMAIN Groups!Asleep
  BY Awake DEF GroupKept, GroupWorkers
<1>3. IsTask(worker'[k], "kill", w.op, w.status, w.copy, w.todo, w.list \ {r}, w.left \ {r}, w.failed)
  <2>1. w.pc = "kill"
    OBVIOUS
  <2> HIDE DEF w
  <2>2. QED
    BY <1>1, <1>2, <2>1, Sleeps DEF IsTask
<1>4. /\ w.op \in {"stop", "stopone"} /\ w.todo # <<>> /\ w.todo \in Seq(Slots) /\ Proper(w.copy)
      /\ \A q \in w.left : q.slot = s
      /\ \A q \in w.list : Groups!Tenant(q.slot) = Groups!Tenant(s)
      /\ w.op = "stop" => Groups!Of(w.list, s) = w.left
      /\ CopyTrue(w)
  BY <1>2 DEF Busy
<1>5. s \in Slots /\ s \in Groups!Range(w.todo) /\ r.slot = s /\ (k \in Groups!GroupTasks \/ s \in later)
  BY <1>2, <1>4, NextAgent
<1>6. later \subseteq later' /\ (k \in Groups!GroupTasks => later' = later)
  BY DEF Groups!Touches
<1>7. Frame({k})
  BY <1>1, <1>6, Singles DEF Frame, Groups!List
<1>8. /\ worker'[k].pc = "kill" /\ worker'[k].op = w.op /\ worker'[k].todo = w.todo
      /\ worker'[k].copy = w.copy /\ worker'[k].list = w.list \ {r} /\ worker'[k].left = w.left \ {r}
      /\ worker'[k].failed = w.failed /\ DOMAIN worker'[k] = DOMAIN Groups!Asleep
  BY <1>3, Sleeps DEF IsTask
<1>9. GroupWorkers'
  <2>1. Heading(worker[k])' = s
    BY <1>8 DEF Heading
  <2>2. CopyTrue(worker[k])'
    <3> SUFFICES ASSUME Groups!Tenant(s) \notin crossed'
                 PROVE  /\ w.list \ {r} \subseteq Groups!List(Groups!Tenant(s))
                        /\ \A q \in Groups!List(Groups!Tenant(s)) \ (w.list \ {r}) :
                             q.slot = s /\ q \notin alive'
      BY <1>8, <2>1 DEF CopyTrue, Groups!List, Groups!Tenant
    <3>1. /\ w.list \subseteq Groups!List(Groups!Tenant(s))
          /\ \A q \in Groups!List(Groups!Tenant(s)) \ w.list : q.slot = s /\ q \notin alive
      BY <1>4 DEF CopyTrue
    <3>2. QED
      BY <1>5, <3>1
  <2>3. Proper(worker[k].copy)'
    BY <1>4, <1>8 DEF Proper
  <2>4. (\A q \in worker[k].left : q.slot = Heading(worker[k]))'
    BY <1>4, <1>8, <2>1
  <2>5. (\A q \in worker[k].list : Groups!Tenant(q.slot) = Groups!Tenant(Heading(worker[k])))'
    BY <1>4, <1>8, <2>1 DEF Groups!Tenant
  <2>6. w.op = "stop" => (Groups!Of(worker[k].list, Heading(worker[k])) = worker[k].left)'
    BY <1>4, <1>8, <2>1 DEF Groups!Of
  <2>7. worker'[k].op \in {"runone", "stopone"} => Groups!Range(worker[k].todo)' \subseteq later'
    BY <1>2, <1>6, <1>8 DEF Groups!Range, Busy
  <2>8. Busy(worker[k])'
    <3> HIDE DEF w
    <3>1. QED
      BY <1>4, <1>8, <2>2, <2>3, <2>4, <2>5, <2>6, <2>7 DEF Busy
  <2>9. QED
    BY <1>7, <1>8, <2>8, Move DEF GroupKept
<1>10. Numbered'
  BY <1>1, <1>8 DEF GroupKept, Numbered
<1>11. OnList'
  BY <1>1 DEF GroupKept, OnList, Groups!Tenant
<1>12. ASSUME ~muddled'
       PROVE  Unmuddled'
  <2>1. Unmuddled /\ Proper(group)
    BY <1>12 DEF GroupKept
  <2>2. Calm({s}) /\ (s \in later' => Calm({}))
    BY <1>5, <1>6 DEF Calm, Believed, Groups!Of, Groups!Tenant
  <2>3. Groups!GroupTasks' = Groups!GroupTasks
    BY <1>1, <1>8, GroupTasksAfter DEF Groups!GroupTasks
  <2>4. CASE k \in Groups!GroupTasks
    <3>1. {s} \subseteq Groups!Range(w.todo)
      BY <1>5
    <3>2. QED
      BY <1>8, <2>1, <2>2, <2>3, <2>4, <3>1, OwnStep
  <2>5. CASE k \notin Groups!GroupTasks
    <3>1. \A j \in Groups!GroupTasks : worker'[j] = worker[j]
      BY <1>1, <2>5 DEF Groups!GroupTasks
    <3>2. Calm({})
      BY <1>5, <1>6, <2>2, <2>5
    <3>3. QED
      BY <2>1, <2>3, <3>1, <3>2, Bystander DEF GroupKept
  <2>6. QED
    BY <2>4, <2>5
<1>13. QED
  BY <1>9, <1>10, <1>11, <1>12 DEF GroupKept, Proper

(* The copy is written back: what it lacks of the list is gone.            *)
LEMMA SaveListKeeps ==
  ASSUME GroupKept, NEW k \in Tasks, Groups!SaveList(k)
  PROVE  GroupKept'
<1> DEFINE w == worker[k]
           s == Heading(w)
           t == Groups!Tenant(s)
<1>1. /\ DOMAIN worker' = Tasks /\ \A j \in Tasks \ {k} : worker'[j] = worker[j]
      /\ worker'[k] = [w EXCEPT !.pc = "stop", !.todo = Tail(w.todo), !.list = {}]
  BY DEF GroupKept, GroupWorkers, Groups!SaveList, Groups!Set
<1>2. /\ group' = group /\ alive' = alive /\ born' = born /\ muddled' = muddled /\ later' = later
      /\ lists' = {r \in lists : Groups!Tenant(r.slot) # t} \cup w.list
      /\ w.pc = "kill" /\ w.left = {} /\ Groups!Changes(k, t)
  BY DEF Groups!SaveList, Heading
<1>3. Busy(w) /\ DOMAIN w = DOMAIN Groups!Asleep
  BY <1>2, Awake DEF GroupKept, GroupWorkers
<1>4. /\ w.op \in {"stop", "stopone"} /\ w.todo # <<>> /\ Proper(w.copy)
      /\ \A q \in w.list : Groups!Tenant(q.slot) = t
      /\ w.op = "stop" => Groups!Of(w.list, s) = {}
      /\ t \notin crossed =>
           /\ w.list \subseteq Groups!List(t)
           /\ \A q \in Groups!List(t) \ w.list : q.slot = s /\ q \notin alive
  BY <1>2, <1>3 DEF Busy, CopyTrue
<1>5. /\ s \in Slots /\ Tail(w.todo) \in Seq(Slots)
      /\ Groups!Range(w.todo) = {s} \cup Groups!Range(Tail(w.todo))
      /\ k \in Groups!GroupTasks \/ s \in later
  BY <1>3, <1>4, NextAgent
<1>6. IsTask(worker'[k], "stop", w.op, w.status, w.copy, Tail(w.todo), {}, w.left, w.failed)
  <2> HIDE DEF w
  <2>1. QED
    BY <1>1, <1>3, Sleeps DEF IsTask
<1>7. /\ worker'[k].pc = "stop" /\ worker'[k].op = w.op /\ worker'[k].todo = Tail(w.todo)
      /\ worker'[k].copy = w.copy /\ worker'[k].list = {} /\ worker'[k].left = w.left
      /\ worker'[k].failed = w.failed /\ DOMAIN worker'[k] = DOMAIN Groups!Asleep
  BY <1>6, Sleeps DEF IsTask
<1>8. /\ crossed \subseteq crossed'
      /\ \A j \in Tasks \ {k} :
           worker[j].pc = "kill" /\ Groups!Tenant(Heading(worker[j])) = t => t \in crossed'
  BY <1>2, Crosses
<1>9. Frame({k})
  <2>1. \A u : u # t => {r \in lists' : Groups!Tenant(r.slot) = u} = Groups!List(u)
    BY <1>2, <1>4 DEF Groups!List
  <2>2. ASSUME NEW j \in Tasks \ {k}, worker[j].pc = "kill",
               Groups!Tenant(Heading(worker[j])) \notin crossed'
        PROVE  Groups!List(Groups!Tenant(Heading(worker[j])))' = Groups!List(Groups!Tenant(Heading(worker[j])))
    <3>1. Groups!Tenant(Heading(worker[j])) # t
      BY <1>8, <2>2
    <3>2. Groups!Tenant(Heading(worker[j]))' = Groups!Tenant(Heading(worker[j]))
      BY <1>1, <2>2 DEF Groups!Tenant, Heading
    <3>3. QED
      BY <2>1, <3>1, <3>2 DEF Groups!List, Groups!Tenant, Heading
  <2>3. QED
    BY <1>1, <1>2, <1>8, <2>2, Singles DEF Frame
<1>10. GroupWorkers'
  <2>1. w.op \in {"runone", "stopone"} => Groups!Range(Tail(w.todo)) \subseteq later'
    BY <1>2, <1>3, <1>5 DEF Busy
  <2>2. Busy(worker[k])'
    BY <1>4, <1>5, <1>7, <2>1, Walks
  <2>3. QED
    BY <1>7, <1>9, <2>2, Move DEF GroupKept
<1>11. Numbered'
  BY <1>1, <1>2, <1>7 DEF GroupKept, Numbered
<1>12. OnList'
  <2> SUFFICES ASSUME NEW q \in alive', Groups!Tenant(q.slot) \notin crossed'
               PROVE  q \in lists' \/ \E j \in Tasks : worker'[j].pc = "list" /\ q \in worker'[j].left
    BY DEF OnList, Groups!Tenant
  <2>1. q \in lists \/ \E j \in Tasks : worker[j].pc = "list" /\ q \in worker[j].left
    BY <1>2, <1>8 DEF GroupKept, OnList
  <2>2. CASE q \in lists
    <3>1. CASE Groups!Tenant(q.slot) = t
      <4>1. q \in Groups!List(t)
        BY <2>2, <3>1 DEF Groups!List
      <4>2. QED
        BY <1>2, <1>4, <1>8, <3>1, <4>1
    <3>2. CASE Groups!Tenant(q.slot) # t
      BY <1>2, <2>2, <3>2
    <3>3. QED
      BY <3>1, <3>2
  <2>3. CASE \E j \in Tasks : worker[j].pc = "list" /\ q \in worker[j].left
    BY <1>1, <1>2, <2>3
  <2>4. QED
    BY <2>1, <2>2, <2>3
<1>13. ASSUME ~muddled'
       PROVE  Unmuddled'
  <2>1. Unmuddled /\ Proper(group)
    BY <1>2, <1>13 DEF GroupKept
  <2>2. ASSUME NEW u \in Slots, u # s, Groups!Tenant(u) \notin crossed'
        PROVE  Groups!Of(lists', u) = Groups!Of(lists, u)
    <3>1. CASE Groups!Tenant(u) = t
      <4>1. Groups!Of(lists', u) = Groups!Of(w.list, u)
        BY <1>2, <3>1 DEF Groups!Of
      <4>2. Groups!Of(lists, u) = Groups!Of(Groups!List(t), u)
        BY <3>1 DEF Groups!Of, Groups!List
      <4>3. Groups!Of(w.list, u) = Groups!Of(Groups!List(t), u)
        BY <1>4, <1>8, <2>2, <3>1 DEF Groups!Of
      <4>4. QED
        BY <4>1, <4>2, <4>3
    <3>2. CASE Groups!Tenant(u) # t
      BY <1>2, <1>4, <3>2 DEF Groups!Of
    <3>3. QED
      BY <3>1, <3>2
  <2>3. Calm({s}) /\ (s \in later' => Calm({}))
    BY <1>2, <1>8, <2>2 DEF Calm, Believed, Groups!Of, Groups!Tenant
  <2>4. Groups!GroupTasks' = Groups!GroupTasks
    BY <1>1, <1>7, GroupTasksAfter DEF Groups!GroupTasks
  <2>5. CASE k \in Groups!GroupTasks
    <3>1. w.op = "stop"
      BY <1>4, <2>5 DEF Groups!GroupTasks
    <3>2. ASSUME Believed(s), NEW q \in alive, q.slot = s
          PROVE  FALSE
      <4>1. t \notin crossed /\ Groups!Tenant(q.slot) = t
        BY <3>2 DEF Believed
      <4>2. q \in lists \/ \E j \in Tasks : worker[j].pc = "list" /\ q \in worker[j].left
        BY <4>1 DEF GroupKept, OnList
      <4>3. CASE q \in lists
        <5>1. q \in Groups!List(t) /\ q \notin w.list
          BY <1>4, <3>1, <3>2, <4>1, <4>3 DEF Groups!List, Groups!Of
        <5>2. QED
          BY <1>4, <3>2, <4>1, <5>1
      <4>4. CASE \E j \in Tasks : worker[j].pc = "list" /\ q \in worker[j].left
        <5>1. PICK j \in Tasks : worker[j].pc = "list" /\ q \in worker[j].left
          BY <4>4
        <5>2. Busy(worker[j])
          BY <5>1, Awake DEF GroupKept
        <5>3. worker[j].todo # <<>> /\ Heading(worker[j]) = s
          BY <3>2, <5>1, <5>2 DEF Busy
        <5>4. j \notin Groups!GroupTasks
          BY <1>2, <2>1, <2>5, <5>1 DEF Unmuddled
        <5>5. s \in later
          BY <5>2, <5>3, <5>4, NextAgent
        <5>6. QED
          BY <3>2, <5>5 DEF Believed
      <4>5. QED
        BY <4>2, <4>3, <4>4
    <3>3. ASSUME NEW u, u = s
          PROVE  Halts(u)'
      <4>1. SUFFICES ASSUME Believed(u)'
                     PROVE  Groups!Of(lists' \cup alive', u) = {}
        BY DEF Halts, Groups!Of
      <4>2. Believed(s)
        BY <1>2, <1>8, <3>3, <4>1 DEF Believed
      <4>3. \A q \in lists' : q.slot # s
        BY <1>2, <1>4, <3>1 DEF Groups!Of
      <4>4. \A q \in alive : q.slot # s
        BY <3>2, <4>2
      <4>5. QED
        BY <1>2, <3>3, <4>3, <4>4 DEF Groups!Of
    <3>4. {s} \subseteq Groups!Range(w.todo)
      BY <1>5
    <3>5. \A u \in Groups!Range(w.todo) \ Groups!Range(worker'[k].todo) : u = s
      BY <1>5, <1>7
    <3>6. QED
      BY <1>2, <1>7, <2>1, <2>3, <2>4, <2>5, <3>1, <3>3, <3>4, <3>5, OwnStep
  <2>6. CASE k \notin Groups!GroupTasks
    <3>1. \A j \in Groups!GroupTasks : worker'[j] = worker[j]
      BY <1>1, <2>6 DEF Groups!GroupTasks
    <3>2. Calm({})
      BY <1>2, <1>5, <2>3, <2>6
    <3>3. QED
      BY <1>2, <2>1, <2>4, <3>1, <3>2, Bystander DEF GroupKept
  <2>7. QED
    BY <2>5, <2>6
<1>14. QED
  BY <1>2, <1>10, <1>11, <1>12, <1>13 DEF GroupKept, Proper

(* A group's request is done with its members.                             *)
LEMMA FinishKeeps ==
  ASSUME GroupKept, NEW k \in Tasks, worker[k].pc \in {"run", "stop"}, worker[k].todo = <<>>,
         worker[k].op \notin {"runone", "stopone"},
         worker' = [worker EXCEPT ![k] = [worker[k] EXCEPT !.pc = "mark", !.status = Groups!Outcome(worker[k])]],
         UNCHANGED <<group, lists, alive, born, crossed, muddled, later>>
  PROVE  GroupKept'
<1> DEFINE w == worker[k]
<1>1. /\ DOMAIN worker' = Tasks /\ \A j \in Tasks \ {k} : worker'[j] = worker[j]
      /\ worker'[k] = [w EXCEPT !.pc = "mark", !.status = Groups!Outcome(w)]
  BY DEF GroupKept, GroupWorkers
<1>2. Busy(w) /\ DOMAIN w = DOMAIN Groups!Asleep
  BY Awake DEF GroupKept, GroupWorkers
<1>3. IsTask(worker'[k], "mark", w.op, Groups!Outcome(w), w.copy, w.todo, w.list, w.left, w.failed)
  <2> HIDE DEF w
  <2>1. QED
    BY <1>1, <1>2, Sleeps DEF IsTask
<1>4. /\ worker'[k].pc = "mark" /\ worker'[k].op = w.op /\ worker'[k].todo = w.todo
      /\ worker'[k].copy = w.copy /\ worker'[k].list = w.list /\ worker'[k].left = w.left
      /\ worker'[k].failed = w.failed /\ worker'[k].status = Groups!Outcome(w)
      /\ DOMAIN worker'[k] = DOMAIN Groups!Asleep
  BY <1>3, Sleeps DEF IsTask
<1>5. w.op \in {"run", "stop"} /\ Proper(w.copy) /\ w.todo = <<>>
  BY <1>2 DEF Busy
<1>6. Frame({k})
  BY <1>1, Singles, Still
<1>7. GroupWorkers'
  <2>1. Proper(worker[k].copy)' /\ Groups!Outcome(worker[k])' = Groups!Outcome(w)
    BY <1>4, <1>5 DEF Proper, Groups!Outcome
  <2>2. worker'[k].todo \in Seq(Slots)
    BY <1>2, <1>4 DEF Busy
  <2> HIDE DEF w
  <2>3. Busy(worker[k])'
    BY <1>4, <1>5, <2>1, <2>2 DEF Busy
  <2>4. QED
    BY <1>4, <1>6, <2>3, Move DEF GroupKept
<1>8. Numbered'
  BY <1>1, <1>4 DEF GroupKept, Numbered
<1>9. OnList'
  BY <1>1 DEF GroupKept, OnList, Groups!Tenant
<1>10. ASSUME ~muddled'
       PROVE  Unmuddled'
  <2>1. Unmuddled /\ Proper(group) /\ Calm({})
    BY <1>10 DEF GroupKept, Calm, Believed, Groups!Of
  <2>2. k \in Groups!GroupTasks /\ Groups!GroupTasks' = Groups!GroupTasks
    BY <1>1, <1>4, <1>5, GroupTasksAfter DEF Groups!GroupTasks
  <2>3. QED
    BY <1>4, <2>1, <2>2, OwnStep
<1>11. QED
  BY <1>7, <1>8, <1>9, <1>10 DEF GroupKept, Proper

(* Edits of the group, while no request for it is under way.               *)
LEMMA EditKeeps ==
  ASSUME GroupKept, Proper(group'), \A g \in group' : g.status = "idle",
         muddled' = (muddled \/ Groups!GroupTasks # {}),
         UNCHANGED <<lists, alive, worker, born, crossed, later>>
  PROVE  GroupKept'
<1>1. Frame({})
  BY Singles, Still DEF GroupKept, GroupWorkers
<1>2. GroupWorkers'
  BY <1>1, Move DEF GroupKept
<1>3. Numbered' /\ OnList'
  BY DEF GroupKept, Numbered, OnList, Groups!Tenant
<1>4. ASSUME ~muddled'
      PROVE  Unmuddled'
  <2>1. Groups!GroupTasks' = {}
    BY <1>4 DEF Groups!GroupTasks
  <2>2. AtRest'
    BY DEF AtRest
  <2>3. QED
    BY <2>1, <2>2 DEF Unmuddled
<1>5. QED
  BY <1>2, <1>3, <1>4 DEF GroupKept, Proper

(* An agent that ends by itself, and a node that does.                     *)
LEMMA ExitKeeps ==
  ASSUME GroupKept, NEW p \in alive, Groups!Exit(p)
  PROVE  GroupKept'
<1>1. /\ alive' = alive \ {p} /\ later' = later \cup {p.slot}
      /\ UNCHANGED <<group, lists, worker, born, crossed, muddled>>
  BY DEF Groups!Exit
<1>2. Frame({})
  BY <1>1, Singles DEF Frame, Groups!List, GroupKept, GroupWorkers
<1>3. GroupWorkers'
  BY <1>2, Move DEF GroupKept
<1>4. Numbered' /\ OnList'
  BY <1>1 DEF GroupKept, Numbered, OnList, Groups!Tenant
<1>5. ASSUME ~muddled'
      PROVE  Unmuddled'
  <2>1. Calm({})
    BY <1>1 DEF Calm, Believed, Groups!Of
  <2>2. Groups!GroupTasks' = Groups!GroupTasks
    BY <1>1 DEF Groups!GroupTasks
  <2>3. QED
    BY <1>1, <1>5, <2>1, <2>2, Bystander DEF GroupKept
<1>6. QED
  BY <1>1, <1>3, <1>4, <1>5 DEF GroupKept, Proper

LEMMA CrashKeeps ==
  ASSUME GroupKept, Groups!NCrash
  PROVE  GroupKept'
<1>1. /\ muddled' = (muddled \/ Groups!GroupTasks # {})
      /\ crossed' = crossed \cup
           {Groups!Tenant(Heading(worker[k])) : k \in {o \in Tasks : worker[o].pc = "list"}}
      /\ worker' = [k \in Tasks |-> Groups!Asleep]
      /\ UNCHANGED <<group, lists, alive, born, later>>
  BY DEF Groups!NCrash, Groups!Tenant, Heading
<1>2. crossed \subseteq crossed'
  BY <1>1
<1>3. Frame(Tasks)
  BY <1>1 DEF Frame
<1>4. GroupWorkers'
  BY <1>1, <1>3, Move DEF GroupKept
<1>5. Numbered'
  BY <1>1, Sleeps DEF GroupKept, Numbered, IsTask
<1>6. OnList'
  <2> SUFFICES ASSUME NEW q \in alive', Groups!Tenant(q.slot) \notin crossed'
               PROVE  q \in lists'
    BY DEF OnList, Groups!Tenant
  <2>1. q \in lists \/ \E j \in Tasks : worker[j].pc = "list" /\ q \in worker[j].left
    BY <1>1, <1>2 DEF GroupKept, OnList
  <2>2. ASSUME NEW j \in Tasks, worker[j].pc = "list", q \in worker[j].left
        PROVE  FALSE
    <3>1. q.slot = Heading(worker[j])
      BY <2>2, Awake DEF GroupKept, Busy
    <3>2. Groups!Tenant(q.slot) \in crossed'
      BY <1>1, <2>2, <3>1
    <3>3. QED
      BY <3>2
  <2>3. QED
    BY <1>1, <2>1, <2>2
<1>7. ASSUME ~muddled'
      PROVE  Unmuddled'
  <2>1. Groups!GroupTasks = {} /\ Unmuddled /\ Calm({})
    BY <1>1, <1>2, <1>7 DEF GroupKept, Calm, Believed, Groups!Of
  <2>2. Groups!GroupTasks' = {}
    BY <1>1, Sleeps DEF Groups!GroupTasks, IsTask
  <2>3. AtRest'
    <3> SUFFICES ASSUME NEW g \in group, NEW s \in Groups!Range(g.members)
                 PROVE  (Runs(s) => Runs(s)') /\ (Halts(s) => Halts(s)')
      BY <1>1, <2>1 DEF Unmuddled, AtRest, Groups!Range
    <3>1. s \in Slots \ {}
      BY Ranges DEF GroupKept, Proper
    <3>2. QED
      BY <2>1, <3>1, ClaimsStay
  <2>4. QED
    BY <2>2, <2>3 DEF Unmuddled
<1>8. QED
  BY <1>1, <1>4, <1>5, <1>6, <1>7 DEF GroupKept, Proper

-----------------------------------------------------------------------------
(* It holds at first, and each action keeps it.                            *)
LEMMA GroupInit ==
  ASSUME Init, part = "groups"
  PROVE  GroupKept
<1>1. Groups!NInit
  BY DEF Init
<1>2. /\ group \in {{}} \cup {{[members |-> m, status |-> "idle"]} : m \in Members}
      /\ lists = {} /\ alive = {} /\ born = 0 /\ worker = [k \in Tasks |-> Groups!Asleep]
  BY <1>1 DEF Groups!NInit
<1>3. GroupWorkers /\ Numbered /\ OnList
  BY <1>2, Sleeps DEF GroupWorkers, Numbered, OnList, IsTask
<1>4. Proper(group) /\ \A g \in group : g.status = "idle"
  BY <1>2, StoresAssumption DEF Proper
<1>5. Groups!GroupTasks = {}
  BY <1>2, Sleeps DEF Groups!GroupTasks, IsTask
<1>6. AtRest
  BY <1>4 DEF AtRest
<1>7. QED
  BY <1>3, <1>4, <1>5, <1>6 DEF GroupKept, Unmuddled

LEMMA GroupNext ==
  ASSUME GroupKept, Groups!NNext
  PROVE  GroupKept'
<1>1. ASSUME NEW k \in Tasks, NEW op \in {"run", "stop"}, Groups!GroupRequest(k, op)
      PROVE  GroupKept'
  BY <1>1, GroupRequestKeeps
<1>2. ASSUME NEW k \in Tasks, NEW s \in Slots, NEW op \in {"runone", "stopone"},
             Groups!AgentRequest(k, s, op)
      PROVE  GroupKept'
  BY <1>2, AgentRequestKeeps
<1>3. ASSUME NEW k \in Tasks, Groups!StartMember(k)
      PROVE  GroupKept'
  <2>1. CASE /\ worker' = [worker EXCEPT ![k] = [worker[k] EXCEPT !.todo = Tail(worker[k].todo), !.failed = TRUE]]
             /\ UNCHANGED <<born, alive, later>>
    BY <1>3, <2>1, NoStartKeeps DEF Groups!StartMember
  <2>2. CASE LET s == Heading(worker[k]) IN
               /\ born' = born + 1
               /\ alive' = {p \in alive : p.slot # s} \cup {[slot |-> s, pid |-> born']}
               /\ worker' = [worker EXCEPT ![k] = [worker[k] EXCEPT !.pc = "list", !.left = {[slot |-> s, pid |-> born']}]]
               /\ Groups!Touches(k, s)
    BY <1>3, <2>2, StartKeeps DEF Groups!StartMember
  <2>3. QED
    BY <1>3, <2>1, <2>2 DEF Groups!StartMember, Groups!Set, Heading
<1>4. ASSUME NEW k \in Tasks, Groups!StopMember(k)
      PROVE  GroupKept'
  <2>1. CASE k \notin Groups!GroupTasks /\ worker' = [worker EXCEPT ![k] = Groups!Asleep]
    BY <1>4, <2>1, EndKeeps DEF Groups!StopMember
  <2>2. ASSUME NEW rs \in Groups!Found(k, Heading(worker[k])),
               worker' = [worker EXCEPT ![k] = [worker[k] EXCEPT !.pc = "kill",
                            !.list = Groups!List(Groups!Tenant(Heading(worker[k]))), !.left = rs]]
        PROVE  GroupKept'
    BY <1>4, <2>2, StopMemberKeeps DEF Groups!StopMember
  <2>3. QED
    BY <1>4, <2>1, <2>2 DEF Groups!StopMember, Groups!Set, Heading
<1>5. ASSUME NEW k \in Tasks, Groups!Kill(k)
      PROVE  GroupKept'
  <2>1. PICK r \in worker[k].left :
          /\ alive' = alive \ {r} /\ Groups!Touches(k, r.slot)
          /\ worker' = [worker EXCEPT ![k] = [worker[k] EXCEPT !.list = worker[k].list \ {r},
                          !.left = worker[k].left \ {r}]]
    BY <1>5 DEF Groups!Kill, Groups!Set
  <2>2. QED
    BY <1>5, <2>1, KillKeeps DEF Groups!Kill
<1>6. ASSUME NEW k \in Tasks, Groups!Finish(k)
      PROVE  GroupKept'
  <2>1. CASE worker[k].op \in {"runone", "stopone"}
    <3>1. k \notin Groups!GroupTasks /\ worker[k].pc # "list"
      BY <1>6, <2>1 DEF Groups!Finish, Groups!GroupTasks
    <3>2. worker' = [worker EXCEPT ![k] = Groups!Asleep]
      BY <1>6, <2>1 DEF Groups!Finish, Groups!Set
    <3>3. QED
      BY <1>6, <3>1, <3>2, EndKeeps DEF Groups!Finish
  <2>2. CASE worker[k].op \notin {"runone", "stopone"}
    BY <1>6, <2>2, FinishKeeps DEF Groups!Finish, Groups!Set
  <2>3. QED
    BY <2>1, <2>2
<1>7. ASSUME NEW m \in Members, Groups!PutGroup(m)
      PROVE  GroupKept'
  <2>1. m \in Seq(Slots)
    BY StoresAssumption
  <2>2. Proper(group') /\ \A g \in group' : g.status = "idle"
    BY <1>7, <2>1 DEF Proper, Groups!PutGroup
  <2>3. QED
    BY <1>7, <2>2, EditKeeps DEF Groups!PutGroup
<1>8. ASSUME Groups!DeleteGroup
      PROVE  GroupKept'
  <2>1. Proper(group') /\ \A g \in group' : g.status = "idle"
    BY <1>8 DEF Proper, Groups!DeleteGroup
  <2>2. QED
    BY <1>8, <2>1, EditKeeps DEF Groups!DeleteGroup
<1>9. QED
  BY <1>1, <1>2, <1>3, <1>4, <1>5, <1>6, <1>7, <1>8, MarkLoadKeeps, MarkSaveKeeps, ListMemberKeeps,
     SaveListKeeps, ExitKeeps, CrashKeeps DEF Groups!NNext

(* When no request is under way and none for the group met another or a    *)
(* crash, the group's status is a final one, and is what its members do,   *)
(* apart from those that others have touched and from tenants whose list   *)
(* was crossed: see AgentGroups.                                           *)
THEOREM GroupsTruthful == Spec => []GroupTruth
<1>1. Init => GroupInv
  BY GroupInit DEF GroupInv
<1>2. GroupInv /\ [Next]_vars => GroupInv'
  <2>0. [Next]_vars => part' = part
    <3>1. Next => part' = part
      BY DEF Next
    <3>2. UNCHANGED vars => part' = part
      BY DEF vars
    <3>3. QED
      BY <3>1, <3>2
  <2> SUFFICES ASSUME GroupInv, [Next]_vars, part = "groups"
               PROVE  GroupKept'
    BY <2>0 DEF GroupInv
  <2>1. GroupKept
    BY DEF GroupInv
  <2>2. CASE UNCHANGED Groups!groupVars
    <3>1. /\ UNCHANGED <<group, lists, alive, worker, born, crossed, muddled, later>>
      BY <2>2 DEF Groups!groupVars
    <3>2. Frame({})
      BY <2>1, <3>1, Singles, Still DEF GroupKept, GroupWorkers
    <3>3. GroupWorkers'
      BY <2>1, <3>2, Move DEF GroupKept
    <3>4. Numbered' /\ OnList' /\ Proper(group)'
      BY <2>1, <3>1 DEF GroupKept, Numbered, OnList, Proper, Groups!Tenant
    <3>5. ASSUME ~muddled'
          PROVE  Unmuddled'
      <4>1. Calm({}) /\ Groups!GroupTasks' = Groups!GroupTasks
        BY <3>1 DEF Calm, Believed, Groups!Of, Groups!GroupTasks
      <4>2. QED
        BY <2>1, <3>1, <3>5, <4>1, Bystander DEF GroupKept
    <3>6. QED
      BY <3>3, <3>4, <3>5 DEF GroupKept
  <2>3. QED
    BY <2>1, <2>2, GroupSteps, GroupNext
<1>3. GroupInv => GroupTruth
  <2> SUFFICES ASSUME GroupKept, ~muddled, \A k \in Tasks : worker[k].pc = "idle"
               PROVE  \A g \in group :
                        /\ g.status \notin {"starting", "stopping"}
                        /\ \A i \in DOMAIN g.members :
                             LET s == g.members[i] IN
                             s \notin later /\ Groups!Tenant(s) \notin crossed =>
                               /\ g.status = "running" => Groups!Of(lists \cap alive, s) # {}
                               /\ g.status = "stopped" => Groups!Of(lists \cup alive, s) = {}
    BY DEF GroupInv, GroupTruth, Groups!GroupTruth
  <2>1. Groups!GroupTasks = {}
    BY Asleeps DEF GroupKept, Groups!GroupTasks
  <2>2. AtRest
    BY <2>1 DEF GroupKept, Unmuddled
  <2>3. \A g \in group : \A i \in DOMAIN g.members : g.members[i] \in Groups!Range(g.members)
    BY DEF Groups!Range
  <2>4. QED
    BY <2>2, <2>3 DEF AtRest, Runs, Halts, Believed
<1>4. QED
  BY <1>1, <1>2, <1>3, PTL DEF Spec
-----------------------------------------------------------------------------
(* Installations.  What the registration of a package found or downloaded, *)
(* unless one of the cases that PackagesRun names explains it.             *)
Excused(p) ==
  \/ ((p.command \cup {Install!BinaryName(p.kind)}) \cap own) \ path # {}
  \/ \E b \in p.command : b # Install!BinaryName(p.kind)
  \/ \E d \in p.download : d.file # Install!BinaryName(p.kind)

Provided(p) ==
  Excused(p) \/ p.kind = "shell" \/ Install!BinaryName(p.kind) \in own
    \/ Install!Installed(p.kind, Install!BinaryName(p.kind))

(* A file that is not whole is being written, or its kind is spoilt.       *)
WholeFiles ==
  \A f \in DOMAIN runtimes :
    /\ f = <<f[1], f[2]>>
    /\ \/ runtimes[f].ready = TRUE
       \/ f[1] \in spoilt
       \/ \E w \in Install!Writing(f[1]) : w[2].file = f[2]

(* A file that is being written is there.                                  *)
Opened(package) == \A p \in package : \A d \in p.download : <<p.kind, d.file>> \in DOMAIN runtimes

Doing(r) ==
  /\ r.pc \in {"fetch", "check", "ensure", "install", "finish", "register", "clean"}
  /\ \E p \in Runtimes : r.package = {p}

Registrants ==
  /\ DOMAIN registrant = Tasks
  /\ \A k \in Tasks :
       /\ DOMAIN registrant[k] = {"pc", "package", "dir"}
       /\ registrant[k] = Install!Quiet \/ Doing(registrant[k])

InstallKept ==
  /\ Registrants /\ WholeFiles
  /\ "sh" \in path /\ registered \subseteq Runtimes
  /\ \A p \in registered : Provided(p)
  /\ \A k \in Tasks :
       /\ registrant[k].pc = "register" => \A p \in registrant[k].package : Provided(p)
       /\ registrant[k].pc = "finish" => Opened(registrant[k].package)
  /\ ops \in Nat /\ staging \subseteq 1..ops
  /\ \A n \in staging \ abandoned : \E k \in Tasks : registrant[k].dir = n

InstallInv == part = "installs" => InstallKept

-----------------------------------------------------------------------------
(* A step of a node whose part is installations is one of RuntimeInstall.  *)
LEMMA InstallSteps ==
  ASSUME [Next]_vars, part = "installs"
  PROVE  part' = part /\ (Install!INext \/ UNCHANGED Install!installVars)
<1>1. CASE Next
  BY <1>1 DEF Next
<1>2. CASE UNCHANGED vars
  BY <1>2 DEF vars, installVars, Install!installVars
<1>3. QED
  BY <1>1, <1>2

(* What the packages of a node may be.                                     *)
LEMMA Packaged ==
  ASSUME NEW p \in Runtimes
  PROVE  /\ p.kind \in {"deno", "nodejs", "bash", "shell", "tool"}
         /\ "shell" \notin p.command
         /\ \A b, c \in p.command : b = c
         /\ \A d, e \in p.download : d = e
<1>1. p \in Install!Package
  BY StoresAssumption
<1>2. /\ p.kind \in Install!Kinds
      /\ p.command \in {{}} \cup {{b} : b \in Install!Binaries}
      /\ p.download \in {{}} \cup {{[file |-> f, build |-> n]} : f \in Install!Binaries \cup {"other"}, n \in 1..2}
  BY <1>1 DEF Install!Package
<1>3. QED
  BY <1>2 DEF Install!Kinds, Install!Binaries

(* What was provided stays so.                                             *)
LEMMA ProvidedStays ==
  ASSUME own' = own, path' = path, DOMAIN runtimes \subseteq DOMAIN runtimes', NEW p, Provided(p)
  PROVE  Provided(p)'
BY DEF Provided, Excused, Install!Installed, Install!BinaryName

(* A task that is not idle is doing something for one package.             *)
LEMMA Occupied ==
  ASSUME InstallKept, NEW k \in Tasks, registrant[k].pc # "idle"
  PROVE  Doing(registrant[k])
BY DEF InstallKept, Registrants, Install!Quiet

(* The downloads that a task writes.                                       *)
LEMMA Written ==
  ASSUME NEW kind, NEW w
  PROVE  w \in Install!Writing(kind) <=>
           /\ w \in Tasks \X UNION {p.download : p \in Runtimes}
           /\ registrant[w[1]].pc = "finish"
           /\ \E p \in registrant[w[1]].package : p.kind = kind /\ w[2] \in p.download
BY DEF Install!Writing

(* A step of one task leaves the downloads of the others.                  *)
LEMMA WritingStays ==
  ASSUME NEW k, \A j \in Tasks \ {k} : registrant'[j] = registrant[j], NEW kind,
         NEW w \in Install!Writing(kind), w[1] # k
  PROVE  w \in Install!Writing(kind)'
<1>1. /\ w \in Tasks \X UNION {p.download : p \in Runtimes} /\ w[1] \in Tasks
      /\ registrant[w[1]].pc = "finish"
      /\ \E p \in registrant[w[1]].package : p.kind = kind /\ w[2] \in p.download
  BY DEF Install!Writing
<1>2. registrant'[w[1]] = registrant[w[1]]
  BY <1>1
<1>3. QED
  BY <1>1, <1>2 DEF Install!Writing

(* A step of one task, apart from what it does to files.                   *)
Advance(k, w) ==
  /\ registrant' = [registrant EXCEPT ![k] = w]
  /\ DOMAIN w = {"pc", "package", "dir"} /\ (w = Install!Quiet \/ Doing(w))
  /\ own' = own /\ path' = path
  /\ \A p \in registered' : p \in registered \/ (p \in Runtimes /\ Provided(p))
  /\ w.pc = "register" => \A p \in w.package : Provided(p)'
  /\ w.pc = "finish" => \A p \in w.package : \A d \in p.download : <<p.kind, d.file>> \in DOMAIN runtimes'
  /\ ops' \in Nat /\ staging' \subseteq 1..ops'
  /\ \A n \in staging' \ abandoned' :
       n = w.dir \/ (n \in staging \ abandoned /\ n # registrant[k].dir)

(* Such a step keeps the invariant when files stay and are whole.          *)
LEMMA Advances ==
  ASSUME InstallKept, NEW k \in Tasks, NEW w, Advance(k, w),
         DOMAIN runtimes \subseteq DOMAIN runtimes', WholeFiles'
  PROVE  InstallKept'
<1>1. /\ DOMAIN registrant' = Tasks /\ registrant'[k] = w
      /\ \A j \in Tasks \ {k} : registrant'[j] = registrant[j]
  BY DEF InstallKept, Registrants, Advance
<1>2. Registrants'
  <2>1. \A j \in Tasks \ {k} : DOMAIN registrant'[j] = {"pc", "package", "dir"}
          /\ (registrant'[j] = Install!Quiet \/ Doing(registrant'[j]))
    BY <1>1 DEF InstallKept, Registrants
  <2>2. DOMAIN registrant'[k] = {"pc", "package", "dir"}
          /\ (registrant'[k] = Install!Quiet \/ Doing(registrant'[k]))
    BY <1>1 DEF Advance
  <2>3. QED
    BY <1>1, <2>1, <2>2 DEF Registrants, Doing, Install!Quiet
<1>3. \A p : Provided(p) => Provided(p)'
  BY ProvidedStays DEF Advance
<1>4. registered' \subseteq Runtimes /\ (\A p \in registered : Provided(p))'
  BY <1>3 DEF InstallKept, Advance
<1>5. (\A j \in Tasks : /\ registrant[j].pc = "register" => \A p \in registrant[j].package : Provided(p)
                        /\ registrant[j].pc = "finish" => Opened(registrant[j].package))'
  BY <1>1, <1>3 DEF InstallKept, Advance, Opened
<1>6. (\A n \in staging \ abandoned : \E j \in Tasks : registrant[j].dir = n)'
  <2> SUFFICES ASSUME NEW n \in staging' \ abandoned'
               PROVE  \E j \in Tasks : registrant'[j].dir = n
    OBVIOUS
  <2>1. CASE n = w.dir
    BY <1>1, <2>1
  <2>2. CASE n \in staging \ abandoned /\ n # registrant[k].dir
    <3>1. PICK j \in Tasks : registrant[j].dir = n
      BY <2>2 DEF InstallKept
    <3>2. QED
      BY <1>1, <2>2, <3>1
  <2>3. QED
    BY <2>1, <2>2 DEF Advance
<1>7. QED
  BY <1>2, <1>4, <1>5, <1>6 DEF InstallKept, Advance

(* Most steps touch no file.                                               *)
LEMMA FilesStay ==
  ASSUME InstallKept, NEW k \in Tasks, NEW w, registrant' = [registrant EXCEPT ![k] = w],
         runtimes' = runtimes, spoilt \subseteq spoilt',
         registrant[k].pc = "finish" => \A p \in registrant[k].package : p.kind \in spoilt'
  PROVE  WholeFiles'
<1>1. \A j \in Tasks \ {k} : registrant'[j] = registrant[j]
  BY DEF InstallKept, Registrants
<1> SUFFICES ASSUME NEW f \in DOMAIN runtimes, runtimes[f].ready # TRUE, f[1] \notin spoilt'
             PROVE  \E v \in Install!Writing(f[1])' : v[2].file = f[2]
  BY DEF WholeFiles, InstallKept
<1>2. PICK v \in Install!Writing(f[1]) : v[2].file = f[2]
  BY DEF InstallKept, WholeFiles
<1>3. v[1] # k
  BY <1>2, Written
<1>4. QED
  BY <1>1, <1>2, <1>3, WritingStays

(* A task that goes on with the same package and directory.                *)
LEMMA GoesTo ==
  ASSUME InstallKept, NEW k \in Tasks, registrant[k].pc # "idle",
         NEW pc \in {"fetch", "check", "ensure", "install", "finish", "register", "clean"},
         Install!Go(k, pc)
  PROVE  \E w : /\ registrant' = [registrant EXCEPT ![k] = w]
                /\ DOMAIN w = {"pc", "package", "dir"} /\ Doing(w)
                /\ w.pc = pc /\ w.package = registrant[k].package /\ w.dir = registrant[k].dir
<1> DEFINE r == registrant[k]
           w == [r EXCEPT !.pc = pc]
<1>1. DOMAIN r = {"pc", "package", "dir"} /\ Doing(r)
  BY Occupied DEF InstallKept, Registrants
<1>2. registrant' = [registrant EXCEPT ![k] = w]
  BY <1>1 DEF Install!Go, InstallKept, Registrants
<1> HIDE DEF r
<1>3. /\ DOMAIN w = {"pc", "package", "dir"} /\ w.pc = pc /\ w.package = r.package /\ w.dir = r.dir
  BY <1>1
<1>4. Doing(w)
  BY <1>1, <1>3 DEF Doing
<1> HIDE DEF w
<1>5. QED
  BY <1>2, <1>3, <1>4 DEF r

(* A task that ends takes its directory along or leaves it behind.         *)
LEMMA Quiets ==
  ASSUME InstallKept, NEW k \in Tasks, registrant' = [registrant EXCEPT ![k] = Install!Quiet],
         UNCHANGED <<own, path, runtimes, registered, ops>>, spoilt \subseteq spoilt',
         registrant[k].pc = "finish" => \A p \in registrant[k].package : p.kind \in spoilt',
         staging' \subseteq staging, abandoned \subseteq abandoned',
         registrant[k].dir \in abandoned' \/ registrant[k].dir \notin staging'
  PROVE  InstallKept'
<1>1. Advance(k, Install!Quiet)
  BY DEF Advance, Install!Quiet, InstallKept
<1>2. WholeFiles'
  BY FilesStay
<1>3. QED
  BY <1>1, <1>2, Advances

(* A task that goes on, and registers only what is provided.               *)
LEMMA Proceeds ==
  ASSUME InstallKept, NEW k \in Tasks, registrant[k].pc # "idle",
         NEW pc \in {"fetch", "check", "ensure", "install", "finish", "register", "clean"},
         Install!Go(k, pc),
         UNCHANGED <<own, path, runtimes, staging, ops, abandoned>>, spoilt \subseteq spoilt',
         registrant[k].pc = "finish" => \A p \in registrant[k].package : p.kind \in spoilt',
         pc # "finish", pc = "register" => \A p \in registrant[k].package : Provided(p),
         \/ registered' = registered
         \/ registered' = registered \cup registrant[k].package /\ registrant[k].pc = "register"
  PROVE  InstallKept'
<1>1. PICK w : /\ registrant' = [registrant EXCEPT ![k] = w]
               /\ DOMAIN w = {"pc", "package", "dir"} /\ Doing(w)
               /\ w.pc = pc /\ w.package = registrant[k].package /\ w.dir = registrant[k].dir
  BY GoesTo
<1>2. WholeFiles'
  BY <1>1, FilesStay
<1>3. \A p : Provided(p) => Provided(p)'
  BY ProvidedStays
<1>4. \A p \in registered' : p \in registered \/ (p \in Runtimes /\ Provided(p))
  BY Occupied DEF Doing, InstallKept
<1>5. Advance(k, w)
  BY <1>1, <1>3, <1>4 DEF Advance, InstallKept
<1>6. QED
  BY <1>1, <1>2, <1>5, Advances

(* The steps of a registration, one lemma for each.                        *)
LEMMA StageKeeps ==
  ASSUME InstallKept, NEW k \in Tasks, NEW p \in Runtimes, Install!Stage(k, p)
  PROVE  InstallKept'
<1> DEFINE w == [pc |-> "fetch", package |-> {p}, dir |-> ops']
<1>1. /\ registrant[k].pc = "idle" /\ ops' = ops + 1 /\ staging' = staging \cup {ops'}
      /\ registrant' = [registrant EXCEPT ![k] = w]
      /\ UNCHANGED <<own, path, runtimes, registered, spoilt, abandoned>>
  BY DEF Install!Stage
<1>2. registrant[k].dir = 0
  BY <1>1 DEF InstallKept, Registrants, Install!Quiet, Doing
<1>3. WholeFiles'
  BY <1>1, FilesStay
<1>4. Doing(w) /\ DOMAIN w = {"pc", "package", "dir"} /\ w.pc = "fetch" /\ w.dir = ops'
  BY DEF Doing
<1>5. ops' \in Nat /\ staging' \subseteq 1..ops' /\ 0 \notin staging
  BY <1>1 DEF InstallKept
<1> HIDE DEF w
<1>6. Advance(k, w)
  BY <1>1, <1>2, <1>4, <1>5 DEF Advance, InstallKept
<1>7. QED
  BY <1>1, <1>3, <1>6, Advances

LEMMA OpenFileKeeps ==
  ASSUME InstallKept, NEW k \in Tasks, Install!OpenFile(k)
  PROVE  InstallKept'
<1>1. PICK p \in registrant[k].package : \E d \in p.download :
        /\ runtimes' = [g \in DOMAIN runtimes \cup {<<p.kind, d.file>>} |->
             IF g = <<p.kind, d.file>> THEN [build |-> d.build, ready |-> FALSE] ELSE runtimes[g]]
        /\ spoilt \subseteq spoilt'
  BY DEF Install!OpenFile
<1>2. PICK d \in p.download :
        /\ runtimes' = [g \in DOMAIN runtimes \cup {<<p.kind, d.file>>} |->
             IF g = <<p.kind, d.file>> THEN [build |-> d.build, ready |-> FALSE] ELSE runtimes[g]]
        /\ spoilt \subseteq spoilt'
  BY <1>1
<1>3. /\ registrant[k].pc = "install" /\ Install!Go(k, "finish")
      /\ UNCHANGED <<own, path, staging, registered, ops, abandoned>>
  BY DEF Install!OpenFile
<1>4. PICK w : /\ registrant' = [registrant EXCEPT ![k] = w]
               /\ DOMAIN w = {"pc", "package", "dir"} /\ Doing(w)
               /\ w.pc = "finish" /\ w.package = registrant[k].package /\ w.dir = registrant[k].dir
  BY <1>3, GoesTo
<1>5. registrant'[k] = w /\ \A j \in Tasks \ {k} : registrant'[j] = registrant[j]
  BY <1>4 DEF InstallKept, Registrants
<1>6. p \in Runtimes /\ registrant[k].package = {p} /\ \A e \in p.download : e = d
  BY <1>1, <1>3, Occupied, Packaged DEF Doing
<1>7. <<k, d>> \in Install!Writing(p.kind)'
  <2>1. <<k, d>> \in Tasks \X UNION {q.download : q \in Runtimes}
    BY <1>6
  <2>2. QED
    BY <1>4, <1>5, <2>1 DEF Install!Writing
<1>8. WholeFiles'
  <2>0. \A f \in DOMAIN runtimes' : f = <<f[1], f[2]>>
    <3>1. \A f \in DOMAIN runtimes : f = <<f[1], f[2]>>
      BY DEF InstallKept, WholeFiles
    <3>2. DOMAIN runtimes' = DOMAIN runtimes \cup {<<p.kind, d.file>>}
      BY <1>2
    <3>3. QED
      BY <3>1, <3>2
  <2> SUFFICES ASSUME NEW f \in DOMAIN runtimes', runtimes'[f].ready # TRUE, f[1] \notin spoilt'
               PROVE  \E v \in Install!Writing(f[1])' : v[2].file = f[2]
    BY <2>0 DEF WholeFiles
  <2>1. CASE f = <<p.kind, d.file>>
    BY <1>7, <2>1
  <2>2. CASE f # <<p.kind, d.file>>
    <3>1. f \in DOMAIN runtimes /\ runtimes[f].ready # TRUE /\ f[1] \notin spoilt
      BY <1>2, <2>2
    <3>2. PICK v \in Install!Writing(f[1]) : v[2].file = f[2]
      BY <3>1 DEF InstallKept, WholeFiles
    <3>3. v[1] # k
      BY <1>3, <3>2, Written
    <3>4. QED
      BY <1>5, <3>2, <3>3, WritingStays
  <2>3. QED
    BY <2>1, <2>2
<1>9. /\ DOMAIN runtimes \subseteq DOMAIN runtimes'
      /\ \A q \in w.package : \A e \in q.download : <<q.kind, e.file>> \in DOMAIN runtimes'
  BY <1>4, <1>6, <1>2
<1>10. Advance(k, w)
  BY <1>3, <1>4, <1>9 DEF Advance, InstallKept
<1>11. QED
  BY <1>8, <1>9, <1>10, Advances

LEMMA FinishFileKeeps ==
  ASSUME InstallKept, NEW k \in Tasks, Install!FinishFile(k)
  PROVE  InstallKept'
<1>1. PICK p \in registrant[k].package : \E d \in p.download : \E ready \in BOOLEAN :
        /\ runtimes' = [runtimes EXCEPT ![<<p.kind, d.file>>] = [build |-> d.build, ready |-> ready]]
        /\ ready = TRUE \/ p.kind \in spoilt
             \/ {w \in Install!Writing(p.kind) : w[2].file = d.file} # {<<k, d>>}
  BY DEF Install!FinishFile
<1>2. PICK d \in p.download : \E ready \in BOOLEAN :
        /\ runtimes' = [runtimes EXCEPT ![<<p.kind, d.file>>] = [build |-> d.build, ready |-> ready]]
        /\ ready = TRUE \/ p.kind \in spoilt
             \/ {w \in Install!Writing(p.kind) : w[2].file = d.file} # {<<k, d>>}
  BY <1>1
<1>3. /\ registrant[k].pc = "finish" /\ Install!Go(k, "register")
      /\ UNCHANGED <<own, path, staging, registered, ops, spoilt, abandoned>>
  BY DEF Install!FinishFile
<1>4. PICK w : /\ registrant' = [registrant EXCEPT ![k] = w]
               /\ DOMAIN w = {"pc", "package", "dir"} /\ Doing(w)
               /\ w.pc = "register" /\ w.package = registrant[k].package /\ w.dir = registrant[k].dir
  BY <1>3, GoesTo
<1>5. registrant'[k] = w /\ \A j \in Tasks \ {k} : registrant'[j] = registrant[j]
  BY <1>4 DEF InstallKept, Registrants
<1>6. p \in Runtimes /\ registrant[k].package = {p} /\ \A e \in p.download : e = d
  BY <1>2, <1>3, Occupied, Packaged DEF Doing
<1>7. ASSUME NEW kind, NEW v \in Install!Writing(kind), v[1] = k
      PROVE  kind = p.kind /\ v = <<k, d>>
  <2>1. v \in Tasks \X UNION {q.download : q \in Runtimes} /\ p.kind = kind /\ v[2] \in p.download
    BY <1>6, <1>7, Written
  <2>2. QED
    BY <1>6, <1>7, <2>1
<1>8. <<k, d>> \in Install!Writing(p.kind)
  <2>1. <<k, d>> \in Tasks \X UNION {q.download : q \in Runtimes}
    BY <1>6
  <2>2. QED
    BY <1>3, <1>6, <2>1 DEF Install!Writing
<1>9. DOMAIN runtimes' = DOMAIN runtimes
  BY <1>2
<1>10. WholeFiles'
  <2> SUFFICES ASSUME NEW f \in DOMAIN runtimes, runtimes'[f].ready # TRUE, f[1] \notin spoilt
               PROVE  \E v \in Install!Writing(f[1])' : v[2].file = f[2]
    BY <1>3, <1>9 DEF WholeFiles, InstallKept
  <2>1. CASE f = <<p.kind, d.file>>
    <3>1. {v \in Install!Writing(p.kind) : v[2].file = d.file} # {<<k, d>>}
      <4>1. PICK ready \in BOOLEAN :
              /\ runtimes'[f] = [build |-> d.build, ready |-> ready]
              /\ ready = TRUE \/ p.kind \in spoilt
                   \/ {v \in Install!Writing(p.kind) : v[2].file = d.file} # {<<k, d>>}
        BY <1>2, <2>1
      <4>2. runtimes'[f].ready = ready
        BY <4>1
      <4>3. QED
        BY <2>1, <4>1, <4>2
    <3>2. PICK v \in Install!Writing(p.kind) : v[2].file = d.file /\ v # <<k, d>>
      BY <1>8, <3>1
    <3>3. v[1] # k
      BY <1>7, <3>2
    <3>4. v \in Install!Writing(p.kind)'
      BY <1>5, <3>2, <3>3, WritingStays
    <3>5. QED
      BY <2>1, <3>2, <3>4
  <2>2. CASE f # <<p.kind, d.file>>
    <3>1. runtimes[f].ready # TRUE
      BY <1>2, <2>2
    <3>2. PICK v \in Install!Writing(f[1]) : v[2].file = f[2]
      BY <3>1 DEF InstallKept, WholeFiles
    <3>3. CASE v[1] = k
      <4>1. f[1] = p.kind /\ f[2] = d.file /\ f = <<f[1], f[2]>>
        BY <1>7, <3>2, <3>3 DEF InstallKept, WholeFiles
      <4>2. QED
        BY <2>2, <4>1
    <3>4. CASE v[1] # k
      BY <1>5, <3>2, <3>4, WritingStays
    <3>5. QED
      BY <3>3, <3>4
  <2>3. QED
    BY <2>1, <2>2
<1>11. \A q \in w.package : Provided(q)'
  <2>1. <<p.kind, d.file>> \in DOMAIN runtimes'
    BY <1>3, <1>6, <1>9 DEF InstallKept, Opened
  <2>2. Provided(p)'
    BY <2>1 DEF Provided, Excused, Install!Installed
  <2>3. QED
    BY <1>4, <1>6, <2>2 DEF Provided, Excused, Install!Installed, Install!BinaryName
<1>12. Advance(k, w)
  BY <1>3, <1>4, <1>11 DEF Advance, InstallKept
<1>13. QED
  BY <1>9, <1>10, <1>12, Advances

-----------------------------------------------------------------------------
(* Initially nothing is staged, registered or being written.               *)
LEMMA InstallInit ==
  ASSUME Init, part = "installs"
  PROVE  InstallKept
<1>1. Install!IInit
  BY DEF Init
<1>2. "sh" \in path
  BY <1>1, StoresAssumption DEF Install!IInit
<1>3. /\ runtimes = [f \in {} |-> 0] /\ staging = {} /\ registered = {} /\ ops = 0
      /\ registrant = [k \in Tasks |-> Install!Quiet]
  BY <1>1 DEF Install!IInit
<1>4. DOMAIN runtimes = {}
  BY <1>3
<1>5. QED
  BY <1>2, <1>3, <1>4 DEF InstallKept, Registrants, WholeFiles, Install!Quiet

LEMMA EnsureKeeps ==
  ASSUME InstallKept, NEW k \in Tasks, Install!Ensure(k)
  PROVE  InstallKept'
<1>1. PICK p \in registrant[k].package :
        Install!Go(k, CASE Install!Available(p) -> "register"
                        [] ~Install!Available(p) /\ p.download # {} -> "install"
                        [] OTHER -> "clean")
  BY DEF Install!Ensure
<1>2. /\ registrant[k].pc = "ensure"
      /\ UNCHANGED <<own, path, runtimes, staging, registered, ops, spoilt, abandoned>>
  BY DEF Install!Ensure
<1>3. registrant[k].package = {p} /\ p \in Runtimes
  BY <1>1, <1>2, Occupied DEF Doing
<1>4. CASE Install!Available(p)
  <2>1. Install!Go(k, "register")
    BY <1>1, <1>4
  <2>2. Provided(p)
    <3>1. \A b \in p.command : b # Install!BinaryName(p.kind) => Excused(p)
      BY DEF Excused
    <3>2. QED
      BY <1>4, <3>1 DEF Install!Available, Provided
  <2>3. QED
    BY <1>2, <1>3, <2>1, <2>2, Proceeds
<1>5. CASE ~Install!Available(p)
  <2>1. Install!Go(k, "install") \/ Install!Go(k, "clean")
    BY <1>1, <1>5
  <2>2. QED
    BY <1>2, <2>1, Proceeds
<1>6. QED
  BY <1>4, <1>5

LEMMA FetchKeeps ==
  ASSUME InstallKept, NEW k \in Tasks, Install!Fetch(k)
  PROVE  InstallKept'
<1>1. /\ registrant[k].pc = "fetch"
      /\ UNCHANGED <<own, path, runtimes, staging, registered, ops, spoilt>>
      /\ \/ /\ registrant' = [registrant EXCEPT ![k] = Install!Quiet]
            /\ abandoned' = abandoned \cup {registrant[k].dir}
         \/ Install!Go(k, "check") /\ UNCHANGED abandoned
  BY DEF Install!Fetch
<1>2. CASE /\ registrant' = [registrant EXCEPT ![k] = Install!Quiet]
           /\ abandoned' = abandoned \cup {registrant[k].dir}
  BY <1>1, <1>2, Quiets
<1>3. CASE Install!Go(k, "check") /\ UNCHANGED abandoned
  BY <1>1, <1>3, Proceeds
<1>4. QED
  BY <1>1, <1>2, <1>3

LEMMA CheckKeeps ==
  ASSUME InstallKept, NEW k \in Tasks, Install!Check(k)
  PROVE  InstallKept'
<1>1. /\ registrant[k].pc = "check"
      /\ UNCHANGED <<own, path, runtimes, staging, registered, ops, spoilt, abandoned>>
      /\ Install!Go(k, "ensure") \/ Install!Go(k, "clean")
  BY DEF Install!Check
<1>2. QED
  BY <1>1, Proceeds

LEMMA RecordKeeps ==
  ASSUME InstallKept, NEW k \in Tasks, Install!Record(k)
  PROVE  InstallKept'
<1>1. /\ registrant[k].pc = "register" /\ Install!Go(k, "clean")
      /\ registered' = registered \cup registrant[k].package
      /\ UNCHANGED <<own, path, runtimes, staging, ops, spoilt, abandoned>>
  BY DEF Install!Record
<1>2. QED
  BY <1>1, Proceeds

LEMMA CleanKeeps ==
  ASSUME InstallKept, NEW k \in Tasks, Install!Clean(k)
  PROVE  InstallKept'
<1>1. /\ registrant[k].pc = "clean" /\ staging' = staging \ {registrant[k].dir}
      /\ registrant' = [registrant EXCEPT ![k] = Install!Quiet]
      /\ UNCHANGED <<own, path, runtimes, registered, ops, spoilt, abandoned>>
  BY DEF Install!Clean
<1>2. QED
  BY <1>1, Quiets

LEMMA FailedKeeps ==
  ASSUME InstallKept, NEW k \in Tasks, Install!Fail(k)
  PROVE  InstallKept'
<1>1. /\ registrant[k].pc # "idle" /\ spoilt \subseteq spoilt'
      /\ registrant[k].pc = "finish" => \A p \in registrant[k].package : p.kind \in spoilt'
      /\ UNCHANGED <<own, path, runtimes, staging, registered, ops>>
      /\ \/ /\ registrant' = [registrant EXCEPT ![k] = Install!Quiet]
            /\ abandoned' = abandoned \cup {registrant[k].dir}
         \/ Install!Go(k, "clean") /\ UNCHANGED abandoned
  BY DEF Install!Fail
<1>2. CASE /\ registrant' = [registrant EXCEPT ![k] = Install!Quiet]
           /\ abandoned' = abandoned \cup {registrant[k].dir}
  BY <1>1, <1>2, Quiets
<1>3. CASE Install!Go(k, "clean") /\ UNCHANGED abandoned
  BY <1>1, <1>3, Proceeds
<1>4. QED
  BY <1>1, <1>2, <1>3

(* Stuttering, and all steps together.                                     *)
LEMMA InstallRests ==
  ASSUME InstallKept, UNCHANGED Install!installVars
  PROVE  InstallKept'
<1>1. UNCHANGED <<own, path, runtimes, staging, registrant, registered, ops, spoilt, abandoned>>
  BY DEF Install!installVars
<1>2. \A kind : Install!Writing(kind)' = Install!Writing(kind)
  BY <1>1 DEF Install!Writing
<1>3. WholeFiles'
  BY <1>1, <1>2 DEF WholeFiles, InstallKept
<1>4. QED
  BY <1>1, <1>3 DEF InstallKept, Registrants, Doing, Install!Quiet, Provided, Excused, Opened,
     Install!Installed, Install!BinaryName

LEMMA InstallNext ==
  ASSUME InstallKept, Install!INext
  PROVE  InstallKept'
BY StageKeeps, FetchKeeps, CheckKeeps, EnsureKeeps, OpenFileKeeps, FinishFileKeeps, RecordKeeps,
   CleanKeeps, FailedKeeps DEF Install!INext

(* A package that was accepted can be started, but for the cases that the  *)
(* node does not exclude, and no staging directory stays but those of      *)
(* fetches that failed and tasks that died: see RuntimeInstall.            *)
THEOREM PackagesReady == Spec => []PackagesRun
<1>1. Init => InstallInv
  BY InstallInit DEF InstallInv
<1>2. InstallInv /\ [Next]_vars => InstallInv'
  <2>1. [Next]_vars => part' = part
    <3>1. Next => part' = part
      BY DEF Next
    <3>2. UNCHANGED vars => part' = part
      BY DEF vars
    <3>3. QED
      BY <3>1, <3>2
  <2>2. SUFFICES ASSUME InstallKept, [Next]_vars, part = "installs"
                 PROVE  InstallKept'
    BY <2>1 DEF InstallInv
  <2>3. QED
    BY <2>2, InstallSteps, InstallNext, InstallRests
<1>3. InstallInv => PackagesRun
  <2> SUFFICES ASSUME InstallKept
               PROVE  Install!PackagesRun
    BY DEF InstallInv, PackagesRun
  <2>1. ASSUME NEW p \in registered, Install!Writing(p.kind) = {}, p.kind \notin spoilt, ~Excused(p)
        PROVE  Install!Launchable(p)
    <3>1. p \in Runtimes /\ Provided(p) /\ "sh" \in path
      BY DEF InstallKept
    <3>2. \A b : Install!Installed(p.kind, b) => Install!Runs(p.kind, b)
      <4> SUFFICES ASSUME NEW b, Install!Installed(p.kind, b)
                   PROVE  runtimes[<<p.kind, b>>].ready = TRUE
        BY DEF Install!Runs
      <4>1. <<p.kind, b>>[1] = p.kind
        OBVIOUS
      <4>2. QED
        BY <2>1, <4>1 DEF Install!Installed, InstallKept, WholeFiles
    <3>3. \A b \in p.command : b = Install!BinaryName(p.kind)
      BY <2>1 DEF Excused
    <3>4. Install!BinaryName(p.kind) \in own => Install!BinaryName(p.kind) \in path
      BY <2>1 DEF Excused
    <3>5. p.kind = "shell" => p.command = {}
      BY <3>1, <3>3, Packaged DEF Install!BinaryName
    <3>6. p.kind # "shell" =>
            Install!Runs(p.kind, Install!BinaryName(p.kind)) \/ Install!BinaryName(p.kind) \in path
      BY <2>1, <3>1, <3>2, <3>4 DEF Provided
    <3>7. CASE p.command # {}
      <4>1. Install!LaunchBinary(p) = p.command
        BY <3>7 DEF Install!LaunchBinary
      <4>2. QED
        BY <3>3, <3>5, <3>6, <3>7, <4>1 DEF Install!Launchable
    <3>8. CASE p.command = {}
      <4>1. \/ p.kind \in {"bash", "shell"} /\ Install!LaunchBinary(p) = {"sh"}
            \/ p.kind = "tool" /\ Install!LaunchBinary(p) = {}
            \/ p.kind \notin {"bash", "shell"} /\ Install!LaunchBinary(p) = {Install!BinaryName(p.kind)}
        BY <3>8 DEF Install!LaunchBinary
      <4>2. QED
        BY <3>1, <3>2, <3>6, <3>8, <4>1 DEF Install!Launchable
    <3>9. QED
      BY <3>7, <3>8
  <2>2. \A n \in staging \ abandoned : \E k \in Tasks : registrant[k].dir = n
    BY DEF InstallKept
  <2>3. QED
    BY <2>1, <2>2 DEF Install!PackagesRun, Excused
<1>4. QED
  BY <1>1, <1>2, <1>3, PTL DEF Spec

-----------------------------------------------------------------------------
(* A set of natural numbers that is not empty has a least one.             *)
LEMMA Least ==
  ASSUME NEW T \in SUBSET Nat, T # {}
  PROVE  \E n \in T : \A m \in T : n <= m
<1> DEFINE R == {ss \in Nat \X Nat : ss[1] < ss[2]}
<1>1. IsWellFoundedOn(R, Nat)
  BY NatLessThanWellFounded DEF OpToRel
<1>2. PICK n \in T : \A m \in T : ~(<<m, n>> \in R)
  <2> HIDE DEF R
  <2>1. QED
    BY <1>1, WFMin
<1>3. \A m \in T : <<m, n>> \in R <=> m < n
  OBVIOUS
<1> HIDE DEF R
<1>4. SUFFICES ASSUME NEW m \in T
               PROVE  n <= m
  BY <1>2
<1>5. n \in Nat /\ m \in Nat /\ ~(m < n)
  BY <1>2, <1>3
<1>6. QED
  BY <1>5

(* A set of numbers up to some number has a greatest one.                  *)
LEMMA Greatest ==
  ASSUME NEW n \in Nat, NEW T \in SUBSET (1..n), T # {}
  PROVE  \E i \in T : \A j \in T : j <= i
<1> DEFINE U == {n - i : i \in T}
<1>1. U \in SUBSET Nat /\ U # {}
  <2>1. \A i \in T : n - i \in Nat
    OBVIOUS
  <2>2. U \in SUBSET Nat
    BY <2>1
  <2>3. PICK i \in T : TRUE
    OBVIOUS
  <2>4. n - i \in U
    OBVIOUS
  <2>5. QED
    BY <2>2, <2>4
<1>2. PICK a \in U : \A b \in U : a <= b
  <2> HIDE DEF U
  <2>1. QED
    BY <1>1, Least
<1>3. PICK i \in T : a = n - i
  BY <1>2
<1>4. ASSUME NEW j \in T PROVE j <= i
  <2>1. n - j \in U
    OBVIOUS
  <2>2. n - i <= n - j
    BY <1>2, <1>3, <2>1
  <2>3. i \in Nat /\ j \in Nat
    OBVIOUS
  <2>4. QED
    BY <2>2, <2>3
<1>5. QED
  BY <1>4

(* The k-th of a finite set of numbers, for each k up to how many it has.  *)
Nth(S, k) == CHOOSE i \in S : Cardinality({j \in S : j < i}) = k - 1

LEMMA Places ==
  ASSUME NEW S \in SUBSET Nat, IsFiniteSet(S)
  PROVE  /\ Cardinality(S) \in Nat
         /\ \A k \in 1..Cardinality(S) : Nth(S, k) \in S
         /\ \A i \in S : \E k \in 1..Cardinality(S) : Nth(S, k) = i
         /\ \A j, k \in 1..Cardinality(S) : Nth(S, j) = Nth(S, k) => j = k
<1> DEFINE Before(i) == {j \in S : j < i}
           rank == [i \in S |-> Cardinality(Before(i))]
           n == Cardinality(S)
<1>1. n \in Nat
  BY FS_CardinalityType
<1>2. \A i \in S : IsFiniteSet(Before(i)) /\ Cardinality(Before(i)) \in 0..(n - 1)
  <2> SUFFICES ASSUME NEW i \in S
               PROVE  IsFiniteSet(Before(i)) /\ Cardinality(Before(i)) \in 0..(n - 1)
    OBVIOUS
  <2>1. Before(i) \in SUBSET (S \ {i})
    OBVIOUS
  <2>2. IsFiniteSet(S \ {i}) /\ Cardinality(S \ {i}) = n - 1
    BY FS_RemoveElement
  <2>3. IsFiniteSet(Before(i)) /\ Cardinality(Before(i)) <= n - 1
    <3> HIDE DEF Before, n
    <3>1. QED
      BY <2>1, <2>2, FS_Subset
  <2>4. Cardinality(Before(i)) \in Nat
    BY <2>3, FS_CardinalityType
  <2>5. QED
    BY <1>1, <2>3, <2>4
<1>3. \A i, j \in S : i < j => Cardinality(Before(i)) # Cardinality(Before(j))
  <2> SUFFICES ASSUME NEW i \in S, NEW j \in S, i < j
               PROVE  Cardinality(Before(i)) # Cardinality(Before(j))
    OBVIOUS
  <2>1. i \in Nat /\ j \in Nat /\ \A m \in S : m < i => m < j
    OBVIOUS
  <2>2. Before(i) \subseteq Before(j)
    BY <2>1
  <2>3. i \in Before(j) /\ i \notin Before(i)
    BY <2>1
  <2> HIDE DEF Before
  <2>4. QED
    BY <1>2, <2>2, <2>3, FS_Subset
<1>4. \A i, j \in S : Cardinality(Before(i)) = Cardinality(Before(j)) => i = j
  <2> HIDE DEF Before
  <2>1. \A i, j \in S : i # j => i < j \/ j < i
    OBVIOUS
  <2>2. QED
    BY <1>3, <2>1
<1>5. rank \in Injection(S, 0..(n - 1))
  BY <1>2, <1>4 DEF Injection, IsInjective
<1>6. IsFiniteSet(0..(n - 1)) /\ Cardinality(0..(n - 1)) = n
  <2>1. 0 \in Int /\ n - 1 \in Int
    BY <1>1
  <2> HIDE DEF n
  <2>2. IsFiniteSet(0..(n - 1)) /\ Cardinality(0..(n - 1)) = IF 0 > n - 1 THEN 0 ELSE (n - 1) - 0 + 1
    BY <2>1, FS_Interval
  <2>3. QED
    BY <1>1, <2>2
<1>7. rank \in Surjection(S, 0..(n - 1))
  <2> HIDE DEF rank
  <2>1. QED
    BY <1>5, <1>6, FS_Injection
<1>8. \A k \in 1..n : \E i \in S : Cardinality(Before(i)) = k - 1
  <2>1. \A r \in 0..(n - 1) : \E i \in S : Cardinality(Before(i)) = r
    BY <1>7 DEF Surjection
  <2>2. \A k \in 1..n : k - 1 \in 0..(n - 1)
    BY <1>1
  <2>3. QED
    BY <2>1, <2>2
<1>9. \A k : Nth(S, k) = CHOOSE i \in S : Cardinality(Before(i)) = k - 1
  BY DEF Nth
<1> HIDE DEF Before
<1>10. \A k \in 1..n : Nth(S, k) \in S /\ Cardinality(Before(Nth(S, k))) = k - 1
  BY <1>8, <1>9
<1>11. ASSUME NEW i \in S
       PROVE  \E k \in 1..n : Nth(S, k) = i
  <2> DEFINE k == Cardinality(Before(i)) + 1
  <2>1. k \in 1..n /\ k - 1 = Cardinality(Before(i))
    BY <1>1, <1>2
  <2>2. Nth(S, k) = i
    BY <1>4, <1>10, <2>1
  <2>3. QED
    BY <2>1, <2>2
<1>12. ASSUME NEW j \in 1..n, NEW k \in 1..n, Nth(S, j) = Nth(S, k)
       PROVE  j = k
  <2>1. j - 1 = k - 1
    BY <1>10, <1>12
  <2>2. QED
    BY <1>1, <2>1
<1>13. QED
  BY <1>1, <1>10, <1>11, <1>12

(* Paths of a graph, whose nodes are the numbers 1..n and whose links lead *)
(* to K[t] from t: each node occurs once, and links to the one before it.  *)
Path(n, K, m, c) ==
  /\ m \in 1..n /\ c \in [1..m -> 1..n]
  /\ \A i, j \in 1..m : i # j => c[i] # c[j]
  /\ \A i \in 2..m : c[i - 1] \in K[c[i]]

(* Heights: as high as links allow, and no higher than they demand.        *)
Height(n, K, f) ==
  /\ f \in [1..n -> Nat]
  /\ \A t \in 1..n : /\ f[t] >= 1
                     /\ \A d \in K[t] : f[d] + 1 <= f[t]
                     /\ f[t] = 1 \/ \E d \in K[t] : f[t] = f[d] + 1

(* A link of each node to one that it is just above, and the way down.     *)
Climbs(n, K, f, p) ==
  /\ p \in [1..n -> 0..n]
  /\ \A t \in 1..n : \/ p[t] = 0 /\ f[t] = 1
                     \/ p[t] \in K[t] /\ f[t] = f[p[t]] + 1
Follows(n, p, g) == g = [s \in 1..n |-> IF p[s] = 0 THEN <<s>> ELSE Append(g[p[s]], s)]

(* A list without repetition is no longer than there are nodes.            *)
LEMMA Pigeons ==
  ASSUME NEW n \in Nat, NEW m \in Nat, NEW c \in [1..m -> 1..n],
         \A i, j \in 1..m : i # j => c[i] # c[j]
  PROVE  m <= n
<1>1. IsFiniteSet(1..n) /\ Cardinality(1..n) = n
  <2>1. 1 \in Int /\ n \in Int
    OBVIOUS
  <2>2. IsFiniteSet(1..n) /\ Cardinality(1..n) = IF 1 > n THEN 0 ELSE n - 1 + 1
    BY <2>1, FS_Interval
  <2>3. QED
    BY <2>2
<1>2. Cardinality(1..m) = m
  <2>1. 1 \in Int /\ m \in Int
    OBVIOUS
  <2>2. Cardinality(1..m) = IF 1 > m THEN 0 ELSE m - 1 + 1
    BY <2>1, FS_Interval
  <2>3. QED
    BY <2>2
<1> DEFINE A == 1..m
           B == 1..n
<1>3. c \in Injection(A, B)
  BY DEF Injection, IsInjective
<1>4. Cardinality(A) <= Cardinality(B)
  <2> HIDE DEF A, B
  <2>1. IsFiniteSet(B)
    BY <1>1 DEF B
  <2>2. QED
    BY <1>3, <2>1, FS_Injection
<1>5. QED
  BY <1>1, <1>2, <1>4

(* Each step of a path is higher than the one before.                      *)
LEMMA PathRises ==
  ASSUME NEW n \in Nat, NEW K \in [1..n -> SUBSET (1..n)], NEW f, Height(n, K, f),
         NEW m, NEW c, Path(n, K, m, c), NEW i \in 1..m
  PROVE  i <= f[c[i]]
<1> DEFINE low == {j \in 1..m : ~ j <= f[c[j]]}
<1>1. m \in 1..n /\ c \in [1..m -> 1..n] /\ \A j \in 2..m : c[j - 1] \in K[c[j]]
  BY DEF Path
<1>2. f \in [1..n -> Nat] /\ \A t \in 1..n : f[t] >= 1 /\ \A d \in K[t] : f[d] + 1 <= f[t]
  BY DEF Height
<1>3. ASSUME low # {} PROVE FALSE
  <2>1. low \in SUBSET Nat
    OBVIOUS
  <2>2. PICK j \in low : \A k \in low : j <= k
    <3> HIDE DEF low
    <3>1. QED
      BY <1>3, <2>1, Least
  <2>3. j \in 1..m /\ j \in Nat /\ ~ j <= f[c[j]] /\ c[j] \in 1..n
    BY <1>1
  <2>4. f[c[j]] \in Nat /\ f[c[j]] >= 1
    BY <1>2, <2>3
  <2>5. j \in 2..m /\ j - 1 \in 1..m
    BY <1>1, <2>3, <2>4
  <2>6. j - 1 \notin low
    BY <2>2, <2>3
  <2>7. j - 1 <= f[c[j - 1]]
    BY <2>5, <2>6
  <2>8. f[c[j - 1]] + 1 <= f[c[j]] /\ f[c[j - 1]] \in Nat
    BY <1>1, <1>2, <2>3, <2>5
  <2>9. QED
    BY <2>3, <2>4, <2>7, <2>8
<1>4. QED
  BY <1>3

(* The way down exists: it is built from the lowest nodes upwards.         *)
LEMMA Highest ==
  ASSUME NEW n \in Nat, n >= 1, NEW f \in [1..n -> Nat]
  PROVE  \E i \in 1..n : \A j \in 1..n : f[j] <= f[i]
<1> DEFINE Top(m) == \E i \in 1..m : \A j \in 1..m : f[j] <= f[i]
           bad == {m \in 1..n : ~Top(m)}
<1>1. ASSUME bad # {} PROVE FALSE
  <2>1. bad \in SUBSET Nat
    OBVIOUS
  <2>2. PICK m \in bad : \A k \in bad : m <= k
    <3> HIDE DEF bad
    <3>1. QED
      BY <1>1, <2>1, Least
  <2>3. m \in 1..n /\ m \in Nat /\ ~Top(m) /\ f[m] \in Nat
    OBVIOUS
  <2>4. m # 1
    <3>1. f[1] <= f[1] /\ \A j \in 1..1 : j = 1
      BY <2>3
    <3>2. Top(1)
      BY <3>1
    <3>3. QED
      BY <2>3, <3>2
  <2>5. m - 1 \in 1..n /\ m - 1 \notin bad
    <3> HIDE DEF bad
    <3>1. QED
      BY <2>2, <2>3, <2>4
  <2>6. PICK i \in 1..(m - 1) : \A j \in 1..(m - 1) : f[j] <= f[i]
    BY <2>5
  <2>7. i \in 1..m /\ f[i] \in Nat /\ 1..m = 1..(m - 1) \cup {m}
    BY <2>3, <2>4
  <2>8. CASE f[m] <= f[i]
    <3>1. \A j \in 1..m : f[j] <= f[i]
      BY <2>6, <2>7, <2>8
    <3>2. QED
      BY <2>3, <2>7, <3>1
  <2>9. CASE f[i] <= f[m]
    <3>1. ASSUME NEW j \in 1..m PROVE f[j] <= f[m]
      <4>1. CASE j = m
        BY <2>3, <4>1
      <4>2. CASE j \in 1..(m - 1)
        <5>1. f[j] \in Nat /\ f[j] <= f[i]
          BY <2>3, <2>6, <4>2
        <5>2. QED
          BY <2>3, <2>7, <2>9, <5>1
      <4>3. QED
        BY <2>7, <4>1, <4>2
    <3>2. QED
      BY <2>3, <3>1
  <2>10. QED
    BY <2>3, <2>7, <2>8, <2>9
<1>2. n \notin bad
  BY <1>1
<1>3. QED
  BY <1>2

(* Links that climb can be followed down from each node.                   *)
LEMMA WayDown ==
  ASSUME NEW n \in Nat, NEW K \in [1..n -> SUBSET (1..n)], NEW f, Height(n, K, f), NEW p, Climbs(n, K, f, p)
  PROVE  \E g : Follows(n, p, g)
<1> DEFINE Right(k, g) == \A s \in 1..n : f[s] <= k => g[s] = IF p[s] = 0 THEN <<s>> ELSE Append(g[p[s]], s)
           bad == {k \in Nat : ~ \E g \in [1..n -> Seq(1..n)] : Right(k, g)}
<1>1. f \in [1..n -> Nat] /\ \A t \in 1..n : f[t] >= 1
  BY DEF Height
<1>2. p \in [1..n -> 0..n] /\ \A t \in 1..n : p[t] # 0 => p[t] \in 1..n /\ f[t] = f[p[t]] + 1
  BY DEF Climbs
<1>3. ASSUME bad # {} PROVE FALSE
  <2>1. bad \in SUBSET Nat
    OBVIOUS
  <2>2. PICK k \in bad : \A j \in bad : k <= j
    <3> HIDE DEF bad
    <3>1. QED
      BY <1>3, <2>1, Least
  <2>3. k \in Nat /\ ~ \E g \in [1..n -> Seq(1..n)] : Right(k, g)
    OBVIOUS
  <2>4. k # 0
    <3>1. [s \in 1..n |-> <<>>] \in [1..n -> Seq(1..n)]
      OBVIOUS
    <3>2. Right(0, [s \in 1..n |-> <<>>])
      BY <1>1
    <3>3. QED
      BY <2>3, <3>1, <3>2
  <2>5. k - 1 \in Nat /\ k - 1 \notin bad
    <3> HIDE DEF bad
    <3>1. QED
      BY <2>2, <2>3, <2>4
  <2>6. PICK g \in [1..n -> Seq(1..n)] : Right(k - 1, g)
    BY <2>5
  <2> DEFINE h == [s \in 1..n |-> IF f[s] <= k - 1 THEN g[s] ELSE IF p[s] = 0 THEN <<s>> ELSE Append(g[p[s]], s)]
  <2>7. ASSUME NEW s \in 1..n PROVE h[s] \in Seq(1..n)
    <3>1. <<s>> \in Seq(1..n)
      OBVIOUS
    <3>2. p[s] # 0 => Append(g[p[s]], s) \in Seq(1..n)
      BY <1>2, <2>6
    <3>3. QED
      BY <2>6, <3>1, <3>2
  <2>8. ASSUME NEW s \in 1..n, f[s] <= k
        PROVE  h[s] = IF p[s] = 0 THEN <<s>> ELSE Append(h[p[s]], s)
    <3>1. p[s] # 0 => h[p[s]] = g[p[s]]
      <4>1. ASSUME p[s] # 0 PROVE f[p[s]] <= k - 1 /\ p[s] \in 1..n
        BY <1>1, <1>2, <2>3, <2>8, <4>1
      <4>2. QED
        BY <4>1
    <3>2. f[s] <= k - 1 => g[s] = IF p[s] = 0 THEN <<s>> ELSE Append(g[p[s]], s)
      BY <2>6
    <3>3. h[s] = IF p[s] = 0 THEN <<s>> ELSE Append(g[p[s]], s)
      BY <3>2
    <3> HIDE DEF h
    <3>4. QED
      BY <3>1, <3>3
  <2>9. h \in [1..n -> Seq(1..n)]
    BY <2>7
  <2> HIDE DEF h
  <2>10. Right(k, h)
    BY <2>8
  <2>11. QED
    BY <2>3, <2>9, <2>10
<1>4. CASE n = 0
  <2>1. Follows(n, p, [s \in 1..n |-> <<>>])
    BY <1>4 DEF Follows
  <2>2. QED
    BY <2>1
<1>5. CASE n >= 1
  <2>1. PICK i \in 1..n : \A j \in 1..n : f[j] <= f[i]
    BY <1>1, <1>5, Highest
  <2>2. f[i] \in Nat /\ f[i] \notin bad
    BY <1>1, <1>3
  <2>3. PICK g \in [1..n -> Seq(1..n)] : Right(f[i], g)
    BY <2>2
  <2>4. \A s \in 1..n : g[s] = IF p[s] = 0 THEN <<s>> ELSE Append(g[p[s]], s)
    BY <2>1, <2>3
  <2>5. Follows(n, p, g)
    BY <2>4 DEF Follows
  <2>6. QED
    BY <2>5
<1>6. QED
  BY <1>4, <1>5

(* It is a path, as long as its last node is high.                         *)
LEMMA SeqIs ==
  ASSUME NEW R, NEW q \in Seq(R)
  PROVE  q \in [1..Len(q) -> R]
  OBVIOUS

(* A path and one more node.                                               *)
LEMMA Rung ==
  ASSUME NEW n \in Nat, NEW m \in Nat, NEW c \in [1..m -> 1..n], NEW s \in 1..n
  PROVE  /\ Append(c, s) \in [1..(m + 1) -> 1..n] /\ Append(c, s)[m + 1] = s
         /\ \A i \in 1..m : Append(c, s)[i] = c[i]
<1>1. c \in Seq(1..n) /\ Len(c) = m
  OBVIOUS
<1>2. Append(c, s) \in Seq(1..n) /\ Len(Append(c, s)) = m + 1
  BY <1>1
<1>3. Append(c, s)[m + 1] = s /\ \A i \in 1..m : Append(c, s)[i] = c[i]
  BY <1>1
<1> DEFINE e == Append(c, s)
<1>4. e \in [1..(m + 1) -> 1..n]
  <2>1. e \in Seq(1..n) /\ Len(e) = m + 1
    BY <1>2
  <2> HIDE DEF e
  <2>2. e \in [1..Len(e) -> 1..n]
    BY <2>1, SeqIs
  <2>3. QED
    BY <2>1, <2>2
<1>5. QED
  BY <1>3, <1>4

(* The way down from a node, read upwards, is a path as long as the node   *)
(* is high.                                                                *)
LEMMA DownPath ==
  ASSUME NEW n \in Nat, NEW K \in [1..n -> SUBSET (1..n)], NEW f, Height(n, K, f), NEW p, Climbs(n, K, f, p),
         NEW g, Follows(n, p, g), NEW s \in 1..n
  PROVE  Path(n, K, f[s], g[s]) /\ g[s][f[s]] = s
<1> DEFINE Good(t) == /\ g[t] \in [1..f[t] -> 1..n] /\ g[t][f[t]] = t
                      /\ \A i \in 1..f[t] : f[g[t][i]] = i
                      /\ \A i \in 2..f[t] : g[t][i - 1] \in K[g[t][i]]
           bad == {f[t] : t \in {t \in 1..n : ~Good(t)}}
<1>1. f \in [1..n -> Nat] /\ \A t \in 1..n : f[t] >= 1
  BY DEF Height
<1> HIDE DEF Good
<1>2. ASSUME NEW t \in 1..n
      PROVE  \/ p[t] = 0 /\ f[t] = 1 /\ g[t] = <<t>>
             \/ p[t] \in K[t] /\ p[t] \in 1..n /\ f[t] = f[p[t]] + 1 /\ g[t] = Append(g[p[t]], t)
  <2>1. g[t] = IF p[t] = 0 THEN <<t>> ELSE Append(g[p[t]], t)
    BY DEF Follows
  <2>2. K[t] \in SUBSET (1..n) /\ ((p[t] = 0 /\ f[t] = 1) \/ (p[t] \in K[t] /\ f[t] = f[p[t]] + 1))
    BY DEF Climbs
  <2>3. p[t] \in K[t] => p[t] # 0 /\ p[t] \in 1..n
    BY <2>2
  <2>4. QED
    BY <2>1, <2>2, <2>3
<1>3. ASSUME bad # {} PROVE FALSE
  <2>1. bad \in SUBSET Nat
    BY <1>1
  <2>2. PICK k \in bad : \A j \in bad : k <= j
    <3> HIDE DEF bad
    <3>1. QED
      BY <1>3, <2>1, Least
  <2>3. PICK t \in 1..n : ~Good(t) /\ f[t] = k
    OBVIOUS
  <2>4. CASE p[t] = 0
    <3>1. f[t] = 1 /\ g[t] = <<t>>
      <4>1. 0 \notin K[t]
        OBVIOUS
      <4>2. QED
        BY <1>2, <2>4, <4>1
    <3>2. <<t>> \in [1..1 -> 1..n] /\ <<t>>[1] = t /\ (\A i \in 1..1 : i = 1) /\ (\A i \in 2..1 : FALSE)
      OBVIOUS
    <3>3. Good(t)
      BY <3>1, <3>2 DEF Good
    <3>4. QED
      BY <2>3, <3>3
  <2>5. CASE p[t] # 0
    <3> DEFINE u == p[t]
               m == f[u]
    <3>1. u \in K[t] /\ u \in 1..n /\ f[t] = m + 1 /\ g[t] = Append(g[u], t)
      BY <1>2, <2>5
    <3>2. m \in Nat /\ m >= 1
      BY <1>1, <3>1
    <3>3. Good(u)
      <4>1. m \notin bad
        <5> HIDE DEF bad, m
        <5>1. QED
          BY <2>2, <2>3, <3>1, <3>2
      <4>2. QED
        BY <3>1, <4>1
    <3>9. /\ g[u] \in [1..m -> 1..n] /\ g[u][m] = u
          /\ \A i \in 1..m : f[g[u][i]] = i
          /\ \A i \in 2..m : g[u][i - 1] \in K[g[u][i]]
      BY <3>3 DEF Good
    <3> HIDE DEF u, m
    <3>4. /\ g[t] \in [1..(m + 1) -> 1..n] /\ g[t][m + 1] = t
          /\ \A i \in 1..m : g[t][i] = g[u][i]
      <4> DEFINE c == g[u]
      <4>1. c \in [1..m -> 1..n] /\ m \in Nat /\ g[t] = Append(c, t)
        BY <3>1, <3>2, <3>9
      <4> HIDE DEF c
      <4>2. Append(c, t) \in [1..(m + 1) -> 1..n]
        BY <4>1, Rung
      <4>3. Append(c, t)[m + 1] = t /\ \A i \in 1..m : Append(c, t)[i] = c[i]
        BY <4>1, Rung
      <4>4. QED
        BY <4>1, <4>2, <4>3 DEF c
    <3>5. ASSUME NEW i \in 1..f[t] PROVE f[g[t][i]] = i
      <4>1. CASE i = m + 1
        BY <3>1, <3>4, <4>1
      <4>2. CASE i \in 1..m
        BY <3>4, <3>9, <4>2
      <4>3. i \in 1..(m + 1)
        BY <3>1
      <4>4. QED
        BY <3>2, <4>1, <4>2, <4>3
    <3>6. ASSUME NEW i \in 2..f[t] PROVE g[t][i - 1] \in K[g[t][i]]
      <4>1. CASE i = m + 1
        <5>1. i - 1 = m /\ m \in 1..m
          BY <3>2, <4>1
        <5>2. g[t][i - 1] = u
          BY <3>4, <3>9, <5>1
        <5>3. QED
          BY <3>1, <3>4, <4>1, <5>2
      <4>2. CASE i \in 2..m
        <5>1. i \in 1..m /\ i - 1 \in 1..m
          BY <3>2, <4>2
        <5>2. QED
          BY <3>4, <3>9, <4>2, <5>1
      <4>3. i \in 2..(m + 1)
        BY <3>1
      <4>4. QED
        BY <3>2, <4>1, <4>2, <4>3
    <3>7. Good(t)
      BY <3>1, <3>4, <3>5, <3>6 DEF Good
    <3>8. QED
      BY <2>3, <3>7
  <2>6. QED
    BY <2>4, <2>5
<1>4. Good(s)
  BY <1>3
<1> USE DEF Good
<1> DEFINE m == f[s]
           c == g[s]
<1>5. m \in Nat /\ m >= 1 /\ c \in [1..m -> 1..n] /\ c[m] = s
  BY <1>1, <1>4
<1>6. \A i, j \in 1..m : i # j => c[i] # c[j]
  BY <1>4
<1>7. \A i \in 2..m : c[i - 1] \in K[c[i]]
  BY <1>4
<1> HIDE DEF m, c
<1>8. m <= n
  BY <1>5, <1>6, Pigeons
<1>9. Path(n, K, m, c)
  BY <1>5, <1>6, <1>7, <1>8 DEF Path
<1>10. QED
  BY <1>5, <1>9 DEF m, c

(* Two heights are one: each is the length of the longest path to a node.  *)
Reached(n, K, m, s) == \E c : Path(n, K, m, c) /\ c[m] = s

(* A path that is as long as the node at its end is high.                  *)
LEMMA PathTo ==
  ASSUME NEW n \in Nat, NEW K \in [1..n -> SUBSET (1..n)], NEW f, Height(n, K, f), NEW s \in 1..n
  PROVE  Reached(n, K, f[s], s)
<1> DEFINE p == [t \in 1..n |-> IF f[t] = 1 THEN 0 ELSE CHOOSE d \in K[t] : f[t] = f[d] + 1]
<1>1. ASSUME NEW t \in 1..n
      PROVE  /\ p[t] \in 0..n
             /\ \/ p[t] = 0 /\ f[t] = 1
                \/ p[t] \in K[t] /\ f[t] = f[p[t]] + 1
  <2>1. CASE f[t] = 1
    BY <2>1
  <2>2. CASE f[t] # 1
    <3>1. \E d \in K[t] : f[t] = f[d] + 1
      BY <2>2 DEF Height
    <3>2. p[t] \in K[t] /\ f[t] = f[p[t]] + 1
      BY <2>2, <3>1
    <3>3. K[t] \in SUBSET (1..n)
      OBVIOUS
    <3> HIDE DEF p
    <3>4. QED
      BY <3>2, <3>3
  <2>3. QED
    BY <2>1, <2>2
<1>2. p \in [1..n -> 0..n]
  BY <1>1
<1> HIDE DEF p
<1>3. Climbs(n, K, f, p)
  BY <1>1, <1>2 DEF Climbs
<1>4. PICK g : Follows(n, p, g)
  BY <1>3, WayDown
<1>5. Path(n, K, f[s], g[s]) /\ g[s][f[s]] = s
  BY <1>3, <1>4, DownPath
<1>6. QED
  BY <1>5 DEF Reached

(* There is one height of each node.                                       *)
LEMMA OneHeight ==
  ASSUME NEW n \in Nat, NEW K \in [1..n -> SUBSET (1..n)], NEW f, Height(n, K, f), NEW h, Height(n, K, h)
  PROVE  f = h
<1>1. ASSUME NEW a, Height(n, K, a), NEW b, Height(n, K, b), NEW s \in 1..n
      PROVE  a[s] <= b[s]
  <2>1. PICK c : Path(n, K, a[s], c) /\ c[a[s]] = s
    BY <1>1, PathTo DEF Reached
  <2>2. a[s] \in 1..a[s]
    BY <1>1 DEF Height
  <2>3. a[s] <= b[c[a[s]]]
    BY <1>1, <2>1, <2>2, PathRises
  <2>4. QED
    BY <2>1, <2>3
<1>2. f \in [1..n -> Nat] /\ h \in [1..n -> Nat]
  BY DEF Height
<1>3. ASSUME NEW s \in 1..n PROVE f[s] = h[s]
  <2>1. f[s] <= h[s]
    BY <1>1
  <2>2. h[s] <= f[s]
    BY <1>1
  <2>3. QED
    BY <1>2, <2>1, <2>2
<1>4. QED
  BY <1>2, <1>3

(* Nodes whose links stay among them, each to a lower one: no path to one  *)
(* of them begins in a cycle.                                              *)
LEMMA Inside ==
  ASSUME NEW n \in Nat, NEW K \in [1..n -> SUBSET (1..n)], NEW D \in SUBSET (1..n),
         NEW r \in [1..n -> Nat], \A t \in D : K[t] \subseteq D /\ \A d \in K[t] : r[d] < r[t],
         NEW m, NEW c, Path(n, K, m, c), c[m] \in D
  PROVE  \A i \in 1..m : c[i] \in D /\ r[c[i]] <= r[c[m]]
<1> DEFINE Low(i) == c[i] \in D /\ r[c[i]] <= r[c[m]]
           bad == {e \in 0..(m - 1) : ~Low(m - e)}
<1>1. m \in 1..n /\ m \in Nat /\ c \in [1..m -> 1..n] /\ \A j \in 2..m : c[j - 1] \in K[c[j]]
  BY DEF Path
<1>2. ASSUME bad # {} PROVE FALSE
  <2>1. bad \in SUBSET Nat
    OBVIOUS
  <2>2. PICK e \in bad : \A k \in bad : e <= k
    <3> HIDE DEF bad
    <3>1. QED
      BY <1>2, <2>1, Least
  <2>3. e \in 0..(m - 1) /\ e \in Nat /\ ~Low(m - e)
    OBVIOUS
  <2>4. e # 0
    <3>1. m - 0 = m /\ r[c[m]] \in Nat
      BY <1>1
    <3>2. Low(m - 0)
      BY <3>1
    <3>3. QED
      BY <2>3, <3>2
  <2>5. e - 1 \in 0..(m - 1) /\ e - 1 \notin bad
    <3> HIDE DEF bad
    <3>1. QED
      BY <1>1, <2>2, <2>3, <2>4
  <2>6. Low(m - (e - 1))
    BY <2>5
  <2> DEFINE j == m - (e - 1)
  <2>7. j \in 2..m /\ j - 1 = m - e /\ j - 1 \in 1..m
    BY <1>1, <2>3, <2>4
  <2> HIDE DEF j
  <2>8. c[j] \in D /\ r[c[j]] <= r[c[m]]
    BY <2>6 DEF j
  <2>9. c[j - 1] \in K[c[j]]
    BY <1>1, <2>7
  <2>10. c[j - 1] \in D /\ r[c[j - 1]] < r[c[j]]
    BY <2>8, <2>9
  <2>11. r[c[j - 1]] \in Nat /\ r[c[j]] \in Nat /\ r[c[m]] \in Nat
    BY <1>1, <2>7
  <2>12. r[c[j - 1]] <= r[c[m]]
    BY <2>8, <2>10, <2>11
  <2>13. QED
    BY <2>3, <2>7, <2>10, <2>12
<1>3. ASSUME NEW i \in 1..m PROVE Low(i)
  <2>1. m - i \in 0..(m - 1) /\ m - (m - i) = i
    BY <1>1
  <2>2. m - i \notin bad
    BY <1>2
  <2>3. Low(m - (m - i))
    BY <2>1, <2>2
  <2>4. QED
    BY <2>1, <2>3
<1>4. QED
  BY <1>3

(* Nodes that only need lower ones among them are not held up by a cycle.  *)
LEMMA NoCycle ==
  ASSUME NEW n \in Nat, NEW K \in [1..n -> SUBSET (1..n)], NEW D \in SUBSET (1..n),
         NEW r \in [1..n -> Nat], \A t \in D : K[t] \subseteq D /\ \A d \in K[t] : r[d] < r[t],
         NEW m, NEW c, Path(n, K, m, c), c[m] \in D,
         NEW k, NEW e, Path(n, K, k, e), e[1] = c[1], e[k] \in K[e[1]]
  PROVE  FALSE
<1>1. m \in 1..n /\ 1 \in 1..m /\ k \in 1..n /\ 1 \in 1..k /\ e \in [1..k -> 1..n]
  BY DEF Path
<1>2. c[1] \in D
  BY <1>1, Inside
<1>3. e[k] \in D /\ r[e[k]] < r[e[1]]
  BY <1>2
<1>4. r[e[1]] <= r[e[k]]
  BY <1>1, <1>3, Inside
<1>5. r[e[1]] \in Nat /\ r[e[k]] \in Nat
  BY <1>1
<1>6. QED
  BY <1>3, <1>4, <1>5

(* A node that a cycle holds up: a path to it starts on one.               *)
HeldUp(n, K, t) ==
  \E m, c : /\ Path(n, K, m, c) /\ c[m] = t
            /\ \E k, e : Path(n, K, k, e) /\ e[1] = c[1] /\ e[k] \in K[e[1]]

(* Nodes that link to one of themselves each: the longest path among them  *)
(* to one of them begins with a node that closes a cycle.                  *)
LEMMA Cycle ==
  ASSUME NEW n \in Nat, NEW K \in [1..n -> SUBSET (1..n)], NEW U \in SUBSET (1..n),
         \A t \in U : \E d \in K[t] : d \in U, NEW t \in U
  PROVE  HeldUp(n, K, t)
<1> DEFINE Long(m) == \E c : Path(n, K, m, c) /\ c[m] = t /\ \A i \in 1..m : c[i] \in U
           L == {m \in 1..n : Long(m)}
<1>1. Long(1) /\ 1 \in 1..n
  <2> DEFINE c == [i \in 1..1 |-> t]
  <2>1. 1 \in 1..n /\ c \in [1..1 -> 1..n] /\ (\A i \in 1..1 : i = 1) /\ 2..1 = {}
    OBVIOUS
  <2>2. c[1] = t
    OBVIOUS
  <2> HIDE DEF c
  <2>3. Path(n, K, 1, c)
    BY <2>1 DEF Path
  <2>4. QED
    BY <2>1, <2>2, <2>3
<1>2. PICK m \in L : \A k \in L : k <= m
  <2>1. L \in SUBSET (1..n) /\ L # {}
    BY <1>1
  <2> HIDE DEF L
  <2>2. QED
    BY <2>1, Greatest
<1>3. PICK c : Path(n, K, m, c) /\ c[m] = t /\ \A i \in 1..m : c[i] \in U
  OBVIOUS
<1>4. m \in 1..n /\ m \in Nat /\ c \in [1..m -> 1..n] /\ 1 \in 1..m
  <2>1. m \in 1..n /\ c \in [1..m -> 1..n]
    BY <1>3 DEF Path
  <2>2. m \in Nat /\ 1 \in 1..m
    <3> HIDE DEF L
    <3>1. QED
      BY <2>1
  <2>3. QED
    BY <2>1, <2>2
<1>5. PICK d \in K[c[1]] : d \in U
  BY <1>3, <1>4
<1>6. \E k \in 1..m : c[k] = d
  <2>1. SUFFICES ASSUME \A k \in 1..m : c[k] # d PROVE FALSE
    OBVIOUS
  <2> DEFINE b == [i \in 1..(m + 1) |-> IF i = 1 THEN d ELSE c[i - 1]]
  <2>2. ASSUME NEW i \in 1..(m + 1)
        PROVE  \/ i = 1 /\ b[i] = d
               \/ i # 1 /\ i - 1 \in 1..m /\ b[i] = c[i - 1]
    BY <1>4
  <2>3. b \in [1..(m + 1) -> 1..n]
    <3>1. \A i \in 1..(m + 1) : b[i] \in 1..n
      <4> HIDE DEF b
      <4>1. QED
        BY <1>4, <1>5, <2>2
    <3>2. QED
      BY <3>1
  <2> HIDE DEF b
  <2>4. ASSUME NEW i \in 1..(m + 1), NEW j \in 1..(m + 1), i # j PROVE b[i] # b[j]
    <3>1. CASE i = 1
      BY <1>4, <2>1, <2>2, <2>4, <3>1
    <3>2. CASE j = 1
      BY <1>4, <2>1, <2>2, <2>4, <3>2
    <3>3. CASE i # 1 /\ j # 1
      <4>1. i - 1 \in 1..m /\ j - 1 \in 1..m /\ i - 1 # j - 1
        BY <1>4, <2>4, <3>3
      <4>2. c[i - 1] # c[j - 1]
        BY <1>3, <4>1 DEF Path
      <4>3. QED
        BY <2>2, <3>3, <4>2
    <3>4. QED
      BY <3>1, <3>2, <3>3
  <2>5. ASSUME NEW i \in 2..(m + 1) PROVE b[i - 1] \in K[b[i]]
    <3>1. i \in 1..(m + 1) /\ i - 1 \in 1..(m + 1) /\ i # 1
      BY <1>4
    <3>2. CASE i = 2
      <4>1. b[i - 1] = d /\ b[i] = c[1]
        BY <2>2, <3>1, <3>2
      <4>2. QED
        BY <4>1
    <3>3. CASE i # 2
      <4>1. i - 1 # 1 /\ i - 1 \in 2..m
        BY <1>4, <3>3
      <4>2. b[i - 1] = c[(i - 1) - 1] /\ b[i] = c[i - 1]
        BY <2>2, <3>1, <4>1
      <4>3. c[(i - 1) - 1] \in K[c[i - 1]]
        BY <1>3, <4>1 DEF Path
      <4>4. QED
        BY <4>2, <4>3
    <3>4. QED
      BY <3>2, <3>3
  <2>6. m + 1 <= n
    <3> DEFINE k == m + 1
    <3>1. k \in Nat /\ b \in [1..k -> 1..n]
      <4>1. b \in [1..k -> 1..n]
        BY <2>3
      <4>2. k \in Nat
        <5> HIDE DEF L
        <5>1. QED
          BY <1>4
      <4>3. QED
        BY <4>1, <4>2
    <3>2. \A i, j \in 1..k : i # j => b[i] # b[j]
      BY <2>4
    <3> HIDE DEF k, L
    <3>3. k <= n
      BY <3>1, <3>2, Pigeons
    <3>4. QED
      BY <3>3 DEF k
  <2>7. Path(n, K, m + 1, b)
    <3>1. m + 1 \in 1..n
      BY <1>4, <2>6
    <3>2. QED
      BY <2>3, <2>4, <2>5, <3>1 DEF Path
  <2>8. b[m + 1] = t
    <3>1. m + 1 \in 1..(m + 1) /\ m + 1 # 1 /\ (m + 1) - 1 = m
      <4> HIDE DEF L
      <4>1. QED
        BY <1>4
    <3>2. b[m + 1] = c[(m + 1) - 1]
      BY <2>2, <3>1
    <3>3. QED
      BY <1>3, <3>1, <3>2
  <2>9. \A i \in 1..(m + 1) : b[i] \in U
    BY <1>3, <1>5, <2>2
  <2>10. m + 1 \in L
    BY <1>4, <2>6, <2>7, <2>8, <2>9
  <2> HIDE DEF L
  <2>11. QED
    BY <1>2, <1>4, <2>10
<1>7. PICK k \in 1..m : c[k] = d
  BY <1>6
<1> DEFINE e == [i \in 1..k |-> c[i]]
<1>8. Path(n, K, k, e)
  <2>1. k \in 1..n /\ k \in Nat /\ e \in [1..k -> 1..n] /\ \A i \in 1..k : i \in 1..m /\ e[i] = c[i]
    BY <1>4
  <2> HIDE DEF e
  <2>2. ASSUME NEW i \in 1..k, NEW j \in 1..k, i # j PROVE e[i] # e[j]
    BY <1>3, <2>1, <2>2 DEF Path
  <2>3. ASSUME NEW i \in 2..k PROVE e[i - 1] \in K[e[i]]
    <3>1. i \in 2..m /\ i \in 1..k /\ i - 1 \in 1..k
      BY <1>4, <2>1
    <3>2. c[i - 1] \in K[c[i]]
      BY <1>3, <3>1 DEF Path
    <3>3. QED
      BY <2>1, <3>1, <3>2
  <2>4. QED
    BY <2>1, <2>2, <2>3 DEF Path
<1>9. e[1] = c[1] /\ e[k] \in K[e[1]]
  BY <1>4, <1>5, <1>7
<1> HIDE DEF e
<1>10. QED
  BY <1>3, <1>8, <1>9 DEF HeldUp

-----------------------------------------------------------------------------
(* Lists without repetition, and what they hold.                           *)
Of(q) == {q[i] : i \in DOMAIN q}
Once(q) == \A i, j \in DOMAIN q : i # j => q[i] # q[j]

(* The first of a list without repetition, and the rest.                   *)
LEMMA HeadAndTail ==
  ASSUME NEW R, NEW q \in Seq(R), q # <<>>, Once(q)
  PROVE  /\ Head(q) \in R /\ Tail(q) \in Seq(R) /\ Once(Tail(q))
         /\ Head(q) \in Of(q) /\ Of(Tail(q)) = Of(q) \ {Head(q)}
<1> DEFINE h == Head(q)
           u == Tail(q)
           n == Len(q)
<1>1. n \in Nat /\ DOMAIN q = 1..n /\ n # 0 /\ h = q[1]
  OBVIOUS
<1>2. u \in Seq(R) /\ DOMAIN u = 1..(n - 1) /\ \A i \in 1..(n - 1) : u[i] = q[i + 1]
  OBVIOUS
<1>3. h \in R /\ 1 \in DOMAIN q
  BY <1>1
<1> HIDE DEF h, u, n
<1>4. \A i \in 1..(n - 1) : i + 1 \in 1..n /\ i + 1 # 1
  BY <1>1
<1>5. Once(u)
  <2> SUFFICES ASSUME NEW i \in 1..(n - 1), NEW j \in 1..(n - 1), i # j PROVE u[i] # u[j]
    BY <1>2 DEF Once
  <2>1. i + 1 # j + 1 /\ i + 1 \in DOMAIN q /\ j + 1 \in DOMAIN q
    BY <1>1, <1>4
  <2>2. QED
    BY <1>2, <2>1 DEF Once
<1>6. Of(u) = Of(q) \ {h}
  <2>1. ASSUME NEW i \in 1..(n - 1) PROVE u[i] \in Of(q) \ {h}
    <3>1. i + 1 \in DOMAIN q /\ i + 1 # 1
      BY <1>1, <1>4
    <3>2. q[i + 1] # q[1]
      BY <1>3, <3>1 DEF Once
    <3>3. QED
      BY <1>1, <1>2, <3>1, <3>2 DEF Of
  <2>2. ASSUME NEW i \in DOMAIN q, q[i] # h PROVE q[i] \in Of(u)
    <3>1. i - 1 \in 1..(n - 1) /\ (i - 1) + 1 = i
      BY <1>1, <2>2
    <3>2. u[i - 1] = q[i]
      BY <1>2, <3>1
    <3>3. QED
      BY <1>2, <3>1, <3>2 DEF Of
  <2>3. QED
    BY <1>2, <2>1, <2>2 DEF Of
<1>7. QED
  BY <1>1, <1>2, <1>3, <1>5, <1>6 DEF h, u, Of

(* Two lists that share nothing, one after the other.                      *)
LEMMA Joined ==
  ASSUME NEW R, NEW q \in Seq(R), NEW a \in Seq(R), Once(q), Once(a), Of(q) \cap Of(a) = {}
  PROVE  q \o a \in Seq(R) /\ Once(q \o a) /\ Of(q \o a) = Of(q) \cup Of(a)
<1> DEFINE c == q \o a
           m == Len(q)
           n == Len(a)
<1>1. m \in Nat /\ n \in Nat /\ DOMAIN q = 1..m /\ DOMAIN a = 1..n
  OBVIOUS
<1>2. c \in Seq(R) /\ DOMAIN c = 1..(m + n)
  OBVIOUS
<1>3. (\A i \in 1..m : c[i] = q[i]) /\ (\A i \in 1..n : c[m + i] = a[i])
  OBVIOUS
<1> HIDE DEF c, m, n
<1>4. ASSUME NEW i \in 1..(m + n)
      PROVE  \/ i \in 1..m /\ c[i] = q[i] /\ c[i] \in Of(q)
             \/ i \notin 1..m /\ i - m \in 1..n /\ c[i] = a[i - m] /\ c[i] \in Of(a)
  <2>1. CASE i \in 1..m
    BY <1>1, <1>3, <2>1 DEF Of
  <2>2. CASE i \notin 1..m
    <3>1. i - m \in 1..n /\ m + (i - m) = i
      BY <1>1, <2>2
    <3>2. c[i] = a[i - m]
      BY <1>3, <3>1
    <3>3. QED
      BY <1>1, <2>2, <3>1, <3>2 DEF Of
  <2>3. QED
    BY <2>1, <2>2
<1>5. Once(c)
  <2> SUFFICES ASSUME NEW i \in 1..(m + n), NEW j \in 1..(m + n), i # j PROVE c[i] # c[j]
    BY <1>2 DEF Once
  <2>1. CASE i \in 1..m /\ j \in 1..m
    BY <1>1, <1>3, <2>1 DEF Once
  <2>2. CASE i \notin 1..m /\ j \notin 1..m
    <3>1. i - m \in 1..n /\ j - m \in 1..n /\ c[i] = a[i - m] /\ c[j] = a[j - m]
      BY <1>4, <2>2
    <3>2. i - m # j - m
      BY <1>1
    <3>3. QED
      BY <1>1, <3>1, <3>2 DEF Once
  <2>3. CASE (i \in 1..m) # (j \in 1..m)
    BY <1>4, <2>3
  <2>4. QED
    BY <2>1, <2>2, <2>3
<1>6. Of(c) = Of(q) \cup Of(a)
  <2>1. \A i \in 1..m : i \in 1..(m + n)
    BY <1>1
  <2>2. \A i \in 1..n : m + i \in 1..(m + n)
    BY <1>1
  <2>3. \A x : x \in Of(c) <=> \E i \in 1..(m + n) : x = c[i]
    BY <1>2 DEF Of
  <2>4. \A x \in Of(q) : \E i \in 1..m : x = c[i]
    BY <1>1, <1>3 DEF Of
  <2>5. \A x \in Of(a) : \E i \in 1..n : x = c[m + i]
    BY <1>1, <1>3 DEF Of
  <2>6. \A x \in Of(c) : x \in Of(q) \cup Of(a)
    BY <1>4, <2>3
  <2>7. QED
    BY <2>1, <2>2, <2>3, <2>4, <2>5, <2>6
<1>7. QED
  BY <1>2, <1>5, <1>6 DEF c

(* A list and one more at its end.                                         *)
LEMMA Longer ==
  ASSUME NEW R, NEW o \in Seq(R), NEW s \in R
  PROVE  /\ Append(o, s) \in Seq(R) /\ Len(o) \in Nat
         /\ DOMAIN o = 1..Len(o) /\ DOMAIN Append(o, s) = 1..(Len(o) + 1)
         /\ \A i \in 1..Len(o) : Append(o, s)[i] = o[i]
         /\ Append(o, s)[Len(o) + 1] = s
         /\ Of(Append(o, s)) = Of(o) \cup {s}
<1> DEFINE e == Append(o, s)
           n == Len(o)
<1>1. n \in Nat /\ DOMAIN o = 1..n
  OBVIOUS
<1>2. e \in Seq(R) /\ DOMAIN e = 1..(n + 1) /\ e[n + 1] = s /\ \A i \in 1..n : e[i] = o[i]
  OBVIOUS
<1> HIDE DEF e, n
<1>3. 1..(n + 1) = 1..n \cup {n + 1}
  BY <1>1
<1>4. Of(e) = Of(o) \cup {s}
  <2>1. \A x : x \in Of(e) <=> \E i \in 1..n \cup {n + 1} : x = e[i]
    BY <1>2, <1>3 DEF Of
  <2>2. \A x : x \in Of(o) <=> \E i \in 1..n : x = e[i]
    BY <1>1, <1>2 DEF Of
  <2>3. QED
    BY <1>2, <2>1, <2>2
<1>5. QED
  BY <1>1, <1>2, <1>4 DEF e, n

(* A set in ascending order.                                               *)
LEMMA Listed ==
  ASSUME NEW S \in SUBSET Nat, IsFiniteSet(S)
  PROVE  Arch!Ascending(S) \in Seq(S) /\ Once(Arch!Ascending(S)) /\ Of(Arch!Ascending(S)) = S
<1> DEFINE a == Arch!Ascending(S)
           n == Cardinality(S)
<1>1. a = [k \in 1..n |-> Nth(S, k)]
  BY DEF Arch!Ascending, Nth, Arch!Cardinality, Cardinality
<1>2. /\ n \in Nat
      /\ \A k \in 1..n : Nth(S, k) \in S
      /\ \A i \in S : \E k \in 1..n : Nth(S, k) = i
      /\ \A j, k \in 1..n : Nth(S, j) = Nth(S, k) => j = k
  BY Places
<1> HIDE DEF a, n
<1>3. a \in [1..n -> S] /\ DOMAIN a = 1..n /\ \A k \in 1..n : a[k] = Nth(S, k)
  BY <1>1, <1>2
<1>4. a \in Seq(S)
  BY <1>2, <1>3
<1>5. Once(a)
  BY <1>2, <1>3 DEF Once
<1>6. Of(a) = S
  <2>1. \A i \in S : \E k \in DOMAIN a : a[k] = i
    BY <1>2, <1>3
  <2>2. \A k \in DOMAIN a : a[k] \in S
    BY <1>3
  <2>3. QED
    BY <2>1, <2>2 DEF Of
<1>7. QED
  BY <1>4, <1>5, <1>6 DEF a

-----------------------------------------------------------------------------
(* The sort: q waits, o is sorted, l are levels, r counts what is missing. *)
Queued(n, K, q, o) ==
  /\ q \in Seq(1..n) /\ Once(q) /\ Of(q) \cap Of(o) = {}
  /\ \A t \in 1..n : t \in Of(q) \cup Of(o) <=> K[t] \subseteq Of(o)
Ordered(n, K, o) ==
  /\ o \in Seq(1..n)
  /\ \A i \in DOMAIN o : K[o[i]] \subseteq {o[j] : j \in 1..(i - 1)}
Missing(n, K, o, r) == r \in [1..n -> Nat] /\ \A t \in 1..n : r[t] = Cardinality(K[t] \ Of(o))
Levelled(n, K, D, l) ==
  /\ l \in [1..n -> Nat]
  /\ \A t \in 1..n : /\ \A d \in K[t] \cap D : l[d] + 1 <= l[t]
                     /\ l[t] = 0 \/ \E d \in K[t] \cap D : l[t] = l[d] + 1
SortTrue(n, K, q, o, l, r) ==
  Queued(n, K, q, o) /\ Ordered(n, K, o) /\ Missing(n, K, o, r) /\ Levelled(n, K, Of(o), l)

(* One turn of the sort, which takes s from the queue.                     *)
Ready(n, K, s, r) == {t \in 1..n : s \in K[t] /\ r[t] = 1}
Raised(n, K, s, l) == [t \in 1..n |-> IF s \in K[t] THEN Arch!Most({l[t], l[s] + 1}) ELSE l[t]]
Lessened(n, K, s, r) == [t \in 1..n |-> IF s \in K[t] THEN r[t] - 1 ELSE r[t]]

(* A list of some is a list of more.                                       *)
LEMMA Wider ==
  ASSUME NEW R, NEW T, R \subseteq T, NEW q \in Seq(R)
  PROVE  q \in Seq(T)
<1>1. q \in [1..Len(q) -> R] /\ Len(q) \in Nat
  BY SeqIs
<1>2. q \in [1..Len(q) -> T]
  BY <1>1
<1>3. QED
  BY <1>1, <1>2

(* Sets of steps are finite.                                               *)
LEMMA FewLinks ==
  ASSUME NEW n \in Nat, NEW S \in SUBSET (1..n)
  PROVE  IsFiniteSet(S) /\ Cardinality(S) \in Nat /\ S \in SUBSET Nat
<1>1. \A s \in S : s <= n /\ s \in Nat
  OBVIOUS
<1>2. IsFiniteSet(S)
  BY <1>1, FS_BoundedSetOfNaturals
<1>3. QED
  BY <1>1, <1>2, FS_CardinalityType

(* All that is sorted or waits needs nothing that is not sorted.           *)
LEMMA SortedClosed ==
  ASSUME NEW n \in Nat, NEW K, NEW o, Ordered(n, K, o)
  PROVE  Of(o) \in SUBSET (1..n) /\ \A t \in Of(o) : K[t] \subseteq Of(o)
<1>1. o \in Seq(1..n) /\ \A i \in DOMAIN o : K[o[i]] \subseteq {o[j] : j \in 1..(i - 1)}
  BY DEF Ordered
<1>2. Len(o) \in Nat /\ DOMAIN o = 1..Len(o) /\ \A i \in DOMAIN o : o[i] \in 1..n
  BY <1>1
<1>3. Of(o) \in SUBSET (1..n)
  BY <1>2 DEF Of
<1>4. ASSUME NEW i \in DOMAIN o PROVE K[o[i]] \subseteq Of(o)
  <2>1. \A j \in 1..(i - 1) : j \in DOMAIN o
    BY <1>2
  <2>2. QED
    BY <1>1, <2>1 DEF Of
<1>5. QED
  BY <1>3, <1>4 DEF Of

(* The larger of two numbers.                                              *)
LEMMA MostOfTwo ==
  ASSUME NEW a \in Nat, NEW b \in Nat
  PROVE  Arch!Most({a, b}) = IF a >= b THEN a ELSE b
<1>1. \E c \in {a, b} : \A d \in {a, b} : c >= d
  OBVIOUS
<1>2. Arch!Most({a, b}) \in {a, b} /\ \A d \in {a, b} : Arch!Most({a, b}) >= d
  BY <1>1 DEF Arch!Most
<1>3. QED
  BY <1>2

(* A turn of the sort keeps all that is said of it.                        *)
LEMMA SortStep ==
  ASSUME NEW n \in Nat, NEW K \in [1..n -> SUBSET (1..n)], NEW q, NEW o, NEW l, NEW r,
         SortTrue(n, K, q, o, l, r), q # <<>>, NEW s, s = Head(q),
         NEW a, a = Arch!Ascending(Ready(n, K, s, r)), NEW g, g = Raised(n, K, s, l),
         NEW u, u = Lessened(n, K, s, r)
  PROVE  SortTrue(n, K, Tail(q) \o a, Append(o, s), g, u)
<1> DEFINE F == Ready(n, K, s, r)
           D == Of(o)
           E == D \cup {s}
           v == Tail(q)
           w == v \o a
           e == Append(o, s)
<1>1. Queued(n, K, q, o) /\ Ordered(n, K, o) /\ Missing(n, K, o, r) /\ Levelled(n, K, D, l)
  BY DEF SortTrue
<1>2. /\ q \in Seq(1..n) /\ Once(q) /\ Of(q) \cap D = {}
      /\ \A t \in 1..n : t \in Of(q) \cup D <=> K[t] \subseteq D
  BY <1>1 DEF Queued
<1>3. s \in 1..n /\ v \in Seq(1..n) /\ Once(v) /\ s \in Of(q) /\ Of(v) = Of(q) \ {s}
  BY <1>2, HeadAndTail
<1>4. D \in SUBSET (1..n) /\ \A t \in D : K[t] \subseteq D
  BY <1>1, SortedClosed
<1>5. s \notin D /\ K[s] \subseteq D /\ s \notin K[s]
  BY <1>2, <1>3
<1>6. r \in [1..n -> Nat] /\ \A t \in 1..n : r[t] = Cardinality(K[t] \ D)
  BY <1>1 DEF Missing
<1>7. o \in Seq(1..n)
  BY <1>1 DEF Ordered
<1>8. /\ e \in Seq(1..n) /\ Of(e) = E
      /\ Len(o) \in Nat /\ DOMAIN o = 1..Len(o) /\ DOMAIN e = 1..(Len(o) + 1)
      /\ \A i \in 1..Len(o) : e[i] = o[i]
      /\ e[Len(o) + 1] = s
  BY <1>3, <1>7, Longer
<1> HIDE DEF D, E, v, e
<1>9. a \in Seq(F) /\ Once(a) /\ Of(a) = F /\ F \in SUBSET (1..n)
  <2>1. F \in SUBSET (1..n) /\ a = Arch!Ascending(F)
    BY DEF Ready
  <2> HIDE DEF F
  <2>2. IsFiniteSet(F) /\ F \in SUBSET Nat
    BY <2>1, FewLinks
  <2>3. QED
    BY <2>1, <2>2, Listed
<1>10. ASSUME NEW t \in 1..n
       PROVE  /\ s \in K[t] => /\ Cardinality(K[t] \ E) = r[t] - 1 /\ r[t] >= 1
                               /\ r[t] = 1 <=> K[t] \subseteq E
              /\ s \notin K[t] => K[t] \ E = K[t] \ D
  <2>1. r[t] = Cardinality(K[t] \ D)
    BY <1>6
  <2>2. E = D \cup {s}
    BY DEF E
  <2>3. ASSUME s \in K[t]
        PROVE  /\ Cardinality(K[t] \ E) = Cardinality(K[t] \ D) - 1
               /\ Cardinality(K[t] \ D) >= 1
               /\ Cardinality(K[t] \ D) = 1 <=> K[t] \subseteq E
    <3> DEFINE A == K[t] \ D
               B == K[t] \ E
    <3>1. A \in SUBSET (1..n) /\ B \in SUBSET (1..n)
      OBVIOUS
    <3>2. s \in A /\ B = A \ {s}
      BY <1>5, <2>2, <2>3
    <3>3. K[t] \subseteq E <=> B = {}
      OBVIOUS
    <3> HIDE DEF A, B, F, w
    <3>4. IsFiniteSet(A) /\ Cardinality(A) \in Nat /\ IsFiniteSet(B) /\ Cardinality(B) \in Nat
      BY <3>1, FewLinks
    <3>5. Cardinality(B) = Cardinality(A) - 1
      BY <3>2, <3>4, FS_RemoveElement
    <3>6. Cardinality(B) = 0 <=> B = {}
      BY <3>4, FS_EmptySet
    <3>7. Cardinality(B) = Cardinality(A) - 1 /\ Cardinality(A) >= 1 /\ (Cardinality(A) = 1 <=> K[t] \subseteq E)
      BY <3>3, <3>4, <3>5, <3>6
    <3>8. QED
      BY <3>7 DEF A, B
  <2>4. ASSUME s \notin K[t] PROVE K[t] \ E = K[t] \ D
    BY <2>2, <2>4
  <2>5. QED
    BY <2>1, <2>3, <2>4
<1>11. \A t \in F : s \in K[t] /\ r[t] = 1 /\ t \in 1..n
  BY DEF Ready
<1> HIDE DEF F
<1>12. Queued(n, K, w, e)
  <2>1. Of(v) \cap Of(a) = {}
    BY <1>2, <1>3, <1>5, <1>9, <1>11
  <2>2. a \in Seq(1..n)
    BY <1>9, Wider
  <2>3. w \in Seq(1..n) /\ Once(w) /\ Of(w) = Of(v) \cup F
    <3> DEFINE T == 1..n
    <3>1. v \in Seq(T) /\ a \in Seq(T) /\ Once(v) /\ Once(a)
      BY <1>3, <1>9, <2>2
    <3> HIDE DEF T
    <3>2. v \o a \in Seq(T) /\ Once(v \o a) /\ Of(v \o a) = Of(v) \cup Of(a)
      BY <2>1, <3>1, Joined
    <3>3. QED
      BY <1>9, <3>2 DEF T
  <2> HIDE DEF w
  <2>4. Of(w) \cap E = {}
    <3>1. ASSUME NEW t \in F PROVE t \notin E
      <4>1. s \in K[t] /\ t \in 1..n
        BY <1>11
      <4>2. t \notin D /\ t # s
        BY <1>4, <1>5, <4>1
      <4>3. QED
        BY <4>2 DEF E
    <3>2. Of(v) \cap E = {}
      BY <1>2, <1>3 DEF E
    <3>3. QED
      BY <2>3, <3>1, <3>2
  <2>5. ASSUME NEW t \in 1..n PROVE t \in Of(w) \cup E <=> K[t] \subseteq E
    <3>1. t \in Of(w) \cup E <=> t \in Of(q) \cup D \/ t \in F
      BY <1>3, <2>3 DEF E
    <3>2. CASE s \in K[t]
      <4>1. t \notin Of(q) \cup D
        BY <1>2, <1>5, <3>2
      <4>2. t \in F <=> r[t] = 1
        BY <3>2 DEF F, Ready
      <4>3. QED
        BY <1>10, <3>1, <3>2, <4>1, <4>2
    <3>3. CASE s \notin K[t]
      <4>1. t \notin F
        BY <1>11, <3>3
      <4>2. K[t] \subseteq E <=> K[t] \subseteq D
        BY <3>3 DEF E
      <4>3. QED
        BY <1>2, <3>1, <4>1, <4>2
    <3>4. QED
      BY <3>2, <3>3
  <2>6. QED
    BY <1>8, <2>3, <2>4, <2>5 DEF Queued
<1>13. Ordered(n, K, e)
  <2>1. \A i \in DOMAIN o : K[o[i]] \subseteq {o[j] : j \in 1..(i - 1)}
    BY <1>1 DEF Ordered
  <2>2. ASSUME NEW i \in DOMAIN e PROVE K[e[i]] \subseteq {e[j] : j \in 1..(i - 1)}
    <3>1. CASE i \in 1..Len(o)
      <4>1. \A j \in 1..(i - 1) : j \in 1..Len(o) /\ e[j] = o[j]
        BY <1>8, <3>1
      <4>2. K[o[i]] \subseteq {o[j] : j \in 1..(i - 1)} /\ e[i] = o[i]
        BY <1>8, <2>1, <3>1
      <4>3. QED
        BY <4>1, <4>2
    <3>2. CASE i = Len(o) + 1
      <4>1. i - 1 = Len(o)
        BY <1>8, <3>2
      <4>2. ASSUME NEW d \in D PROVE d \in {e[j] : j \in 1..Len(o)}
        <5>1. PICK j \in 1..Len(o) : d = o[j]
          BY <1>8 DEF D, Of
        <5>2. d = e[j]
          BY <1>8, <5>1
        <5>3. QED
          BY <5>2
      <4>3. e[i] = s
        BY <1>8, <3>2
      <4>4. QED
        BY <1>5, <4>1, <4>2, <4>3
    <3>3. i \in 1..Len(o) \/ i = Len(o) + 1
      <4>1. i \in 1..(Len(o) + 1) /\ Len(o) \in Nat
        BY <1>8
      <4>2. QED
        BY <4>1
    <3>4. QED
      BY <3>1, <3>2, <3>3
  <2>3. QED
    BY <1>8, <2>2 DEF Ordered
<1>14. Missing(n, K, e, u)
  <2>1. ASSUME NEW t \in 1..n PROVE u[t] \in Nat /\ u[t] = Cardinality(K[t] \ E)
    <3>1. CASE s \in K[t]
      <4>1. u[t] = r[t] - 1
        BY <3>1 DEF Lessened
      <4>2. Cardinality(K[t] \ E) = r[t] - 1 /\ r[t] >= 1 /\ r[t] \in Nat
        BY <1>6, <1>10, <3>1
      <4>3. QED
        BY <4>1, <4>2
    <3>2. CASE s \notin K[t]
      <4>1. u[t] = r[t]
        BY <3>2 DEF Lessened
      <4>2. QED
        BY <1>6, <1>10, <3>2, <4>1
    <3>3. QED
      BY <3>1, <3>2
  <2>2. u \in [1..n -> Nat]
    <3>1. u = [t \in 1..n |-> u[t]]
      BY DEF Lessened
    <3>2. QED
      BY <2>1, <3>1
  <2>3. QED
    BY <1>8, <2>1, <2>2 DEF Missing
<1>15. Levelled(n, K, E, g)
  <2>1. /\ l \in [1..n -> Nat]
        /\ \A t \in 1..n : /\ \A d \in K[t] \cap D : l[d] + 1 <= l[t]
                           /\ l[t] = 0 \/ \E d \in K[t] \cap D : l[t] = l[d] + 1
    BY <1>1 DEF Levelled
  <2>2. ASSUME NEW t \in 1..n
        PROVE  /\ g[t] \in Nat
               /\ s \in K[t] => g[t] = IF l[t] >= l[s] + 1 THEN l[t] ELSE l[s] + 1
               /\ s \notin K[t] => g[t] = l[t]
    <3>1. CASE s \in K[t]
      <4>1. g[t] = Arch!Most({l[t], l[s] + 1})
        BY <3>1 DEF Raised
      <4>2. l[t] \in Nat /\ l[s] + 1 \in Nat
        BY <1>3, <2>1
      <4>3. QED
        BY <3>1, <4>1, <4>2, MostOfTwo
    <3>2. CASE s \notin K[t]
      <4>1. g[t] = l[t]
        BY <3>2 DEF Raised
      <4>2. QED
        BY <2>1, <3>2, <4>1
    <3>3. QED
      BY <3>1, <3>2
  <2>3. \A d \in E : g[d] = l[d]
    <3>1. ASSUME NEW d \in E PROVE s \notin K[d] /\ d \in 1..n
      BY <1>3, <1>4, <1>5 DEF E
    <3>2. QED
      BY <2>2, <3>1
  <2>4. g \in [1..n -> Nat]
    <3>1. g = [t \in 1..n |-> g[t]]
      BY DEF Raised
    <3>2. QED
      BY <2>2, <3>1
  <2>5. ASSUME NEW t \in 1..n
        PROVE  /\ \A d \in K[t] \cap E : g[d] + 1 <= g[t]
               /\ g[t] = 0 \/ \E d \in K[t] \cap E : g[t] = g[d] + 1
    <3>1. l[t] \in Nat /\ l[s] \in Nat /\ g[t] \in Nat
      BY <1>3, <2>1, <2>2
    <3>2. /\ \A d \in K[t] \cap D : l[d] + 1 <= l[t] /\ g[d] = l[d] /\ l[d] \in Nat
          /\ l[t] = 0 \/ \E d \in K[t] \cap D : l[t] = g[d] + 1
      BY <1>4, <2>1, <2>3 DEF E
    <3>3. g[s] = l[s]
      BY <2>3 DEF E
    <3>4. CASE s \in K[t]
      <4>1. g[t] = IF l[t] >= l[s] + 1 THEN l[t] ELSE l[s] + 1
        BY <2>2, <3>4
      <4>2. l[t] <= g[t] /\ l[s] + 1 <= g[t] /\ (g[t] = l[t] \/ g[t] = l[s] + 1)
        BY <3>1, <4>1
      <4>3. ASSUME NEW d \in K[t] \cap E PROVE g[d] + 1 <= g[t]
        <5>1. CASE d = s
          BY <3>3, <4>2, <5>1
        <5>2. CASE d \in D
          <6>1. l[d] + 1 <= l[t] /\ g[d] = l[d] /\ l[d] \in Nat
            BY <3>2, <5>2
          <6>2. QED
            BY <3>1, <4>2, <6>1
        <5>3. QED
          BY <5>1, <5>2 DEF E
      <4>4. g[t] = 0 \/ \E d \in K[t] \cap E : g[t] = g[d] + 1
        <5>1. CASE g[t] = l[t]
          BY <3>2, <5>1 DEF E
        <5>2. CASE g[t] = l[s] + 1
          BY <3>3, <3>4, <5>2 DEF E
        <5>3. QED
          BY <4>2, <5>1, <5>2
      <4>5. QED
        BY <4>3, <4>4
    <3>5. CASE s \notin K[t]
      <4>1. g[t] = l[t] /\ K[t] \cap E = K[t] \cap D
        BY <2>2, <3>5 DEF E
      <4>2. QED
        BY <3>2, <4>1
    <3>6. QED
      BY <3>4, <3>5
  <2>6. QED
    BY <2>4, <2>5 DEF Levelled
<1>16. Levelled(n, K, Of(e), g)
  BY <1>8, <1>15
<1>17. QED
  BY <1>12, <1>13, <1>14, <1>16 DEF SortTrue, e, v

-----------------------------------------------------------------------------
(* The chains: c and p after w of the steps in o.                          *)
Seen(o, w) == {o[i] : i \in 1..w}
ChainTrue(n, K, o, w, c, p) ==
  /\ w \in 0..Len(o) /\ c \in [1..n -> Nat] /\ p \in [1..n -> 0..n]
  /\ \A t \in 1..n : /\ c[t] >= 1
                     /\ \A d \in K[t] \cap Seen(o, w) : c[d] + 1 <= c[t]
                     /\ \/ p[t] = 0 /\ c[t] = 1
                        \/ p[t] \in K[t] \cap Seen(o, w) /\ c[t] = c[p[t]] + 1

(* One turn of the second loop, over s.                                    *)
Stretched(n, K, s, c) == {t \in {t \in 1..n : s \in K[t]} : c[s] + 1 > c[t]}
Lengths(n, b, s, c) == [t \in 1..n |-> IF t \in b THEN c[s] + 1 ELSE c[t]]
LastLinks(n, b, s, p) == [t \in 1..n |-> IF t \in b THEN s ELSE p[t]]

(* The steps seen so far need no other, nor does the next.                 *)
LEMMA SeenClosed ==
  ASSUME NEW n \in Nat, NEW K, NEW o, Ordered(n, K, o), NEW w \in 0..Len(o), w < Len(o)
  PROVE  /\ o[w + 1] \in 1..n /\ K[o[w + 1]] \subseteq Seen(o, w)
         /\ Seen(o, w) \in SUBSET (1..n) /\ Seen(o, w + 1) = Seen(o, w) \cup {o[w + 1]}
         /\ \A t \in Seen(o, w) : K[t] \subseteq Seen(o, w)
<1>1. o \in Seq(1..n) /\ \A i \in DOMAIN o : K[o[i]] \subseteq {o[j] : j \in 1..(i - 1)}
  BY DEF Ordered
<1>2. Len(o) \in Nat /\ DOMAIN o = 1..Len(o) /\ w + 1 \in DOMAIN o /\ \A i \in DOMAIN o : o[i] \in 1..n
  BY <1>1
<1>3. \A i \in 1..w : i \in DOMAIN o
  BY <1>2
<1>4. 1..(w + 1) = 1..w \cup {w + 1} /\ w + 1 - 1 = w
  BY <1>2
<1>5. Seen(o, w) \in SUBSET (1..n) /\ K[o[w + 1]] \subseteq Seen(o, w)
  <2>1. Seen(o, w) \in SUBSET (1..n)
    BY <1>2, <1>3 DEF Seen
  <2>2. PICK k \in DOMAIN o : k = w + 1
    BY <1>2
  <2>3. K[o[k]] \subseteq {o[j] : j \in 1..(k - 1)} /\ k - 1 = w
    BY <1>1, <1>4, <2>2
  <2>4. K[o[w + 1]] \subseteq Seen(o, w)
    BY <2>2, <2>3 DEF Seen
  <2>5. QED
    BY <2>1, <2>4
<1>6. Seen(o, w + 1) = Seen(o, w) \cup {o[w + 1]}
  BY <1>4 DEF Seen
<1>7. ASSUME NEW i \in 1..w PROVE K[o[i]] \subseteq Seen(o, w)
  <2>1. \A j \in 1..(i - 1) : j \in 1..w
    BY <1>2
  <2>2. QED
    BY <1>1, <1>3, <2>1 DEF Seen
<1>8. QED
  BY <1>2, <1>5, <1>6, <1>7 DEF Seen

(* A turn of the second loop keeps all that is said of the chains.         *)
LEMMA ChainStep ==
  ASSUME NEW n \in Nat, NEW K \in [1..n -> SUBSET (1..n)], NEW o, NEW w, NEW c, NEW p,
         Ordered(n, K, o), ChainTrue(n, K, o, w, c, p), w < Len(o), NEW s, s = o[w + 1],
         NEW b, b = Stretched(n, K, s, c),
         NEW g, g = Lengths(n, b, s, c),
         NEW u, u = LastLinks(n, b, s, p)
  PROVE  ChainTrue(n, K, o, w + 1, g, u)
<1> DEFINE W == Seen(o, w)
           V == Seen(o, w + 1)
<1>1. /\ w \in 0..Len(o) /\ c \in [1..n -> Nat] /\ p \in [1..n -> 0..n]
      /\ \A t \in 1..n : /\ c[t] >= 1
                         /\ \A d \in K[t] \cap W : c[d] + 1 <= c[t]
                         /\ \/ p[t] = 0 /\ c[t] = 1
                            \/ p[t] \in K[t] \cap W /\ c[t] = c[p[t]] + 1
  BY DEF ChainTrue
<1>2. /\ s \in 1..n /\ K[s] \subseteq W /\ W \in SUBSET (1..n) /\ V = W \cup {s}
      /\ \A t \in W : K[t] \subseteq W
  BY <1>1, SeenClosed
<1>3. w + 1 \in 0..Len(o)
  <2>1. Len(o) \in Nat
    BY DEF Ordered
  <2>2. QED
    BY <1>1, <2>1
<1> HIDE DEF W, V
<1>4. \A t \in 1..n : t \in b <=> s \in K[t] /\ c[s] + 1 > c[t]
  BY DEF Stretched
<1>5. ASSUME NEW d \in V PROVE d \notin b /\ d \in 1..n
  <2>1. d \in 1..n /\ K[d] \subseteq W
    BY <1>2
  <2>2. s \in K[d] => c[s] + 1 <= c[d]
    BY <1>1, <2>1
  <2>3. c[s] \in Nat /\ c[d] \in Nat
    BY <1>1, <1>2, <2>1
  <2>4. QED
    BY <1>4, <2>1, <2>2, <2>3
<1>6. \A d \in V : g[d] = c[d] /\ d \in 1..n
  BY <1>5 DEF Lengths
<1>7. g \in [1..n -> Nat] /\ u \in [1..n -> 0..n]
  <2>1. c[s] + 1 \in Nat /\ s \in 0..n /\ \A t \in 1..n : c[t] \in Nat /\ p[t] \in 0..n
    BY <1>1, <1>2
  <2>2. QED
    BY <2>1 DEF Lengths, LastLinks
<1>8. ASSUME NEW t \in 1..n
      PROVE  /\ g[t] >= 1
             /\ \A d \in K[t] \cap V : g[d] + 1 <= g[t]
             /\ \/ u[t] = 0 /\ g[t] = 1
                \/ u[t] \in K[t] \cap V /\ g[t] = g[u[t]] + 1
  <2>1. c[t] \in Nat /\ c[s] \in Nat /\ c[t] >= 1
    BY <1>1, <1>2
  <2>2. CASE t \in b
    <3>1. g[t] = c[s] + 1 /\ u[t] = s /\ s \in K[t] /\ c[s] + 1 > c[t]
      BY <1>4, <2>2 DEF Lengths, LastLinks
    <3>2. g[s] = c[s]
      BY <1>2, <1>6
    <3>3. ASSUME NEW d \in K[t] \cap V PROVE g[d] + 1 <= g[t]
      <4>1. CASE d = s
        BY <2>1, <3>1, <3>2, <4>1
      <4>2. CASE d \in W
        <5>1. c[d] + 1 <= c[t] /\ g[d] = c[d] /\ c[d] \in Nat
          BY <1>1, <1>6, <4>2
        <5>2. QED
          BY <2>1, <3>1, <5>1
      <4>3. QED
        BY <1>2, <4>1, <4>2
    <3>4. QED
      BY <1>2, <2>1, <3>1, <3>2, <3>3
  <2>3. CASE t \notin b
    <3>1. g[t] = c[t] /\ u[t] = p[t]
      BY <2>3 DEF Lengths, LastLinks
    <3>2. ASSUME NEW d \in K[t] \cap V PROVE g[d] + 1 <= g[t]
      <4>1. g[d] = c[d]
        BY <1>6
      <4>2. CASE d = s
        BY <1>4, <2>1, <2>3, <3>1, <4>1, <4>2
      <4>3. CASE d \in W
        BY <1>1, <3>1, <4>1, <4>3
      <4>4. QED
        BY <1>2, <4>2, <4>3
    <3>3. CASE p[t] = 0 /\ c[t] = 1
      BY <2>1, <3>1, <3>2, <3>3
    <3>4. CASE p[t] \in K[t] \cap W /\ c[t] = c[p[t]] + 1
      <4>1. p[t] \in V /\ g[p[t]] = c[p[t]]
        BY <1>2, <1>6, <3>4
      <4>2. QED
        BY <2>1, <3>1, <3>2, <3>4, <4>1
    <3>5. QED
      BY <1>1, <3>3, <3>4
  <2>4. QED
    BY <2>2, <2>3
<1>9. QED
  BY <1>3, <1>7, <1>8 DEF ChainTrue, V


-----------------------------------------------------------------------------
(* The advice: the graph, and what each phase knows of it.                 *)
Size == Len(given.steps)
Links == [t \in 1..Size |-> Arch!Known(t)]
Chosen == Arch!Winner(Arch!Deterministic, Arch!SingleAgent, Arch!MultiAgent)

QuickInv ==
  /\ phase \in {"classify", "done"} /\ given.quick \in Classified
  /\ phase = "done" => advice = {[architecture |-> Arch!Quick(given.quick)]}
PlanInv ==
  /\ given.steps \in Workflows /\ phase \in {"sort", "chain", "advise", "done"}
  /\ SortTrue(Size, Links, queue, order, level, remaining)
  /\ ChainTrue(Size, Links, order, walked, chain, parent)
  /\ phase = "sort" => walked = 0
  /\ phase # "sort" => queue = <<>>
  /\ phase \in {"advise", "done"} => walked = Len(order)
  /\ phase = "done" => advice = {Arch!Config(Chosen)}
AdviceInv == IF given.steps = <<>> THEN QuickInv ELSE PlanInv
AdviceKept == part = "advice" => AdviceInv

(* The graph of a workflow: its steps are 1..Size and Links is what they   *)
(* depend on.                                                              *)
LEMMA GraphIs ==
  ASSUME given.steps \in Workflows
  PROVE  /\ Size \in Nat /\ Size >= 1 /\ Arch!Steps = 1..Size
         /\ Links \in [1..Size -> SUBSET (1..Size)]
         /\ \A t \in 1..Size : Arch!Known(t) = Links[t]
         /\ \A s \in 1..Size : Arch!Successors(s) = {t \in 1..Size : s \in Links[t]}
<1> DEFINE q == given.steps
           R == {q[i] : i \in DOMAIN q}
<1>1. q \in Seq(R) /\ q # <<>>
  BY StoresAssumption
<1> HIDE DEF q, R
<1>2. Len(q) \in Nat /\ Len(q) >= 1 /\ DOMAIN q = 1..Len(q)
  BY <1>1
<1>3. Size \in Nat /\ Size >= 1 /\ Arch!Steps = 1..Size
  BY <1>2 DEF Size, Arch!Steps, q
<1>4. \A t \in 1..Size : Arch!Known(t) \in SUBSET (1..Size)
  BY <1>3 DEF Arch!Known
<1>5. Links \in [1..Size -> SUBSET (1..Size)] /\ \A t \in 1..Size : Arch!Known(t) = Links[t]
  BY <1>4 DEF Links
<1>6. \A s \in 1..Size : Arch!Successors(s) = {t \in 1..Size : s \in Links[t]}
  BY <1>3, <1>5 DEF Arch!Successors
<1>7. QED
  BY <1>3, <1>5, <1>6

(* ArchSelector counts with the cardinality of the library.                *)
LEMMA SameCardinality == \A S : Arch!Cardinality(S) = Cardinality(S)
  BY DEF Arch!Cardinality, Cardinality

(* The steps that need nothing.                                            *)
Bottom(n, K) == {t \in 1..n : Cardinality(K[t]) = 0}

(* What the sort starts with: the steps that need nothing, all at level 0. *)
LEMMA SortStarts ==
  ASSUME NEW n \in Nat, NEW K \in [1..n -> SUBSET (1..n)], NEW r, r = [t \in 1..n |-> Cardinality(K[t])],
         NEW q, q = Arch!Ascending(Bottom(n, K)), NEW l, l = [t \in 1..n |-> 0],
         NEW o, o = <<>>
  PROVE  SortTrue(n, K, q, o, l, r)
<1> DEFINE F == Bottom(n, K)
<1>1. Of(o) = {}
  BY DEF Of
<1>2. ASSUME NEW t \in 1..n
      PROVE  Cardinality(K[t]) \in Nat /\ (Cardinality(K[t]) = 0 <=> K[t] = {}) /\ K[t] \ {} = K[t]
  <2> DEFINE A == K[t]
  <2>1. A \in SUBSET (1..n)
    OBVIOUS
  <2> HIDE DEF A
  <2>2. IsFiniteSet(A) /\ Cardinality(A) \in Nat
    BY <2>1, FewLinks
  <2>3. Cardinality(A) = 0 <=> A = {}
    BY <2>2, FS_EmptySet
  <2>4. QED
    BY <2>2, <2>3 DEF A
<1>3. F \in SUBSET (1..n) /\ \A t \in 1..n : t \in F <=> K[t] = {}
  BY <1>2 DEF Bottom
<1>4. q = Arch!Ascending(F)
  OBVIOUS
<1> HIDE DEF F
<1>5. q \in Seq(F) /\ Once(q) /\ Of(q) = F
  <2>1. IsFiniteSet(F) /\ F \in SUBSET Nat
    BY <1>3, FewLinks
  <2>2. QED
    BY <1>4, <2>1, Listed
<1>6. q \in Seq(1..n)
  <2>1. F \subseteq 1..n /\ q \in Seq(F)
    BY <1>3, <1>5
  <2>2. QED
    BY <2>1, Wider
<1>7. Queued(n, K, q, o)
  BY <1>1, <1>3, <1>5, <1>6 DEF Queued
<1>8. Ordered(n, K, o)
  BY DEF Ordered
<1>9. Missing(n, K, o, r)
  <2>1. \A t \in 1..n : r[t] = Cardinality(K[t] \ {})
    BY <1>2
  <2>2. r \in [1..n -> Nat]
    BY <1>2
  <2>3. QED
    BY <1>1, <2>1, <2>2 DEF Missing
<1>10. Levelled(n, K, Of(o), l)
  BY <1>1 DEF Levelled
<1>11. QED
  BY <1>7, <1>8, <1>9, <1>10 DEF SortTrue

(* What the second loop starts with: chains of one step.                   *)
LEMMA ChainStarts ==
  ASSUME NEW n \in Nat, NEW K, NEW R, NEW o \in Seq(R), NEW w, w = 0,
         NEW c, c = [t \in 1..n |-> 1], NEW p, p = [t \in 1..n |-> 0]
  PROVE  ChainTrue(n, K, o, w, c, p)
<1>1. Seen(o, w) = {} /\ w \in 0..Len(o)
  <2>1. Len(o) \in Nat /\ 1..0 = {}
    OBVIOUS
  <2>2. QED
    BY <2>1 DEF Seen
<1>2. 0 \in 0..n /\ 1 \in Nat
  OBVIOUS
<1>3. QED
  BY <1>1, <1>2 DEF ChainTrue

(* Before the second loop, the order does not matter to it.                *)
LEMMA ChainWaits ==
  ASSUME NEW n, NEW K, NEW o, NEW R, NEW e \in Seq(R), NEW c, NEW p, ChainTrue(n, K, o, 0, c, p)
  PROVE  ChainTrue(n, K, e, 0, c, p)
<1>1. Seen(o, 0) = Seen(e, 0) /\ 0 \in 0..Len(e)
  <2>1. Len(e) \in Nat /\ 1..0 = {}
    OBVIOUS
  <2>2. QED
    BY <2>1 DEF Seen
<1>2. QED
  BY <1>1 DEF ChainTrue

(* A request starts at the sort, or at the quick classification.           *)
LEMMA AdviceInit == ASSUME Arch!AInit PROVE AdviceInv
<1>1. /\ given \in [steps : Workflows, policy : StrictPolicies]
                   \cup [steps : {<<>>}, policy : StrictPolicies, quick : Classified]
      /\ phase = IF given.steps = <<>> THEN "classify" ELSE "sort"
      /\ remaining = [s \in Arch!Steps |-> Arch!InDegree(s)]
      /\ queue = Arch!Ascending({s \in Arch!Steps : Arch!InDegree(s) = 0})
      /\ order = <<>> /\ walked = 0 /\ advice = {}
      /\ level = [s \in Arch!Steps |-> 0]
      /\ chain = [s \in Arch!Steps |-> 1] /\ parent = [s \in Arch!Steps |-> 0]
  BY DEF Arch!AInit
<1>2. \A w \in Workflows : w # <<>>
  BY StoresAssumption
<1>3. CASE given.steps = <<>>
  <2>1. given.quick \in Classified
    BY <1>1, <1>2, <1>3
  <2>2. QED
    BY <1>1, <1>3, <2>1 DEF AdviceInv, QuickInv
<1>4. CASE given.steps # <<>>
  <2>1. given.steps \in Workflows
    BY <1>1, <1>4
  <2>2. /\ Size \in Nat /\ Arch!Steps = 1..Size
        /\ Links \in [1..Size -> SUBSET (1..Size)] /\ \A t \in 1..Size : Arch!Known(t) = Links[t]
    BY <2>1, GraphIs
  <2>3. \A t \in 1..Size : Arch!InDegree(t) = Cardinality(Links[t])
    BY <2>2, SameCardinality DEF Arch!InDegree
  <2>4. /\ remaining = [t \in 1..Size |-> Cardinality(Links[t])]
        /\ level = [t \in 1..Size |-> 0]
        /\ chain = [t \in 1..Size |-> 1] /\ parent = [t \in 1..Size |-> 0]
    BY <1>1, <2>2, <2>3
  <2>5. queue = Arch!Ascending(Bottom(Size, Links))
    <3>1. {t \in Arch!Steps : Arch!InDegree(t) = 0} = Bottom(Size, Links)
      BY <2>2, <2>3 DEF Bottom
    <3>2. QED
      BY <1>1, <3>1
  <2>6. SortTrue(Size, Links, queue, order, level, remaining)
    BY <1>1, <2>2, <2>4, <2>5, SortStarts
  <2>7. ChainTrue(Size, Links, order, walked, chain, parent)
    <3>1. order \in Seq(Nat)
      BY <1>1
    <3>2. QED
      BY <1>1, <2>2, <2>4, <3>1, ChainStarts
  <2>8. phase = "sort" /\ walked = 0
    BY <1>1, <1>4
  <2>9. QED
    BY <1>4, <2>1, <2>6, <2>7, <2>8 DEF AdviceInv, PlanInv
<1>5. QED
  BY <1>3, <1>4

(* The graph depends on the request alone.                                 *)
LEMMA SameGraph == ASSUME given' = given PROVE Size' = Size /\ Links' = Links
<1>1. Size' = Size
  BY DEF Size
<1>2. Links' = Links
  BY <1>1 DEF Links, Arch!Known, Arch!Steps
<1>3. QED
  BY <1>1, <1>2

(* The first loop of analyse_dag.                                          *)
LEMMA AdviceSorts == ASSUME PlanInv, given.steps # <<>>, Arch!Sort PROVE AdviceInv'
<1>1. /\ phase = "sort" /\ given' = given /\ walked' = walked /\ chain' = chain /\ parent' = parent
      /\ advice' = advice
  BY DEF Arch!Sort
<1>2. /\ given.steps \in Workflows /\ SortTrue(Size, Links, queue, order, level, remaining)
      /\ ChainTrue(Size, Links, order, walked, chain, parent) /\ walked = 0
  BY <1>1 DEF PlanInv
<1>3. /\ Size \in Nat /\ Arch!Steps = 1..Size
      /\ Links \in [1..Size -> SUBSET (1..Size)]
      /\ \A s \in 1..Size : Arch!Successors(s) = {t \in 1..Size : s \in Links[t]}
  BY <1>2, GraphIs
<1>4. Size' = Size /\ Links' = Links
  BY <1>1, SameGraph
<1>5. CASE queue = <<>>
  <2>1. phase' = "chain" /\ queue' = queue /\ order' = order /\ level' = level /\ remaining' = remaining
    BY <1>5 DEF Arch!Sort
  <2>2. PlanInv'
    BY <1>1, <1>2, <1>4, <1>5, <2>1 DEF PlanInv
  <2>3. QED
    BY <1>1, <2>2 DEF AdviceInv
<1>6. CASE queue # <<>>
  <2> DEFINE s == Head(queue)
  <2>1. /\ order' = Append(order, s)
        /\ level' = [t \in Arch!Steps |-> IF t \in Arch!Successors(s)
                                          THEN Arch!Most({level[t], level[s] + 1}) ELSE level[t]]
        /\ remaining' = [t \in Arch!Steps |-> IF t \in Arch!Successors(s)
                                              THEN remaining[t] - 1 ELSE remaining[t]]
        /\ queue' = Tail(queue) \o Arch!Ascending(Arch!Freed(s))
        /\ phase' = phase
    BY <1>6 DEF Arch!Sort
  <2>2. s \in 1..Size /\ order \in Seq(1..Size)
    <3>1. queue \in Seq(1..Size) /\ Once(queue) /\ order \in Seq(1..Size)
      BY <1>2 DEF SortTrue, Queued, Ordered
    <3>2. QED
      BY <1>6, <3>1, HeadAndTail
  <2> HIDE DEF s
  <2>3. \A t \in 1..Size : t \in Arch!Successors(s) <=> s \in Links[t]
    BY <1>3, <2>2
  <2>4. Arch!Freed(s) = Ready(Size, Links, s, remaining)
    BY <1>3, <2>2 DEF Arch!Freed, Ready
  <2>5. level' = Raised(Size, Links, s, level)
    BY <1>3, <2>1, <2>3 DEF Raised
  <2>6. remaining' = Lessened(Size, Links, s, remaining)
    BY <1>3, <2>1, <2>3 DEF Lessened
  <2>7. SortTrue(Size, Links, queue', order', level', remaining')
    <3> DEFINE a == Arch!Ascending(Ready(Size, Links, s, remaining))
               g == Raised(Size, Links, s, level)
               u == Lessened(Size, Links, s, remaining)
    <3>1. a = Arch!Ascending(Ready(Size, Links, s, remaining)) /\ g = Raised(Size, Links, s, level)
          /\ u = Lessened(Size, Links, s, remaining) /\ s = Head(queue)
      BY DEF s
    <3>2. queue' = Tail(queue) \o a /\ order' = Append(order, s) /\ level' = g /\ remaining' = u
      BY <2>1, <2>4, <2>5, <2>6
    <3> HIDE DEF a, g, u
    <3>3. SortTrue(Size, Links, Tail(queue) \o a, Append(order, s), g, u)
      BY <1>2, <1>3, <1>6, <3>1, SortStep
    <3>4. QED
      BY <3>2, <3>3
  <2>8. ChainTrue(Size, Links, order', walked', chain', parent')
    <3>1. Append(order, s) \in Seq(1..Size)
      BY <2>2
    <3>2. ChainTrue(Size, Links, Append(order, s), 0, chain, parent)
      BY <1>2, <3>1, ChainWaits
    <3>3. QED
      BY <1>1, <1>2, <2>1, <3>2
  <2>9. PlanInv'
    BY <1>1, <1>2, <1>4, <2>1, <2>7, <2>8 DEF PlanInv
  <2>10. QED
    BY <1>1, <2>9 DEF AdviceInv
<1>7. QED
  BY <1>5, <1>6

(* The second loop of analyse_dag.                                         *)
LEMMA AdviceChains == ASSUME PlanInv, given.steps # <<>>, Arch!Chain PROVE AdviceInv'
<1>1. /\ phase = "chain" /\ given' = given /\ queue' = queue /\ order' = order /\ level' = level
      /\ remaining' = remaining /\ advice' = advice
  BY DEF Arch!Chain
<1>2. /\ given.steps \in Workflows /\ SortTrue(Size, Links, queue, order, level, remaining)
      /\ ChainTrue(Size, Links, order, walked, chain, parent) /\ queue = <<>>
  BY <1>1 DEF PlanInv
<1>3. /\ Size \in Nat /\ Arch!Steps = 1..Size
      /\ Links \in [1..Size -> SUBSET (1..Size)]
      /\ \A s \in 1..Size : Arch!Successors(s) = {t \in 1..Size : s \in Links[t]}
  BY <1>2, GraphIs
<1>4. Size' = Size /\ Links' = Links
  BY <1>1, SameGraph
<1>5. CASE walked = Len(order)
  <2>1. phase' = "advise" /\ walked' = walked /\ chain' = chain /\ parent' = parent
    BY <1>5 DEF Arch!Chain
  <2>2. PlanInv'
    BY <1>1, <1>2, <1>4, <1>5, <2>1 DEF PlanInv
  <2>3. QED
    BY <1>1, <2>2 DEF AdviceInv
<1>6. CASE walked # Len(order)
  <2> DEFINE s == order[walked + 1]
             b == {t \in Arch!Successors(s) : chain[s] + 1 > chain[t]}
  <2>1. /\ chain' = [t \in Arch!Steps |-> IF t \in b THEN chain[s] + 1 ELSE chain[t]]
        /\ parent' = [t \in Arch!Steps |-> IF t \in b THEN s ELSE parent[t]]
        /\ walked' = walked + 1 /\ phase' = phase
    BY <1>6 DEF Arch!Chain
  <2>2. Ordered(Size, Links, order)
    BY <1>2 DEF SortTrue
  <2>3. walked < Len(order)
    <3>1. walked \in 0..Len(order) /\ Len(order) \in Nat
      BY <1>2, <2>2 DEF ChainTrue, Ordered
    <3>2. QED
      BY <1>6, <3>1
  <2>4. s \in 1..Size
    <3>1. walked \in 0..Len(order)
      BY <1>2 DEF ChainTrue
    <3>2. QED
      BY <1>3, <2>2, <2>3, <3>1, SeenClosed
  <2>5. b = Stretched(Size, Links, s, chain)
    BY <1>3, <2>4 DEF Stretched
  <2>6. s = order[walked + 1]
    OBVIOUS
  <2> HIDE DEF s, b
  <2> DEFINE g == Lengths(Size, b, s, chain)
             u == LastLinks(Size, b, s, parent)
  <2>7. chain' = g /\ parent' = u
    BY <1>3, <2>1 DEF Lengths, LastLinks
  <2>8. g = Lengths(Size, b, s, chain) /\ u = LastLinks(Size, b, s, parent)
    OBVIOUS
  <2> HIDE DEF g, u
  <2>9. ChainTrue(Size, Links, order, walked + 1, g, u)
    BY <1>2, <1>3, <2>2, <2>3, <2>5, <2>6, <2>8, ChainStep
  <2>10. PlanInv'
    BY <1>1, <1>2, <1>4, <2>1, <2>7, <2>9 DEF PlanInv
  <2>11. QED
    BY <1>1, <2>10 DEF AdviceInv
<1>7. QED
  BY <1>5, <1>6

(* The advice depends on the request and on what the loops have left.      *)
LEMMA SameAdvice ==
  ASSUME given' = given, level' = level, chain' = chain, parent' = parent
  PROVE  Arch!Config(Chosen)' = Arch!Config(Chosen)
<1>1. Arch!Steps' = Arch!Steps
  BY DEF Arch!Steps
<1>2. Arch!Levels' = Arch!Levels
  BY <1>1 DEF Arch!Levels
<1>3. ASSUME NEW n PROVE Arch!Group(n)' = Arch!Group(n)
  BY <1>1 DEF Arch!Group
<1>4. Arch!Width' = Arch!Width
  BY <1>2, <1>3 DEF Arch!Width
<1>5. Arch!End' = Arch!End
  BY <1>1 DEF Arch!End
<1>6. Arch!CriticalPath' = Arch!CriticalPath
  BY <1>1, <1>5 DEF Arch!CriticalPath
<1>7. Arch!AgentsOf' = Arch!AgentsOf /\ Arch!Optional' = Arch!Optional /\ Arch!Timed' = Arch!Timed
  BY <1>1 DEF Arch!AgentsOf, Arch!Optional, Arch!Timed
<1>8. ASSUME NEW s PROVE Arch!Known(s)' = Arch!Known(s) /\ Arch!Successors(s)' = Arch!Successors(s)
  BY <1>1 DEF Arch!Known, Arch!Successors
<1>9. Arch!Branching' = Arch!Branching /\ Arch!FanIn' = Arch!FanIn /\ Arch!Tolerant' = Arch!Tolerant
  BY <1>1, <1>7, <1>8 DEF Arch!Branching, Arch!FanIn, Arch!Tolerant
<1>10. Arch!Denied' = Arch!Denied /\ Arch!Strictness' = Arch!Strictness
  BY <1>7 DEF Arch!Denied, Arch!Strictness
<1>11. Arch!Deterministic' = Arch!Deterministic
  BY <1>4, <1>7, <1>10 DEF Arch!Deterministic
<1>12. Arch!SingleAgent' = Arch!SingleAgent
  BY <1>4, <1>6, <1>7, <1>9, <1>10 DEF Arch!SingleAgent
<1>13. Arch!MultiAgent' = Arch!MultiAgent
  BY <1>4, <1>6, <1>7, <1>9, <1>10 DEF Arch!MultiAgent
<1>14. Chosen' = Chosen
  BY <1>11, <1>12, <1>13 DEF Chosen
<1>15. QED
  BY <1>1, <1>2, <1>3, <1>4, <1>6, <1>7, <1>10, <1>14 DEF Arch!Config

(* The advice on a workflow.                                               *)
LEMMA AdviceAdvises == ASSUME PlanInv, given.steps # <<>>, Arch!Advise PROVE AdviceInv'
<1>1. /\ phase = "advise" /\ given' = given /\ queue' = queue /\ order' = order /\ level' = level
      /\ remaining' = remaining /\ walked' = walked /\ chain' = chain /\ parent' = parent
      /\ phase' = "done" /\ advice' = {Arch!Config(Chosen)}
  BY DEF Arch!Advise, Chosen
<1>2. /\ given.steps \in Workflows /\ SortTrue(Size, Links, queue, order, level, remaining)
      /\ ChainTrue(Size, Links, order, walked, chain, parent) /\ queue = <<>> /\ walked = Len(order)
  BY <1>1 DEF PlanInv
<1>3. Size' = Size /\ Links' = Links /\ Arch!Config(Chosen)' = Arch!Config(Chosen)
  BY <1>1, SameGraph, SameAdvice
<1>4. PlanInv'
  BY <1>1, <1>2, <1>3 DEF PlanInv
<1>5. QED
  BY <1>1, <1>4 DEF AdviceInv

(* The quick classification.                                               *)
LEMMA AdviceClassifies == ASSUME QuickInv, given.steps = <<>>, Arch!Classify PROVE AdviceInv'
<1>1. given' = given /\ phase' = "done" /\ advice' = {[architecture |-> Arch!Quick(given.quick)]}
  BY DEF Arch!Classify
<1>2. given.quick \in Classified
  BY DEF QuickInv
<1>3. Arch!Quick(given.quick)' = Arch!Quick(given.quick)
  BY <1>1
<1>4. QuickInv'
  BY <1>1, <1>2, <1>3 DEF QuickInv
<1>5. QED
  BY <1>1, <1>4 DEF AdviceInv

(* Every step of the selector.                                             *)
LEMMA AdviceNext == ASSUME AdviceInv, [Arch!ANext]_(Arch!archVars) PROVE AdviceInv'
<1>1. CASE given.steps = <<>> /\ Arch!ANext
  <2>1. QuickInv
    BY <1>1 DEF AdviceInv
  <2>2. phase \notin {"sort", "chain", "advise"}
    BY <2>1 DEF QuickInv
  <2>3. Arch!Classify
    BY <1>1, <2>2 DEF Arch!ANext, Arch!Sort, Arch!Chain, Arch!Advise
  <2>4. QED
    BY <1>1, <2>1, <2>3, AdviceClassifies
<1>2. CASE given.steps # <<>> /\ Arch!ANext
  <2>1. PlanInv
    BY <1>2 DEF AdviceInv
  <2>2. ~Arch!Classify
    BY <2>1 DEF PlanInv, Arch!Classify
  <2>3. QED
    BY <1>2, <2>1, <2>2, AdviceSorts, AdviceChains, AdviceAdvises DEF Arch!ANext
<1>3. CASE UNCHANGED Arch!archVars
  <2>1. /\ given' = given /\ phase' = phase /\ queue' = queue /\ order' = order /\ walked' = walked
        /\ level' = level /\ remaining' = remaining /\ chain' = chain /\ parent' = parent /\ advice' = advice
    BY <1>3 DEF Arch!archVars
  <2>2. Size' = Size /\ Links' = Links /\ Arch!Config(Chosen)' = Arch!Config(Chosen)
    BY <2>1, SameGraph, SameAdvice
  <2>3. Arch!Quick(given.quick)' = Arch!Quick(given.quick)
    BY <2>1
  <2>4. QuickInv => QuickInv'
    BY <2>1, <2>3 DEF QuickInv
  <2>5. PlanInv => PlanInv'
    BY <2>1, <2>2 DEF PlanInv
  <2>6. QED
    BY <2>1, <2>4, <2>5 DEF AdviceInv
<1>4. QED
  BY <1>1, <1>2, <1>3

-----------------------------------------------------------------------------
(* The plan: the chains of the reference are the paths of the graph.       *)
LEMMA PathIsChain ==
  ASSUME given.steps \in Workflows, NEW m, NEW c, Path(Size, Links, m, c)
  PROVE  c \in Arch!Chains /\ Len(c) = m
<1>1. /\ Size \in Nat /\ Arch!Steps = 1..Size
      /\ Links \in [1..Size -> SUBSET (1..Size)] /\ \A t \in 1..Size : Arch!Known(t) = Links[t]
  BY GraphIs
<1>2. /\ m \in 1..Size /\ c \in [1..m -> 1..Size]
      /\ \A i, j \in 1..m : i # j => c[i] # c[j]
      /\ \A i \in 2..m : c[i - 1] \in Links[c[i]]
  BY DEF Path
<1>3. m \in Nat /\ Len(c) = m /\ DOMAIN c = 1..m
  BY <1>1, <1>2
<1>4. \A i \in 2..m : c[i] \in 1..Size /\ Arch!Known(c[i]) = Links[c[i]]
  BY <1>1, <1>2
<1>5. c \in UNION {[1..n -> Arch!Steps] : n \in 1..Len(given.steps)}
  BY <1>1, <1>2 DEF Size
<1>6. (\A i, j \in DOMAIN c : i # j => c[i] # c[j]) /\ \A i \in 2..Len(c) : c[i - 1] \in Arch!Known(c[i])
  BY <1>2, <1>3, <1>4 DEF HeldUp
<1>7. QED
  BY <1>3, <1>5, <1>6 DEF Arch!Chains

(* ... and the other way round.                                            *)
LEMMA ChainIsPath ==
  ASSUME given.steps \in Workflows, NEW c \in Arch!Chains
  PROVE  /\ Path(Size, Links, Len(c), c) /\ Len(c) \in 1..Size
         /\ c[1] \in 1..Size /\ c[Len(c)] \in 1..Size
<1>1. /\ Size \in Nat /\ Arch!Steps = 1..Size
      /\ Links \in [1..Size -> SUBSET (1..Size)] /\ \A t \in 1..Size : Arch!Known(t) = Links[t]
  BY GraphIs
<1>2. /\ c \in UNION {[1..n -> 1..Size] : n \in 1..Size}
      /\ \A i, j \in DOMAIN c : i # j => c[i] # c[j]
      /\ \A i \in 2..Len(c) : c[i - 1] \in Arch!Known(c[i])
  BY <1>1 DEF Arch!Chains, Size
<1>3. PICK m \in 1..Size : c \in [1..m -> 1..Size]
  BY <1>2
<1>4. m \in Nat /\ Len(c) = m /\ DOMAIN c = 1..m
  BY <1>1, <1>3
<1>5. \A i \in 2..m : c[i] \in 1..Size /\ Arch!Known(c[i]) = Links[c[i]]
  BY <1>1, <1>3
<1>6. Path(Size, Links, m, c)
  BY <1>2, <1>3, <1>4, <1>5 DEF Path
<1>7. 1 \in 1..m /\ m \in 1..m
  BY <1>1, <1>3
<1>8. QED
  BY <1>3, <1>4, <1>6, <1>7

(* The steps that wait for a cycle are those that one holds up.            *)
LEMMA StuckIs ==
  ASSUME given.steps \in Workflows, NEW s \in 1..Size
  PROVE  s \in Arch!Stuck <=> HeldUp(Size, Links, s)
<1>1. Arch!Steps = 1..Size /\ \A t \in 1..Size : Arch!Known(t) = Links[t]
  BY GraphIs
<1> DEFINE cyclic == {e[1] : e \in {d \in Arch!Chains : d[Len(d)] \in Arch!Known(d[1])}}
<1>2. s \in Arch!Stuck <=> \E c \in Arch!Chains : c[Len(c)] = s /\ c[1] \in cyclic
  BY <1>1 DEF Arch!Stuck, Arch!ChainsTo
<1>3. ASSUME NEW c \in Arch!Chains, c[Len(c)] = s, c[1] \in cyclic
      PROVE  HeldUp(Size, Links, s)
  <2>1. PICK e \in Arch!Chains : e[Len(e)] \in Arch!Known(e[1]) /\ e[1] = c[1]
    BY <1>3
  <2>2. Path(Size, Links, Len(c), c)
    BY ChainIsPath
  <2>3. Path(Size, Links, Len(e), e) /\ e[1] \in 1..Size
    BY ChainIsPath
  <2>4. e[Len(e)] \in Links[e[1]]
    BY <1>1, <2>1, <2>3
  <2>5. QED
    BY <1>3, <2>1, <2>2, <2>3, <2>4 DEF HeldUp
<1>4. ASSUME NEW m, NEW c, Path(Size, Links, m, c), c[m] = s,
             NEW k, NEW e, Path(Size, Links, k, e), e[1] = c[1], e[k] \in Links[e[1]]
      PROVE  c \in Arch!Chains /\ c[Len(c)] = s /\ c[1] \in cyclic
  <2>1. c \in Arch!Chains /\ Len(c) = m
    BY <1>4, PathIsChain
  <2>2. e \in Arch!Chains /\ Len(e) = k
    BY <1>4, PathIsChain
  <2>3. e[1] \in 1..Size
    BY <2>2, ChainIsPath
  <2>4. e[Len(e)] \in Arch!Known(e[1])
    BY <1>1, <1>4, <2>2, <2>3
  <2>5. QED
    BY <1>4, <2>1, <2>2, <2>4
<1> HIDE DEF cyclic
<1>5. QED
  BY <1>2, <1>3, <1>4 DEF HeldUp

(* What is sorted is what no cycle holds up.                               *)
LEMMA SortedIs ==
  ASSUME PlanInv, queue = <<>>
  PROVE  Of(order) = Arch!Steps \ Arch!Stuck
<1> DEFINE n == Size
           K == Links
           D == Of(order)
<1>1. given.steps \in Workflows /\ SortTrue(n, K, queue, order, level, remaining)
  BY DEF PlanInv
<1>2. n \in Nat /\ Arch!Steps = 1..n /\ K \in [1..n -> SUBSET (1..n)]
  BY <1>1, GraphIs
<1>3. D \in SUBSET (1..n) /\ \A t \in D : K[t] \subseteq D
  BY <1>1, <1>2, SortedClosed DEF SortTrue
<1>4. \A t \in 1..n : t \in D <=> K[t] \subseteq D
  <2>1. \A t \in 1..n : t \in Of(queue) \cup D <=> K[t] \subseteq D
    BY <1>1 DEF SortTrue, Queued
  <2>2. Of(queue) = {}
    BY DEF Of
  <2>3. QED
    BY <2>1, <2>2
<1>5. level \in [1..n -> Nat] /\ \A t \in D : \A d \in K[t] : level[d] < level[t]
  <2>1. level \in [1..n -> Nat] /\ \A t \in 1..n : \A d \in K[t] \cap D : level[d] + 1 <= level[t]
    BY <1>1 DEF SortTrue, Levelled
  <2>2. ASSUME NEW t \in D, NEW d \in K[t] PROVE level[d] < level[t]
    <3>1. d \in D /\ d \in 1..n /\ t \in 1..n
      BY <1>3
    <3>2. level[d] + 1 <= level[t] /\ level[d] \in Nat /\ level[t] \in Nat
      BY <2>1, <3>1
    <3>3. QED
      BY <3>2
  <2>3. QED
    BY <2>1, <2>2
<1> HIDE DEF n, K, D
<1>6. ASSUME NEW s \in D, NEW m, NEW c, Path(n, K, m, c), c[m] = s,
             NEW k, NEW e, Path(n, K, k, e), e[1] = c[1], e[k] \in K[e[1]]
      PROVE  FALSE
  <2>1. \A t \in D : K[t] \subseteq D /\ \A d \in K[t] : level[d] < level[t]
    BY <1>3, <1>5
  <2>2. c[m] \in D
    BY <1>6
  <2>3. QED
    BY <1>2, <1>3, <1>5, <1>6, <2>1, <2>2, NoCycle
<1>7. ASSUME NEW s \in 1..n, s \notin D
      PROVE  HeldUp(n, K, s)
  <2> DEFINE U == (1..n) \ D
  <2>1. U \in SUBSET (1..n) /\ s \in U
    BY <1>7
  <2>2. \A t \in U : \E d \in K[t] : d \in U
    <3>1. ASSUME NEW t \in U PROVE \E d \in K[t] : d \in U
      <4>1. PICK d \in K[t] : d \notin D
        BY <1>4
      <4>2. d \in 1..n
        BY <1>2
      <4>3. QED
        BY <4>1, <4>2
    <3>2. QED
      BY <3>1
  <2> HIDE DEF U
  <2>3. QED
    BY <1>2, <2>1, <2>2, Cycle
<1>8. \A s \in 1..n : s \in Arch!Stuck <=> HeldUp(n, K, s)
  BY <1>1, StuckIs DEF n, K
<1>9. \A s \in 1..n : s \in D <=> s \notin Arch!Stuck
  BY <1>6, <1>7, <1>8 DEF HeldUp
<1>10. QED
  BY <1>2, <1>3, <1>9 DEF D

(* Without a cycle, levels and chains are heights.                         *)
LEMMA Heights ==
  ASSUME PlanInv, queue = <<>>, walked = Len(order), Arch!Stuck = {}
  PROVE  /\ Height(Size, Links, chain) /\ Climbs(Size, Links, chain, parent)
         /\ level \in [1..Size -> Nat] /\ \A t \in 1..Size : level[t] + 1 = chain[t]
<1> DEFINE n == Size
           K == Links
           f == [t \in 1..n |-> level[t] + 1]
<1>1. /\ given.steps \in Workflows /\ SortTrue(n, K, queue, order, level, remaining)
      /\ ChainTrue(n, K, order, walked, chain, parent)
  BY DEF PlanInv
<1>2. n \in Nat /\ Arch!Steps = 1..n /\ K \in [1..n -> SUBSET (1..n)]
  BY <1>1, GraphIs
<1>3. Of(order) = 1..n
  BY <1>2, SortedIs
<1>4. Seen(order, walked) = 1..n
  <2>1. order \in Seq(1..n)
    BY <1>1 DEF SortTrue, Ordered
  <2>2. DOMAIN order = 1..Len(order)
    BY <2>1
  <2>3. QED
    BY <1>3, <2>2 DEF Seen, Of
<1>5. ASSUME NEW t \in 1..n PROVE K[t] \cap (1..n) = K[t]
  BY <1>2
<1>6. /\ chain \in [1..n -> Nat] /\ parent \in [1..n -> 0..n]
      /\ \A t \in 1..n : /\ chain[t] >= 1
                         /\ \A d \in K[t] : chain[d] + 1 <= chain[t]
                         /\ \/ parent[t] = 0 /\ chain[t] = 1
                            \/ parent[t] \in K[t] /\ chain[t] = chain[parent[t]] + 1
  BY <1>1, <1>4, <1>5 DEF ChainTrue
<1>7. Height(n, K, chain) /\ Climbs(n, K, chain, parent)
  BY <1>6 DEF Height, Climbs
<1>8. /\ level \in [1..n -> Nat]
      /\ \A t \in 1..n : /\ \A d \in K[t] : level[d] + 1 <= level[t]
                         /\ level[t] = 0 \/ \E d \in K[t] : level[t] = level[d] + 1
  BY <1>1, <1>3, <1>5 DEF SortTrue, Levelled
<1>9. Height(n, K, f)
  <2>1. f \in [1..n -> Nat] /\ \A t \in 1..n : f[t] = level[t] + 1
    BY <1>8
  <2> HIDE DEF f
  <2>2. ASSUME NEW t \in 1..n
        PROVE  /\ f[t] >= 1 /\ \A d \in K[t] : f[d] + 1 <= f[t]
               /\ f[t] = 1 \/ \E d \in K[t] : f[t] = f[d] + 1
    <3>1. \A d \in K[t] : d \in 1..n
      BY <1>2
    <3>2. level[t] \in Nat /\ f[t] = level[t] + 1
      BY <1>8, <2>1
    <3>3. ASSUME NEW d \in K[t] PROVE f[d] = level[d] + 1 /\ level[d] \in Nat /\ level[d] + 1 <= level[t]
      BY <1>8, <2>1, <3>1
    <3>4. level[t] = 0 \/ \E d \in K[t] : level[t] = level[d] + 1
      BY <1>8
    <3>5. \A d \in K[t] : f[d] + 1 <= f[t]
      BY <3>2, <3>3
    <3>6. f[t] = 1 \/ \E d \in K[t] : f[t] = f[d] + 1
      BY <3>2, <3>3, <3>4
    <3>7. QED
      BY <3>2, <3>5, <3>6
  <2>3. QED
    BY <2>1, <2>2 DEF Height
<1>10. f = chain
  <2> HIDE DEF f
  <2>1. QED
    BY <1>2, <1>7, <1>9, OneHeight
<1>11. \A t \in 1..n : level[t] + 1 = chain[t]
  BY <1>10
<1>12. QED
  BY <1>7, <1>8, <1>11

(* The most of some numbers is the one that none exceeds.                  *)
LEMMA MostIs ==
  ASSUME NEW S \in SUBSET Nat, NEW x \in S, \A y \in S : y <= x
  PROVE  Arch!Most(S) = x
<1>1. \E n \in S : \A o \in S : n >= o
  <2>1. \A o \in S : x >= o
    OBVIOUS
  <2>2. QED
    BY <2>1
<1>2. Arch!Most(S) \in S /\ \A o \in S : Arch!Most(S) >= o
  BY <1>1 DEF Arch!Most
<1> DEFINE m == Arch!Most(S)
<1> HIDE DEF m
<1>3. m \in Nat /\ x \in Nat /\ m >= x /\ m <= x
  BY <1>2 DEF m
<1>4. QED
  BY <1>3 DEF m

(* The longest chain ends where the critical path does.                    *)
LEMMA EndIs ==
  ASSUME NEW n \in Nat, n >= 1, Arch!Steps = 1..n, chain \in [1..n -> Nat]
  PROVE  Arch!End \in 1..n /\ \A t \in 1..n : chain[t] <= chain[Arch!End]
<1> DEFINE S == {s \in 1..n : \A t \in 1..n : chain[s] >= chain[t]}
<1>1. PICK i \in 1..n : \A j \in 1..n : chain[j] <= chain[i]
  BY Highest
<1>2. \A j \in 1..n : chain[i] >= chain[j]
  BY <1>1
<1>3. i \in S /\ S \in SUBSET (1..n)
  BY <1>2
<1>4. Arch!End = Arch!Most(S)
  BY DEF Arch!End
<1> DEFINE m == Arch!Most(S)
<1>5. m \in S
  <2> HIDE DEF S
  <2>1. PICK k \in S : \A j \in S : j <= k
    BY <1>3, Greatest
  <2>2. S \in SUBSET Nat
    BY <1>3
  <2>3. QED
    BY <2>1, <2>2, MostIs
<1>6. m \in 1..n /\ \A t \in 1..n : chain[m] >= chain[t]
  <2> HIDE DEF m
  <2>1. QED
    BY <1>5
<1> HIDE DEF m
<1>7. \A t \in 1..n : chain[t] <= chain[m]
  BY <1>6
<1>8. QED
  BY <1>4, <1>6, <1>7 DEF m

(* The critical path is one, and as long as the longest chain.             *)
LEMMA CriticalIs ==
  ASSUME NEW n \in Nat, NEW K \in [1..n -> SUBSET (1..n)], Arch!Steps = 1..n,
         Height(n, K, chain), Climbs(n, K, chain, parent), Arch!End \in 1..n
  PROVE  Path(n, K, chain[Arch!End], Arch!CriticalPath)
<1> DEFINE g == CHOOSE g : g = [s \in Arch!Steps |-> IF parent[s] = 0 THEN <<s>> ELSE Append(g[parent[s]], s)]
<1>1. Arch!CriticalPath = g[Arch!End]
  BY DEF Arch!CriticalPath
<1>2. \E h : Follows(n, parent, h)
  BY WayDown
<1>3. \E h : h = [s \in Arch!Steps |-> IF parent[s] = 0 THEN <<s>> ELSE Append(h[parent[s]], s)]
  BY <1>2 DEF Follows
<1>4. g = [s \in Arch!Steps |-> IF parent[s] = 0 THEN <<s>> ELSE Append(g[parent[s]], s)]
  BY <1>3
<1> HIDE DEF g
<1>5. Follows(n, parent, g)
  BY <1>4 DEF Follows
<1>6. QED
  BY <1>1, <1>5, DownPath

(* The levels are counted from 0 to that of the end.                       *)
LEMMA TopLevel ==
  ASSUME NEW n \in Nat, Arch!Steps = 1..n, level \in [1..n -> Nat], NEW s \in 1..n,
         \A t \in 1..n : level[t] <= level[s]
  PROVE  Arch!Most(Arch!Levels) = level[s]
<1> DEFINE S == {level[t] : t \in 1..n}
           x == level[s]
<1>1. S = Arch!Levels
  BY DEF Arch!Levels
<1>2. S \in SUBSET Nat /\ x \in S /\ \A y \in S : y <= x
  OBVIOUS
<1> HIDE DEF S, x
<1>3. Arch!Most(S) = x
  BY <1>2, MostIs
<1>4. QED
  BY <1>1, <1>3 DEF x

(* The plan that is advised is sound.                                      *)
LEMMA PlanIs ==
  ASSUME PlanInv, phase = "done", NEW arch
  PROVE  Arch!PlanSound(Arch!Config(arch))
<1> DEFINE n == Size
           K == Links
           a == Arch!Config(arch)
           z == Arch!CriticalPath
<1>1. given.steps \in Workflows /\ queue = <<>> /\ walked = Len(order)
  BY DEF PlanInv
<1>2. /\ n \in Nat /\ n >= 1 /\ Arch!Steps = 1..n /\ K \in [1..n -> SUBSET (1..n)]
  BY <1>1, GraphIs
<1>3. Arch!ToSet(order) = Arch!Steps \ Arch!Stuck
  BY <1>1, SortedIs DEF Arch!ToSet, Of
<1>4. a.critical_path = z /\ a.groups = [i \in 1..(Arch!Most(Arch!Levels) + 1) |-> Arch!Group(i - 1)]
  BY DEF Arch!Config
<1> HIDE DEF a, z
<1>5. ASSUME Arch!Stuck = {}
      PROVE  /\ \A s \in 1..n : level[s] = Arch!Most({Len(c) : c \in Arch!ChainsTo(s)}) - 1
             /\ z \in Arch!Chains /\ Len(z) = Len(a.groups)
             /\ \A c \in Arch!Chains : Len(c) <= Len(z)
  <2>1. /\ Height(n, K, chain) /\ Climbs(n, K, chain, parent)
        /\ level \in [1..n -> Nat] /\ \A t \in 1..n : level[t] + 1 = chain[t]
    BY <1>1, <1>5, Heights
  <2>2. chain \in [1..n -> Nat]
    BY <2>1 DEF Height
  <2> DEFINE x == Arch!End
  <2>3. x \in 1..n /\ \A t \in 1..n : chain[t] <= chain[x]
    BY <1>2, <2>2, EndIs
  <2>4. Path(n, K, chain[x], z)
    BY <1>2, <2>1, <2>3, CriticalIs DEF z
  <2>5. z \in Arch!Chains /\ Len(z) = chain[x]
    BY <1>1, <2>4, PathIsChain
  <2> HIDE DEF x
  <2>6. ASSUME NEW c \in Arch!Chains
        PROVE  c[Len(c)] \in 1..n /\ Len(c) \in Nat /\ Len(c) <= chain[c[Len(c)]]
    <3> DEFINE m == Len(c)
    <3>1. Path(n, K, m, c) /\ m \in 1..n /\ c[m] \in 1..n
      BY <1>1, ChainIsPath
    <3>2. m \in 1..m /\ m \in Nat
      BY <3>1
    <3> HIDE DEF m, n, K
    <3>3. m <= chain[c[m]]
      BY <1>2, <2>1, <3>1, <3>2, PathRises
    <3>4. QED
      BY <3>1, <3>2, <3>3 DEF m
  <2>7. ASSUME NEW c \in Arch!Chains PROVE Len(c) <= Len(z)
    <3>1. Len(c) \in Nat /\ Len(c) <= chain[c[Len(c)]] /\ c[Len(c)] \in 1..n
      BY <2>6
    <3>2. chain[c[Len(c)]] <= chain[x] /\ chain[x] \in Nat /\ chain[c[Len(c)]] \in Nat
      BY <2>2, <2>3, <3>1
    <3>3. QED
      BY <2>5, <3>1, <3>2
  <2>8. Len(z) = Len(a.groups)
    <3>1. \A t \in 1..n : level[t] <= level[x] /\ level[x] \in Nat
      BY <2>1, <2>2, <2>3
    <3>2. Arch!Most(Arch!Levels) = level[x]
      BY <1>2, <2>1, <2>3, <3>1, TopLevel
    <3>3. level[x] + 1 \in Nat /\ level[x] + 1 = chain[x]
      BY <2>1, <2>3, <3>1
    <3>4. Len(a.groups) = level[x] + 1
      BY <1>4, <3>2, <3>3
    <3>5. QED
      BY <2>5, <3>3, <3>4
  <2>9. ASSUME NEW s \in 1..n PROVE level[s] = Arch!Most({Len(c) : c \in Arch!ChainsTo(s)}) - 1
    <3> DEFINE S == {Len(c) : c \in Arch!ChainsTo(s)}
               y == chain[s]
    <3>1. PICK c : Path(n, K, y, c) /\ c[y] = s
      <4>1. Reached(n, K, chain[s], s)
        <5> HIDE DEF S, n, K
        <5>1. QED
          BY <1>2, <2>1, PathTo
      <4>2. QED
        BY <4>1 DEF Reached
    <3>2. c \in Arch!Chains /\ Len(c) = y
      BY <1>1, <3>1, PathIsChain
    <3>3. y \in S
      BY <3>1, <3>2 DEF Arch!ChainsTo
    <3>4. ASSUME NEW e \in Arch!ChainsTo(s) PROVE Len(e) \in Nat /\ Len(e) <= y
      <4>1. e \in Arch!Chains /\ e[Len(e)] = s
        BY DEF Arch!ChainsTo
      <4>2. QED
        BY <2>6, <4>1
    <3>5. S \in SUBSET Nat /\ \A k \in S : k <= y
      BY <3>4
    <3> HIDE DEF S, y
    <3>6. Arch!Most(S) = y
      BY <3>3, <3>5, MostIs
    <3>7. level[s] \in Nat /\ level[s] + 1 = y
      BY <2>1 DEF y
    <3>8. QED
      BY <3>6, <3>7 DEF S
  <2>10. QED
    BY <2>5, <2>7, <2>8, <2>9
<1>6. QED
  BY <1>2, <1>3, <1>4, <1>5 DEF Arch!PlanSound, a

-----------------------------------------------------------------------------
(* The points: the width of a plan, and what decides between two of them.  *)
LEMMA WidthIs ==
  ASSUME NEW n \in Nat, n >= 1, Arch!Steps = 1..n, level \in [1..n -> Nat]
  PROVE  /\ Arch!Width \in Nat
         /\ n = 1 /\ level[1] = 0 => Arch!Width = 1
<1>1. PICK s \in 1..n : \A t \in 1..n : level[t] <= level[s]
  BY Highest
<1> DEFINE x == level[s]
           W == [i \in 1..(x + 1) |-> Cardinality(Arch!Group(i - 1))]
           S == {W[i] : i \in 1..(x + 1)}
<1>2. x \in Nat /\ Arch!Most(Arch!Levels) = x
  BY <1>1, TopLevel
<1> HIDE DEF x
<1>3. ASSUME NEW i PROVE Arch!Group(i) \in SUBSET (1..n)
  BY DEF Arch!Group
<1>4. \A i : Cardinality(Arch!Group(i)) \in Nat
  BY <1>3, FewLinks
<1>5. W \in [1..(x + 1) -> Nat] /\ x + 1 \in Nat /\ x + 1 >= 1
  BY <1>2, <1>4
<1>6. Arch!Width = Arch!Most(S)
  <2>1. Arch!Width = Arch!Most({Cardinality(Arch!Group(i)) : i \in 0..x})
    BY <1>2, SameCardinality DEF Arch!Width
  <2>2. \A i \in 0..x : i + 1 \in 1..(x + 1) /\ Cardinality(Arch!Group(i)) = W[i + 1]
    BY <1>2
  <2>3. \A i \in 1..(x + 1) : i - 1 \in 0..x /\ W[i] = Cardinality(Arch!Group(i - 1))
    BY <1>2
  <2> HIDE DEF W
  <2>4. {Cardinality(Arch!Group(i)) : i \in 0..x} = S
    BY <2>2, <2>3
  <2>5. QED
    BY <2>1, <2>4
<1> HIDE DEF W
<1>7. PICK i \in 1..(x + 1) : \A j \in 1..(x + 1) : W[j] <= W[i]
  BY <1>5, Highest
<1>8. S \in SUBSET Nat /\ W[i] \in S /\ \A y \in S : y <= W[i]
  BY <1>5, <1>7
<1> HIDE DEF S
<1>9. Arch!Width = W[i] /\ Arch!Width \in Nat
  BY <1>5, <1>6, <1>7, <1>8, MostIs
<1>10. ASSUME n = 1, level[1] = 0 PROVE Arch!Width = 1
  <2>1. s = 1 /\ x = 0 /\ i = 1
    BY <1>7, <1>10 DEF x
  <2>2. Arch!Group(0) = {1}
    BY <1>10 DEF Arch!Group
  <2>3. W[1] = Cardinality(Arch!Group(0))
    BY <2>1 DEF W
  <2>4. Cardinality({1}) = 1
    BY FS_Singleton
  <2>5. QED
    BY <1>9, <2>1, <2>2, <2>3, <2>4
<1>11. QED
  BY <1>9, <1>10

(* The measures of a workflow of one step.                                 *)
LEMMA OneStep ==
  ASSUME PlanInv, Size = 1
  PROVE  /\ Arch!Cardinality(Arch!AgentsOf) = 1 /\ Arch!Width = 1 /\ ~Arch!Branching
<1>1. /\ given.steps \in Workflows /\ SortTrue(Size, Links, queue, order, level, remaining)
  BY DEF PlanInv
<1>2. /\ Arch!Steps = 1..1 /\ Links \in [1..1 -> SUBSET (1..1)]
      /\ Arch!Successors(1) = {t \in 1..1 : 1 \in Links[t]}
  BY <1>1, GraphIs
<1>3. level \in [1..1 -> Nat] /\ level[1] = 0
  <2>1. /\ level \in [1..1 -> Nat]
        /\ level[1] = 0 \/ \E d \in Links[1] \cap Of(order) : level[1] = level[d] + 1
    BY <1>1 DEF SortTrue, Levelled
  <2>2. \A d \in Links[1] : d = 1
    BY <1>2
  <2>3. level[1] \in Nat
    BY <2>1
  <2>4. level[1] # level[1] + 1
    BY <2>3
  <2>5. QED
    BY <2>1, <2>2, <2>4
<1>4. Arch!Width = 1
  BY <1>2, <1>3, WidthIs
<1>5. Arch!Cardinality(Arch!AgentsOf) = 1
  <2> DEFINE g == given.steps[1].agent
  <2>1. Arch!AgentsOf = {g}
    BY <1>2 DEF Arch!AgentsOf
  <2>2. Cardinality({g}) = 1
    BY FS_Singleton
  <2>3. QED
    BY <2>1, <2>2, SameCardinality
<1>6. ~Arch!Branching
  <2>1. Arch!Successors(1) = {} \/ Arch!Successors(1) = {1}
    BY <1>2
  <2>2. Cardinality({}) = 0 /\ Cardinality({1}) = 1
    BY FS_EmptySet, FS_Singleton
  <2>3. Arch!Cardinality(Arch!Successors(1)) = 0 \/ Arch!Cardinality(Arch!Successors(1)) = 1
    BY <2>1, <2>2, SameCardinality
  <2>4. \A s \in Arch!Steps : s = 1
    BY <1>2
  <2>5. QED
    BY <2>3, <2>4 DEF Arch!Branching
<1>7. QED
  BY <1>4, <1>5, <1>6

(* Strictness is counted in whole twentieths.                              *)
LEMMA StrictnessIs == Arch!Strictness \in Nat
  BY DEF Arch!Strictness

(* A single step leaves nothing to decide.                                 *)
LEMMA SingleStep ==
  ASSUME PlanInv, Size = 1
  PROVE  Chosen = "deterministic"
<1>1. Len(given.steps) = 1 /\ Arch!Cardinality(Arch!AgentsOf) = 1 /\ Arch!Width = 1 /\ ~Arch!Branching
  BY OneStep DEF Size
<1>2. Arch!Deterministic \in Nat /\ Arch!Deterministic >= 750
  <2>1. \A k \in Nat : 6 * k \in Nat
    OBVIOUS
  <2> DEFINE x == 6 * Arch!Strictness
  <2>2. x \in Nat
    BY <2>1, StrictnessIs
  <2> HIDE DEF x
  <2>3. Arch!Deterministic = Arch!Capped(450 + 150 + 150
          + Arch!Points(Arch!Optional = {}, 100) + Arch!Points(Arch!Timed # {}, 80) + x
          + Arch!Points(Arch!Denied # {}, 200))
    BY <1>1 DEF Arch!Deterministic, Arch!Points, x
  <2>4. QED
    BY <2>2, <2>3 DEF Arch!Points, Arch!Capped
<1>3. Arch!SingleAgent \in Nat /\ Arch!SingleAgent <= 720
  BY <1>1 DEF Arch!SingleAgent, Arch!Points, Arch!Capped
<1>4. Arch!MultiAgent \in Nat /\ Arch!MultiAgent <= 200
  BY <1>1 DEF Arch!MultiAgent, Arch!Points, Arch!Capped
<1>5. QED
  BY <1>2, <1>3, <1>4 DEF Chosen, Arch!Winner

(* What an architecture of several agents needs when one may not run.      *)
LEMMA SeveralAgents ==
  ASSUME PlanInv, Arch!Denied # {}, Chosen = "multi_agent"
  PROVE  /\ Arch!Optional # {} /\ Arch!Timed = {}
         /\ Arch!Cardinality(Arch!AgentsOf) >= 2 /\ Arch!Width >= 2
<1>1. Arch!Width \in Nat
  <2>1. given.steps \in Workflows /\ level \in [1..Size -> Nat]
    BY DEF PlanInv, SortTrue, Levelled
  <2>2. Size \in Nat /\ Size >= 1 /\ Arch!Steps = 1..Size
    BY <2>1, GraphIs
  <2>3. QED
    BY <2>1, <2>2, WidthIs
<1>2. Arch!Cardinality(Arch!AgentsOf) \in Nat
  <2>1. Size \in Nat /\ Arch!Steps = 1..Size
    BY GraphIs DEF PlanInv
  <2> DEFINE A == Arch!AgentsOf
             S == 1..Size
             f == [s \in S |-> given.steps[s].agent]
  <2>2. f \in Surjection(S, A)
    BY <2>1 DEF Arch!AgentsOf, Surjection
  <2>3. IsFiniteSet(S)
    BY <2>1, FS_Interval
  <2> HIDE DEF f, S, A
  <2>4. IsFiniteSet(A)
    BY <2>2, <2>3, FS_Surjection
  <2>5. QED
    BY <2>4, FS_CardinalityType, SameCardinality DEF A
<1>3. /\ Arch!Deterministic \in Nat /\ Arch!Deterministic >= 200
      /\ Arch!Optional = {} => Arch!Deterministic >= 300
      /\ Arch!Timed # {} => Arch!Deterministic >= 280
  <2>1. \A k \in Nat : 6 * k \in Nat
    OBVIOUS
  <2> DEFINE x == 6 * Arch!Strictness
  <2>2. x \in Nat
    BY <2>1, StrictnessIs
  <2> HIDE DEF x
  <2>3. Arch!Deterministic = Arch!Capped(
          Arch!Points(Len(given.steps) = 1, 450) + Arch!Points(Arch!Cardinality(Arch!AgentsOf) = 1, 150)
          + Arch!Points(Arch!Width = 1, 150)
          + Arch!Points(Arch!Optional = {}, 100) + Arch!Points(Arch!Timed # {}, 80) + x
          + Arch!Points(Arch!Denied # {}, 200))
    BY DEF Arch!Deterministic, x
  <2>4. QED
    BY <2>2, <2>3 DEF Arch!Points, Arch!Capped
<1>4. /\ Arch!MultiAgent \in Nat /\ Arch!MultiAgent <= 270
      /\ Arch!Cardinality(Arch!AgentsOf) < 2 => Arch!MultiAgent <= 180
      /\ Arch!Width < 2 => Arch!MultiAgent <= 190
  BY <1>1, <1>2 DEF Arch!MultiAgent, Arch!Points, Arch!Capped
<1>5. Arch!SingleAgent \in Nat
  BY DEF Arch!SingleAgent, Arch!Points, Arch!Capped
<1>6. Arch!Deterministic < Arch!MultiAgent
  BY <1>3, <1>4, <1>5 DEF Chosen, Arch!Winner
<1>7. QED
  BY <1>1, <1>2, <1>3, <1>4, <1>6

(* A quick classification, and the same when governance is strict.         *)
LEMMA QuickIs ==
  ASSUME NEW q \in Classified
  PROVE  /\ Arch!Quick(q) = "deterministic" => Arch!Quick([q EXCEPT !.strict = TRUE]) = "deterministic"
         /\ Arch!Quick(q) = "multi_agent" => q.tools >= 3 \/ q.branches >= 2
<1>1. q \in [tools : Nat, branches : Nat, tolerance : Nat, strict : BOOLEAN]
  BY StoresAssumption
<1> DEFINE r == [q EXCEPT !.strict = TRUE]
<1>2. /\ q.tools \in Nat /\ q.branches \in Nat /\ q.tolerance \in Nat /\ q.strict \in BOOLEAN
      /\ r.tools = q.tools /\ r.branches = q.branches /\ r.tolerance = q.tolerance /\ r.strict = TRUE
  BY <1>1
<1> HIDE DEF r
<1>3. Arch!Quick(q) = "deterministic" => Arch!Quick(r) = "deterministic"
  BY <1>2 DEF Arch!Quick, Arch!Points, Arch!Winner
<1>4. Arch!Quick(q) = "multi_agent" => q.tools >= 3 \/ q.branches >= 2
  BY <1>2 DEF Arch!Quick, Arch!Points, Arch!Winner
<1>5. QED
  BY <1>3, <1>4 DEF r

(* A step of a node whose part is the advice is one of ArchSelector.       *)
LEMMA AdviceSteps ==
  ASSUME [Next]_vars, part = "advice"
  PROVE  part' = part /\ [Arch!ANext]_(Arch!archVars)
<1>1. CASE Next
  BY <1>1 DEF Next
<1>2. CASE UNCHANGED vars
  BY <1>2 DEF vars, adviceVars, Arch!archVars
<1>3. QED
  BY <1>1, <1>2

(* The advice that was given is sound.                                     *)
LEMMA AdviceIs == ASSUME AdviceInv PROVE Arch!AdviceSound
<1> SUFFICES ASSUME phase = "done", NEW a \in advice
             PROVE  IF given.steps = <<>>
                    THEN /\ a.architecture = "deterministic" =>
                              Arch!Quick([given.quick EXCEPT !.strict = TRUE]) = "deterministic"
                         /\ a.architecture = "multi_agent" =>
                              given.quick.tools >= 3 \/ given.quick.branches >= 2
                    ELSE /\ Arch!PlanSound(a)
                         /\ Len(given.steps) = 1 => a.architecture = "deterministic"
                         /\ Arch!Denied # {} /\ a.architecture = "multi_agent" =>
                              /\ Arch!Optional # {} /\ Arch!Timed = {}
                              /\ Arch!Cardinality(Arch!AgentsOf) >= 2 /\ a.max_concurrency >= 2
  BY DEF Arch!AdviceSound
<1>1. CASE given.steps = <<>>
  <2>1. given.quick \in Classified /\ a = [architecture |-> Arch!Quick(given.quick)]
    BY <1>1 DEF AdviceInv, QuickInv
  <2>2. a.architecture = Arch!Quick(given.quick)
    BY <2>1
  <2>3. QED
    BY <1>1, <2>1, <2>2, QuickIs
<1>2. CASE given.steps # <<>>
  <2>1. PlanInv /\ a = Arch!Config(Chosen)
    BY <1>2 DEF AdviceInv, PlanInv
  <2>2. Arch!PlanSound(a)
    BY <2>1, PlanIs
  <2>3. /\ a.architecture = Chosen
        /\ a.max_concurrency = IF Chosen # "multi_agent" THEN 1 ELSE IF Arch!Width < 8 THEN Arch!Width ELSE 8
    BY <2>1 DEF Arch!Config
  <2>4. Len(given.steps) = 1 => a.architecture = "deterministic"
    BY <2>1, <2>3, SingleStep DEF Size
  <2>5. ASSUME Arch!Denied # {}, a.architecture = "multi_agent"
        PROVE  /\ Arch!Optional # {} /\ Arch!Timed = {}
               /\ Arch!Cardinality(Arch!AgentsOf) >= 2 /\ a.max_concurrency >= 2
    <3>1. /\ Arch!Optional # {} /\ Arch!Timed = {}
          /\ Arch!Cardinality(Arch!AgentsOf) >= 2 /\ Arch!Width >= 2
      BY <2>1, <2>3, <2>5, SeveralAgents
    <3>2. a.max_concurrency = IF Arch!Width < 8 THEN Arch!Width ELSE 8
      BY <2>3, <2>5
    <3>3. QED
      BY <3>1, <3>2
  <2>6. QED
    BY <1>2, <2>2, <2>4, <2>5
<1>3. QED
  BY <1>1, <1>2

(* select, analyse_dag and quick_classify: whatever the graph of a         *)
(* workflow, cycles included, exactly the steps that no cycle holds up are *)
(* planned; without one, each group follows those it needs as closely as   *)
(* it can, and the critical path is a longest chain; and neither a policy  *)
(* that denies an agent nor strict governance makes the choice less safe.  *)
THEOREM Advised == Spec => []AdviceSound
<1>1. Init => AdviceKept
  BY AdviceInit DEF Init, AdviceKept
<1>2. AdviceKept /\ [Next]_vars => AdviceKept'
  <2>1. SUFFICES ASSUME AdviceKept, [Next]_vars, part' = "advice"
                 PROVE  AdviceInv'
    BY DEF AdviceKept
  <2>2. part' = part
    BY <2>1 DEF Next, vars
  <2>3. AdviceInv /\ [Arch!ANext]_(Arch!archVars)
    BY <2>1, <2>2, AdviceSteps DEF AdviceKept
  <2>4. QED
    BY <2>3, AdviceNext
<1>3. AdviceKept => AdviceSound
  BY AdviceIs DEF AdviceKept, AdviceSound
<1>4. QED
  BY <1>1, <1>2, <1>3, PTL DEF Spec

=============================================================================
