--------------------------- MODULE HubPollerProofs ---------------------------
(***************************************************************************)
(* Proofs about HubPoller, for every set of nodes and of commands and      *)
(* every value of the bounds: types, the registrations that survive, and   *)
(* the bound on the alarms.                                                *)
(***************************************************************************)
EXTENDS HubPoller, FiniteSetTheorems, TLAPS

-----------------------------------------------------------------------------
(* What keeps a registration: every list that is about to be written has   *)
(* it.  The list of a hub's poll was copied from the memory; that of a     *)
(* command was read from the file, and a command that still counts as      *)
(* alone has neither a hub nor another command beside it.                  *)
HubDown == hub = "down" => \A n \in Nodes : poll[n].pc = "idle"

ListsKeep ==
  ~wiped =>
    /\ \A n \in Nodes : poll[n].pc \in {"save", "write"} => safe \subseteq DOMAIN poll[n].list
    /\ \A a \in Adders : adder[a].pc # "idle" => safe \subseteq DOMAIN adder[a].list

AloneIsAlone ==
  \A a \in Adders : adder[a].pc # "idle" =>
    /\ adder[a].node \subseteq DOMAIN adder[a].list
    /\ adder[a].alone => hub = "down" /\ \A b \in Adders \ {a} : adder[b].pc = "idle"

KeptInv == TypeOK /\ HubDown /\ ListsKeep /\ AloneIsAlone /\ RegistrationKept

(* What pays for the next alarm: the nodes of which the hub counts more    *)
(* load, or less room, than they have, and one more while the alarm is     *)
(* armed or the load is not up to it.                                      *)
Unsettled == {n \in DOMAIN mem : mem[n].max < room[n] \/ mem[n].active > load[n]}
Armed == ~(fired /\ Alarming)
Credit == Cardinality(Unsettled) + (IF Armed THEN 1 ELSE 0)
FullCredit == Cardinality(Nodes) + 1
Budget == (crashes + 1) * FullCredit + eased

AskedAsHeld == \A n \in Nodes \cap DOMAIN mem : poll[n].pc = "ask" => poll[n].status = mem[n]

CreditCovers ==
  webhooks + (IF hub = "up" THEN Credit ELSE FullCredit) <= Budget

AlarmInv == TypeOK /\ HubDown /\ AskedAsHeld /\ CreditCovers

-----------------------------------------------------------------------------
(* What a list, and the lists a hub starts from, are made of.              *)
LEMMA ListFacts ==
  /\ \A l \in Lists : DOMAIN l \subseteq Nodes /\ l \in [DOMAIN l -> NodeStatus]
  /\ \A ns \in SUBSET Nodes : [ns -> NodeStatus] \subseteq Lists
  /\ NoStatus \in NodeStatus
  /\ Empty \in Lists /\ IdlePoll \in Polls /\ IdleAdd \in Adds
<1>1. \A l \in Lists : DOMAIN l \subseteq Nodes /\ l \in [DOMAIN l -> NodeStatus]
  BY DEF Lists
<1>2. \A ns \in SUBSET Nodes : [ns -> NodeStatus] \subseteq Lists
  BY DEF Lists
<1>3. NoStatus \in NodeStatus
  BY HubAssumption DEF NoStatus, NodeStatus
<1>4. Empty \in Lists
  <2>1. Empty \in [{} -> NodeStatus]
    BY DEF Empty
  <2>2. QED
    BY <2>1, <1>2
<1>5. IdlePoll \in Polls
  BY <1>3, <1>4 DEF IdlePoll, Polls
<1>6. IdleAdd \in Adds
  BY <1>4 DEF IdleAdd, Adds
<1>7. QED
  BY <1>1, <1>2, <1>3, <1>4, <1>5, <1>6

(* What an answer makes of a status is a status.                           *)
LEMMA AnsweredType ==
  ASSUME TypeOK, NEW n \in Nodes
  PROVE  Answered(n) \in NodeStatus
<1>1. /\ poll[n].status \in NodeStatus /\ load[n] \in 0..Capacity /\ room[n] \in 0..Capacity
      /\ answers[n] \in {"metrics", "nonsense", "error"}
  BY DEF TypeOK, Polls
<1>2. PICK s \in NodeStatus : s = poll[n].status
  BY <1>1
<1>3. CASE answers[n] = "metrics"
  <2>1. Answered(n) = [online |-> TRUE, active |-> load[n], max |-> room[n], failures |-> 0]
    BY <1>3 DEF Answered
  <2>2. QED
    BY <2>1, <1>1, HubAssumption DEF NodeStatus
<1>4. CASE answers[n] = "nonsense"
  BY <1>1, <1>4 DEF Answered
<1>5. CASE answers[n] = "error"
  <2>1. Answered(n) = [s EXCEPT !.online = FALSE,
                                !.failures = IF s.failures < Failures THEN @ + 1 ELSE @]
    BY <1>5, <1>2 DEF Answered
  <2>2. \A k \in 0..Failures : (IF k < Failures THEN k + 1 ELSE k) \in 0..Failures
    BY HubAssumption
  <2>3. QED
    BY <2>1, <2>2 DEF NodeStatus
<1>6. QED
  BY <1>1, <1>3, <1>4, <1>5

(* Every step keeps the types.                                             *)
LEMMA TypeStep == TypeOK /\ [Next]_vars => TypeOK'
<1> SUFFICES ASSUME TypeOK, [Next]_vars PROVE TypeOK'
  OBVIOUS
<1> USE ListFacts
<1>0. Parsed \in Lists
  BY DEF Parsed, TypeOK
<1>1. CASE Start
  <2>1. adder' \in [Adders -> Adds]
    <3>1. \A a \in Adders : [adder[a] EXCEPT !.alone = FALSE] \in Adds
      BY DEF TypeOK, Adds
    <3>2. QED
      BY <1>1, <3>1 DEF Start, TypeOK
  <2>2. tick' \in 0..Period - 1
    BY <1>1, HubAssumption DEF Start
  <2>3. QED
    BY <1>0, <1>1, <2>1, <2>2 DEF Start, TypeOK, disk, world
<1>2. CASE Crash
  <2>1. poll' \in [Nodes -> Polls]
    BY <1>2 DEF Crash
  <2>2. wiped' \in BOOLEAN /\ crashes' \in 0..MaxCrashes
    BY <1>2, HubAssumption DEF Crash, TypeOK
  <2>3. QED
    BY <1>2, <2>1, <2>2 DEF Crash, TypeOK, disk, world
<1>3. CASE Tick
  <2>1. poll' \in [Nodes -> Polls]
    <3>1. \A n \in DOMAIN mem : [pc |-> "ask", status |-> mem[n], list |-> Empty] \in Polls
      BY DEF TypeOK, Polls
    <3>2. QED
      BY <1>3, <3>1 DEF Tick
  <2>2. tick' \in 0..Period - 1
    BY <1>3, HubAssumption DEF Tick, TypeOK
  <2>3. QED
    BY <1>3, <2>1, <2>2 DEF Tick, TypeOK, disk, world
<1>4. CASE Check
  <2>1. webhooks' \in Nat
    BY <1>4 DEF Check, TypeOK
  <2>2. fired' \in BOOLEAN
    BY <1>4, Zenon DEF Check, TypeOK
  <2>3. QED
    BY <1>4, <2>1, <2>2 DEF Check, TypeOK, disk, world
<1>5. ASSUME NEW n \in Nodes, Merge(n) PROVE TypeOK'
  <2>1. mem' \in Lists
    <3>1. PICK ns \in SUBSET Nodes : mem \in [ns -> NodeStatus]
      BY DEF TypeOK
    <3>2. mem' \in [ns -> NodeStatus]
      BY <1>5, <3>1, AnsweredType DEF Merge
    <3>3. QED
      BY <3>2
  <2>2. poll' \in [Nodes -> Polls]
    <3>1. [IdlePoll EXCEPT !.pc = "save", !.list = mem'] \in Polls
      BY <2>1 DEF Polls, IdlePoll
    <3>2. QED
      BY <1>5, <3>1 DEF Merge, TypeOK
  <2>3. QED
    BY <1>5, <2>1, <2>2 DEF Merge, TypeOK, disk, poller, world
<1>6. ASSUME NEW n \in Nodes, SaveOpen(n) PROVE TypeOK'
  <2>1. poll' \in [Nodes -> Polls]
    <3>1. [poll[n] EXCEPT !.pc = "write"] \in Polls
      BY DEF TypeOK, Polls
    <3>2. QED
      BY <1>6, <3>1 DEF SaveOpen, TypeOK
  <2>2. QED
    BY <1>6, <2>1 DEF SaveOpen, Truncate, TypeOK, poller, world
<1>7. ASSUME NEW n \in Nodes, SaveWrite(n) PROVE TypeOK'
  <2>1. file' \in Lists
    BY <1>7 DEF SaveWrite, WriteList, TypeOK, Polls
  <2>2. garbled' \in BOOLEAN
    BY <1>7 DEF SaveWrite, WriteList
  <2>3. QED
    BY <1>7, <2>1, <2>2 DEF SaveWrite, TypeOK, poller, world
<1>8. ASSUME NEW a \in Adders, NEW n \in Nodes, AddLoad(a, n) PROVE TypeOK'
  <2> DEFINE list == [x \in DOMAIN Parsed \cup {n} |-> IF x = n THEN NoStatus ELSE file[x]]
  <2>1. list \in Lists
    <3>1. \A x \in DOMAIN Parsed : file[x] \in NodeStatus
      BY DEF Parsed, TypeOK, Empty
    <3>2. DOMAIN Parsed \cup {n} \in SUBSET Nodes
      BY <1>0
    <3>3. list \in [DOMAIN Parsed \cup {n} -> NodeStatus]
      BY <3>1
    <3>4. QED
      BY <3>2, <3>3
  <2> HIDE DEF list
  <2>2. \A al \in BOOLEAN : [pc |-> "save", node |-> {n}, list |-> list, alone |-> al] \in Adds
    BY <2>1 DEF Adds
  <2>3. \A b \in Adders : [adder[b] EXCEPT !.alone = FALSE] \in Adds
    BY DEF TypeOK, Adds
  <2>4. PICK al \in BOOLEAN, others \in SUBSET Adders : adder' = [b \in Adders |->
          IF b = a THEN [pc |-> "save", node |-> {n}, list |-> list, alone |-> al]
          ELSE IF b \in others THEN [adder[b] EXCEPT !.alone = FALSE] ELSE adder[b]]
    BY <1>8, Zenon DEF AddLoad, list
  <2>5. adder' \in [Adders -> Adds]
    BY <2>2, <2>3, <2>4 DEF TypeOK
  <2>6. QED
    BY <1>8, <2>5 DEF AddLoad, TypeOK, disk, poller, world
<1>9. ASSUME NEW a \in Adders, AddOpen(a) PROVE TypeOK'
  <2>1. adder' \in [Adders -> Adds]
    <3>1. [adder[a] EXCEPT !.pc = "write"] \in Adds
      BY DEF TypeOK, Adds
    <3>2. QED
      BY <1>9, <3>1 DEF AddOpen, TypeOK
  <2>2. QED
    BY <1>9, <2>1 DEF AddOpen, Truncate, TypeOK, poller, world
<1>10. ASSUME NEW a \in Adders, AddWrite(a) PROVE TypeOK'
  <2>1. file' \in Lists /\ safe' \subseteq Nodes
    BY <1>10 DEF AddWrite, WriteList, TypeOK, Adds
  <2>2. garbled' \in BOOLEAN
    BY <1>10 DEF AddWrite, WriteList
  <2>3. QED
    BY <1>10, <2>1, <2>2 DEF AddWrite, TypeOK, poller, world
<1>11. ASSUME NEW n \in Nodes, Change(n) PROVE TypeOK'
  <2>1. changes' \in 0..MaxChanges
    BY <1>11, HubAssumption DEF Change, TypeOK
  <2>2. answers' \in [Nodes -> {"metrics", "nonsense", "error"}]
    BY <1>11 DEF Change, TypeOK
  <2>3. load' \in [Nodes -> 0..Capacity] /\ room' \in [Nodes -> 0..Capacity]
    BY <1>11 DEF Change, TypeOK
  <2>4. eased' \in Nat
    BY <1>11 DEF Change, TypeOK
  <2>5. QED
    BY <1>11, <2>1, <2>2, <2>3, <2>4 DEF Change, TypeOK, disk, poller
<1>12. CASE UNCHANGED vars
  BY <1>12 DEF vars, TypeOK, disk, poller, world
<1>13. QED
  BY <1>1, <1>2, <1>3, <1>4, <1>5, <1>6, <1>7, <1>8, <1>9, <1>10, <1>11, <1>12
     DEF Next, Poll, Add

(* The hub starts from any file.                                           *)
LEMMA TypeInit == Init => TypeOK
<1> SUFFICES ASSUME Init PROVE TypeOK
  OBVIOUS
<1>1. PICK known \in SUBSET Nodes : file = [n \in known |-> NoStatus] /\ safe = known
  BY DEF Init
<1>2. file \in Lists
  BY <1>1, ListFacts
<1>3. QED
  <2>1. poll \in [Nodes -> Polls] /\ adder \in [Adders -> Adds] /\ mem \in Lists
    BY ListFacts DEF Init
  <2>2. tick \in 0..Period - 1 /\ changes \in 0..MaxChanges /\ crashes \in 0..MaxCrashes
    BY HubAssumption DEF Init
  <2>3. load \in [Nodes -> 0..Capacity] /\ room \in [Nodes -> 0..Capacity]
    <3>1. load \in [Nodes -> 0..Capacity]
      BY HubAssumption DEF Init
    <3>2. room \in [Nodes -> Rooms] /\ Rooms \subseteq 0..Capacity
      BY HubAssumption DEF Init
    <3>3. QED
      BY <3>1, <3>2
  <2>4. answers \in [Nodes -> {"metrics", "nonsense", "error"}]
    BY DEF Init
  <2>5. /\ hub \in {"up", "down"} /\ {garbled, checking, fired, wiped} \subseteq BOOLEAN
    BY DEF Init
  <2>9. {webhooks, eased} \subseteq Nat
    BY DEF Init
  <2>6. QED
    BY <1>1, <1>2, <2>1, <2>2, <2>3, <2>4, <2>5, <2>9 DEF TypeOK

(* The hub, its polls and the commands keep the types of all they hold, of *)
(* the file too: a status never leaves its range.                          *)
THEOREM TypesHold == Spec => []TypeOK
<1>1. QED
  BY TypeInit, TypeStep, PTL DEF Spec

-----------------------------------------------------------------------------
(* A poll or a command that moves leaves the others where they are.        *)
LEMMA OnePoll ==
  ASSUME TypeOK, NEW n \in Nodes, NEW r, poll' = [poll EXCEPT ![n] = r]
  PROVE  poll'[n] = r /\ \A m \in Nodes \ {n} : poll'[m] = poll[m]
BY DEF TypeOK

(* The same of the commands.                                               *)
LEMMA OneAdder ==
  ASSUME TypeOK, NEW a \in Adders, NEW r, adder' = [adder EXCEPT ![a] = r]
  PROVE  adder'[a] = r /\ \A b \in Adders \ {a} : adder'[b] = adder[b]
BY DEF TypeOK

(* What a step by a poll makes of its own record.                          *)
LEMMA PollSteps ==
  ASSUME TypeOK, NEW n \in Nodes
  PROVE  /\ Merge(n) =>
              /\ poll' = [poll EXCEPT ![n] = [pc |-> "save", status |-> NoStatus, list |-> mem']]
              /\ DOMAIN mem' = DOMAIN mem
         /\ SaveOpen(n) =>
              poll' = [poll EXCEPT ![n] = [pc |-> "write", status |-> poll[n].status,
                                           list |-> poll[n].list]]
         /\ SaveWrite(n) =>
              poll' = [poll EXCEPT ![n] = [pc |-> "idle", status |-> NoStatus, list |-> Empty]]
<1>1. Merge(n) => poll' = [poll EXCEPT ![n] = [pc |-> "save", status |-> NoStatus, list |-> mem']]
  BY DEF Merge, IdlePoll
<1>2. Merge(n) => DOMAIN mem' = DOMAIN mem
  BY DEF Merge
<1>3. SaveOpen(n) => poll' = [poll EXCEPT ![n] = [pc |-> "write", status |-> poll[n].status,
                                                  list |-> poll[n].list]]
  <2>1. [poll[n] EXCEPT !.pc = "write"]
          = [pc |-> "write", status |-> poll[n].status, list |-> poll[n].list]
    BY DEF TypeOK, Polls
  <2>2. SaveOpen(n) => poll' = [poll EXCEPT ![n] = [poll[n] EXCEPT !.pc = "write"]]
    BY DEF SaveOpen, TypeOK
  <2>3. QED
    BY <2>1, <2>2
<1>4. SaveWrite(n) =>
        poll' = [poll EXCEPT ![n] = [pc |-> "idle", status |-> NoStatus, list |-> Empty]]
  BY DEF SaveWrite, IdlePoll
<1>5. QED
  BY <1>1, <1>2, <1>3, <1>4

(* What a step by a command makes of its own record.                       *)
LEMMA AddSteps ==
  ASSUME TypeOK, NEW a \in Adders
  PROVE  /\ AddOpen(a) =>
              adder' = [adder EXCEPT ![a] = [pc |-> "write", list |-> adder[a].list,
                                             node |-> adder[a].node, alone |-> adder[a].alone]]
         /\ AddWrite(a) => adder' = [adder EXCEPT ![a] = IdleAdd]
<1>1. [adder[a] EXCEPT !.pc = "write"]
        = [pc |-> "write", list |-> adder[a].list, node |-> adder[a].node,
           alone |-> adder[a].alone]
  BY DEF TypeOK, Adds
<1>2. AddOpen(a) => adder' = [adder EXCEPT ![a] = [adder[a] EXCEPT !.pc = "write"]]
  BY DEF AddOpen, TypeOK
<1>3. QED
  BY <1>1, <1>2 DEF AddWrite

(* A command that is no longer alone.                                      *)
LEMMA AloneOff ==
  ASSUME TypeOK, NEW a \in Adders
  PROVE  LET r == [adder[a] EXCEPT !.alone = FALSE]
         IN  /\ r.pc = adder[a].pc /\ r.list = adder[a].list
             /\ r.node = adder[a].node /\ r.alone = FALSE
<1>1. adder[a] \in Adds
  BY DEF TypeOK
<1>2. \A r \in Adds : LET q == [r EXCEPT !.alone = FALSE]
        IN q.pc = r.pc /\ q.list = r.list /\ q.node = r.node /\ q.alone = FALSE
  BY DEF Adds
<1>3. QED
  BY <1>1, <1>2

(* A dead hub has no polls.                                                *)
LEMMA HubDownStep == TypeOK /\ HubDown /\ [Next]_vars => HubDown'
<1> SUFFICES ASSUME TypeOK, HubDown, [Next]_vars PROVE HubDown'
  OBVIOUS
<1> USE DEF HubDown
<1>1. CASE Start
  BY <1>1 DEF Start
<1>2. CASE Crash
  BY <1>2 DEF Crash, IdlePoll
<1>3. CASE Tick
  BY <1>3 DEF Tick
<1>4. ASSUME NEW n \in Nodes, Poll(n) PROVE HubDown'
  <2>1. hub' = hub /\ poll[n].pc # "idle"
    BY <1>4 DEF Poll, Merge, SaveOpen, SaveWrite
  <2>2. QED
    BY <2>1 DEF TypeOK
<1>5. CASE Check \/ UNCHANGED vars
  BY <1>5 DEF Check, vars
<1>6. ASSUME NEW a \in Adders, Add(a) \/ \E n \in Nodes : AddLoad(a, n) PROVE HubDown'
  BY <1>6 DEF Add, AddOpen, AddWrite, AddLoad
<1>7. ASSUME NEW n \in Nodes, Change(n) PROVE HubDown'
  BY <1>7 DEF Change
<1>8. QED
  BY <1>1, <1>2, <1>3, <1>4, <1>5, <1>6, <1>7 DEF Next

-----------------------------------------------------------------------------
(* A poll's list is the memory's, and every write puts back all it kept.   *)
LEMMA PollKept ==
  ASSUME KeptInv, NEW n \in Nodes, Poll(n)
  PROVE  ListsKeep' /\ AloneIsAlone' /\ RegistrationKept'
<1>1. TypeOK /\ hub = "up"
  BY DEF KeptInv, HubDown, Poll, Merge, SaveOpen, SaveWrite, TypeOK
<1>2. UNCHANGED <<hub, adder, safe, wiped>>
  BY DEF Poll, Merge, SaveOpen, SaveWrite
<1>3. DOMAIN mem' = DOMAIN mem
  BY DEF Poll, Merge, SaveOpen, SaveWrite
<1>4. AloneIsAlone'
  BY <1>2 DEF KeptInv, AloneIsAlone
<1>5. ASSUME ~wiped, poll'[n].pc \in {"save", "write"} PROVE safe \subseteq DOMAIN poll'[n].list
  <2>1. CASE Merge(n)
    BY <1>1, <1>3, <1>5, <2>1, PollSteps, OnePoll DEF KeptInv, RegistrationKept
  <2>2. CASE SaveOpen(n)
    <3>1. poll[n].pc = "save"
      BY <2>2 DEF SaveOpen
    <3>2. QED
      <4>1. poll'[n].list = poll[n].list
        BY <1>1, <2>2, PollSteps, OnePoll
      <4>2. QED
        BY <1>5, <3>1, <4>1 DEF KeptInv, ListsKeep
  <2>3. CASE SaveWrite(n)
    BY <1>1, <1>5, <2>3, PollSteps, OnePoll
  <2>4. QED
    BY <2>1, <2>2, <2>3 DEF Poll
<1>6. \A m \in Nodes \ {n} : poll'[m] = poll[m]
  BY <1>1, PollSteps, OnePoll DEF Poll
<1>7. ListsKeep'
  BY <1>2, <1>5, <1>6 DEF KeptInv, ListsKeep
<1>8. ASSUME ~wiped, ~Writing' PROVE safe \subseteq DOMAIN file'
  <2>1. CASE Merge(n)
    <3>1. file' = file
      BY <2>1 DEF Merge, disk
    <3>2. ~Writing
      <4>1. poll[n].pc # "write"
        BY <2>1 DEF Merge
      <4>2. QED
        BY <1>2, <1>6, <1>8, <4>1 DEF Writing
    <3>3. QED
      BY <1>8, <3>1, <3>2 DEF KeptInv, RegistrationKept
  <2>2. CASE SaveOpen(n)
    <3>1. poll'[n].pc = "write"
      BY <1>1, <2>2, PollSteps, OnePoll
    <3>2. QED
      BY <1>8, <3>1 DEF Writing
  <2>3. CASE SaveWrite(n)
    BY <1>8, <2>3 DEF SaveWrite, WriteList, KeptInv, ListsKeep
  <2>4. QED
    BY <2>1, <2>2, <2>3 DEF Poll
<1>9. QED
  BY <1>1, <1>2, <1>3, <1>4, <1>7, <1>8 DEF KeptInv, RegistrationKept

(* A command that read a sound file has all of it in its list; one that is *)
(* still alone when it writes has nobody beside it who could lack its node.*)
LEMMA AdderKept ==
  ASSUME KeptInv, NEW a \in Adders, Add(a) \/ \E n \in Nodes : AddLoad(a, n)
  PROVE  ListsKeep' /\ AloneIsAlone' /\ RegistrationKept'
<1>1. TypeOK
  BY DEF KeptInv
<1>2. UNCHANGED <<hub, mem, poll>>
  BY DEF Add, AddOpen, AddWrite, AddLoad
<1>3. ASSUME NEW n \in Nodes, AddLoad(a, n) PROVE ListsKeep' /\ AloneIsAlone' /\ RegistrationKept'
  <2> DEFINE list == [x \in DOMAIN Parsed \cup {n} |-> IF x = n THEN NoStatus ELSE file[x]]
             others == {b \in Adders \ {a} : adder[b].pc # "idle"}
             own == [pc |-> "save", node |-> {n}, list |-> list,
                     alone |-> hub = "down" /\ others = {}]
  <2>1. adder' = [b \in Adders |-> IF b = a THEN own
                    ELSE IF b \in others THEN [adder[b] EXCEPT !.alone = FALSE] ELSE adder[b]]
    BY <1>3, Zenon DEF AddLoad
  <2>2. adder'[a] = own
    BY <2>1
  <2>3. \A b \in Adders \ {a} :
          /\ adder'[b].pc = adder[b].pc /\ adder'[b].list = adder[b].list
          /\ adder'[b].node = adder[b].node
          /\ adder[b].pc # "idle" => ~adder'[b].alone
    <3>1. \A b \in Adders \ {a} :
            adder'[b] = IF b \in others THEN [adder[b] EXCEPT !.alone = FALSE] ELSE adder[b]
      BY <2>1
    <3>2. QED
      BY <1>1, <3>1, AloneOff
  <2>4. own.pc = "save" /\ own.node = {n} /\ own.list = list
    BY Zenon
  <2>5. own.alone <=> (hub = "down" /\ others = {})
    BY Zenon
  <2>6. DOMAIN list = DOMAIN Parsed \cup {n}
    OBVIOUS
  <2> HIDE DEF list, own
  <2>7. UNCHANGED <<disk, safe>> /\ (~wiped' => ~wiped /\ safe \subseteq DOMAIN Parsed)
    BY <1>3 DEF AddLoad
  <2>8. ListsKeep'
    <3>1. ~wiped' => \A b \in Adders : adder'[b].pc # "idle" => safe \subseteq DOMAIN adder'[b].list
      BY <2>2, <2>3, <2>4, <2>6, <2>7 DEF KeptInv, ListsKeep
    <3>2. QED
      BY <1>2, <2>7, <3>1 DEF KeptInv, ListsKeep
  <2>9. AloneIsAlone'
    <3>1. ASSUME NEW b \in Adders, adder'[b].pc # "idle"
          PROVE  adder'[b].node \subseteq DOMAIN adder'[b].list
      BY <2>2, <2>3, <2>4, <2>6, <3>1 DEF KeptInv, AloneIsAlone
    <3>2. ASSUME NEW b \in Adders, adder'[b].pc # "idle", adder'[b].alone
          PROVE  hub = "down" /\ \A c \in Adders \ {b} : adder'[c].pc = "idle"
      <4>1. b = a
        BY <2>3, <3>2
      <4>2. hub = "down" /\ others = {}
        BY <2>2, <2>5, <3>2, <4>1
      <4>3. QED
        BY <2>3, <4>1, <4>2
    <3>3. QED
      BY <1>2, <3>1, <3>2 DEF AloneIsAlone
  <2>10. RegistrationKept'
    <3>1. Writing' <=> Writing
      <4>1. adder[a].pc = "idle"
        BY <1>3 DEF AddLoad
      <4>2. \A b \in Adders : adder'[b].pc = "write" <=> adder[b].pc = "write"
        BY <2>2, <2>3, <2>4, <4>1
      <4>3. QED
        BY <1>2, <4>2 DEF Writing
    <3>2. QED
      BY <1>2, <2>7, <3>1 DEF KeptInv, RegistrationKept, disk
  <2>11. QED
    BY <2>8, <2>9, <2>10
<1>4. CASE AddOpen(a)
  <2>1. UNCHANGED <<safe, wiped>>
    BY <1>4 DEF AddOpen
  <2>2. /\ adder[a].pc = "save" /\ adder'[a].pc = "write" /\ adder'[a].list = adder[a].list
        /\ adder'[a].node = adder[a].node /\ adder'[a].alone = adder[a].alone
        /\ \A b \in Adders \ {a} : adder'[b] = adder[b]
    <3>1. PICK r : r = [pc |-> "write", list |-> adder[a].list, node |-> adder[a].node,
                        alone |-> adder[a].alone]
      OBVIOUS
    <3>2. adder' = [adder EXCEPT ![a] = r]
      BY <1>1, <1>4, <3>1, AddSteps
    <3>3. adder'[a] = r /\ \A b \in Adders \ {a} : adder'[b] = adder[b]
      BY <1>1, <3>2, OneAdder
    <3>4. /\ r.pc = "write" /\ r.list = adder[a].list /\ r.node = adder[a].node
          /\ r.alone = adder[a].alone
      BY <3>1, Zenon
    <3>5. QED
      BY <1>4, <3>3, <3>4, Zenon DEF AddOpen
  <2>3. ListsKeep'
    BY <1>2, <2>1, <2>2 DEF KeptInv, ListsKeep
  <2>4. AloneIsAlone'
    <3>1. \A b \in Adders : /\ adder'[b].pc = "idle" <=> adder[b].pc = "idle"
                            /\ adder'[b].list = adder[b].list /\ adder'[b].node = adder[b].node
                            /\ adder'[b].alone = adder[b].alone
      BY <2>2
    <3>2. QED
      BY <1>2, <3>1 DEF KeptInv, AloneIsAlone
  <2>5. RegistrationKept'
    BY <1>2, <2>1, <2>2 DEF KeptInv, RegistrationKept, Writing
  <2>6. QED
    BY <2>3, <2>4, <2>5
<1>5. CASE AddWrite(a)
  <2>1. /\ adder[a].pc = "write" /\ adder'[a] = IdleAdd
        /\ \A b \in Adders \ {a} : adder'[b] = adder[b]
    BY <1>1, <1>5, AddSteps, OneAdder DEF AddWrite
  <2>2. wiped' = wiped /\ file' = adder[a].list
    BY <1>5 DEF AddWrite, WriteList
  <2>3. IdleAdd.pc = "idle"
    BY DEF IdleAdd
  <2>4. AloneIsAlone'
    BY <1>2, <2>1, <2>3 DEF KeptInv, AloneIsAlone
  <2>5. CASE ~adder[a].alone
    <3>1. safe' = safe
      BY <1>5, <2>5 DEF AddWrite
    <3>2. QED
      BY <1>2, <2>1, <2>2, <2>3, <2>4, <3>1 DEF KeptInv, ListsKeep, RegistrationKept
  <2>6. CASE adder[a].alone
    <3>1. safe' = safe \cup adder[a].node
      BY <1>5, <2>6 DEF AddWrite
    <3>2. /\ hub = "down" /\ \A b \in Adders \ {a} : adder[b].pc = "idle"
          /\ adder[a].node \subseteq DOMAIN adder[a].list
      BY <2>1, <2>6 DEF KeptInv, AloneIsAlone
    <3>3. \A n \in Nodes : poll[n].pc = "idle"
      BY <3>2 DEF KeptInv, HubDown
    <3>4. ListsKeep'
      BY <1>2, <2>1, <2>3, <3>2, <3>3 DEF ListsKeep
    <3>5. RegistrationKept'
      BY <1>2, <2>1, <2>2, <3>1, <3>2 DEF KeptInv, ListsKeep, RegistrationKept
    <3>6. QED
      BY <2>4, <3>4, <3>5
  <2>7. QED
    BY <2>5, <2>6
<1>6. QED
  BY <1>3, <1>4, <1>5 DEF Add

(* Every step keeps the registrations.                                     *)
LEMMA KeptStep == KeptInv /\ [Next]_vars => KeptInv'
<1> SUFFICES ASSUME KeptInv, [Next]_vars PROVE ListsKeep' /\ AloneIsAlone' /\ RegistrationKept'
  BY TypeStep, HubDownStep DEF KeptInv
<1>1. CASE Start
  <2>1. adder' = [a \in Adders |->
          IF adder[a].pc = "idle" THEN adder[a] ELSE [adder[a] EXCEPT !.alone = FALSE]]
    BY <1>1 DEF Start
  <2>2. \A a \in Adders :
          /\ adder'[a].pc = adder[a].pc /\ adder'[a].list = adder[a].list
          /\ adder'[a].node = adder[a].node /\ (adder[a].pc # "idle" => ~adder'[a].alone)
    <3>1. \A a \in Adders : adder'[a] = IF adder[a].pc = "idle" THEN adder[a]
                                        ELSE [adder[a] EXCEPT !.alone = FALSE]
      BY <2>1
    <3>2. QED
      BY <3>1, AloneOff DEF KeptInv
  <2>3. /\ UNCHANGED <<file, poll, safe>> /\ mem' = Parsed
        /\ ~wiped' => ~wiped /\ safe \subseteq DOMAIN Parsed
    BY <1>1 DEF Start, disk
  <2>4. Writing' <=> Writing
    BY <2>2, <2>3 DEF Writing
  <2>5. QED
    BY <2>2, <2>3, <2>4 DEF KeptInv, ListsKeep, AloneIsAlone, RegistrationKept
<1>2. CASE Crash
  <2>1. /\ hub' = "down" /\ UNCHANGED <<file, adder, safe>> /\ \A n \in Nodes : poll'[n].pc = "idle"
    BY <1>2 DEF Crash, disk, IdlePoll
  <2>2. ~wiped' => ~wiped /\ \A n \in Nodes : poll[n].pc # "write"
    BY <1>2 DEF Crash
  <2>3. ~wiped' /\ ~Writing' => ~Writing
    BY <2>1, <2>2 DEF Writing
  <2>4. QED
    BY <2>1, <2>2, <2>3 DEF KeptInv, ListsKeep, AloneIsAlone, RegistrationKept
<1>3. CASE Tick
  <2>1. UNCHANGED <<hub, file, mem, adder, safe, wiped>>
    BY <1>3 DEF Tick, disk
  <2>2. \A n \in Nodes : poll'[n].pc \notin {"save", "write"} /\ poll[n].pc # "write"
    BY <1>3 DEF Tick, IdlePoll
  <2>3. QED
    BY <2>1, <2>2 DEF KeptInv, ListsKeep, AloneIsAlone, RegistrationKept, Writing
<1>4. CASE Check \/ UNCHANGED vars \/ \E n \in Nodes : Change(n)
  <2>1. UNCHANGED <<hub, file, mem, poll, adder, safe, wiped>>
    BY <1>4 DEF Check, vars, Change, disk
  <2>2. QED
    BY <2>1 DEF KeptInv, ListsKeep, AloneIsAlone, RegistrationKept, Writing
<1>5. QED
  BY <1>1, <1>2, <1>3, <1>4, PollKept, AdderKept DEF Next

(* A registration made while nobody else was at work, and every one the    *)
(* file had at first, is in the memory of a running hub and, whenever no   *)
(* save_nodes is half done, in the file: no order of the hub's polls and   *)
(* of any number of `apollo-hub add` eased it, unless a writer died with   *)
(* the file open or somebody read it cut or garbled.                       *)
THEOREM RegistrationsKept == Spec => []RegistrationKept
<1>1. Init => KeptInv
  <2> SUFFICES ASSUME Init PROVE KeptInv
    OBVIOUS
  <2>1. /\ hub = "down" /\ \A n \in Nodes : poll[n].pc = "idle"
        /\ \A a \in Adders : adder[a].pc = "idle"
    BY DEF Init, IdlePoll, IdleAdd
  <2>2. safe \subseteq DOMAIN file
    BY DEF Init
  <2>3. QED
    BY <2>1, <2>2, TypeInit DEF KeptInv, HubDown, ListsKeep, AloneIsAlone, RegistrationKept
<1>2. KeptInv => RegistrationKept
  BY DEF KeptInv
<1>3. QED
  BY <1>1, <1>2, KeptStep, PTL DEF Spec

-----------------------------------------------------------------------------
(* The places of a fleet are finitely many, so they can be counted.        *)
Countable ==
  /\ IsFiniteSet(Unsettled) /\ Cardinality(Unsettled) \in Nat
  /\ Cardinality(Nodes) \in Nat /\ Cardinality(Unsettled) <= Cardinality(Nodes)
  /\ \A field : IsFiniteSet(Places(field)) /\ Total(field) \in Nat

LEMMA CountFacts == TypeOK => Countable
<1> SUFFICES ASSUME TypeOK PROVE Countable
  OBVIOUS
<1>1. DOMAIN mem \subseteq Nodes /\ IsFiniteSet(DOMAIN mem)
  BY ListFacts, FS_Subset, HubAssumption DEF TypeOK
<1>2. IsFiniteSet(Unsettled) /\ Cardinality(Unsettled) \in Nat
      /\ Cardinality(Nodes) \in Nat /\ Cardinality(Unsettled) <= Cardinality(Nodes)
  <2>1. Unsettled \subseteq Nodes
    BY <1>1 DEF Unsettled
  <2>2. QED
    BY <2>1, FS_Subset, FS_CardinalityType, HubAssumption
<1>3. ASSUME NEW field PROVE IsFiniteSet(Places(field)) /\ Total(field) \in Nat
  <2>1. IsFiniteSet(1..Capacity)
    BY FS_Interval, HubAssumption
  <2>2. IsFiniteSet((DOMAIN mem) \X (1..Capacity))
    BY <1>1, <2>1, FS_Product
  <2>3. Places(field) \subseteq (DOMAIN mem) \X (1..Capacity)
    BY DEF Places
  <2>4. QED
    BY <2>2, <2>3, FS_Subset, FS_CardinalityType DEF Total
<1>4. QED
  BY <1>2, <1>3 DEF Countable

(* And are in the next state.                                              *)
LEMMA CountNext == TypeOK' => Countable'
BY CountFacts, PTL

(* The load that re-arms the alarm is below the one that raises it.        *)
LEMMA ResetBelowAlarm == ASSUME TypeOK, Relaxed PROVE ~Alarming
<1>1. PICK a \in Nat, m \in Nat : a = Total("active") /\ m = Total("max")
  BY CountFacts DEF Countable
<1>2. Threshold \in Nat
  BY HubAssumption
<1>3. Threshold * 7 * m = 7 * (Threshold * m)
  BY <1>2
<1>4. PICK p \in Nat : p = Threshold * m
  BY <1>2
<1>5. a * 1000 < 7 * p
  BY <1>1, <1>3, <1>4 DEF Relaxed
<1>6. QED
  BY <1>1, <1>4, <1>5 DEF Alarming

(* A fleet whose capacity does not rise and whose counted load does not    *)
(* fall stays alarming.                                                    *)
LEMMA AlarmingStays ==
  ASSUME TypeOK, TypeOK', Alarming, DOMAIN mem' = DOMAIN mem,
         \A n \in DOMAIN mem : mem'[n].max <= mem[n].max /\ mem[n].active <= mem'[n].active
  PROVE  Alarming'
<1>1. \A n \in DOMAIN mem : /\ mem[n] \in NodeStatus /\ mem'[n] \in NodeStatus
                            /\ mem[n].active \in Int /\ mem'[n].active \in Int
                            /\ mem[n].max \in Int /\ mem'[n].max \in Int
  <2>1. \A n \in DOMAIN mem : mem[n] \in NodeStatus /\ mem'[n] \in NodeStatus
    BY ListFacts DEF TypeOK
  <2>2. QED
    BY <2>1 DEF NodeStatus
<1>2. Places("active") \subseteq Places("active")'
  BY <1>1 DEF Places
<1>3. Places("max")' \subseteq Places("max")
  BY <1>1 DEF Places
<1>4. Total("active") <= Total("active")'
  <2>1. IsFiniteSet(Places("active")')
    BY CountNext DEF Countable
  <2>2. QED
    BY <1>2, <2>1, FS_Subset DEF Total
<1>5. Total("max")' <= Total("max")
  <2>1. IsFiniteSet(Places("max"))
    BY CountFacts DEF Countable
  <2>2. QED
    BY <1>3, <2>1, FS_Subset DEF Total
<1>6. /\ Total("active") \in Nat /\ Total("active")' \in Nat
      /\ Total("max") \in Nat /\ Total("max")' \in Nat /\ Threshold \in Nat
  BY CountFacts, CountNext, HubAssumption DEF Countable
<1>7. Threshold * Total("max")' <= Threshold * Total("max")
  <2>1. \A t, a, b \in Nat : a <= b => t * a <= t * b
    OBVIOUS
  <2>2. QED
    BY <1>5, <1>6, <2>1
<1>8. QED
  <2>1. PICK p \in Nat : p = Threshold * Total("max")
    BY <1>6
  <2>2. PICK q \in Nat : q = Threshold * Total("max")'
    BY <1>6
  <2>3. QED
    BY <1>4, <1>6, <1>7, <2>1, <2>2 DEF Alarming

(* The bound leaves room for whatever the nodes may still cost.            *)
Affordable ==
  /\ Credit \in Nat /\ FullCredit \in Nat /\ Budget \in Nat /\ webhooks \in Nat
  /\ Credit <= FullCredit
  /\ CreditCovers => AlarmBound

LEMMA BudgetFacts == TypeOK => Affordable
<1> SUFFICES ASSUME TypeOK PROVE Affordable
  OBVIOUS
<1>1. Credit \in Nat /\ FullCredit \in Nat /\ Credit <= FullCredit
  BY CountFacts DEF Credit, FullCredit, Countable
<1>2. crashes + 1 \in Nat /\ eased \in Nat /\ webhooks \in Nat
  BY DEF TypeOK
<1>3. Budget \in Nat
  BY <1>1, <1>2 DEF Budget
<1>4. CreditCovers => AlarmBound
  <2>1. Budget = (crashes + 1) * (Cardinality(Nodes) + 1) + eased
    BY DEF Budget, FullCredit
  <2>2. QED
    BY <1>1, <1>2, <1>3, <2>1 DEF CreditCovers, AlarmBound
<1>5. QED
  BY <1>1, <1>2, <1>3, <1>4 DEF Affordable

(* And does in the next state.                                             *)
LEMMA BudgetNext == TypeOK' => Affordable'
BY BudgetFacts, PTL

(* A step that touches nothing the bound counts.                           *)
LEMMA SameCredit ==
  ASSUME CreditCovers, UNCHANGED <<hub, mem, load, room, fired, webhooks, eased, crashes>>
  PROVE  CreditCovers'
<1>1. Credit' = Credit
  BY DEF Credit, Unsettled, Armed, Alarming, Total, Places
<1>2. Budget' = Budget /\ FullCredit' = FullCredit
  BY DEF Budget, FullCredit
<1>3. QED
  BY <1>1, <1>2 DEF CreditCovers

(* A poll that is on its way began with the status the hub still holds.    *)
LEMMA AskedStep == TypeOK /\ HubDown /\ AskedAsHeld /\ [Next]_vars => AskedAsHeld'
<1> SUFFICES ASSUME TypeOK, HubDown, AskedAsHeld, [Next]_vars PROVE AskedAsHeld'
  OBVIOUS
<1> USE DEF AskedAsHeld
<1>1. CASE Start
  BY <1>1 DEF Start, HubDown
<1>2. CASE Crash
  BY <1>2 DEF Crash, IdlePoll
<1>3. CASE Tick
  BY <1>3 DEF Tick, IdlePoll
<1>4. ASSUME NEW n \in Nodes, Poll(n) PROVE AskedAsHeld'
  <2>1. poll'[n].pc # "ask"
    <3>1. CASE Merge(n)
      <4>1. poll'[n] = [pc |-> "save", status |-> NoStatus, list |-> mem']
        BY <3>1, PollSteps, OnePoll
      <4>2. QED
        BY <4>1
    <3>2. CASE SaveOpen(n)
      <4>1. poll'[n] = [pc |-> "write", status |-> poll[n].status, list |-> poll[n].list]
        BY <3>2, PollSteps, OnePoll
      <4>2. QED
        BY <4>1
    <3>3. CASE SaveWrite(n)
      <4>1. poll'[n] = [pc |-> "idle", status |-> NoStatus, list |-> Empty]
        BY <3>3, PollSteps, OnePoll
      <4>2. QED
        BY <4>1
    <3>4. QED
      BY <1>4, <3>1, <3>2, <3>3 DEF Poll
  <2>2. \A m \in Nodes \ {n} : poll'[m] = poll[m]
    BY <1>4, PollSteps, OnePoll DEF Poll
  <2>3. DOMAIN mem' = DOMAIN mem /\ \A m \in DOMAIN mem \ {n} : mem'[m] = mem[m]
    BY <1>4 DEF Poll, Merge, SaveOpen, SaveWrite
  <2>4. QED
    BY <2>1, <2>2, <2>3
<1>5. CASE Check \/ UNCHANGED vars \/ \E n \in Nodes : Change(n)
  BY <1>5 DEF Check, vars, Change
<1>6. ASSUME NEW a \in Adders, Add(a) \/ \E n \in Nodes : AddLoad(a, n) PROVE AskedAsHeld'
  BY <1>6 DEF Add, AddOpen, AddWrite, AddLoad
<1>7. QED
  BY <1>1, <1>2, <1>3, <1>4, <1>5, <1>6 DEF Next

-----------------------------------------------------------------------------
(* Arithmetic the bound needs: what is spent comes out of what is left.    *)
LEMMA Spending ==
  /\ \A w, c, x, d, b \in Nat : x + d <= w + c /\ w + c <= b => x + d <= b
  /\ \A w, c, d, b \in Nat : d <= c /\ w + c <= b => w + d <= b
  /\ \A c, g, h \in Nat : g <= h => c <= c + (h - g)
  /\ \A w, c, d, f, g, h \in Nat :
       g <= h /\ d <= c + (h - g) /\ w + c <= f + g => w + d <= f + h
BY SMT

(* The check spends what it is armed with, and is armed again only by a    *)
(* load that is not alarming.                                              *)
LEMMA CheckCredit == ASSUME AlarmInv, Check PROVE CreditCovers'
<1>1. TypeOK /\ webhooks \in Nat /\ Credit \in Nat /\ Budget \in Nat
  BY BudgetFacts DEF AlarmInv, TypeOK, Affordable
<1>2. /\ hub = "up" /\ UNCHANGED <<hub, mem, load, room, eased, crashes>>
  BY DEF Check, world
<1>3. Budget' = Budget /\ Unsettled' = Unsettled /\ (Alarming' <=> Alarming)
  BY <1>2 DEF Budget, FullCredit, Unsettled, Alarming, Total, Places
<1>4. Cardinality(Unsettled) \in Nat
  BY <1>1, CountFacts DEF Countable
<1>5. webhooks' + Credit' <= webhooks + Credit
  <2>1. CASE Alarming /\ ~fired /\ Total("max") # 0
    <3>1. webhooks' = webhooks + 1 /\ fired'
      BY <2>1 DEF Check
    <3>2. Armed /\ ~Armed'
      BY <1>3, <2>1, <3>1 DEF Armed
    <3>3. QED
      BY <1>1, <1>3, <1>4, <3>1, <3>2 DEF Credit
  <2>2. CASE ~(Alarming /\ ~fired /\ Total("max") # 0)
    <3>1. webhooks' = webhooks
      BY <2>2 DEF Check
    <3>2. Armed' => Armed
      <4>1. fired /\ Alarming => ~Relaxed
        BY <1>1, ResetBelowAlarm
      <4>2. fired /\ Alarming => fired'
        BY <2>2, <4>1 DEF Check
      <4>3. QED
        BY <1>3, <4>2 DEF Armed
    <3>3. QED
      BY <1>1, <1>3, <1>4, <3>1, <3>2 DEF Credit
  <2>3. QED
    BY <2>1, <2>2
<1>6. QED
  <2>1. webhooks + Credit <= Budget
    BY <1>2 DEF AlarmInv, CreditCovers
  <2>2. webhooks' \in Nat /\ Credit' \in Nat
    <3>1. TypeOK'
      BY <1>1, TypeStep DEF Next
    <3>2. QED
      BY <3>1, BudgetNext DEF Affordable
  <2>3. webhooks' + Credit' <= Budget
    BY <1>1, <1>5, <2>1, <2>2, Spending
  <2>4. hub' = "up" /\ Budget' = Budget
    BY <1>2, <1>3
  <2>5. QED
    BY <2>3, <2>4 DEF CreditCovers

(* An answer that is counted settles its node, or leaves it at a load that *)
(* did not fall; one that is not leaves what the alarm reads as it was.    *)
LEMMA MergeCredit == ASSUME AlarmInv, NEW n \in Nodes, Merge(n) PROVE CreditCovers'
<1>1. TypeOK /\ hub = "up"
  BY DEF AlarmInv, HubDown, Merge, TypeOK
<1>2. TypeOK'
  BY <1>1, TypeStep DEF Next, Poll
<1>3. /\ UNCHANGED <<hub, load, room, fired, webhooks, eased, crashes>>
  BY DEF Merge, poller, world
<1>4. Budget' = Budget
  BY <1>3 DEF Budget, FullCredit
<1>5. Credit' <= Credit
  <2>1. CASE n \notin DOMAIN mem
    <3>1. mem' = mem
      BY <2>1 DEF Merge
    <3>2. Credit' = Credit
      BY <1>3, <3>1 DEF Credit, Unsettled, Armed, Alarming, Total, Places
    <3>3. QED
      BY <1>1, <3>2, BudgetFacts DEF Affordable
  <2>2. CASE n \in DOMAIN mem
    <3>1. mem' = [mem EXCEPT ![n] = Answered(n)]
      BY <2>2 DEF Merge
    <3>2. /\ DOMAIN mem' = DOMAIN mem /\ mem'[n] = Answered(n)
          /\ \A x \in DOMAIN mem \ {n} : mem'[x] = mem[x]
      BY <2>2, <3>1
    <3>3. poll[n].status = mem[n]
      BY <2>2 DEF AlarmInv, AskedAsHeld, Merge
    <3>4. /\ mem[n].active \in 0..Capacity /\ mem[n].max \in 0..Capacity
          /\ load[n] \in 0..Capacity /\ room[n] \in 0..Capacity
          /\ answers[n] \in {"metrics", "nonsense", "error"}
      BY <1>1, <2>2, ListFacts, HubAssumption DEF TypeOK, NodeStatus
    <3>5. CASE answers[n] = "metrics"
      <4>1. Answered(n).active = load[n] /\ Answered(n).max = room[n]
        BY <3>5 DEF Answered
      <4>2. Unsettled' = Unsettled \ {n}
        BY <1>3, <3>2, <3>4, <4>1 DEF Unsettled
      <4>3. CASE n \in Unsettled
        <5>1. Cardinality(Unsettled') = Cardinality(Unsettled) - 1
          BY <1>1, <4>2, <4>3, CountFacts, FS_RemoveElement DEF Countable
        <5>2. QED
          BY <1>1, <5>1, CountFacts DEF Credit, Countable
      <4>4. CASE n \notin Unsettled
        <5>1. Unsettled' = Unsettled
          BY <4>2, <4>4
        <5>2. room[n] <= mem[n].max /\ mem[n].active <= load[n]
          BY <2>2, <3>4, <4>4 DEF Unsettled
        <5>3. Alarming => Alarming'
          <6>1. \A x \in DOMAIN mem : mem[x].active \in Int /\ mem[x].max \in Int
            BY <1>1, ListFacts DEF TypeOK, NodeStatus
          <6>2. QED
            BY <1>1, <1>2, <3>2, <4>1, <5>2, <6>1, AlarmingStays
        <5>4. Armed' => Armed
          BY <1>3, <5>3 DEF Armed
        <5>5. QED
          BY <1>1, <5>1, <5>4, CountFacts DEF Credit, Countable
      <4>5. QED
        BY <4>3, <4>4
    <3>6. CASE answers[n] # "metrics"
      <4>1. Answered(n).active = mem[n].active /\ Answered(n).max = mem[n].max
        <5>1. PICK s \in NodeStatus : s = mem[n]
          BY <1>1, <2>2, ListFacts DEF TypeOK
        <5>2. CASE answers[n] = "error"
          <6>1. PICK k : Answered(n) = [s EXCEPT !.online = FALSE, !.failures = k]
            BY <3>3, <5>1, <5>2, Zenon DEF Answered
          <6>2. QED
            BY <5>1, <6>1 DEF NodeStatus
        <5>3. CASE answers[n] = "nonsense"
          BY <3>3, <5>3 DEF Answered
        <5>4. QED
          BY <3>4, <3>6, <5>2, <5>3
      <4>2. \A x \in DOMAIN mem : mem'[x].active = mem[x].active /\ mem'[x].max = mem[x].max
        BY <3>2, <4>1
      <4>3. Unsettled' = Unsettled
        BY <1>3, <3>2, <4>2 DEF Unsettled
      <4>4. Alarming => Alarming'
        <5>1. \A x \in DOMAIN mem : mem[x].active \in Int /\ mem[x].max \in Int
          BY <1>1, ListFacts DEF TypeOK, NodeStatus
        <5>2. QED
          BY <1>1, <1>2, <3>2, <4>2, <5>1, AlarmingStays
      <4>5. Armed' => Armed
        BY <1>3, <4>4 DEF Armed
      <4>6. QED
        BY <1>1, <4>3, <4>5, CountFacts DEF Credit, Countable
    <3>7. QED
      BY <3>5, <3>6
  <2>3. QED
    BY <2>1, <2>2
<1>6. QED
  <2>1. webhooks + Credit <= Budget /\ webhooks \in Nat /\ Credit \in Nat /\ Budget \in Nat
    BY <1>1, BudgetFacts DEF AlarmInv, CreditCovers, TypeOK, Affordable
  <2>2. Credit' \in Nat
    BY <1>2, BudgetNext DEF Affordable
  <2>3. webhooks' + Credit' <= Budget
    <3>1. webhooks' = webhooks
      BY <1>3
    <3>2. QED
      BY <1>5, <2>1, <2>2, <3>1, Spending
  <2>4. hub' = "up" /\ Budget' = Budget
    BY <1>1, <1>3, <1>4
  <2>5. QED
    BY <2>3, <2>4 DEF CreditCovers

(* A load that falls, or a room that grows, unsettles at most its node,    *)
(* and is paid for.                                                        *)
LEMMA ChangeCredit == ASSUME AlarmInv, NEW n \in Nodes, Change(n) PROVE CreditCovers'
<1>1. TypeOK /\ UNCHANGED <<hub, mem, fired, webhooks, crashes>>
  BY DEF AlarmInv, Change, poller
<1>2. Alarming' <=> Alarming
  BY <1>1 DEF Alarming, Total, Places
<1>3. FullCredit' = FullCredit
  BY DEF FullCredit
<1>4. /\ FullCredit \in Nat /\ crashes \in Nat /\ eased \in Nat /\ webhooks \in Nat
      /\ Credit \in Nat /\ Cardinality(Unsettled) \in Nat /\ IsFiniteSet(Unsettled)
  BY <1>1, BudgetFacts, CountFacts DEF TypeOK, Countable, Affordable
<1>5. PICK f \in Nat : f = (crashes + 1) * FullCredit
  BY <1>4
<1>6. Budget = f + eased /\ Budget' = f + eased'
  BY <1>1, <1>3, <1>5 DEF Budget
<1>7. webhooks + (IF hub = "up" THEN Credit ELSE FullCredit) <= f + eased
  BY <1>6 DEF AlarmInv, CreditCovers
<1>8. /\ DOMAIN mem \subseteq Nodes
      /\ \A x \in DOMAIN mem : mem[x].active \in Int /\ mem[x].max \in Int
      /\ \A x \in Nodes : load[x] \in Int /\ room[x] \in Int
  BY <1>1, ListFacts DEF TypeOK, NodeStatus
<1>9. \/ eased' = eased /\ Unsettled' \subseteq Unsettled
      \/ eased' = eased + 1 /\ Unsettled' \subseteq Unsettled \cup {n}
  <2>1. CASE load' = load /\ room' = room /\ eased' = eased
    BY <1>1, <2>1 DEF Unsettled
  <2>2. ASSUME NEW agents \in 0..Capacity \ {load[n]}, load' = [load EXCEPT ![n] = agents],
               room' = room, eased' = IF agents < load[n] THEN eased + 1 ELSE eased
        PROVE  (eased' = eased /\ Unsettled' \subseteq Unsettled)
               \/ (eased' = eased + 1 /\ Unsettled' \subseteq Unsettled \cup {n})
    <3>1. agents \in Int /\ load'[n] = agents /\ \A x \in Nodes \ {n} : load'[x] = load[x]
      BY <1>1, <2>2, HubAssumption DEF TypeOK
    <3>2. Unsettled' \subseteq Unsettled \cup {n}
      BY <1>1, <1>8, <2>2, <3>1 DEF Unsettled
    <3>3. ~(agents < load[n]) => Unsettled' \subseteq Unsettled
      BY <1>1, <1>8, <2>2, <3>1 DEF Unsettled
    <3>4. QED
      BY <2>2, <3>2, <3>3
  <2>3. ASSUME NEW agents \in 0..Capacity \ {room[n]}, room' = [room EXCEPT ![n] = agents],
               load' = load, eased' = IF agents > room[n] THEN eased + 1 ELSE eased
        PROVE  (eased' = eased /\ Unsettled' \subseteq Unsettled)
               \/ (eased' = eased + 1 /\ Unsettled' \subseteq Unsettled \cup {n})
    <3>1. agents \in Int /\ room'[n] = agents /\ \A x \in Nodes \ {n} : room'[x] = room[x]
      BY <1>1, <2>3, HubAssumption DEF TypeOK
    <3>2. Unsettled' \subseteq Unsettled \cup {n}
      BY <1>1, <1>8, <2>3, <3>1 DEF Unsettled
    <3>3. ~(agents > room[n]) => Unsettled' \subseteq Unsettled
      BY <1>1, <1>8, <2>3, <3>1 DEF Unsettled
    <3>4. QED
      BY <2>3, <3>2, <3>3
  <2>4. QED
    BY <2>1, <2>2, <2>3 DEF Change
<1>10. Cardinality(Unsettled') \in Nat /\ eased' \in Nat /\ eased <= eased'
       /\ Cardinality(Unsettled') <= Cardinality(Unsettled) + (eased' - eased)
  <2>1. CASE eased' = eased /\ Unsettled' \subseteq Unsettled
    <3>1. Cardinality(Unsettled') <= Cardinality(Unsettled) /\ Cardinality(Unsettled') \in Nat
      BY <1>4, <2>1, FS_Subset, FS_CardinalityType
    <3>2. QED
      BY <1>4, <2>1, <3>1
  <2>2. CASE eased' = eased + 1 /\ Unsettled' \subseteq Unsettled \cup {n}
    <3>1. /\ IsFiniteSet(Unsettled \cup {n})
          /\ Cardinality(Unsettled \cup {n})
               = IF n \in Unsettled THEN Cardinality(Unsettled) ELSE Cardinality(Unsettled) + 1
      BY <1>4, FS_AddElement
    <3>2. Cardinality(Unsettled') <= Cardinality(Unsettled \cup {n})
          /\ Cardinality(Unsettled') \in Nat
      BY <2>2, <3>1, FS_Subset, FS_CardinalityType
    <3>3. QED
      BY <1>4, <2>2, <3>1, <3>2
  <2>3. QED
    BY <1>9, <2>1, <2>2
<1>11. Credit' <= Credit + (eased' - eased) /\ Credit' \in Nat
  <2>1. PICK e \in {0, 1} : e = IF Armed THEN 1 ELSE 0
    OBVIOUS
  <2>2. e = IF Armed' THEN 1 ELSE 0
    BY <1>1, <1>2, <2>1 DEF Armed
  <2>3. Credit = Cardinality(Unsettled) + e /\ Credit' = Cardinality(Unsettled') + e
    BY <2>1, <2>2 DEF Credit
  <2>4. QED
    BY <1>4, <1>10, <2>1, <2>3
<1>12. CASE hub = "up"
  <2>1. webhooks + Credit' <= f + eased'
    BY <1>4, <1>7, <1>10, <1>11, <1>12, Spending
  <2>2. QED
    BY <1>1, <1>6, <1>12, <2>1 DEF CreditCovers
<1>13. CASE hub # "up"
  <2>1. webhooks + FullCredit <= f + eased'
    <3>1. FullCredit <= FullCredit + (eased' - eased)
      BY <1>4, <1>10, Spending
    <3>2. QED
      BY <1>4, <1>7, <1>10, <1>13, <3>1, Spending
  <2>2. QED
    BY <1>1, <1>3, <1>6, <1>13, <2>1 DEF CreditCovers
<1>14. QED
  BY <1>12, <1>13

(* Every step is covered.                                                  *)
LEMMA CreditStep == AlarmInv /\ [Next]_vars => CreditCovers'
<1> SUFFICES ASSUME AlarmInv, [Next]_vars PROVE CreditCovers'
  OBVIOUS
<1>0. TypeOK /\ TypeOK' /\ FullCredit' = FullCredit /\ FullCredit \in Nat
  BY TypeStep, BudgetFacts DEF AlarmInv, FullCredit, Affordable
<1>1. CASE Start
  <2>1. webhooks + FullCredit <= Budget /\ Budget' = Budget /\ UNCHANGED webhooks
    BY <1>0, <1>1 DEF Start, AlarmInv, CreditCovers, Budget, world
  <2>2. Credit' \in Nat /\ Credit' <= FullCredit
    BY <1>0, BudgetNext DEF Affordable
  <2>3. QED
    BY <1>0, <1>1, <2>1, <2>2, BudgetFacts DEF Start, CreditCovers, TypeOK, Affordable
<1>2. CASE Crash
  <2>1. hub = "up" /\ hub' = "down" /\ crashes' = crashes + 1 /\ UNCHANGED <<webhooks, eased>>
    BY <1>2 DEF Crash, world
  <2>2. webhooks + Credit <= Budget /\ Credit \in Nat /\ Budget \in Nat /\ webhooks \in Nat
    BY <1>0, <2>1, BudgetFacts DEF AlarmInv, CreditCovers, TypeOK, Affordable
  <2>3. Budget' = Budget + FullCredit
    <3>1. (crashes + 1 + 1) * FullCredit = (crashes + 1) * FullCredit + FullCredit
      BY <1>0 DEF TypeOK
    <3>2. eased \in Nat /\ (crashes + 1) * FullCredit \in Nat
      BY <1>0 DEF TypeOK
    <3>3. QED
      BY <1>0, <2>1, <3>1, <3>2 DEF Budget
  <2>4. QED
    BY <1>0, <2>1, <2>2, <2>3 DEF CreditCovers
<1>3. ASSUME NEW n \in Nodes, Poll(n) PROVE CreditCovers'
  <2>1. CASE Merge(n)
    BY <2>1, MergeCredit
  <2>2. CASE SaveOpen(n) \/ SaveWrite(n)
    BY <2>2, SameCredit DEF SaveOpen, SaveWrite, poller, world, AlarmInv
  <2>3. QED
    BY <1>3, <2>1, <2>2 DEF Poll
<1>4. CASE Tick \/ UNCHANGED vars
  BY <1>4, SameCredit DEF Tick, vars, poller, world, AlarmInv
<1>5. ASSUME NEW a \in Adders, Add(a) \/ \E n \in Nodes : AddLoad(a, n) PROVE CreditCovers'
  BY <1>5, SameCredit DEF Add, AddOpen, AddWrite, AddLoad, poller, world, AlarmInv
<1>6. QED
  BY <1>1, <1>2, <1>3, <1>4, <1>5, CheckCredit, ChangeCredit DEF Next

(* The alarm does not flap: whatever the loads do around the threshold, an *)
(* alarm after the first is paid for by a load that fell, by a max_agents  *)
(* that rose, by a node that was not counted yet, or by a restart.         *)
THEOREM AlarmsBounded == Spec => []AlarmBound
<1>1. Init => AlarmInv
  <2> SUFFICES ASSUME Init PROVE AlarmInv
    OBVIOUS
  <2>1. TypeOK /\ FullCredit \in Nat
    BY TypeInit, BudgetFacts DEF Affordable
  <2>2. HubDown /\ AskedAsHeld
    BY DEF Init, HubDown, AskedAsHeld, IdlePoll
  <2>3. webhooks = 0 /\ crashes = 0 /\ eased = 0 /\ hub = "down"
    BY DEF Init
  <2>4. Budget = FullCredit
    BY <2>1, <2>3 DEF Budget
  <2>5. QED
    BY <2>1, <2>2, <2>3, <2>4 DEF AlarmInv, CreditCovers
<1>2. AlarmInv /\ [Next]_vars => AlarmInv'
  BY TypeStep, HubDownStep, AskedStep, CreditStep DEF AlarmInv
<1>3. AlarmInv => AlarmBound
  BY BudgetFacts DEF AlarmInv, Affordable
<1>4. QED
  BY <1>1, <1>2, <1>3, PTL DEF Spec

=============================================================================
