----------------------------- MODULE StoreProofs -----------------------------
(***************************************************************************)
(* The stores of a node, for any number of tasks, requests and crashes.    *)
(* Each behaviour of Stores is one of a store and leaves the others alone, *)
(* so what is proved of a store's steps holds of the node's.  The last     *)
(* part is about the run of a workflow and the processes it leaves.        *)
(***************************************************************************)
EXTENDS Stores, FiniteSetTheorems, WellFoundedInduction, TLAPS

(* A step of the node is one of the store that the behaviour is about.     *)
LEMMA Steps ==
  ASSUME [Next]_vars
  PROVE  /\ part' = part
         /\ part = "usage" => [Usage!UNext]_(Usage!uvars)
         /\ part = "secrets" => [Secrets!SNext]_(Secrets!svars)
         /\ part = "memory" => [Memory!MNext]_(Memory!mvars)
         /\ part = "policy" => [Policy!PNext]_(Policy!pvars)
<1>1. CASE Next
  <2>1. part' = part
    BY <1>1 DEF Next
  <2>2. part = "usage" => Usage!UNext
    BY <1>1 DEF Next
  <2>3. part = "secrets" => Secrets!SNext
    BY <1>1 DEF Next
  <2>4. part = "memory" => Memory!MNext
    BY <1>1 DEF Next
  <2>5. part = "policy" => Policy!PNext
    BY <1>1 DEF Next
  <2>6. QED
    BY <2>1, <2>2, <2>3, <2>4, <2>5
<1>2. CASE UNCHANGED vars
  BY <1>2 DEF vars, usageVars, secretVars, memoryVars, policyVars, Usage!uvars, Secrets!svars,
              Memory!mvars, Policy!pvars
<1>3. QED
  BY <1>1, <1>2

(* The stores count alike.                                                 *)
LEMMA Counting ==
  /\ \A S : Usage!Cardinality(S) = Cardinality(S)
  /\ \A S : Policy!Cardinality(S) = Cardinality(S)
<1>1. \A S : Usage!Cardinality(S) = Cardinality(S)
  BY DEF Usage!Cardinality, Cardinality
<1>2. \A S : Policy!Cardinality(S) = Cardinality(S)
  BY DEF Policy!Cardinality, Cardinality
<1>3. QED
  BY <1>1, <1>2

-----------------------------------------------------------------------------
(* The usage of a tenant.                                                  *)
Billing == {"starts", "stops", "samples"}
Events == {"start", "stop", "sample", "reset"}
Loading == {k \in Tasks : meter[k].pc = "load"}

(* Whoever is busy has an event to count.                                  *)
EventInv == \A k \in Tasks : meter[k].pc # "idle" => meter[k].event \in Events

(* What is about to be written charges for no more than what will have     *)
(* happened then.                                                          *)
BoundInv ==
  ~overtaken =>
    /\ \A c \in Billing : usage[c] <= billed[c]
    /\ \A k \in Usage!Holding, c \in Billing :
         meter[k].copy[c] <= Usage!Counted(billed, meter[k].event)[c]

(* Without a race one task at most holds the file, and what it is about to *)
(* write is what will have happened.                                       *)
ExactInv ==
  ~tangled =>
    /\ \A j, k \in Usage!Holding : j = k
    /\ \A c \in Billing : usage[c] = billed[c]
    /\ \A k \in Usage!Holding, c \in Billing :
         meter[k].copy[c] = Usage!Counted(billed, meter[k].event)[c]

(* Numbers u that will be those of the list once the one task that has     *)
(* changed the list, if there is one, has counted its event.  Of two such  *)
(* tasks the first to load is in a race with the other.                    *)
Agrees(u) ==
  /\ Loading = {} => u.current = Cardinality(listed)
  /\ \A j \in Tasks : Loading = {j} => Usage!Counted(u, meter[j].event).current = Cardinality(listed)

CurrentInv ==
  ~tangled /\ ~drifted =>
    /\ Usage!Holding = {} => Agrees(usage)
    /\ \A k \in Usage!Holding : Agrees(meter[k].copy)

UsageInv == /\ Usage!UTypeOK /\ IsFiniteSet(listed) /\ EventInv
        /\ BoundInv /\ ExactInv /\ CurrentInv

Bounded == MaxOps \in Nat /\ MaxCrashes \in Nat

-----------------------------------------------------------------------------
(* Counting gives counts.                                                  *)
LEMMA CountedTyped ==
  ASSUME NEW u \in Usage!Counts, NEW e \in Events
  PROVE  Usage!Counted(u, e) \in Usage!Counts
  <1>1. u.starts + 1 \in Nat /\ u.stops + 1 \in Nat /\ u.current + 1 \in Nat
        /\ (IF u.current = 0 THEN 0 ELSE u.current - 1) \in Nat
    BY DEF Usage!Counts
  <1>2. CASE e = "start"
    <2>1. Usage!Counted(u, e) = [[u EXCEPT !.starts = @ + 1] EXCEPT !.current = u.current + 1]
      BY <1>2 DEF Usage!Counted, Usage!Counts
    <2>2. [u EXCEPT !.starts = @ + 1] \in Usage!Counts
      BY <1>1 DEF Usage!Counts
    <2> QED
      BY <1>1, <2>1, <2>2 DEF Usage!Counts
  <1>3. CASE e = "stop"
    <2>1. Usage!Counted(u, e) = [[u EXCEPT !.stops = @ + 1]
                             EXCEPT !.current = IF u.current = 0 THEN 0 ELSE u.current - 1]
      BY <1>3 DEF Usage!Counted, Usage!Counts
    <2>2. [u EXCEPT !.stops = @ + 1] \in Usage!Counts
      BY <1>1 DEF Usage!Counts
    <2> QED
      BY <1>1, <2>1, <2>2 DEF Usage!Counts
  <1>4. CASE e = "sample"
    BY <1>4 DEF Usage!Counted, Usage!Counts
  <1>5. CASE e = "reset"
    BY <1>5 DEF Usage!Counted, Usage!Counts, Usage!Zero
  <1> QED
    BY <1>2, <1>3, <1>4, <1>5 DEF Events

(* The three numbers that are billed, one by one.                          *)
LEMMA CountedBilling ==
  ASSUME NEW u \in Usage!Counts, NEW e \in Events
  PROVE  /\ Usage!Counted(u, e).starts = IF e = "reset" THEN 0 ELSE IF e = "start" THEN u.starts + 1 ELSE u.starts
         /\ Usage!Counted(u, e).stops = IF e = "reset" THEN 0 ELSE IF e = "stop" THEN u.stops + 1 ELSE u.stops
         /\ Usage!Counted(u, e).samples = IF e = "reset" THEN 0 ELSE IF e = "sample" THEN u.samples + 1 ELSE u.samples
  <1>1. CASE e = "start"
    BY <1>1 DEF Usage!Counted, Usage!Counts
  <1>2. CASE e = "stop"
    BY <1>2 DEF Usage!Counted, Usage!Counts
  <1>3. CASE e = "sample"
    BY <1>3 DEF Usage!Counted, Usage!Counts
  <1>4. CASE e = "reset"
    BY <1>4 DEF Usage!Counted, Usage!Counts, Usage!Zero
  <1> QED
    BY <1>1, <1>2, <1>3, <1>4 DEF Events

(* Counting one event more keeps the order of what is billed.              *)
LEMMA CountedMonotone ==
  ASSUME NEW u \in Usage!Counts, NEW v \in Usage!Counts, NEW e \in Events,
         \A c \in Billing : u[c] <= v[c]
  PROVE  \A c \in Billing : Usage!Counted(u, e)[c] <= Usage!Counted(v, e)[c]
  <1>1. u.starts <= v.starts /\ u.stops <= v.stops /\ u.samples <= v.samples
    BY DEF Billing
  <1>2. u.starts \in Nat /\ v.starts \in Nat /\ u.stops \in Nat /\ v.stops \in Nat
        /\ u.samples \in Nat /\ v.samples \in Nat
    BY DEF Usage!Counts
  <1>3. Usage!Counted(u, e).starts <= Usage!Counted(v, e).starts
    BY <1>1, <1>2, CountedBilling
  <1>4. Usage!Counted(u, e).stops <= Usage!Counted(v, e).stops
    BY <1>1, <1>2, CountedBilling
  <1>5. Usage!Counted(u, e).samples <= Usage!Counted(v, e).samples
    BY <1>1, <1>2, CountedBilling
  <1> QED
    BY <1>3, <1>4, <1>5 DEF Billing

(* What is billed after an event depends on what was billed before it.     *)
LEMMA CountedSame ==
  ASSUME NEW u \in Usage!Counts, NEW v \in Usage!Counts, NEW e \in Events,
         \A c \in Billing : u[c] = v[c]
  PROVE  \A c \in Billing : Usage!Counted(u, e)[c] = Usage!Counted(v, e)[c]
  BY DEF Usage!Counted, Usage!Counts, Events, Usage!Zero, Billing

(* Except for a reset, an event only adds.                                 *)
LEMMA CountedAdds ==
  ASSUME NEW u \in Usage!Counts, NEW e \in Events, e # "reset"
  PROVE  \A c \in Billing : u[c] <= Usage!Counted(u, e)[c]
  <1>1. u.starts <= Usage!Counted(u, e).starts
    BY CountedBilling DEF Usage!Counts
  <1>2. u.stops <= Usage!Counted(u, e).stops
    BY CountedBilling DEF Usage!Counts
  <1>3. u.samples <= Usage!Counted(u, e).samples
    BY CountedBilling DEF Usage!Counts
  <1> QED
    BY <1>1, <1>2, <1>3 DEF Billing

(* A reset leaves zeros.                                                   *)
LEMMA ZeroCounts ==
  Usage!Zero \in Usage!Counts /\ \A c \in Billing : Usage!Zero[c] = 0
  BY DEF Usage!Zero, Usage!Counts, Billing

-----------------------------------------------------------------------------
(* The invariant at the start, and at each step of a task and a crash.     *)
LEMMA UsageInit == ASSUME Bounded, Usage!UInit PROVE UsageInv
  <1> USE DEF Usage!UInit, Bounded, Usage!Idle, Usage!Holding, Loading
  <1>1. Usage!UTypeOK
    <2>1. meter \in [Tasks -> [pc: {"idle", "load", "save"}, copy: Usage!Counts,
                              event: {"none", "start", "stop", "sample", "reset"}]]
      BY ZeroCounts
    <2>2. ops \in 0..MaxOps /\ uncrashed \in 0..MaxCrashes
      OBVIOUS
    <2>3. {tangled, overtaken, drifted} \subseteq BOOLEAN
      OBVIOUS
    <2> QED
      BY ZeroCounts, <2>1, <2>2, <2>3 DEF Usage!UTypeOK
  <1>2. IsFiniteSet(listed) /\ Cardinality(listed) = 0
    BY FS_EmptySet
  <1>3. EventInv
    BY DEF EventInv
  <1>4. BoundInv /\ ExactInv
    BY ZeroCounts DEF BoundInv, ExactInv
  <1>5. CurrentInv
    BY <1>2 DEF CurrentInv, Agrees, Usage!Zero
  <1> QED
    BY <1>1, <1>2, <1>3, <1>4, <1>5 DEF UsageInv

(* A task begins: what it is about to do is not in the file yet.           *)
LEMMA UsageBegin ==
  ASSUME Bounded, UsageInv, NEW k \in Tasks, NEW e \in Events, Usage!Begin(k, e)
  PROVE  UsageInv'
  <1> USE DEF Bounded
  <1>1. /\ meter \in [Tasks -> [pc: {"idle", "load", "save"}, copy: Usage!Counts,
                                event: {"none", "start", "stop", "sample", "reset"}]]
        /\ meter' = [meter EXCEPT ![k] = [Usage!Idle EXCEPT !.pc = "load", !.event = e]]
        /\ meter[k].pc = "idle" /\ usage' = usage /\ billed' = billed
        /\ tangled' = tangled /\ overtaken' = overtaken
    BY DEF Usage!Begin, UsageInv, Usage!UTypeOK
  <1>2. /\ meter'[k] = [pc |-> "load", event |-> e, copy |-> Usage!Zero]
        /\ \A j \in Tasks \ {k} : meter'[j] = meter[j]
    BY <1>1 DEF Usage!Idle
  <1>3. IsFiniteSet(listed) /\ listed \subseteq Metered
    BY DEF UsageInv, Usage!UTypeOK
  <1>4. IsFiniteSet(listed') /\ listed' \subseteq Metered
    BY <1>3, FS_AddElement, FS_RemoveElement DEF Usage!Begin, Events
  <1>5. Usage!UTypeOK'
    <2>1. meter' \in [Tasks -> [pc: {"idle", "load", "save"}, copy: Usage!Counts,
                                event: {"none", "start", "stop", "sample", "reset"}]]
      <3> DEFINE R == [pc: {"idle", "load", "save"}, copy: Usage!Counts,
                       event: {"none", "start", "stop", "sample", "reset"}]
      <3>1. [pc |-> "load", event |-> e, copy |-> Usage!Zero] \in R
        BY ZeroCounts DEF Events
      <3> HIDE DEF R
      <3>2. PICK r : meter' = [meter EXCEPT ![k] = r]
        BY <1>1
      <3>3. meter \in [Tasks -> R]
        BY <1>1 DEF R
      <3>4. r \in R
        BY <1>2, <3>1, <3>2, <3>3
      <3>5. meter' \in [Tasks -> R]
        BY <3>2, <3>3, <3>4
      <3> QED
        BY <3>5 DEF R
    <2>2. ops' \in 0..MaxOps /\ uncrashed' \in 0..MaxCrashes
      BY DEF Usage!Begin, UsageInv, Usage!UTypeOK
    <2>3. drifted' \in BOOLEAN
      BY DEF Usage!Begin, UsageInv, Usage!UTypeOK, Events
    <2> QED
      BY <1>1, <1>4, <2>1, <2>2, <2>3 DEF Usage!UTypeOK, UsageInv
  <1>6. EventInv'
    BY <1>2 DEF EventInv, UsageInv
  <1>7. Usage!Holding' = Usage!Holding /\ k \notin Usage!Holding
    BY <1>1, <1>2 DEF Usage!Holding
  <1>8. BoundInv' /\ ExactInv'
    <2>1. \A j \in Usage!Holding : j \in Tasks /\ meter'[j] = meter[j]
      BY <1>2, <1>7 DEF Usage!Holding
    <2> QED
      <3>1. BoundInv /\ ExactInv
        BY DEF UsageInv
      <3>2. BoundInv'
        BY <1>1, <1>7, <2>1, <3>1 DEF BoundInv
      <3>3. ExactInv'
        BY <1>1, <1>7, <2>1, <3>1 DEF ExactInv
      <3> QED
        BY <3>2, <3>3
  <1>9. CurrentInv'
    <2> SUFFICES ASSUME ~tangled', ~drifted'
                 PROVE  /\ Usage!Holding' = {} => Agrees(usage)'
                        /\ \A j \in Usage!Holding' : Agrees(meter[j].copy)'
      BY DEF CurrentInv
    <2>1. ~tangled /\ ~drifted
      <3>1. \/ drifted' = drifted
            \/ \E a \in Metered : drifted' = (drifted \/ a \in listed)
            \/ drifted' = (drifted \/ listed # {})
        BY DEF Usage!Begin
      <3>2. drifted => drifted'
        BY <3>1, Zenon
      <3> QED
        BY <1>1, <3>2
    <2>2. Loading' = Loading \cup {k} /\ k \notin Loading
      BY <1>1, <1>2 DEF Loading
    <2>3. ASSUME NEW u \in Usage!Counts, u.current = Cardinality(listed)
          PROVE  Usage!Counted(u, e).current = Cardinality(listed')
      <3>1. CASE e = "start"
        <4>1. PICK a \in Metered : listed' = listed \cup {a} /\ a \notin listed
          BY <3>1 DEF Usage!Begin
        <4>2. Cardinality(listed') = Cardinality(listed) + 1
          BY <1>3, <4>1, FS_AddElement
        <4> QED
          BY <3>1, <4>2, <2>3 DEF Usage!Counted, Usage!Counts
      <3>2. CASE e = "stop"
        <4>1. PICK a \in listed : listed' = listed \ {a}
          BY <3>2 DEF Usage!Begin
        <4>2. Cardinality(listed') = Cardinality(listed) - 1
          BY <1>3, <4>1, FS_RemoveElement
        <4>3. Cardinality(listed') \in Nat /\ Cardinality(listed) \in Nat
          BY <1>3, <1>4, FS_CardinalityType
        <4>4. u.current # 0
          BY <4>2, <4>3, <2>3
        <4> QED
          BY <3>2, <4>2, <4>4, <2>3 DEF Usage!Counted, Usage!Counts
      <3>3. CASE e = "sample"
        BY <3>3, <2>3 DEF Usage!Counted, Usage!Counts, Usage!Begin
      <3>4. CASE e = "reset"
        <4>1. listed = {} /\ listed' = {}
          BY <3>4 DEF Usage!Begin
        <4> QED
          BY <3>4, <4>1, FS_EmptySet DEF Usage!Counted, Usage!Zero
      <3> QED
        BY <3>1, <3>2, <3>3, <3>4 DEF Events
    <2>4. ASSUME NEW u \in Usage!Counts, Agrees(u)
          PROVE  /\ Loading' = {} => u.current = Cardinality(listed')
                 /\ \A j \in Tasks : Loading' = {j} =>
                      Usage!Counted(u, meter'[j].event).current = Cardinality(listed')
      <3> SUFFICES ASSUME NEW j \in Tasks, Loading' = {j}
                   PROVE  Usage!Counted(u, meter'[j].event).current = Cardinality(listed')
        BY <2>2
      <3>1. j = k /\ Loading = {}
        BY <2>2
      <3>2. u.current = Cardinality(listed)
        BY <3>1, <2>4 DEF Agrees
      <3> QED
        BY <3>1, <3>2, <2>3, <1>2
    <2>5. Usage!Holding' = {} => Agrees(usage)'
      <3>1. usage \in Usage!Counts
        BY DEF UsageInv, Usage!UTypeOK
      <3> QED
        BY <1>1, <1>7, <2>1, <2>4, <3>1 DEF CurrentInv, Agrees, UsageInv
    <2>6. ASSUME NEW j \in Usage!Holding' PROVE Agrees(meter[j].copy)'
      <3>1. j \in Usage!Holding /\ j \in Tasks /\ meter'[j] = meter[j] /\ meter[j].copy \in Usage!Counts
        BY <1>1, <1>2, <1>7 DEF Usage!Holding
      <3>2. Agrees(meter[j].copy)
        BY <2>1, <3>1 DEF CurrentInv, UsageInv
      <3> QED
        BY <3>1, <3>2, <2>4 DEF Agrees
    <2> QED
      BY <2>5, <2>6
  <1> QED
    BY <1>4, <1>5, <1>6, <1>8, <1>9 DEF UsageInv

(* What a task reads is what the file says, or nothing.                    *)
LEMMA UsageLoad ==
  ASSUME UsageInv, NEW k \in Tasks, Usage!Load(k)
  PROVE  UsageInv'
  <1>1. /\ meter \in [Tasks -> [pc: {"idle", "load", "save"}, copy: Usage!Counts,
                                event: {"none", "start", "stop", "sample", "reset"}]]
        /\ meter[k].pc = "load" /\ meter[k].event \in Events
        /\ {usage, billed} \subseteq Usage!Counts
    BY DEF Usage!Load, UsageInv, Usage!UTypeOK, EventInv
  <1>2. PICK u \in Usage!Loaded :
          meter' = [meter EXCEPT ![k].pc = "save", ![k].copy = Usage!Counted(u, meter[k].event)]
    BY DEF Usage!Load
  <1>3. /\ usage' = usage /\ listed' = listed /\ billed' = billed /\ ops' = ops
        /\ uncrashed' = uncrashed /\ overtaken' = overtaken /\ drifted' = drifted
    BY DEF Usage!Load
  <1>4. u \in Usage!Counts /\ \A c \in Billing : u[c] <= billed[c] \/ overtaken
    <2>1. \A c \in Billing : 0 <= billed[c]
      BY <1>1 DEF Billing, Usage!Counts
    <2> QED
      BY <1>1, <2>1, ZeroCounts DEF Usage!Loaded, UsageInv, BoundInv
  <1>5. /\ meter'[k] = [pc |-> "save", event |-> meter[k].event,
                        copy |-> Usage!Counted(u, meter[k].event)]
        /\ \A j \in Tasks \ {k} : meter'[j] = meter[j]
    BY <1>1, <1>2
  <1>6. Usage!Holding' = Usage!Holding \cup {k} /\ Loading' = Loading \ {k} /\ k \notin Usage!Holding
    BY <1>1, <1>5 DEF Usage!Holding, Loading
  <1>7. Usage!UTypeOK'
    <2>1. meter' \in [Tasks -> [pc: {"idle", "load", "save"}, copy: Usage!Counts,
                                event: {"none", "start", "stop", "sample", "reset"}]]
      <3>1. Usage!Counted(u, meter[k].event) \in Usage!Counts
        BY <1>1, <1>4, CountedTyped
      <3>2. \A j \in Tasks : meter'[j] \in [pc: {"idle", "load", "save"}, copy: Usage!Counts,
                                event: {"none", "start", "stop", "sample", "reset"}]
        BY <1>1, <1>5, <3>1
      <3>3. meter' = [j \in Tasks |-> meter'[j]]
        BY <1>1, <1>2
      <3> QED
        BY <3>2, <3>3
    <2>2. tangled' \in BOOLEAN
      BY DEF Usage!Load, UsageInv, Usage!UTypeOK
    <2> QED
      BY <1>3, <2>1, <2>2 DEF Usage!UTypeOK, UsageInv
  <1>8. EventInv'
    BY <1>1, <1>5 DEF EventInv, UsageInv
  <1>9. BoundInv'
    <2> SUFFICES ASSUME ~overtaken, NEW j \in Usage!Holding', NEW c \in Billing
                 PROVE  meter'[j].copy[c] <= Usage!Counted(billed, meter'[j].event)[c]
      BY <1>3 DEF BoundInv, UsageInv
    <2>1. CASE j = k
      BY <2>1, <1>1, <1>4, <1>5, CountedMonotone
    <2>2. CASE j # k
      BY <2>2, <1>5, <1>6 DEF BoundInv, UsageInv, Usage!Holding
    <2> QED
      BY <2>1, <2>2
  <1>10. ASSUME ~tangled'
         PROVE  ~tangled /\ Usage!Busy = {k} /\ Usage!Holding = {} /\ Loading = {k} /\ u = usage
    <2>1. ~tangled /\ Usage!Busy = {k}
      BY <1>10 DEF Usage!Load, UsageInv, Usage!UTypeOK
    <2>2. Usage!Holding = {}
      BY <2>1, <1>6 DEF Usage!Busy, Usage!Holding
    <2>3. Loading = {k}
      BY <2>1, <1>1 DEF Usage!Busy, Loading
    <2> QED
      BY <2>1, <2>2, <2>3 DEF Usage!Loaded
  <1>11. ExactInv'
    <2> SUFFICES ASSUME ~tangled'
                 PROVE  /\ \A i, j \in Usage!Holding' : i = j
                        /\ \A c \in Billing : usage[c] = billed[c]
                        /\ \A j \in Usage!Holding', c \in Billing :
                             meter'[j].copy[c] = Usage!Counted(billed, meter'[j].event)[c]
      BY <1>3 DEF ExactInv
    <2>1. \A c \in Billing : usage[c] = billed[c]
      BY <1>10 DEF UsageInv, ExactInv
    <2> QED
      BY <2>1, <1>1, <1>5, <1>6, <1>10, CountedSame
  <1>12. CurrentInv'
    <2> SUFFICES ASSUME ~tangled', ~drifted PROVE Agrees(Usage!Counted(u, meter[k].event))'
      BY <1>3, <1>5, <1>6, <1>10 DEF CurrentInv, Agrees
    <2>1. Usage!Counted(u, meter[k].event).current = Cardinality(listed)
      BY <1>10 DEF UsageInv, CurrentInv, Agrees
    <2> QED
      BY <2>1, <1>3, <1>5, <1>6, <1>10 DEF Agrees
  <1> QED
    BY <1>3, <1>7, <1>8, <1>9, <1>11, <1>12 DEF UsageInv

(* A save puts the copy in the place of what others have saved since.      *)
LEMMA UsageSave ==
  ASSUME UsageInv, NEW k \in Tasks, Usage!Save(k)
  PROVE  UsageInv'
  <1>1. /\ meter \in [Tasks -> [pc: {"idle", "load", "save"}, copy: Usage!Counts,
                                event: {"none", "start", "stop", "sample", "reset"}]]
        /\ meter[k].pc = "save" /\ meter[k].event \in Events
        /\ {usage, billed} \subseteq Usage!Counts /\ k \in Usage!Holding
    BY DEF Usage!Save, UsageInv, Usage!UTypeOK, EventInv, Usage!Holding
  <1>2. /\ usage' = meter[k].copy \/ (Usage!Holding # {k} /\ usage' = Usage!Zero)
        /\ billed' = Usage!Counted(billed, meter[k].event)
        /\ meter' = [meter EXCEPT ![k] = Usage!Idle]
        /\ listed' = listed /\ ops' = ops /\ uncrashed' = uncrashed
        /\ tangled' = tangled /\ drifted' = drifted
    BY DEF Usage!Save
  <1>3. /\ meter'[k] = Usage!Idle
        /\ \A j \in Tasks \ {k} : meter'[j] = meter[j]
    BY <1>1, <1>2
  <1>4. Usage!Holding' = Usage!Holding \ {k} /\ Loading' = Loading
    BY <1>1, <1>3 DEF Usage!Holding, Loading, Usage!Idle
  <1>5. billed' \in Usage!Counts /\ usage' \in Usage!Counts
    BY <1>1, <1>2, CountedTyped, ZeroCounts
  <1>6. Usage!UTypeOK'
    <2>1. Usage!Idle \in [pc: {"idle", "load", "save"}, copy: Usage!Counts,
                    event: {"none", "start", "stop", "sample", "reset"}]
      BY ZeroCounts DEF Usage!Idle
    <2>2. meter' \in [Tasks -> [pc: {"idle", "load", "save"}, copy: Usage!Counts,
                                event: {"none", "start", "stop", "sample", "reset"}]]
      BY <1>1, <1>2, <2>1
    <2>3. overtaken' \in BOOLEAN
      BY DEF Usage!Save, UsageInv, Usage!UTypeOK
    <2> QED
      BY <1>2, <1>5, <2>2, <2>3 DEF Usage!UTypeOK, UsageInv
  <1>7. EventInv'
    BY <1>3 DEF EventInv, UsageInv, Usage!Idle
  <1>8. BoundInv'
    <2> SUFFICES ASSUME ~overtaken'
                 PROVE  /\ \A c \in Billing : usage'[c] <= billed'[c]
                        /\ \A j \in Usage!Holding', c \in Billing :
                             meter'[j].copy[c] <= Usage!Counted(billed', meter'[j].event)[c]
      BY DEF BoundInv
    <2>1. ~overtaken /\ (meter[k].event = "reset" => Usage!Holding = {k})
      BY DEF Usage!Save, UsageInv, Usage!UTypeOK
    <2>2. \A j \in Usage!Holding, c \in Billing :
            meter[j].copy[c] <= Usage!Counted(billed, meter[j].event)[c]
      BY <2>1 DEF UsageInv, BoundInv
    <2>3. \A c \in Billing : usage'[c] <= billed'[c]
      <3>1. \A c \in Billing : 0 <= billed'[c]
        BY <1>5 DEF Usage!Counts, Billing
      <3> QED
        BY <2>2, <3>1, <1>1, <1>2, ZeroCounts
    <2>4. ASSUME NEW j \in Usage!Holding', NEW c \in Billing
          PROVE  meter'[j].copy[c] <= Usage!Counted(billed', meter'[j].event)[c]
      <3>1. j \in Usage!Holding /\ j # k /\ j \in Tasks /\ meter'[j] = meter[j]
        BY <1>3, <1>4 DEF Usage!Holding
      <3>2. meter[j].copy[c] <= Usage!Counted(billed, meter[j].event)[c]
        BY <2>2, <3>1
      <3>3. meter[j].event \in Events
        BY <3>1 DEF UsageInv, EventInv, Usage!Holding
      <3>4. \A d \in Billing : billed[d] <= billed'[d]
        BY <2>1, <3>1, <1>1, <1>2, CountedAdds
      <3>5. Usage!Counted(billed, meter[j].event)[c] <= Usage!Counted(billed', meter[j].event)[c]
        BY <3>3, <3>4, <1>1, <1>5, CountedMonotone
      <3>6. /\ Usage!Counted(billed, meter[j].event)[c] \in Nat
            /\ Usage!Counted(billed', meter[j].event)[c] \in Nat
            /\ meter[j].copy[c] \in Nat
        <4>1. ASSUME NEW u \in Usage!Counts PROVE u[c] \in Nat
          BY DEF Usage!Counts, Billing
        <4> QED
          BY <3>1, <3>3, <4>1, <1>1, <1>5, CountedTyped
      <3> QED
        BY <3>1, <3>2, <3>5, <3>6
    <2> QED
      BY <2>3, <2>4
  <1>9. ASSUME ~tangled
        PROVE  Usage!Holding = {k} /\ Usage!Holding' = {} /\ usage' = meter[k].copy
    BY <1>9, <1>1, <1>2, <1>4 DEF UsageInv, ExactInv
  <1>10. ExactInv'
    BY <1>1, <1>2, <1>9 DEF UsageInv, ExactInv
  <1>11. CurrentInv'
    <2> SUFFICES ASSUME ~tangled, ~drifted PROVE Agrees(usage)'
      BY <1>2, <1>9 DEF CurrentInv
    <2>1. Agrees(meter[k].copy)
      BY <1>1 DEF UsageInv, CurrentInv
    <2>2. \A j \in Tasks : Loading = {j} => meter'[j] = meter[j]
      BY <1>1, <1>3 DEF Loading
    <2> QED
      BY <2>1, <2>2, <1>2, <1>4, <1>9 DEF Agrees
  <1> QED
    BY <1>2, <1>6, <1>7, <1>8, <1>10, <1>11 DEF UsageInv

(* A crash forgets the tasks; what they were about to do never happens.    *)
LEMMA UsageCrash ==
  ASSUME Bounded, UsageInv, Usage!UCrash
  PROVE  UsageInv'
  <1>1. /\ usage' \in Usage!Loaded /\ meter' = [k \in Tasks |-> Usage!Idle]
        /\ listed' = listed /\ billed' = billed /\ ops' = ops
        /\ overtaken' = overtaken /\ drifted' = drifted
    BY DEF Usage!UCrash
  <1>2. usage \in Usage!Counts /\ billed \in Usage!Counts /\ usage' \in Usage!Counts
    BY <1>1, ZeroCounts DEF UsageInv, Usage!UTypeOK, Usage!Loaded
  <1>3. Usage!Holding' = {} /\ Loading' = {}
    BY <1>1 DEF Usage!Holding, Loading, Usage!Idle
  <1>4. Usage!UTypeOK'
    <2>1. meter' \in [Tasks -> [pc: {"idle", "load", "save"}, copy: Usage!Counts,
                                event: {"none", "start", "stop", "sample", "reset"}]]
      BY <1>1, ZeroCounts DEF Usage!Idle
    <2>2. uncrashed' \in 0..MaxCrashes
      BY DEF Usage!UCrash, UsageInv, Usage!UTypeOK, Bounded
    <2>3. tangled' \in BOOLEAN
      BY DEF Usage!UCrash, UsageInv, Usage!UTypeOK
    <2> QED
      BY <1>1, <1>2, <2>1, <2>2, <2>3 DEF Usage!UTypeOK, UsageInv
  <1>5. EventInv'
    BY <1>1 DEF EventInv, Usage!Idle
  <1>6. BoundInv'
    <2>1. \A c \in Billing : 0 <= billed[c]
      BY <1>2 DEF Billing, Usage!Counts
    <2> QED
      BY <2>1, <1>1, <1>3, ZeroCounts DEF BoundInv, UsageInv, Usage!Loaded
  <1>7. ASSUME ~tangled' PROVE ~tangled /\ Usage!Holding = {} /\ Loading = {} /\ usage' = usage
    <2>1. ~tangled /\ Usage!Busy = {}
      BY <1>7 DEF Usage!UCrash, UsageInv, Usage!UTypeOK
    <2> QED
      BY <2>1, <1>1 DEF Usage!Busy, Usage!Holding, Loading, Usage!Loaded
  <1>8. ExactInv'
    BY <1>1, <1>3, <1>7 DEF ExactInv, UsageInv
  <1>9. CurrentInv'
    BY <1>1, <1>3, <1>7 DEF CurrentInv, Agrees, UsageInv
  <1> QED
    BY <1>1, <1>4, <1>5, <1>6, <1>8, <1>9 DEF UsageInv

(* Every step keeps the invariant.                                         *)
LEMMA UsageNext == ASSUME Bounded, UsageInv, [Usage!UNext]_(Usage!uvars) PROVE UsageInv'
  <1>1. CASE Usage!UNext
    <2>1. ASSUME NEW k \in Tasks, NEW e \in Events, Usage!Begin(k, e) PROVE UsageInv'
      BY <2>1, UsageBegin
    <2> QED
      BY <1>1, <2>1, UsageLoad, UsageSave, UsageCrash DEF Usage!UNext, Events
  <1>2. CASE UNCHANGED Usage!uvars
    BY <1>2 DEF Usage!uvars, UsageInv, Usage!UTypeOK, EventInv, BoundInv, ExactInv, CurrentInv, Agrees,
                Usage!Holding, Loading
  <1> QED
    BY <1>1, <1>2

-----------------------------------------------------------------------------
(* What the usage file charges for follows from the invariant.             *)
LEMMA UsageHonest == ASSUME UsageInv PROVE Usage!MeterHonest
  <1>1. ~overtaken => \A c \in Billing : usage[c] <= billed[c]
    BY DEF UsageInv, BoundInv
  <1>2. ASSUME ~tangled, Usage!Busy = {}
        PROVE  /\ \A c \in Billing : usage[c] = billed[c]
               /\ ~drifted => usage.current = Cardinality(listed)
    <2>1. Usage!Holding = {} /\ Loading = {}
      BY <1>2 DEF Usage!Busy, Usage!Holding, Loading
    <2> QED
      BY <1>2, <2>1 DEF UsageInv, ExactInv, CurrentInv, Agrees
  <1> QED
    BY <1>1, <1>2, Counting DEF Usage!MeterHonest, Billing

MeterInv == part = "usage" => UsageInv

(* load_usage, record_start, record_stop, save_usage: no interleaving of   *)
(* handlers, metering, resets and crashes charges for what did not happen, *)
(* and without a race the file is exact.                                   *)
THEOREM Honest == Spec => []MeterHonest
<1>1. Bounded
  BY StoresAssumption DEF Bounded
<1>2. Init => MeterInv
  BY <1>1, UsageInit DEF Init, MeterInv
<1>3. MeterInv /\ [Next]_vars => MeterInv'
  BY <1>1, Steps, UsageNext DEF MeterInv
<1>4. MeterInv => MeterHonest
  BY UsageHonest DEF MeterInv, MeterHonest
<1>5. QED
  BY <1>2, <1>3, <1>4, PTL DEF Spec

-----------------------------------------------------------------------------
(* The policy of a tenant.                                                 *)
Finite ==
  /\ IsFiniteSet(Governed) /\ IsFiniteSet(Tasks)
  /\ MaxAgents \in Nat /\ MaxOps \in Nat /\ MaxCrashes \in Nat
  /\ TenantPolicies \subseteq Policy!Policy

Request == [pc: {"idle", "start", "list", "put"}, agent: SUBSET Governed, put: SUBSET TenantPolicies]

(* A request between its check and the list has one agent; what is put is  *)
(* one policy, or none once the file was removed.                          *)
RequestInv ==
  /\ request \in [Tasks -> Request]
  /\ \A k \in Tasks :
       /\ request[k].pc \in {"start", "list"} => \E a \in Governed : request[k].agent = {a}
       /\ request[k].put = {} \/ \E p \in TenantPolicies : request[k].put = {p}

FileInv == policy = {} \/ \E p \in TenantPolicies : policy = {p}

(* Governed that run and were let in by requests under the last policy, and  *)
(* requests that are about to add one.                                     *)
Admitted == running \ (before \cup bypassed)
Entering == {k \in Tasks : request[k].pc \in {"start", "list"} /\ ~(request[k].agent \subseteq before)}
Count == Cardinality(Admitted) + Cardinality(Entering)

AllowedInv ==
  ~misread =>
    /\ \A a \in Admitted : Policy!CheckRun(Policy!InForce, a, 0)
    /\ \A k \in Entering : \A a \in request[k].agent : Policy!CheckRun(Policy!InForce, a, 0)

(* What a limit leaves room for: a request in flight will add one, and a   *)
(* new one is let in only while fewer run than the limit.                  *)
Within(limit) == Count = 0 \/ Count < limit + Cardinality(Tasks)

CountInv == ~misread => Within(Policy!InForce.max) /\ Within(MaxAgents)

PolicyInv == Policy!PTypeOK /\ RequestInv /\ FileInv /\ AllowedInv /\ CountInv

-----------------------------------------------------------------------------
(* What is in force is a policy; without a file, one that forbids nothing. *)
LEMMA InForceTyped ==
  ASSUME Finite, FileInv
  PROVE  /\ Policy!InForce \in Policy!Policy /\ Policy!Permissive \in Policy!Policy
         /\ \A a \in Governed : Policy!CheckRun(Policy!Permissive, a, 0)
         /\ Policy!Permissive.max \in Nat /\ Policy!Permissive.max >= MaxAgents
         /\ Policy!InForce.max \in Nat
  <1>1. Cardinality(Governed) \in Nat
    BY FS_CardinalityType DEF Finite
  <1>2. Policy!NoLimit \in Nat /\ Policy!NoLimit >= MaxAgents
    BY <1>1, Counting DEF Policy!NoLimit, Finite
  <1>3. Policy!Permissive \in Policy!Policy
    BY <1>2 DEF Policy!Permissive, Policy!Policy
  <1>4. \A a \in Governed : Policy!CheckRun(Policy!Permissive, a, 0)
    <2> SUFFICES ASSUME NEW a \in Governed PROVE 0 < Policy!NoLimit
      BY DEF Policy!CheckRun, Policy!Permissive
    <2>1. Cardinality(Governed) # 0
      BY FS_EmptySet DEF Finite
    <2> QED
      BY <2>1, <1>1, Counting DEF Policy!NoLimit, Finite
  <1>5. Policy!InForce \in Policy!Policy
    BY <1>3 DEF Policy!InForce, FileInv, Finite
  <1> QED
    BY <1>2, <1>3, <1>4, <1>5 DEF Policy!Permissive, Policy!Policy

(* The two sets that are counted are finite.                               *)
LEMMA CountTyped ==
  ASSUME Finite, Policy!PTypeOK
  PROVE  /\ IsFiniteSet(running) /\ IsFiniteSet(Admitted) /\ IsFiniteSet(Entering)
         /\ Cardinality(running) \in Nat /\ Cardinality(Admitted) \in Nat
         /\ Cardinality(Entering) \in Nat /\ Count \in Nat /\ Cardinality(Tasks) \in Nat
         /\ Cardinality(Admitted) <= Cardinality(running)
         /\ Cardinality(Entering) <= Cardinality(Tasks)
  <1>1. running \subseteq Governed /\ Admitted \subseteq running /\ Entering \subseteq Tasks
    BY DEF Policy!PTypeOK, Admitted, Entering
  <1>2. IsFiniteSet(running)
    BY <1>1, FS_Subset DEF Finite
  <1>3. IsFiniteSet(Admitted) /\ Cardinality(Admitted) <= Cardinality(running)
    BY <1>1, <1>2, FS_Subset
  <1>4. IsFiniteSet(Entering) /\ Cardinality(Entering) <= Cardinality(Tasks)
    BY <1>1, FS_Subset DEF Finite
  <1> QED
    BY <1>2, <1>3, <1>4, FS_CardinalityType DEF Finite, Count

(* A set that does not grow has no more elements.                          *)
LEMMA Shrinks ==
  ASSUME NEW S, NEW T, IsFiniteSet(S), T \subseteq S
  PROVE  Cardinality(T) <= Cardinality(S) /\ Cardinality(T) \in Nat /\ Cardinality(S) \in Nat
  BY FS_Subset, FS_CardinalityType

(* A step that admits and lets in nobody new, and changes no rule, keeps   *)
(* both parts of the invariant.                                            *)
LEMMA NobodyNew ==
  ASSUME Finite, Policy!PTypeOK, AllowedInv, CountInv, FileInv,
         policy' = policy, ~misread' => ~misread,
         Admitted' \subseteq Admitted, Entering' \subseteq Entering,
         \A k \in Entering' : request'[k].agent = request[k].agent
  PROVE  AllowedInv' /\ CountInv'
  <1>1. Policy!InForce' = Policy!InForce
    BY DEF Policy!InForce
  <1>2. AllowedInv'
    BY <1>1 DEF AllowedInv
  <1>3. Count' <= Count /\ Count' \in Nat /\ Count \in Nat
    BY CountTyped, Shrinks DEF Count
  <1>4. CountInv'
    BY <1>1, <1>3, CountTyped, InForceTyped DEF CountInv, Within, Finite
  <1> QED
    BY <1>2, <1>4

(* When all who run or are about to have been there before, nobody counts. *)
LEMMA AllBefore ==
  ASSUME running' \cup Policy!Pending' \subseteq before'
  PROVE  AllowedInv' /\ CountInv'
  <1>1. Admitted' = {}
    BY DEF Admitted
  <1>2. Entering' = {}
    BY DEF Entering, Policy!Pending
  <1>3. Count' = 0
    BY <1>1, <1>2, FS_EmptySet DEF Count
  <1> QED
    BY <1>1, <1>2, <1>3 DEF AllowedInv, CountInv, Within

-----------------------------------------------------------------------------
(* The invariant at the start, and at each step.                           *)
LEMMA PolicyInit == ASSUME Finite, Policy!PInit PROVE PolicyInv
  <1>1. \A k \in Tasks : request[k] = Policy!Free
    BY DEF Policy!PInit
  <1>2. FileInv
    BY DEF Policy!PInit, FileInv
  <1>3. Policy!PTypeOK
    <2>1. Cardinality(policy) <= 1
      <3>1. CASE policy = {}
        BY <3>1, FS_EmptySet
      <3>2. ASSUME NEW p, policy = {p} PROVE Cardinality(policy) <= 1
        BY <3>2, FS_Singleton
      <3> QED
        BY <1>2, <3>1, <3>2 DEF FileInv
    <2>2. policy \subseteq TenantPolicies
      BY <1>2 DEF FileInv
    <2>3. /\ cut \subseteq Tasks /\ {running, before, bypassed} \subseteq SUBSET Governed
          /\ misread \in BOOLEAN
      BY DEF Policy!PInit
    <2>4. ops \in 0..MaxOps /\ uncrashed \in 0..MaxCrashes
      BY DEF Policy!PInit, Finite
    <2> QED
      BY <2>1, <2>2, <2>3, <2>4, Counting DEF Policy!PTypeOK, Finite
  <1>4. RequestInv
    BY <1>1 DEF Policy!PInit, RequestInv, Request, Policy!Free
  <1>5. Admitted = {} /\ Entering = {}
    BY <1>1 DEF Policy!PInit, Admitted, Entering, Policy!Free
  <1>6. Count = 0
    BY <1>5, FS_EmptySet DEF Count
  <1> QED
    BY <1>2, <1>3, <1>4, <1>5, <1>6 DEF PolicyInv, AllowedInv, CountInv, Within

(* An admission is decided from the list and the policy in force.          *)
LEMMA PolicyCheck ==
  ASSUME Finite, PolicyInv, NEW k \in Tasks, NEW a \in Governed, Policy!Check(k, a)
  PROVE  PolicyInv'
  <1>1. /\ request[k].pc = "idle" /\ request' = [request EXCEPT ![k] = [Policy!Free EXCEPT !.pc = "start", !.agent = {a}]]
        /\ policy' = policy /\ cut' = cut /\ running' = running /\ uncrashed' = uncrashed
        /\ before' = before /\ bypassed' = bypassed /\ misread' \in BOOLEAN
    BY DEF Policy!Check, PolicyInv, Policy!PTypeOK
  <1>2. /\ request'[k] = [pc |-> "start", agent |-> {a}, put |-> {}]
        /\ \A j \in Tasks \ {k} : request'[j] = request[j]
    BY <1>1 DEF Policy!Free, PolicyInv, RequestInv
  <1>3. Policy!PTypeOK' /\ FileInv'
    BY <1>1 DEF PolicyInv, Policy!PTypeOK, FileInv, Policy!Check, Finite
  <1>4. RequestInv'
    <2>1. request' \in [Tasks -> Request]
      BY <1>1 DEF PolicyInv, RequestInv, Request, Policy!Free
    <2> QED
      BY <2>1, <1>2 DEF PolicyInv, RequestInv
  <1>5. Admitted' = Admitted /\ Entering' \subseteq Entering \cup {k} /\ Policy!InForce' = Policy!InForce
    BY <1>1, <1>2 DEF Admitted, Entering, Policy!InForce
  <1>6. ASSUME ~misread'
        PROVE  /\ ~misread /\ Policy!CheckRun(Policy!InForce, a, 0)
               /\ Cardinality(running) < Policy!InForce.max /\ Cardinality(running) < MaxAgents
    <2>1. PICK count \in {Cardinality(running)} \cup (IF Policy!Listing = {} THEN {} ELSE {0}) :
            /\ Policy!CheckRun(Policy!InForce, a, count) /\ count < MaxAgents
            /\ misread' = (misread \/ cut # {} \/ count # Cardinality(running))
      BY Counting DEF Policy!Check
    <2>2. ~misread /\ count = Cardinality(running)
      BY <1>6, <2>1 DEF PolicyInv, Policy!PTypeOK
    <2> QED
      BY <2>1, <2>2, CountTyped, InForceTyped DEF Policy!CheckRun, PolicyInv
  <1>7. AllowedInv'
    <2> SUFFICES ASSUME ~misread'
                 PROVE  /\ \A b \in Admitted : Policy!CheckRun(Policy!InForce, b, 0)
                        /\ \A j \in Entering' : \A b \in request'[j].agent : Policy!CheckRun(Policy!InForce, b, 0)
      BY <1>5 DEF AllowedInv
    <2>1. \A b \in Admitted : Policy!CheckRun(Policy!InForce, b, 0)
      BY <1>6 DEF PolicyInv, AllowedInv
    <2>2. ASSUME NEW j \in Entering', NEW b \in request'[j].agent PROVE Policy!CheckRun(Policy!InForce, b, 0)
      <3>1. CASE j = k
        BY <3>1, <2>2, <1>2, <1>6
      <3>2. CASE j # k
        BY <3>2, <2>2, <1>2, <1>5, <1>6 DEF PolicyInv, AllowedInv, Entering
      <3> QED
        BY <3>1, <3>2
    <2> QED
      BY <2>1, <2>2
  <1>8. CountInv'
    <2> SUFFICES ASSUME ~misread'
                 PROVE  Count' < Policy!InForce.max + Cardinality(Tasks) /\ Count' < MaxAgents + Cardinality(Tasks)
      BY <1>5 DEF CountInv, Within
    <2>1. Cardinality(Admitted') < Policy!InForce.max /\ Cardinality(Admitted') < MaxAgents
      BY <1>5, <1>6, CountTyped, InForceTyped DEF PolicyInv, Finite
    <2>2. Cardinality(Entering') <= Cardinality(Tasks) /\ Cardinality(Entering') \in Nat
          /\ Cardinality(Tasks) \in Nat /\ Cardinality(Admitted') \in Nat
      <3>1. Entering' \subseteq Tasks
        BY DEF Entering
      <3> QED
        BY <3>1, <1>5, CountTyped, Shrinks DEF PolicyInv, Finite
    <2> QED
      BY <2>1, <2>2, InForceTyped DEF Count, PolicyInv, Finite
  <1> QED
    BY <1>3, <1>4, <1>7, <1>8 DEF PolicyInv

(* The agent of an admitted request is started.                            *)
LEMMA PolicyStart ==
  ASSUME Finite, PolicyInv, NEW k \in Tasks, Policy!Start(k)
  PROVE  PolicyInv'
  <1>1. /\ request[k].pc = "start"
        /\ policy' = policy /\ cut' = cut /\ running' = running /\ ops' = ops
        /\ uncrashed' = uncrashed /\ before' = before /\ bypassed' = bypassed /\ misread' = misread
    BY DEF Policy!Start
  <1>2. /\ request'[k] = [request[k] EXCEPT !.pc = "list"] \/ request'[k] = Policy!Free
        /\ \A j \in Tasks \ {k} : request'[j] = request[j]
        /\ request' = [request EXCEPT ![k] = request'[k]]
    BY DEF Policy!Start, PolicyInv, RequestInv
  <1>3. Policy!PTypeOK' /\ FileInv'
    BY <1>1 DEF PolicyInv, Policy!PTypeOK, FileInv
  <1>4. RequestInv'
    <2>1. request[k] \in Request
      BY DEF PolicyInv, RequestInv
    <2>2. request'[k] \in Request
      BY <1>2, <2>1 DEF Request, Policy!Free
    <2>3. /\ request'[k].pc \in {"start", "list"} => request'[k].agent = request[k].agent
          /\ request'[k].put = {} \/ request'[k].put = request[k].put
      BY <1>2, <2>1 DEF Request, Policy!Free
    <2>4. request' \in [Tasks -> Request]
      BY <1>2, <2>2 DEF PolicyInv, RequestInv
    <2> QED
      BY <1>1, <1>2, <2>3, <2>4 DEF PolicyInv, RequestInv
  <1>5. /\ Admitted' = Admitted /\ Entering' \subseteq Entering
        /\ \A j \in Entering' : request'[j].agent = request[j].agent
    <2>1. request[k] \in Request
      BY DEF PolicyInv, RequestInv
    <2>2. request'[k].pc \in {"start", "list"} => request'[k].agent = request[k].agent
      BY <1>2, <2>1 DEF Request, Policy!Free
    <2> QED
      BY <1>1, <1>2, <2>2 DEF Admitted, Entering
  <1> QED
    BY <1>1, <1>3, <1>4, <1>5, NobodyNew DEF PolicyInv

(* It is listed: from entering it passes to admitted.                      *)
LEMMA PolicyList ==
  ASSUME Finite, PolicyInv, NEW k \in Tasks, Policy!List(k)
  PROVE  PolicyInv'
  <1>1. /\ request[k].pc = "list" /\ request' = [request EXCEPT ![k] = Policy!Free]
        /\ policy' = policy /\ cut' = cut /\ running' = running \cup request[k].agent /\ ops' = ops
        /\ uncrashed' = uncrashed /\ before' = before /\ bypassed' = bypassed /\ misread' = misread
    BY DEF Policy!List
  <1>2. PICK a \in Governed : request[k].agent = {a}
    BY <1>1 DEF PolicyInv, RequestInv
  <1>3. request'[k] = Policy!Free /\ \A j \in Tasks \ {k} : request'[j] = request[j]
    BY <1>1 DEF PolicyInv, RequestInv
  <1>4. Policy!PTypeOK' /\ FileInv'
    BY <1>1, <1>2 DEF PolicyInv, Policy!PTypeOK, FileInv
  <1>5. RequestInv'
    <2>1. Policy!Free \in Request
      BY DEF Policy!Free, Request
    <2>2. request' \in [Tasks -> Request]
      BY <1>1, <2>1 DEF PolicyInv, RequestInv
    <2> QED
      BY <1>3, <2>2 DEF PolicyInv, RequestInv, Policy!Free
  <1>6. CASE a \in before
    <2>1. /\ Admitted' = Admitted /\ Entering' \subseteq Entering
          /\ \A j \in Entering' : request'[j].agent = request[j].agent
      BY <1>1, <1>2, <1>3, <1>6 DEF Admitted, Entering, Policy!Free
    <2> QED
      BY <2>1, <1>1, <1>4, <1>5, NobodyNew DEF PolicyInv
  <1>7. CASE a \notin before
    <2>1. /\ Entering' = Entering \ {k} /\ k \in Entering
          /\ \A j \in Entering' : request'[j] = request[j]
      BY <1>1, <1>2, <1>3, <1>7 DEF Entering, Policy!Free
    <2>2. Admitted' \subseteq Admitted \cup {a} /\ Policy!InForce' = Policy!InForce
      BY <1>1, <1>2 DEF Admitted, Policy!InForce
    <2>3. AllowedInv'
      BY <1>1, <1>2, <2>1, <2>2 DEF PolicyInv, AllowedInv
    <2>4. Cardinality(Entering') = Cardinality(Entering) - 1
      BY <2>1, CountTyped, FS_RemoveElement DEF PolicyInv
    <2>5. Cardinality(Admitted') <= Cardinality(Admitted) + 1 /\ Cardinality(Admitted') \in Nat
      <3>1. /\ IsFiniteSet(Admitted \cup {a})
            /\ Cardinality(Admitted \cup {a}) <= Cardinality(Admitted) + 1
            /\ Cardinality(Admitted \cup {a}) \in Nat
        <4>1. IsFiniteSet(Admitted) /\ Cardinality(Admitted) \in Nat
          BY CountTyped DEF PolicyInv
        <4>2. /\ IsFiniteSet(Admitted \cup {a})
              /\ \/ Cardinality(Admitted \cup {a}) = Cardinality(Admitted)
                 \/ Cardinality(Admitted \cup {a}) = Cardinality(Admitted) + 1
          BY <4>1, FS_AddElement
        <4> QED
          BY <4>1, <4>2
      <3> QED
        BY <3>1, <2>2, CountTyped, Shrinks DEF PolicyInv
    <2>6. Count' <= Count /\ Count # 0 /\ Count' \in Nat
      <3>1. Cardinality(Entering) # 0 /\ IsFiniteSet(Entering')
        BY <2>1, CountTyped, FS_EmptySet, FS_RemoveElement DEF PolicyInv
      <3> QED
        BY <2>4, <2>5, <3>1, CountTyped DEF Count, PolicyInv
    <2>7. CountInv'
      BY <2>2, <2>6, <1>1, CountTyped, InForceTyped DEF PolicyInv, CountInv, Within, Finite
    <2> QED
      BY <2>3, <2>7, <1>4, <1>5 DEF PolicyInv
  <1> QED
    BY <1>6, <1>7

(* A stop takes an agent off the list.                                     *)
LEMMA PolicyStop ==
  ASSUME Finite, PolicyInv, NEW a \in Governed, Policy!Stop(a)
  PROVE  PolicyInv'
  <1>1. /\ policy' = policy /\ cut' = cut /\ running' = running \ {a} /\ request' = request
        /\ ops' = ops /\ uncrashed' = uncrashed /\ misread' = misread
        /\ before' = before \ ({a} \ Policy!Pending) /\ bypassed' = bypassed \ {a}
    BY DEF Policy!Stop
  <1>2. Policy!PTypeOK' /\ FileInv'
    BY <1>1 DEF PolicyInv, Policy!PTypeOK, FileInv
  <1>3. RequestInv'
    BY <1>1 DEF PolicyInv, RequestInv
  <1>4. Admitted' \subseteq Admitted
    BY <1>1 DEF Admitted
  <1>5. Entering' \subseteq Entering
    <2> SUFFICES ASSUME NEW k \in Tasks, request[k].pc \in {"start", "list"},
                        request[k].agent \subseteq before
                 PROVE  request[k].agent \subseteq before'
      BY <1>1 DEF Entering
    <2>1. request[k].agent \subseteq Policy!Pending
      BY DEF Policy!Pending
    <2> QED
      BY <2>1, <1>1
  <1> QED
    BY <1>1, <1>2, <1>3, <1>4, <1>5, NobodyNew DEF PolicyInv

(* A start that asks nobody does not enter by admission.                   *)
LEMMA PolicyBypass ==
  ASSUME Finite, PolicyInv, NEW a \in Governed, Policy!Bypass(a)
  PROVE  PolicyInv'
  <1>1. /\ policy' = policy /\ cut' = cut /\ running' = running \cup {a} /\ request' = request
        /\ ops < MaxOps /\ ops' = ops + 1 /\ uncrashed' = uncrashed /\ misread' = misread
        /\ before' = before /\ bypassed' = bypassed \cup {a}
    BY DEF Policy!Bypass
  <1>2. Policy!PTypeOK' /\ FileInv'
    BY <1>1 DEF PolicyInv, Policy!PTypeOK, FileInv, Finite
  <1>3. RequestInv'
    BY <1>1 DEF PolicyInv, RequestInv
  <1>4. Admitted' \subseteq Admitted /\ Entering' = Entering
    BY <1>1 DEF Admitted, Entering
  <1> QED
    BY <1>1, <1>2, <1>3, <1>4, NobodyNew DEF PolicyInv

(* A policy is truncated before it is written.                             *)
LEMMA PolicyPutOpen ==
  ASSUME Finite, PolicyInv, NEW k \in Tasks, NEW p \in TenantPolicies, Policy!PutOpen(k, p)
  PROVE  PolicyInv'
  <1>1. /\ request[k].pc = "idle" /\ ops < MaxOps /\ ops' = ops + 1
        /\ policy' = {} /\ cut' = cut \cup {k}
        /\ request' = [request EXCEPT ![k] = [Policy!Free EXCEPT !.pc = "put", !.put = {p}]]
        /\ running' = running /\ uncrashed' = uncrashed /\ before' = before
        /\ bypassed' = bypassed /\ misread' = misread
    BY DEF Policy!PutOpen
  <1>2. /\ request'[k] = [pc |-> "put", agent |-> {}, put |-> {p}]
        /\ \A j \in Tasks \ {k} : request'[j] = request[j]
    BY <1>1 DEF Policy!Free, PolicyInv, RequestInv
  <1>3. Policy!PTypeOK' /\ FileInv'
    BY <1>1, FS_EmptySet, Counting DEF PolicyInv, Policy!PTypeOK, FileInv, Finite
  <1>4. RequestInv'
    <2>1. [pc |-> "put", agent |-> {}, put |-> {p}] \in Request
      BY DEF Request
    <2>2. request' \in [Tasks -> Request]
      BY <1>1, <1>2, <2>1 DEF PolicyInv, RequestInv
    <2> QED
      BY <1>2, <2>2 DEF PolicyInv, RequestInv
  <1>5. Admitted' = Admitted /\ Entering' = Entering /\ Count' = Count
    <2>1. Admitted' = Admitted /\ Entering' = Entering
      BY <1>1, <1>2 DEF Admitted, Entering
    <2> QED
      BY <2>1 DEF Count
  <1>6. Policy!InForce' = Policy!Permissive
    BY <1>1 DEF Policy!InForce
  <1>7. \A j \in Entering : request'[j].agent \subseteq Governed
    BY <1>4 DEF RequestInv, Request, Entering
  <1>8. AllowedInv'
    <2>1. Admitted \subseteq Governed
      BY DEF Admitted, PolicyInv, Policy!PTypeOK
    <2>2. \A a \in Governed : Policy!CheckRun(Policy!Permissive, a, 0)
      BY InForceTyped DEF PolicyInv
    <2> QED
      BY <1>5, <1>6, <1>7, <2>1, <2>2 DEF AllowedInv
  <1>9. CountInv'
    BY <1>1, <1>5, <1>6, CountTyped, InForceTyped DEF PolicyInv, CountInv, Within, Finite
  <1> QED
    BY <1>3, <1>4, <1>8, <1>9 DEF PolicyInv

(* The new policy is in force once it is written.                          *)
LEMMA PolicyPutWrite ==
  ASSUME Finite, PolicyInv, NEW k \in Tasks, Policy!PutWrite(k)
  PROVE  PolicyInv'
  <1>1. /\ request[k].pc = "put" /\ request' = [request EXCEPT ![k] = Policy!Free] /\ cut' = cut \ {k}
        /\ running' = running /\ ops' = ops /\ uncrashed' = uncrashed /\ bypassed' = bypassed
        /\ before' = running \cup Policy!Pending
    BY DEF Policy!PutWrite
  <1>2. /\ policy' \in {policy, {}, request[k].put} /\ misread' \in BOOLEAN
    BY DEF Policy!PutWrite, PolicyInv, Policy!PTypeOK
  <1>3. request'[k] = Policy!Free /\ \A j \in Tasks \ {k} : request'[j] = request[j]
    BY <1>1 DEF PolicyInv, RequestInv
  <1>4. Policy!Pending' = Policy!Pending /\ Policy!Pending \subseteq Governed
    <2>1. Policy!Pending' = Policy!Pending
      BY <1>1, <1>3 DEF Policy!Pending, Policy!Free
    <2>2. Policy!Pending \subseteq Governed
      BY DEF Policy!Pending, PolicyInv, RequestInv, Request
    <2> QED
      BY <2>1, <2>2
  <1>5. FileInv'
    BY <1>2 DEF PolicyInv, FileInv, RequestInv
  <1>6. Policy!PTypeOK'
    <2>1. Cardinality(policy') <= 1 /\ policy' \subseteq TenantPolicies
      <3>1. CASE policy' = {}
        BY <3>1, FS_EmptySet
      <3>2. CASE \E p \in TenantPolicies : policy' = {p}
        <4>1. PICK p \in TenantPolicies : policy' = {p}
          BY <3>2
        <4>2. Cardinality({p}) = 1
          BY FS_Singleton
        <4> QED
          BY <4>1, <4>2
      <3> QED
        BY <3>1, <3>2, <1>5 DEF FileInv
    <2> QED
      BY <1>1, <1>2, <1>4, <2>1, Counting DEF PolicyInv, Policy!PTypeOK
  <1>7. RequestInv'
    <2>1. Policy!Free \in Request
      BY DEF Policy!Free, Request
    <2>2. request' \in [Tasks -> Request]
      BY <1>1, <2>1 DEF PolicyInv, RequestInv
    <2> QED
      BY <1>3, <2>2 DEF PolicyInv, RequestInv, Policy!Free
  <1> QED
    BY <1>1, <1>4, <1>5, <1>6, <1>7, AllBefore DEF PolicyInv

(* Without a file the default policy is in force.                          *)
LEMMA PolicyDelete ==
  ASSUME Finite, PolicyInv, Policy!DeletePolicy
  PROVE  PolicyInv'
  <1>1. /\ ops < MaxOps /\ ops' = ops + 1 /\ policy' = {} /\ before' = running \cup Policy!Pending
        /\ request' = [k \in Tasks |-> IF k \in cut THEN [request[k] EXCEPT !.put = {}] ELSE request[k]]
        /\ cut' = cut /\ running' = running /\ uncrashed' = uncrashed
        /\ bypassed' = bypassed /\ misread' = misread
    BY DEF Policy!DeletePolicy
  <1>2. \A k \in Tasks :
          /\ request'[k] \in Request
          /\ request'[k].pc = request[k].pc /\ request'[k].agent = request[k].agent
          /\ request'[k].put \in {{}, request[k].put}
    <2> SUFFICES ASSUME NEW k \in Tasks
                 PROVE  /\ request'[k] \in Request
                        /\ request'[k].pc = request[k].pc /\ request'[k].agent = request[k].agent
                        /\ request'[k].put \in {{}, request[k].put}
      OBVIOUS
    <2>1. request[k] \in Request
      BY DEF PolicyInv, RequestInv
    <2> QED
      BY <2>1, <1>1 DEF Request
  <1>3. RequestInv'
    BY <1>1, <1>2 DEF PolicyInv, RequestInv
  <1>4. Policy!Pending' = Policy!Pending /\ Policy!Pending \subseteq Governed
    <2>1. Policy!Pending' = Policy!Pending
      BY <1>2 DEF Policy!Pending
    <2>2. Policy!Pending \subseteq Governed
      BY DEF Policy!Pending, PolicyInv, RequestInv, Request
    <2> QED
      BY <2>1, <2>2
  <1>5. Policy!PTypeOK' /\ FileInv'
    BY <1>1, <1>4, FS_EmptySet, Counting DEF PolicyInv, Policy!PTypeOK, FileInv, Finite
  <1> QED
    BY <1>1, <1>3, <1>4, <1>5, AllBefore DEF PolicyInv

(* A crash ends the requests under way.                                    *)
LEMMA PolicyCrash ==
  ASSUME Finite, PolicyInv, Policy!PCrash
  PROVE  PolicyInv'
  <1>1. /\ uncrashed > 0 /\ uncrashed' = uncrashed - 1
        /\ cut' = {} /\ request' = [k \in Tasks |-> Policy!Free]
        /\ policy' = policy /\ running' = running /\ ops' = ops
        /\ before' = before /\ bypassed' = bypassed
        /\ misread' \in BOOLEAN /\ (~misread' => ~misread)
    BY DEF Policy!PCrash, PolicyInv, Policy!PTypeOK
  <1>2. Policy!PTypeOK' /\ FileInv'
    BY <1>1 DEF PolicyInv, Policy!PTypeOK, FileInv, Finite
  <1>3. RequestInv'
    BY <1>1 DEF RequestInv, Request, Policy!Free
  <1>4. Admitted' = Admitted /\ Entering' = {}
    BY <1>1 DEF Admitted, Entering, Policy!Free
  <1> QED
    BY <1>1, <1>2, <1>3, <1>4, NobodyNew DEF PolicyInv

(* Every step keeps the invariant.                                         *)
LEMMA PolicyNext == ASSUME Finite, PolicyInv, [Policy!PNext]_(Policy!pvars) PROVE PolicyInv'
  <1>1. CASE Policy!PNext
    BY <1>1, PolicyCheck, PolicyStart, PolicyList, PolicyPutWrite, PolicyPutOpen, PolicyStop, PolicyBypass,
       PolicyDelete, PolicyCrash DEF Policy!PNext
  <1>2. CASE UNCHANGED Policy!pvars
    <2>1. Policy!PTypeOK' /\ FileInv' /\ RequestInv'
      BY <1>2 DEF Policy!pvars, PolicyInv, Policy!PTypeOK, FileInv, RequestInv
    <2>2. Admitted' = Admitted /\ Entering' = Entering
      BY <1>2 DEF Policy!pvars, Admitted, Entering
    <2> QED
      BY <1>2, <2>1, <2>2, NobodyNew DEF Policy!pvars, PolicyInv
  <1> QED
    BY <1>1, <1>2

(* Requests whose agents are not yet listed are at least as many as those  *)
(* agents.                                                                 *)
LEMMA PendingBound ==
  ASSUME Finite, PolicyInv
  PROVE  /\ IsFiniteSet(Policy!Pending \ before)
         /\ Cardinality(Policy!Pending \ before) <= Cardinality(Entering)
  <1> DEFINE T == Policy!Pending \ before
             agentOf == [k \in Entering |-> CHOOSE a \in Governed : request[k].agent = {a}]
  <1>1. ASSUME NEW k \in Entering
        PROVE  agentOf[k] \in T /\ request[k].agent = {agentOf[k]}
    <2>1. \E a \in Governed : request[k].agent = {a}
      BY DEF PolicyInv, RequestInv, Entering
    <2>2. request[k].agent = {agentOf[k]}
      BY <2>1
    <2>3. request[k].agent \subseteq Policy!Pending /\ ~(request[k].agent \subseteq before)
      BY DEF Entering, Policy!Pending
    <2> QED
      BY <2>2, <2>3
  <1>2. ASSUME NEW a \in T PROVE \E k \in Entering : agentOf[k] = a
    <2>1. PICK k \in Tasks : request[k].pc \in {"start", "list"} /\ a \in request[k].agent
      BY DEF Policy!Pending
    <2>2. k \in Entering
      BY <2>1 DEF Entering
    <2> QED
      BY <2>1, <2>2, <1>1
  <1>3. agentOf \in Surjection(Entering, T)
    BY <1>1, <1>2 DEF Surjection
  <1>4. IsFiniteSet(Entering)
    BY CountTyped DEF PolicyInv
  <1> QED
    BY <1>3, <1>4, FS_Surjection

(* Whoever is let in is allowed, and is one of those that count.           *)
LEMMA PolicyHolds == ASSUME Finite, PolicyInv PROVE Policy!PolicyHeld
  <1> DEFINE admitted == (running \cup Policy!Pending) \ (before \cup bypassed)
  <1> SUFFICES ASSUME ~misread
               PROVE  /\ \A a \in admitted : Policy!CheckRun(Policy!InForce, a, 0)
                      /\ admitted # {} => \A limit \in {Policy!InForce.max, MaxAgents} :
                           Cardinality(admitted) < limit + Cardinality(Tasks)
    BY Counting DEF Policy!PolicyHeld
  <1>1. ASSUME NEW a \in admitted PROVE Policy!CheckRun(Policy!InForce, a, 0)
    <2>1. CASE a \in running
      BY <2>1 DEF PolicyInv, AllowedInv, Admitted
    <2>2. CASE a \in Policy!Pending
      <3>1. PICK k \in Tasks : request[k].pc \in {"start", "list"} /\ a \in request[k].agent
        BY <2>2 DEF Policy!Pending
      <3>2. k \in Entering
        BY <3>1 DEF Entering
      <3> QED
        BY <3>1, <3>2 DEF PolicyInv, AllowedInv
    <2> QED
      BY <2>1, <2>2
  <1>2. ASSUME admitted # {}, NEW limit \in {Policy!InForce.max, MaxAgents}
        PROVE  Cardinality(admitted) < limit + Cardinality(Tasks)
    <2> DEFINE both == Admitted \cup (Policy!Pending \ before)
    <2>1. admitted \subseteq both
      BY DEF Admitted
    <2>2. /\ IsFiniteSet(both)
          /\ Cardinality(both) <= Cardinality(Admitted) + Cardinality(Policy!Pending \ before)
      <3>1. /\ IsFiniteSet(Admitted) /\ IsFiniteSet(Policy!Pending \ before)
            /\ Cardinality(Admitted) \in Nat /\ Cardinality(Policy!Pending \ before) \in Nat
        BY CountTyped, PendingBound, FS_CardinalityType DEF PolicyInv
      <3>2. Cardinality(Admitted \cap (Policy!Pending \ before)) \in Nat
        BY <3>1, FS_Subset, FS_CardinalityType
      <3>3. /\ IsFiniteSet(both)
            /\ Cardinality(both) = Cardinality(Admitted) + Cardinality(Policy!Pending \ before)
                                     - Cardinality(Admitted \cap (Policy!Pending \ before))
        BY <3>1, FS_Union
      <3> HIDE DEF both
      <3> QED
        BY <3>1, <3>2, <3>3
    <2>3. Cardinality(admitted) <= Count /\ Cardinality(admitted) \in Nat
      <3>1. Cardinality(admitted) <= Cardinality(both) /\ Cardinality(admitted) \in Nat
            /\ Cardinality(both) \in Nat
        BY <2>1, <2>2, Shrinks
      <3>2. Cardinality(Policy!Pending \ before) \in Nat
        BY PendingBound, FS_CardinalityType
      <3> QED
        BY <3>1, <3>2, <2>2, CountTyped, PendingBound DEF PolicyInv, Count
    <2>4. IsFiniteSet(admitted)
      BY <2>1, <2>2, FS_Subset
    <2>5. Cardinality(admitted) # 0
      BY <1>2, <2>4, FS_EmptySet
    <2>6. Count < limit + Cardinality(Tasks)
      BY <2>3, <2>5, CountTyped DEF PolicyInv, CountInv, Within
    <2> QED
      BY <2>3, <2>6, CountTyped, InForceTyped DEF PolicyInv, Finite
  <1> QED
    BY <1>1, <1>2

PolicyKept == part = "policy" => PolicyInv

(* handle_agents_run: no agent that the policy in the file forbids is let  *)
(* in after it was put, and the limits are exceeded by fewer agents than   *)
(* there are requests at once.                                             *)
THEOREM Held == Spec => []PolicyHeld
<1>1. Finite
  BY StoresAssumption DEF Finite
<1>2. Init => PolicyKept
  BY <1>1, PolicyInit DEF Init, PolicyKept
<1>3. PolicyKept /\ [Next]_vars => PolicyKept'
  BY <1>1, Steps, PolicyNext DEF PolicyKept
<1>4. PolicyKept => PolicyHeld
  BY <1>1, PolicyHolds DEF PolicyKept, PolicyHeld
<1>5. QED
  BY <1>2, <1>3, <1>4, PTL DEF Spec

-----------------------------------------------------------------------------
(* The secrets of the tenants.                                             *)
Upserting == {"savekey", "savenew", "saveput", "open", "write"}
MakingKey == {"loadnew", "savenew", "loadput", "saveput"}
Making == {k \in Tasks : user[k].pc \in MakingKey}
User == [pc: {"idle", "loadkey", "read"} \cup Upserting \cup MakingKey,
         op: {"none", "start", "upsert"}, tenant: SUBSET Tenants, name: SUBSET Names,
         key: Nat, copy: SUBSET Names]

SecretTypes ==
  /\ user \in [Tasks -> User]
  /\ secrets \in [Tenants -> [key: Nat, held: SUBSET Names]]
  /\ promised \in [Tenants -> SUBSET Names]
  /\ key \in Nat /\ keys \in Nat \ {0} /\ key <= keys
  /\ \A t \in Tenants : secrets[t].key <= keys
  /\ \A k \in Tasks : user[k].key <= keys
  /\ raced \subseteq Tenants /\ keyRaced \in BOOLEAN
  /\ ops \in 0..MaxEdits /\ uncrashed \in 0..MaxCrashes

(* Whoever is busy is about one tenant, only an upsert writes, and who     *)
(* reads or writes a file has a key.                                       *)
UserOK(r) ==
  /\ r.pc = "idle" => r.op = "none"
  /\ r.pc # "idle" => r.op # "none" /\ \E t \in Tenants : r.tenant = {t}
  /\ r.pc \in Upserting => r.op = "upsert"
  /\ r.pc \in {"read", "open", "write"} => Secrets!Usable(r.key)

UserInv ==
  /\ \A k \in Tasks : UserOK(user[k])
  /\ \A t \in Tenants : ~Secrets!Usable(secrets[t].key) => secrets[t].held = {}

(* Unless two tasks make keys at once, there is one key, and nothing is    *)
(* encrypted before it is in its file.                                     *)
KeyInv ==
  ~keyRaced =>
    /\ \A j, k \in Making : j = k
    /\ Making # {} => ~Secrets!Usable(key)
    /\ \A k \in Tasks : Secrets!Usable(user[k].key) => user[k].key = key
    /\ \A t \in Tenants : Secrets!Usable(secrets[t].key) => secrets[t].key = key

(* Without a race, a tenant's file holds what was promised until its one   *)
(* writer has cut it, who then holds it.                                   *)
Intact(t) == promised[t] \subseteq Secrets!Readable(t, key)
HeldOf(t) ==
  /\ \A j, k \in Secrets!Writers(t) : j = k
  /\ \A k \in Secrets!Writers(t) : user[k].pc = "write" => secrets[t].key = Secrets!Torn
  /\ ~keyRaced =>
       /\ (\A k \in Secrets!Writers(t) : user[k].pc # "write") => Intact(t)
       /\ \A k \in Secrets!Writers(t) :
            user[k].pc \in Upserting => promised[t] \subseteq user[k].copy
HeldInv == \A t \in Tenants \ raced : HeldOf(t)

SecretInv == SecretTypes /\ UserInv /\ KeyInv /\ HeldInv

(* The numbers of no key.                                                  *)
LEMMA NoKeys ==
  /\ Secrets!NoFile = 0 /\ Secrets!Torn = 1
  /\ \A n \in Nat : Secrets!Usable(n) <=> n > 1
BY DEF Secrets!NoFile, Secrets!Torn, Secrets!Usable

(* A task at rest.                                                         *)
LEMMA Rest ==
  Secrets!AtRest = [pc |-> "idle", op |-> "none", tenant |-> {}, name |-> {}, key |-> 0, copy |-> {}]
BY NoKeys DEF Secrets!AtRest

(* It is typed and about no tenant.                                        *)
LEMMA RestOK == Secrets!AtRest \in User /\ UserOK(Secrets!AtRest) /\ Secrets!AtRest.key = 0
                /\ Secrets!AtRest.pc = "idle" /\ Secrets!AtRest.op = "none"
BY Rest DEF User, UserOK, Upserting

(* A step of one task k that changes neither keys nor files: r is what it  *)
(* does afterwards.                                                        *)
LEMMA UserStep ==
  ASSUME SecretInv, NEW k \in Tasks, NEW r \in User,
         user' = [user EXCEPT ![k] = r],
         key' = key, keys' = keys, secrets' = secrets, promised' = promised,
         ops' \in 0..MaxEdits, uncrashed' \in 0..MaxCrashes,
         keyRaced' \in BOOLEAN, keyRaced => keyRaced',
         raced' \subseteq Tenants, raced \subseteq raced',
         UserOK(r), r.key <= keys,
         ~keyRaced' => /\ r.pc \in MakingKey => Making \subseteq {k} /\ ~Secrets!Usable(key)
                       /\ Secrets!Usable(r.key) => r.key = key,
         user[k].pc = "write" => user[k].tenant \subseteq raced',
         \A t \in Tenants \ raced' :
           r.op = "upsert" /\ t \in r.tenant =>
             /\ Secrets!Writers(t) \subseteq {k} /\ r.pc # "write"
             /\ ~keyRaced' /\ r.pc \in Upserting => promised[t] \subseteq r.copy
  PROVE  SecretInv'
<1>1. /\ user'[k] = r /\ \A j \in Tasks \ {k} : user'[j] = user[j]
      /\ user' \in [Tasks -> User]
  BY DEF SecretInv, SecretTypes
<1>2. SecretTypes'
  BY <1>1 DEF SecretInv, SecretTypes
<1>3. UserInv'
  BY <1>1 DEF SecretInv, UserInv, UserOK
<1>4. Making' \subseteq Making \cup {k} /\ (k \in Making' => r.pc \in MakingKey)
  BY <1>1 DEF Making
<1>5. KeyInv'
  BY <1>1, <1>4 DEF SecretInv, KeyInv
<1>6. HeldInv'
  <2> SUFFICES ASSUME NEW t \in Tenants \ raced'
               PROVE  /\ \A i, j \in Secrets!Writers(t)' : i = j
                      /\ \A j \in Secrets!Writers(t)' :
                           user'[j].pc = "write" => secrets[t].key = Secrets!Torn
                      /\ ~keyRaced' =>
                           /\ (\A j \in Secrets!Writers(t)' : user'[j].pc # "write") => Intact(t)
                           /\ \A j \in Secrets!Writers(t)' :
                                user'[j].pc \in Upserting => promised[t] \subseteq user'[j].copy
    BY DEF HeldInv, HeldOf, Intact, Secrets!Readable
  <2>1. \A j \in Tasks \ {k} : j \in Secrets!Writers(t)' <=> j \in Secrets!Writers(t)
    BY <1>1 DEF Secrets!Writers
  <2>2. Secrets!Writers(t)' \subseteq Tasks /\ Secrets!Writers(t) \subseteq Tasks
    BY DEF Secrets!Writers
  <2>3. k \in Secrets!Writers(t)' =>
          /\ Secrets!Writers(t)' = {k} /\ Secrets!Writers(t) \subseteq {k} /\ r.pc # "write"
          /\ ~keyRaced' /\ r.pc \in Upserting => promised[t] \subseteq r.copy
    <3>1. k \in Secrets!Writers(t)' => r.op = "upsert" /\ t \in r.tenant
      BY <1>1 DEF Secrets!Writers
    <3>2. QED
      BY <2>1, <2>2, <3>1
  <2>4. k \in Secrets!Writers(t) => user[k].pc # "write"
    BY DEF Secrets!Writers
  <2>5. t \in Tenants \ raced
    OBVIOUS
  <2>6. \A i, j \in Secrets!Writers(t)' : i = j
    BY <2>1, <2>2, <2>3, <2>5 DEF SecretInv, HeldInv, HeldOf
  <2>7. \A j \in Secrets!Writers(t)' : user'[j].pc = "write" => secrets[t].key = Secrets!Torn
    BY <1>1, <2>1, <2>2, <2>3, <2>5 DEF SecretInv, HeldInv, HeldOf
  <2>8. ASSUME ~keyRaced', \A j \in Secrets!Writers(t)' : user'[j].pc # "write" PROVE Intact(t)
    <3>1. \A j \in Secrets!Writers(t) : user[j].pc # "write"
      BY <1>1, <2>1, <2>2, <2>4, <2>8
    <3>2. QED
      BY <3>1, <2>5, <2>8 DEF SecretInv, HeldInv, HeldOf
  <2>9. ASSUME ~keyRaced', NEW j \in Secrets!Writers(t)', user'[j].pc \in Upserting
        PROVE  promised[t] \subseteq user'[j].copy
    <3>1. CASE j = k
      BY <3>1, <1>1, <2>3, <2>9
    <3>2. CASE j # k
      BY <3>2, <1>1, <2>1, <2>2, <2>5, <2>9 DEF SecretInv, HeldInv, HeldOf
    <3>3. QED
      BY <3>1, <3>2
  <2>10. QED
    BY <2>6, <2>7, <2>8, <2>9
<1>7. QED
  BY <1>2, <1>3, <1>5, <1>6 DEF SecretInv

(* Nothing is promised at first.                                           *)
LEMMA SecretInit == ASSUME Secrets!SInit PROVE SecretInv
<1>1. \A k \in Tasks : user[k] = Secrets!AtRest
  BY DEF Secrets!SInit
<1>2. SecretTypes
  <2>1. user \in [Tasks -> User]
    BY RestOK DEF Secrets!SInit
  <2>2. ops \in 0..MaxEdits /\ uncrashed \in 0..MaxCrashes
    BY StoresAssumption DEF Secrets!SInit
  <2>3. secrets \in [Tenants -> [key: Nat, held: SUBSET Names]]
        /\ \A t \in Tenants : secrets[t].key = 0
    BY NoKeys DEF Secrets!SInit, Secrets!NoSecrets
  <2>4. promised \in [Tenants -> SUBSET Names] /\ key = 0 /\ keys = 1 /\ raced = {} /\ keyRaced = FALSE
    BY NoKeys DEF Secrets!SInit
  <2>5. \A k \in Tasks : user[k].key = 0
    BY <1>1, RestOK
  <2>6. keys \in Nat \ {0} /\ key \in Nat /\ key <= keys
    BY <2>4
  <2>7. (\A t \in Tenants : secrets[t].key <= keys) /\ \A k \in Tasks : user[k].key <= keys
    BY <2>3, <2>4, <2>5
  <2>8. QED
    BY <2>1, <2>2, <2>3, <2>4, <2>6, <2>7 DEF SecretTypes
<1>3. UserInv
  BY <1>1, RestOK DEF UserInv, Secrets!SInit, Secrets!NoSecrets
<1>4. KeyInv
  <2>1. Making = {}
    BY <1>1, RestOK DEF Making, MakingKey
  <2>2. \A k \in Tasks : ~Secrets!Usable(user[k].key)
    BY <1>1, RestOK, NoKeys
  <2>3. \A t \in Tenants : ~Secrets!Usable(secrets[t].key)
    BY NoKeys DEF Secrets!SInit, Secrets!NoSecrets
  <2>4. QED
    BY <2>1, <2>2, <2>3 DEF KeyInv
<1>5. HeldInv
  <2>1. \A t \in Tenants : Secrets!Writers(t) = {} /\ promised[t] = {}
    BY <1>1, RestOK DEF Secrets!Writers, Secrets!SInit
  <2>2. QED
    BY <2>1 DEF HeldInv, HeldOf, Intact
<1>6. QED
  BY <1>2, <1>3, <1>4, <1>5 DEF SecretInv

(* An agent that starts writes nothing.                                    *)
LEMMA SecretStart ==
  ASSUME SecretInv, NEW k \in Tasks, NEW t \in Tenants, Secrets!Start(k, t)
  PROVE  SecretInv'
<1> DEFINE r == [Secrets!AtRest EXCEPT !.op = "start", !.tenant = {t}, !.pc = "loadkey"]
<1>1. /\ r \in User /\ r.pc = "loadkey" /\ r.op = "start" /\ r.tenant = {t} /\ r.name = {}
      /\ r.key = 0 /\ r.copy = {}
  BY Rest DEF User
<1>2. user' = [user EXCEPT ![k] = r] /\ user[k].pc = "idle" /\ ops < MaxEdits /\ ops' = ops + 1
      /\ key' = key /\ secrets' = secrets /\ keys' = keys /\ promised' = promised
      /\ uncrashed' = uncrashed /\ keyRaced' = keyRaced /\ raced' = raced
  BY DEF Secrets!Start
<1> HIDE DEF r
<1>3. r \in User /\ UserOK(r) /\ ~Secrets!Usable(r.key) /\ r.pc \notin MakingKey /\ r.op # "upsert"
      /\ r.key = 0
  BY <1>1, NoKeys DEF User, UserOK, MakingKey, Upserting
<1>4. ops' \in 0..MaxEdits /\ uncrashed' \in 0..MaxCrashes /\ r.key <= keys
  BY <1>2, <1>3, StoresAssumption DEF SecretInv, SecretTypes
<1>5. QED
  BY <1>2, <1>3, <1>4, UserStep DEF SecretInv, SecretTypes

(* An upsert meets another of its tenant, or is the only one.              *)
LEMMA SecretUpsert ==
  ASSUME SecretInv, NEW k \in Tasks, NEW t \in Tenants, NEW s \in Names, Secrets!Upsert(k, t, s)
  PROVE  SecretInv'
<1> DEFINE r == [Secrets!AtRest EXCEPT !.op = "upsert", !.tenant = {t}, !.name = {s}, !.pc =
                   IF secrets[t].key # Secrets!NoFile THEN "loadkey" ELSE "savekey"]
<1>1. /\ r \in User /\ r.pc = (IF secrets[t].key # 0 THEN "loadkey" ELSE "savekey")
      /\ r.op = "upsert" /\ r.tenant = {t} /\ r.name = {s} /\ r.key = 0 /\ r.copy = {}
  BY Rest, NoKeys DEF User, Upserting
<1>2. user' = [user EXCEPT ![k] = r] /\ user[k].pc = "idle" /\ ops < MaxEdits /\ ops' = ops + 1
      /\ key' = key /\ secrets' = secrets /\ keys' = keys /\ promised' = promised
      /\ uncrashed' = uncrashed /\ keyRaced' = keyRaced
      /\ raced' = IF Secrets!Writers(t) # {} THEN raced \cup {t} ELSE raced
  BY DEF Secrets!Upsert
<1> HIDE DEF r
<1>3. r \in User /\ UserOK(r) /\ ~Secrets!Usable(r.key) /\ r.pc \notin MakingKey /\ r.key = 0
      /\ r.tenant = {t} /\ r.pc # "write"
  BY <1>1, NoKeys DEF User, UserOK, MakingKey, Upserting
<1>4. ops' \in 0..MaxEdits /\ uncrashed' \in 0..MaxCrashes /\ r.key <= keys
      /\ raced \subseteq raced' /\ raced' \subseteq Tenants
  BY <1>2, <1>3, StoresAssumption DEF SecretInv, SecretTypes
<1>5. ASSUME t \notin raced' PROVE Secrets!Writers(t) = {}
  BY <1>2, <1>5
<1>6. ASSUME t \notin raced', ~keyRaced, r.pc \in Upserting PROVE promised[t] \subseteq r.copy
  <2>1. secrets[t].key = 0
    BY <1>1, <1>6 DEF Upserting
  <2>2. secrets[t].held = {}
    BY <2>1, NoKeys DEF SecretInv, UserInv
  <2>3. Intact(t)
    BY <1>4, <1>5, <1>6 DEF SecretInv, HeldInv, HeldOf
  <2>4. QED
    BY <2>2, <2>3 DEF Intact, Secrets!Readable
<1>7. QED
  BY <1>2, <1>3, <1>4, <1>5, <1>6, UserStep DEF SecretInv, SecretTypes

(* What the invariant says of a task.                                      *)
LEMMA UserFacts ==
  ASSUME SecretInv, NEW k \in Tasks
  PROVE  /\ user[k] \in User /\ UserOK(user[k]) /\ user[k].key <= keys /\ keys \in Nat
         /\ user \in [Tasks -> User]
BY DEF SecretInv, SecretTypes, UserInv

(* While a key is being made there is none, and so nothing is promised.    *)
LEMMA NoKeyYet ==
  ASSUME SecretInv, ~keyRaced, ~Secrets!Usable(key)
  PROVE  /\ \A k \in Tasks : ~Secrets!Usable(user[k].key)
         /\ \A t \in Tenants : ~Secrets!Usable(secrets[t].key)
         /\ \A t \in Tenants \ raced : promised[t] = {}
<1>1. \A k \in Tasks : ~Secrets!Usable(user[k].key)
  BY DEF SecretInv, KeyInv
<1>2. \A t \in Tenants : ~Secrets!Usable(secrets[t].key) /\ secrets[t].held = {}
  BY DEF SecretInv, KeyInv, UserInv
<1>3. ASSUME NEW t \in Tenants \ raced PROVE promised[t] = {}
  <2>1. \A k \in Secrets!Writers(t) : user[k].pc # "write"
    BY <1>1 DEF Secrets!Writers, SecretInv, UserInv, UserOK
  <2>2. Intact(t)
    BY <2>1 DEF SecretInv, HeldInv, HeldOf
  <2>3. QED
    BY <1>2, <2>2 DEF Intact, Secrets!Readable
<1>4. QED
  BY <1>1, <1>2, <1>3

(* A task has the key, or sets out to make one.                            *)
LEMMA SecretGetKey == ASSUME SecretInv, NEW k \in Tasks, Secrets!GetKey(k) PROVE SecretInv'
<1>1. /\ user[k].pc \in {"loadkey", "savekey"}
      /\ key' = key /\ secrets' = secrets /\ keys' = keys /\ promised' = promised
      /\ ops' = ops /\ uncrashed' = uncrashed /\ raced' = raced
  BY DEF Secrets!GetKey
<1>2. /\ keyRaced' \in BOOLEAN /\ (keyRaced => keyRaced') /\ (~keyRaced' => ~keyRaced)
      /\ ~keyRaced' /\ ~Secrets!Usable(key) => Making \subseteq {k}
  BY DEF Secrets!GetKey, SecretInv, SecretTypes, Making, MakingKey
<1>3. user[k] \in User /\ UserOK(user[k]) /\ user[k].key <= keys /\ key \in Nat /\ key <= keys
  BY UserFacts DEF SecretInv, SecretTypes
<1>4. ASSUME NEW t \in Tenants \ raced, user[k].op = "upsert", t \in user[k].tenant
      PROVE  /\ Secrets!Writers(t) \subseteq {k}
             /\ ~keyRaced /\ user[k].pc \in Upserting => promised[t] \subseteq user[k].copy
  <2>1. k \in Secrets!Writers(t)
    BY <1>4 DEF Secrets!Writers
  <2>2. QED
    BY <2>1 DEF SecretInv, HeldInv, HeldOf
<1>5. CASE Secrets!Usable(key)
  <2> DEFINE r == [user[k] EXCEPT !.key = key, !.pc = Secrets!AfterKey(user[k].pc)]
  <2>1. user' = [user EXCEPT ![k] = r]
    BY <1>5, UserFacts DEF Secrets!GetKey
  <2>2. /\ r \in User /\ r.key = key /\ r.op = user[k].op /\ r.tenant = user[k].tenant
        /\ r.copy = user[k].copy /\ r.pc = (IF user[k].pc = "loadkey" THEN "read" ELSE "open")
    BY <1>1, <1>3 DEF Secrets!AfterKey, User, Upserting
  <2> HIDE DEF r
  <2>3. UserOK(r) /\ r.pc \notin MakingKey /\ r.pc # "write"
        /\ (r.pc \in Upserting => user[k].pc \in Upserting)
    BY <1>1, <1>3, <1>5, <2>2 DEF UserOK, MakingKey, Upserting
  <2>4. ASSUME NEW t \in Tenants \ raced', r.op = "upsert", t \in r.tenant
        PROVE  /\ Secrets!Writers(t) \subseteq {k} /\ r.pc # "write"
               /\ ~keyRaced' /\ r.pc \in Upserting => promised[t] \subseteq r.copy
    <3>1. t \in Tenants \ raced /\ user[k].op = "upsert" /\ t \in user[k].tenant
      BY <1>1, <2>2, <2>4
    <3>2. QED
      BY <1>2, <1>4, <2>2, <2>3, <3>1
  <2>5. /\ ops' \in 0..MaxEdits /\ uncrashed' \in 0..MaxCrashes
        /\ raced' \subseteq Tenants /\ raced \subseteq raced' /\ r.key <= keys
        /\ user[k].pc # "write"
    BY <1>1, <1>3, <2>2 DEF SecretInv, SecretTypes
  <2>6. ~keyRaced' => /\ r.pc \in MakingKey => Making \subseteq {k} /\ ~Secrets!Usable(key)
                      /\ Secrets!Usable(r.key) => r.key = key
    BY <1>2, <2>2, <2>3
  <2>7. QED
    BY <1>1, <1>2, <2>1, <2>2, <2>3, <2>4, <2>5, <2>6, UserStep
<1>6. CASE ~Secrets!Usable(key)
  <2> DEFINE r == [user[k] EXCEPT !.pc = IF user[k].pc = "loadkey" THEN "loadnew" ELSE "savenew"]
  <2>1. user' = [user EXCEPT ![k] = r]
    BY <1>6, UserFacts DEF Secrets!GetKey, Secrets!Go
  <2>2. /\ r \in User /\ r.key = user[k].key /\ r.op = user[k].op /\ r.tenant = user[k].tenant
        /\ r.copy = user[k].copy
        /\ r.pc = (IF user[k].pc = "loadkey" THEN "loadnew" ELSE "savenew")
    BY <1>1, <1>3 DEF User, MakingKey
  <2> HIDE DEF r
  <2>3. UserOK(r) /\ r.pc # "write" /\ (r.pc \in Upserting => user[k].pc \in Upserting)
    BY <1>1, <1>3, <2>2 DEF UserOK, MakingKey, Upserting
  <2>4. ~keyRaced => ~Secrets!Usable(r.key)
    BY <1>6, <2>2, NoKeyYet
  <2>5. ASSUME NEW t \in Tenants \ raced', r.op = "upsert", t \in r.tenant
        PROVE  /\ Secrets!Writers(t) \subseteq {k} /\ r.pc # "write"
               /\ ~keyRaced' /\ r.pc \in Upserting => promised[t] \subseteq r.copy
    <3>1. t \in Tenants \ raced /\ user[k].op = "upsert" /\ t \in user[k].tenant
      BY <1>1, <2>2, <2>5
    <3>2. QED
      BY <1>2, <1>4, <2>2, <2>3, <3>1
  <2>6. /\ ops' \in 0..MaxEdits /\ uncrashed' \in 0..MaxCrashes
        /\ raced' \subseteq Tenants /\ raced \subseteq raced' /\ r.key <= keys
        /\ user[k].pc # "write"
    BY <1>1, <1>3, <2>2 DEF SecretInv, SecretTypes
  <2>7. ~keyRaced' => /\ r.pc \in MakingKey => Making \subseteq {k} /\ ~Secrets!Usable(key)
                      /\ Secrets!Usable(r.key) => r.key = key
    BY <1>2, <2>2, <2>3, <1>6, <2>4
  <2>8. QED
    BY <1>1, <1>2, <2>1, <2>2, <2>3, <2>5, <2>6, <2>7, UserStep
<1>7. QED
  BY <1>5, <1>6

(* An agent is given what it can read; an upsert takes a copy of it.       *)
LEMMA SecretRead == ASSUME SecretInv, NEW k \in Tasks, Secrets!Read(k) PROVE SecretInv'
<1>1. PICK t \in user[k].tenant :
        user' = [user EXCEPT ![k] =
          IF user[k].op = "start" THEN Secrets!AtRest
          ELSE [@ EXCEPT !.copy = Secrets!Readable(t, user[k].key), !.pc = "savekey"]]
  BY DEF Secrets!Read
<1>2. /\ user[k].pc = "read" /\ key' = key /\ secrets' = secrets /\ keys' = keys
      /\ promised' = promised /\ ops' = ops /\ uncrashed' = uncrashed /\ raced' = raced
      /\ keyRaced' = keyRaced
  BY DEF Secrets!Read
<1>3. /\ user[k] \in User /\ UserOK(user[k]) /\ user[k].key <= keys /\ keys \in Nat
      /\ user \in [Tasks -> User]
  BY UserFacts
<1>4. t \in Tenants /\ user[k].tenant = {t} /\ Secrets!Usable(user[k].key)
  BY <1>2, <1>3 DEF UserOK
<1>5. Secrets!Readable(t, user[k].key) \in SUBSET Names
  BY <1>4 DEF Secrets!Readable, SecretInv, SecretTypes
<1>6. CASE user[k].op = "start"
  <2>1. user' = [user EXCEPT ![k] = Secrets!AtRest]
    BY <1>1, <1>3, <1>6
  <2>2. ~Secrets!Usable(0) /\ 0 <= keys /\ "idle" \notin MakingKey
    BY NoKeys, <1>3 DEF MakingKey
  <2>3. QED
    BY <1>2, <2>1, <2>2, RestOK, UserStep DEF SecretInv, SecretTypes
<1>7. CASE user[k].op # "start"
  <2> DEFINE r == [user[k] EXCEPT !.copy = Secrets!Readable(t, user[k].key), !.pc = "savekey"]
  <2>1. user' = [user EXCEPT ![k] = r]
    BY <1>1, <1>3, <1>7
  <2>2. /\ r \in User /\ r.key = user[k].key /\ r.op = user[k].op /\ r.tenant = user[k].tenant
        /\ r.copy = Secrets!Readable(t, user[k].key) /\ r.pc = "savekey"
    BY <1>3, <1>5 DEF User, Upserting
  <2> HIDE DEF r
  <2>3. user[k].op = "upsert"
    BY <1>2, <1>3, <1>7 DEF UserOK, User
  <2>4. UserOK(r) /\ r.pc \notin MakingKey /\ r.pc # "write"
    BY <1>2, <1>3, <2>2, <2>3 DEF UserOK, MakingKey, Upserting
  <2>5. k \in Secrets!Writers(t)
    BY <1>4, <2>3 DEF Secrets!Writers
  <2>6. ~keyRaced => user[k].key = key
    BY <1>4 DEF SecretInv, KeyInv
  <2>7. ASSUME t \notin raced
        PROVE  Secrets!Writers(t) \subseteq {k} /\ (~keyRaced => promised[t] \subseteq r.copy)
    <3>1. HeldOf(t)
      BY <1>4, <2>7 DEF SecretInv, HeldInv
    <3>2. Secrets!Writers(t) \subseteq {k}
      BY <2>5, <3>1 DEF HeldOf
    <3>3. ~keyRaced => Intact(t)
      BY <1>2, <3>1, <3>2 DEF HeldOf
    <3>4. QED
      BY <2>2, <2>6, <3>2, <3>3 DEF Intact
  <2>8. QED
    BY <1>2, <1>3, <1>4, <2>1, <2>2, <2>4, <2>6, <2>7, UserStep DEF SecretInv, SecretTypes
<1>8. QED
  BY <1>6, <1>7

(* What a killed writer has cut is raced; whoever made a key leaves none.  *)
LEMMA SecretCrash == ASSUME SecretInv, NEW k \in Tasks, Secrets!SCrash(k) PROVE SecretInv'
<1>1. /\ user' = [user EXCEPT ![k] = Secrets!AtRest]
      /\ key' = key /\ secrets' = secrets /\ keys' = keys /\ promised' = promised
      /\ ops' = ops /\ uncrashed > 0 /\ uncrashed' = uncrashed - 1 /\ keyRaced' = keyRaced
      /\ user[k].pc # "idle"
      /\ raced' = IF user[k].pc = "write" THEN raced \cup user[k].tenant ELSE raced
  BY DEF Secrets!SCrash
<1>2. UserOK(user[k]) /\ keys \in Nat
  BY UserFacts
<1>3. user[k].tenant \subseteq Tenants
  BY <1>1, <1>2 DEF UserOK
<1>4. ~Secrets!Usable(0) /\ 0 <= keys /\ "idle" \notin MakingKey
  BY NoKeys, <1>2 DEF MakingKey
<1>5. uncrashed' \in 0..MaxCrashes
  BY <1>1, StoresAssumption DEF SecretInv, SecretTypes
<1>6. raced \subseteq raced' /\ raced' \subseteq Tenants
      /\ (user[k].pc = "write" => user[k].tenant \subseteq raced')
  BY <1>1, <1>3 DEF SecretInv, SecretTypes
<1>7. QED
  BY <1>1, <1>4, <1>5, <1>6, RestOK, UserStep DEF SecretInv, SecretTypes

(* A step of the one task that makes a key.                                *)
LEMMA KeyStep ==
  ASSUME SecretInv, NEW k \in Making, NEW r \in User,
         user' = [user EXCEPT ![k] = r],
         secrets' = secrets, promised' = promised,
         ops' = ops, uncrashed' = uncrashed, keyRaced' = keyRaced, raced' = raced,
         keys' \in Nat \ {0}, keys <= keys', key' \in Nat, key' <= keys', r.key <= keys',
         UserOK(r), r.op = user[k].op, r.tenant = user[k].tenant, r.pc # "write",
         r.pc \in MakingKey => ~Secrets!Usable(key'),
         ~keyRaced /\ Secrets!Usable(r.key) => r.key = key'
  PROVE  SecretInv'
<1>1. /\ k \in Tasks /\ user[k].pc \in MakingKey
      /\ user'[k] = r /\ (\A j \in Tasks \ {k} : user'[j] = user[j])
      /\ user' \in [Tasks -> User]
  BY DEF Making, SecretInv, SecretTypes
<1>2. SecretTypes'
  <2>1. \A a \in Nat : a <= keys => a <= keys'
    BY DEF SecretInv, SecretTypes
  <2>2. \A j \in Tasks : user[j].key \in Nat
    BY DEF SecretInv, SecretTypes, User
  <2>3. \A t \in Tenants : secrets[t].key \in Nat
    BY DEF SecretInv, SecretTypes
  <2>4. (\A t \in Tenants : secrets'[t].key <= keys') /\ \A j \in Tasks : user'[j].key <= keys'
    BY <1>1, <2>1, <2>2, <2>3 DEF SecretInv, SecretTypes
  <2>5. QED
    BY <1>1, <2>4 DEF SecretInv, SecretTypes
<1>3. UserInv'
  BY <1>1 DEF SecretInv, UserInv
<1>4. ASSUME ~keyRaced
      PROVE  /\ Making = {k} /\ \A j \in Tasks : ~Secrets!Usable(user[j].key)
             /\ \A t \in Tenants : ~Secrets!Usable(secrets[t].key)
             /\ \A t \in Tenants \ raced : promised[t] = {}
  BY <1>4, NoKeyYet DEF SecretInv, KeyInv
<1>5. KeyInv'
  <2>1. Making' \subseteq Making \cup {k} /\ (k \in Making' => r.pc \in MakingKey)
    BY <1>1 DEF Making
  <2>2. QED
    BY <1>1, <1>4, <2>1 DEF KeyInv
<1>6. HeldInv'
  <2> SUFFICES ASSUME NEW t \in Tenants \ raced PROVE HeldOf(t)'
    BY DEF HeldInv
  <2>1. Secrets!Writers(t)' = Secrets!Writers(t)
    BY <1>1 DEF Secrets!Writers
  <2>2. HeldOf(t)
    BY DEF SecretInv, HeldInv
  <2>3. \A j \in Secrets!Writers(t) : user'[j].pc = "write" => user[j].pc = "write"
    BY <1>1 DEF Secrets!Writers
  <2>4. QED
    BY <1>4, <2>1, <2>2, <2>3 DEF HeldOf, Intact
<1>7. QED
  BY <1>2, <1>3, <1>5, <1>6 DEF SecretInv

(* The file of the key is cut.                                             *)
LEMMA SecretOpenKey == ASSUME SecretInv, NEW k \in Tasks, Secrets!OpenKey(k) PROVE SecretInv'
<1> DEFINE r == [user[k] EXCEPT !.pc = IF user[k].pc = "loadnew" THEN "loadput" ELSE "saveput"]
<1>1. /\ user[k].pc \in {"loadnew", "savenew"} /\ key' = 1
      /\ secrets' = secrets /\ keys' = keys /\ promised' = promised /\ ops' = ops
      /\ uncrashed' = uncrashed /\ keyRaced' = keyRaced /\ raced' = raced
  BY NoKeys DEF Secrets!OpenKey
<1>2. /\ user[k] \in User /\ UserOK(user[k]) /\ user[k].key <= keys
      /\ user \in [Tasks -> User]
  BY UserFacts
<1>3. user' = [user EXCEPT ![k] = r]
  BY <1>2 DEF Secrets!OpenKey, Secrets!Go
<1>4. /\ r \in User /\ r.key = user[k].key /\ r.op = user[k].op /\ r.tenant = user[k].tenant
      /\ r.pc = (IF user[k].pc = "loadnew" THEN "loadput" ELSE "saveput")
  BY <1>2 DEF User, MakingKey
<1> HIDE DEF r
<1>5. k \in Making /\ UserOK(r) /\ r.pc # "write"
  BY <1>1, <1>2, <1>4 DEF UserOK, Making, MakingKey, Upserting
<1>6. ~Secrets!Usable(1)
  BY NoKeys
<1>7. ~keyRaced => ~Secrets!Usable(r.key)
  BY <1>4, <1>5, NoKeyYet DEF SecretInv, KeyInv
<1>8. keys \in Nat \ {0} /\ keys <= keys /\ 1 <= keys /\ r.key <= keys
  BY <1>2, <1>4 DEF SecretInv, SecretTypes
<1>9. QED
  BY <1>1, <1>3, <1>4, <1>5, <1>6, <1>7, <1>8, KeyStep

(* The key is in its file, and whoever made it uses it.                    *)
LEMMA SecretPutKey == ASSUME SecretInv, NEW k \in Tasks, Secrets!PutKey(k) PROVE SecretInv'
<1> DEFINE r == [user[k] EXCEPT !.key = keys + 1, !.pc = Secrets!AfterKey(user[k].pc)]
<1>1. /\ user[k].pc \in {"loadput", "saveput"} /\ keys' = keys + 1 /\ key' = keys + 1
      /\ secrets' = secrets /\ promised' = promised /\ ops' = ops
      /\ uncrashed' = uncrashed /\ keyRaced' = keyRaced /\ raced' = raced
  BY DEF Secrets!PutKey
<1>2. user[k] \in User /\ UserOK(user[k]) /\ user \in [Tasks -> User]
  BY UserFacts
<1>3. user' = [user EXCEPT ![k] = r]
  BY <1>1, <1>2 DEF Secrets!PutKey
<1>4. keys \in Nat \ {0} /\ keys + 1 \in Nat \ {0} /\ keys <= keys + 1
      /\ Secrets!Usable(keys + 1)
  BY NoKeys DEF SecretInv, SecretTypes
<1>5. /\ r \in User /\ r.key = keys + 1 /\ r.op = user[k].op /\ r.tenant = user[k].tenant
      /\ r.pc = (IF user[k].pc = "loadput" THEN "read" ELSE "open")
  BY <1>1, <1>2, <1>4 DEF User, Upserting, Secrets!AfterKey
<1> HIDE DEF r
<1>6. k \in Making /\ UserOK(r) /\ r.pc # "write" /\ r.pc \notin MakingKey
  BY <1>1, <1>2, <1>4, <1>5 DEF UserOK, Making, MakingKey, Upserting
<1>7. /\ keys' \in Nat \ {0} /\ keys <= keys' /\ key' \in Nat /\ key' <= keys'
      /\ r.key <= keys' /\ r.key = key'
  BY <1>1, <1>4, <1>5
<1>8. QED
  BY <1>1, <1>3, <1>5, <1>6, <1>7, KeyStep

(* A step that gives tenant t a file f that holds what it promises.        *)
LEMMA FileStep ==
  ASSUME SecretInv, NEW t \in Tenants, NEW f \in [key: Nat, held: SUBSET Names],
         NEW p \in SUBSET Names,
         secrets' = [secrets EXCEPT ![t] = f], promised' = [promised EXCEPT ![t] = p],
         key' = key, keys' = keys, keyRaced' = keyRaced,
         ops' \in 0..MaxEdits, uncrashed' = uncrashed,
         raced' \subseteq Tenants, raced \subseteq raced',
         user' \in [Tasks -> User], Making' = Making,
         \A j \in Tasks : UserOK(user'[j]) /\ user'[j].key \in {0, user[j].key},
         \A u \in Tenants \ {t} :
           Secrets!Writers(u)' = Secrets!Writers(u)
           /\ \A j \in Secrets!Writers(u) : user'[j] = user[j],
         f.key <= keys, ~Secrets!Usable(f.key) => f.held = {},
         ~keyRaced /\ Secrets!Usable(f.key) => f.key = key,
         t \notin raced' => HeldOf(t)'
  PROVE  SecretInv'
<1>1. /\ secrets'[t] = f /\ \A u \in Tenants \ {t} : secrets'[u] = secrets[u]
      /\ promised'[t] = p /\ \A u \in Tenants \ {t} : promised'[u] = promised[u]
      /\ secrets' \in [Tenants -> [key: Nat, held: SUBSET Names]]
      /\ promised' \in [Tenants -> SUBSET Names]
  BY DEF SecretInv, SecretTypes
<1>2. SecretTypes'
  <2>1. \A j \in Tasks : user'[j].key <= keys
    BY DEF SecretInv, SecretTypes
  <2>2. \A u \in Tenants : secrets'[u].key <= keys
    BY <1>1 DEF SecretInv, SecretTypes
  <2>3. QED
    BY <1>1, <2>1, <2>2 DEF SecretInv, SecretTypes
<1>3. UserInv'
  BY <1>1 DEF SecretInv, UserInv
<1>4. KeyInv'
  <2>1. ~Secrets!Usable(0)
    BY NoKeys
  <2>2. QED
    BY <1>1, <2>1 DEF SecretInv, KeyInv
<1>5. HeldInv'
  <2> SUFFICES ASSUME NEW u \in Tenants \ raced' PROVE HeldOf(u)'
    BY DEF HeldInv
  <2>1. CASE u # t
    <3>1. HeldOf(u)
      BY DEF SecretInv, HeldInv
    <3>2. QED
      BY <1>1, <2>1, <3>1 DEF HeldOf, Intact, Secrets!Readable
  <2>2. QED
    BY <2>1
<1>6. QED
  BY <1>2, <1>3, <1>4, <1>5 DEF SecretInv

(* The one task that writes a tenant's file is no writer of another's.     *)
LEMMA OtherFiles ==
  ASSUME SecretInv, NEW k \in Tasks, NEW t \in Tenants, user[k].tenant = {t}, NEW r \in User,
         user' = [user EXCEPT ![k] = r], r.tenant \subseteq {t},
         user[k].pc \notin MakingKey, r.pc \notin MakingKey, UserOK(r), r.key \in {0, user[k].key}
  PROVE  /\ user' \in [Tasks -> User] /\ Making' = Making
         /\ \A j \in Tasks : UserOK(user'[j]) /\ user'[j].key \in {0, user[j].key}
         /\ \A u \in Tenants \ {t} :
              Secrets!Writers(u)' = Secrets!Writers(u)
              /\ \A j \in Secrets!Writers(u) : user'[j] = user[j]
         /\ user'[k] = r /\ \A j \in Tasks \ {k} : user'[j] = user[j]
<1>1. /\ user'[k] = r /\ (\A j \in Tasks \ {k} : user'[j] = user[j])
      /\ user' \in [Tasks -> User]
  BY UserFacts
<1>2. Making' = Making
  BY <1>1 DEF Making
<1>3. \A j \in Tasks : UserOK(user'[j]) /\ user'[j].key \in {0, user[j].key}
  BY <1>1, UserFacts
<1>4. \A u \in Tenants \ {t} :
        Secrets!Writers(u)' = Secrets!Writers(u)
        /\ \A j \in Secrets!Writers(u) : user'[j] = user[j]
  BY <1>1 DEF Secrets!Writers
<1>5. QED
  BY <1>1, <1>2, <1>3, <1>4

(* A save cuts the file.                                                   *)
LEMMA SecretOpen == ASSUME SecretInv, NEW k \in Tasks, Secrets!Open(k) PROVE SecretInv'
<1> DEFINE r == [user[k] EXCEPT !.pc = "write"]
<1> DEFINE f == [key |-> 1, held |-> {}]
<1>1. PICK t \in user[k].tenant : secrets' = [secrets EXCEPT ![t] = f]
  BY NoKeys DEF Secrets!Open
<1>2. /\ user[k].pc = "open" /\ key' = key /\ keys' = keys /\ promised' = promised
      /\ ops' = ops /\ uncrashed' = uncrashed /\ keyRaced' = keyRaced /\ raced' = raced
  BY DEF Secrets!Open
<1>3. user[k] \in User /\ UserOK(user[k]) /\ user \in [Tasks -> User]
  BY UserFacts
<1>4. t \in Tenants /\ user[k].tenant = {t} /\ user[k].op = "upsert"
  BY <1>2, <1>3 DEF UserOK, Upserting
<1>5. user' = [user EXCEPT ![k] = r]
  BY <1>3 DEF Secrets!Open, Secrets!Go
<1>6. /\ r \in User /\ r.pc = "write" /\ r.key = user[k].key /\ r.op = user[k].op
      /\ r.tenant = user[k].tenant /\ r.copy = user[k].copy
  BY <1>3 DEF User, Upserting
<1>7. f \in [key: Nat, held: SUBSET Names] /\ f.key = 1 /\ f.held = {} /\ ~Secrets!Usable(f.key)
  BY NoKeys
<1> HIDE DEF r, f
<1>8. UserOK(r) /\ user[k].pc \notin MakingKey /\ r.pc \notin MakingKey
      /\ r.tenant \subseteq {t} /\ r.key \in {0, user[k].key}
  BY <1>2, <1>3, <1>4, <1>6 DEF UserOK, MakingKey, Upserting
<1>9. /\ user' \in [Tasks -> User] /\ Making' = Making
      /\ \A j \in Tasks : UserOK(user'[j]) /\ user'[j].key \in {0, user[j].key}
      /\ \A u \in Tenants \ {t} :
           Secrets!Writers(u)' = Secrets!Writers(u)
           /\ \A j \in Secrets!Writers(u) : user'[j] = user[j]
      /\ user'[k] = r /\ \A j \in Tasks \ {k} : user'[j] = user[j]
  BY <1>4, <1>5, <1>6, <1>8, OtherFiles
<1>10. ASSUME t \notin raced PROVE HeldOf(t)'
  <2>1. HeldOf(t)
    BY <1>4, <1>10 DEF SecretInv, HeldInv
  <2>2. k \in Secrets!Writers(t)
    BY <1>4 DEF Secrets!Writers
  <2>3. Secrets!Writers(t)' = {k}
    <3>1. Secrets!Writers(t) = {k}
      BY <2>1, <2>2 DEF HeldOf
    <3>2. Secrets!Writers(t)' = Secrets!Writers(t)
      BY <1>4, <1>6, <1>9 DEF Secrets!Writers
    <3>3. QED
      BY <3>1, <3>2
  <2>4. secrets'[t].key = Secrets!Torn
    BY <1>1, <1>4, <1>7, NoKeys DEF SecretInv, SecretTypes
  <2>5. ~keyRaced => promised[t] \subseteq r.copy
    BY <1>2, <1>6, <2>1, <2>2 DEF HeldOf, Upserting
  <2>6. QED
    BY <1>2, <1>6, <1>9, <2>3, <2>4, <2>5 DEF HeldOf
<1>11. /\ promised' = [promised EXCEPT ![t] = promised[t]] /\ promised[t] \in SUBSET Names
       /\ f.key <= keys /\ ops' \in 0..MaxEdits /\ raced \subseteq raced' /\ raced' \subseteq Tenants
  BY <1>2, <1>4, <1>7 DEF SecretInv, SecretTypes
<1>12. QED
  BY <1>1, <1>2, <1>4, <1>7, <1>9, <1>10, <1>11, FileStep

(* A save that nobody disturbed holds the copy and what was added to it.   *)
LEMMA SecretWrite == ASSUME SecretInv, NEW k \in Tasks, Secrets!Write(k) PROVE SecretInv'
<1> DEFINE r == Secrets!AtRest
<1> DEFINE full == [key |-> user[k].key, held |-> user[k].copy \cup user[k].name]
<1> DEFINE torn == [key |-> Secrets!Torn, held |-> {}]
<1>1. PICK t \in user[k].tenant :
        /\ \/ secrets[t].key = Secrets!NoFile /\ UNCHANGED secrets
           \/ secrets[t].key # Secrets!NoFile /\ secrets' = [secrets EXCEPT ![t] = full]
           \/ Secrets!Usable(secrets[t].key) /\ secrets' = [secrets EXCEPT ![t] = torn]
        /\ promised' = [promised EXCEPT ![t] = @ \cup user[k].name]
  BY DEF Secrets!Write
<1>2. /\ user[k].pc = "write" /\ key' = key /\ keys' = keys /\ user' = [user EXCEPT ![k] = r]
      /\ ops' = ops /\ uncrashed' = uncrashed /\ keyRaced' = keyRaced /\ raced' = raced
  BY DEF Secrets!Write
<1>3. user[k] \in User /\ UserOK(user[k]) /\ user[k].key <= keys
  BY UserFacts
<1>4. t \in Tenants /\ user[k].tenant = {t} /\ user[k].op = "upsert" /\ Secrets!Usable(user[k].key)
  BY <1>2, <1>3 DEF UserOK, Upserting
<1> DEFINE p == promised[t] \cup user[k].name
<1>5. promised' = [promised EXCEPT ![t] = p] /\ p \in SUBSET Names
  BY <1>1, <1>3, <1>4 DEF SecretInv, SecretTypes, User
<1>6. /\ full \in [key: Nat, held: SUBSET Names] /\ full.key = user[k].key
      /\ full.held = user[k].copy \cup user[k].name
      /\ torn \in [key: Nat, held: SUBSET Names] /\ torn.key = Secrets!Torn /\ torn.held = {}
      /\ Secrets!Torn = 1 /\ ~Secrets!Usable(Secrets!Torn) /\ ~Secrets!Usable(Secrets!NoFile)
      /\ Secrets!NoFile # Secrets!Torn
  BY <1>3, NoKeys DEF User
<1>7. r \in User /\ UserOK(r) /\ r.pc = "idle" /\ r.op = "none" /\ r.key = 0 /\ r.tenant = {}
  BY Rest, RestOK
<1> HIDE DEF r, full, torn, p
<1>8. user[k].pc \notin MakingKey /\ r.pc \notin MakingKey
      /\ r.tenant \subseteq {t} /\ r.key \in {0, user[k].key}
  BY <1>2, <1>7 DEF MakingKey
<1>9. /\ user' \in [Tasks -> User] /\ Making' = Making
      /\ \A j \in Tasks : UserOK(user'[j]) /\ user'[j].key \in {0, user[j].key}
      /\ \A u \in Tenants \ {t} :
           Secrets!Writers(u)' = Secrets!Writers(u)
           /\ \A j \in Secrets!Writers(u) : user'[j] = user[j]
      /\ user'[k] = r /\ \A j \in Tasks \ {k} : user'[j] = user[j]
  BY <1>2, <1>4, <1>7, <1>8, OtherFiles
<1>10. PICK f \in {secrets[t], full, torn} :
         /\ secrets' = [secrets EXCEPT ![t] = f]
         /\ f = secrets[t] => secrets[t].key = Secrets!NoFile \/ f \in {full, torn}
         /\ f = torn => Secrets!Usable(secrets[t].key) \/ f \in {secrets[t], full}
         /\ secrets[t].key = Secrets!Torn => f = full
  <2>1. CASE secrets[t].key = Secrets!NoFile /\ UNCHANGED secrets
    <3>1. secrets' = [secrets EXCEPT ![t] = secrets[t]]
      BY <2>1 DEF SecretInv, SecretTypes
    <3>2. QED
      BY <1>6, <2>1, <3>1
  <2>2. CASE secrets' = [secrets EXCEPT ![t] = full]
    BY <2>2
  <2>3. CASE Secrets!Usable(secrets[t].key) /\ secrets' = [secrets EXCEPT ![t] = torn]
    BY <1>6, <2>3
  <2>4. QED
    BY <1>1, <2>1, <2>2, <2>3
<1>11. /\ f \in [key: Nat, held: SUBSET Names] /\ f.key <= keys
       /\ (~Secrets!Usable(f.key) => f.held = {})
       /\ (~keyRaced /\ Secrets!Usable(f.key) => f.key = key)
  <2>1. CASE f = full
    BY <1>3, <1>4, <1>6, <2>1 DEF SecretInv, KeyInv
  <2>2. CASE f = torn
    BY <1>6, <2>2 DEF SecretInv, SecretTypes
  <2>3. CASE f = secrets[t]
    BY <1>4, <2>3 DEF SecretInv, SecretTypes, UserInv, KeyInv
  <2>4. QED
    BY <2>1, <2>2, <2>3
<1>12. ASSUME t \notin raced PROVE HeldOf(t)'
  <2>1. HeldOf(t)
    BY <1>4, <1>12 DEF SecretInv, HeldInv
  <2>2. k \in Secrets!Writers(t)
    BY <1>4 DEF Secrets!Writers
  <2>3. Secrets!Writers(t)' = {}
    <3>1. Secrets!Writers(t) = {k}
      BY <2>1, <2>2 DEF HeldOf
    <3>2. QED
      BY <3>1, <1>7, <1>9 DEF Secrets!Writers
  <2>4. f = full
    BY <1>2, <1>10, <2>1, <2>2 DEF HeldOf
  <2>5. secrets'[t] = full /\ promised'[t] = p
    BY <1>4, <1>5, <1>10, <2>4 DEF SecretInv, SecretTypes
  <2>6. ~keyRaced => promised[t] \subseteq user[k].copy /\ user[k].key = key
    BY <1>2, <1>4, <2>1, <2>2 DEF HeldOf, Upserting, SecretInv, KeyInv
  <2>7. ~keyRaced => p \subseteq full.held /\ full.key = key
    BY <1>6, <2>6 DEF p
  <2>8. QED
    BY <1>2, <2>3, <2>5, <2>7 DEF HeldOf, Intact, Secrets!Readable
<1>13. ops' \in 0..MaxEdits /\ raced \subseteq raced' /\ raced' \subseteq Tenants
  BY <1>2 DEF SecretInv, SecretTypes
<1>14. QED
  BY <1>2, <1>4, <1>5, <1>9, <1>10, <1>11, <1>12, <1>13, FileStep

(* Nothing is promised of a tenant whose secrets are deleted.              *)
LEMMA SecretDelete == ASSUME SecretInv, NEW t \in Tenants, Secrets!Delete(t) PROVE SecretInv'
<1> DEFINE f == [key |-> 0, held |-> {}]
<1>1. /\ ops < MaxEdits /\ ops' = ops + 1
      /\ secrets' = [secrets EXCEPT ![t] = f] /\ promised' = [promised EXCEPT ![t] = {}]
      /\ raced' = (IF Secrets!Writers(t) # {} THEN raced \cup {t} ELSE raced)
      /\ key' = key /\ user' = user /\ keys' = keys /\ uncrashed' = uncrashed
      /\ keyRaced' = keyRaced
  BY NoKeys DEF Secrets!Delete, Secrets!NoSecrets
<1>2. f \in [key: Nat, held: SUBSET Names] /\ f.key = 0 /\ f.held = {} /\ ~Secrets!Usable(f.key)
  BY NoKeys
<1> HIDE DEF f
<1>3. /\ user' \in [Tasks -> User] /\ Making' = Making
      /\ \A j \in Tasks : UserOK(user'[j]) /\ user'[j].key \in {0, user[j].key}
      /\ \A u \in Tenants \ {t} :
           Secrets!Writers(u)' = Secrets!Writers(u)
           /\ \A j \in Secrets!Writers(u) : user'[j] = user[j]
  BY <1>1, UserFacts DEF Making, Secrets!Writers, SecretInv, SecretTypes
<1>4. ASSUME t \notin raced' PROVE HeldOf(t)'
  <2>1. Secrets!Writers(t)' = {}
    BY <1>1, <1>4 DEF Secrets!Writers
  <2>2. promised'[t] = {}
    BY <1>1 DEF SecretInv, SecretTypes
  <2>3. QED
    BY <2>1, <2>2 DEF HeldOf, Intact
<1>5. /\ f.key <= keys /\ {} \in SUBSET Names /\ ops' \in 0..MaxEdits
      /\ raced \subseteq raced' /\ raced' \subseteq Tenants
  BY <1>1, <1>2, StoresAssumption DEF SecretInv, SecretTypes
<1>6. QED
  BY <1>1, <1>2, <1>3, <1>4, <1>5, FileStep

(* Every step of the store preserves the invariant.                        *)
LEMMA SecretNext ==
  ASSUME SecretInv, [Secrets!SNext]_(Secrets!svars) PROVE SecretInv'
<1>1. CASE Secrets!SNext
  BY <1>1, SecretStart, SecretUpsert, SecretGetKey, SecretOpenKey, SecretPutKey, SecretRead,
     SecretOpen, SecretWrite, SecretDelete, SecretCrash DEF Secrets!SNext
<1>2. CASE UNCHANGED Secrets!svars
  BY <1>2 DEF Secrets!svars, SecretInv, SecretTypes, UserInv, KeyInv, HeldInv, HeldOf, Making,
              Intact, Secrets!Writers, Secrets!Readable
<1>3. QED
  BY <1>1, <1>2

SecretsHeld == part = "secrets" => SecretInv

(* load_secrets, save_secrets, get_or_create_master_key: whatever their    *)
(* interleavings and crashes, an agent that starts is given every secret   *)
(* whose upsert has returned, but for the races that the property names.   *)
THEOREM Kept == Spec => []SecretsKept
<1>1. Init => SecretsHeld
  BY SecretInit DEF Init, SecretsHeld
<1>2. SecretsHeld /\ [Next]_vars => SecretsHeld'
  BY Steps, SecretNext DEF SecretsHeld
<1>3. SecretsHeld => SecretsKept
  BY DEF SecretsHeld, SecretInv, HeldInv, HeldOf, Intact, SecretsKept, Secrets!SecretsKept
<1>4. QED
  BY <1>1, <1>2, <1>3, PTL DEF Spec

-----------------------------------------------------------------------------
(* The memory of an agent.                                                 *)
Client == [pc: {"idle", "save", "lost"}, key: SUBSET Keys, put: Memory!Stores, copy: Memory!Stores]

MemoryTypes ==
  /\ store \in Memory!Stores /\ kept \in Memory!Stores
  /\ client \in [Tasks -> Client]
  /\ now \in 0..MaxTime /\ ops \in 0..MaxEdits /\ uncrashed \in 0..MaxCrashes
  /\ mixed \in BOOLEAN

(* Two files that readers of time t cannot tell apart.                     *)
AliveIn(s, k, t) == k \in DOMAIN s /\ ~Memory!Expired(s[k], t)
Same(s, u, t) ==
  \A k \in Keys :
    /\ AliveIn(s, k, t) <=> AliveIn(u, k, t)
    /\ AliveIn(s, k, t) => s[k] = u[k]

(* What is kept once a task that does r has saved.                         *)
Left(r) ==
  [k \in (DOMAIN kept \ r.key) \cup DOMAIN r.put |->
     IF k \in DOMAIN r.put THEN Memory!Aged(k, r.put[k]) ELSE kept[k]]

(* Barring an overlap, readers see what is kept, and will once the one     *)
(* task that is saving has saved.                                          *)
SameInv ==
  ~mixed =>
    /\ \A c \in Tasks : client[c].pc # "lost"
    /\ \A b, c \in Memory!Saving : b = c
    /\ Same(store, kept, now)
    /\ \A c \in Memory!Saving : Same(client[c].copy, Left(client[c]), now)

MemoryInv == MemoryTypes /\ SameInv

(* What a file is.                                                         *)
LEMMA StoreFacts ==
  /\ \A s : s \in Memory!Stores <=>
       /\ DOMAIN s \subseteq Keys /\ s = [k \in DOMAIN s |-> s[k]]
       /\ \A k \in DOMAIN s : s[k] \in Memory!Entry
  /\ Memory!Blank \in Memory!Stores /\ DOMAIN Memory!Blank = {}
<1>1. ASSUME NEW s, s \in Memory!Stores
      PROVE  /\ DOMAIN s \subseteq Keys /\ s = [k \in DOMAIN s |-> s[k]]
             /\ \A k \in DOMAIN s : s[k] \in Memory!Entry
  <2>1. PICK ks \in SUBSET Keys : s \in [ks -> Memory!Entry]
    BY <1>1 DEF Memory!Stores
  <2>2. QED
    BY <2>1
<1>2. ASSUME NEW s, DOMAIN s \subseteq Keys, s = [k \in DOMAIN s |-> s[k]],
             \A k \in DOMAIN s : s[k] \in Memory!Entry
      PROVE  s \in Memory!Stores
  <2>1. s \in [DOMAIN s -> Memory!Entry]
    BY <1>2
  <2>2. QED
    BY <1>2, <2>1 DEF Memory!Stores
<1>3. Memory!Blank \in [{} -> Memory!Entry] /\ DOMAIN Memory!Blank = {}
  BY DEF Memory!Blank
<1>4. Memory!Blank \in Memory!Stores
  BY <1>3 DEF Memory!Stores
<1>5. QED
  BY <1>1, <1>2, <1>3, <1>4

(* What is alive of a file, and a file without a key.                      *)
LEMMA Parts ==
  ASSUME NEW s \in Memory!Stores
  PROVE  /\ \A t : /\ Memory!Live(s, t) \in Memory!Stores
                   /\ \A k : k \in DOMAIN Memory!Live(s, t) <=> AliveIn(s, k, t)
                   /\ \A k \in DOMAIN Memory!Live(s, t) : Memory!Live(s, t)[k] = s[k]
         /\ \A S \in SUBSET DOMAIN s :
              /\ Memory!Restrict(s, S) \in Memory!Stores
              /\ DOMAIN Memory!Restrict(s, S) = S
              /\ \A k \in S : Memory!Restrict(s, S)[k] = s[k]
<1>1. /\ DOMAIN s \subseteq Keys
      /\ \A k \in DOMAIN s : s[k] \in Memory!Entry
  BY StoreFacts
<1>2. ASSUME NEW S \in SUBSET DOMAIN s
      PROVE  /\ Memory!Restrict(s, S) \in Memory!Stores
             /\ DOMAIN Memory!Restrict(s, S) = S
             /\ \A k \in S : Memory!Restrict(s, S)[k] = s[k]
  <2>1. Memory!Restrict(s, S) = [k \in S |-> s[k]]
    BY DEF Memory!Restrict
  <2>2. Memory!Restrict(s, S) \in [S -> Memory!Entry]
    BY <1>1, <2>1
  <2>3. QED
    BY <1>1, <2>1, <2>2 DEF Memory!Stores
<1>3. ASSUME NEW t
      PROVE  /\ Memory!Live(s, t) \in Memory!Stores
             /\ \A k : k \in DOMAIN Memory!Live(s, t) <=> AliveIn(s, k, t)
             /\ \A k \in DOMAIN Memory!Live(s, t) : Memory!Live(s, t)[k] = s[k]
  <2> DEFINE S == {k \in DOMAIN s : ~Memory!Expired(s[k], t)}
  <2>1. Memory!Live(s, t) = Memory!Restrict(s, S) /\ S \in SUBSET DOMAIN s
    BY DEF Memory!Live
  <2>2. \A k : k \in S <=> AliveIn(s, k, t)
    BY DEF AliveIn
  <2> HIDE DEF S
  <2>3. QED
    BY <1>2, <2>1, <2>2
<1>4. QED
  BY <1>2, <1>3

(* What readers cannot tell apart they cannot tell apart later.            *)
LEMMA Later ==
  ASSUME NEW s \in Memory!Stores, NEW u \in Memory!Stores, NEW t \in Nat, Same(s, u, t)
  PROVE  Same(s, u, t + 1)
<1>1. ASSUME NEW e \in Memory!Entry, ~Memory!Expired(e, t + 1) PROVE ~Memory!Expired(e, t)
  <2>1. e.created \in Nat /\ e.ttl \in Nat
    <3>1. MaxTime \in Nat /\ \A d \in TTLs : d \in Nat
      BY StoresAssumption
    <3>2. \A n \in 0..MaxTime : n \in Nat
      BY <3>1
    <3>3. QED
      BY <3>1, <3>2 DEF Memory!Entry
  <2>2. \A c, d \in Nat : t >= c + d => t + 1 >= c + d
    OBVIOUS
  <2>3. QED
    BY <1>1, <2>1, <2>2 DEF Memory!Expired
<1>2. /\ \A k \in DOMAIN s : s[k] \in Memory!Entry
      /\ \A k \in DOMAIN u : u[k] \in Memory!Entry
  BY StoreFacts
<1>3. \A k : (AliveIn(s, k, t + 1) => AliveIn(s, k, t)) /\ (AliveIn(u, k, t + 1) => AliveIn(u, k, t))
  BY <1>1, <1>2 DEF AliveIn
<1>4. QED
  BY <1>3 DEF Same, AliveIn

(* What readers cannot tell apart is alive alike.                          *)
LEMMA SameLive ==
  ASSUME NEW s \in Memory!Stores, NEW u \in Memory!Stores, NEW t, Same(s, u, t)
  PROVE  Memory!Live(s, t) = Memory!Live(u, t)
<1>1. /\ DOMAIN Memory!Live(s, t) \subseteq Keys /\ DOMAIN Memory!Live(u, t) \subseteq Keys
      /\ Memory!Live(s, t) = [k \in DOMAIN Memory!Live(s, t) |-> Memory!Live(s, t)[k]]
      /\ Memory!Live(u, t) = [k \in DOMAIN Memory!Live(u, t) |-> Memory!Live(u, t)[k]]
  <2>1. Memory!Live(s, t) \in Memory!Stores /\ Memory!Live(u, t) \in Memory!Stores
    BY Parts
  <2>2. QED
    BY <2>1, StoreFacts
<1>2. DOMAIN Memory!Live(s, t) = DOMAIN Memory!Live(u, t)
  BY <1>1, Parts DEF Same
<1>3. \A k \in DOMAIN Memory!Live(s, t) : Memory!Live(s, t)[k] = Memory!Live(u, t)[k]
  BY <1>1, <1>2, Parts DEF Same
<1>4. QED
  BY <1>1, <1>2, <1>3

(* An entry that is put over what is alive.                                *)
LEMMA WithFacts ==
  ASSUME NEW s \in Memory!Stores, NEW k \in Keys, NEW v \in 1..MaxEdits, NEW ttl \in TTLs,
         NEW t \in 0..MaxTime
  PROVE  /\ Memory!With(s, k, v, ttl, t) \in Memory!Stores
         /\ DOMAIN Memory!With(s, k, v, ttl, t) = DOMAIN s \cup {k}
         /\ \A x \in DOMAIN s \ {k} : Memory!With(s, k, v, ttl, t)[x] = s[x]
         /\ Memory!With(s, k, v, ttl, t)[k] =
              [value |-> v, ttl |-> ttl, created |-> IF k \in DOMAIN s THEN s[k].created ELSE t]
<1>1. /\ DOMAIN s \subseteq Keys
      /\ \A x \in DOMAIN s : s[x] \in Memory!Entry
  BY StoreFacts
<1> DEFINE e == [value |-> v, ttl |-> ttl, created |-> IF k \in DOMAIN s THEN s[k].created ELSE t]
<1>2. e \in Memory!Entry
  BY <1>1 DEF Memory!Entry
<1> HIDE DEF e
<1>3. Memory!With(s, k, v, ttl, t) = [x \in DOMAIN s \cup {k} |-> IF x = k THEN e ELSE s[x]]
  BY DEF Memory!With, e
<1>4. Memory!With(s, k, v, ttl, t) \in [DOMAIN s \cup {k} -> Memory!Entry]
  BY <1>1, <1>2, <1>3
<1>5. Memory!With(s, k, v, ttl, t) \in Memory!Stores
  BY <1>1, <1>4 DEF Memory!Stores
<1>6. QED
  BY <1>3, <1>5 DEF e

(* What is kept keeps its type.                                            *)
LEMMA LeftFacts ==
  ASSUME MemoryTypes, NEW r \in Client
  PROVE  /\ Left(r) \in Memory!Stores
         /\ DOMAIN Left(r) = (DOMAIN kept \ r.key) \cup DOMAIN r.put
         /\ \A k \in DOMAIN r.put : Left(r)[k] = Memory!Aged(k, r.put[k])
         /\ \A k \in DOMAIN kept \ r.key :
              k \notin DOMAIN r.put => Left(r)[k] = kept[k]
<1>1. /\ DOMAIN kept \subseteq Keys /\ \A k \in DOMAIN kept : kept[k] \in Memory!Entry
      /\ DOMAIN r.put \subseteq Keys
      /\ \A k \in DOMAIN r.put : r.put[k] \in Memory!Entry
  BY StoreFacts DEF MemoryTypes, Client
<1>2. ASSUME NEW k, NEW e \in Memory!Entry PROVE Memory!Aged(k, e) \in Memory!Entry
  <2>1. k \in DOMAIN Memory!Live(kept, e.created) => k \in DOMAIN kept
    BY Parts DEF MemoryTypes, AliveIn
  <2>2. CASE k \in DOMAIN Memory!Live(kept, e.created)
    <3>1. kept[k].created \in 0..MaxTime
      BY <1>1, <2>1, <2>2 DEF Memory!Entry
    <3>2. Memory!Aged(k, e) = [e EXCEPT !.created = kept[k].created]
      BY <2>2 DEF Memory!Aged
    <3>3. QED
      BY <3>1, <3>2 DEF Memory!Entry
  <2>3. CASE k \notin DOMAIN Memory!Live(kept, e.created)
    BY <2>3 DEF Memory!Aged
  <2>4. QED
    BY <2>2, <2>3
<1>3. Left(r) \in [(DOMAIN kept \ r.key) \cup DOMAIN r.put -> Memory!Entry]
  BY <1>1, <1>2 DEF Left
<1>4. Left(r) \in Memory!Stores
  BY <1>1, <1>3 DEF Memory!Stores
<1>5. QED
  BY <1>4 DEF Left

(* No entry is kept at first.                                              *)
LEMMA MemoryInit == ASSUME Memory!MInit PROVE MemoryInv
<1>1. Memory!NoClient \in Client /\ Memory!NoClient.pc = "idle"
  BY StoreFacts DEF Memory!NoClient, Client
<1>2. MemoryTypes
  <2>1. client \in [Tasks -> Client]
    BY <1>1 DEF Memory!MInit
  <2>2. now \in 0..MaxTime /\ ops \in 0..MaxEdits /\ uncrashed \in 0..MaxCrashes
    BY StoresAssumption DEF Memory!MInit
  <2>3. store \in Memory!Stores /\ kept \in Memory!Stores /\ mixed \in BOOLEAN
    BY StoreFacts DEF Memory!MInit
  <2>4. QED
    BY <2>1, <2>2, <2>3 DEF MemoryTypes
<1>3. \A c \in Tasks : client[c].pc = "idle"
  BY <1>1 DEF Memory!MInit
<1>4. SameInv
  BY <1>3 DEF Memory!MInit, SameInv, Same, Memory!Saving
<1>5. QED
  BY <1>2, <1>4 DEF MemoryInv

(* A task that begins when no other saves leaves the file as it is, and    *)
(* will write a copy that readers cannot tell from what is kept then.      *)
LEMMA ClientStep ==
  ASSUME MemoryInv, NEW c \in Tasks, NEW r \in Client, r.pc = "save",
         client' = [client EXCEPT ![c] = r], ops' \in 0..MaxEdits,
         mixed' = (mixed \/ Memory!Saving # {}),
         store' = store, now' = now, kept' = kept, uncrashed' = uncrashed,
         ~mixed /\ Memory!Saving = {} => Same(r.copy, Left(r), now)
  PROVE  MemoryInv'
<1>1. client'[c] = r /\ (\A b \in Tasks \ {c} : client'[b] = client[b]) /\ client' \in [Tasks -> Client]
  BY DEF MemoryInv, MemoryTypes
<1>2. MemoryTypes'
  BY <1>1 DEF MemoryInv, MemoryTypes
<1>3. SameInv'
  <2> SUFFICES ASSUME ~mixed'
               PROVE  /\ \A b \in Tasks : client'[b].pc # "lost"
                      /\ \A a, b \in Memory!Saving' : a = b
                      /\ Same(store, kept, now)
                      /\ \A b \in Memory!Saving' : Same(client'[b].copy, Left(client[b])', now)
    BY DEF SameInv, Same, AliveIn
  <2>1. ~mixed /\ Memory!Saving = {}
    OBVIOUS
  <2>2. Memory!Saving' = {c}
    BY <1>1, <2>1 DEF Memory!Saving
  <2>3. Left(client[c])' = Left(r)
    BY <1>1 DEF Left, Memory!Aged
  <2>4. QED
    BY <1>1, <2>1, <2>2, <2>3 DEF MemoryInv, SameInv
<1>4. QED
  BY <1>2, <1>3 DEF MemoryInv

(* A put over what is alive.                                               *)
LEMMA MemoryPut ==
  ASSUME MemoryInv, NEW c \in Tasks, NEW k \in Keys, NEW ttl \in TTLs, Memory!Put(c, k, ttl)
  PROVE  MemoryInv'
<1>1. /\ client[c].pc = "idle" /\ ops < MaxEdits /\ ops' = ops + 1
      /\ store' = store /\ now' = now /\ kept' = kept /\ uncrashed' = uncrashed
      /\ mixed' = (mixed \/ Memory!Saving # {})
  BY DEF Memory!Put
<1> PICK v : v = ops'
  OBVIOUS
<1>2. PICK s \in Memory!Stored :
        client' = [client EXCEPT ![c] =
          [pc |-> "save", key |-> {k},
           put |-> [x \in {k} |-> [value |-> v, ttl |-> ttl, created |-> now]],
           copy |-> Memory!With(Memory!Live(s, now), k, v, ttl, now)]]
  BY DEF Memory!Put
<1>3. s \in Memory!Stores /\ (Memory!Saving = {} => s = store)
  BY StoreFacts DEF Memory!Stored, MemoryInv, MemoryTypes
<1>4. v \in 1..MaxEdits /\ ops' \in 0..MaxEdits /\ now \in 0..MaxTime
  BY <1>1, StoresAssumption DEF MemoryInv, MemoryTypes
<1> DEFINE fresh == Memory!Live(s, now)
<1> DEFINE e == [value |-> v, ttl |-> ttl, created |-> now]
<1> DEFINE alone == [x \in {k} |-> e]
<1> DEFINE copy == Memory!With(fresh, k, v, ttl, now)
<1> DEFINE r == [pc |-> "save", key |-> {k}, put |-> alone, copy |-> copy]
<1>5. e \in Memory!Entry /\ e.created = now /\ e.value = v /\ e.ttl = ttl
  BY <1>4 DEF Memory!Entry
<1>6. alone \in Memory!Stores /\ DOMAIN alone = {k} /\ alone[k] = e
  <2> HIDE DEF e
  <2>1. alone \in [{k} -> Memory!Entry]
    BY <1>5
  <2>2. QED
    BY <2>1 DEF Memory!Stores
<1>7. client' = [client EXCEPT ![c] = r]
  BY <1>2
<1>8. fresh \in Memory!Stores
  BY <1>3, Parts
<1>9. /\ copy \in Memory!Stores
      /\ DOMAIN copy = DOMAIN fresh \cup {k}
      /\ \A x \in DOMAIN fresh \ {k} : copy[x] = fresh[x]
      /\ copy[k] = [value |-> v, ttl |-> ttl,
                    created |-> IF k \in DOMAIN fresh THEN fresh[k].created ELSE now]
  <2> HIDE DEF fresh
  <2>1. QED
    BY <1>4, <1>8, WithFacts
<1> HIDE DEF alone, copy, e
<1>10. r \in Client /\ r.pc = "save" /\ r.key = {k} /\ r.put = alone /\ r.copy = copy
  BY <1>6, <1>9 DEF Client
<1> HIDE DEF r
<1>11. ASSUME ~mixed, Memory!Saving = {} PROVE Same(copy, Left(r), now)
  <2>1. s = store /\ Same(store, kept, now)
    BY <1>3, <1>11 DEF MemoryInv, SameInv
  <2>2. /\ DOMAIN Left(r) = DOMAIN kept \cup {k}
        /\ Left(r)[k] = Memory!Aged(k, e)
        /\ \A x \in DOMAIN kept \ {k} : Left(r)[x] = kept[x]
    BY <1>6, <1>10, LeftFacts DEF MemoryInv
  <2>3. /\ \A x : x \in DOMAIN fresh <=> AliveIn(store, x, now)
        /\ \A x \in DOMAIN fresh : fresh[x] = store[x]
    BY <2>1, <1>3, Parts
  <2>4. \A x : x \in DOMAIN Memory!Live(kept, now) <=> AliveIn(kept, x, now)
    BY Parts DEF MemoryInv, MemoryTypes
  <2>5. \A x \in Keys : /\ x \in DOMAIN fresh <=> AliveIn(kept, x, now)
                        /\ x \in DOMAIN fresh => fresh[x] = kept[x]
    BY <2>1, <2>3 DEF Same
  <2>6. copy[k] = Left(r)[k]
    <3>1. CASE k \in DOMAIN fresh
      <4>1. Memory!Aged(k, e) = [e EXCEPT !.created = kept[k].created]
        BY <1>5, <2>4, <2>5, <3>1 DEF Memory!Aged
      <4>2. [e EXCEPT !.created = kept[k].created] =
              [value |-> v, ttl |-> ttl, created |-> kept[k].created]
        BY DEF e
      <4>3. QED
        BY <1>9, <2>2, <2>5, <3>1, <4>1, <4>2
    <3>2. CASE k \notin DOMAIN fresh
      BY <1>5, <1>9, <2>2, <2>4, <2>5, <3>2 DEF Memory!Aged, e
    <3>3. QED
      BY <3>1, <3>2
  <2>7. ASSUME NEW x \in Keys, x # k
        PROVE  /\ AliveIn(copy, x, now) <=> AliveIn(Left(r), x, now)
               /\ AliveIn(copy, x, now) => copy[x] = Left(r)[x]
    BY <1>9, <2>2, <2>5, <2>7 DEF AliveIn
  <2>8. /\ AliveIn(copy, k, now) <=> AliveIn(Left(r), k, now)
        /\ AliveIn(copy, k, now) => copy[k] = Left(r)[k]
    BY <1>9, <2>2, <2>6 DEF AliveIn
  <2>9. QED
    BY <2>7, <2>8 DEF Same
<1>12. QED
  BY <1>1, <1>4, <1>7, <1>10, <1>11, ClientStep

(* A delete takes a key from what is stored.                               *)
LEMMA MemoryRemove ==
  ASSUME MemoryInv, NEW c \in Tasks, NEW k \in Keys, Memory!Remove(c, k)
  PROVE  MemoryInv'
<1>1. /\ client[c].pc = "idle" /\ ops < MaxEdits /\ ops' = ops + 1
      /\ store' = store /\ now' = now /\ kept' = kept /\ uncrashed' = uncrashed
      /\ mixed' = (mixed \/ Memory!Saving # {})
  BY DEF Memory!Remove
<1>2. PICK s \in Memory!Stored :
        client' = [client EXCEPT ![c] =
          [pc |-> "save", key |-> {k}, put |-> Memory!Blank,
           copy |-> Memory!Restrict(s, DOMAIN s \ {k})]]
  BY DEF Memory!Remove
<1>3. s \in Memory!Stores /\ (Memory!Saving = {} => s = store)
  BY StoreFacts DEF Memory!Stored, MemoryInv, MemoryTypes
<1>4. ops' \in 0..MaxEdits
  BY <1>1, StoresAssumption DEF MemoryInv, MemoryTypes
<1> DEFINE copy == Memory!Restrict(s, DOMAIN s \ {k})
<1> DEFINE r == [pc |-> "save", key |-> {k}, put |-> Memory!Blank, copy |-> copy]
<1>5. /\ copy \in Memory!Stores /\ DOMAIN copy = DOMAIN s \ {k}
      /\ \A x \in DOMAIN s \ {k} : copy[x] = s[x]
  BY <1>3, Parts
<1>6. client' = [client EXCEPT ![c] = r]
  BY <1>2
<1> HIDE DEF copy
<1>7. r \in Client /\ r.pc = "save" /\ r.key = {k} /\ r.put = Memory!Blank /\ r.copy = copy
  BY <1>5, StoreFacts DEF Client
<1> HIDE DEF r
<1>8. ASSUME ~mixed, Memory!Saving = {} PROVE Same(copy, Left(r), now)
  <2>1. s = store /\ Same(store, kept, now)
    BY <1>3, <1>8 DEF MemoryInv, SameInv
  <2>2. /\ DOMAIN Left(r) = DOMAIN kept \ {k}
        /\ \A x \in DOMAIN kept \ {k} : Left(r)[x] = kept[x]
    BY <1>7, StoreFacts, LeftFacts DEF MemoryInv
  <2>3. QED
    BY <1>5, <2>1, <2>2 DEF Same, AliveIn
<1>9. QED
  BY <1>1, <1>4, <1>6, <1>7, <1>8, ClientStep

(* A save leaves what was to be kept.                                      *)
LEMMA MemorySave == ASSUME MemoryInv, NEW c \in Tasks, Memory!SaveStore(c) PROVE MemoryInv'
<1>1. /\ now' = now /\ ops' = ops /\ uncrashed' = uncrashed /\ mixed' = mixed
      /\ client' = [client EXCEPT ![c] = Memory!NoClient]
      /\ \/ client[c].pc = "save" /\ store' = client[c].copy
         \/ client[c].pc = "save" /\ Memory!Saving # {c} /\ store' = Memory!Blank
         \/ client[c].pc = "lost" /\ store' = store
  BY DEF Memory!SaveStore
<1>2. kept' = Left(client[c])
  BY DEF Memory!SaveStore, Left
<1>3. /\ client'[c].pc = "idle" /\ (\A b \in Tasks \ {c} : client'[b] = client[b])
      /\ client' \in [Tasks -> Client] /\ client[c] \in Client
  <2>1. Memory!NoClient \in Client /\ Memory!NoClient.pc = "idle"
    BY StoreFacts DEF Memory!NoClient, Client
  <2>2. QED
    BY <1>1, <2>1 DEF MemoryInv, MemoryTypes
<1>4. kept' \in Memory!Stores
  BY <1>2, <1>3, LeftFacts DEF MemoryInv
<1>5. store' \in Memory!Stores
  BY <1>1, <1>3, StoreFacts DEF MemoryInv, MemoryTypes, Client
<1>6. MemoryTypes'
  BY <1>1, <1>3, <1>4, <1>5 DEF MemoryInv, MemoryTypes
<1>7. SameInv'
  <2> SUFFICES ASSUME ~mixed
               PROVE  /\ \A b \in Tasks : client'[b].pc # "lost"
                      /\ Memory!Saving' = {} /\ Same(store', kept', now)
    BY <1>1 DEF SameInv, Same, AliveIn
  <2>1. /\ \A b \in Tasks : client[b].pc # "lost"
        /\ \A a, b \in Memory!Saving : a = b
        /\ \A b \in Memory!Saving : Same(client[b].copy, Left(client[b]), now)
    BY DEF MemoryInv, SameInv
  <2>2. client[c].pc = "save" /\ c \in Memory!Saving
    BY <1>1, <2>1 DEF Memory!Saving
  <2>3. Memory!Saving = {c}
    BY <2>1, <2>2
  <2>4. store' = client[c].copy
    BY <1>1, <2>1, <2>3
  <2>5. Memory!Saving' = {}
    BY <1>3, <2>3 DEF Memory!Saving
  <2>6. QED
    BY <1>2, <1>3, <2>1, <2>2, <2>4, <2>5
<1>8. QED
  BY <1>6, <1>7 DEF MemoryInv

(* The steps of nobody in particular.                                      *)
LEMMA MemoryRest ==
  ASSUME MemoryInv, Memory!Clear \/ Memory!Pass \/ Memory!MCrash PROVE MemoryInv'
<1>1. CASE Memory!Clear
  <2>1. /\ ops < MaxEdits /\ ops' = ops + 1 /\ store' = Memory!Blank /\ kept' = Memory!Blank
        /\ now' = now /\ uncrashed' = uncrashed /\ mixed' = (mixed \/ Memory!Saving # {})
    BY <1>1 DEF Memory!Clear
  <2>2. PICK lost \in SUBSET Memory!Saving :
          client' = [c \in Tasks |->
            IF c \in lost THEN [client[c] EXCEPT !.pc = "lost"] ELSE client[c]]
    BY <1>1 DEF Memory!Clear
  <2>3. client' \in [Tasks -> Client]
    BY <2>2 DEF MemoryInv, MemoryTypes, Client
  <2>4. ops' \in 0..MaxEdits
    BY <2>1, StoresAssumption DEF MemoryInv, MemoryTypes
  <2>5. MemoryTypes'
    BY <2>1, <2>3, <2>4, StoreFacts DEF MemoryInv, MemoryTypes
  <2>6. SameInv'
    <3> SUFFICES ASSUME ~mixed, Memory!Saving = {}
                 PROVE  /\ \A b \in Tasks : client'[b].pc # "lost"
                        /\ Memory!Saving' = {} /\ Same(store', kept', now)
      BY <2>1 DEF SameInv, Same, AliveIn
    <3>1. \A c \in Tasks : client'[c] = client[c]
      BY <2>2
    <3>2. QED
      BY <2>1, <3>1 DEF MemoryInv, SameInv, Memory!Saving, Same
  <2>7. QED
    BY <2>5, <2>6 DEF MemoryInv
<1>2. CASE Memory!Pass
  <2>1. /\ now < MaxTime /\ now' = now + 1 /\ store' = store /\ kept' = kept /\ ops' = ops
        /\ client' = client /\ uncrashed' = uncrashed /\ mixed' = mixed
    BY <1>2 DEF Memory!Pass
  <2>2. now \in Nat /\ now' \in 0..MaxTime
    BY <2>1, StoresAssumption DEF MemoryInv, MemoryTypes
  <2>3. MemoryTypes'
    BY <2>1, <2>2 DEF MemoryInv, MemoryTypes
  <2>4. SameInv'
    <3> SUFFICES ASSUME ~mixed
                 PROVE  /\ \A b \in Tasks : client[b].pc # "lost"
                        /\ \A a, b \in Memory!Saving : a = b
                        /\ Same(store, kept, now + 1)
                        /\ \A c \in Memory!Saving : Same(client[c].copy, Left(client[c]), now + 1)
      <4>1. \A r : Left(r)' = Left(r)
        BY <2>1 DEF Left, Memory!Aged
      <4>2. QED
        BY <2>1, <4>1 DEF SameInv, Same, AliveIn, Memory!Saving
    <3>1. Same(store, kept, now + 1)
      BY <2>2, Later DEF MemoryInv, MemoryTypes, SameInv
    <3>2. ASSUME NEW c \in Memory!Saving PROVE Same(client[c].copy, Left(client[c]), now + 1)
      <4>1. client[c] \in Client
        BY DEF Memory!Saving, MemoryInv, MemoryTypes
      <4>2. client[c].copy \in Memory!Stores /\ Left(client[c]) \in Memory!Stores
        BY <4>1, LeftFacts DEF MemoryInv, Client
      <4>3. Same(client[c].copy, Left(client[c]), now)
        BY DEF MemoryInv, SameInv
      <4>4. QED
        BY <2>2, <4>2, <4>3, Later
    <3>3. QED
      BY <3>1, <3>2 DEF MemoryInv, SameInv
  <2>5. QED
    BY <2>3, <2>4 DEF MemoryInv
<1>3. CASE Memory!MCrash
  <2>1. /\ uncrashed > 0 /\ uncrashed' = uncrashed - 1 /\ store' \in Memory!Stored
        /\ client' = [c \in Tasks |-> Memory!NoClient]
        /\ mixed' = (mixed \/ Memory!Saving # {}) /\ now' = now /\ kept' = kept /\ ops' = ops
    BY <1>3 DEF Memory!MCrash
  <2>2. Memory!NoClient \in Client /\ Memory!NoClient.pc = "idle"
    BY StoreFacts DEF Memory!NoClient, Client
  <2>3. uncrashed' \in 0..MaxCrashes
    BY <2>1, StoresAssumption DEF MemoryInv, MemoryTypes
  <2>4. store' \in Memory!Stores /\ (Memory!Saving = {} => store' = store)
    BY <2>1, StoreFacts DEF Memory!Stored, MemoryInv, MemoryTypes
  <2>5. MemoryTypes'
    BY <2>1, <2>2, <2>3, <2>4 DEF MemoryInv, MemoryTypes
  <2>6. Memory!Saving' = {} /\ \A c \in Tasks : client'[c].pc # "lost"
    BY <2>1, <2>2 DEF Memory!Saving
  <2>7. SameInv'
    BY <2>1, <2>4, <2>6 DEF MemoryInv, SameInv, Same, AliveIn
  <2>8. QED
    BY <2>5, <2>7 DEF MemoryInv
<1>4. QED
  BY <1>1, <1>2, <1>3

(* Every step of the store preserves the invariant.                        *)
LEMMA MemoryNext ==
  ASSUME MemoryInv, [Memory!MNext]_(Memory!mvars) PROVE MemoryInv'
<1>1. CASE Memory!MNext
  BY <1>1, MemoryPut, MemoryRemove, MemorySave, MemoryRest DEF Memory!MNext
<1>2. CASE UNCHANGED Memory!mvars
  <2>1. \A r : Left(r)' = Left(r)
    BY <1>2 DEF Memory!mvars, Left, Memory!Aged
  <2>2. MemoryTypes'
    BY <1>2 DEF Memory!mvars, MemoryInv, MemoryTypes
  <2>3. SameInv'
    BY <1>2, <2>1 DEF Memory!mvars, MemoryInv, SameInv, Same, AliveIn, Memory!Saving
  <2>4. QED
    BY <2>2, <2>3 DEF MemoryInv
<1>3. QED
  BY <1>1, <1>2

MemorySame == part = "memory" => MemoryInv

(* put_memory, delete_memory, clear_memory, prune_expired: an agent reads  *)
(* under each key what the last request on it left there, and nothing else *)
(* that was kept is ever lost, unless two requests overlapped.             *)
THEOREM Remembered == Spec => []MemoryKept
<1>1. Init => MemorySame
  BY MemoryInit DEF Init, MemorySame
<1>2. MemorySame /\ [Next]_vars => MemorySame'
  BY Steps, MemoryNext DEF MemorySame
<1>3. MemorySame => MemoryKept
  BY SameLive DEF MemorySame, MemoryInv, MemoryTypes, SameInv, MemoryKept, Memory!MemoryKept
<1>4. QED
  BY <1>1, <1>2, <1>3, PTL DEF Spec
-----------------------------------------------------------------------------
(* A run of a workflow.  What its steps are, and that statuses are kept at *)
(* the first step of an id.                                                *)
Statuses == {"Pending", "Running", "Completed", "Skipped", "Failed"}

RunShaped ==
  /\ def \in Definitions
  /\ DOMAIN status = Flow!Steps /\ DOMAIN recorded = Flow!Steps /\ DOMAIN outcome = Flow!Steps
  /\ DOMAIN live = FlowAgents /\ DOMAIN pidFile = FlowAgents /\ started \in Nat
  /\ wave \subseteq Flow!Steps /\ served \subseteq Flow!Steps
  /\ \A i \in Flow!Steps :
       /\ status[i] \in Statuses
       /\ status[i] # "Pending" => Flow!First(def[i].id) = i
       /\ status[i] = "Skipped" => def[i].optional
       /\ status[i] = "Failed" => ~def[i].optional

(* The steps of the wave are not over before its results are recorded.     *)
Launching(i) == engine = "launch" /\ i \in wave
WaveOpen == \A i \in wave : engine = "launch" => status[Flow!First(def[i].id)] \in {"Pending", "Running"}

(* A run is over only when all of its steps are, which takes ids that      *)
(* differ.                                                                 *)
Over == \A i \in Flow!Steps : status[i] \in {"Completed", "Skipped", "Failed"}
Ended ==
  /\ engine = "finalize" => Over
  /\ verdict = "Completed" => /\ engine = "done" /\ Over
                              /\ \A i \in Flow!Steps : status[i] = "Failed" => def[i].optional

Distinct == \A i \in Flow!Steps : Flow!First(def[i].id) = i

(* What came of step i of the wave was a process.                          *)
Spawned(i) == Launching(i) /\ outcome[i] # {} /\ 0 \notin outcome[i]

ServedKept ==
  \A i \in Flow!Steps : status[i] = "Completed" \/ Spawned(i) => i \in served

(* The process of an agent is the one its pid file names, and there is one *)
(* unless something else happened to it.                                   *)
Lone(a) == live[a] \subseteq {pidFile[a]}
Unharmed(a) == a \in FlowAgents /\ a \notin touched \cup swept
Served(a) == \E i \in served : def[i].agent = a

(* It is the process of step i: in the record of the run if that has seen  *)
(* the step complete, and else in the hands of the engine, or lost.        *)
Owner(i, p) ==
  /\ status[i] = "Completed" => recorded[i] = p
  /\ Spawned(i) => outcome[i] = {p}

Owned(a) == \E i \in served : def[i].agent = a /\ Owner(i, pidFile[a])

FlowKept ==
  /\ RunShaped /\ WaveOpen /\ Ended
  /\ \A a \in FlowAgents : Lone(a)
  /\ \A a \in FlowAgents : Unharmed(a) /\ Served(a) => live[a] = {pidFile[a]}
  /\ Distinct => ServedKept /\ \A a \in FlowAgents : Unharmed(a) /\ Served(a) => Owned(a)

FlowInv == part = "flows" => FlowKept

-----------------------------------------------------------------------------
(* A set of natural numbers that is not empty has a least one.             *)
LEMMA Least ==
  ASSUME NEW T \in SUBSET Nat, T # {}
  PROVE  \E n \in T : \A m \in T : n <= m
<1> DEFINE R == {ss \in Nat \X Nat : ss[1] < ss[2]}
<1>1. IsWellFoundedOn(R, Nat)
  BY NatLessThanWellFounded DEF OpToRel
<1>2. PICK n \in T : \A m \in T : ~(<<m, n>> \in R)
  <2> HIDE DEF R
  <2>1. QED
    BY <1>1, WFMin
<1>3. \A m \in T : <<m, n>> \in R <=> m < n
  OBVIOUS
<1> HIDE DEF R
<1>4. SUFFICES ASSUME NEW m \in T
               PROVE  n <= m
  BY <1>2
<1>5. n \in Nat /\ m \in Nat /\ ~(m < n)
  BY <1>2, <1>3
<1>6. QED
  BY <1>5

(* A step of a node whose part is a run is one of WorkflowOnNode.          *)
LEMMA FlowSteps ==
  ASSUME [Next]_vars, part = "flows"
  PROVE  part' = part /\ (Flow!WNext \/ UNCHANGED Flow!wvars)
<1>1. CASE Next
  BY <1>1 DEF Next
<1>2. CASE UNCHANGED vars
  BY <1>2 DEF vars, flowVars, Flow!wvars
<1>3. QED
  BY <1>1, <1>2

(* Every id that a step has is found, at a step with an agent of the node. *)
LEMMA Found ==
  ASSUME def \in Definitions, NEW k \in Flow!Steps
  PROVE  /\ Flow!First(def[k].id) \in Flow!Steps
         /\ def[Flow!First(def[k].id)].id = def[k].id
         /\ def[Flow!First(def[k].id)].agent \in FlowAgents
<1> DEFINE T == {i \in Flow!Steps : def[i].id = def[k].id}
<1>1. Flow!Steps \subseteq Nat /\ \A i \in Flow!Steps : def[i].agent \in FlowAgents
  BY StoresAssumption DEF Flow!Steps
<1>2. PICK n \in T : \A m \in T : n <= m
  <2>1. T \subseteq Nat /\ T # {}
    BY <1>1
  <2> HIDE DEF T
  <2>2. QED
    BY <2>1, Least
<1>3. \E i \in Flow!Steps : def[i].id = def[k].id /\ \A j \in Flow!Steps : def[j].id = def[k].id => i <= j
  BY <1>2
<1>4. QED
  BY <1>1, <1>3 DEF Flow!First

(* What a step that touches the run's file leaves alone.                   *)
OnFile == def' = def /\ UNCHANGED Flow!node

(* Initially the run has no file, and no agent a process.                  *)
LEMMA FlowInit ==
  ASSUME Init, part = "flows"
  PROVE  FlowKept
<1>1. Flow!WInit
  BY DEF Init
<1>2. /\ def \in Definitions /\ verdict = "Pending" /\ engine = "idle" /\ wave = {} /\ started = 0
      /\ status = [i \in Flow!Steps |-> "Pending"] /\ recorded = [i \in Flow!Steps |-> 0]
      /\ outcome = [i \in Flow!Steps |-> {}]
      /\ pidFile = [a \in FlowAgents |-> 0] /\ live = [a \in FlowAgents |-> {}] /\ served = {}
  BY <1>1 DEF Flow!WInit
<1>3. RunShaped
  BY <1>2 DEF RunShaped, Statuses
<1>4. QED
  BY <1>2, <1>3 DEF FlowKept, WaveOpen, Ended, Lone, Served, ServedKept, Spawned, Launching

(* The processes are those of before, and so are their owners.             *)
LEMMA OwnersStay ==
  ASSUME FlowKept, OnFile,
         RunShaped' /\ WaveOpen' /\ Ended',
         \A i \in Flow!Steps : status'[i] = "Completed" /\ Distinct => i \in served,
         \A i \in Flow!Steps : \A p : (Spawned(i) => i \in served) /\ Distinct /\ Owner(i, p) => Owner(i, p)',
         \A i \in Flow!Steps : Spawned(i)' => Spawned(i)
  PROVE  FlowKept'
<1>1. /\ def' = def /\ live' = live /\ pidFile' = pidFile /\ served' = served
      /\ touched' = touched /\ swept' = swept /\ Flow!Steps' = Flow!Steps
  BY DEF OnFile, Flow!node, Flow!Steps
<1>2. /\ \A a \in FlowAgents : Lone(a)'
      /\ \A a : (Unharmed(a)' <=> Unharmed(a)) /\ (Served(a)' <=> Served(a))
      /\ Distinct' <=> Distinct
  BY <1>1 DEF FlowKept, Lone, Unharmed, Served, Distinct, Flow!First
<1>3. \A a \in FlowAgents : Unharmed(a)' /\ Served(a)' => live'[a] = {pidFile'[a]}
  BY <1>1, <1>2 DEF FlowKept
<1>4. ASSUME Distinct
      PROVE  ServedKept' /\ \A a \in FlowAgents : Unharmed(a) /\ Served(a) => Owned(a)'
  <2>1. ServedKept
    BY <1>4 DEF FlowKept
  <2>2. ServedKept'
    BY <1>1, <1>4, <2>1 DEF ServedKept
  <2>3. ASSUME NEW a \in FlowAgents, Unharmed(a), Served(a)
        PROVE  Owned(a)'
    <3>1. PICK i \in served : def[i].agent = a /\ Owner(i, pidFile[a])
      BY <1>4, <2>3 DEF FlowKept, Owned
    <3>2. i \in Flow!Steps
      BY DEF FlowKept, RunShaped
    <3>3. Owner(i, pidFile[a])'
      BY <1>1, <1>4, <2>1, <3>1, <3>2 DEF ServedKept
    <3>4. QED
      BY <1>1, <3>1, <3>3 DEF Owned
  <2>4. QED
    BY <2>2, <2>3
<1>5. QED
  BY <1>2, <1>3, <1>4 DEF FlowKept

(* A save leaves the record as it was, or makes it what was to be saved.   *)
LEMMA Saves ==
  ASSUME NEW v, NEW st, NEW pids, Flow!SaveRun(v, st, pids)
  PROVE  \/ verdict' = v /\ status' = st /\ recorded' = pids
         \/ UNCHANGED <<verdict, status, recorded>>
BY DEF Flow!SaveRun

(* Steps of the engine that record nothing of what it launched.            *)
LEMMA EngineRests ==
  ASSUME FlowKept, OnFile, UNCHANGED <<status, recorded, wave>>, engine' # "launch",
         DOMAIN outcome' = Flow!Steps, Ended'
  PROVE  FlowKept'
<1>1. RunShaped' /\ WaveOpen'
  BY DEF FlowKept, RunShaped, WaveOpen, OnFile, Flow!node, Flow!Steps, Flow!First
<1>2. \A i : ~Spawned(i)'
  BY DEF Spawned, Launching
<1>3. \A i \in Flow!Steps : status'[i] = "Completed" /\ Distinct => i \in served
  BY DEF FlowKept, ServedKept
<1>4. \A i, p : Owner(i, p) => Owner(i, p)'
  BY <1>2 DEF Owner
<1>5. QED
  BY <1>1, <1>2, <1>3, <1>4, OwnersStay

(* The steps of the engine, one lemma for each.                            *)
LEMMA CreateRunKeeps ==
  ASSUME FlowKept, Flow!CreateRun
  PROVE  FlowKept'
<1>1. /\ OnFile /\ UNCHANGED <<status, recorded, wave, outcome>>
      /\ engine = "idle" /\ engine' = "load" /\ verdict' \in {verdict, "Running"}
  BY DEF Flow!CreateRun, OnFile
<1>2. DOMAIN outcome' = Flow!Steps /\ Ended'
  BY <1>1 DEF FlowKept, RunShaped, Ended
<1>3. QED
  BY <1>1, <1>2, EngineRests

(* The end of a wait between two waves.                                    *)
LEMMA WakeUpKeeps ==
  ASSUME FlowKept, Flow!WakeUp
  PROVE  FlowKept'
<1>1. /\ OnFile /\ UNCHANGED <<status, recorded, wave, outcome, verdict>>
      /\ engine = "sleep" /\ engine' = "load"
  BY DEF Flow!WakeUp, Flow!run, OnFile
<1>2. DOMAIN outcome' = Flow!Steps /\ Ended'
  BY <1>1 DEF FlowKept, RunShaped, Ended
<1>3. QED
  BY <1>1, <1>2, EngineRests

(* A crash of the node.                                                    *)
LEMMA WCrashKeeps ==
  ASSUME FlowKept, Flow!WCrash
  PROVE  FlowKept'
<1>1. /\ OnFile /\ UNCHANGED <<status, recorded, wave, outcome, verdict>>
      /\ engine # "done" /\ engine' = "done"
  BY DEF Flow!WCrash, OnFile
<1>2. DOMAIN outcome' = Flow!Steps /\ Ended'
  BY <1>1 DEF FlowKept, RunShaped, Ended
<1>3. QED
  BY <1>1, <1>2, EngineRests

(* The end of a run, which is saved.                                       *)
LEMMA FinalizeKeeps ==
  ASSUME FlowKept, Flow!Finalize
  PROVE  FlowKept'
<1> DEFINE failed == {i \in Flow!Steps : status[i] = "Failed" /\ ~def[Flow!First(def[i].id)].optional}
           v == IF failed # {} THEN "Failed" ELSE "Completed"
<1>1. /\ OnFile /\ UNCHANGED <<wave, outcome>> /\ engine = "finalize" /\ engine' = "done"
      /\ Flow!SaveRun(v, status, recorded)
  BY DEF Flow!Finalize, OnFile
<1>2. /\ UNCHANGED <<status, recorded>> /\ verdict' \in {verdict, v}
  <2> HIDE DEF v
  <2>1. QED
    BY <1>1, Saves
<1>3. Over /\ verdict # "Completed"
  BY <1>1 DEF FlowKept, Ended
<1>4. verdict' = "Completed" => \A i \in Flow!Steps : status[i] = "Failed" => def[i].optional
  <2> SUFFICES ASSUME failed = {}, NEW i \in Flow!Steps, status[i] = "Failed"
               PROVE  def[i].optional
    BY <1>2, <1>3
  <2>1. Flow!First(def[i].id) = i
    BY DEF FlowKept, RunShaped
  <2>2. QED
    BY <2>1
<1>5. DOMAIN outcome' = Flow!Steps /\ Ended'
  BY <1>1, <1>2, <1>3, <1>4 DEF FlowKept, RunShaped, Ended, Over, OnFile, Flow!Steps
<1>6. QED
  BY <1>1, <1>2, <1>5, EngineRests

(* The start of a wave: the run is read back and its steps are chosen.     *)
LEMMA LoadRunKeeps ==
  ASSUME FlowKept, Flow!LoadRun
  PROVE  FlowKept'
<1>1. OnFile /\ engine = "load" /\ outcome' = [i \in Flow!Steps |-> {}]
  BY DEF Flow!LoadRun, OnFile
<1>2. \A i \in Flow!Steps : outcome'[i] = {}
  BY <1>1
<1>3. Flow!Steps' = Flow!Steps /\ (\A id : Flow!First(id)' = Flow!First(id)) /\ def' = def /\ served' = served
  BY <1>1 DEF OnFile, Flow!node, Flow!Steps, Flow!First
<1>4. CASE file = "ok" /\ Flow!Ready # {}
  <2> DEFINE marked == {Flow!First(def[i].id) : i \in Flow!Ready}
             st == [i \in Flow!Steps |-> IF i \in marked THEN "Running" ELSE status[i]]
  <2>1. engine' = "launch" /\ wave' = Flow!Ready /\ Flow!SaveRun(verdict, st, recorded)
    BY <1>4 DEF Flow!LoadRun
  <2>2. Flow!Ready \subseteq Flow!Steps /\ \A i \in Flow!Ready : status[Flow!First(def[i].id)] = "Pending"
    BY DEF Flow!Ready
  <2>3. \A m \in marked : m \in Flow!Steps /\ status[m] = "Pending" /\ Flow!First(def[m].id) = m
    BY <2>2, Found DEF FlowKept, RunShaped
  <2>4. recorded' = recorded /\ verdict' = verdict /\ status' \in {status, st}
    <3> HIDE DEF st
    <3>1. QED
      BY <2>1, Saves
  <2>5. \A i \in Flow!Steps : status'[i] = status[i] \/ (i \in marked /\ status'[i] = "Running")
    BY <2>4
  <2>6. DOMAIN status' = Flow!Steps
    BY <2>4 DEF FlowKept, RunShaped
  <2> HIDE DEF st
  <2>7. RunShaped'
    BY <1>1, <1>3, <2>1, <2>2, <2>3, <2>4, <2>5, <2>6 DEF FlowKept, RunShaped, OnFile, Flow!node, Statuses
  <2>8. WaveOpen'
    <3> SUFFICES ASSUME NEW i \in Flow!Ready
                 PROVE  status'[Flow!First(def[i].id)] \in {"Pending", "Running"}
      BY <1>3, <2>1 DEF WaveOpen
    <3>1. Flow!First(def[i].id) \in Flow!Steps
      BY <2>3
    <3>2. QED
      BY <2>2, <2>5, <3>1
  <2>9. Ended'
    BY <1>1, <2>1, <2>4 DEF FlowKept, Ended
  <2>10. \A i \in Flow!Steps : status'[i] = "Completed" => status[i] = "Completed"
    BY <2>5
  <2>11. \A i \in Flow!Steps : ~Spawned(i)'
    BY <1>2 DEF Spawned
  <2>12. \A i \in Flow!Steps : \A p : Owner(i, p) => Owner(i, p)'
    BY <2>4, <2>10, <2>11 DEF Owner
  <2>13. QED
    BY <1>1, <2>7, <2>8, <2>9, <2>10, <2>11, <2>12, OwnersStay DEF FlowKept, ServedKept
<1>5. CASE ~(file = "ok" /\ Flow!Ready # {})
  <2>1. /\ UNCHANGED <<status, recorded, wave, verdict>> /\ engine' # "launch"
        /\ engine' = "finalize" => \A i \in Flow!Steps : status[i] \in Flow!Satisfied \cup {"Failed"}
    BY <1>5 DEF Flow!LoadRun, Flow!run
  <2>2. Ended'
    BY <1>1, <1>3, <2>1 DEF FlowKept, Ended, Over, Flow!Satisfied
  <2>3. DOMAIN outcome' = Flow!Steps
    BY <1>1
  <2>4. QED
    BY <1>1, <2>1, <2>2, <2>3, EngineRests
<1>6. QED
  BY <1>4, <1>5

(* What is recorded of a wave.                                             *)
LEMMA Results ==
  ASSUME NEW i, Distinct, def \in Definitions, wave \subseteq Flow!Steps, i \in wave
  PROVE  /\ Flow!Resolved(i) = "Completed" => 0 \notin outcome[i]
         /\ \A p : outcome[i] = {p} /\ p # 0 => Flow!LastPid(i) = p
<1>1. \A j \in wave : def[j].id = def[i].id => j = i
  BY DEF Distinct
<1>2. {j \in wave : def[j].id = def[i].id} = {i}
  BY <1>1
<1>3. Flow!Resolved(i) = "Completed" => 0 \notin outcome[i]
  <2> DEFINE mine == {j \in wave : def[j].id = def[i].id}
             last == CHOOSE j \in mine : \A o \in mine : o <= j
  <2>1. i \in Nat
    BY StoresAssumption DEF Flow!Steps
  <2>2. last = i
    BY <1>2, <2>1
  <2>3. Flow!Resolved(i) = IF 0 \notin outcome[last] THEN "Completed"
                           ELSE IF def[Flow!First(def[i].id)].optional THEN "Skipped" ELSE "Failed"
    BY DEF Flow!Resolved
  <2> HIDE DEF last
  <2>4. QED
    BY <2>2, <2>3
<1>4. ASSUME NEW p, outcome[i] = {p}, p # 0
      PROVE  Flow!LastPid(i) = p
  <2>1. UNION {outcome[j] \ {0} : j \in {o \in wave : def[o].id = def[i].id}} = {p}
    BY <1>2, <1>4
  <2>2. QED
    BY <1>1, <1>4, <2>1 DEF Flow!LastPid
<1>5. QED
  BY <1>3, <1>4

(* The end of a wave: what its steps came to is saved.                     *)
LEMMA RecordWaveKeeps ==
  ASSUME FlowKept, Flow!RecordWave
  PROVE  FlowKept'
<1> DEFINE firsts == {Flow!First(def[i].id) : i \in wave}
           st == [i \in Flow!Steps |-> IF i \in firsts THEN Flow!Resolved(i) ELSE status[i]]
           pids == [i \in Flow!Steps |-> IF i \in firsts THEN Flow!LastPid(i) ELSE recorded[i]]
<1>1. /\ OnFile /\ UNCHANGED <<wave, outcome>> /\ engine = "launch" /\ engine' \in {"load", "done"}
      /\ \A i \in wave : outcome[i] # {}
      /\ \/ Flow!SaveRun(verdict, st, pids) /\ engine' = "load"
         \/ UNCHANGED <<verdict, status, recorded>>
  BY DEF Flow!RecordWave, Flow!run, OnFile
<1>2. \/ verdict' = verdict /\ status' = st /\ recorded' = pids /\ engine' = "load"
      \/ UNCHANGED <<verdict, status, recorded>>
  <2> HIDE DEF st, pids
  <2>1. QED
    BY <1>1, Saves
<1>3. verdict # "Completed" /\ verdict' = verdict
  BY <1>1, <1>2 DEF FlowKept, Ended
<1>4. CASE UNCHANGED <<verdict, status, recorded>>
  BY <1>1, <1>3, <1>4, EngineRests DEF FlowKept, RunShaped, Ended
<1>5. CASE status' = st /\ recorded' = pids
  <2>1. Flow!Steps' = Flow!Steps /\ (\A id : Flow!First(id)' = Flow!First(id)) /\ def' = def /\ served' = served
    BY <1>1 DEF OnFile, Flow!node, Flow!Steps, Flow!First
  <2>2. \A i \in firsts : i \in Flow!Steps /\ Flow!First(def[i].id) = i
    BY Found DEF FlowKept, RunShaped
  <2>3. \A i \in Flow!Steps :
          status'[i] = IF i \in firsts THEN Flow!Resolved(i) ELSE status[i]
    BY <1>5
  <2>4. \A i \in Flow!Steps :
          recorded'[i] = IF i \in firsts THEN Flow!LastPid(i) ELSE recorded[i]
    BY <1>5
  <2>5. DOMAIN status' = Flow!Steps /\ DOMAIN recorded' = Flow!Steps
    BY <1>5
  <2>6. \A i : \/ Flow!Resolved(i) = "Completed"
               \/ Flow!Resolved(i) = "Skipped" /\ def[Flow!First(def[i].id)].optional
               \/ Flow!Resolved(i) = "Failed" /\ ~def[Flow!First(def[i].id)].optional
    BY DEF Flow!Resolved
  <2> HIDE DEF st, pids, firsts
  <2>7. \A i \in Flow!Steps :
          /\ status'[i] \in Statuses
          /\ status'[i] # "Pending" => Flow!First(def[i].id) = i
          /\ status'[i] = "Skipped" => def[i].optional
          /\ status'[i] = "Failed" => ~def[i].optional
    BY <2>2, <2>3, <2>6 DEF FlowKept, RunShaped, Statuses
  <2>8. RunShaped'
    BY <1>1, <2>1, <2>5, <2>7 DEF FlowKept, RunShaped, OnFile, Flow!node
  <2>9. WaveOpen' /\ Ended'
    BY <1>1, <1>3 DEF WaveOpen, Ended
  <2>10. Distinct => firsts = wave
    BY DEF Distinct, firsts, FlowKept, RunShaped
  <2>11. ASSUME NEW i \in Flow!Steps, status'[i] = "Completed", Distinct
         PROVE  i \in served
    <3>1. CASE i \in wave
      <4>1. 0 \notin outcome[i]
        BY <2>3, <2>10, <2>11, <3>1, Results DEF FlowKept, RunShaped
      <4>2. QED
        BY <1>1, <2>11, <3>1, <4>1 DEF FlowKept, ServedKept, Spawned, Launching
    <3>2. CASE i \notin wave
      BY <2>3, <2>10, <2>11, <3>2 DEF FlowKept, ServedKept
    <3>3. QED
      BY <3>1, <3>2
  <2>12. \A i : ~Spawned(i)'
    BY <1>1 DEF Spawned, Launching
  <2>13. ASSUME NEW i \in Flow!Steps, NEW p, Distinct, Owner(i, p), status'[i] = "Completed"
         PROVE  recorded'[i] = p
    <3>1. CASE i \in wave
      <4>1. 0 \notin outcome[i]
        BY <2>3, <2>10, <2>13, <3>1, Results DEF FlowKept, RunShaped
      <4>2. Spawned(i)
        BY <1>1, <3>1, <4>1 DEF Spawned, Launching
      <4>3. outcome[i] = {p} /\ p # 0
        BY <2>13, <4>1, <4>2 DEF Owner
      <4>4. QED
        BY <2>4, <2>10, <2>13, <3>1, <4>3, Results DEF FlowKept, RunShaped
    <3>2. CASE i \notin wave
      BY <2>3, <2>4, <2>10, <2>13, <3>2 DEF Owner
    <3>3. QED
      BY <3>1, <3>2
  <2>14. \A i \in Flow!Steps : \A p : Distinct /\ Owner(i, p) => Owner(i, p)'
    BY <2>12, <2>13 DEF Owner
  <2>15. QED
    BY <1>1, <2>8, <2>9, <2>11, <2>12, <2>14, OwnersStay
<1>6. QED
  BY <1>2, <1>4, <1>5

(* What happens to one agent: its process is replaced, killed, or exits.   *)
LEMMA TouchKeeps ==
  ASSUME FlowKept, NEW a \in FlowAgents, Flow!Touch(a)
  PROVE  FlowKept'
<1>1. /\ UNCHANGED <<def, verdict, status, recorded, engine, wave, outcome, served, swept>>
      /\ touched' = touched \cup {a}
      /\ started' \in {started, started + 1}
      /\ \/ \E p : live' = [live EXCEPT ![a] = @ \ {p}] /\ pidFile' = pidFile
         \/ /\ live' = [live EXCEPT ![a] = Flow!Swept(a) \cup {started + 1}]
            /\ pidFile' = [pidFile EXCEPT ![a] = started + 1]
  BY DEF Flow!Touch, Flow!run
<1>2. DOMAIN live = FlowAgents /\ DOMAIN pidFile = FlowAgents /\ Lone(a)
  BY DEF FlowKept, RunShaped
<1>3. Flow!Swept(a) = {}
  BY <1>2 DEF Flow!Swept, Lone
<1>4. /\ DOMAIN live' = FlowAgents /\ DOMAIN pidFile' = FlowAgents /\ Lone(a)'
      /\ \A b \in FlowAgents \ {a} : live'[b] = live[b] /\ pidFile'[b] = pidFile[b]
  BY <1>1, <1>2, <1>3 DEF Lone
<1>5. Flow!Steps' = Flow!Steps /\ (\A id : Flow!First(id)' = Flow!First(id)) /\ (Distinct' <=> Distinct)
  BY <1>1 DEF Flow!Steps, Flow!First, Distinct
<1>6. RunShaped' /\ WaveOpen' /\ Ended'
  BY <1>1, <1>4, <1>5 DEF FlowKept, RunShaped, WaveOpen, Ended, Over
<1>7. \A b \in FlowAgents : Lone(b)'
  BY <1>4 DEF FlowKept, Lone
<1>8. \A b : Unharmed(b)' => Unharmed(b) /\ b # a /\ pidFile'[b] = pidFile[b] /\ live'[b] = live[b]
  BY <1>1, <1>4 DEF Unharmed
<1>9. \A b : Served(b)' <=> Served(b)
  BY <1>1 DEF Served
<1>10. \A b \in FlowAgents : Unharmed(b)' /\ Served(b)' => live'[b] = {pidFile'[b]}
  BY <1>8, <1>9 DEF FlowKept
<1>11. (ServedKept => ServedKept') /\ \A i, p : Owner(i, p)' <=> Owner(i, p)
  BY <1>1, <1>5 DEF ServedKept, Owner, Spawned, Launching
<1>12. \A b \in FlowAgents : Unharmed(b)' /\ Owned(b) => Owned(b)'
  BY <1>1, <1>8, <1>11 DEF Owned
<1>13. QED
  BY <1>5, <1>6, <1>7, <1>8, <1>9, <1>10, <1>11, <1>12 DEF FlowKept

(* A launch leaves alone what the engine knows of the run, and the other   *)
(* agents.                                                                 *)
LEMMA LaunchKeeps ==
  ASSUME FlowKept, NEW i \in Flow!Steps, Flow!Launch(i)
  PROVE  FlowKept'
<1>1. /\ DOMAIN live = FlowAgents /\ DOMAIN pidFile = FlowAgents /\ DOMAIN outcome = Flow!Steps
      /\ started \in Nat /\ def \in Definitions /\ wave \subseteq Flow!Steps /\ served \subseteq Flow!Steps
  BY DEF FlowKept, RunShaped
<1>2. PICK s \in Flow!Steps, a \in FlowAgents : s = Flow!First(def[i].id) /\ a = def[s].agent
  BY <1>1, Found
<1>3. /\ engine = "launch" /\ i \in wave /\ outcome[i] = {}
      /\ UNCHANGED <<def, verdict, status, recorded, engine, wave, touched>>
      /\ \/ /\ started' = started + 1
            /\ live' = [live EXCEPT ![a] = Flow!Swept(a) \cup {started + 1}]
            /\ pidFile' = [pidFile EXCEPT ![a] = started + 1]
            /\ outcome' = [outcome EXCEPT ![i] = {started + 1}]
            /\ served' = served \cup {s} /\ swept' = swept \ {a}
         \/ /\ UNCHANGED <<started, served, live, pidFile, swept>>
            /\ outcome' = [outcome EXCEPT ![i] = {0}]
         \/ /\ UNCHANGED <<started, served>>
            /\ live' = [live EXCEPT ![a] = Flow!Swept(a)]
            /\ pidFile' = [pidFile EXCEPT ![a] = 0]
            /\ outcome' = [outcome EXCEPT ![i] = {0}]
            /\ swept' = swept \cup {a}
  BY <1>2 DEF Flow!Launch, Flow!run
<1>4. Flow!Swept(a) = {}
  BY <1>2 DEF Flow!Swept, Lone, FlowKept
<1>5. /\ Flow!Steps' = Flow!Steps /\ (\A id : Flow!First(id)' = Flow!First(id)) /\ (Distinct' <=> Distinct)
      /\ served \subseteq served'
  BY <1>3 DEF Flow!Steps, Flow!First, Distinct
<1>6. Distinct => s = i
  BY <1>2 DEF Distinct
<1>7. /\ DOMAIN live' = FlowAgents /\ DOMAIN pidFile' = FlowAgents /\ DOMAIN outcome' = Flow!Steps
      /\ started' \in Nat /\ served' \subseteq Flow!Steps
      /\ \A b \in FlowAgents \ {a} : live'[b] = live[b] /\ pidFile'[b] = pidFile[b]
      /\ \A j \in Flow!Steps \ {i} : outcome'[j] = outcome[j]
  BY <1>3, <1>1, <1>2
<1>8. RunShaped' /\ WaveOpen' /\ Ended'
  BY <1>3, <1>5, <1>7 DEF FlowKept, RunShaped, WaveOpen, Ended, Over
<1>9. \A b \in FlowAgents : Lone(b)'
  BY <1>3, <1>1, <1>2, <1>4, <1>7 DEF FlowKept, Lone
<1>10. \A b \in FlowAgents \ {a} : (Unharmed(b)' => Unharmed(b)) /\ b # def[s].agent
  BY <1>3, <1>2 DEF Unharmed
<1>11. ASSUME NEW b \in FlowAgents \ {a}
       PROVE  Served(b)' => Served(b)
  BY <1>3, <1>10 DEF Served
<1>12. CASE /\ started' = started + 1
            /\ live'[a] = {started + 1} /\ pidFile'[a] = started + 1
            /\ outcome'[i] = {started + 1} /\ served' = served \cup {s}
  <2>1. \A b \in FlowAgents : Unharmed(b)' /\ Served(b)' => live'[b] = {pidFile'[b]}
    BY <1>7, <1>10, <1>11, <1>12 DEF FlowKept
  <2>2. ASSUME Distinct
        PROVE  ServedKept'
    <3>1. \A j \in Flow!Steps \ {i} : Spawned(j)' => Spawned(j)
      BY <1>3, <1>7 DEF Spawned, Launching
    <3>2. i \in served'
      BY <1>6, <1>12, <2>2
    <3>3. QED
      BY <1>3, <1>5, <2>2, <3>1, <3>2 DEF FlowKept, ServedKept
  <2>3. ASSUME Distinct, NEW b \in FlowAgents, Unharmed(b)', Served(b)'
        PROVE  Owned(b)'
    <3>1. CASE b = a
      <4>1. status[i] # "Completed"
        BY <1>3, <1>2, <1>6, <2>3 DEF FlowKept, WaveOpen
      <4>2. Owner(i, pidFile[a])'
        BY <1>3, <1>12, <4>1 DEF Owner
      <4>3. def'[i].agent = b /\ i \in served'
        BY <1>3, <1>2, <1>6, <1>12, <2>3, <3>1
      <4>4. QED
        BY <3>1, <4>2, <4>3 DEF Owned
    <3>2. CASE b # a
      <4>1. PICK j \in served : def[j].agent = b /\ Owner(j, pidFile[b])
        BY <1>10, <1>11, <2>3, <3>2 DEF FlowKept, Owned
      <4>2. j # i
        BY <1>2, <1>6, <2>3, <3>2, <4>1
      <4>3. Owner(j, pidFile[b])'
        BY <1>3, <1>1, <1>7, <3>2, <4>1, <4>2 DEF Owner, Spawned, Launching
      <4>4. QED
        BY <1>3, <1>5, <4>1, <4>3 DEF Owned
    <3>3. QED
      BY <3>1, <3>2
  <2>4. QED
    BY <1>5, <1>8, <1>9, <2>1, <2>2, <2>3 DEF FlowKept
<1>13. CASE served' = served /\ outcome'[i] = {0} /\ (Unharmed(a)' => Unharmed(a) /\ live'[a] = live[a] /\ pidFile'[a] = pidFile[a])
  <2>1. ASSUME NEW b \in FlowAgents, Unharmed(b)', Served(b)'
        PROVE  Unharmed(b) /\ Served(b) /\ live'[b] = live[b] /\ pidFile'[b] = pidFile[b]
    <3>1. Unharmed(b) /\ live'[b] = live[b] /\ pidFile'[b] = pidFile[b]
      BY <1>7, <1>10, <1>13, <2>1
    <3>2. Served(b)
      BY <1>3, <1>13, <2>1 DEF Served
    <3>3. QED
      BY <3>1, <3>2
  <2>2. \A b \in FlowAgents : Unharmed(b)' /\ Served(b)' => live'[b] = {pidFile'[b]}
    BY <2>1 DEF FlowKept
  <2>3. \A j \in Flow!Steps : Spawned(j)' => Spawned(j) /\ outcome'[j] = outcome[j]
    BY <1>3, <1>7, <1>13 DEF Spawned, Launching
  <2>4. Distinct => ServedKept'
    BY <1>3, <1>5, <1>13, <2>3 DEF FlowKept, ServedKept
  <2>5. ASSUME Distinct, NEW b \in FlowAgents, Unharmed(b)', Served(b)'
        PROVE  Owned(b)'
    <3>1. PICK j \in served : def[j].agent = b /\ Owner(j, pidFile[b])
      BY <2>1, <2>5 DEF FlowKept, Owned
    <3>2. Owner(j, pidFile[b])'
      BY <1>3, <1>1, <2>1, <2>3, <2>5, <3>1 DEF Owner
    <3>3. QED
      BY <1>3, <1>13, <3>1, <3>2 DEF Owned
  <2>6. QED
    BY <1>5, <1>8, <1>9, <2>2, <2>4, <2>5 DEF FlowKept
<1>14. QED
  <2>1. i \in DOMAIN outcome /\ a \in DOMAIN live /\ a \in DOMAIN pidFile
    BY <1>1, <1>2
  <2>2. CASE /\ started' = started + 1
             /\ live' = [live EXCEPT ![a] = Flow!Swept(a) \cup {started + 1}]
             /\ pidFile' = [pidFile EXCEPT ![a] = started + 1]
             /\ outcome' = [outcome EXCEPT ![i] = {started + 1}]
             /\ served' = served \cup {s}
    BY <1>4, <1>12, <2>1, <2>2
  <2>3. CASE /\ UNCHANGED <<started, served, live, pidFile, swept>>
             /\ outcome' = [outcome EXCEPT ![i] = {0}]
    <3>1. Unharmed(a)' => Unharmed(a)
      BY <1>3, <2>3 DEF Unharmed
    <3>2. QED
      BY <1>13, <2>1, <2>3, <3>1
  <2>4. CASE /\ served' = served /\ swept' = swept \cup {a}
             /\ outcome' = [outcome EXCEPT ![i] = {0}]
    <3>1. ~Unharmed(a)'
      BY <2>4 DEF Unharmed
    <3>2. QED
      BY <1>13, <2>1, <2>4, <3>1
  <2>5. QED
    BY <1>3, <2>2, <2>3, <2>4

(* Stuttering, and all steps together.                                     *)
LEMMA FlowRests ==
  ASSUME FlowKept, UNCHANGED Flow!wvars
  PROVE  FlowKept'
<1>1. /\ OnFile /\ UNCHANGED <<verdict, status, recorded, engine, wave, outcome>>
  BY DEF Flow!wvars, OnFile, Flow!node
<1>2. /\ Flow!Steps' = Flow!Steps /\ (\A id : Flow!First(id)' = Flow!First(id))
      /\ UNCHANGED <<def, live, pidFile, started, served>>
  BY <1>1 DEF OnFile, Flow!node, Flow!Steps, Flow!First
<1>3. RunShaped' /\ WaveOpen' /\ Ended'
  BY <1>1, <1>2 DEF FlowKept, RunShaped, WaveOpen, Ended, Over
<1>4. (\A i : Spawned(i)' <=> Spawned(i)) /\ (\A i, p : Owner(i, p) => Owner(i, p)')
  BY <1>1 DEF Spawned, Launching, Owner
<1>5. \A i \in Flow!Steps : status'[i] = "Completed" /\ Distinct => i \in served
  BY <1>1 DEF FlowKept, ServedKept
<1>6. QED
  BY <1>1, <1>3, <1>4, <1>5, OwnersStay

(* Every step of the run and of its processes.                             *)
LEMMA FlowNext ==
  ASSUME FlowKept, Flow!WNext
  PROVE  FlowKept'
BY CreateRunKeeps, LoadRunKeeps, WakeUpKeeps, RecordWaveKeeps, FinalizeKeeps, LaunchKeeps, TouchKeeps,
   WCrashKeeps DEF Flow!WNext

(* A run that says Completed has started the agent of each mandatory step, *)
(* and that agent runs as the run names it, but for what others or a later *)
(* step did to it, and no agent has two processes: see WorkflowOnNode.     *)
THEOREM RunsServe == Spec => []RunServed
<1>1. Init => FlowInv
  BY FlowInit DEF FlowInv
<1>2. FlowInv /\ [Next]_vars => FlowInv'
  <2>1. [Next]_vars => part' = part
    <3>1. Next => part' = part
      BY DEF Next
    <3>2. UNCHANGED vars => part' = part
      BY DEF vars
    <3>3. QED
      BY <3>1, <3>2
  <2>2. SUFFICES ASSUME FlowKept, [Next]_vars, part = "flows"
                 PROVE  FlowKept'
    BY <2>1 DEF FlowInv
  <2>3. QED
    BY <2>2, FlowSteps, FlowNext, FlowRests
<1>3. FlowInv => RunServed
  <2> SUFFICES ASSUME FlowKept
               PROVE  Flow!RunServed
    BY DEF FlowInv, RunServed
  <2>1. ASSUME NEW a \in FlowAgents
        PROVE  Cardinality(live[a]) <= 1
    <3>1. CASE live[a] = {}
      BY <3>1, FS_EmptySet
    <3>2. CASE live[a] = {pidFile[a]}
      <4>1. Cardinality({pidFile[a]}) = 1
        BY FS_Singleton
      <4>2. QED
        BY <3>2, <4>1
    <3>3. QED
      BY <3>1, <3>2 DEF FlowKept, Lone
  <2>2. ASSUME verdict = "Completed", NEW i \in Flow!Steps, ~def[i].optional
        PROVE  /\ i \in served
               /\ Flow!Own(i) => /\ live[def[i].agent] # {}
                                 /\ \/ Flow!Unnamed(def[i].agent)
                                    \/ \E j \in Flow!Steps : /\ def[j].agent = def[i].agent
                                                             /\ recorded[j] \in live[def[i].agent]
    <3>1. Over /\ \A j \in Flow!Steps : status[j] # "Failed"
      BY <2>2 DEF FlowKept, RunShaped, Ended
    <3>2. Distinct
      BY <3>1 DEF FlowKept, RunShaped, Over, Distinct
    <3>3. status[i] = "Completed" /\ i \in served
      BY <2>2, <3>1, <3>2 DEF FlowKept, RunShaped, Over, ServedKept
    <3>4. ASSUME Flow!Own(i)
          PROVE  /\ live[def[i].agent] # {}
                 /\ \/ Flow!Unnamed(def[i].agent)
                    \/ \E j \in Flow!Steps : /\ def[j].agent = def[i].agent
                                             /\ recorded[j] \in live[def[i].agent]
      <4>1. /\ def[i].agent \in FlowAgents /\ Unharmed(def[i].agent) /\ Served(def[i].agent)
        BY <3>3, <3>4, StoresAssumption DEF FlowKept, RunShaped, Flow!Steps, Flow!Own, Unharmed, Served
      <4>2. live[def[i].agent] = {pidFile[def[i].agent]}
        BY <4>1 DEF FlowKept
      <4>3. PICK j \in served : def[j].agent = def[i].agent /\ Owner(j, pidFile[def[i].agent])
        BY <3>2, <4>1 DEF FlowKept, Owned
      <4>4. j \in Flow!Steps
        BY DEF FlowKept, RunShaped
      <4>5. status[j] = "Skipped" => Flow!Unnamed(def[i].agent)
        BY <4>3 DEF Flow!Unnamed
      <4>6. status[j] = "Completed" => recorded[j] \in live[def[i].agent]
        BY <4>2, <4>3 DEF Owner
      <4>7. QED
        BY <3>1, <4>2, <4>3, <4>4, <4>5, <4>6 DEF Over
    <3>5. QED
      BY <3>3, <3>4
  <2>3. \A S : Flow!Cardinality(S) = Cardinality(S)
    BY DEF Flow!Cardinality, Cardinality
  <2>4. QED
    BY <2>1, <2>2, <2>3 DEF Flow!RunServed
<1>4. QED
  BY <1>1, <1>2, <1>3, PTL DEF Spec
-----------------------------------------------------------------------------
(* The registry of models: the file and every copy that is about to be     *)
(* written hold each model once, and without an overlap the file holds     *)
(* what the requests left, and a copy what they will have left.            *)
OneEach(s) == \A i, j \in DOMAIN s : s[i].id = s[j].id => i = j
Values(s) == {s[i] : i \in DOMAIN s}

RouterTypes ==
  /\ registry \in Seq(Router!Record) /\ known \subseteq Router!Record
  /\ editor \in [Tasks -> [pc: {"idle", "save"}, copy: Seq(Router!Record),
                           drop: SUBSET Models, add: SUBSET Router!Record]]
  /\ ops \in 0..MaxEdits /\ uncrashed \in 0..MaxCrashes /\ blurred \in BOOLEAN

RouterOnce == OneEach(registry) /\ \A k \in Tasks : OneEach(editor[k].copy)

Becoming(k) == {m \in known : m.id \notin editor[k].drop} \cup editor[k].add

RouterSame ==
  ~blurred =>
    /\ \A j, k \in Router!Rewriting : j = k
    /\ Router!Rewriting = {} => Values(registry) = known
    /\ \A k \in Router!Rewriting : Values(editor[k].copy) = Becoming(k)

RouterInv == RouterTypes /\ RouterOnce /\ RouterSame
RouterKept == part = "models" => RouterInv

-----------------------------------------------------------------------------
(* The places of some elements in a list: each number has one, each of     *)
(* them has a number, and no two the same.                                 *)
LEMMA RouterCounting == \A S : Router!Cardinality(S) = Cardinality(S)
  BY DEF Router!Cardinality, Cardinality

(* The k-th of a finite set of numbers, for each k up to how many it has.  *)
LEMMA Places ==
  ASSUME NEW S \in SUBSET Nat, IsFiniteSet(S)
  PROVE  /\ Cardinality(S) \in Nat
         /\ \A k \in 1..Cardinality(S) : Router!Nth(S, k) \in S
         /\ \A i \in S : \E k \in 1..Cardinality(S) : Router!Nth(S, k) = i
         /\ \A j, k \in 1..Cardinality(S) : Router!Nth(S, j) = Router!Nth(S, k) => j = k
<1> DEFINE Before(i) == {j \in S : j < i}
           rank == [i \in S |-> Cardinality(Before(i))]
           n == Cardinality(S)
<1>1. n \in Nat
  BY FS_CardinalityType
<1>2. \A i \in S : IsFiniteSet(Before(i)) /\ Cardinality(Before(i)) \in 0..(n - 1)
  <2> SUFFICES ASSUME NEW i \in S
               PROVE  IsFiniteSet(Before(i)) /\ Cardinality(Before(i)) \in 0..(n - 1)
    OBVIOUS
  <2>1. Before(i) \in SUBSET (S \ {i})
    OBVIOUS
  <2>2. IsFiniteSet(S \ {i}) /\ Cardinality(S \ {i}) = n - 1
    BY FS_RemoveElement
  <2>3. IsFiniteSet(Before(i)) /\ Cardinality(Before(i)) <= n - 1
    <3> HIDE DEF Before, n
    <3>1. QED
      BY <2>1, <2>2, FS_Subset
  <2>4. Cardinality(Before(i)) \in Nat
    BY <2>3, FS_CardinalityType
  <2>5. QED
    BY <1>1, <2>3, <2>4
<1>3. \A i, j \in S : i < j => Cardinality(Before(i)) # Cardinality(Before(j))
  <2> SUFFICES ASSUME NEW i \in S, NEW j \in S, i < j
               PROVE  Cardinality(Before(i)) # Cardinality(Before(j))
    OBVIOUS
  <2>1. i \in Nat /\ j \in Nat /\ \A m \in S : m < i => m < j
    OBVIOUS
  <2>2. Before(i) \subseteq Before(j)
    BY <2>1
  <2>3. i \in Before(j) /\ i \notin Before(i)
    BY <2>1
  <2> HIDE DEF Before
  <2>4. QED
    BY <1>2, <2>2, <2>3, FS_Subset
<1>4. \A i, j \in S : Cardinality(Before(i)) = Cardinality(Before(j)) => i = j
  <2> HIDE DEF Before
  <2>1. \A i, j \in S : i # j => i < j \/ j < i
    OBVIOUS
  <2>2. QED
    BY <1>3, <2>1
<1>5. rank \in Injection(S, 0..(n - 1))
  BY <1>2, <1>4 DEF Injection, IsInjective
<1>6. IsFiniteSet(0..(n - 1)) /\ Cardinality(0..(n - 1)) = n
  <2>1. 0 \in Int /\ n - 1 \in Int
    BY <1>1
  <2> HIDE DEF n
  <2>2. IsFiniteSet(0..(n - 1)) /\ Cardinality(0..(n - 1)) = IF 0 > n - 1 THEN 0 ELSE (n - 1) - 0 + 1
    BY <2>1, FS_Interval
  <2>3. QED
    BY <1>1, <2>2
<1>7. rank \in Surjection(S, 0..(n - 1))
  <2> HIDE DEF rank
  <2>1. QED
    BY <1>5, <1>6, FS_Injection
<1>8. \A k \in 1..n : \E i \in S : Cardinality(Before(i)) = k - 1
  <2>1. \A r \in 0..(n - 1) : \E i \in S : Cardinality(Before(i)) = r
    BY <1>7 DEF Surjection
  <2>2. \A k \in 1..n : k - 1 \in 0..(n - 1)
    BY <1>1
  <2>3. QED
    BY <2>1, <2>2
<1>9. \A k : Router!Nth(S, k) = CHOOSE i \in S : Cardinality(Before(i)) = k - 1
  BY RouterCounting DEF Router!Nth
<1> HIDE DEF Before
<1>10. \A k \in 1..n : Router!Nth(S, k) \in S /\ Cardinality(Before(Router!Nth(S, k))) = k - 1
  BY <1>8, <1>9
<1>11. ASSUME NEW i \in S
       PROVE  \E k \in 1..n : Router!Nth(S, k) = i
  <2> DEFINE k == Cardinality(Before(i)) + 1
  <2>1. k \in 1..n /\ k - 1 = Cardinality(Before(i))
    BY <1>1, <1>2
  <2>2. Router!Nth(S, k) = i
    BY <1>4, <1>10, <2>1
  <2>3. QED
    BY <2>1, <2>2
<1>12. ASSUME NEW j \in 1..n, NEW k \in 1..n, Router!Nth(S, j) = Router!Nth(S, k)
       PROVE  j = k
  <2>1. j - 1 = k - 1
    BY <1>10, <1>12
  <2>2. QED
    BY <1>1, <2>1
<1>13. QED
  BY <1>1, <1>10, <1>11, <1>12

(* The elements of a list at some places: no others, and each once if the  *)
(* list holds it once.                                                     *)
LEMMA AtFacts ==
  ASSUME NEW s \in Seq(Router!Record), NEW S \in SUBSET DOMAIN s
  PROVE  /\ IsFiniteSet(S) /\ Cardinality(S) \in Nat
         /\ Router!At(s, S) \in Seq(Router!Record)
         /\ Len(Router!At(s, S)) = Cardinality(S)
         /\ Values(Router!At(s, S)) = {s[i] : i \in S}
         /\ OneEach(s) => OneEach(Router!At(s, S))
<1> DEFINE n == Cardinality(S)
           t == Router!At(s, S)
<1>1. Len(s) \in Nat /\ DOMAIN s = 1..Len(s) /\ \A i \in DOMAIN s : s[i] \in Router!Record
  OBVIOUS
<1>2. IsFiniteSet(S) /\ S \in SUBSET Nat
  <2>1. IsFiniteSet(1..Len(s))
    BY <1>1, FS_Interval
  <2>2. QED
    BY <1>1, <2>1, FS_Subset
<1>3. /\ n \in Nat
      /\ \A k \in 1..n : Router!Nth(S, k) \in S
      /\ \A i \in S : \E k \in 1..n : Router!Nth(S, k) = i
      /\ \A j, k \in 1..n : Router!Nth(S, j) = Router!Nth(S, k) => j = k
  BY <1>2, Places
<1>4. t = [k \in 1..n |-> s[Router!Nth(S, k)]]
  BY RouterCounting DEF Router!At
<1> HIDE DEF n, t
<1>5. \A k \in 1..n : t[k] \in Router!Record
  BY <1>1, <1>3, <1>4
<1>6. t \in Seq(Router!Record) /\ Len(t) = n /\ DOMAIN t = 1..n
  BY <1>3, <1>4, <1>5
<1>7. Values(t) = {s[i] : i \in S}
  BY <1>3, <1>4 DEF Values
<1>8. OneEach(s) => OneEach(t)
  BY <1>1, <1>3, <1>4, <1>6 DEF OneEach
<1>9. QED
  BY <1>2, <1>3, <1>6, <1>7, <1>8 DEF n, t

(* The first of some places in a list.                                     *)
LEMMA FirstOf ==
  ASSUME NEW S \in SUBSET Nat, S # {}
  PROVE  Router!First(S) \in S
<1>1. \E i \in S : \A j \in S : i <= j
  BY Least
<1>2. QED
  BY <1>1 DEF Router!First

Wanted(mp, req) == IF req.prefer = NoModel THEN mp.prefer ELSE req.prefer

(* The chosen model is one of the candidates, and the preferred one, or    *)
(* one of the lowest priority if that is none of them.                     *)
LEMMA ChosenFacts ==
  ASSUME NEW s \in Seq(Router!Record), NEW mp, NEW req, NEW c \in SUBSET DOMAIN s, c # {}
  PROVE  \E i \in c :
           /\ i = Router!Chosen(s, c, mp, req)
           /\ \/ s[i].id = Wanted(mp, req)
              \/ \A j \in c : s[i].priority <= s[j].priority /\ s[j].id # Wanted(mp, req)
<1> DEFINE wanted == Wanted(mp, req)
           preferred == {i \in c : s[i].id = wanted}
           lowest == {i \in c : \A j \in c : s[i].priority <= s[j].priority}
           ranks == {s[i].priority : i \in c}
<1>1. Router!Chosen(s, c, mp, req) = Router!First(IF preferred # {} THEN preferred ELSE lowest)
  BY DEF Router!Chosen, Wanted
<1>2. c \in SUBSET Nat /\ \A i \in c : s[i] \in Router!Record
  OBVIOUS
<1>3. preferred \in SUBSET Nat /\ lowest \in SUBSET Nat
  BY <1>2
<1>4. lowest # {}
  <2>1. ranks \in SUBSET Nat /\ ranks # {}
    BY <1>2 DEF Router!Record
  <2>2. PICK n \in ranks : \A m \in ranks : n <= m
    <3> HIDE DEF ranks
    <3>1. QED
      BY <2>1, Least
  <2>3. PICK i \in c : s[i].priority = n
    BY <2>2
  <2>4. QED
    BY <2>2, <2>3
<1>5. CASE preferred # {}
  <2>1. Router!Chosen(s, c, mp, req) = Router!First(preferred)
    BY <1>1, <1>5
  <2>2. Router!First(preferred) \in preferred
    <3> HIDE DEF preferred
    <3>1. QED
      BY <1>3, <1>5, FirstOf
  <2>3. QED
    BY <2>1, <2>2
<1>6. CASE preferred = {}
  <2>1. Router!Chosen(s, c, mp, req) = Router!First(lowest)
    BY <1>1, <1>6
  <2>2. Router!First(lowest) \in lowest
    <3> HIDE DEF lowest
    <3>1. QED
      BY <1>3, <1>4, FirstOf
  <2>3. QED
    BY <1>6, <2>1, <2>2
<1>7. QED
  BY <1>5, <1>6

(* The models that pass the filters, and no request finds one twice.       *)
Able(models, mp, req) ==
  {m \in models :
     /\ m.available /\ m.id \in mp.allowed /\ req.caps \subseteq m.caps
     /\ m.local \/ ~(req.local \/ mp.local)
     /\ m.p50 <= req.latency
     /\ ~req.tokens \/ m.cost <= (IF mp.cap = Unlimited THEN req.cap ELSE mp.cap)}

(* The models that the router may choose are those that can serve.         *)
LEMMA Candidates ==
  ASSUME NEW s, NEW mp, NEW req
  PROVE  Able(Values(s), mp, req) = {s[i] : i \in {j \in DOMAIN s : Router!Eligible(s[j], mp, req)}}
<1>1. \A i \in DOMAIN s : Router!Eligible(s[i], mp, req) <=> s[i] \in Able(Values(s), mp, req)
  <2> SUFFICES ASSUME NEW i \in DOMAIN s
               PROVE  Router!Eligible(s[i], mp, req) <=> s[i] \in Able(Values(s), mp, req)
    OBVIOUS
  <2>1. s[i] \in Values(s)
    BY DEF Values
  <2>2. (IF mp.cap # Unlimited THEN mp.cap ELSE req.cap) = IF mp.cap = Unlimited THEN req.cap ELSE mp.cap
    OBVIOUS
  <2>3. QED
    BY <2>1, <2>2, Zenon DEF Able, Router!Eligible
<1>2. \A m \in Able(Values(s), mp, req) : \E i \in DOMAIN s : m = s[i]
  BY DEF Able, Values
<1>3. QED
  BY <1>1, <1>2

(* The ids of the first few of a list.                                     *)
LEMMA Beginning ==
  ASSUME NEW t \in Seq(Router!Record), NEW n \in Nat, n <= Len(t)
  PROVE  /\ DOMAIN [i \in 1..n |-> t[i].id] = 1..n /\ Len([i \in 1..n |-> t[i].id]) = n
         /\ \A a \in 1..n : a \in DOMAIN t /\ [i \in 1..n |-> t[i].id][a] = t[a].id
<1> DEFINE ids == [i \in 1..n |-> t[i].id]
<1>1. \A a \in 1..n : a \in DOMAIN t /\ t[a] \in Router!Record
  OBVIOUS
<1>2. \A r \in Router!Record : r.id \in Models
  BY DEF Router!Record
<1>3. ids \in [1..n -> Models] /\ \A a \in 1..n : ids[a] = t[a].id
  BY <1>1, <1>2
<1> HIDE DEF ids
<1>4. ids \in Seq(Models) /\ Len(ids) = n /\ DOMAIN ids = 1..n
  BY <1>3
<1>5. QED
  BY <1>1, <1>3, <1>4 DEF ids

(* What RoutedWell says of the answer to one request.                      *)
Answers(able, wanted, answer) ==
  /\ answer.selected = {} <=> able = {}
  /\ \A id \in answer.selected : \E m \in able :
       /\ m.id = id
       /\ \/ id = wanted
          \/ \A o \in able : m.priority <= o.priority /\ o.id # wanted
  /\ Router!Range(answer.fallbacks) \subseteq {m.id : m \in able} \ answer.selected
  /\ Router!IsInjective(answer.fallbacks)
  /\ Len(answer.fallbacks) < 3 => Router!Cardinality(able) <= Len(answer.fallbacks) + 1

(* route, on a list that holds each model once.                            *)
LEMMA RouteFacts ==
  ASSUME NEW s \in Seq(Router!Record), OneEach(s), NEW mp, NEW req
  PROVE  Answers(Able(Values(s), mp, req), Wanted(mp, req), Router!Route(s, mp, req))
<1> DEFINE c == {i \in DOMAIN s : Router!Eligible(s[i], mp, req)}
           able == Able(Values(s), mp, req)
           wanted == Wanted(mp, req)
           answer == Router!Route(s, mp, req)
           i0 == Router!Chosen(s, c, mp, req)
           others == {i \in c : s[i].id # s[i0].id}
           rest == Router!At(s, others)
           most == IF Len(rest) < 3 THEN Len(rest) ELSE 3
<1>1. c \in SUBSET DOMAIN s /\ able = {s[i] : i \in c}
  BY Candidates
<1>2. CASE c = {}
  <2>1. answer = [selected |-> {}, fallbacks |-> <<>>]
    BY <1>2 DEF Router!Route
  <2>2. able = {}
    BY <1>1, <1>2
  <2>3. Router!Cardinality(able) = 0
    BY <2>2, FS_EmptySet, RouterCounting
  <2>4. answer.selected = {} /\ answer.fallbacks = <<>> /\ Len(answer.fallbacks) = 0
        /\ DOMAIN answer.fallbacks = {} /\ Router!Range(answer.fallbacks) = {}
    BY <2>1 DEF Router!Range
  <2> HIDE DEF able, answer
  <2>5. QED
    BY <2>2, <2>3, <2>4 DEF Router!IsInjective, Answers, able, answer, wanted
<1>3. CASE c # {}
  <2>1. answer = [selected |-> {s[i0].id}, fallbacks |-> [i \in 1..most |-> rest[i].id]]
    BY <1>3 DEF Router!Route
  <2> HIDE DEF c, answer, able
  <2>2. /\ i0 \in c
        /\ \/ s[i0].id = wanted
           \/ \A j \in c : s[i0].priority <= s[j].priority /\ s[j].id # wanted
    BY <1>1, <1>3, ChosenFacts
  <2> HIDE DEF i0
  <2>3. others = c \ {i0} /\ others \in SUBSET DOMAIN s
    BY <1>1, <2>2 DEF OneEach
  <2>4. /\ Cardinality(others) \in Nat /\ rest \in Seq(Router!Record)
        /\ Len(rest) = Cardinality(others)
        /\ Values(rest) = {s[i] : i \in others}
        /\ OneEach(rest)
    <3> HIDE DEF others
    <3>1. QED
      BY <2>3, AtFacts
  <2>5. IsFiniteSet(c) /\ Cardinality(c) \in Nat /\ Cardinality(others) = Cardinality(c) - 1
    <3>1. IsFiniteSet(c) /\ Cardinality(c) \in Nat
      BY <1>1, AtFacts
    <3>2. QED
      BY <2>2, <2>3, <3>1, FS_RemoveElement
  <2> HIDE DEF others, rest
  <2>6. /\ Len(rest) \in Nat /\ most \in Nat /\ most <= Len(rest) /\ DOMAIN rest = 1..Len(rest)
        /\ most < 3 => most = Len(rest)
    BY <2>4
  <2> HIDE DEF most
  <2>7. /\ DOMAIN answer.fallbacks = 1..most /\ Len(answer.fallbacks) = most
        /\ \A a \in 1..most : a \in DOMAIN rest /\ answer.fallbacks[a] = rest[a].id
    BY <2>1, <2>4, <2>6, Beginning
  <2>8. answer.selected = {s[i0].id} /\ s[i0] \in able
    BY <1>1, <2>1, <2>2
  <2>9. \A id \in answer.selected : \E m \in able :
          /\ m.id = id
          /\ \/ id = wanted
             \/ \A o \in able : m.priority <= o.priority /\ o.id # wanted
    BY <1>1, <2>2, <2>8
  <2>10. Router!Range(answer.fallbacks) \subseteq {m.id : m \in able} \ answer.selected
    <3>1. \A a \in 1..most : \E i \in others : rest[a] = s[i]
      BY <2>4, <2>7 DEF Values
    <3>2. \A i \in others : s[i] \in able /\ s[i].id # s[i0].id
      BY <1>1 DEF others
    <3>3. QED
      BY <2>7, <2>8, <3>1, <3>2 DEF Router!Range
  <2>11. Router!IsInjective(answer.fallbacks)
    BY <2>4, <2>7 DEF OneEach, Router!IsInjective
  <2>12. Router!Cardinality(able) <= Cardinality(c) /\ Router!Cardinality(able) \in Nat
    <3> DEFINE f == [i \in c |-> s[i]]
    <3>1. f \in Surjection(c, able)
      BY <1>1 DEF Surjection
    <3> HIDE DEF f
    <3>2. QED
      BY <2>5, <3>1, FS_Surjection, FS_CardinalityType, RouterCounting
  <2>13. Len(answer.fallbacks) < 3 => Router!Cardinality(able) <= Len(answer.fallbacks) + 1
    BY <2>4, <2>5, <2>6, <2>7, <2>12
  <2>14. QED
    BY <2>8, <2>9, <2>10, <2>11, <2>13 DEF Answers, able, answer, wanted
<1>4. QED
  BY <1>2, <1>3

-----------------------------------------------------------------------------
(* What a request loads: the file, or nothing while another writes it.     *)
LEMMA Loads ==
  ASSUME RouterTypes, RouterOnce, NEW models \in Router!Registry
  PROVE  /\ models \in Seq(Router!Record) /\ OneEach(models)
         /\ Router!Rewriting = {} => models = registry
<1>1. <<>> \in Seq(Router!Record) /\ OneEach(<<>>)
  BY DEF OneEach
<1>2. models = registry \/ (models = <<>> /\ Router!Rewriting # {})
  BY DEF Router!Registry
<1>3. QED
  BY <1>1, <1>2 DEF RouterTypes, RouterOnce

(* A request that is about to write what follows from what it loaded.      *)
LEMMA EditKeeps ==
  ASSUME RouterInv, MaxEdits \in Nat, NEW k \in Tasks, NEW models \in Router!Registry,
         NEW copy \in Seq(Router!Record), OneEach(copy),
         NEW drop \in SUBSET Models, NEW add \in SUBSET Router!Record,
         Values(copy) = {m \in Values(models) : m.id \notin drop} \cup add,
         Router!Edit(k, copy, drop, add)
  PROVE  RouterInv'
<1> DEFINE next == [pc |-> "save", copy |-> copy, drop |-> drop, add |-> add]
<1>1. /\ editor[k].pc = "idle" /\ ops < MaxEdits /\ ops' = ops + 1
      /\ editor' = [editor EXCEPT ![k] = next]
      /\ blurred' = (blurred \/ Router!Rewriting # {})
      /\ UNCHANGED <<registry, known, uncrashed>>
  BY DEF Router!Edit
<1>2. RouterTypes /\ RouterOnce /\ RouterSame
  BY DEF RouterInv
<1>3. next \in [pc: {"idle", "save"}, copy: Seq(Router!Record), drop: SUBSET Models, add: SUBSET Router!Record]
      /\ next.pc = "save" /\ next.copy = copy /\ next.drop = drop /\ next.add = add
  OBVIOUS
<1> HIDE DEF next
<1>4. editor'[k] = next /\ \A j \in Tasks : j # k => editor'[j] = editor[j]
  BY <1>1, <1>2 DEF RouterTypes
<1>5. RouterTypes'
  BY <1>1, <1>2, <1>3 DEF RouterTypes
<1>6. RouterOnce'
  <2>1. OneEach(registry)'
    BY <1>1, <1>2 DEF RouterOnce, OneEach
  <2>2. ASSUME NEW j \in Tasks PROVE OneEach(editor'[j].copy)
    BY <1>2, <1>3, <1>4 DEF RouterOnce
  <2>3. QED
    BY <2>1, <2>2 DEF RouterOnce, OneEach
<1>7. RouterSame'
  <2> SUFFICES ASSUME ~blurred'
               PROVE  /\ \A i, j \in Router!Rewriting' : i = j
                      /\ Router!Rewriting' = {} => Values(registry)' = known'
                      /\ \A j \in Router!Rewriting' : Values(editor'[j].copy) = Becoming(j)'
    BY DEF RouterSame, Values
  <2>1. ~blurred /\ Router!Rewriting = {}
    BY <1>1, <1>2 DEF RouterTypes
  <2>2. Router!Rewriting' = {k}
    BY <1>3, <1>4, <2>1 DEF Router!Rewriting
  <2>3. Values(models) = known
    BY <1>2, <2>1, Loads DEF RouterSame
  <2>4. Becoming(k)' = {m \in known : m.id \notin drop} \cup add
    BY <1>1, <1>3, <1>4 DEF Becoming
  <2>5. QED
    BY <1>3, <1>4, <2>2, <2>3, <2>4
<1>8. QED
  BY <1>5, <1>6, <1>7 DEF RouterInv

(* PUT of a model: it replaces the one of its id, or comes last.           *)
LEMMA RegisterKeeps ==
  ASSUME RouterInv, MaxEdits \in Nat, NEW k \in Tasks, NEW r \in Router!Record, Router!Register(k, r)
  PROVE  RouterInv'
<1> DEFINE new(models) == IF Router!Positions(models, r.id) = {} THEN Append(models, r)
                          ELSE [i \in DOMAIN models |-> IF models[i].id = r.id THEN r ELSE models[i]]
<1>1. PICK models \in Router!Registry : Router!Edit(k, new(models), {r.id}, {r})
  BY DEF Router!Register
<1>2. models \in Seq(Router!Record) /\ OneEach(models)
  BY Loads DEF RouterInv
<1>3. Len(models) \in Nat /\ DOMAIN models = 1..Len(models)
      /\ \A i \in DOMAIN models : models[i] \in Router!Record
  BY <1>2
<1>4. r.id \in Models
  BY DEF Router!Record
<1> DEFINE copy == new(models)
<1>5. CASE Router!Positions(models, r.id) = {}
  <2>1. copy = Append(models, r)
    BY <1>5
  <2>2. \A i \in DOMAIN models : models[i].id # r.id
    BY <1>5 DEF Router!Positions
  <2> HIDE DEF copy
  <2>3. /\ copy \in Seq(Router!Record) /\ DOMAIN copy = 1..(Len(models) + 1)
        /\ \A i \in DOMAIN models : copy[i] = models[i]
        /\ copy[Len(models) + 1] = r
    BY <1>2, <2>1
  <2>4. \A i \in DOMAIN copy : i \in DOMAIN models \/ i = Len(models) + 1
    BY <1>3, <2>3
  <2>5. OneEach(copy)
    BY <1>2, <2>2, <2>3, <2>4 DEF OneEach
  <2>6. DOMAIN models \subseteq DOMAIN copy /\ Len(models) + 1 \in DOMAIN copy
    BY <1>3, <2>3
  <2>7. Values(copy) = {m \in Values(models) : m.id \notin {r.id}} \cup {r}
    <3>1. \A i \in DOMAIN copy : copy[i] = r \/ (copy[i] \in Values(models) /\ copy[i].id # r.id)
      BY <2>2, <2>3, <2>4 DEF Values
    <3>2. \A m \in Values(models) : m \in Values(copy)
      BY <2>3, <2>6 DEF Values
    <3>3. r \in Values(copy)
      BY <2>3, <2>6 DEF Values
    <3>4. \A m \in Values(copy) : \E i \in DOMAIN copy : m = copy[i]
      BY DEF Values
    <3>5. QED
      BY <3>1, <3>2, <3>3, <3>4
  <2>8. Router!Edit(k, copy, {r.id}, {r})
    BY <1>1 DEF copy
  <2>9. QED
    BY <1>4, <2>3, <2>5, <2>7, <2>8, EditKeeps
<1>6. CASE Router!Positions(models, r.id) # {}
  <2>1. copy = [i \in DOMAIN models |-> IF models[i].id = r.id THEN r ELSE models[i]]
    BY <1>6
  <2>2. PICK p \in DOMAIN models : models[p].id = r.id
    BY <1>6 DEF Router!Positions
  <2> HIDE DEF copy
  <2>3. copy \in [1..Len(models) -> Router!Record]
    BY <1>3, <2>1
  <2>4. copy \in Seq(Router!Record) /\ DOMAIN copy = DOMAIN models
    BY <1>3, <2>3
  <2>5. \A i \in DOMAIN models : /\ copy[i] = IF models[i].id = r.id THEN r ELSE models[i]
                                 /\ copy[i].id = models[i].id
    BY <2>1
  <2>6. OneEach(copy)
    BY <1>2, <2>4, <2>5 DEF OneEach
  <2>7. Values(copy) = {m \in Values(models) : m.id \notin {r.id}} \cup {r}
    <3>1. \A i \in DOMAIN copy : copy[i] = r \/ (copy[i] \in Values(models) /\ copy[i].id # r.id)
      BY <2>4, <2>5 DEF Values
    <3>2. \A i \in DOMAIN models : models[i].id # r.id => models[i] \in Values(copy)
      BY <2>4, <2>5 DEF Values
    <3>3. r \in Values(copy)
      BY <2>2, <2>4, <2>5 DEF Values
    <3>4. \A m \in Values(copy) : \E i \in DOMAIN copy : m = copy[i]
      BY DEF Values
    <3>5. \A m \in Values(models) : \E i \in DOMAIN models : m = models[i]
      BY DEF Values
    <3>6. QED
      BY <3>1, <3>2, <3>3, <3>4, <3>5
  <2>8. Router!Edit(k, copy, {r.id}, {r})
    BY <1>1 DEF copy
  <2>9. QED
    BY <1>4, <2>4, <2>6, <2>7, <2>8, EditKeeps
<1>7. QED
  BY <1>5, <1>6

(* DELETE of a model.                                                      *)
LEMMA RemoveKeeps ==
  ASSUME RouterInv, MaxEdits \in Nat, NEW k \in Tasks, NEW id \in Models, Router!RemoveModel(k, id)
  PROVE  RouterInv'
<1>1. PICK models \in Router!Registry :
        Router!Edit(k, Router!At(models, DOMAIN models \ Router!Positions(models, id)), {id}, {})
  BY DEF Router!RemoveModel
<1>2. models \in Seq(Router!Record) /\ OneEach(models)
  BY Loads DEF RouterInv
<1> DEFINE left == DOMAIN models \ Router!Positions(models, id)
           copy == Router!At(models, left)
<1>3. left = {i \in DOMAIN models : models[i].id # id}
  BY DEF Router!Positions
<1>4. left \in SUBSET DOMAIN models
  BY <1>3
<1> HIDE DEF left
<1>5. copy \in Seq(Router!Record) /\ OneEach(copy) /\ Values(copy) = {models[i] : i \in left}
  BY <1>2, <1>4, AtFacts
<1>6. Router!Edit(k, copy, {id}, {})
  BY <1>1 DEF left
<1> HIDE DEF copy
<1>7. Values(copy) = {m \in Values(models) : m.id \notin {id}} \cup {}
  BY <1>3, <1>5 DEF Values
<1>8. QED
  BY <1>5, <1>6, <1>7, EditKeeps

(* The running averages of a model stay numbers.                           *)
LEMMA AverageTyped ==
  ASSUME NEW p \in Nat, NEW l \in Nat
  PROVE  Router!Averaged(p, l) \subseteq Nat
<1> DEFINE t == (9 * p + l) \div 10
<1>1. 9 * p + l \in Nat
  OBVIOUS
<1>2. t \in Nat
  BY <1>1
<1>3. Router!Averaged(p, l) = {t} \cup (IF (9 * p + l) % 10 = 0 /\ t > 0 THEN {t - 1} ELSE {})
  BY DEF Router!Averaged
<1> HIDE DEF t
<1>4. t > 0 => t - 1 \in Nat
  BY <1>2
<1>5. QED
  BY <1>2, <1>3, <1>4

(* Feedback on a model changes one record, and its id never.               *)
LEMMA FeedbackKeeps ==
  ASSUME RouterInv, MaxEdits \in Nat, NEW k \in Tasks, NEW id \in Models, NEW l \in Nat,
         NEW success \in BOOLEAN, Router!Feedback(k, id, l, success)
  PROVE  RouterInv'
<1> DEFINE with(old, p) == IF success THEN [old EXCEPT !.p50 = p]
                           ELSE [old EXCEPT !.p99 = IF l > @ THEN l ELSE @]
<1>1. PICK models \in Router!Registry : \E i \in Router!Positions(models, id) :
        \E p \in Router!Averaged(models[i].p50, l) :
          Router!Edit(k, Router!ReplaceAt(models, i, with(models[i], p)), {id}, {with(models[i], p)})
  BY DEF Router!Feedback
<1>2. PICK i \in Router!Positions(models, id) : \E p \in Router!Averaged(models[i].p50, l) :
        Router!Edit(k, Router!ReplaceAt(models, i, with(models[i], p)), {id}, {with(models[i], p)})
  BY <1>1
<1>3. PICK p \in Router!Averaged(models[i].p50, l) :
        Router!Edit(k, Router!ReplaceAt(models, i, with(models[i], p)), {id}, {with(models[i], p)})
  BY <1>2
<1>4. models \in Seq(Router!Record) /\ OneEach(models)
  BY Loads DEF RouterInv
<1>5. i \in DOMAIN models /\ models[i].id = id /\ models[i] \in Router!Record
  BY <1>4 DEF Router!Positions
<1>6. p \in Nat
  <2>1. models[i].p50 \in Nat
    BY <1>5 DEF Router!Record
  <2>2. QED
    BY <2>1, AverageTyped
<1> DEFINE m == with(models[i], p)
           copy == Router!ReplaceAt(models, i, m)
<1>7. m \in Router!Record /\ m.id = id
  <2> DEFINE old == models[i]
  <2>1. old \in Router!Record /\ old.id = id
    BY <1>5
  <2>2. m = with(old, p)
    OBVIOUS
  <2> HIDE DEF old
  <2>3. [old EXCEPT !.p50 = p] \in Router!Record /\ [old EXCEPT !.p50 = p].id = id
    BY <1>6, <2>1 DEF Router!Record
  <2>4. LET q == IF l > old.p99 THEN l ELSE old.p99
        IN  [old EXCEPT !.p99 = q] \in Router!Record /\ [old EXCEPT !.p99 = q].id = id
    BY <2>1 DEF Router!Record
  <2>5. QED
    BY <2>2, <2>3, <2>4
<1>8. Router!Edit(k, copy, {id}, {m})
  BY <1>3
<1> HIDE DEF m
<1>9. copy = [models EXCEPT ![i] = m]
  BY DEF Router!ReplaceAt
<1> HIDE DEF copy
<1>10. copy \in Seq(Router!Record) /\ DOMAIN copy = DOMAIN models
  BY <1>4, <1>5, <1>7, <1>9
<1>11. copy[i] = m /\ \A j \in DOMAIN models : j # i => copy[j] = models[j]
  BY <1>4, <1>5, <1>9
<1>12. \A j \in DOMAIN models : j # i => models[j].id # id
  BY <1>4, <1>5 DEF OneEach
<1>13. OneEach(copy)
  BY <1>4, <1>5, <1>7, <1>10, <1>11, <1>12 DEF OneEach
<1>14. Values(copy) = {o \in Values(models) : o.id \notin {id}} \cup {m}
  <2>1. \A j \in DOMAIN copy : copy[j] = m \/ (copy[j] \in Values(models) /\ copy[j].id # id)
    BY <1>10, <1>11, <1>12 DEF Values
  <2>2. \A j \in DOMAIN models : models[j].id # id => models[j] \in Values(copy)
    BY <1>5, <1>10, <1>11 DEF Values
  <2>3. m \in Values(copy)
    BY <1>5, <1>10, <1>11 DEF Values
  <2>4. \A o \in Values(copy) : \E j \in DOMAIN copy : o = copy[j]
    BY DEF Values
  <2>5. \A o \in Values(models) : \E j \in DOMAIN models : o = models[j]
    BY DEF Values
  <2>6. QED
    BY <2>1, <2>2, <2>3, <2>4, <2>5
<1>15. QED
  BY <1>7, <1>8, <1>10, <1>13, <1>14, EditKeeps

(* The copy of the one task that is writing becomes the file.              *)
LEMMA SaveKeeps ==
  ASSUME RouterInv, NEW k \in Tasks, Router!SaveRegistry(k)
  PROVE  RouterInv'
<1>1. /\ editor[k].pc = "save"
      /\ registry' = editor[k].copy \/ (Router!Rewriting # {k} /\ registry' = <<>>)
      /\ known' = Becoming(k)
      /\ editor' = [editor EXCEPT ![k] = Router!Ready]
      /\ UNCHANGED <<ops, uncrashed, blurred>>
  BY DEF Router!SaveRegistry, Becoming
<1>2. RouterTypes /\ RouterOnce /\ RouterSame
  BY DEF RouterInv
<1>3. /\ editor[k].copy \in Seq(Router!Record) /\ OneEach(editor[k].copy)
      /\ Becoming(k) \subseteq Router!Record
  BY <1>2 DEF RouterTypes, RouterOnce, Becoming
<1>4. <<>> \in Seq(Router!Record) /\ OneEach(<<>>)
  BY DEF OneEach
<1>5. Router!Ready \in [pc: {"idle", "save"}, copy: Seq(Router!Record), drop: SUBSET Models, add: SUBSET Router!Record]
      /\ Router!Ready.pc = "idle" /\ Router!Ready.copy = <<>>
  BY <1>4 DEF Router!Ready
<1>6. editor'[k] = Router!Ready /\ \A j \in Tasks : j # k => editor'[j] = editor[j]
  BY <1>1, <1>2 DEF RouterTypes
<1>7. RouterTypes'
  BY <1>1, <1>2, <1>3, <1>4, <1>5 DEF RouterTypes
<1>8. RouterOnce'
  <2>1. OneEach(registry)'
    BY <1>1, <1>3, <1>4 DEF OneEach
  <2>2. ASSUME NEW j \in Tasks PROVE OneEach(editor'[j].copy)
    BY <1>2, <1>4, <1>5, <1>6 DEF RouterOnce
  <2>3. QED
    BY <2>1, <2>2 DEF RouterOnce, OneEach
<1>9. RouterSame'
  <2> SUFFICES ASSUME ~blurred'
               PROVE  /\ \A i, j \in Router!Rewriting' : i = j
                      /\ Router!Rewriting' = {} => Values(registry)' = known'
                      /\ \A j \in Router!Rewriting' : Values(editor'[j].copy) = Becoming(j)'
    BY DEF RouterSame, Values
  <2>1. k \in Router!Rewriting /\ \A i, j \in Router!Rewriting : i = j
    BY <1>1, <1>2 DEF RouterSame, Router!Rewriting
  <2>2. Router!Rewriting = {k}
    BY <2>1
  <2>3. Router!Rewriting' = {}
    BY <1>5, <1>6, <2>2 DEF Router!Rewriting
  <2>4. Values(editor[k].copy) = Becoming(k)
    BY <1>1, <1>2, <2>1 DEF RouterSame
  <2>5. Values(registry)' = known'
    BY <1>1, <2>2, <2>4 DEF Values
  <2>6. QED
    BY <2>3, <2>5
<1>10. QED
  BY <1>7, <1>8, <1>9 DEF RouterInv

(* A crash leaves the file as it was saved last.                           *)
LEMMA RouterCrashKeeps == ASSUME RouterInv, Router!RCrash PROVE RouterInv'
<1>1. /\ uncrashed > 0 /\ uncrashed' = uncrashed - 1
      /\ registry' \in Router!Registry
      /\ editor' = [k \in Tasks |-> Router!Ready]
      /\ blurred' = (blurred \/ Router!Rewriting # {})
      /\ UNCHANGED <<known, ops>>
  BY DEF Router!RCrash
<1>2. RouterTypes /\ RouterOnce /\ RouterSame
  BY DEF RouterInv
<1>3. /\ registry' \in Seq(Router!Record) /\ OneEach(registry')
      /\ Router!Rewriting = {} => registry' = registry
  BY <1>1, <1>2, Loads
<1>4. <<>> \in Seq(Router!Record) /\ OneEach(<<>>)
  BY DEF OneEach
<1>5. Router!Ready \in [pc: {"idle", "save"}, copy: Seq(Router!Record), drop: SUBSET Models, add: SUBSET Router!Record]
      /\ Router!Ready.pc = "idle" /\ Router!Ready.copy = <<>>
  BY <1>4 DEF Router!Ready
<1>6. MaxCrashes \in Nat
  BY StoresAssumption
<1>7. RouterTypes'
  BY <1>1, <1>2, <1>3, <1>5, <1>6 DEF RouterTypes
<1>8. RouterOnce'
  <2>1. OneEach(registry)'
    BY <1>3 DEF OneEach
  <2>2. ASSUME NEW j \in Tasks PROVE OneEach(editor'[j].copy)
    BY <1>1, <1>4, <1>5
  <2>3. QED
    BY <2>1, <2>2 DEF RouterOnce, OneEach
<1>9. Router!Rewriting' = {}
  BY <1>1, <1>5 DEF Router!Rewriting
<1>10. RouterSame'
  <2>1. ~blurred' => Values(registry)' = known'
    BY <1>1, <1>2, <1>3 DEF RouterTypes, RouterSame, Values
  <2>2. QED
    BY <1>9, <2>1 DEF RouterSame, Values
<1>11. QED
  BY <1>7, <1>8, <1>10 DEF RouterInv

(* The registry that a node starts with, and every step of it.             *)
LEMMA RouterInit == ASSUME Router!RInit PROVE RouterInv
<1>1. /\ registry \in Presets /\ known = Values(registry)
      /\ editor = [k \in Tasks |-> Router!Ready]
      /\ ops = 0 /\ uncrashed = MaxCrashes /\ blurred = FALSE
  BY DEF Router!RInit, Router!Range, Values
<1>2. registry \in Seq(Router!Record) /\ Router!IsInjective([i \in DOMAIN registry |-> registry[i].id])
  BY <1>1, StoresAssumption
<1>3. OneEach(registry)
  BY <1>2 DEF Router!IsInjective, OneEach
<1>4. <<>> \in Seq(Router!Record) /\ OneEach(<<>>)
  BY DEF OneEach
<1>5. Router!Ready \in [pc: {"idle", "save"}, copy: Seq(Router!Record), drop: SUBSET Models, add: SUBSET Router!Record]
      /\ Router!Ready.pc = "idle" /\ Router!Ready.copy = <<>>
  BY <1>4 DEF Router!Ready
<1>6. MaxCrashes \in Nat /\ MaxEdits \in Nat
  BY StoresAssumption
<1>7. \A i \in DOMAIN registry : registry[i] \in Router!Record
  BY <1>2
<1>8. RouterTypes
  <2>1. known \subseteq Router!Record
    BY <1>1, <1>7 DEF Values
  <2>2. editor \in [Tasks -> [pc: {"idle", "save"}, copy: Seq(Router!Record),
                            drop: SUBSET Models, add: SUBSET Router!Record]]
    BY <1>1, <1>5
  <2>3. ops \in 0..MaxEdits /\ uncrashed \in 0..MaxCrashes
    BY <1>1, <1>6
  <2>4. blurred \in BOOLEAN
    BY <1>1
  <2>5. QED
    BY <1>2, <2>1, <2>2, <2>3, <2>4 DEF RouterTypes
<1>9. RouterOnce
  BY <1>1, <1>3, <1>4, <1>5 DEF RouterOnce
<1>10. Router!Rewriting = {}
  BY <1>1, <1>5 DEF Router!Rewriting
<1>11. QED
  BY <1>1, <1>8, <1>9, <1>10 DEF RouterInv, RouterSame

(* Every step of the router.                                               *)
LEMMA RouterNext == ASSUME RouterInv, [Router!RNext]_(Router!rvars) PROVE RouterInv'
<1>1. MaxEdits \in Nat /\ Records \subseteq Router!Record /\ Latencies \subseteq Nat
  BY StoresAssumption
<1>2. ASSUME NEW k \in Tasks, NEW r \in Records, Router!Register(k, r) PROVE RouterInv'
  BY <1>1, <1>2, RegisterKeeps
<1>3. ASSUME NEW k \in Tasks, NEW id \in Models, Router!RemoveModel(k, id) PROVE RouterInv'
  BY <1>1, <1>3, RemoveKeeps
<1>4. ASSUME NEW k \in Tasks, NEW id \in Models, NEW l \in Latencies, NEW success \in BOOLEAN,
             Router!Feedback(k, id, l, success)
      PROVE  RouterInv'
  BY <1>1, <1>4, FeedbackKeeps
<1>5. ASSUME NEW k \in Tasks, Router!SaveRegistry(k) PROVE RouterInv'
  BY <1>5, SaveKeeps
<1>6. ASSUME Router!RCrash PROVE RouterInv'
  BY <1>6, RouterCrashKeeps
<1>7. ASSUME UNCHANGED Router!rvars PROVE RouterInv'
  BY <1>7 DEF Router!rvars, RouterInv, RouterTypes, RouterOnce, RouterSame, Becoming, OneEach, Values,
              Router!Rewriting
<1>8. QED
  BY <1>2, <1>3, <1>4, <1>5, <1>6, <1>7 DEF Router!RNext

(* A step of a node whose part is the models is one of ModelRouter.        *)
LEMMA RouterSteps ==
  ASSUME [Next]_vars, part = "models"
  PROVE  part' = part /\ [Router!RNext]_(Router!rvars)
<1>1. CASE Next
  BY <1>1 DEF Next
<1>2. CASE UNCHANGED vars
  BY <1>2 DEF vars, routerVars, Router!rvars
<1>3. QED
  BY <1>1, <1>2

(* What the file holds routes well whenever it holds what was left.        *)
LEMMA RouterRoutes == ASSUME RouterInv PROVE Router!RoutedWell
<1> SUFFICES ASSUME ~blurred, Router!Rewriting = {}, NEW req \in Requests, NEW mp \in ModelPolicies
             PROVE  Answers(Able(known, mp, req), Wanted(mp, req), Router!Route(registry, mp, req))
  BY DEF Router!RoutedWell, Answers, Able, Wanted
<1>1. Values(registry) = known /\ registry \in Seq(Router!Record) /\ OneEach(registry)
  BY DEF RouterInv, RouterTypes, RouterOnce, RouterSame
<1>2. QED
  BY <1>1, RouteFacts

(* put, remove and feedback of models, and route: unless two requests      *)
(* overlapped, every request is given the model that it should be, of      *)
(* those that are registered, and fallbacks that can serve it too.         *)
THEOREM Routed == Spec => []RoutedWell
<1>1. Init => RouterKept
  BY RouterInit DEF Init, RouterKept
<1>2. RouterKept /\ [Next]_vars => RouterKept'
  <2>1. SUFFICES ASSUME RouterKept, [Next]_vars, part' = "models"
                 PROVE  RouterInv'
    BY DEF RouterKept
  <2>2. part' = part
    BY <2>1, Steps
  <2>3. RouterInv /\ [Router!RNext]_(Router!rvars)
    BY <2>1, <2>2, RouterSteps DEF RouterKept
  <2>4. QED
    BY <2>3, RouterNext
<1>3. RouterKept => RoutedWell
  BY RouterRoutes DEF RouterKept, RoutedWell
<1>4. QED
  BY <1>1, <1>2, <1>3, PTL DEF Spec

-----------------------------------------------------------------------------
(* The traces: the types, what the lines of a file stand for, the          *)
(* summaries that are about to be written, and the sum of those that were. *)
Line == Spans \X Tokens
Summary == Traces \X Nat
File(R) == [lines: Seq(Seq(R)), ended: BOOLEAN]
Poster == [pc: {"idle", "text", "newline"}, trace: SUBSET Traces, text: Summary \cup {<<>>}]

TraceTypes ==
  /\ trace \in [Traces -> File(Line)] /\ index \in File(Summary)
  /\ poster \in [Tasks -> Poster]
  /\ \A k \in Tasks : poster[k].pc = "text" => poster[k].text \in Summary
  /\ reported \in [Spans -> Nat] /\ finals \in [Traces -> Nat]
  /\ ops \in 0..MaxOps /\ uncrashed \in 0..MaxCrashes /\ joined \in BOOLEAN /\ late \in SUBSET Traces

SpansOf(t) == {s \in Spans : TraceOf[s] = t}
Cost(r, t) == Trace!Total([s \in SpansOf(t) |-> r[s]])
Summing(p, t) == {k \in Tasks : p[k].pc = "text" /\ p[k].text[1] = t}
Summaries(l, t) == {i \in DOMAIN l : l[i][1][1] = t}
Written(l) == [t \in Traces |-> Cardinality(Summaries(l, t))]
Shares(w, r) == [t \in Traces |-> w[t] * Cost(r, t)]
ChargeOf(f) == Trace!Total([i \in Trace!Alone(f) |-> 2 * (f.lines[i][1][2] \div 2)])

(* Nothing was joined, and the last line of a span is what it reported.    *)
Unjoined(l) == \A i \in DOMAIN l : Len(l[i]) = 1
Newest(l, i) == \A j \in DOMAIN l : l[j][1][1] = l[i][1][1] => j <= i
LinesTrue(l, r, t) ==
  /\ Unjoined(l)
  /\ \A i \in DOMAIN l : TraceOf[l[i][1][1]] = t /\ (Newest(l, i) => l[i][1][2] = r[l[i][1][1]])
  /\ \A s \in SpansOf(t) : r[s] # 0 => \E i \in DOMAIN l : l[i][1][1] = s

Expected ==
  /\ \A k \in Tasks : poster[k].pc = "text" => poster[k].text[2] = Cost(reported, poster[k].text[1])
  /\ \A t \in Traces : finals[t] = Written(index.lines)[t] + Cardinality(Summing(poster, t))

Billed ==
  LET w == Written(index.lines) IN
  /\ Trace!Total(Shares(w, reported)) - Trace!Total(w) <= ChargeOf(index)
  /\ ChargeOf(index) <= Trace!Total(Shares(w, reported))

SumsKept == \A t \in Traces : Cardinality(Summing(poster, t)) <= finals[t]
FilesTrue ==
  ~joined => /\ \A t \in Traces : LinesTrue(trace[t].lines, reported, t)
             /\ Unjoined(index.lines)
BillTrue == ~joined /\ late = {} => Expected /\ Billed

TraceInv == TraceTypes /\ SumsKept /\ FilesTrue /\ BillTrue
TraceKept == part = "traces" => TraceInv

-----------------------------------------------------------------------------
(* Sums: the pairs that are counted are finitely many ...                  *)
Pairs(f) == UNION {{x} \X (1..f[x]) : x \in DOMAIN f}

(* ... the sum counts them ...                                             *)
LEMMA TotalIs == \A f : Trace!Total(f) = Cardinality(Pairs(f))
<1>1. \A S : Trace!Cardinality(S) = Cardinality(S)
  BY DEF Trace!Cardinality, Cardinality
<1>2. QED
  BY <1>1 DEF Trace!Total, Pairs

(* ... one number counts as many as it says ...                            *)
LEMMA OnePair ==
  ASSUME NEW x, NEW n \in Nat
  PROVE  IsFiniteSet({x} \X (1..n)) /\ Cardinality({x} \X (1..n)) = n
<1>1. IsFiniteSet({x}) /\ Cardinality({x}) = 1
  BY FS_Singleton
<1>2. IsFiniteSet(1..n) /\ Cardinality(1..n) = n
  <2>1. 1 \in Int /\ n \in Int
    OBVIOUS
  <2>2. IsFiniteSet(1..n) /\ Cardinality(1..n) = IF 1 > n THEN 0 ELSE n - 1 + 1
    BY <2>1, FS_Interval
  <2>3. QED
    BY <2>2
<1>3. IsFiniteSet({x} \X (1..n)) /\ Cardinality({x} \X (1..n)) = Cardinality({x}) * Cardinality(1..n)
  BY <1>1, <1>2, FS_Product
<1>4. QED
  BY <1>1, <1>2, <1>3

(* ... and so they are finitely many.                                      *)
LEMMA PairsFinite ==
  ASSUME NEW S, IsFiniteSet(S), NEW f \in [S -> Nat]
  PROVE  IsFiniteSet(Pairs(f)) /\ Trace!Total(f) \in Nat
<1> DEFINE family == {{x} \X (1..f[x]) : x \in S}
           g == [x \in S |-> {x} \X (1..f[x])]
<1>1. g \in Surjection(S, family)
  BY DEF Surjection
<1>2. IsFiniteSet(family)
  <2> HIDE DEF g, family
  <2>1. QED
    BY <1>1, FS_Surjection
<1>3. \A T \in family : IsFiniteSet(T)
  <2>1. ASSUME NEW x \in S PROVE IsFiniteSet({x} \X (1..f[x]))
    BY OnePair
  <2>2. QED
    BY <2>1
<1>4. Pairs(f) = UNION family
  BY DEF Pairs
<1> HIDE DEF family
<1>5. IsFiniteSet(Pairs(f))
  BY <1>2, <1>3, <1>4, FS_UNION
<1>6. QED
  BY <1>5, TotalIs, FS_CardinalityType

(* ... so that a sum is one of its numbers and the sum of the others, ...  *)
LEMMA TotalNew ==
  ASSUME NEW S, IsFiniteSet(S), NEW f \in [S -> Nat], NEW x, x \notin S,
         NEW g \in [S \cup {x} -> Nat], \A y \in S : g[y] = f[y]
  PROVE  Trace!Total(g) = Trace!Total(f) + g[x] /\ Trace!Total(f) \in Nat /\ Trace!Total(g) \in Nat
<1> DEFINE new == {x} \X (1..g[x])
<1>1. Pairs(g) = Pairs(f) \cup new
  <2>1. DOMAIN f = S /\ DOMAIN g = S \cup {x}
    OBVIOUS
  <2>2. \A p : p \in Pairs(g) <=> \E y \in S \cup {x} : p \in {y} \X (1..g[y])
    BY <2>1 DEF Pairs
  <2>3. \A p : p \in Pairs(f) <=> \E y \in S : p \in {y} \X (1..g[y])
    BY <2>1 DEF Pairs
  <2> HIDE DEF Pairs
  <2>4. QED
    BY <2>2, <2>3
<1>2. Pairs(f) \cap new = {}
  BY DEF Pairs
<1>3. g[x] \in Nat /\ IsFiniteSet(new) /\ Cardinality(new) = g[x]
  BY OnePair
<1>4. IsFiniteSet(Pairs(f)) /\ Trace!Total(f) \in Nat
  BY PairsFinite
<1> HIDE DEF new
<1>5. Cardinality(Pairs(f) \cup new) = Cardinality(Pairs(f)) + Cardinality(new) - Cardinality(Pairs(f) \cap new)
  BY <1>3, <1>4, FS_Union
<1>6. Cardinality(Pairs(f) \cap new) = 0
  BY <1>2, FS_EmptySet
<1>7. Trace!Total(f) = Cardinality(Pairs(f)) /\ Trace!Total(g) = Cardinality(Pairs(g))
  BY TotalIs
<1>8. Cardinality(Pairs(g)) = Cardinality(Pairs(f)) + g[x]
  BY <1>1, <1>3, <1>4, <1>5, <1>6, <1>7
<1>9. QED
  BY <1>3, <1>4, <1>7, <1>8

(* ... so is a sum where one of the numbers changed ...                    *)
LEMMA TotalChange ==
  ASSUME NEW S, IsFiniteSet(S), NEW f \in [S -> Nat], NEW g \in [S -> Nat], NEW x \in S,
         \A y \in S : y # x => f[y] = g[y]
  PROVE  /\ Trace!Total(f) \in Nat /\ Trace!Total(g) \in Nat
         /\ Trace!Total(g) + f[x] = Trace!Total(f) + g[x]
<1> DEFINE T == S \ {x}
           rest == [y \in T |-> f[y]]
<1>1. IsFiniteSet(T) /\ x \notin T /\ T \cup {x} = S
  BY FS_RemoveElement
<1>2. rest \in [T -> Nat] /\ \A y \in T : f[y] = rest[y] /\ g[y] = rest[y]
  OBVIOUS
<1>3. f \in [T \cup {x} -> Nat] /\ g \in [T \cup {x} -> Nat] /\ f[x] \in Nat /\ g[x] \in Nat
  BY <1>1
<1> HIDE DEF rest, T
<1>4. Trace!Total(f) = Trace!Total(rest) + f[x] /\ Trace!Total(rest) \in Nat /\ Trace!Total(f) \in Nat
  BY <1>1, <1>2, <1>3, TotalNew
<1>5. Trace!Total(g) = Trace!Total(rest) + g[x] /\ Trace!Total(g) \in Nat
  BY <1>1, <1>2, <1>3, TotalNew
<1>6. QED
  BY <1>3, <1>4, <1>5

(* ... and does not depend on what the numbers are of, or on zeros.        *)
LEMMA TotalSame ==
  ASSUME NEW S, IsFiniteSet(S), NEW f \in [S -> Nat], NEW T, NEW g \in [T -> Nat],
         NEW h \in [S -> T], \A x, y \in S : h[x] = h[y] => x = y,
         \A x \in S : f[x] = g[h[x]],
         \A y \in T : g[y] # 0 => \E x \in S : h[x] = y
  PROVE  Trace!Total(f) = Trace!Total(g)
<1> DEFINE b == [p \in Pairs(f) |-> <<h[p[1]], p[2]>>]
<1>1. \A x, n : <<x, n>> \in Pairs(f) <=> x \in S /\ n \in 1..f[x]
  BY DEF Pairs
<1>2. \A y, n : <<y, n>> \in Pairs(g) <=> y \in T /\ n \in 1..g[y]
  BY DEF Pairs
<1>3. \A p \in Pairs(f) : p = <<p[1], p[2]>>
  BY DEF Pairs
<1>4. \A p \in Pairs(g) : p = <<p[1], p[2]>>
  BY DEF Pairs
<1>5. ASSUME NEW p \in Pairs(f)
      PROVE  <<h[p[1]], p[2]>> \in Pairs(g)
  <2>1. p[1] \in S /\ p[2] \in 1..f[p[1]]
    BY <1>1, <1>3
  <2>2. h[p[1]] \in T /\ f[p[1]] = g[h[p[1]]]
    BY <2>1
  <2>3. QED
    BY <1>2, <2>1, <2>2
<1>6. ASSUME NEW p \in Pairs(f), NEW q \in Pairs(f), <<h[p[1]], p[2]>> = <<h[q[1]], q[2]>>
      PROVE  p = q
  <2>1. p[1] \in S /\ q[1] \in S
    BY <1>1, <1>3
  <2>2. h[p[1]] = h[q[1]] /\ p[2] = q[2]
    BY <1>6
  <2>3. p[1] = q[1]
    BY <2>1, <2>2
  <2>4. QED
    BY <1>3, <2>2, <2>3
<1>7. ASSUME NEW r \in Pairs(g)
      PROVE  \E p \in Pairs(f) : <<h[p[1]], p[2]>> = r
  <2>1. r = <<r[1], r[2]>> /\ r[1] \in T /\ r[2] \in 1..g[r[1]]
    BY <1>2, <1>4
  <2>2. g[r[1]] # 0
    BY <2>1
  <2>3. PICK x \in S : h[x] = r[1]
    BY <2>1, <2>2
  <2>4. <<x, r[2]>> \in Pairs(f)
    BY <1>1, <2>1, <2>3
  <2>5. <<h[<<x, r[2]>>[1]], <<x, r[2]>>[2]>> = r
    BY <2>1, <2>3
  <2>6. QED
    BY <2>4, <2>5
<1> HIDE DEF Pairs
<1>8. b \in [Pairs(f) -> Pairs(g)] /\ \A p \in Pairs(f) : b[p] = <<h[p[1]], p[2]>>
  BY <1>5
<1>9. b \in Bijection(Pairs(f), Pairs(g))
  <2> HIDE DEF b
  <2>1. b \in Injection(Pairs(f), Pairs(g))
    BY <1>6, <1>8 DEF Injection, IsInjective
  <2>2. b \in Surjection(Pairs(f), Pairs(g))
    BY <1>7, <1>8 DEF Surjection
  <2>3. QED
    BY <2>1, <2>2 DEF Bijection
<1> HIDE DEF b
<1>10. ExistsBijection(Pairs(f), Pairs(g))
  BY <1>9 DEF ExistsBijection
<1>11. Cardinality(Pairs(g)) = Cardinality(Pairs(f))
  BY <1>10, PairsFinite, FS_Bijection
<1>12. QED
  BY <1>11, TotalIs

-----------------------------------------------------------------------------
(* Files, and what a line adds to one.                                     *)
LEMMA OneOf ==
  ASSUME NEW R, NEW s \in Seq(R), Len(s) = 1
  PROVE  s[1] \in R
  OBVIOUS

(* A line of which nothing was joined holds one text.                      *)
LEMMA OneText ==
  ASSUME NEW R, NEW l \in Seq(Seq(R)), NEW i \in DOMAIN l, Len(l[i]) = 1
  PROVE  l[i][1] \in R
<1>1. l[i] \in Seq(R)
  OBVIOUS
<1>2. QED
  BY <1>1, OneOf

(* Lines of a file are finitely many.                                      *)
LEMMA FewLines ==
  ASSUME NEW R, NEW l \in Seq(R), NEW S \in SUBSET DOMAIN l
  PROVE  IsFiniteSet(S) /\ Cardinality(S) \in Nat /\ S \in SUBSET Nat
<1>1. Len(l) \in Nat /\ DOMAIN l = 1..Len(l)
  OBVIOUS
<1>2. IsFiniteSet(1..Len(l))
  BY <1>1, FS_Interval
<1>3. QED
  BY <1>1, <1>2, FS_Subset, FS_CardinalityType

(* What a text does to a file: after a newline it is a line of its own.    *)
LEMMA AddTextFacts ==
  ASSUME NEW R, NEW f \in File(R), NEW x \in R
  PROVE  /\ Trace!AddText(f, x) \in File(R)
         /\ f.ended => Trace!AddText(f, x).lines = Append(f.lines, <<x>>)
<1> DEFINE l == f.lines
           n == Len(l)
           more == Append(l[n], x)
<1>1. l \in Seq(Seq(R)) /\ n \in Nat /\ <<x>> \in Seq(R)
  BY DEF File
<1>2. Append(l, <<x>>) \in Seq(Seq(R))
  BY <1>1
<1>3. [l EXCEPT ![n] = more] \in Seq(Seq(R))
  <2>1. CASE n = 0
    <3>1. [l EXCEPT ![n] = more] = l
      BY <1>1, <2>1
    <3>2. QED
      BY <1>1, <3>1
  <2>2. CASE n # 0
    <3>1. l[n] \in Seq(R)
      BY <1>1, <2>2
    <3>2. more \in Seq(R)
      BY <3>1
    <3> HIDE DEF more, n
    <3>3. l \in [1..Len(l) -> Seq(R)]
      BY <1>1
    <3>4. [l EXCEPT ![n] = more] \in [1..Len(l) -> Seq(R)]
      BY <3>2, <3>3
    <3>5. QED
      BY <1>1, <3>4
  <2>3. QED
    BY <2>1, <2>2
<1>4. Trace!AddText(f, x) = [lines |-> IF f.ended THEN Append(l, <<x>>) ELSE [l EXCEPT ![n] = more],
                             ended |-> FALSE]
  BY DEF Trace!AddText, Trace!ReplaceAt, Trace!Last
<1> HIDE DEF l, n, more
<1>5. QED
  BY <1>2, <1>3, <1>4 DEF File, l

(* The lines of a file with one more line.                                 *)
LEMMA Appended ==
  ASSUME NEW R, NEW l \in Seq(Seq(R)), NEW x \in R
  PROVE  LET m == Append(l, <<x>>) IN
         /\ DOMAIN l = 1..Len(l) /\ Len(l) \in Nat
         /\ m \in Seq(Seq(R)) /\ DOMAIN m = DOMAIN l \cup {Len(l) + 1} /\ Len(l) + 1 \notin DOMAIN l
         /\ \A i \in DOMAIN l : m[i] = l[i] /\ i < Len(l) + 1
         /\ m[Len(l) + 1] = <<x>> /\ m[Len(l) + 1][1] = x
         /\ Unjoined(l) => Unjoined(m)
<1> DEFINE m == Append(l, <<x>>)
<1>1. <<x>> \in Seq(R) /\ Len(<<x>>) = 1 /\ <<x>>[1] = x
  OBVIOUS
<1>2. DOMAIN l = 1..Len(l) /\ Len(l) \in Nat
  OBVIOUS
<1> DEFINE y == <<x>>
<1>3. y \in Seq(R)
  BY <1>1
<1>4. /\ Append(l, y) \in Seq(Seq(R)) /\ DOMAIN Append(l, y) = 1..(Len(l) + 1)
      /\ \A i \in 1..Len(l) : Append(l, y)[i] = l[i]
      /\ Append(l, y)[Len(l) + 1] = y
  <2> HIDE DEF y
  <2>1. QED
    BY <1>3
<1>5. 1..(Len(l) + 1) = 1..Len(l) \cup {Len(l) + 1} /\ \A i \in 1..Len(l) : i < Len(l) + 1
  BY <1>2
<1>6. /\ m \in Seq(Seq(R)) /\ DOMAIN m = DOMAIN l \cup {Len(l) + 1}
      /\ \A i \in DOMAIN l : m[i] = l[i]
      /\ m[Len(l) + 1] = <<x>>
  BY <1>2, <1>4, <1>5
<1> HIDE DEF m, y
<1>7. Unjoined(l) => Unjoined(m)
  BY <1>1, <1>6 DEF Unjoined
<1>8. QED
  BY <1>1, <1>2, <1>5, <1>6, <1>7 DEF m

-----------------------------------------------------------------------------
(* The numbers of a trace.                                                 *)
LEMMA TraceConstants ==
  /\ IsFiniteSet(Traces) /\ IsFiniteSet(Spans) /\ TraceOf \in [Spans -> Traces] /\ Tokens \subseteq Nat
  /\ IsFiniteSet(Tasks) /\ MaxOps \in Nat /\ MaxCrashes \in Nat
  BY StoresAssumption

(* The cost of a trace is a number ...                                     *)
LEMMA CostTyped ==
  ASSUME NEW r \in [Spans -> Nat], NEW t
  PROVE  Cost(r, t) \in Nat /\ [s \in SpansOf(t) |-> r[s]] \in [SpansOf(t) -> Nat] /\ IsFiniteSet(SpansOf(t))
<1>1. IsFiniteSet(SpansOf(t)) /\ SpansOf(t) \in SUBSET Spans
  BY TraceConstants, FS_Subset DEF SpansOf
<1>2. [s \in SpansOf(t) |-> r[s]] \in [SpansOf(t) -> Nat]
  BY <1>1
<1>3. QED
  BY <1>1, <1>2, PairsFinite DEF Cost

(* ... that a span of another trace does not change.                       *)
LEMMA CostSame ==
  ASSUME NEW r \in [Spans -> Nat], NEW s \in Spans, NEW n \in Nat, NEW t, TraceOf[s] # t
  PROVE  Cost([r EXCEPT ![s] = n], t) = Cost(r, t)
<1>1. \A x \in SpansOf(t) : [r EXCEPT ![s] = n][x] = r[x]
  BY DEF SpansOf
<1>2. [x \in SpansOf(t) |-> [r EXCEPT ![s] = n][x]] = [x \in SpansOf(t) |-> r[x]]
  BY <1>1
<1>3. QED
  BY <1>2 DEF Cost

(* The summaries of each trace are counted by numbers.                     *)
LEMMA WrittenTyped ==
  ASSUME NEW l \in Seq(Seq(Summary)), NEW r \in [Spans -> Nat]
  PROVE  /\ Written(l) \in [Traces -> Nat] /\ Trace!Total(Written(l)) \in Nat
         /\ Shares(Written(l), r) \in [Traces -> Nat] /\ Trace!Total(Shares(Written(l), r)) \in Nat
<1>1. \A t \in Traces : Cardinality(Summaries(l, t)) \in Nat
  BY FewLines DEF Summaries
<1>2. Written(l) \in [Traces -> Nat]
  BY <1>1 DEF Written
<1>3. \A t \in Traces : Written(l)[t] * Cost(r, t) \in Nat
  BY <1>2, CostTyped
<1>4. Shares(Written(l), r) \in [Traces -> Nat]
  BY <1>3 DEF Shares
<1>5. QED
  BY <1>2, <1>4, PairsFinite, TraceConstants

(* What finalize_trace sums up is a number, and the cost of the trace.     *)
LEMMA SummedTyped ==
  ASSUME NEW f \in File(Line)
  PROVE  Trace!Summed(f) \in Nat
<1> DEFINE l == f.lines
           last == {i \in Trace!Alone(f) : \A j \in Trace!Alone(f) : l[j][1][1] = l[i][1][1] => j <= i}
           p == [i \in last |-> l[i][1][2]]
<1>1. l \in Seq(Seq(Line))
  BY DEF File
<1>2. last \in SUBSET DOMAIN l /\ \A i \in last : Len(l[i]) = 1
  BY DEF Trace!Alone
<1>3. IsFiniteSet(last)
  <2> HIDE DEF last, l
  <2>1. QED
    BY <1>1, <1>2, FewLines
<1>4. ASSUME NEW i \in last PROVE l[i][1][2] \in Nat
  <2> HIDE DEF last, l
  <2>1. l[i][1] \in Line
    BY <1>1, <1>2, OneText
  <2>2. QED
    BY <2>1, TraceConstants DEF Line
<1>5. p \in [last -> Nat]
  BY <1>4
<1>6. Trace!Summed(f) = Trace!Total(p)
  BY DEF Trace!Summed
<1> HIDE DEF p, last
<1>7. QED
  BY <1>3, <1>5, <1>6, PairsFinite

(* A set of numbers up to some number has a greatest one.                  *)
LEMMA Greatest ==
  ASSUME NEW n \in Nat, NEW T \in SUBSET (1..n), T # {}
  PROVE  \E i \in T : \A j \in T : j <= i
<1> DEFINE U == {n - i : i \in T}
<1>1. U \in SUBSET Nat /\ U # {}
  <2>1. \A i \in T : n - i \in Nat
    OBVIOUS
  <2>2. U \in SUBSET Nat
    BY <2>1
  <2>3. PICK i \in T : TRUE
    OBVIOUS
  <2>4. n - i \in U
    OBVIOUS
  <2>5. QED
    BY <2>2, <2>4
<1>2. PICK a \in U : \A b \in U : a <= b
  <2> HIDE DEF U
  <2>1. QED
    BY <1>1, Least
<1>3. PICK i \in T : a = n - i
  BY <1>2
<1>4. ASSUME NEW j \in T PROVE j <= i
  <2>1. n - j \in U
    OBVIOUS
  <2>2. n - i <= n - j
    BY <1>2, <1>3, <2>1
  <2>3. i \in Nat /\ j \in Nat
    OBVIOUS
  <2>4. QED
    BY <2>2, <2>3
<1>5. QED
  BY <1>4

(* It is the cost of the trace where the file tells the truth.             *)
LEMMA SummedIs ==
  ASSUME NEW f \in File(Line), NEW r \in [Spans -> Nat], NEW t, LinesTrue(f.lines, r, t)
  PROVE  Trace!Summed(f) = Cost(r, t)
<1> DEFINE l == f.lines
           last == {i \in DOMAIN l : Newest(l, i)}
           p == [i \in last |-> l[i][1][2]]
           h == [i \in last |-> l[i][1][1]]
           q == [s \in SpansOf(t) |-> r[s]]
<1>1. l \in Seq(Seq(Line))
  BY DEF File
<1>2. Trace!Alone(f) = DOMAIN l
  BY DEF Trace!Alone, LinesTrue, Unjoined
<1>3. Trace!Summed(f) = Trace!Total(p)
  BY <1>2 DEF Trace!Summed, Newest
<1> HIDE DEF l
<1>4. IsFiniteSet(last) /\ last \in SUBSET Nat
  BY <1>1, FewLines
<1>5. ASSUME NEW i \in DOMAIN l
      PROVE  /\ l[i][1][1] \in SpansOf(t) /\ l[i][1][2] \in Nat
             /\ Newest(l, i) => l[i][1][2] = r[l[i][1][1]]
  <2>1. Len(l[i]) = 1
    BY DEF LinesTrue, Unjoined, l
  <2>2. l[i][1] \in Line
    BY <1>1, <2>1, OneText
  <2>3. l[i][1][1] \in Spans /\ l[i][1][2] \in Nat
    BY <2>2, TraceConstants DEF Line
  <2>4. TraceOf[l[i][1][1]] = t /\ (Newest(l, i) => l[i][1][2] = r[l[i][1][1]])
    BY DEF LinesTrue, l
  <2>5. QED
    BY <2>3, <2>4 DEF SpansOf
<1>6. p \in [last -> Nat] /\ h \in [last -> SpansOf(t)] /\ q \in [SpansOf(t) -> Nat]
  BY <1>5, CostTyped
<1>7. \A i \in last : p[i] = q[h[i]]
  BY <1>5
<1>8. ASSUME NEW i \in last, NEW j \in last, h[i] = h[j]
      PROVE  i = j
  <2>1. i <= j /\ j <= i
    BY <1>8 DEF Newest
  <2>2. QED
    BY <1>4, <2>1
<1>9. ASSUME NEW s \in SpansOf(t), q[s] # 0
      PROVE  \E i \in last : h[i] = s
  <2> DEFINE mine == {i \in DOMAIN l : l[i][1][1] = s}
  <2>1. r[s] # 0
    BY <1>9
  <2>2. mine # {}
    BY <2>1 DEF LinesTrue, l
  <2>3. IsFiniteSet(mine) /\ mine \in SUBSET Nat
    BY <1>1, FewLines
  <2>4. PICK i \in mine : \A j \in mine : j <= i
    <3> HIDE DEF mine
    <3>1. Len(l) \in Nat
      BY <1>1
    <3>2. mine \in SUBSET (1..Len(l))
      BY <1>1 DEF mine
    <3>3. QED
      BY <2>2, <3>1, <3>2, Greatest
  <2>5. i \in last
    BY <2>4 DEF Newest
  <2>6. QED
    BY <2>4, <2>5
<1>10. Trace!Total(p) = Trace!Total(q)
  <2> DEFINE T == SpansOf(t)
  <2>1. \A i, j \in last : h[i] = h[j] => i = j
    <3> HIDE DEF h, last
    <3>1. QED
      BY <1>8
  <2>2. \A s \in T : q[s] # 0 => \E i \in last : h[i] = s
    <3> HIDE DEF h, last, q
    <3>1. QED
      BY <1>9
  <2>3. p \in [last -> Nat] /\ h \in [last -> T] /\ q \in [T -> Nat] /\ IsFiniteSet(last)
    BY <1>4, <1>6
  <2> HIDE DEF last, p, q, h, T
  <2>4. QED
    BY <1>7, <2>1, <2>2, <2>3, TotalSame
<1>11. Trace!Total(q) = Cost(r, t)
  BY DEF Cost
<1> HIDE DEF p, q
<1>12. QED
  BY <1>3, <1>10, <1>11

(* A post: the last line of its span is the new one.                       *)
LEMMA PostLines ==
  ASSUME NEW l \in Seq(Seq(Line)), NEW r \in [Spans -> Nat], NEW t, NEW s \in Spans, TraceOf[s] = t,
         NEW n \in Tokens, LinesTrue(l, r, t)
  PROVE  LinesTrue(Append(l, <<<<s, n>>>>), [r EXCEPT ![s] = n], t)
<1> DEFINE x == <<s, n>>
           m == Append(l, <<x>>)
           e == Len(l) + 1
           u == [r EXCEPT ![s] = n]
<1>1. x \in Line /\ x[1] = s /\ x[2] = n
  BY DEF Line
<1> HIDE DEF x
<1>2. /\ DOMAIN l = 1..Len(l) /\ Len(l) \in Nat
      /\ DOMAIN m = DOMAIN l \cup {e} /\ e \notin DOMAIN l
      /\ \A i \in DOMAIN l : m[i] = l[i] /\ i < e
      /\ m[e][1] = x
      /\ Unjoined(m)
  BY <1>1, Appended DEF LinesTrue
<1>3. u[s] = n /\ \A y \in Spans : y # s => u[y] = r[y]
  OBVIOUS
<1> HIDE DEF m, e, u
<1>4. ASSUME NEW i \in DOMAIN m
      PROVE  TraceOf[m[i][1][1]] = t /\ (Newest(m, i) => m[i][1][2] = u[m[i][1][1]])
  <2>1. CASE i = e
    BY <1>1, <1>2, <1>3, <2>1
  <2>2. CASE i \in DOMAIN l
    <3>1. TraceOf[l[i][1][1]] = t /\ (Newest(l, i) => l[i][1][2] = r[l[i][1][1]])
      BY <2>2 DEF LinesTrue
    <3>2. ASSUME Newest(m, i)
          PROVE  m[i][1][2] = u[m[i][1][1]]
      <4>1. i \in Nat /\ e \in Nat /\ i < e
        BY <1>2, <2>2 DEF e
      <4>2. l[i][1][1] # s
        <5>1. m[i] = l[i] /\ e \in DOMAIN m /\ m[e][1][1] = s
          BY <1>1, <1>2, <2>2
        <5>2. m[e][1][1] = m[i][1][1] => e <= i
          BY <3>2, <5>1 DEF Newest
        <5>3. ~ e <= i
          BY <4>1
        <5>4. QED
          BY <5>1, <5>2, <5>3
      <4>3. Newest(l, i)
        BY <1>2, <2>2, <3>2 DEF Newest
      <4>4. l[i][1][1] \in Spans
        <5>1. Len(l[i]) = 1
          BY <2>2 DEF LinesTrue, Unjoined
        <5>2. l[i][1] \in Line
          BY <2>2, <5>1, OneText
        <5>3. QED
          BY <5>2 DEF Line
      <4>5. QED
        BY <1>2, <1>3, <2>2, <3>1, <4>2, <4>3, <4>4
    <3>3. QED
      BY <1>2, <2>2, <3>1, <3>2
  <2>3. QED
    BY <1>2, <2>1, <2>2
<1>5. ASSUME NEW y \in SpansOf(t), u[y] # 0
      PROVE  \E i \in DOMAIN m : m[i][1][1] = y
  <2>1. CASE y = s
    BY <1>1, <1>2, <2>1
  <2>2. CASE y # s
    <3>1. r[y] # 0
      BY <1>3, <1>5, <2>2 DEF SpansOf
    <3>2. PICK i \in DOMAIN l : l[i][1][1] = y
      BY <3>1 DEF LinesTrue
    <3>3. QED
      BY <1>2, <3>2
  <2>3. QED
    BY <2>1, <2>2
<1>6. QED
  BY <1>2, <1>4, <1>5 DEF LinesTrue, m, u, x

(* A post leaves the files of the other traces true.                       *)
LEMMA OtherLines ==
  ASSUME NEW l \in Seq(Seq(Line)), NEW r \in [Spans -> Nat], NEW t, NEW s \in Spans, TraceOf[s] # t,
         NEW n \in Nat, LinesTrue(l, r, t)
  PROVE  LinesTrue(l, [r EXCEPT ![s] = n], t)
<1> DEFINE u == [r EXCEPT ![s] = n]
<1>1. \A y \in Spans : TraceOf[y] = t => u[y] = r[y]
  OBVIOUS
<1> HIDE DEF u
<1>2. ASSUME NEW i \in DOMAIN l
      PROVE  TraceOf[l[i][1][1]] = t /\ (Newest(l, i) => l[i][1][2] = u[l[i][1][1]])
  <2>1. Len(l[i]) = 1
    BY DEF LinesTrue, Unjoined
  <2>2. l[i][1] \in Line
    BY <2>1, OneText
  <2>3. l[i][1][1] \in Spans
    BY <2>2 DEF Line
  <2>4. QED
    BY <1>1, <2>3 DEF LinesTrue
<1>3. \A y \in SpansOf(t) : u[y] # 0 => \E i \in DOMAIN l : l[i][1][1] = y
  BY <1>1 DEF SpansOf, LinesTrue
<1>4. QED
  BY <1>2, <1>3 DEF LinesTrue, u

(* A summary that is written: one more of its trace, and what it charges.  *)
LEMMA WrittenNew ==
  ASSUME NEW l \in Seq(Seq(Summary)), NEW x \in Summary
  PROVE  Written(Append(l, <<x>>)) = [Written(l) EXCEPT ![x[1]] = @ + 1]
<1> DEFINE m == Append(l, <<x>>)
           e == Len(l) + 1
<1>1. /\ DOMAIN m = DOMAIN l \cup {e} /\ e \notin DOMAIN l
      /\ \A i \in DOMAIN l : m[i] = l[i]
      /\ m[e][1] = x
  BY Appended
<1>2. x[1] \in Traces
  BY DEF Summary
<1> HIDE DEF m, e
<1>3. ASSUME NEW t \in Traces, t # x[1]
      PROVE  Summaries(m, t) = Summaries(l, t)
  BY <1>1, <1>3 DEF Summaries
<1>4. Summaries(m, x[1]) = Summaries(l, x[1]) \cup {e} /\ e \notin Summaries(l, x[1])
  BY <1>1 DEF Summaries
<1>5. IsFiniteSet(Summaries(l, x[1]))
  BY FewLines DEF Summaries
<1>6. Cardinality(Summaries(m, x[1])) = Cardinality(Summaries(l, x[1])) + 1
  BY <1>4, <1>5, FS_AddElement
<1>7. \A t \in Traces : Written(m)[t] = [Written(l) EXCEPT ![x[1]] = @ + 1][t]
  BY <1>2, <1>3, <1>6 DEF Written
<1>8. Written(m) = [Written(l) EXCEPT ![x[1]] = @ + 1]
  BY <1>7 DEF Written
<1>9. QED
  BY <1>8 DEF m

(* What a summary adds to the charge.                                      *)
LEMMA TotalMore ==
  \A P, Q, T, y :
    /\ IsFiniteSet(T) /\ P \in [T -> Nat] /\ y \notin T
    /\ Q \in [T \cup {y} -> Nat] /\ \A i \in T : Q[i] = P[i]
    => Trace!Total(Q) = Trace!Total(P) + Q[y] /\ Trace!Total(P) \in Nat
  BY TotalNew

(* What a summary adds to the charges.                                     *)
LEMMA ChargeNew ==
  ASSUME NEW f \in File(Summary), NEW g \in File(Summary), NEW x \in Summary,
         Unjoined(f.lines), g.lines = Append(f.lines, <<x>>)
  PROVE  ChargeOf(f) \in Nat /\ ChargeOf(g) = ChargeOf(f) + 2 * (x[2] \div 2)
<1> DEFINE l == f.lines
           m == g.lines
           e == Len(l) + 1
           p == [i \in Trace!Alone(f) |-> 2 * (l[i][1][2] \div 2)]
           q == [i \in Trace!Alone(g) |-> 2 * (m[i][1][2] \div 2)]
<1>1. l \in Seq(Seq(Summary)) /\ m \in Seq(Seq(Summary))
  BY DEF File
<1>2. /\ DOMAIN m = DOMAIN l \cup {e} /\ e \notin DOMAIN l
      /\ \A i \in DOMAIN l : m[i] = l[i]
      /\ m[e][1] = x
      /\ Unjoined(l) /\ Unjoined(m)
  BY <1>1, Appended
<1>3. Trace!Alone(f) = DOMAIN l /\ Trace!Alone(g) = DOMAIN m
  BY <1>2 DEF Trace!Alone, Unjoined
<1>4. ChargeOf(f) = Trace!Total(p) /\ ChargeOf(g) = Trace!Total(q)
  BY DEF ChargeOf
<1> HIDE DEF l, m, e
<1>5. \A i \in DOMAIN m : m[i][1][2] \in Nat
  <2>1. ASSUME NEW i \in DOMAIN m PROVE m[i][1] \in Summary
    <3>1. Len(m[i]) = 1
      BY <1>2 DEF Unjoined
    <3>2. QED
      BY <1>1, <3>1, OneText
  <2>2. QED
    BY <2>1 DEF Summary
<1>6. \A a \in Nat : 2 * (a \div 2) \in Nat
  OBVIOUS
<1>7. \A i \in DOMAIN m : 2 * (m[i][1][2] \div 2) \in Nat
  BY <1>5, <1>6
<1>8. q \in [DOMAIN l \cup {e} -> Nat] /\ q[e] = 2 * (x[2] \div 2)
  BY <1>2, <1>3, <1>7
<1>9. p \in [DOMAIN l -> Nat] /\ \A i \in DOMAIN l : q[i] = p[i]
  BY <1>2, <1>3, <1>7
<1>10. IsFiniteSet(DOMAIN l)
  BY <1>1, FewLines
<1>11. Trace!Total(q) = Trace!Total(p) + q[e] /\ Trace!Total(p) \in Nat
  <2> DEFINE S == DOMAIN l
  <2>1. /\ IsFiniteSet(S) /\ p \in [S -> Nat] /\ e \notin S
        /\ q \in [S \cup {e} -> Nat] /\ \A i \in S : q[i] = p[i]
    BY <1>2, <1>8, <1>9, <1>10
  <2> HIDE DEF p, q, S
  <2>2. QED
    BY <2>1, TotalMore
<1> HIDE DEF p, q
<1>12. QED
  BY <1>4, <1>8, <1>11

-----------------------------------------------------------------------------
(* The steps.  First the summaries that wait to be written: by whom they   *)
(* are, and what a task that goes on to something else does to them.       *)
LEMMA SummingTyped ==
  ASSUME NEW p, NEW t
  PROVE  IsFiniteSet(Summing(p, t)) /\ Cardinality(Summing(p, t)) \in Nat
  BY TraceConstants, FS_Subset, FS_CardinalityType DEF Summing

(* One more task that sums a trace up.                                     *)
LEMMA SummingMore ==
  ASSUME NEW p, NEW k \in Tasks, p[k].pc # "text", NEW q, NEW t,
         \A j \in Tasks : j # k => q[j] = p[j], q[k].pc = "text", q[k].text[1] = t
  PROVE  /\ Cardinality(Summing(q, t)) = Cardinality(Summing(p, t)) + 1
         /\ \A u : u # t => Summing(q, u) = Summing(p, u)
<1>1. k \notin Summing(p, t) /\ Summing(q, t) = Summing(p, t) \cup {k}
  BY DEF Summing
<1>2. Cardinality(Summing(p, t) \cup {k}) = Cardinality(Summing(p, t)) + 1
  BY <1>1, SummingTyped, FS_AddElement
<1>3. ASSUME NEW u, u # t PROVE Summing(q, u) = Summing(p, u)
  BY <1>3 DEF Summing
<1>4. QED
  BY <1>1, <1>2, <1>3

(* A task that sums nothing up before and after does not count.            *)
LEMMA SummingSame ==
  ASSUME NEW p, NEW q, NEW k \in Tasks, p[k].pc # "text", q[k].pc # "text",
         \A j \in Tasks : j # k => q[j] = p[j], NEW t
  PROVE  Summing(q, t) = Summing(p, t)
  BY DEF Summing

(* What a task does next, in its state.                                    *)
LEMMA Posters ==
  ASSUME TraceTypes, NEW k \in Tasks, NEW x \in Poster, x.pc = "text" => x.text \in Summary,
         poster' = [poster EXCEPT ![k] = x]
  PROVE  /\ poster' \in [Tasks -> Poster] /\ poster'[k] = x
         /\ \A j \in Tasks : j # k => poster'[j] = poster[j]
         /\ \A j \in Tasks : poster'[j].pc = "text" => poster'[j].text \in Summary
<1>1. poster \in [Tasks -> Poster] /\ \A j \in Tasks : poster[j].pc = "text" => poster[j].text \in Summary
  BY DEF TraceTypes
<1> HIDE DEF Poster, Summary
<1>2. /\ poster' \in [Tasks -> Poster] /\ poster'[k] = x
      /\ \A j \in Tasks : j # k => poster'[j] = poster[j]
  BY <1>1
<1>3. QED
  BY <1>1, <1>2

(* A span is posted: the summaries that there are were not of its trace.   *)
LEMMA TracePostKeeps ==
  ASSUME TraceInv, NEW k \in Tasks, NEW s \in Spans, NEW n \in Tokens, Trace!Post(k, s, n)
  PROVE  TraceInv'
<1> DEFINE t == TraceOf[s]
           x == <<s, n>>
           y == [Trace!Still EXCEPT !.pc = "newline", !.trace = {t}]
           u == [reported EXCEPT ![s] = n]
<1>1. /\ poster[k].pc = "idle" /\ ops < MaxOps /\ ops' = ops + 1
      /\ trace' = [trace EXCEPT ![t] = Trace!AddText(@, x)]
      /\ joined' = (joined \/ ~trace[t].ended)
      /\ late' = IF finals[t] > 0 THEN late \cup {t} ELSE late
      /\ poster' = [poster EXCEPT ![k] = y]
      /\ reported' = u
      /\ index' = index /\ finals' = finals /\ uncrashed' = uncrashed
  BY DEF Trace!Post
<1>2. t \in Traces /\ n \in Nat /\ x \in Line /\ MaxOps \in Nat
  BY TraceConstants DEF Line
<1>3. TraceTypes /\ SumsKept /\ FilesTrue /\ BillTrue
  BY DEF TraceInv
<1>4. y \in Poster /\ y.pc = "newline"
  BY <1>2 DEF Poster, Trace!Still
<1> HIDE DEF t, x, y, u
<1>5. /\ poster' \in [Tasks -> Poster] /\ poster'[k] = y
      /\ \A j \in Tasks : j # k => poster'[j] = poster[j]
      /\ \A j \in Tasks : poster'[j].pc = "text" => poster'[j].text \in Summary
  BY <1>1, <1>3, <1>4, Posters
<1>6. \A v : Summing(poster', v) = Summing(poster, v)
  <2>1. poster[k].pc # "text" /\ poster'[k].pc # "text"
    BY <1>1, <1>4, <1>5
  <2>2. QED
    BY <1>5, <2>1, SummingSame
<1>7. trace[t] \in File(Line) /\ trace \in [Traces -> File(Line)] /\ reported \in [Spans -> Nat]
      /\ finals \in [Traces -> Nat] /\ index \in File(Summary)
  BY <1>2, <1>3 DEF TraceTypes
<1>8. Trace!AddText(trace[t], x) \in File(Line)
      /\ (trace[t].ended => Trace!AddText(trace[t], x).lines = Append(trace[t].lines, <<x>>))
  BY <1>2, <1>7, AddTextFacts
<1>9. u \in [Spans -> Nat]
  BY <1>2, <1>7 DEF u
<1>10. TraceTypes'
  <2>1. trace' \in [Traces -> File(Line)]
    BY <1>1, <1>7, <1>8
  <2>2. ops' \in 0..MaxOps
    BY <1>1, <1>2, <1>3 DEF TraceTypes
  <2>3. joined' \in BOOLEAN
    BY <1>1, <1>3 DEF TraceTypes
  <2>4. late' \in SUBSET Traces
    BY <1>1, <1>2, <1>3 DEF TraceTypes
  <2>5. index' \in File(Summary) /\ finals' \in [Traces -> Nat] /\ uncrashed' \in 0..MaxCrashes
    BY <1>1, <1>3 DEF TraceTypes
  <2>6. reported' \in [Spans -> Nat]
    BY <1>1, <1>9
  <2>7. QED
    BY <1>5, <2>1, <2>2, <2>3, <2>4, <2>5, <2>6 DEF TraceTypes
<1>11. SumsKept'
  BY <1>1, <1>3, <1>6 DEF SumsKept
<1>12. FilesTrue'
  <2> SUFFICES ASSUME ~joined' PROVE (\A v \in Traces : LinesTrue(trace'[v].lines, reported', v))
                                     /\ Unjoined(index'.lines)
    BY DEF FilesTrue
  <2>1. ~joined /\ trace[t].ended
    BY <1>1
  <2>2. (\A v \in Traces : LinesTrue(trace[v].lines, reported, v)) /\ Unjoined(index.lines)
    BY <1>3, <2>1 DEF FilesTrue
  <2>3. ASSUME NEW v \in Traces PROVE LinesTrue(trace'[v].lines, reported', v)
    <3>1. trace[v].lines \in Seq(Seq(Line)) /\ LinesTrue(trace[v].lines, reported, v)
      BY <1>7, <2>2 DEF File
    <3>2. CASE v = t
      <4>1. trace'[v].lines = Append(trace[v].lines, <<x>>)
        BY <1>1, <1>7, <1>8, <2>1, <3>2
      <4>2. LinesTrue(Append(trace[v].lines, <<x>>), u, v)
        BY <1>7, <3>1, <3>2, PostLines DEF x, u, t
      <4>3. QED
        BY <1>1, <4>1, <4>2
    <3>3. CASE v # t
      <4>1. trace'[v] = trace[v]
        BY <1>1, <1>7, <3>3
      <4>2. LinesTrue(trace[v].lines, u, v)
        BY <1>2, <1>7, <3>1, <3>3, OtherLines DEF u, t
      <4>3. QED
        BY <1>1, <4>1, <4>2
    <3>4. QED
      BY <3>2, <3>3
  <2>4. QED
    BY <1>1, <2>2, <2>3
<1>13. ASSUME ~joined', late' = {}
       PROVE  (Expected /\ Billed)'
  <2>1. ~joined /\ finals[t] = 0 /\ late = {}
    <3>1. ~joined
      BY <1>1, <1>13
    <3>2. ~ finals[t] > 0
      BY <1>1, <1>13
    <3>3. finals[t] \in Nat
      BY <1>2, <1>7
    <3>4. late = {}
      BY <1>1, <1>13, <3>2
    <3>5. QED
      BY <3>1, <3>2, <3>3, <3>4
  <2>2. Expected /\ Billed
    BY <1>3, <2>1 DEF BillTrue
  <2> DEFINE w == Written(index.lines)
  <2>3. w \in [Traces -> Nat]
    BY <1>7, WrittenTyped DEF File
  <2>4. w[t] = 0 /\ Cardinality(Summing(poster, t)) = 0
    <3>1. finals[t] = w[t] + Cardinality(Summing(poster, t))
      BY <1>2, <2>2 DEF Expected
    <3> HIDE DEF w
    <3>2. QED
      BY <1>2, <2>1, <2>3, <3>1, SummingTyped
  <2>5. Summing(poster, t) = {}
    BY <2>4, SummingTyped, FS_EmptySet
  <2>6. ASSUME NEW v, v # t PROVE Cost(u, v) = Cost(reported, v)
    BY <1>2, <1>7, <2>6, CostSame DEF u, t
  <2>7. ASSUME NEW j \in Tasks, poster'[j].pc = "text"
        PROVE  poster'[j].text[2] = Cost(u, poster'[j].text[1])
    <3>1. j # k /\ poster'[j] = poster[j]
      BY <1>4, <1>5, <2>7
    <3>2. poster[j].text[2] = Cost(reported, poster[j].text[1])
      BY <2>2, <2>7, <3>1 DEF Expected
    <3>3. poster[j].text[1] # t
      BY <2>5, <2>7, <3>1 DEF Summing
    <3>4. QED
      BY <2>6, <3>1, <3>2, <3>3
  <2>8. Expected'
    BY <1>1, <1>6, <2>2, <2>7 DEF Expected
  <2>9. Shares(w, u) = Shares(w, reported)
    <3>1. ASSUME NEW v \in Traces PROVE w[v] * Cost(u, v) = w[v] * Cost(reported, v)
      <4>1. CASE v = t
        <5>1. Cost(u, v) \in Nat /\ Cost(reported, v) \in Nat
          BY <1>7, <1>9, CostTyped
        <5>2. w[v] = 0
          BY <2>4, <4>1
        <5> HIDE DEF w
        <5>3. QED
          BY <5>1, <5>2
      <4>2. CASE v # t
        BY <2>6, <4>2
      <4>3. QED
        BY <4>1, <4>2
    <3> HIDE DEF w
    <3>2. QED
      BY <3>1 DEF Shares
  <2>10. Billed'
    BY <1>1, <2>2, <2>9 DEF Billed
  <2>11. QED
    BY <2>8, <2>10
<1>14. BillTrue'
  BY <1>13 DEF BillTrue
<1>15. QED
  BY <1>10, <1>11, <1>12, <1>14 DEF TraceInv

(* A trace is summed up: its file gives what its spans cost.               *)
LEMMA TraceFinalizeKeeps ==
  ASSUME TraceInv, NEW k \in Tasks, NEW t \in Traces, Trace!Finalize(k, t)
  PROVE  TraceInv'
<1> DEFINE x == <<t, Trace!Summed(trace[t])>>
           y == [Trace!Still EXCEPT !.pc = "text", !.text = x]
<1>1. /\ poster[k].pc = "idle" /\ ops < MaxOps /\ ops' = ops + 1
      /\ poster' = [poster EXCEPT ![k] = y]
      /\ finals' = [finals EXCEPT ![t] = @ + 1]
      /\ trace' = trace /\ index' = index /\ reported' = reported /\ uncrashed' = uncrashed
      /\ joined' = joined /\ late' = late
  BY DEF Trace!Finalize
<1>2. TraceTypes /\ SumsKept /\ FilesTrue /\ BillTrue /\ MaxOps \in Nat
  BY TraceConstants DEF TraceInv
<1>3. trace[t] \in File(Line) /\ reported \in [Spans -> Nat] /\ finals \in [Traces -> Nat]
  BY <1>2 DEF TraceTypes
<1>4. x \in Summary /\ x[1] = t /\ x[2] = Trace!Summed(trace[t])
  BY <1>3, SummedTyped DEF Summary
<1> HIDE DEF x
<1>5. y \in Poster /\ y.pc = "text" /\ y.text = x
  BY <1>4 DEF Poster, Trace!Still
<1> HIDE DEF y
<1>6. /\ poster' \in [Tasks -> Poster] /\ poster'[k] = y
      /\ \A j \in Tasks : j # k => poster'[j] = poster[j]
      /\ \A j \in Tasks : poster'[j].pc = "text" => poster'[j].text \in Summary
  BY <1>1, <1>2, <1>4, <1>5, Posters
<1>7. /\ Cardinality(Summing(poster', t)) = Cardinality(Summing(poster, t)) + 1
      /\ \A u : u # t => Summing(poster', u) = Summing(poster, u)
  <2>1. poster[k].pc # "text" /\ poster'[k].pc = "text" /\ poster'[k].text[1] = t
    BY <1>1, <1>4, <1>5, <1>6
  <2>2. QED
    BY <1>6, <2>1, SummingMore
<1>8. /\ finals' \in [Traces -> Nat] /\ finals'[t] = finals[t] + 1
      /\ \A u \in Traces : u # t => finals'[u] = finals[u]
  BY <1>1, <1>3
<1>9. TraceTypes'
  <2>1. ops' \in 0..MaxOps
    BY <1>1, <1>2 DEF TraceTypes
  <2>2. QED
    BY <1>1, <1>2, <1>6, <1>8, <2>1 DEF TraceTypes
<1>10. ASSUME NEW u \in Traces PROVE Cardinality(Summing(poster', u)) <= finals'[u]
  <2>1. Cardinality(Summing(poster, u)) <= finals[u]
    BY <1>2 DEF SumsKept
  <2>2. CASE u = t
    BY <1>3, <1>7, <1>8, <2>1, <2>2, SummingTyped
  <2>3. CASE u # t
    BY <1>7, <1>8, <2>1, <2>3
  <2>4. QED
    BY <2>2, <2>3
<1>11. SumsKept'
  BY <1>10 DEF SumsKept
<1>12. FilesTrue'
  BY <1>1, <1>2 DEF FilesTrue
<1>13. ASSUME ~joined', late' = {}
       PROVE  (Expected /\ Billed)'
  <2>1. ~joined /\ Expected /\ Billed
    BY <1>1, <1>2, <1>13 DEF BillTrue
  <2>2. LinesTrue(trace[t].lines, reported, t)
    BY <1>2, <2>1 DEF FilesTrue
  <2>3. x[2] = Cost(reported, t)
    BY <1>3, <1>4, <2>2, SummedIs
  <2>4. ASSUME NEW j \in Tasks, poster'[j].pc = "text"
        PROVE  poster'[j].text[2] = Cost(reported, poster'[j].text[1])
    <3>1. CASE j = k
      BY <1>4, <1>5, <1>6, <2>3, <3>1
    <3>2. CASE j # k
      BY <1>6, <2>1, <2>4, <3>2 DEF Expected
    <3>3. QED
      BY <3>1, <3>2
  <2> DEFINE w == Written(index.lines)
  <2>5. w \in [Traces -> Nat]
    BY <1>2, <1>3, WrittenTyped DEF TraceTypes, File
  <2>6. \A u \in Traces : finals[u] = w[u] + Cardinality(Summing(poster, u))
    BY <2>1 DEF Expected
  <2>7. ASSUME NEW u \in Traces PROVE finals'[u] = w[u] + Cardinality(Summing(poster', u))
    <3> HIDE DEF w
    <3>1. CASE u = t
      BY <1>3, <1>7, <1>8, <2>5, <2>6, <3>1, SummingTyped
    <3>2. CASE u # t
      BY <1>7, <1>8, <2>6, <3>2
    <3>3. QED
      BY <3>1, <3>2
  <2>8. Expected'
    BY <1>1, <2>4, <2>7 DEF Expected
  <2>9. Billed'
    BY <1>1, <2>1 DEF Billed
  <2>10. QED
    BY <2>8, <2>9
<1>14. BillTrue'
  BY <1>13 DEF BillTrue
<1>15. QED
  BY <1>9, <1>11, <1>12, <1>14 DEF TraceInv

(* A summary is written: it is one less that waits, one more that is       *)
(* charged, and rounding loses at most one token of it.                    *)
LEMMA Halved == \A c \in Nat : 2 * (c \div 2) \in Nat /\ c - 1 <= 2 * (c \div 2) /\ 2 * (c \div 2) <= c
  OBVIOUS

(* The summary is appended to the index.                                   *)
LEMMA TraceSummaryKeeps ==
  ASSUME TraceInv, NEW k \in Tasks, Trace!AppendSummary(k)
  PROVE  TraceInv'
<1> DEFINE x == poster[k].text
           t == x[1]
           c == Cost(reported, t)
           y == [Trace!Still EXCEPT !.pc = "newline"]
<1>1. /\ poster[k].pc = "text" /\ poster' = [poster EXCEPT ![k] = y]
      /\ index' = Trace!AddText(index, x)
      /\ joined' = (joined \/ ~index.ended)
      /\ trace' = trace /\ reported' = reported /\ finals' = finals /\ ops' = ops
      /\ uncrashed' = uncrashed /\ late' = late
  BY DEF Trace!AppendSummary
<1>2. TraceTypes /\ SumsKept /\ FilesTrue /\ BillTrue
  BY DEF TraceInv
<1>3. x \in Summary /\ index \in File(Summary) /\ reported \in [Spans -> Nat] /\ finals \in [Traces -> Nat]
  BY <1>1, <1>2 DEF TraceTypes
<1>4. y \in Poster /\ y.pc = "newline"
  BY DEF Poster, Trace!Still
<1>5. t \in Traces /\ c \in Nat
  BY <1>3, CostTyped DEF Summary
<1> HIDE DEF x, y, c
<1>6. /\ poster' \in [Tasks -> Poster] /\ poster'[k] = y
      /\ \A j \in Tasks : j # k => poster'[j] = poster[j]
      /\ \A j \in Tasks : poster'[j].pc = "text" => poster'[j].text \in Summary
  BY <1>1, <1>2, <1>4, Posters
<1>7. /\ Cardinality(Summing(poster, t)) = Cardinality(Summing(poster', t)) + 1
      /\ \A u : u # t => Summing(poster', u) = Summing(poster, u)
  <2>1. poster'[k].pc # "text" /\ poster[k].pc = "text" /\ poster[k].text[1] = t
    BY <1>1, <1>4, <1>6 DEF x
  <2>2. \A j \in Tasks : j # k => poster[j] = poster'[j]
    BY <1>6
  <2> HIDE DEF t
  <2>3. /\ Cardinality(Summing(poster, t)) = Cardinality(Summing(poster', t)) + 1
        /\ \A u : u # t => Summing(poster, u) = Summing(poster', u)
    BY <2>1, <2>2, SummingMore
  <2>4. QED
    BY <2>3
<1> HIDE DEF t
<1>8. index' \in File(Summary) /\ (index.ended => index'.lines = Append(index.lines, <<x>>))
  BY <1>1, <1>3, AddTextFacts
<1>9. TraceTypes'
  <2>1. joined' \in BOOLEAN
    BY <1>1, <1>2 DEF TraceTypes
  <2>2. QED
    BY <1>1, <1>2, <1>6, <1>8, <2>1 DEF TraceTypes
<1>10. ASSUME NEW u \in Traces PROVE Cardinality(Summing(poster', u)) <= finals'[u]
  <2>1. Cardinality(Summing(poster, u)) <= finals[u] /\ finals[u] \in Nat
    BY <1>2, <1>3 DEF SumsKept
  <2>2. CASE u = t
    BY <1>1, <1>7, <2>1, <2>2, SummingTyped
  <2>3. CASE u # t
    BY <1>1, <1>7, <2>1, <2>3
  <2>4. QED
    BY <2>2, <2>3
<1>11. SumsKept'
  BY <1>10 DEF SumsKept
<1>12. ASSUME ~joined'
       PROVE  /\ index'.lines = Append(index.lines, <<x>>) /\ index.lines \in Seq(Seq(Summary))
              /\ Unjoined(index.lines) /\ Unjoined(index'.lines)
  <2>1. index'.lines = Append(index.lines, <<x>>)
    BY <1>1, <1>8, <1>12
  <2>2. index.lines \in Seq(Seq(Summary)) /\ Unjoined(index.lines)
    BY <1>1, <1>2, <1>3, <1>12 DEF FilesTrue, File
  <2>3. Unjoined(Append(index.lines, <<x>>))
    BY <1>3, <2>2, Appended
  <2>4. QED
    BY <2>1, <2>2, <2>3
<1>13. FilesTrue'
  BY <1>1, <1>2, <1>12 DEF FilesTrue
<1>14. ASSUME ~joined', late' = {}
       PROVE  (Expected /\ Billed)'
  <2> DEFINE w == Written(index.lines)
             v == Written(index'.lines)
             f == Shares(w, reported)
             g == Shares(v, reported)
  <2>1. ~joined /\ Expected /\ Billed
    BY <1>1, <1>2, <1>14 DEF BillTrue
  <2>2. /\ index'.lines = Append(index.lines, <<x>>) /\ index.lines \in Seq(Seq(Summary))
        /\ Unjoined(index.lines)
    BY <1>12, <1>14
  <2>3. v = [w EXCEPT ![t] = @ + 1]
    BY <1>3, <2>2, WrittenNew DEF t
  <2>4. /\ w \in [Traces -> Nat] /\ Trace!Total(w) \in Nat
        /\ f \in [Traces -> Nat] /\ Trace!Total(f) \in Nat
    BY <1>3, <2>2, WrittenTyped
  <2>5. index'.lines \in Seq(Seq(Summary))
    BY <1>8 DEF File
  <2>6. /\ v \in [Traces -> Nat] /\ Trace!Total(v) \in Nat
        /\ g \in [Traces -> Nat] /\ Trace!Total(g) \in Nat
    BY <1>3, <2>5, WrittenTyped
  <2>7. x[2] = c
    BY <1>1, <2>1 DEF Expected, x, t, c
  <2>8. v[t] = w[t] + 1 /\ \A u \in Traces : u # t => w[u] = v[u]
    <3> HIDE DEF v, w
    <3>1. QED
      BY <1>5, <2>3, <2>4
  <2>9. f[t] = w[t] * c /\ g[t] = v[t] * c /\ \A u \in Traces : u # t => f[u] = g[u]
    <3> HIDE DEF v, w
    <3>1. QED
      BY <1>5, <2>8 DEF Shares, c
  <2>10. ChargeOf(index) \in Nat /\ ChargeOf(index') = ChargeOf(index) + 2 * (c \div 2)
    BY <1>3, <1>8, <2>2, <2>7, ChargeNew
  <2>11. /\ Trace!Total(f) - Trace!Total(w) <= ChargeOf(index)
         /\ ChargeOf(index) <= Trace!Total(f)
    BY <2>1 DEF Billed
  <2>12. Billed' <=> /\ Trace!Total(g) - Trace!Total(v) <= ChargeOf(index')
                     /\ ChargeOf(index') <= Trace!Total(g)
    BY <1>1 DEF Billed
  <2>13. ASSUME NEW u \in Traces PROVE finals'[u] = v[u] + Cardinality(Summing(poster', u))
    <3>1. finals[u] = w[u] + Cardinality(Summing(poster, u))
      BY <2>1 DEF Expected
    <3> HIDE DEF v, w
    <3>2. CASE u = t
      BY <1>1, <1>7, <2>4, <2>8, <3>1, <3>2, SummingTyped
    <3>3. CASE u # t
      BY <1>1, <1>7, <2>8, <3>1, <3>3
    <3>4. QED
      BY <3>2, <3>3
  <2>14. ASSUME NEW j \in Tasks, poster'[j].pc = "text"
         PROVE  poster'[j].text[2] = Cost(reported, poster'[j].text[1])
    <3>1. j # k /\ poster'[j] = poster[j]
      BY <1>4, <1>6, <2>14
    <3>2. QED
      BY <2>1, <2>14, <3>1 DEF Expected
  <2>15. Expected'
    BY <1>1, <2>13, <2>14 DEF Expected
  <2> HIDE DEF f, g, v, w
  <2>16. Trace!Total(v) = Trace!Total(w) + 1
    <3>1. Trace!Total(v) + w[t] = Trace!Total(w) + v[t]
      BY <1>5, <2>4, <2>6, <2>8, TraceConstants, TotalChange
    <3>2. QED
      BY <1>5, <2>4, <2>6, <2>8, <3>1
  <2>17. Trace!Total(g) = Trace!Total(f) + c
    <3>1. Trace!Total(g) + f[t] = Trace!Total(f) + g[t]
      BY <1>5, <2>4, <2>6, <2>9, TraceConstants, TotalChange
    <3>2. w[t] \in Nat /\ g[t] = (w[t] + 1) * c
      BY <1>5, <2>4, <2>8, <2>9
    <3>3. (w[t] + 1) * c = w[t] * c + c
      BY <1>5, <3>2
    <3>4. f[t] \in Nat /\ g[t] = f[t] + c
      BY <1>5, <2>4, <2>9, <3>2, <3>3
    <3>5. QED
      BY <1>5, <2>4, <2>6, <3>1, <3>4
  <2>18. Billed'
    <3> DEFINE h == 2 * (c \div 2)
    <3>1. h \in Nat /\ c - 1 <= h /\ h <= c
      BY <1>5, Halved
    <3>2. ChargeOf(index') = ChargeOf(index) + h
      BY <2>10
    <3> HIDE DEF h
    <3>3. /\ Trace!Total(g) - Trace!Total(v) <= ChargeOf(index')
          /\ ChargeOf(index') <= Trace!Total(g)
      BY <1>5, <2>4, <2>6, <2>10, <2>11, <2>16, <2>17, <3>1, <3>2
    <3>4. QED
      BY <2>12, <3>3
  <2>19. QED
    BY <2>15, <2>18
<1>15. BillTrue'
  BY <1>14 DEF BillTrue
<1>16. QED
  BY <1>9, <1>11, <1>13, <1>15 DEF TraceInv

(* A newline changes no text, and a crash loses the texts not yet written. *)
LEMMA TraceNewlineKeeps ==
  ASSUME TraceInv, NEW k \in Tasks, Trace!Newline(k)
  PROVE  TraceInv'
<1> DEFINE files == poster[k].trace
           y == Trace!Still
<1>1. /\ poster[k].pc = "newline" /\ poster' = [poster EXCEPT ![k] = y]
      /\ trace' = [t \in Traces |-> IF t \in files THEN [trace[t] EXCEPT !.ended = TRUE] ELSE trace[t]]
      /\ index' = IF files = {} THEN [index EXCEPT !.ended = TRUE] ELSE index
      /\ reported' = reported /\ finals' = finals /\ ops' = ops /\ uncrashed' = uncrashed
      /\ joined' = joined /\ late' = late
  BY DEF Trace!Newline
<1>2. TraceTypes /\ SumsKept /\ FilesTrue /\ BillTrue
  BY DEF TraceInv
<1>3. y \in Poster /\ y.pc = "idle"
  BY DEF Poster, Trace!Still
<1> HIDE DEF y, files
<1>4. /\ poster' \in [Tasks -> Poster] /\ poster'[k] = y
      /\ \A j \in Tasks : j # k => poster'[j] = poster[j]
      /\ \A j \in Tasks : poster'[j].pc = "text" => poster'[j].text \in Summary
  BY <1>1, <1>2, <1>3, Posters
<1>5. \A u : Summing(poster', u) = Summing(poster, u)
  <2>1. poster[k].pc # "text" /\ poster'[k].pc # "text"
    BY <1>1, <1>3, <1>4
  <2>2. QED
    BY <1>4, <2>1, SummingSame
<1>6. ASSUME NEW R, NEW f \in File(R)
      PROVE  [f EXCEPT !.ended = TRUE] \in File(R) /\ [f EXCEPT !.ended = TRUE].lines = f.lines
  BY DEF File
<1>7. trace \in [Traces -> File(Line)] /\ index \in File(Summary)
  BY <1>2 DEF TraceTypes
<1>8. ASSUME NEW t \in Traces PROVE trace'[t] \in File(Line) /\ trace'[t].lines = trace[t].lines
  BY <1>1, <1>6, <1>7
<1>9. index' \in File(Summary) /\ index'.lines = index.lines
  BY <1>1, <1>6, <1>7
<1>10. TraceTypes'
  <2>1. trace' \in [Traces -> File(Line)]
    BY <1>1, <1>8
  <2>2. QED
    BY <1>1, <1>2, <1>4, <1>9, <2>1 DEF TraceTypes
<1>11. SumsKept'
  BY <1>1, <1>2, <1>5 DEF SumsKept
<1>12. FilesTrue'
  BY <1>1, <1>2, <1>8, <1>9 DEF FilesTrue
<1>13. ChargeOf(index') = ChargeOf(index)
  <2>1. Trace!Alone(index') = Trace!Alone(index)
    BY <1>9 DEF Trace!Alone
  <2>2. QED
    BY <1>9, <2>1 DEF ChargeOf
<1>14. ASSUME ~joined', late' = {}
       PROVE  (Expected /\ Billed)'
  <2>1. Expected /\ Billed
    BY <1>1, <1>2, <1>14 DEF BillTrue
  <2>2. ASSUME NEW j \in Tasks, poster'[j].pc = "text"
        PROVE  poster'[j].text[2] = Cost(reported, poster'[j].text[1])
    <3>1. j # k /\ poster'[j] = poster[j]
      BY <1>3, <1>4, <2>2
    <3>2. QED
      BY <2>1, <2>2, <3>1 DEF Expected
  <2>3. Expected'
    BY <1>1, <1>5, <1>9, <2>1, <2>2 DEF Expected
  <2>4. Billed'
    BY <1>1, <1>9, <1>13, <2>1 DEF Billed
  <2>5. QED
    BY <2>3, <2>4
<1>15. BillTrue'
  BY <1>14 DEF BillTrue
<1>16. QED
  BY <1>10, <1>11, <1>12, <1>15 DEF TraceInv

(* A crash: the summaries that waited are not made.                        *)
LEMMA TraceCrashKeeps == ASSUME TraceInv, Trace!TCrash PROVE TraceInv'
<1> DEFINE y == Trace!Still
<1>1. /\ uncrashed > 0 /\ uncrashed' = uncrashed - 1
      /\ finals' = [t \in Traces |-> finals[t] - Trace!Cardinality(Summing(poster, t))]
      /\ poster' = [j \in Tasks |-> y]
      /\ trace' = trace /\ index' = index /\ reported' = reported /\ ops' = ops
      /\ joined' = joined /\ late' = late
  BY DEF Trace!TCrash, Summing
<1>2. TraceTypes /\ SumsKept /\ FilesTrue /\ BillTrue
  BY DEF TraceInv
<1>3. y \in Poster /\ y.pc = "idle"
  BY DEF Poster, Trace!Still
<1> HIDE DEF y
<1>4. poster' \in [Tasks -> Poster] /\ \A j \in Tasks : poster'[j].pc # "text"
  BY <1>1, <1>3
<1>5. \A S : Trace!Cardinality(S) = Cardinality(S)
  BY DEF Trace!Cardinality, Cardinality
<1>6. finals' = [t \in Traces |-> finals[t] - Cardinality(Summing(poster, t))]
  BY <1>1, <1>5
<1>7. finals \in [Traces -> Nat]
  BY <1>2 DEF TraceTypes
<1>8. ASSUME NEW t \in Traces PROVE finals'[t] \in Nat /\ finals'[t] = finals[t] - Cardinality(Summing(poster, t))
  <2>1. Cardinality(Summing(poster, t)) <= finals[t]
    BY <1>2 DEF SumsKept
  <2>2. QED
    BY <1>6, <1>7, <2>1, SummingTyped
<1>9. ASSUME NEW t PROVE Cardinality(Summing(poster', t)) = 0
  <2>1. Summing(poster', t) = {}
    BY <1>4 DEF Summing
  <2>2. QED
    BY <2>1, FS_EmptySet
<1>10. TraceTypes'
  <2>1. finals' \in [Traces -> Nat]
    BY <1>6, <1>8
  <2>2. uncrashed' \in 0..MaxCrashes
    BY <1>1, <1>2, TraceConstants DEF TraceTypes
  <2>3. QED
    BY <1>1, <1>2, <1>4, <2>1, <2>2 DEF TraceTypes
<1>11. SumsKept'
  BY <1>8, <1>9 DEF SumsKept
<1>12. FilesTrue'
  BY <1>1, <1>2 DEF FilesTrue
<1>13. ASSUME ~joined', late' = {}
       PROVE  (Expected /\ Billed)'
  <2> DEFINE w == Written(index.lines)
  <2>1. Expected /\ Billed
    BY <1>1, <1>2, <1>13 DEF BillTrue
  <2>2. w \in [Traces -> Nat]
    BY <1>2, WrittenTyped DEF TraceTypes, File
  <2>3. ASSUME NEW t \in Traces PROVE finals'[t] = w[t] + Cardinality(Summing(poster', t))
    <3>1. finals[t] = w[t] + Cardinality(Summing(poster, t))
      BY <2>1 DEF Expected
    <3> HIDE DEF w
    <3>2. QED
      BY <1>8, <1>9, <2>2, <3>1, SummingTyped
  <2>4. Expected'
    BY <1>1, <1>4, <2>3 DEF Expected
  <2>5. Billed'
    BY <1>1, <2>1 DEF Billed
  <2>6. QED
    BY <2>4, <2>5
<1>14. BillTrue'
  BY <1>13 DEF BillTrue
<1>15. QED
  BY <1>10, <1>11, <1>12, <1>14 DEF TraceInv

(* The empty files, and every step.                                        *)
LEMMA TraceInit == ASSUME Trace!TInit PROVE TraceInv
<1> DEFINE none == Trace!NewFile
           w == Written(index.lines)
<1>1. /\ trace = [t \in Traces |-> none] /\ index = none
      /\ poster = [k \in Tasks |-> Trace!Still]
      /\ reported = [s \in Spans |-> 0] /\ finals = [t \in Traces |-> 0]
      /\ ops = 0 /\ uncrashed = MaxCrashes /\ joined = FALSE /\ late = {}
  BY DEF Trace!TInit
<1>2. none.lines = <<>> /\ none \in File(Line) /\ none \in File(Summary)
  BY DEF Trace!NewFile, File
<1>3. Trace!Still \in Poster /\ Trace!Still.pc = "idle"
  BY DEF Poster, Trace!Still
<1> HIDE DEF none
<1>4. TraceTypes
  <2>1. ops \in 0..MaxOps /\ uncrashed \in 0..MaxCrashes
    BY <1>1, TraceConstants
  <2>2. trace \in [Traces -> File(Line)] /\ index \in File(Summary)
    BY <1>1, <1>2
  <2>3. poster \in [Tasks -> Poster] /\ \A k \in Tasks : poster[k].pc # "text"
    BY <1>1, <1>3
  <2>4. reported \in [Spans -> Nat] /\ finals \in [Traces -> Nat] /\ joined \in BOOLEAN /\ late \in SUBSET Traces
    BY <1>1
  <2>5. QED
    BY <2>1, <2>2, <2>3, <2>4 DEF TraceTypes
<1>5. ASSUME NEW t PROVE Cardinality(Summing(poster, t)) = 0
  <2>1. Summing(poster, t) = {}
    BY <1>1, <1>3 DEF Summing
  <2>2. QED
    BY <2>1, FS_EmptySet
<1>6. SumsKept
  BY <1>1, <1>5 DEF SumsKept
<1>7. FilesTrue
  <2>1. DOMAIN index.lines = {} /\ \A t \in Traces : DOMAIN trace[t].lines = {}
    BY <1>1, <1>2
  <2>2. \A t \in Traces : \A s \in SpansOf(t) : reported[s] = 0
    BY <1>1 DEF SpansOf
  <2>3. QED
    BY <2>1, <2>2 DEF FilesTrue, LinesTrue, Unjoined
<1>8. w = [t \in Traces |-> 0]
  <2>1. \A t : Summaries(index.lines, t) = {}
    BY <1>1, <1>2 DEF Summaries
  <2>2. \A t : Cardinality(Summaries(index.lines, t)) = 0
    BY <2>1, FS_EmptySet
  <2>3. QED
    BY <2>2 DEF Written
<1>9. Expected
  BY <1>1, <1>3, <1>5, <1>8 DEF Expected
<1>10. Shares(w, reported) = w
  <2>1. \A t \in Traces : w[t] * Cost(reported, t) = 0
    <3>1. reported \in [Spans -> Nat]
      BY <1>1
    <3>2. \A t : Cost(reported, t) \in Nat
      BY <3>1, CostTyped
    <3> HIDE DEF w
    <3>3. QED
      BY <1>8, <3>2
  <2> HIDE DEF w
  <2>2. QED
    BY <1>8, <2>1 DEF Shares
<1>11. Trace!Total(w) = 0 /\ ChargeOf(index) = 0
  <2>1. Pairs(w) = {}
    BY <1>8 DEF Pairs
  <2>2. Trace!Alone(index) = {}
    BY <1>1, <1>2 DEF Trace!Alone
  <2>3. Pairs([i \in Trace!Alone(index) |-> 2 * (index.lines[i][1][2] \div 2)]) = {}
    BY <2>2 DEF Pairs
  <2> HIDE DEF w
  <2>4. QED
    BY <2>1, <2>3, TotalIs, FS_EmptySet DEF ChargeOf
<1>12. Billed
  BY <1>10, <1>11 DEF Billed
<1>13. QED
  BY <1>4, <1>6, <1>7, <1>9, <1>12 DEF TraceInv, BillTrue

(* Every step of the traces.                                               *)
LEMMA TraceNext == ASSUME TraceInv, [Trace!TNext]_(Trace!tvars) PROVE TraceInv'
<1>1. ASSUME NEW k \in Tasks, NEW s \in Spans, NEW n \in Tokens, Trace!Post(k, s, n) PROVE TraceInv'
  BY <1>1, TracePostKeeps
<1>2. ASSUME NEW k \in Tasks, NEW t \in Traces, Trace!Finalize(k, t) PROVE TraceInv'
  BY <1>2, TraceFinalizeKeeps
<1>3. ASSUME NEW k \in Tasks, Trace!AppendSummary(k) PROVE TraceInv'
  BY <1>3, TraceSummaryKeeps
<1>4. ASSUME NEW k \in Tasks, Trace!Newline(k) PROVE TraceInv'
  BY <1>4, TraceNewlineKeeps
<1>5. ASSUME Trace!TCrash PROVE TraceInv'
  BY <1>5, TraceCrashKeeps
<1>6. ASSUME UNCHANGED Trace!tvars PROVE TraceInv'
  BY <1>6 DEF Trace!tvars, TraceInv, TraceTypes, SumsKept, FilesTrue, BillTrue, Expected, Billed
<1>7. QED
  BY <1>1, <1>2, <1>3, <1>4, <1>5, <1>6 DEF Trace!TNext

(* A step of a node whose part is the traces is one of TraceLog.           *)
LEMMA TraceSteps ==
  ASSUME [Next]_vars, part = "traces"
  PROVE  part' = part /\ [Trace!TNext]_(Trace!tvars)
<1>1. CASE Next
  BY <1>1 DEF Next
<1>2. CASE UNCHANGED vars
  BY <1>2 DEF vars, traceVars, Trace!tvars
<1>3. QED
  BY <1>1, <1>2

(* When no summary waits, every trace was written as often as summed up.   *)
LEMMA TraceCharges == ASSUME TraceInv PROVE Trace!TokensBilled
<1> SUFFICES ASSUME ~joined, late = {}, \A k \in Tasks : poster[k].pc # "text"
             PROVE  LET total(t) == Trace!Total([s \in {s \in Spans : TraceOf[s] = t} |-> reported[s]])
                        due == Trace!Total([t \in Traces |-> finals[t] * total(t)])
                        times == Trace!Total(finals)
                    IN  due - times <= Trace!Charged /\ Trace!Charged <= due
  BY DEF Trace!TokensBilled
<1> DEFINE w == Written(index.lines)
<1>1. Expected /\ Billed /\ finals \in [Traces -> Nat] /\ index.lines \in Seq(Seq(Summary))
      /\ reported \in [Spans -> Nat]
  BY DEF TraceInv, BillTrue, TraceTypes, File
<1>2. w \in [Traces -> Nat]
  BY <1>1, WrittenTyped
<1>3. ASSUME NEW t \in Traces PROVE finals[t] = w[t]
  <2>1. Summing(poster, t) = {}
    BY DEF Summing
  <2>2. Cardinality(Summing(poster, t)) = 0
    BY <2>1, FS_EmptySet
  <2>3. finals[t] = w[t] + Cardinality(Summing(poster, t))
    BY <1>1 DEF Expected
  <2> HIDE DEF w
  <2>4. QED
    BY <1>2, <2>2, <2>3
<1>4. finals = w
  <2> HIDE DEF w
  <2>1. QED
    BY <1>1, <1>2, <1>3
<1>5. Trace!Charged = ChargeOf(index)
  BY DEF Trace!Charged, ChargeOf
<1>6. Trace!Total(Shares(w, reported)) - Trace!Total(w) <= ChargeOf(index)
      /\ ChargeOf(index) <= Trace!Total(Shares(w, reported))
  BY <1>1 DEF Billed
<1>7. Shares(w, reported)
      = [t \in Traces |-> finals[t] * Trace!Total([s \in {s \in Spans : TraceOf[s] = t} |-> reported[s]])]
  BY <1>4 DEF Shares, Cost, SpansOf
<1> HIDE DEF w
<1>8. QED
  BY <1>4, <1>5, <1>6, <1>7

(* span, finalize and the stats of tenants: a tenant is charged for each   *)
(* trace, as often as it was finalised, the tokens that its spans last     *)
(* reported, less at most one, whatever was posted and summed up between   *)
(* the reads and the writes and whenever the node was killed, as long as   *)
(* no two appends were joined and no span came after the summary.          *)
THEOREM Charges == Spec => []TokensBilled
<1>1. Init => TraceKept
  BY TraceInit DEF Init, TraceKept
<1>2. TraceKept /\ [Next]_vars => TraceKept'
  <2>1. SUFFICES ASSUME TraceKept, [Next]_vars, part' = "traces"
                 PROVE  TraceInv'
    BY DEF TraceKept
  <2>2. part' = part
    BY <2>1, Steps
  <2>3. TraceInv /\ [Trace!TNext]_(Trace!tvars)
    BY <2>1, <2>2, TraceSteps DEF TraceKept
  <2>4. QED
    BY <2>3, TraceNext
<1>3. TraceKept => TokensBilled
  BY TraceCharges DEF TraceKept, TokensBilled
<1>4. QED
  BY <1>1, <1>2, <1>3, PTL DEF Spec

=============================================================================
