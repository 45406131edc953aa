-------------------------- MODULE MonitoringProofs --------------------------
(***************************************************************************)
(* Proofs about Monitoring, for every set of agents, rules and editors and *)
(* every window and cooldown: types, which crashes are recorded, when a    *)
(* rule may fire again, and what the rules file holds.                     *)
(***************************************************************************)
EXTENDS Monitoring, FiniteSetTheorems, TLAPS

-----------------------------------------------------------------------------
(* A record keeps no more crashes than one of each of the agent's records  *)
(* for each round of the window.                                           *)
Most == (Window + 1) * MaxRecords

FewCrashes ==
  \A a \in Records : Cardinality(health[a].recent) + health[a].stale <= Most

ListTypes ==
  /\ listed \in [Agents -> Seq({"stopped", "running"})]
  /\ \A a \in Agents : Len(listed[a]) <= MaxRecords
  /\ last \in [Agents -> 0..MaxRecords]
  /\ op \in [Agents -> {"none", "starting", "stopping"}]
  /\ {present, died, handled} \subseteq SUBSET Agents

LoopTypes ==
  /\ pc \in {"sleep", "scan", "check"}
  /\ {seen, gone, todo} \subseteq SUBSET Places

HealthTypes ==
  /\ ListTypes /\ LoopTypes
  /\ health \in [Agents -> Record \cup {NoRecord}]
  /\ FewCrashes

(* An agent whose last record is running has its process unless it lost    *)
(* it; one whose last record the round has read, too, unless a request     *)
(* touched the agent since.                                                *)
LostIsKnown ==
  /\ \A a \in Agents :
       /\ last[a] \in Running(a) /\ op[a] = "none" => a \in present \cup died
       /\ last[a] \in Running(a) /\ op[a] = "stopping" /\ last[a] # 1 => a \in present \cup died
  /\ pc = "scan" => \A a \in Agents : <<a, last[a]>> \in seen =>
       \/ a \in present /\ <<a, last[a]>> \notin gone
       \/ a \in died \cup handled
  /\ pc = "check" => \A a \in Agents : <<a, last[a]>> \in gone => a \in died \cup handled

HealthInv == HealthTypes /\ LostIsKnown

-----------------------------------------------------------------------------
IsLoop(l) ==
  /\ l.pc \in {"sleep", "evaluate", "write"}
  /\ Alerts!IsList(l.list) /\ l.todo \subseteq DOMAIN l.list
  /\ l.pc = "sleep" => DOMAIN l.list = {}

IsEdit(d) ==
  /\ d = [pc |-> d.pc, rule |-> d.rule, list |-> d.list]
  /\ d.pc \in {"idle", "write"} /\ Alerts!IsList(d.list) /\ d.rule \in Rules \cup {NoRule}
  /\ d.pc = "idle" => DOMAIN d.list = {}
  /\ d.pc = "write" => d.rule \in Rules

AlertTypes ==
  /\ Alerts!IsList(rules) /\ IsLoop(aloop)
  /\ edit = [e \in Editors |-> edit[e]] /\ \A e \in Editors : IsEdit(edit[e])
  /\ since \in [Rules -> 0..Cooldown]
  /\ believed \in [Rules -> {"in", "out", "unsure"}]
  /\ {forgotten, early} \subseteq SUBSET Rules

(* A list that says when rules fired does not make them older than they    *)
(* are: the loop's copy, and where the loop has not fired a rule since it  *)
(* made this copy, the file and the copies of the requests.                *)
NotOlder(r, list) == r \in DOMAIN list => list[r] <= since[r]

MarksKept ==
  \A r \in Rules \ forgotten :
    /\ NotOlder(r, aloop.list)
    /\ r \notin Alerts!Unsaved =>
         NotOlder(r, rules) /\ \A e \in Editors : NotOlder(r, edit[e].list)

(* A list that will be written holds what is believed of every rule; that  *)
(* of a request, of every rule but its own.                                *)
AsBelieved(r, list) ==
  /\ believed[r] = "in" => r \in DOMAIN list
  /\ believed[r] = "out" => r \notin DOMAIN list

ListsBelieved ==
  \A r \in Rules :
    /\ AsBelieved(r, rules)
    /\ aloop.pc # "sleep" => AsBelieved(r, aloop.list)
    /\ \A e \in Editors : edit[e].pc = "write" /\ edit[e].rule # r => AsBelieved(r, edit[e].list)

AlertInv == AlertTypes /\ MarksKept /\ ListsBelieved /\ CooldownKept

-----------------------------------------------------------------------------
(* A record in which no more crashes are kept than there can be.           *)
FewIn(rec) == Cardinality(rec.recent) + rec.stale <= Most

(* Crashes in the window can be counted.                                   *)
LEMMA RecentFacts ==
  /\ Window \in Nat /\ Window > 0 /\ MaxRecords \in Nat /\ MaxRecords > 0 /\ Most \in Nat
  /\ IsFiniteSet(Ages) /\ Cardinality(Ages) = Most
  /\ \A rec \in Record :
       /\ IsFiniteSet(rec.recent) /\ Cardinality(rec.recent) \in Nat
       /\ rec.recent \subseteq Ages /\ rec.stale \in 0..Most
<1>1. Window \in Nat /\ Window > 0 /\ MaxRecords \in Nat /\ MaxRecords > 0 /\ Most \in Nat
  BY HealthAssumption DEF Most
<1>2. /\ IsFiniteSet(0..Window) /\ Cardinality(0..Window) = Window + 1
      /\ IsFiniteSet(1..MaxRecords) /\ Cardinality(1..MaxRecords) = MaxRecords
  BY <1>1, FS_Interval
<1>3. IsFiniteSet(Ages) /\ Cardinality(Ages) = Most
  <2>1. /\ IsFiniteSet((0..Window) \X (1..MaxRecords))
        /\ Cardinality((0..Window) \X (1..MaxRecords))
             = Cardinality(0..Window) * Cardinality(1..MaxRecords)
    BY <1>2, FS_Product
  <2>2. QED
    BY <1>2, <2>1 DEF Ages, Most
<1>4. ASSUME NEW rec \in Record
      PROVE  /\ IsFiniteSet(rec.recent) /\ Cardinality(rec.recent) \in Nat
             /\ rec.recent \subseteq Ages /\ rec.stale \in 0..Most
  <2>1. rec.recent \subseteq Ages /\ rec.stale \in 0..Most
    BY DEF Record, Most
  <2>2. QED
    BY <1>3, <2>1, FS_Subset, FS_CardinalityType
<1>5. QED
  BY <1>1, <1>3, <1>4

(* The score stays between 10 and 100 whatever was counted, and nothing    *)
(* else but the status changes with it.                                    *)
LEMMA RecomputedFacts ==
  ASSUME NEW rec \in Record
  PROVE  /\ Recomputed(rec) \in Record
         /\ Recomputed(rec).crashes = rec.crashes
         /\ Recomputed(rec).recent = rec.recent /\ Recomputed(rec).stale = rec.stale
<1> DEFINE window == 15 * (Cardinality(rec.recent) + rec.stale)
           score == 100 - (IF window < 60 THEN window ELSE 60) - rec.penalty
<1>1. rec.penalty \in 0..30
  <2>1. rec.penalty \in Penalties \cup {0}
    BY DEF Record
  <2>2. Penalties \subseteq 0..30
    BY HealthAssumption
  <2>3. CASE rec.penalty = 0
    BY <2>3
  <2>4. CASE rec.penalty \in Penalties
    BY <2>2, <2>4, Zenon
  <2>5. QED
    BY <2>1, <2>3, <2>4
<1>2. window \in Nat
  <2>1. PICK c \in Nat, s \in Nat : c = Cardinality(rec.recent) /\ s = rec.stale
    BY RecentFacts
  <2>2. QED
    BY <2>1
<1>3. score \in 0..100
  <2> HIDE DEF window
  <2>1. \A w \in Nat, p \in 0..30 : 100 - (IF w < 60 THEN w ELSE 60) - p \in 0..100
    OBVIOUS
  <2>2. QED
    BY <1>1, <1>2, <2>1
<1>4. FromScore(score) \in Status
  <2> HIDE DEF score
  <2>1. QED
    BY DEF FromScore, Status
<1>5. PICK p \in 0..100, q \in Status : p = score /\ q = FromScore(score)
  BY <1>3, <1>4
<1>6. Recomputed(rec) = [rec EXCEPT !.score = p, !.status = q]
  BY <1>5, Zenon DEF Recomputed
<1> HIDE DEF score, window
<1>7. QED
  BY <1>6 DEF Record

(* A sample leaves the count alone.                                        *)
LEMMA SampledFacts ==
  ASSUME NEW rec \in Record, FewIn(rec), NEW penalty \in Penalties
  PROVE  /\ Sampled(rec, penalty) \in Record /\ FewIn(Sampled(rec, penalty))
         /\ Sampled(rec, penalty).crashes = rec.crashes
<1>1. PICK mid : mid = [rec EXCEPT !.penalty = penalty]
  OBVIOUS
<1>2. /\ mid \in Record /\ mid.crashes = rec.crashes
      /\ mid.recent = rec.recent /\ mid.stale = rec.stale
  BY <1>1 DEF Record
<1>3. Sampled(rec, penalty) = Recomputed(mid)
  BY <1>1 DEF Sampled
<1>4. QED
  BY <1>2, <1>3, RecomputedFacts DEF FewIn

(* A crash forgets the stale ones, so that the window is all there is.     *)
LEMMA CrashedFacts ==
  ASSUME NEW rec \in Record, NEW i \in 1..MaxRecords
  PROVE  Crashed(rec, i) \in Record /\ FewIn(Crashed(rec, i))
<1>1. PICK n : n = IF rec.crashes < MaxCount THEN rec.crashes + 1 ELSE rec.crashes
  OBVIOUS
<1>2. n \in 0..MaxCount
  BY <1>1, HealthAssumption DEF Record
<1>3. PICK ages : ages = rec.recent \cup {<<0, i>>}
  OBVIOUS
<1>4. ages \subseteq Ages
  <2>1. 0 \in 0..Window
    BY RecentFacts
  <2>2. <<0, i>> \in Ages
    BY <2>1 DEF Ages
  <2>3. QED
    BY <1>3, <2>2, RecentFacts
<1>5. PICK mid : mid = [rec EXCEPT !.crashes = n, !.recent = ages, !.stale = 0]
  OBVIOUS
<1>6. Crashed(rec, i) = Recomputed(mid)
  BY <1>1, <1>3, <1>5, Zenon DEF Crashed
<1>7. mid \in Record /\ mid.recent = ages /\ mid.stale = 0
  <2>1. 0 \in 0..(Window + 1) * MaxRecords
    BY RecentFacts DEF Most
  <2>2. QED
    BY <1>2, <1>4, <1>5, <2>1 DEF Record
<1>8. Cardinality(ages) + 0 <= Most
  <2>1. Cardinality(ages) <= Most /\ Cardinality(ages) \in Nat
    BY <1>4, RecentFacts, FS_Subset, FS_CardinalityType
  <2>2. QED
    BY <2>1
<1>9. QED
  BY <1>6, <1>7, <1>8, RecomputedFacts DEF FewIn

(* Crashes age together: those that leave the window are kept as stale.    *)
LEMMA OlderFacts ==
  ASSUME NEW rec \in Record, FewIn(rec)
  PROVE  /\ Older(rec) \in Record /\ FewIn(Older(rec)) /\ Older(rec).crashes = rec.crashes
<1>1. PICK kept : kept = rec.recent \ Leaving(rec)
  OBVIOUS
<1>2. PICK ages : ages = {<<crash[1] + 1, crash[2]>> : crash \in kept}
  OBVIOUS
<1>3. PICK out : out = Cardinality(Leaving(rec))
  OBVIOUS
<1>4. Leaving(rec) \subseteq rec.recent /\ rec.recent \subseteq Ages
  BY RecentFacts DEF Leaving
<1>5. ages \subseteq Ages
  <2>1. \A crash \in kept : crash[1] \in 0..Window /\ crash[1] # Window /\ crash[2] \in 1..MaxRecords
    BY <1>1, <1>4 DEF Leaving, Ages
  <2>2. \A k \in 0..Window : k # Window => k + 1 \in 0..Window
    BY RecentFacts
  <2>3. QED
    BY <1>2, <2>1, <2>2 DEF Ages
<1>6. /\ IsFiniteSet(kept) /\ Cardinality(kept) = Cardinality(rec.recent) - out
      /\ out \in Nat /\ Cardinality(kept) \in Nat
  <2>1. IsFiniteSet(Leaving(rec)) /\ out \in Nat
    BY <1>3, <1>4, RecentFacts, FS_Subset, FS_CardinalityType
  <2>2. rec.recent \cap Leaving(rec) = Leaving(rec)
    BY <1>4
  <2>3. IsFiniteSet(kept) /\ Cardinality(kept) = Cardinality(rec.recent) - out
    BY <1>1, <1>3, <2>1, <2>2, RecentFacts, FS_Difference
  <2>4. QED
    BY <2>1, <2>3, FS_CardinalityType
<1>7. IsFiniteSet(ages) /\ Cardinality(ages) <= Cardinality(kept) /\ Cardinality(ages) \in Nat
  <2> DEFINE f == [crash \in kept |-> <<crash[1] + 1, crash[2]>>]
  <2>1. f \in Surjection(kept, ages)
    BY <1>2 DEF Surjection
  <2>2. QED
    BY <1>6, <2>1, FS_Surjection, FS_CardinalityType
<1>8. PICK n : n = rec.stale + out
  OBVIOUS
<1>9. Older(rec) = [rec EXCEPT !.recent = ages, !.stale = n]
  BY <1>1, <1>2, <1>3, <1>8, Zenon DEF Older
<1>10. n \in 0..Most /\ Cardinality(ages) + n <= Most
  <2>1. PICK s \in Nat, c \in Nat, k \in Nat, g \in Nat, m \in Nat :
          /\ s = rec.stale /\ c = Cardinality(rec.recent) /\ k = Cardinality(kept)
          /\ g = Cardinality(ages) /\ m = Most
    BY <1>6, <1>7, RecentFacts
  <2>2. c + s <= m
    BY <2>1 DEF FewIn
  <2>3. QED
    BY <1>6, <1>7, <1>8, <2>1, <2>2
<1>11. QED
  BY <1>5, <1>9, <1>10 DEF Record, FewIn, Most

(* The record an update begins with.                                       *)
LEMMA LoadFacts ==
  /\ NoRecord \notin Record /\ NewRecord \in Record /\ FewIn(NewRecord)
  /\ HealthTypes => \A a \in Agents : /\ LoadOrCreate(a) \in Record /\ FewIn(LoadOrCreate(a))
                                      /\ a \in Records => LoadOrCreate(a) = health[a]
<1>1. NewRecord \in Record
  <2>1. {} \in SUBSET Ages /\ 0 \in 0..MaxCount /\ 0 \in 0..(Window + 1) * MaxRecords
    BY HealthAssumption, RecentFacts DEF Most
  <2>2. QED
    BY <2>1 DEF NewRecord, Record, Status
<1>2. FewIn(NewRecord)
  BY RecentFacts, FS_EmptySet DEF NewRecord, FewIn
<1>3. NoRecord \notin Record
  <2>1. NoRecord.crashes = -1
    BY DEF NoRecord, NewRecord
  <2>2. QED
    BY <2>1, HealthAssumption DEF Record
<1>4. QED
  BY <1>1, <1>2, <1>3 DEF HealthTypes, FewCrashes, FewIn, LoadOrCreate, Records

(* An update gives a record, and counts a crash only of what is gone.      *)
LEMMA UpdatesFacts ==
  ASSUME HealthTypes, NEW p \in Places, NEW rec \in Updates(p)
  PROVE  rec \in Record /\ FewIn(rec) /\ (p \notin gone => rec.crashes = LoadOrCreate(p[1]).crashes)
<1>1. p[1] \in Agents /\ p[2] \in 1..MaxRecords
  BY DEF Places
<1>2. CASE p \in gone
  <2>1. PICK old \in Record : old = [LoadOrCreate(p[1]) EXCEPT !.status = "dead"]
    BY <1>1, LoadFacts DEF Record, Status
  <2>2. rec = Crashed(old, p[2])
    BY <1>2, <2>1 DEF Updates
  <2>3. QED
    BY <1>1, <1>2, <2>2, CrashedFacts
<1>3. CASE p \notin gone
  BY <1>1, <1>3, LoadFacts, SampledFacts DEF Updates
<1>4. QED
  BY <1>2, <1>3

-----------------------------------------------------------------------------
(* What the health loop, the requests and deaths do to the records: they   *)
(* stay records, and only Check raises a count.                            *)
Uncounted ==
  \A a \in Agents : health'[a] # NoRecord => ~(health'[a].crashes > LoadOrCreate(a).crashes)

(* A record that is not written.                                           *)
LEMMA SameRecord ==
  ASSUME HealthTypes, NEW a \in Agents, health'[a] = health[a] \/ health'[a] = NoRecord
  PROVE  /\ health'[a] # NoRecord => ~(health'[a].crashes > LoadOrCreate(a).crashes)
         /\ health'[a] \in Record \cup {NoRecord}
         /\ health'[a] # NoRecord => FewIn(health'[a])
<1>1. \A r \in Record : ~(r.crashes > r.crashes)
  BY HealthAssumption DEF Record
<1>2. QED
  BY <1>1, LoadFacts DEF HealthTypes, FewCrashes, FewIn, LoadOrCreate, Records

(* A function on 1..n is a sequence.                                       *)
LEMMA FunctionIsSeq ==
  ASSUME NEW S, NEW n \in Nat, NEW t \in [1..n -> S]
  PROVE  t \in Seq(S) /\ Len(t) = n
OBVIOUS

(* save_instance: the list with one record more or another in its place.   *)
LEMMA ListedFacts ==
  ASSUME NEW s \in Seq({"stopped", "running"}), Len(s) <= MaxRecords,
         NEW i \in DOMAIN s \cup ({Len(s) + 1} \cap 1..MaxRecords),
         NEW t, t = [j \in DOMAIN s \cup {i} |-> IF j = i THEN "running" ELSE s[j]]
  PROVE  /\ t \in Seq({"stopped", "running"}) /\ Len(t) <= MaxRecords
         /\ i \in 1..MaxRecords
<1>1. MaxRecords \in Nat /\ Len(s) \in Nat /\ DOMAIN s = 1..Len(s)
  BY RecentFacts
<1>2. \A j \in DOMAIN t : t[j] \in {"stopped", "running"}
  BY <1>1
<1>3. CASE i \in DOMAIN s
  <2>1. DOMAIN t = 1..Len(s)
    BY <1>1, <1>3
  <2>2. t \in [1..Len(s) -> {"stopped", "running"}]
    BY <1>2, <2>1
  <2>3. t \in Seq({"stopped", "running"})
    BY <1>1, <2>2, FunctionIsSeq
  <2>4. Len(t) = Len(s)
    BY <1>1, <2>1, <2>3
  <2>5. Len(s) <= MaxRecords /\ i \in 1..Len(s)
    BY <1>1, <1>3
  <2>6. QED
    BY <1>1, <2>3, <2>4, <2>5
<1>4. CASE i = Len(s) + 1 /\ i \in 1..MaxRecords
  <2>1. DOMAIN t = 1..i
    BY <1>1, <1>4
  <2>2. t \in [1..i -> {"stopped", "running"}]
    BY <1>2, <2>1
  <2>3. i \in Nat
    BY <1>1, <1>4
  <2>4. t \in Seq({"stopped", "running"})
    BY <2>2, <2>3, FunctionIsSeq
  <2>5. Len(t) = i
    BY <2>1, <2>3, <2>4
  <2>6. QED
    <3>1. \A n \in 1..MaxRecords : n <= MaxRecords
      BY <1>1
    <3>2. i \in 1..MaxRecords
      BY <1>4
    <3>3. QED
      BY <2>4, <2>5, <3>1, <3>2
<1>5. QED
  BY <1>3, <1>4

(* A request or a death that touches one agent, its lists and its process: *)
(* what is known of the agent that was lost is still known.                *)
OnlyOf(a) ==
  /\ \A b \in Agents \ {a} :
       /\ listed'[b] = listed[b] /\ last'[b] = last[b] /\ op'[b] = op[b]
       /\ b \in present' <=> b \in present
       /\ b \in died' <=> b \in died
       /\ pc # "sleep" /\ b \in handled => b \in handled'
       /\ \A i \in 1..MaxRecords \cup {0} : <<b, i>> \in gone' <=> <<b, i>> \in gone
  /\ health' = health /\ pc' = pc /\ seen' = seen /\ todo' = todo

LEMMA OneAgent ==
  ASSUME HealthInv, NEW a \in Agents, OnlyOf(a), ListTypes', LoopTypes',
         last'[a] \in Running(a)' /\ op'[a] = "none" => a \in present' \cup died',
         last'[a] \in Running(a)' /\ op'[a] = "stopping" /\ last'[a] # 1
           => a \in present' \cup died',
         pc # "sleep" => a \in died' \cup handled'
                         \/ (a \in present /\ a \in present' /\ last'[a] = last[a] /\ gone' = gone
                             /\ (a \in died \cup handled => a \in died' \cup handled'))
                         \/ (present' = present /\ last' = last /\ gone' = gone
                             /\ (a \in died \cup handled => a \in died' \cup handled'))
  PROVE  HealthInv'
<1>1. HealthTypes /\ LostIsKnown
  BY DEF HealthInv
<1>2. HealthTypes'
  BY <1>1 DEF HealthTypes, OnlyOf, FewCrashes, Records
<1>3. \A b \in Agents \ {a} : Running(b)' = Running(b)
  BY DEF OnlyOf, Running
<1>4. \A b \in Agents : last[b] \in 1..MaxRecords \cup {0}
  BY <1>1, RecentFacts DEF HealthTypes, ListTypes
<1>5. \A b \in Agents :
        /\ last'[b] \in Running(b)' /\ op'[b] = "none" => b \in present' \cup died'
        /\ last'[b] \in Running(b)' /\ op'[b] = "stopping" /\ last'[b] # 1
             => b \in present' \cup died'
  BY <1>1, <1>3 DEF LostIsKnown, OnlyOf
<1>6. ASSUME pc' = "scan", NEW b \in Agents, <<b, last'[b]>> \in seen'
      PROVE  \/ b \in present' /\ <<b, last'[b]>> \notin gone'
             \/ b \in died' \cup handled'
  <2>1. pc = "scan" /\ seen' = seen /\ pc # "sleep"
    BY <1>6 DEF OnlyOf
  <2>2. CASE b = a
    <3>1. CASE a \in died' \cup handled'
      BY <2>2, <3>1
    <3>2. CASE a \in present /\ a \in present' /\ last'[a] = last[a] /\ gone' = gone
               /\ (a \in died \cup handled => a \in died' \cup handled')
      <4>1. <<a, last[a]>> \in seen /\ last'[b] = last[a]
        BY <1>6, <2>1, <2>2, <3>2
      <4>2. <<a, last[a]>> \notin gone \/ a \in died \cup handled
        BY <1>1, <2>1, <4>1 DEF LostIsKnown
      <4>3. QED
        BY <2>2, <3>2, <4>1, <4>2
    <3>3. CASE present' = present /\ last' = last /\ gone' = gone
               /\ (a \in died \cup handled => a \in died' \cup handled')
      BY <1>1, <1>6, <2>1, <2>2, <3>3 DEF LostIsKnown
    <3>4. QED
      BY <2>1, <3>1, <3>2, <3>3
  <2>3. CASE b # a
    BY <1>1, <1>4, <1>6, <2>1, <2>3 DEF LostIsKnown, OnlyOf
  <2>4. QED
    BY <2>2, <2>3
<1>7. ASSUME pc' = "check", NEW b \in Agents, <<b, last'[b]>> \in gone'
      PROVE  b \in died' \cup handled'
  <2>1. pc = "check" /\ pc # "sleep"
    BY <1>7 DEF OnlyOf
  <2>2. CASE b = a
    <3>1. CASE a \in died' \cup handled'
      BY <2>2, <3>1
    <3>2. CASE last'[a] = last[a] /\ gone' = gone
               /\ (a \in died \cup handled => a \in died' \cup handled')
      BY <1>1, <1>7, <2>1, <2>2, <3>2 DEF LostIsKnown
    <3>3. QED
      <4>1. \/ a \in died' \cup handled'
            \/ last'[a] = last[a] /\ gone' = gone
               /\ (a \in died \cup handled => a \in died' \cup handled')
        BY <2>1
      <4>2. QED
        BY <3>1, <3>2, <4>1
  <2>3. CASE b # a
    BY <1>1, <1>4, <1>7, <2>1, <2>3 DEF LostIsKnown, OnlyOf
  <2>4. QED
    BY <2>2, <2>3
<1>8. LostIsKnown'
  BY <1>5, <1>6, <1>7 DEF LostIsKnown
<1>9. QED
  BY <1>2, <1>8 DEF HealthInv

(* Whoever handles an agent while a round is under way is remembered.      *)
LEMMA HandleFacts ==
  ASSUME HealthTypes, NEW a \in Agents, Handle(a)
  PROVE  /\ handled' \subseteq Agents
         /\ pc # "sleep" => handled' = handled \cup {a}
BY DEF Handle, HealthTypes, ListTypes

(* The requests.                                                           *)
LEMMA RequestHealth ==
  ASSUME HealthInv, NEW a \in Agents, Request(a) \/ Dies(a)
  PROVE  HealthInv' /\ health' = health
<1>1. HealthTypes /\ LostIsKnown /\ ListTypes /\ LoopTypes
  BY DEF HealthInv, HealthTypes
<1>2. CASE StartBegins(a)
  <2>1. /\ op[a] = "none" /\ op' = [op EXCEPT ![a] = "starting"] /\ present' = present \ {a}
        /\ Handle(a) /\ UNCHANGED <<listed, last, health, pc, seen, gone, todo, died>>
    BY <1>2 DEF StartBegins, loop
  <2>2. OnlyOf(a) /\ ListTypes' /\ LoopTypes'
    BY <1>1, <2>1, HandleFacts DEF OnlyOf, ListTypes, LoopTypes
  <2>3. op'[a] = "starting"
    BY <1>1, <2>1 DEF ListTypes
  <2>4. QED
    BY <1>1, <2>1, <2>2, <2>3, HandleFacts, OneAgent
<1>3. CASE StartListed(a)
  <2>1. PICK i \in DOMAIN listed[a] \cup ({Len(listed[a]) + 1} \cap 1..MaxRecords) :
          /\ listed' = [listed EXCEPT ![a] = [j \in DOMAIN listed[a] \cup {i} |->
                                               IF j = i THEN "running" ELSE listed[a][j]]]
          /\ last' = [last EXCEPT ![a] = i]
          /\ gone' = IF pc = "scan" THEN gone \cup {<<a, i>>} ELSE gone
    BY <1>3, Zenon DEF StartListed
  <2>2. /\ op' = [op EXCEPT ![a] = "none"] /\ present' = present \cup {a} /\ died' = died \ {a}
        /\ Handle(a) /\ UNCHANGED <<health, pc, seen, todo>>
    BY <1>3 DEF StartListed
  <2>3. PICK t : t = [j \in DOMAIN listed[a] \cup {i} |-> IF j = i THEN "running" ELSE listed[a][j]]
    OBVIOUS
  <2>4. t \in Seq({"stopped", "running"}) /\ Len(t) <= MaxRecords /\ i \in 1..MaxRecords
    <3>1. listed[a] \in Seq({"stopped", "running"}) /\ Len(listed[a]) <= MaxRecords
      BY <1>1 DEF ListTypes
    <3>2. QED
      BY <2>3, <3>1, ListedFacts
  <2>5. listed' = [listed EXCEPT ![a] = t]
    BY <2>1, <2>3
  <2>6. ListTypes'
    <3>1. last' \in [Agents -> 0..MaxRecords]
      BY <1>1, <2>1, <2>4, RecentFacts DEF ListTypes
    <3>2. QED
      BY <1>1, <2>2, <2>4, <2>5, <3>1, HandleFacts DEF ListTypes
  <2>7. <<a, i>> \in Places /\ LoopTypes'
    BY <1>1, <2>1, <2>2, <2>4 DEF LoopTypes, Places
  <2>8. OnlyOf(a)
    <3>1. ASSUME NEW b \in Agents \ {a}
          PROVE  \A k : <<b, k>> \in gone' <=> <<b, k>> \in gone
      BY <2>1
    <3>2. QED
      BY <1>1, <2>1, <2>2, <2>5, <3>1, HandleFacts DEF OnlyOf, ListTypes
  <2>9. QED
    BY <1>1, <2>2, <2>6, <2>7, <2>8, HandleFacts, OneAgent
<1>4. CASE StartFails(a)
  <2>1. /\ op' = [op EXCEPT ![a] = "none"] /\ died' = died \cup {a}
        /\ UNCHANGED <<listed, last, present, health, pc, seen, gone, todo, handled>>
    BY <1>4 DEF StartFails, loop
  <2>2. OnlyOf(a) /\ ListTypes' /\ LoopTypes'
    BY <1>1, <2>1 DEF OnlyOf, ListTypes, LoopTypes
  <2>3. QED
    BY <1>1, <2>1, <2>2, OneAgent
<1>5. CASE StartUnlisted(a)
  <2>1. /\ op' = [op EXCEPT ![a] = "none"] /\ last' = [last EXCEPT ![a] = 0] /\ Handle(a)
        /\ UNCHANGED <<listed, present, health, pc, seen, gone, todo, died>>
    BY <1>5 DEF StartUnlisted, loop
  <2>2. OnlyOf(a) /\ ListTypes' /\ LoopTypes'
    BY <1>1, <2>1, HandleFacts, RecentFacts DEF OnlyOf, ListTypes, LoopTypes
  <2>3. last'[a] \notin Running(a)'
    <3>1. last'[a] = 0 /\ listed'[a] \in Seq({"stopped", "running"})
      BY <1>1, <2>1, <2>2 DEF ListTypes
    <3>2. 0 \notin DOMAIN listed'[a]
      BY <3>1
    <3>3. QED
      BY <3>1, <3>2 DEF Running
  <2>4. QED
    BY <1>1, <2>1, <2>2, <2>3, HandleFacts, OneAgent
<1>6. CASE StopBegins(a)
  <2>1. /\ op[a] = "none" /\ op' = [op EXCEPT ![a] = "stopping"]
        /\ present' = IF last[a] = 1 THEN present \ {a} ELSE present
        /\ Handle(a) /\ UNCHANGED <<listed, last, health, pc, seen, gone, todo, died>>
    BY <1>6 DEF StopBegins, loop
  <2>2. OnlyOf(a) /\ ListTypes' /\ LoopTypes'
    BY <1>1, <2>1, HandleFacts DEF OnlyOf, ListTypes, LoopTypes
  <2>3. op'[a] = "stopping" /\ Running(a)' = Running(a)
    BY <1>1, <2>1 DEF ListTypes, Running
  <2>4. last'[a] \in Running(a)' /\ last'[a] # 1 => a \in present' \cup died'
    BY <1>1, <2>1, <2>3 DEF LostIsKnown
  <2>5. QED
    BY <1>1, <2>1, <2>2, <2>3, <2>4, HandleFacts, OneAgent
<1>7. CASE StopListed(a)
  <2>1. /\ op[a] = "stopping" /\ op' = [op EXCEPT ![a] = "none"]
        /\ listed' = [listed EXCEPT ![a][1] = "stopped"] /\ Handle(a)
        /\ UNCHANGED <<last, present, health, pc, seen, gone, todo, died>>
    BY <1>7 DEF StopListed, loop
  <2>2. PICK t : t = [listed[a] EXCEPT ![1] = "stopped"]
    OBVIOUS
  <2>3. listed[a] \in Seq({"stopped", "running"}) /\ Len(listed[a]) <= MaxRecords
    BY <1>1 DEF ListTypes
  <2>4. t \in Seq({"stopped", "running"}) /\ Len(t) <= MaxRecords /\ DOMAIN t = DOMAIN listed[a]
        /\ (\A j \in DOMAIN t : t[j] = IF j = 1 THEN "stopped" ELSE listed[a][j])
    <3>1. DOMAIN listed[a] = 1..Len(listed[a]) /\ Len(listed[a]) \in Nat
      BY <2>3
    <3>2. DOMAIN t = DOMAIN listed[a]
          /\ (\A j \in DOMAIN t : t[j] = IF j = 1 THEN "stopped" ELSE listed[a][j])
      BY <2>2
    <3>3. t = [j \in DOMAIN t |-> t[j]]
      BY <2>2
    <3>4. \A j \in DOMAIN t : t[j] \in {"stopped", "running"}
      BY <2>3, <3>1, <3>2
    <3>5. t \in [1..Len(listed[a]) -> {"stopped", "running"}]
      BY <3>1, <3>2, <3>3, <3>4
    <3>6. QED
      BY <2>3, <3>1, <3>2, <3>5, FunctionIsSeq
  <2>5. listed' = [listed EXCEPT ![a] = t]
    BY <2>1, <2>2
  <2>6. OnlyOf(a) /\ ListTypes' /\ LoopTypes'
    <3>1. /\ listed'[a] = t /\ \A b \in Agents \ {a} : listed'[b] = listed[b]
          /\ listed' \in [Agents -> Seq({"stopped", "running"})]
      BY <1>1, <2>4, <2>5 DEF ListTypes
    <3>2. \A b \in Agents : Len(listed'[b]) <= MaxRecords
      BY <1>1, <2>4, <3>1 DEF ListTypes
    <3>3. /\ op' \in [Agents -> {"none", "starting", "stopping"}]
          /\ \A b \in Agents \ {a} : op'[b] = op[b]
      BY <1>1, <2>1 DEF ListTypes
    <3>4. ListTypes'
      BY <1>1, <2>1, <3>1, <3>2, <3>3, HandleFacts DEF ListTypes
    <3>5. OnlyOf(a)
      BY <1>1, <2>1, <3>1, <3>3, HandleFacts DEF OnlyOf
    <3>6. QED
      BY <1>1, <2>1, <3>4, <3>5 DEF LoopTypes
  <2>7. last'[a] \in Running(a)' => a \in present' \cup died'
    <3>1. listed'[a] = t
      BY <1>1, <2>5 DEF ListTypes
    <3>2. last'[a] \in Running(a)' => last[a] # 1 /\ last[a] \in Running(a)
      BY <2>1, <2>4, <3>1 DEF Running
    <3>3. QED
      BY <1>1, <2>1, <3>2 DEF LostIsKnown
  <2>8. op'[a] = "none"
    BY <1>1, <2>1 DEF ListTypes
  <2>9. QED
    BY <1>1, <2>1, <2>6, <2>7, <2>8, HandleFacts, OneAgent
<1>8. CASE StopUnlisted(a)
  <2>1. /\ op' = [op EXCEPT ![a] = "none"] /\ died' = died \cup ({a} \ present) /\ Handle(a)
        /\ UNCHANGED <<listed, last, present, health, pc, seen, gone, todo>>
    BY <1>8 DEF StopUnlisted, loop
  <2>2. OnlyOf(a) /\ ListTypes' /\ LoopTypes'
    BY <1>1, <2>1, HandleFacts DEF OnlyOf, ListTypes, LoopTypes
  <2>3. QED
    BY <1>1, <2>1, <2>2, HandleFacts, OneAgent
<1>9. CASE Dies(a)
  <2>1. /\ present' = present \ {a} /\ died' = died \cup {a}
        /\ UNCHANGED <<listed, last, op, health, pc, seen, gone, todo, handled>>
    BY <1>9 DEF Dies, loop
  <2>2. OnlyOf(a) /\ ListTypes' /\ LoopTypes'
    BY <1>1, <2>1 DEF OnlyOf, ListTypes, LoopTypes
  <2>3. QED
    BY <1>1, <2>1, <2>2, OneAgent
<1>10. health' = health
  BY DEF Request, StartBegins, StartListed, StartFails, StartUnlisted, StopBegins, StopListed,
         StopUnlisted, Dies
<1>11. QED
  BY <1>2, <1>3, <1>4, <1>5, <1>6, <1>7, <1>8, <1>9, <1>10 DEF Request

(* The loop wakes up.                                                      *)
LEMMA HealthLoadHealth ==
  ASSUME HealthInv, HealthLoad
  PROVE  HealthInv' /\ Uncounted
<1>1. HealthTypes /\ LostIsKnown
  BY DEF HealthInv
<1>2. PICK unread :
        HealthSees({p \in Places : p[1] \notin unread /\ p[2] \in Running(p[1])})
  BY DEF HealthLoad
<1>3. PICK places : places = {p \in Places : p[1] \notin unread /\ p[2] \in Running(p[1])}
  OBVIOUS
<1>4. /\ seen' = places /\ gone' = {} /\ todo' = {} /\ pc' \in {"sleep", "scan"}
      /\ health' = [a \in Agents |-> IF a \in Records THEN Older(health[a]) ELSE NoRecord]
      /\ handled' = {p[1] : p \in places} \cap {a \in Agents : op[a] # "none"}
      /\ UNCHANGED <<listed, last, present, op, died>>
  BY <1>2, <1>3 DEF HealthSees, agents
<1>5. \A a \in Records : /\ health[a] \in Record /\ FewIn(health[a])
                         /\ LoadOrCreate(a) = health[a] /\ a \in Agents
  BY <1>1 DEF HealthTypes, FewCrashes, FewIn, LoadOrCreate, Records
<1>6. \A a \in Agents : health'[a] \in Record \cup {NoRecord}
                        /\ (health'[a] # NoRecord => FewIn(health'[a]))
  BY <1>4, <1>5, OlderFacts
<1>7. Uncounted
  <2>1. \A r \in Record : ~(r.crashes > r.crashes)
    BY HealthAssumption DEF Record
  <2>2. \A a \in Records : health'[a].crashes = health[a].crashes
    BY <1>4, <1>5, OlderFacts
  <2>3. QED
    BY <1>4, <1>5, <2>1, <2>2 DEF Uncounted
<1>8. HealthTypes'
  <2>1. health' = [a \in Agents |-> health'[a]]
    BY <1>4
  <2>2. health' \in [Agents -> Record \cup {NoRecord}] /\ FewCrashes'
    BY <1>6, <2>1 DEF FewCrashes, FewIn, Records
  <2>3. ListTypes' /\ LoopTypes'
    BY <1>1, <1>3, <1>4 DEF HealthTypes, ListTypes, LoopTypes
  <2>4. QED
    BY <2>2, <2>3 DEF HealthTypes
<1>9. LostIsKnown'
  <2>1. \A a \in Agents : Running(a)' = Running(a)
    BY <1>4 DEF Running
  <2>2. ASSUME NEW a \in Agents, <<a, last[a]>> \in places
        PROVE  a \in present \/ a \in died \cup handled'
    <3>1. last[a] \in Running(a)
      BY <1>3, <2>2
    <3>2. CASE op[a] = "none"
      BY <1>1, <3>1, <3>2 DEF LostIsKnown
    <3>3. CASE op[a] # "none"
      BY <1>4, <2>2, <3>3
    <3>4. QED
      BY <3>2, <3>3
  <2>3. QED
    BY <1>1, <1>4, <2>1, <2>2 DEF LostIsKnown
<1>10. QED
  BY <1>7, <1>8, <1>9 DEF HealthInv

(* The loop takes its snapshot.                                            *)
LEMMA HealthScanHealth ==
  ASSUME HealthInv, HealthScan
  PROVE  HealthInv' /\ health' = health
<1>1. /\ HealthTypes /\ LostIsKnown /\ pc = "scan" /\ pc' = "check"
      /\ gone' = {p \in seen : p[1] \in present /\ p[2] = last[p[1]] => p \in gone}
      /\ todo' = seen
      /\ UNCHANGED <<listed, last, present, op, health, seen, died, handled>>
  BY DEF HealthInv, HealthScan, agents
<1>2. HealthTypes'
  <2>1. ListTypes' /\ LoopTypes'
    BY <1>1 DEF HealthTypes, ListTypes, LoopTypes
  <2>2. QED
    BY <1>1, <2>1 DEF HealthTypes, FewCrashes, Records
<1>3. LostIsKnown'
  <2>1. \A a \in Agents : Running(a)' = Running(a)
    BY <1>1 DEF Running
  <2>2. QED
    BY <1>1, <2>1 DEF LostIsKnown
<1>4. QED
  BY <1>1, <1>2, <1>3 DEF HealthInv

(* What may be counted: a crash of what was lost, or handled, or left      *)
(* behind by a later start.                                                *)
CountedWell ==
  \A a \in Agents :
    health'[a] # NoRecord /\ health'[a].crashes > LoadOrCreate(a).crashes
      => a \in died \cup handled \/ <<a, last[a]>> \notin todo \ todo'

(* The loop looks at a record.                                             *)
LEMMA CheckHealth ==
  ASSUME HealthInv, NEW p \in Places, Check(p)
  PROVE  HealthInv' /\ CountedWell
<1>1. /\ HealthTypes /\ LostIsKnown /\ pc = "check" /\ p \in todo
      /\ todo' = todo \ {p} /\ pc' \in {"sleep", "check"}
      /\ UNCHANGED <<listed, last, present, op, died>>
      /\ \/ seen' = {} /\ gone' = {} /\ handled' = {} /\ pc' = "sleep"
         \/ UNCHANGED <<seen, gone, handled>>
  BY DEF HealthInv, Check, Checked, agents
<1>2. PICK a : a = p[1] /\ a \in Agents
  BY DEF Places
<1>3. \/ \E rec \in Updates(p) : health' = [health EXCEPT ![a] = rec]
      \/ health' = health \/ health' = [health EXCEPT ![a] = NoRecord]
  BY <1>2 DEF Check
<1>4. health' = [b \in Agents |-> health'[b]] /\ \A b \in Agents \ {a} : health'[b] = health[b]
  BY <1>1, <1>3 DEF HealthTypes
<1>5. \/ health'[a] = health[a] \/ health'[a] = NoRecord
      \/ /\ health'[a] \in Record /\ FewIn(health'[a])
         /\ p \notin gone => health'[a].crashes = LoadOrCreate(a).crashes
  <2>1. CASE health' = health \/ health' = [health EXCEPT ![a] = NoRecord]
    BY <1>1, <1>2, <2>1 DEF HealthTypes
  <2>2. ASSUME NEW rec \in Updates(p), health' = [health EXCEPT ![a] = rec]
        PROVE  /\ health'[a] \in Record /\ FewIn(health'[a])
               /\ p \notin gone => health'[a].crashes = LoadOrCreate(a).crashes
    <3>1. rec \in Record /\ FewIn(rec) /\ (p \notin gone => rec.crashes = LoadOrCreate(a).crashes)
      BY <1>1, <1>2, UpdatesFacts
    <3>2. health'[a] = rec
      BY <1>1, <1>2, <2>2 DEF HealthTypes
    <3>3. QED
      BY <3>1, <3>2
  <2>3. QED
    BY <1>3, <2>1, <2>2
<1>6. HealthTypes'
  <2>1. \A b \in Agents : /\ health'[b] \in Record \cup {NoRecord}
                          /\ health'[b] # NoRecord => FewIn(health'[b])
    BY <1>1, <1>2, <1>4, <1>5, SameRecord
  <2>2. health' \in [Agents -> Record \cup {NoRecord}] /\ FewCrashes'
    BY <1>4, <2>1 DEF FewCrashes, FewIn, Records
  <2>3. ListTypes' /\ LoopTypes'
    BY <1>1 DEF HealthTypes, ListTypes, LoopTypes
  <2>4. QED
    BY <2>2, <2>3 DEF HealthTypes
<1>7. LostIsKnown'
  <2>1. \A b \in Agents : Running(b)' = Running(b)
    BY <1>1 DEF Running
  <2>2. QED
    BY <1>1, <2>1 DEF LostIsKnown
<1>8. CountedWell
  <2>1. SUFFICES ASSUME NEW b \in Agents, health'[b] # NoRecord,
                        health'[b].crashes > LoadOrCreate(b).crashes,
                        <<b, last[b]>> \in todo \ todo'
                 PROVE  b \in died \cup handled
    BY DEF CountedWell
  <2>2. <<b, last[b]>> = p
    BY <1>1, <2>1
  <2>3. b = a
    BY <1>2, <2>2
  <2>4. p \in gone
    <3>1. \A r \in Record : ~(r.crashes > r.crashes)
      BY HealthAssumption DEF Record
    <3>2. CASE health'[b] = health[b]
      BY <1>1, <2>1, <3>2, SameRecord
    <3>3. CASE p \notin gone => health'[b].crashes = LoadOrCreate(b).crashes
      BY <1>1, <2>1, <3>1, <3>3, LoadFacts
    <3>4. QED
      BY <1>5, <2>1, <2>3, <3>2, <3>3
  <2>5. QED
    BY <1>1, <2>2, <2>4 DEF LostIsKnown
<1>9. QED
  BY <1>6, <1>7, <1>8 DEF HealthInv

(* The node starts again.                                                  *)
LEMMA RestartHealth ==
  ASSUME HealthInv, HealthRestart
  PROVE  HealthInv' /\ Uncounted
<1>1. HealthTypes
  BY DEF HealthInv
<1>2. \A a \in Agents : health'[a] = health[a] \/ health'[a] = NoRecord
  BY <1>1 DEF HealthRestart, HealthTypes
<1>3. Uncounted
  BY <1>1, <1>2, SameRecord DEF Uncounted
<1>4. /\ pc' = "sleep" /\ listed' = listed /\ op' = [a \in Agents |-> "none"]
      /\ {seen', gone', todo', handled'} \subseteq {{}}
      /\ present' \in SUBSET Agents /\ last' \in [Agents -> 0..MaxRecords]
      /\ \A a \in Agents : Recovers(a, last'[a], a \in present')
      /\ died' = (died \ present') \cup {a \in Agents \ present' : Dead(a) # {}}
  BY DEF HealthRestart
<1>5. HealthTypes'
  <2>1. health' = [a \in Agents |-> health'[a]]
    BY <1>1 DEF HealthRestart, HealthTypes
  <2>2. health' \in [Agents -> Record \cup {NoRecord}] /\ FewCrashes'
    BY <1>1, <1>2, <2>1, SameRecord DEF FewCrashes, FewIn, Records
  <2>3. ListTypes' /\ LoopTypes'
    BY <1>1, <1>4 DEF HealthTypes, ListTypes, LoopTypes
  <2>4. QED
    BY <2>2, <2>3 DEF HealthTypes
<1>6. LostIsKnown'
  <2>1. ASSUME NEW a \in Agents, last'[a] \in Running(a)' PROVE a \in present' \cup died'
    <3>1. last'[a] \in Running(a)
      BY <1>4, <2>1 DEF Running
    <3>2. CASE Dead(a) = {}
      <4>1. last'[a] = last[a] /\ (a \in present' <=> a \in present)
        BY <1>4, <3>2 DEF Recovers
      <4>2. QED
        BY <3>1, <3>2, <4>1 DEF Dead
    <3>3. CASE Dead(a) # {}
      BY <1>4, <3>3
    <3>4. QED
      BY <3>2, <3>3
  <2>2. QED
    BY <1>4, <2>1 DEF LostIsKnown
<1>7. QED
  BY <1>3, <1>5, <1>6 DEF HealthInv

(* A step of the alerting side leaves the health side alone.               *)
LEMMA SameHealth ==
  ASSUME HealthInv, UNCHANGED hvars
  PROVE  HealthInv' /\ health' = health
<1>1. UNCHANGED <<listed, last, present, op, health, pc, seen, gone, todo, died, handled>>
  BY DEF hvars, agents, loop
<1>2. QED
  BY <1>1 DEF HealthInv, HealthTypes, ListTypes, LoopTypes, LostIsKnown, FewCrashes, Records, Running

(* Every step keeps the health side, and counts a crash only of an agent   *)
(* that lost a process or was in somebody's hands, or of a record that was *)
(* left behind.                                                            *)
LEMMA HealthStep ==
  ASSUME HealthInv, [Next]_vars
  PROVE  HealthInv' /\ CountedWell
<1>1. HealthTypes /\ (Uncounted => CountedWell)
  BY DEF HealthInv, Uncounted, CountedWell
<1>2. health' = health => Uncounted
  BY <1>1, SameRecord DEF Uncounted
<1>3. CASE HealthLoad \/ (HealthRestart /\ Alerts!AlertRestart)
  BY <1>1, <1>3, HealthLoadHealth, RestartHealth
<1>4. CASE HealthScan
  BY <1>1, <1>2, <1>4, HealthScanHealth
<1>5. ASSUME NEW p \in Places, Check(p) PROVE HealthInv' /\ CountedWell
  BY <1>5, CheckHealth
<1>6. ASSUME NEW a \in Agents, Request(a) \/ Dies(a) PROVE HealthInv' /\ CountedWell
  BY <1>1, <1>2, <1>6, RequestHealth
<1>7. CASE UNCHANGED hvars
  BY <1>1, <1>2, <1>7, SameHealth
<1>8. QED
  BY <1>3, <1>4, <1>5, <1>6, <1>7 DEF Next, vars, HealthLoop

(* The node starts with the lists as they are.                             *)
LEMMA InitHealth == Init => HealthInv
<1> SUFFICES ASSUME Init PROVE HealthInv
  OBVIOUS
<1>1. HInit
  BY DEF Init
<1>2. \A a \in Agents : /\ listed[a] \in Seq({"stopped", "running"})
                        /\ Len(listed[a]) \in 0..1 /\ last[a] = Len(listed[a])
                        /\ a \in present <=> listed[a] # <<>>
  <2>1. SUFFICES ASSUME NEW a \in Agents
                 PROVE  /\ listed[a] \in Seq({"stopped", "running"})
                        /\ Len(listed[a]) \in 0..1 /\ last[a] = Len(listed[a])
                        /\ a \in present <=> listed[a] # <<>>
    OBVIOUS
  <2>2. listed[a] = <<>> \/ listed[a] = <<"running">>
    BY <1>1 DEF HInit
  <2>3. listed[a] \in Seq({"stopped", "running"}) /\ Len(listed[a]) \in 0..1
    <3>1. <<>> \in Seq({"stopped", "running"}) /\ Len(<<>>) = 0
      OBVIOUS
    <3>2. <<"running">> \in Seq({"stopped", "running"}) /\ Len(<<"running">>) = 1
      OBVIOUS
    <3>3. QED
      <4>1. CASE listed[a] = <<>>
        BY <3>1, <4>1
      <4>2. CASE listed[a] = <<"running">>
        BY <3>2, <4>2
      <4>3. QED
        BY <2>2, <4>1, <4>2
  <2>4. last[a] = Len(listed[a]) /\ (a \in present <=> listed[a] # <<>>)
    BY <1>1 DEF HInit
  <2>5. QED
    BY <2>3, <2>4
<1>3. ListTypes /\ LoopTypes
  <2>1. listed = [a \in Agents |-> listed[a]] /\ last = [a \in Agents |-> last[a]]
    BY <1>1 DEF HInit
  <2>2. listed \in [Agents -> Seq({"stopped", "running"})]
    BY <1>2, <2>1
  <2>3. last \in [Agents -> 0..MaxRecords] /\ \A a \in Agents : Len(listed[a]) <= MaxRecords
    <3>1. \A n \in 0..1 : n \in 0..MaxRecords /\ n <= MaxRecords
      BY RecentFacts
    <3>2. \A a \in Agents : last[a] \in 0..MaxRecords /\ Len(listed[a]) <= MaxRecords
      BY <1>2, <3>1
    <3>3. QED
      BY <2>1, <3>2
  <2>4. QED
    BY <1>1, <2>2, <2>3 DEF HInit, ListTypes, LoopTypes
<1>4. HealthTypes
  BY <1>1, <1>3, LoadFacts DEF HInit, HealthTypes, FewCrashes, Records
<1>5. \A a \in Agents : last[a] \in Running(a) => a \in present
  BY <1>2 DEF Running
<1>6. LostIsKnown
  BY <1>1, <1>5 DEF HInit, LostIsKnown
<1>7. QED
  BY <1>4, <1>6 DEF HealthInv

(* No crash is invented: the count of an agent grows only if it lost the   *)
(* process its last record names, was being started or stopped between the *)
(* reading of the lists and the snapshot of the processes, or has a record *)
(* that a later start left behind.                                         *)
THEOREM CrashesReal == Spec => CrashesAreReal
<1>1. HealthInv /\ [Next]_vars => HealthInv'
  BY HealthStep
<1>2. HealthInv /\ [Next]_vars =>
        [\A a \in Agents :
           health'[a] # NoRecord /\ health'[a].crashes > LoadOrCreate(a).crashes
             => a \in died \cup handled \/ <<a, last[a]>> \notin todo \ todo']_vars
  BY HealthStep DEF CountedWell
<1>3. QED
  BY InitHealth, <1>1, <1>2, PTL DEF Spec, CrashesAreReal

-----------------------------------------------------------------------------
(* Lists of rules: the empty one, and those the steps make.                *)
LEMMA ListFacts ==
  /\ Alerts!IsList(Alerts!NoRules) /\ DOMAIN Alerts!NoRules = {}
  /\ Alerts!Never \in 0..Cooldown /\ Cooldown \in Nat /\ Cooldown > 0
  /\ IsLoop(Alerts!Asleep) /\ IsEdit(Alerts!IdleEdit)
<1>1. Alerts!IsList(Alerts!NoRules) /\ DOMAIN Alerts!NoRules = {}
  BY DEF Alerts!IsList, Alerts!NoRules
<1>2. Alerts!Never \in 0..Cooldown /\ Cooldown \in Nat /\ Cooldown > 0
  BY AlertAssumption DEF Alerts!Never
<1>3. IsLoop(Alerts!Asleep)
  BY <1>1 DEF IsLoop, Alerts!Asleep
<1>4. IsEdit(Alerts!IdleEdit)
  BY <1>1 DEF IsEdit, Alerts!IdleEdit
<1>5. QED
  BY <1>1, <1>2, <1>3, <1>4

(* Marks age together, up to the cooldown.                                 *)
LEMMA OlderList ==
  ASSUME NEW list, Alerts!IsList(list)
  PROVE  /\ Alerts!IsList(Alerts!Older(list)) /\ DOMAIN Alerts!Older(list) = DOMAIN list
         /\ \A r \in DOMAIN list : Alerts!Older(list)[r]
              = IF list[r] < Cooldown THEN list[r] + 1 ELSE Cooldown
<1>1. \A n \in 0..Cooldown : (IF n < Cooldown THEN n + 1 ELSE Cooldown) \in 0..Cooldown
  BY AlertAssumption
<1>2. \A r \in DOMAIN list : Alerts!Older(list)[r]
              = IF list[r] < Cooldown THEN list[r] + 1 ELSE Cooldown
  BY DEF Alerts!Older, Alerts!Never
<1>3. DOMAIN Alerts!Older(list) = DOMAIN list
  BY DEF Alerts!Older
<1>4. Alerts!Older(list) = [r \in DOMAIN list |-> Alerts!Older(list)[r]]
  BY DEF Alerts!Older
<1>5. QED
  BY <1>1, <1>2, <1>3, <1>4 DEF Alerts!IsList

(* The loop goes on with the same list, or sleeps when it has fired none.  *)
LEMMA ContinueFacts ==
  ASSUME NEW list, Alerts!IsList(list), NEW due, due \subseteq DOMAIN list
  PROVE  LET l == Alerts!Continue(list, due) IN
         /\ IsLoop(l)
         /\ l.pc # "sleep" => l.list = list
         /\ l.pc = "sleep" => DOMAIN l.list = {} /\ \A r \in DOMAIN list : list[r] # 0
<1>1. CASE due # {}
  <2>1. Alerts!Continue(list, due) = [pc |-> "evaluate", list |-> list, todo |-> due]
    BY <1>1 DEF Alerts!Continue
  <2>2. QED
    BY <2>1 DEF IsLoop
<1>2. CASE due = {} /\ \E r \in DOMAIN list : list[r] = 0
  <2>1. Alerts!Continue(list, due) = [pc |-> "write", list |-> list, todo |-> {}]
    BY <1>2 DEF Alerts!Continue
  <2>2. QED
    BY <2>1 DEF IsLoop
<1>3. CASE due = {} /\ ~\E r \in DOMAIN list : list[r] = 0
  <2>1. Alerts!Continue(list, due) = Alerts!Asleep
    BY <1>3 DEF Alerts!Continue
  <2>2. Alerts!Asleep.pc = "sleep" /\ DOMAIN Alerts!Asleep.list = {} /\ IsLoop(Alerts!Asleep)
    BY ListFacts DEF Alerts!Asleep
  <2>3. \A r \in DOMAIN list : list[r] # 0
    BY <1>3
  <2>4. QED
    BY <2>1, <2>2, <2>3
<1>4. QED
  BY <1>1, <1>2, <1>3

(* A mark that is not older than the firing ages with it.                  *)
LEMMA NotOlderAges ==
  ASSUME NEW r \in Rules, NEW list, Alerts!IsList(list), since \in [Rules -> 0..Cooldown],
         NotOlder(r, list), since' = Alerts!Older(since),
         NEW new, new = Alerts!Older(list)
  PROVE  r \in DOMAIN new => new[r] <= since'[r]
<1>1. Alerts!IsList(since) /\ DOMAIN since = Rules
  BY DEF Alerts!IsList
<1>2. since'[r] = IF since[r] < Cooldown THEN since[r] + 1 ELSE Cooldown
  BY <1>1, OlderList
<1>3. ASSUME r \in DOMAIN list PROVE new[r] <= since'[r]
  <2>1. new[r] = IF list[r] < Cooldown THEN list[r] + 1 ELSE Cooldown
    BY <1>3, OlderList
  <2>2. list[r] \in 0..Cooldown /\ since[r] \in 0..Cooldown /\ list[r] <= since[r]
    BY <1>3 DEF Alerts!IsList, NotOlder
  <2>3. \A m, n \in 0..Cooldown : m <= n =>
          (IF m < Cooldown THEN m + 1 ELSE Cooldown) <= (IF n < Cooldown THEN n + 1 ELSE Cooldown)
    BY AlertAssumption
  <2>4. QED
    BY <1>2, <2>1, <2>2, <2>3
<1>4. QED
  BY <1>3, OlderList

-----------------------------------------------------------------------------
(* A round begins: everything that says when a rule fired ages together.   *)
LEMMA AlertLoadInv ==
  ASSUME AlertInv, Alerts!AlertLoad
  PROVE  AlertInv'
<1>1. AlertTypes /\ MarksKept /\ ListsBelieved /\ CooldownKept
  BY DEF AlertInv
<1>2. PICK list \in Alerts!Loaded(Alerts!Editing # {}) :
        aloop' = Alerts!Continue(Alerts!Older(list), DOMAIN list)
  BY DEF Alerts!AlertLoad
<1>3. /\ rules' = Alerts!Older(rules) /\ since' = Alerts!Older(since)
      /\ edit' = [e \in Editors |-> [edit[e] EXCEPT !.list = Alerts!Older(edit[e].list)]]
      /\ UNCHANGED <<believed, forgotten, early>> /\ aloop.pc = "sleep"
  BY DEF Alerts!AlertLoad
<1>4. Alerts!IsList(list) /\ (list = rules \/ (DOMAIN list = {} /\ Alerts!Editing # {}))
  BY <1>1, <1>2, ListFacts DEF AlertTypes, Alerts!Loaded
<1>5. Alerts!IsList(Alerts!Older(list)) /\ DOMAIN Alerts!Older(list) = DOMAIN list
  BY <1>4, OlderList
<1>6. /\ IsLoop(aloop')
      /\ aloop'.pc # "sleep" => aloop'.list = Alerts!Older(list)
      /\ aloop'.pc = "sleep" => DOMAIN aloop'.list = {}
  BY <1>2, <1>5, ContinueFacts
<1>7. \A e \in Editors : /\ IsEdit(edit'[e]) /\ edit'[e].list = Alerts!Older(edit[e].list)
                         /\ edit'[e].pc = edit[e].pc /\ edit'[e].rule = edit[e].rule
  <2>1. SUFFICES ASSUME NEW e \in Editors
                 PROVE  /\ IsEdit(edit'[e]) /\ edit'[e].list = Alerts!Older(edit[e].list)
                        /\ edit'[e].pc = edit[e].pc /\ edit'[e].rule = edit[e].rule
    OBVIOUS
  <2>2. PICK d : d = edit[e]
    OBVIOUS
  <2>3. IsEdit(d)
    BY <1>1, <2>2 DEF AlertTypes
  <2>4. PICK p, q, l : d = [pc |-> p, rule |-> q, list |-> l]
    BY <2>3 DEF IsEdit
  <2>5. PICK new : new = Alerts!Older(l)
    OBVIOUS
  <2>6. edit'[e] = [pc |-> p, rule |-> q, list |-> new]
    <3>1. l = edit[e].list
      BY <2>2, <2>4
    <3>2. edit'[e] = [d EXCEPT !.list = new]
      BY <1>3, <2>2, <2>5, <3>1, Zenon
    <3>3. QED
      BY <2>4, <3>2
  <2>7. Alerts!IsList(new) /\ DOMAIN new = DOMAIN l
    BY <2>3, <2>4, <2>5, OlderList DEF IsEdit
  <2>8. QED
    BY <2>2, <2>3, <2>4, <2>5, <2>6, <2>7 DEF IsEdit
<1>8. AlertTypes'
  <2>1. Alerts!IsList(rules')
    BY <1>1, <1>3, OlderList DEF AlertTypes
  <2>2. since' \in [Rules -> 0..Cooldown]
    <3>1. Alerts!IsList(since) /\ DOMAIN since = Rules
      BY <1>1 DEF AlertTypes, Alerts!IsList
    <3>2. QED
      BY <1>3, <3>1, OlderList DEF Alerts!IsList
  <2>3. edit' = [e \in Editors |-> edit'[e]]
    BY <1>3
  <2>4. QED
    BY <1>1, <1>3, <1>6, <1>7, <2>1, <2>2, <2>3 DEF AlertTypes, IsLoop, IsEdit, Alerts!IsList
<1>9. MarksKept'
  <2>1. SUFFICES ASSUME NEW r \in Rules \ forgotten
                 PROVE  /\ NotOlder(r, aloop.list)'
                        /\ NotOlder(r, rules)'
                        /\ \A e \in Editors : NotOlder(r, edit[e].list)'
    BY <1>3 DEF MarksKept
  <2>2. since \in [Rules -> 0..Cooldown] /\ Alerts!IsList(rules)
        /\ \A e \in Editors : Alerts!IsList(edit[e].list)
    BY <1>1 DEF AlertTypes, IsEdit
  <2>3. NotOlder(r, rules) /\ \A e \in Editors : NotOlder(r, edit[e].list)
    <3>1. r \notin Alerts!Unsaved
      BY <1>1, <1>3 DEF AlertTypes, IsLoop, Alerts!Unsaved
    <3>2. QED
      BY <1>1, <3>1 DEF MarksKept
  <2>4. NotOlder(r, list)
    BY <1>4, <2>3 DEF NotOlder
  <2>5. NotOlder(r, rules)'
    BY <1>3, <2>2, <2>3, NotOlderAges DEF NotOlder
  <2>6. NotOlder(r, aloop.list)'
    BY <1>3, <1>4, <1>6, <2>2, <2>4, NotOlderAges DEF NotOlder
  <2>7. ASSUME NEW e \in Editors PROVE r \in DOMAIN edit'[e].list => edit'[e].list[r] <= since'[r]
    BY <1>3, <1>7, <2>2, <2>3, NotOlderAges
  <2>8. QED
    BY <2>5, <2>6, <2>7 DEF NotOlder
<1>10. ListsBelieved'
  <2>1. DOMAIN rules' = DOMAIN rules
    BY <1>1, <1>3, OlderList DEF AlertTypes
  <2>2. aloop'.pc # "sleep" => DOMAIN aloop'.list = DOMAIN rules
    <3>1. CASE list = rules
      BY <1>5, <1>6, <3>1
    <3>2. CASE DOMAIN list = {}
      <4>1. DOMAIN Alerts!Older(list) = {}
        BY <1>5, <3>2
      <4>2. Alerts!Continue(Alerts!Older(list), DOMAIN list) = Alerts!Asleep
        BY <3>2, <4>1 DEF Alerts!Continue
      <4>3. QED
        BY <1>2, <4>2 DEF Alerts!Asleep
    <3>3. QED
      BY <1>4, <3>1, <3>2
  <2>3. \A e \in Editors : DOMAIN edit'[e].list = DOMAIN edit[e].list
    BY <1>1, <1>7, OlderList DEF AlertTypes, IsEdit
  <2>4. believed' = believed /\ aloop.pc = "sleep"
    BY <1>3
  <2>5. ASSUME NEW r \in Rules PROVE AsBelieved(r, rules)'
    BY <1>1, <2>1, <2>4 DEF ListsBelieved, AsBelieved
  <2>6. ASSUME NEW r \in Rules, aloop'.pc # "sleep" PROVE AsBelieved(r, aloop.list)'
    BY <1>1, <2>2, <2>4, <2>6 DEF ListsBelieved, AsBelieved
  <2>7. ASSUME NEW r \in Rules, NEW e \in Editors, edit'[e].pc = "write" /\ edit'[e].rule # r
        PROVE  AsBelieved(r, edit[e].list)'
    <3>1. AsBelieved(r, edit[e].list)
      BY <1>1, <1>7, <2>7 DEF ListsBelieved
    <3>2. QED
      BY <2>3, <2>4, <3>1 DEF AsBelieved
  <2>8. QED
    BY <2>5, <2>6, <2>7 DEF ListsBelieved
<1>11. QED
  BY <1>1, <1>3, <1>8, <1>9, <1>10 DEF AlertInv, CooldownKept

(* One rule is evaluated.  It fires only when the copy says that it is     *)
(* long enough ago, and the copy does not exaggerate.                      *)
LEMMA EvaluateInv ==
  ASSUME AlertInv, NEW r \in Rules, Alerts!Evaluate(r)
  PROVE  AlertInv'
<1>1. AlertTypes /\ MarksKept /\ ListsBelieved /\ CooldownKept
  BY DEF AlertInv
<1>2. /\ aloop.pc # "sleep" /\ r \in aloop.todo /\ r \in DOMAIN aloop.list
      /\ Alerts!IsList(aloop.list) /\ aloop.todo \subseteq DOMAIN aloop.list
      /\ UNCHANGED <<rules, edit, believed>>
  BY <1>1 DEF Alerts!Evaluate, AlertTypes, IsLoop
<1>3. CASE Alerts!Pass(r)
  <2>1. aloop' = Alerts!Continue(aloop.list, aloop.todo \ {r}) /\ UNCHANGED <<since, early, forgotten>>
    BY <1>3 DEF Alerts!Pass
  <2>2. /\ IsLoop(aloop')
        /\ aloop'.pc # "sleep" => aloop'.list = aloop.list
        /\ aloop'.pc = "sleep" => DOMAIN aloop'.list = {}
                                  /\ \A q \in DOMAIN aloop.list : aloop.list[q] # 0
    BY <1>2, <2>1, ContinueFacts
  <2>3. AlertTypes'
    BY <1>1, <1>2, <2>1, <2>2 DEF AlertTypes, IsLoop, IsEdit, Alerts!IsList
  <2>4. Alerts!Unsaved' = Alerts!Unsaved
    BY <2>2 DEF Alerts!Unsaved
  <2>5. MarksKept'
    BY <1>1, <1>2, <2>1, <2>2, <2>4 DEF MarksKept, NotOlder
  <2>6. ListsBelieved'
    BY <1>1, <1>2, <2>2 DEF ListsBelieved, AsBelieved
  <2>7. QED
    BY <1>1, <2>1, <2>3, <2>5, <2>6 DEF AlertInv, CooldownKept
<1>4. CASE ~Alerts!Cooling(r) /\ Alerts!Fire(r)
  <2>1. PICK list : list = [aloop.list EXCEPT ![r] = 0]
    OBVIOUS
  <2>2. /\ aloop' = Alerts!Continue(list, aloop.todo \ {r})
        /\ since' = [since EXCEPT ![r] = 0]
        /\ early' = IF since[r] < Cooldown /\ r \notin forgotten THEN early \cup {r} ELSE early
        /\ forgotten' = forgotten \ {r}
    BY <1>4, <2>1 DEF Alerts!Fire
  <2>3. /\ Alerts!IsList(list) /\ DOMAIN list = DOMAIN aloop.list /\ list[r] = 0
        /\ \A q \in DOMAIN list \ {r} : list[q] = aloop.list[q]
    BY <1>2, <2>1, AlertAssumption DEF Alerts!IsList
  <2>4. IsLoop(aloop') /\ aloop'.pc # "sleep" /\ aloop'.list = list
    BY <1>2, <2>2, <2>3, ContinueFacts
  <2>5. /\ since' \in [Rules -> 0..Cooldown] /\ since'[r] = 0
        /\ \A q \in Rules \ {r} : since'[q] = since[q]
    BY <1>1, <2>2, AlertAssumption DEF AlertTypes
  <2>6. early' = early
    <3>1. ASSUME r \notin forgotten PROVE ~(since[r] < Cooldown)
      <4>1. aloop.list[r] <= since[r]
        BY <1>1, <1>2, <3>1 DEF MarksKept, NotOlder
      <4>2. ~(aloop.list[r] < Cooldown)
        BY <1>4 DEF Alerts!Cooling
      <4>3. aloop.list[r] \in 0..Cooldown /\ since[r] \in 0..Cooldown
        BY <1>1, <1>2 DEF AlertTypes, Alerts!IsList
      <4>4. QED
        BY <4>1, <4>2, <4>3, AlertAssumption
    <3>2. QED
      BY <2>2, <3>1
  <2>7. AlertTypes'
    <3>1. {forgotten', early'} \subseteq SUBSET Rules
      BY <1>1, <2>2, <2>6 DEF AlertTypes
    <3>2. IsLoop(aloop)'
      BY <2>4 DEF IsLoop, Alerts!IsList
    <3>3. QED
      BY <1>1, <1>2, <2>5, <3>1, <3>2 DEF AlertTypes, IsEdit, Alerts!IsList
  <2>8. MarksKept'
    <3>1. r \in Alerts!Unsaved' /\ NotOlder(r, aloop.list)'
      BY <1>2, <2>3, <2>4, <2>5 DEF Alerts!Unsaved, NotOlder
    <3>2. \A q \in Rules \ {r} : /\ q \in Alerts!Unsaved' <=> q \in Alerts!Unsaved
                                 /\ NotOlder(q, aloop.list)' <=> NotOlder(q, aloop.list)
      BY <2>3, <2>4, <2>5 DEF Alerts!Unsaved, NotOlder
    <3>3. ASSUME NEW q \in Rules \ forgotten', q # r
          PROVE  /\ NotOlder(q, aloop.list)'
                 /\ q \notin Alerts!Unsaved' =>
                      NotOlder(q, rules)' /\ \A e \in Editors : NotOlder(q, edit[e].list)'
      BY <1>1, <1>2, <2>2, <2>5, <3>2, <3>3 DEF MarksKept, NotOlder
    <3>4. QED
      BY <3>1, <3>3 DEF MarksKept
  <2>9. ListsBelieved'
    BY <1>1, <1>2, <2>3, <2>4 DEF ListsBelieved, AsBelieved
  <2>10. QED
    BY <1>1, <2>6, <2>7, <2>8, <2>9 DEF AlertInv, CooldownKept
<1>5. QED
  BY <1>3, <1>4 DEF Alerts!Evaluate

(* The copy is written back: what it lost is a mark that a request read    *)
(* before, or a rule that is no longer believed in.                        *)
LEMMA AlertWriteInv ==
  ASSUME AlertInv, Alerts!AlertWrite
  PROVE  AlertInv'
<1>1. AlertTypes /\ MarksKept /\ ListsBelieved /\ CooldownKept
  BY DEF AlertInv
<1>2. /\ aloop.pc # "sleep" /\ rules' = aloop.list /\ aloop' = Alerts!Asleep
      /\ forgotten' = IF Alerts!Editing = {} THEN forgotten ELSE forgotten \cup Alerts!Unsaved
      /\ UNCHANGED <<edit, believed, since, early>>
  BY DEF Alerts!AlertWrite
<1>3. IsLoop(aloop') /\ DOMAIN aloop'.list = {} /\ aloop'.pc = "sleep"
  BY <1>2, ListFacts DEF Alerts!Asleep
<1>4. AlertTypes'
  <2>1. Alerts!IsList(rules')
    BY <1>1, <1>2 DEF AlertTypes, IsLoop
  <2>2. forgotten' \in SUBSET Rules
    BY <1>1, <1>2 DEF AlertTypes, IsLoop, Alerts!IsList, Alerts!Unsaved
  <2>3. QED
    BY <1>1, <1>2, <1>3, <2>1, <2>2 DEF AlertTypes, IsLoop, IsEdit, Alerts!IsList
<1>5. MarksKept'
  <2>1. SUFFICES ASSUME NEW r \in Rules \ forgotten'
                 PROVE  /\ NotOlder(r, aloop.list)'
                        /\ NotOlder(r, rules)'
                        /\ \A e \in Editors : NotOlder(r, edit[e].list)'
    BY DEF MarksKept
  <2>2. r \notin forgotten /\ NotOlder(r, aloop.list)
    BY <1>1, <1>2, <2>1 DEF MarksKept
  <2>3. \A e \in Editors : NotOlder(r, edit[e].list)
    <3>1. CASE Alerts!Editing = {}
      BY <1>1, <3>1 DEF Alerts!Editing, AlertTypes, IsEdit, NotOlder
    <3>2. CASE Alerts!Editing # {}
      BY <1>1, <1>2, <2>1, <3>2 DEF MarksKept
    <3>3. QED
      BY <3>1, <3>2
  <2>4. QED
    BY <1>2, <1>3, <2>2, <2>3 DEF NotOlder
<1>6. ListsBelieved'
  BY <1>1, <1>2, <1>3 DEF ListsBelieved, AsBelieved
<1>7. QED
  BY <1>1, <1>2, <1>4, <1>5, <1>6 DEF AlertInv, CooldownKept

-----------------------------------------------------------------------------
(* A request reads the file and changes what it read of one rule.          *)
LEMMA EditLoadInv ==
  ASSUME AlertInv, NEW e \in Editors, NEW r \in Rules, NEW list, NEW changed,
         Alerts!EditLoad(e, r, list, changed),
         Alerts!IsList(changed),
         \A q \in Rules \ {r} : /\ q \in DOMAIN changed <=> q \in DOMAIN list
                                /\ q \in DOMAIN changed => changed[q] = list[q],
         forgotten \subseteq forgotten', forgotten' \subseteq Rules,
         r \in DOMAIN changed => r \in forgotten'
  PROVE  AlertInv'
<1>1. AlertTypes /\ MarksKept /\ ListsBelieved /\ CooldownKept
  BY DEF AlertInv
<1>2. PICK d : d = [pc |-> "write", rule |-> r, list |-> changed]
  OBVIOUS
<1>3. /\ edit' = [edit EXCEPT ![e] = d]
      /\ believed' = IF list = rules THEN believed ELSE [q \in Rules |-> "unsure"]
      /\ UNCHANGED <<rules, aloop, since, early>>
      /\ list = rules \/ DOMAIN list = {}
  BY <1>2, ListFacts DEF Alerts!EditLoad, Alerts!Loaded
<1>4. d.pc = "write" /\ d.rule = r /\ d.list = changed /\ IsEdit(d)
  BY <1>2 DEF IsEdit
<1>5. edit'[e] = d /\ (\A f \in Editors \ {e} : edit'[f] = edit[f])
      /\ edit' = [f \in Editors |-> edit'[f]]
  BY <1>1, <1>3 DEF AlertTypes
<1>6. AlertTypes'
  <2>1. \A f \in Editors : IsEdit(edit'[f])
    BY <1>1, <1>4, <1>5 DEF AlertTypes
  <2>2. believed' \in [Rules -> {"in", "out", "unsure"}]
    BY <1>1, <1>3 DEF AlertTypes
  <2>3. QED
    BY <1>1, <1>3, <1>5, <2>1, <2>2 DEF AlertTypes, IsLoop, IsEdit, Alerts!IsList
<1>7. MarksKept'
  <2>1. SUFFICES ASSUME NEW q \in Rules \ forgotten'
                 PROVE  /\ NotOlder(q, aloop.list)'
                        /\ q \notin Alerts!Unsaved' =>
                             NotOlder(q, rules)' /\ \A f \in Editors : NotOlder(q, edit[f].list)'
    BY DEF MarksKept
  <2>2. NotOlder(q, aloop.list) /\ Alerts!Unsaved' = Alerts!Unsaved
    BY <1>1, <1>3 DEF MarksKept, Alerts!Unsaved
  <2>3. ASSUME q \notin Alerts!Unsaved PROVE NotOlder(q, rules) /\ NotOlder(q, changed)
    <3>1. NotOlder(q, rules)
      BY <1>1, <2>3 DEF MarksKept
    <3>2. q \in DOMAIN changed => q # r /\ q \in DOMAIN list /\ changed[q] = list[q]
      BY <2>1
    <3>3. QED
      BY <1>3, <3>1, <3>2 DEF NotOlder
  <2>4. QED
    BY <1>1, <1>3, <1>4, <1>5, <2>2, <2>3 DEF MarksKept, NotOlder
<1>8. ListsBelieved'
  <2>1. CASE list = rules
    BY <1>1, <1>3, <1>4, <1>5, <2>1 DEF ListsBelieved, AsBelieved
  <2>2. CASE list # rules
    BY <1>3, <2>2 DEF ListsBelieved, AsBelieved
  <2>3. QED
    BY <2>1, <2>2
<1>9. QED
  BY <1>1, <1>3, <1>6, <1>7, <1>8 DEF AlertInv, CooldownKept

(* A request writes its list.                                              *)
LEMMA EditWriteInv ==
  ASSUME AlertInv, NEW e \in Editors, Alerts!EditWrite(e)
  PROVE  AlertInv'
<1>1. AlertTypes /\ MarksKept /\ ListsBelieved /\ CooldownKept
  BY DEF AlertInv
<1>2. PICK r, list : r = edit[e].rule /\ list = edit[e].list
  OBVIOUS
<1>3. /\ edit[e].pc = "write" /\ rules' = list /\ edit' = [edit EXCEPT ![e] = Alerts!IdleEdit]
      /\ believed' = [believed EXCEPT ![r] =
           IF aloop.pc # "sleep" \/ Alerts!Editing # {e} THEN "unsure"
           ELSE IF r \in DOMAIN list THEN "in" ELSE "out"]
      /\ UNCHANGED <<aloop, since, forgotten, early>>
  BY <1>2 DEF Alerts!EditWrite
<1>4. r \in Rules /\ Alerts!IsList(list)
  BY <1>1, <1>2, <1>3 DEF AlertTypes, IsEdit
<1>5. /\ edit'[e] = Alerts!IdleEdit /\ (\A f \in Editors \ {e} : edit'[f] = edit[f])
      /\ edit' = [f \in Editors |-> edit'[f]]
  BY <1>1, <1>3 DEF AlertTypes
<1>6. IsEdit(Alerts!IdleEdit) /\ DOMAIN Alerts!IdleEdit.list = {} /\ Alerts!IdleEdit.pc = "idle"
  BY ListFacts DEF Alerts!IdleEdit
<1>7. /\ believed' \in [Rules -> {"in", "out", "unsure"}]
      /\ \A q \in Rules \ {r} : believed'[q] = believed[q]
      /\ AsBelieved(r, list)'
      /\ aloop.pc # "sleep" \/ Alerts!Editing # {e} => believed'[r] = "unsure"
  BY <1>1, <1>3, <1>4 DEF AlertTypes, AsBelieved
<1>8. AlertTypes'
  <2>1. \A f \in Editors : IsEdit(edit'[f])
    BY <1>1, <1>5, <1>6 DEF AlertTypes
  <2>2. QED
    BY <1>1, <1>3, <1>4, <1>5, <1>7, <2>1 DEF AlertTypes, IsLoop, IsEdit, Alerts!IsList
<1>9. MarksKept'
  <2>1. Alerts!Unsaved' = Alerts!Unsaved
    BY <1>3 DEF Alerts!Unsaved
  <2>2. QED
    BY <1>1, <1>2, <1>3, <1>5, <1>6, <2>1 DEF MarksKept, NotOlder
<1>10. ListsBelieved'
  <2>1. \A q \in Rules : AsBelieved(q, rules)'
    BY <1>1, <1>2, <1>3, <1>7 DEF ListsBelieved, AsBelieved
  <2>2. \A q \in Rules : aloop'.pc # "sleep" => AsBelieved(q, aloop.list)'
    BY <1>1, <1>3, <1>7 DEF ListsBelieved, AsBelieved
  <2>3. ASSUME NEW q \in Rules, NEW f \in Editors, edit'[f].pc = "write", edit'[f].rule # q
        PROVE  AsBelieved(q, edit[f].list)'
    <3>1. f # e /\ edit'[f] = edit[f]
      BY <1>5, <1>6, <2>3
    <3>2. Alerts!Editing # {e}
      BY <2>3, <3>1 DEF Alerts!Editing
    <3>3. CASE q = r
      BY <1>7, <3>2, <3>3 DEF AsBelieved
    <3>4. CASE q # r
      BY <1>1, <1>7, <2>3, <3>1, <3>4 DEF ListsBelieved, AsBelieved
    <3>5. QED
      BY <3>3, <3>4
  <2>4. QED
    BY <2>1, <2>2, <2>3 DEF ListsBelieved
<1>11. QED
  BY <1>1, <1>3, <1>8, <1>9, <1>10 DEF AlertInv, CooldownKept

(* Creating and deleting a rule.                                           *)
LEMMA EditInv ==
  ASSUME AlertInv, NEW e \in Editors, Edit(e)
  PROVE  AlertInv'
<1>1. AlertTypes
  BY DEF AlertInv
<1>2. ASSUME NEW r \in Rules, Alerts!Create(e, r) PROVE AlertInv'
  <2>1. PICK list \in {rules, Alerts!NoRules} :
          Alerts!EditLoad(e, r, list,
            [q \in DOMAIN list \cup {r} |-> IF q = r THEN Alerts!Never ELSE list[q]])
    BY <1>2 DEF Alerts!Create
  <2>2. PICK changed :
          changed = [q \in DOMAIN list \cup {r} |-> IF q = r THEN Alerts!Never ELSE list[q]]
    OBVIOUS
  <2>3. Alerts!IsList(list)
    BY <1>1, <2>1, ListFacts DEF AlertTypes
  <2>4. /\ Alerts!IsList(changed)
        /\ \A q \in Rules \ {r} : /\ q \in DOMAIN changed <=> q \in DOMAIN list
                                  /\ q \in DOMAIN changed => changed[q] = list[q]
    BY <2>2, <2>3, ListFacts DEF Alerts!IsList
  <2>5. /\ forgotten \subseteq forgotten' /\ forgotten' \subseteq Rules
        /\ r \in DOMAIN changed => r \in forgotten'
    BY <1>1, <1>2 DEF Alerts!Create, AlertTypes
  <2>6. QED
    BY <2>1, <2>2, <2>4, <2>5, EditLoadInv
<1>3. ASSUME NEW r \in Rules, Alerts!Delete(e, r) PROVE AlertInv'
  <2>1. PICK changed : changed = [q \in DOMAIN rules \ {r} |-> rules[q]]
    OBVIOUS
  <2>2. Alerts!EditLoad(e, r, rules, changed)
    BY <1>3, <2>1 DEF Alerts!Delete
  <2>3. /\ Alerts!IsList(changed)
        /\ \A q \in Rules \ {r} : /\ q \in DOMAIN changed <=> q \in DOMAIN rules
                                  /\ q \in DOMAIN changed => changed[q] = rules[q]
    BY <1>1, <2>1 DEF AlertTypes, Alerts!IsList
  <2>4. /\ forgotten \subseteq forgotten' /\ forgotten' \subseteq Rules
        /\ r \in DOMAIN changed => r \in forgotten'
    BY <1>1, <1>3, <2>1 DEF Alerts!Delete, AlertTypes
  <2>5. QED
    BY <2>2, <2>3, <2>4, EditLoadInv
<1>4. QED
  BY <1>2, <1>3, EditWriteInv DEF Edit

(* The node ends: what is lost is forgotten.                               *)
LEMMA AlertRestartInv ==
  ASSUME AlertInv, Alerts!AlertRestart
  PROVE  AlertInv'
<1>1. AlertTypes /\ MarksKept /\ ListsBelieved /\ CooldownKept
  BY DEF AlertInv
<1>2. /\ aloop' = Alerts!Asleep /\ edit' = [e \in Editors |-> Alerts!IdleEdit]
      /\ forgotten' = forgotten \cup Alerts!Unsaved /\ UNCHANGED <<since, early>>
      /\ \/ UNCHANGED <<rules, believed>>
         \/ rules' = Alerts!NoRules /\ believed' = [r \in Rules |-> "unsure"]
  BY DEF Alerts!AlertRestart
<1>3. IsLoop(aloop') /\ DOMAIN aloop'.list = {} /\ aloop'.pc = "sleep"
  BY <1>2, ListFacts DEF Alerts!Asleep
<1>4. \A e \in Editors : IsEdit(edit'[e]) /\ DOMAIN edit'[e].list = {} /\ edit'[e].pc = "idle"
  BY <1>2, ListFacts DEF Alerts!IdleEdit
<1>5. AlertTypes'
  <2>1. Alerts!IsList(rules') /\ believed' \in [Rules -> {"in", "out", "unsure"}]
    BY <1>1, <1>2, ListFacts DEF AlertTypes
  <2>2. forgotten' \in SUBSET Rules
    BY <1>1, <1>2 DEF AlertTypes, IsLoop, Alerts!IsList, Alerts!Unsaved
  <2>3. edit' = [e \in Editors |-> edit'[e]]
    BY <1>2
  <2>4. QED
    BY <1>1, <1>2, <1>3, <1>4, <2>1, <2>2, <2>3 DEF AlertTypes, IsLoop, IsEdit, Alerts!IsList
<1>6. MarksKept'
  BY <1>1, <1>2, <1>3, <1>4, ListFacts DEF MarksKept, NotOlder
<1>7. ListsBelieved'
  BY <1>1, <1>2, <1>3, <1>4 DEF ListsBelieved, AsBelieved
<1>8. QED
  BY <1>1, <1>2, <1>5, <1>6, <1>7 DEF AlertInv, CooldownKept

(* Every step keeps the alerting side.                                     *)
LEMMA AlertStep == AlertInv /\ [Next]_vars => AlertInv'
<1> SUFFICES ASSUME AlertInv, [Next]_vars PROVE AlertInv'
  OBVIOUS
<1>1. CASE AlertLoop
  BY <1>1, AlertLoadInv, EvaluateInv, AlertWriteInv DEF AlertLoop
<1>2. CASE Alerts!AlertRestart
  BY <1>2, AlertRestartInv
<1>3. CASE UNCHANGED avars
  BY <1>3 DEF avars, AlertInv, AlertTypes, MarksKept, ListsBelieved, CooldownKept, NotOlder,
              AsBelieved, IsLoop, IsEdit, Alerts!IsList, Alerts!Unsaved
<1>4. QED
  BY <1>1, <1>2, <1>3, EditInv DEF Next, vars

(* The loop and the requests begin idle, with rules that never fired.      *)
LEMMA InitAlert == Init => AlertInv
<1> SUFFICES ASSUME Init PROVE AlertInv
  OBVIOUS
<1>1. Alerts!AInit
  BY DEF Init
<1>2. Alerts!IsList(rules)
  BY <1>1, ListFacts DEF Alerts!AInit, Alerts!IsList
<1>3. AlertTypes
  BY <1>1, <1>2, ListFacts DEF Alerts!AInit, AlertTypes
<1>4. aloop.pc = "sleep" /\ DOMAIN aloop.list = {} /\ early = {}
  BY <1>1, ListFacts DEF Alerts!AInit, Alerts!Asleep
<1>5. \A e \in Editors : edit[e].pc = "idle" /\ DOMAIN edit[e].list = {}
  BY <1>1, ListFacts DEF Alerts!AInit, Alerts!IdleEdit
<1>6. MarksKept
  <2>1. \A r \in Rules : since[r] = Cooldown /\ (r \in DOMAIN rules => rules[r] = Cooldown)
    BY <1>1 DEF Alerts!AInit, Alerts!Never
  <2>2. QED
    BY <1>4, <1>5, <2>1, AlertAssumption DEF MarksKept, NotOlder
<1>7. ListsBelieved
  BY <1>1, <1>4, <1>5 DEF Alerts!AInit, ListsBelieved, AsBelieved
<1>8. QED
  BY <1>3, <1>4, <1>6, <1>7 DEF AlertInv, CooldownKept

(* Both sides.                                                             *)
LEMMA Invariant == Spec => [](HealthInv /\ AlertInv)
<1>1. HealthInv /\ [Next]_vars => HealthInv'
  BY HealthStep
<1>2. QED
  BY InitHealth, InitAlert, <1>1, AlertStep, PTL DEF Spec

(* Records, scores, counts, lists of rules and their ages stay in their    *)
(* ranges: the list of recent crashes is bounded by the window, and the    *)
(* score never leaves 0..100.                                              *)
THEOREM TypesHold == Spec => []TypeOK
<1>1. HealthInv /\ AlertInv => TypeOK
  BY DEF HealthInv, HealthTypes, ListTypes, LoopTypes, AlertInv, AlertTypes, IsLoop, IsEdit, TypeOK
<1>2. QED
  BY <1>1, Invariant, PTL

(* A rule fires again within its cooldown only if the mark of its firing   *)
(* was lost to a request that had read the file before, or to the end of   *)
(* the node: nothing else in the loop's late write makes it forget.        *)
THEOREM CooldownsKept == Spec => []CooldownKept
<1>1. AlertInv => CooldownKept
  BY DEF AlertInv
<1>2. QED
  BY <1>1, Invariant, PTL

(* A rule that was created is in the file and one that was deleted is not, *)
(* where no other writer was between its read and its write: the loop does *)
(* not bring back or drop what it was not evaluating meanwhile.            *)
THEOREM EditsKept == Spec => []RulesAsEdited
<1>1. AlertInv => RulesAsEdited
  BY DEF AlertInv, ListsBelieved, AsBelieved, RulesAsEdited
<1>2. QED
  BY <1>1, Invariant, PTL

=============================================================================
