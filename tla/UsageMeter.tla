----------------------------- MODULE UsageMeter ------------------------------
(***************************************************************************)
(* One tenant's usage file.  The handlers that start and stop agents and   *)
(* the metering loop load it, count one event and write it back; a reset   *)
(* writes zeros without looking.  A start counts although the sweep of the *)
(* runtime has just killed an instance of the same agent, for which no     *)
(* stop is counted.  Times, seconds and gigabytes are left out: a sample   *)
(* adds one.                                                               *)
(***************************************************************************)
EXTENDS Naturals, FiniteSets

CONSTANTS Agents, Tasks, MaxOps, MaxCrashes

VARIABLES
  usage,    \* the file
  meter,    \* what each task is about to write, and why
  listed,   \* agents with a running record in the tenant's instance list
  billed,   \* history: events written since the last reset
  ops, uncrashed,  \* bounds: requests so far, crashes left
  tangled,  \* history: two tasks held the file, or one died with it
  overtaken, \* history: a reset was made while a task held older numbers
  drifted   \* history: a start of a listed agent, or a reset while one was

uvars == <<usage, meter, listed, billed, ops, uncrashed, tangled, overtaken, drifted>>

Zero == [starts |-> 0, stops |-> 0, current |-> 0, samples |-> 0]
Idle == [pc |-> "idle", event |-> "none", copy |-> Zero]
Busy == {k \in Tasks : meter[k].pc # "idle"}
Holding == {k \in Tasks : meter[k].pc = "save"}

UInit ==
  /\ usage = Zero /\ billed = Zero
  /\ meter = [k \in Tasks |-> Idle]
  /\ listed = {} /\ ops = 0 /\ uncrashed = MaxCrashes
  /\ tangled = FALSE /\ overtaken = FALSE /\ drifted = FALSE

(* load_usage: a file that is being rewritten may not parse.               *)
Loaded == {usage} \cup (IF Holding = {} THEN {} ELSE {Zero})

(* Mutant of Counted: a start is not told from a replacement.              *)
Counted_Once(u, event) ==
  CASE event = "start" -> [u EXCEPT !.starts = @ + 1, !.current = 1]
    [] event = "stop" -> [u EXCEPT !.stops = @ + 1, !.current = IF @ = 0 THEN 0 ELSE @ - 1]
    [] event = "sample" -> [u EXCEPT !.samples = @ + 1]
    [] event = "reset" -> Zero

(* record_start, record_stop (saturating), record_sample, reset_usage.     *)
Counted(u, event) ==
  CASE event = "start" -> [u EXCEPT !.starts = @ + 1, !.current = @ + 1]
    [] event = "stop" -> [u EXCEPT !.stops = @ + 1, !.current = IF @ = 0 THEN 0 ELSE @ - 1]
    [] event = "sample" -> [u EXCEPT !.samples = @ + 1]
    [] event = "reset" -> Zero

-----------------------------------------------------------------------------
(* A handler has started an agent and listed it, or stopped and unlisted   *)
(* one; the loop has found a process.                                      *)
Begin(k, event) ==
  /\ meter[k].pc = "idle" /\ ops < MaxOps
  /\ ops' = ops + 1
  /\ \/ /\ event = "start"
        /\ \E a \in Agents :
             /\ listed' = listed \cup {a}
             /\ drifted' = (drifted \/ a \in listed)
     \/ /\ event = "stop"
        /\ \E a \in listed : listed' = listed \ {a}
        /\ UNCHANGED drifted
     \/ /\ event = "sample" /\ listed # {}
        /\ UNCHANGED <<listed, drifted>>
     \/ /\ event = "reset"
        /\ drifted' = (drifted \/ listed # {})
        /\ UNCHANGED listed
  /\ meter' = [meter EXCEPT ![k] = [Idle EXCEPT !.pc = "load", !.event = event]]
  /\ UNCHANGED <<usage, billed, uncrashed, tangled, overtaken>>

Load(k) ==
  /\ meter[k].pc = "load"
  /\ \E u \in Loaded :
       meter' = [meter EXCEPT ![k].pc = "save", ![k].copy = Counted(u, meter[k].event)]
  /\ tangled' = (tangled \/ Busy # {k})
  /\ UNCHANGED <<usage, listed, billed, ops, uncrashed, overtaken, drifted>>

(* save_usage: a file that two tasks write at once may not parse after.     *)
Save(k) ==
  /\ meter[k].pc = "save"
  /\ usage' = meter[k].copy \/ (Holding # {k} /\ usage' = Zero)
  /\ billed' = Counted(billed, meter[k].event)
  /\ overtaken' = (overtaken \/ (meter[k].event = "reset" /\ Holding # {k}))
  /\ meter' = [meter EXCEPT ![k] = Idle]
  /\ UNCHANGED <<listed, ops, uncrashed, tangled, drifted>>

(* The node is killed: a file that is being written may stay cut short.    *)
UCrash ==
  /\ uncrashed > 0
  /\ uncrashed' = uncrashed - 1
  /\ usage' \in Loaded
  /\ meter' = [k \in Tasks |-> Idle]
  /\ tangled' = (tangled \/ Busy # {})
  /\ UNCHANGED <<listed, billed, ops, overtaken, drifted>>

UNext ==
  \/ \E k \in Tasks, event \in {"start", "stop", "sample", "reset"} : Begin(k, event)
  \/ \E k \in Tasks : Load(k) \/ Save(k)
  \/ UCrash

USpec == UInit /\ [][UNext]_uvars

-----------------------------------------------------------------------------
Counts == [starts: Nat, stops: Nat, current: Nat, samples: Nat]

UTypeOK ==
  /\ {usage, billed} \subseteq Counts
  /\ meter \in [Tasks -> [pc: {"idle", "load", "save"}, copy: Counts,
                          event: {"none", "start", "stop", "sample", "reset"}]]
  /\ listed \subseteq Agents /\ ops \in 0..MaxOps /\ uncrashed \in 0..MaxCrashes
  /\ {tangled, overtaken, drifted} \subseteq BOOLEAN

(* What a billing pipeline reads.  Races lose events and never invent one: *)
(* no tenant is charged for more than happened since the last reset,       *)
(* unless a task that had loaded the old numbers wrote them back over it.  *)
(* Without a race the file is exact, and current_instances is the number   *)
(* of running records, unless an agent was started over itself or the      *)
(* counters were reset under a running one.                                *)
MeterHonest ==
  /\ ~overtaken => \A c \in {"starts", "stops", "samples"} : usage[c] <= billed[c]
  /\ ~tangled /\ Busy = {} =>
       /\ \A c \in {"starts", "stops", "samples"} : usage[c] = billed[c]
       /\ ~drifted => usage.current = Cardinality(listed)
=============================================================================
