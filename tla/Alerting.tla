------------------------------ MODULE Alerting ------------------------------
(***************************************************************************)
(* alerting.rs: the rules file, the loop that every 30 s evaluates a copy  *)
(* of it, and the requests that create and delete rules.  The loop reads   *)
(* the file, awaits the delivery of every alert, and only then writes its  *)
(* copy back, with the new times of firing; a request reads and writes at  *)
(* any moment.  A file that is being rewritten reads as no rules.          *)
(*                                                                         *)
(* The time a rule fired is an age in rounds of the loop, which stops at   *)
(* Cooldown: older is the same as never.  The order of the rules in the    *)
(* list is left out; enabled is always true, as create_rule makes it, and  *)
(* a delivery that fails counts as one that succeeds, as in the code.      *)
(***************************************************************************)
EXTENDS Naturals, FiniteSets

CONSTANTS
  Rules,      \* ids of rules, each with its metric and threshold
  Cooldown,   \* cooldown_secs, in rounds
  Editors,    \* requests that create or delete a rule
  NoRule,
  MaxEvents   \* bound of the model: edits, and metrics that could not be read

VARIABLES
  breached,   \* rules whose metric can be read to be over the threshold ...
  missed,     \* ... and those for which it can be read not to be
  rules,      \* the rules file: for each rule how long ago it fired
  aloop,      \* where the loop is, its copy of the rules, and what is left
  edit,       \* local state of the requests
  believed,   \* history: what the last edit of a rule says of it, unless
              \* another writer was at work
  since,      \* history: rounds since the rule really fired
  forgotten,  \* history: rules whose firing was not kept in the file
  early,      \* history: rules that fired again within the cooldown
  events

NoRules == [r \in {} |-> 0]
Never == Cooldown
Asleep == [pc |-> "sleep", list |-> NoRules, todo |-> {}]
IdleEdit == [pc |-> "idle", rule |-> NoRule, list |-> NoRules]

IsList(list) == DOMAIN list \subseteq Rules /\ list \in [DOMAIN list -> 0..Cooldown]

Older(list) == [r \in DOMAIN list |-> IF list[r] < Cooldown THEN list[r] + 1 ELSE Never]

Event == events < MaxEvents /\ events' = events + 1

Editing == {e \in Editors : edit[e].pc = "write"}

(* load_rules.                                                             *)
Loaded(writing) == {rules} \cup (IF writing THEN {NoRules} ELSE {})

(* Mutant of Continue: the copy is written back in every round.            *)
Continue_Always(list, todo) ==
  IF todo # {} THEN [pc |-> "evaluate", list |-> list, todo |-> todo]
  ELSE [pc |-> "write", list |-> list, todo |-> {}]

(* Where the loop goes on: once all rules are evaluated, the copy is       *)
(* written back if any of them fired in this round.                        *)
Continue(list, todo) ==
  IF todo # {} THEN [pc |-> "evaluate", list |-> list, todo |-> todo]
  ELSE IF \E r \in DOMAIN list : list[r] = 0 THEN [pc |-> "write", list |-> list, todo |-> {}]
  ELSE Asleep

(* Marks in the loop's copy that are not in the file yet.                  *)
Unsaved == {r \in DOMAIN aloop.list : aloop.list[r] = 0}

-----------------------------------------------------------------------------
AInit ==
  /\ rules \in {[r \in rs |-> Never] : rs \in SUBSET Rules}
  /\ aloop = Asleep
  /\ edit = [e \in Editors |-> IdleEdit]
  /\ believed = [r \in Rules |-> IF r \in DOMAIN rules THEN "in" ELSE "out"]
  /\ since = [r \in Rules |-> Never]
  /\ forgotten = {} /\ early = {}

-----------------------------------------------------------------------------
(* A round begins; `now` is taken once for all rules.                      *)
AlertLoad ==
  /\ aloop.pc = "sleep"
  /\ rules' = Older(rules)
  /\ \E list \in Loaded(Editing # {}) :
       aloop' = Continue(Older(list), DOMAIN list)
  /\ edit' = [e \in Editors |-> [edit[e] EXCEPT !.list = Older(@)]]
  /\ since' = Older(since)
  /\ UNCHANGED <<believed, forgotten, early, events>>

(* Mutant of Cooling: one round short.                                     *)
Cooling_Short(r) == aloop.list[r] + 1 < Cooldown

Cooling(r) == aloop.list[r] < Cooldown

Fire(r) ==
  /\ aloop' = Continue([aloop.list EXCEPT ![r] = 0], aloop.todo \ {r})
  /\ since' = [since EXCEPT ![r] = 0]
  /\ early' = IF since[r] < Cooldown /\ r \notin forgotten THEN early \cup {r} ELSE early
  /\ forgotten' = forgotten \ {r}

Pass(r) ==
  /\ aloop' = Continue(aloop.list, aloop.todo \ {r})
  /\ UNCHANGED <<since, early, forgotten>>

Evaluate(r) ==
  /\ aloop.pc = "evaluate" /\ r \in aloop.todo
  /\ \/ ~Cooling(r) /\ r \in breached /\ Fire(r) /\ UNCHANGED events
     \/ (Cooling(r) \/ r \notin breached) /\ Pass(r) /\ UNCHANGED events
     \/ /\ ~Cooling(r) /\ r \in breached \cap missed
        /\ Pass(r) /\ Event
  /\ UNCHANGED <<rules, edit, believed>>

AlertWrite ==
  /\ aloop.pc = "write"
  /\ rules' = aloop.list
  /\ aloop' = Asleep
  /\ forgotten' = IF Editing = {} THEN forgotten ELSE forgotten \cup Unsaved
  /\ UNCHANGED <<edit, believed, since, early, events>>

-----------------------------------------------------------------------------
(* create_rule and delete_rule: load the list, change it, write it.  A new *)
(* rule gets an id of its own and has never fired; deleting one that is    *)
(* not in the list fails.                                                  *)
EditLoad(e, r, list, changed) ==
  /\ edit[e].pc = "idle" /\ Event
  /\ list \in Loaded(aloop.pc = "write" \/ Editing # {})
  /\ edit' = [edit EXCEPT ![e] = [pc |-> "write", rule |-> r, list |-> changed]]
  /\ believed' = IF list = rules THEN believed ELSE [q \in Rules |-> "unsure"]
  /\ UNCHANGED <<rules, aloop, since, early>>

Create(e, r) ==
  /\ r \notin DOMAIN rules /\ \A f \in Editors : edit[f].rule # r
  /\ \E list \in {rules, NoRules} :
       EditLoad(e, r, list,
         [q \in DOMAIN list \cup {r} |-> IF q = r THEN Never ELSE list[q]])
  /\ forgotten' = forgotten \cup {r}

Delete(e, r) ==
  /\ r \in DOMAIN rules
  /\ EditLoad(e, r, rules, [q \in DOMAIN rules \ {r} |-> rules[q]])
  /\ UNCHANGED forgotten

EditWrite(e) ==
  /\ edit[e].pc = "write"
  /\ rules' = edit[e].list
  /\ edit' = [edit EXCEPT ![e] = IdleEdit]
  /\ LET r == edit[e].rule IN
     believed' = [believed EXCEPT ![r] =
       IF aloop.pc # "sleep" \/ Editing # {e} THEN "unsure"
       ELSE IF r \in DOMAIN edit[e].list THEN "in" ELSE "out"]
  /\ UNCHANGED <<aloop, since, forgotten, early, events>>

-----------------------------------------------------------------------------
(* The node ends: what was not written is lost, and so is the file if it   *)
(* was being written.                                                      *)
AlertRestart ==
  /\ aloop' = Asleep
  /\ edit' = [e \in Editors |-> IdleEdit]
  /\ forgotten' = forgotten \cup Unsaved
  /\ \/ UNCHANGED <<rules, believed>>
     \/ /\ aloop.pc = "write" \/ Editing # {}
        /\ rules' = NoRules
        /\ believed' = [r \in Rules |-> "unsure"]
  /\ UNCHANGED <<since, early>>
=============================================================================
