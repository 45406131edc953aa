----------------------------- MODULE ModelRouter -----------------------------
(***************************************************************************)
(* The registry of models, one file that registrations, removals and the   *)
(* feedback after every call rewrite whole, and the choice made from it.   *)
(* Prices are what one call with the request's tokens costs; providers,    *)
(* endpoints, wording and the usage records are left out.                  *)
(***************************************************************************)
EXTENDS Naturals, FiniteSets, SequencesExt

CONSTANTS
  Models,
  Records,       \* what may be registered: see Record
  Presets,       \* what the file may hold at first
  Requests,      \* what may be asked: see Request
  ModelPolicies, \* the tenant's part of it: see ModelPolicy
  Latencies, Capabilities, NoModel, Unlimited,
  Tasks, MaxOps, MaxCrashes

VARIABLES
  registry,  \* the file
  editor,    \* what each task is about to write
  known,     \* history: what the requests that have returned leave registered
  ops, uncrashed,  \* bounds: requests so far, crashes left
  blurred    \* history: two requests overlapped, or one died while it wrote

rvars == <<registry, editor, known, ops, uncrashed, blurred>>

Record == [id: Models, available: BOOLEAN, local: BOOLEAN, caps: SUBSET Capabilities,
           cost: Nat, priority: Nat, p50: Nat, p99: Nat]
Request == [prefer: Models \cup {NoModel}, cap: Nat, tokens: BOOLEAN,
            caps: SUBSET Capabilities, local: BOOLEAN, latency: Nat]
ModelPolicy == [allowed: SUBSET Models, prefer: Models \cup {NoModel}, cap: Nat, local: BOOLEAN]

Ready == [pc |-> "idle", copy |-> <<>>, drop |-> {}, add |-> {}]
Rewriting == {k \in Tasks : editor[k].pc = "save"}

RInit ==
  /\ registry \in Presets /\ known = Range(registry)
  /\ editor = [k \in Tasks |-> Ready]
  /\ ops = 0 /\ uncrashed = MaxCrashes /\ blurred = FALSE

(* load_model_registry: a file that is being rewritten may not parse.      *)
Registry == {registry} \cup (IF Rewriting = {} THEN {} ELSE {<<>>})

(* Mutant of Eligible: models that are down are not left out.              *)
Eligible_Down(m, mp, req) ==
  /\ (req.local \/ mp.local) => m.local
  /\ m.id \in mp.allowed
  /\ req.caps \subseteq m.caps
  /\ req.tokens => m.cost <= (IF mp.cap # Unlimited THEN mp.cap ELSE req.cap)
  /\ m.p50 <= req.latency

(* The filters of route.  A tenant's cap takes the place of the request's, *)
(* and neither counts when the tokens are not given.                       *)
Eligible(m, mp, req) ==
  /\ m.available
  /\ (req.local \/ mp.local) => m.local
  /\ m.id \in mp.allowed
  /\ req.caps \subseteq m.caps
  /\ req.tokens => m.cost <= (IF mp.cap # Unlimited THEN mp.cap ELSE req.cap)
  /\ m.p50 <= req.latency

(* The first of some positions of a list, the one that k - 1 of them come  *)
(* before, and the elements at them, in the order of the list.             *)
First(S) == CHOOSE i \in S : \A j \in S : i <= j
Nth(S, k) == CHOOSE i \in S : Cardinality({j \in S : j < i}) = k - 1
At(s, S) == [k \in 1..Cardinality(S) |-> s[Nth(S, k)]]

(* The preferred model, of the request before the policy's, or else the    *)
(* first of the lowest priority: its place among the candidates' places c. *)
Chosen(models, c, mp, req) ==
  LET prefer == IF req.prefer # NoModel THEN req.prefer ELSE mp.prefer
      preferred == {i \in c : models[i].id = prefer}
      lowest == {i \in c : \A j \in c : models[i].priority <= models[j].priority}
  IN  First(IF preferred # {} THEN preferred ELSE lowest)

(* route: the choice and up to three others, or an error.                  *)
Route(models, mp, req) ==
  LET c == {i \in DOMAIN models : Eligible(models[i], mp, req)} IN
  IF c = {} THEN [selected |-> {}, fallbacks |-> <<>>]
  ELSE LET s == models[Chosen(models, c, mp, req)]
           rest == At(models, {i \in c : models[i].id # s.id})
       IN  [selected |-> {s.id},
            fallbacks |-> [i \in 1..(IF Len(rest) < 3 THEN Len(rest) ELSE 3) |-> rest[i].id]]

-----------------------------------------------------------------------------
Edit(k, copy, drop, add) ==
  /\ editor[k].pc = "idle" /\ ops < MaxOps
  /\ ops' = ops + 1
  /\ editor' = [editor EXCEPT ![k] = [pc |-> "save", copy |-> copy, drop |-> drop, add |-> add]]
  /\ blurred' = (blurred \/ Rewriting # {})
  /\ UNCHANGED <<registry, known, uncrashed>>

Positions(models, id) == {i \in DOMAIN models : models[i].id = id}

(* Mutant of Register: a model that is registered again gets a second record. *)
Register_Again(k, r) == \E models \in Registry : Edit(k, Append(models, r), {r.id}, {r})

(* register_model: in the place of its predecessor, or at the end.         *)
Register(k, r) ==
  \E models \in Registry :
    Edit(k, IF Positions(models, r.id) = {} THEN Append(models, r)
            ELSE [i \in DOMAIN models |-> IF models[i].id = r.id THEN r ELSE models[i]],
         {r.id}, {r})

(* remove_model.                                                           *)
RemoveModel(k, id) ==
  \E models \in Registry :
    /\ Positions(models, id) # {}
    /\ Edit(k, At(models, DOMAIN models \ Positions(models, id)), {id}, {})

(* feedback: a moving average of tenths, cut to a whole number (a float    *)
(* just below one counts as the one before), and a maximum of failures.    *)
Averaged(p, l) ==
  LET t == (9 * p + l) \div 10 IN
  {t} \cup (IF (9 * p + l) % 10 = 0 /\ t > 0 THEN {t - 1} ELSE {})

Feedback(k, id, l, success) ==
  \E models \in Registry : \E i \in Positions(models, id) :
  \E p \in Averaged(models[i].p50, l) :
    LET m == IF success THEN [models[i] EXCEPT !.p50 = p]
             ELSE [models[i] EXCEPT !.p99 = IF l > @ THEN l ELSE @]
    IN  Edit(k, ReplaceAt(models, i, m), {id}, {m})

(* save_model_registry: two at once may leave a file that does not parse.  *)
SaveRegistry(k) ==
  /\ editor[k].pc = "save"
  /\ registry' = editor[k].copy \/ (Rewriting # {k} /\ registry' = <<>>)
  /\ known' = {m \in known : m.id \notin editor[k].drop} \cup editor[k].add
  /\ editor' = [editor EXCEPT ![k] = Ready]
  /\ UNCHANGED <<ops, uncrashed, blurred>>

(* The node is killed: a file that is being written may stay cut short.    *)
RCrash ==
  /\ uncrashed > 0
  /\ uncrashed' = uncrashed - 1
  /\ registry' \in Registry
  /\ editor' = [k \in Tasks |-> Ready]
  /\ blurred' = (blurred \/ Rewriting # {})
  /\ UNCHANGED <<known, ops>>

RNext ==
  \/ \E k \in Tasks :
       \/ \E r \in Records : Register(k, r)
       \/ \E id \in Models : RemoveModel(k, id)
       \/ \E id \in Models, l \in Latencies, success \in BOOLEAN : Feedback(k, id, l, success)
       \/ SaveRegistry(k)
  \/ RCrash

RSpec == RInit /\ [][RNext]_rvars

-----------------------------------------------------------------------------
RTypeOK ==
  /\ Range(registry) \cup known \subseteq Record
  /\ IsInjective([i \in DOMAIN registry |-> registry[i].id])
  /\ ops \in 0..MaxOps /\ uncrashed \in 0..MaxCrashes /\ blurred \in BOOLEAN

(* Barring an overlap of two edits, a request is refused only if no model  *)
(* that is registered and up can serve it within its limits, and what it   *)
(* is given can: the preferred model if it is one of these, and otherwise  *)
(* one of the lowest priority, as the code of route has it: not the best   *)
(* by cost and latency, of which its comment (model_router.rs:233) and     *)
(* guide.rs:391 speak.  The fallbacks can too, each once, and there are    *)
(* fewer than three only if no more models can.  No update, removal or     *)
(* feedback leaves the router with a model that is gone or with numbers    *)
(* that are not its last.                                                  *)
RoutedWell ==
  ~blurred /\ Rewriting = {} =>
    \A req \in Requests, mp \in ModelPolicies :
      LET able == {m \in known :
                     /\ m.available /\ m.id \in mp.allowed /\ req.caps \subseteq m.caps
                     /\ m.local \/ ~(req.local \/ mp.local)
                     /\ m.p50 <= req.latency
                     /\ ~req.tokens \/ m.cost <= (IF mp.cap = Unlimited THEN req.cap ELSE mp.cap)}
          wanted == IF req.prefer = NoModel THEN mp.prefer ELSE req.prefer
          given == Route(registry, mp, req)
      IN  /\ given.selected = {} <=> able = {}
          /\ \A id \in given.selected : \E m \in able :
               /\ m.id = id
               /\ \/ id = wanted
                  \/ \A o \in able : m.priority <= o.priority /\ o.id # wanted
          /\ Range(given.fallbacks) \subseteq {m.id : m \in able} \ given.selected
          /\ IsInjective(given.fallbacks)
          /\ Len(given.fallbacks) < 3 => Cardinality(able) <= Len(given.fallbacks) + 1
=============================================================================
