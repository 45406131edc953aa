------------------------------ MODULE MCStores -------------------------------
(***************************************************************************)
(* A small instance of each of the stores.                                 *)
(***************************************************************************)
EXTENDS Stores, TLC

CONSTANTS k1, k2, x, y, z, x4, t1, t2, s1, s2, s3, vision

ASSUME NoModelIsNone == NoModel \notin {x, y, z}

MCMetered == {x, y}
MCTenants == {t1, t2}
MCNames == {s1, s2}
MCTTLs == {1, 9}
MCSpans == {s1, s2, s3}
MCTraceOf == s1 :> t1 @@ s2 :> t1 @@ s3 :> t2
MCTokens == {2, 3}

(* A policy for each rule: allowed, limit, blocked, residency.             *)
MCGoverned == {x, y, z}
Rule(allowed, blocked, residency, max) ==
  [allowed |-> allowed, blocked |-> blocked, residency |-> residency, max |-> max]
MCTenantPolicies ==
  {Rule({x}, {}, "here", 2), Rule({x, y, z}, {}, "any", 1), Rule({x, y, z}, {x}, "any", 2),
   Rule({x, y, z}, {}, "elsewhere", 2)}

(* Models that are up or down, local or not, cheap or dear, fast or slow.  *)
MCModels == {x, y, z, t1, t2}
Model(id, up, local, caps, cost, priority, p50) ==
  [id |-> id, available |-> up, local |-> local, caps |-> caps, cost |-> cost,
   priority |-> priority, p50 |-> p50, p99 |-> p50]
MCRecords ==
  {Model(x, TRUE, FALSE, {vision}, 2, 1, 10), Model(y, TRUE, TRUE, {}, 1, 1, 10),
   Model(y, FALSE, TRUE, {vision}, 1, 0, 9)}
MCPresets ==
  {<<>>, <<Model(t1, TRUE, TRUE, {vision}, 1, 3, 9), Model(z, TRUE, TRUE, {vision}, 1, 2, 9),
           Model(t2, TRUE, FALSE, {}, 1, 3, 9)>>}
MCRequests ==
  [prefer: {x, NoModel}, cap: {1, 9}, tokens: BOOLEAN, caps: {{}, {vision}}, local: BOOLEAN,
   latency: {10, 99}]
Tenant(allowed, prefer, cap, local) ==
  [allowed |-> allowed, prefer |-> prefer, cap |-> cap, local |-> local]
MCModelPolicies ==
  {Tenant({x, y, z, t1, t2}, NoModel, 99, FALSE), Tenant({x, y}, y, 2, FALSE),
   Tenant({y, z, t1}, NoModel, 99, TRUE)}
MCLatencies == {5, 20}
MCCapabilities == {vision}

(* Packages of two agents: one with two versions, the first of them twice  *)
(* with other files, and another.                                          *)
MCPackages == {x, y, z, x4}
MCNameOf == x :> t1 @@ y :> t1 @@ z :> t1 @@ x4 :> t2
MCVersionOf == x :> 1 @@ y :> 2 @@ z :> 1 @@ x4 :> 1
MCContents == x :> {s1, s2} @@ y :> {s1} @@ z :> {s1} @@ x4 :> {s1}

(* Packages of one runtime in several builds and under another name, one   *)
(* whose source holds no agent.yaml, and others with a command or none.    *)
Package(kind, command, download, remote, depth, fits) ==
  [kind |-> kind, command |-> command, download |-> download, remote |-> remote,
   depth |-> depth, fits |-> fits]
Build(f, n) == {[file |-> f, build |-> n]}
MCRuntimes ==
  {Package("nodejs", {}, Build("node", 1), TRUE, 2, TRUE),
   Package("nodejs", {}, Build("node", 2), FALSE, 0, TRUE),
   Package("nodejs", {}, Build("other", 1), TRUE, 0, TRUE),
   Package("nodejs", {}, {}, FALSE, 0, TRUE),
   Package("deno", {"deno"}, Build("deno", 1), TRUE, 3, TRUE),
   Package("tool", {"deno"}, {}, FALSE, 0, TRUE),
   Package("shell", {}, {}, FALSE, 1, FALSE)}
MCPaths == {<<{"sh"}, {"sh"}>>, <<{"sh", "node"}, {"sh", "node"}>>, <<{"sh", "deno"}, {"sh"}>>}

(* A group of two agents of one tenant.                                    *)
MCSlots == {<<t1, x>>, <<t1, y>>}
MCMembers == {<<<<t1, x>>, <<t1, y>>>>}

(* A workflow of three steps whose ids and agents may repeat, and whose    *)
(* first step may be known to the last.                                    *)
Listed(ids, agent, deps, optional) ==
  [i \in 1..3 |-> [id |-> ids[i], agent |-> agent[i], deps |-> deps[i], optional |-> i \in optional]]
MCDefinitions ==
  {<<>>}
  \cup {Listed(<<s1, s2, s3>>, <<x, y, b>>, <<{}, d, e>>, optional) :
          b \in {x, y}, d \in {{}, {s1}}, e \in {{s1}, {s1, s2}},
          optional \in {{}, {2, 3}, {1}}}
  \cup {Listed(ids, <<x, a, b>>, <<{}, d, e>>, {}) :
          ids \in {<<s1, s1, s2>>, <<s1, s2, s1>>}, a \in {x, y}, b \in {x, y},
          d \in {{}, {s1}}, e \in {{s1}}}

(* Expressions that jump over minutes, hours, days, months and leap days,  *)
(* and some that cannot be read.                                           *)
Fields(minutes, hours, doms, months, dows) ==
  {<<m, h, d, n, w0>> : m \in minutes, h \in hours, d \in doms, n \in months, w0 \in dows}
AnyTime == <<<<"all", 0, 0>>>>
Only(n) == <<"range", n, n>>
MCExpressions ==
  Fields({<<<<"every", 25, 0>>>>, <<Only(59), Only(7)>>},
         {AnyTime, <<<<"range", 22, 30>>>>}, {AnyTime, <<Only(29)>>, <<Only(31), Only(1)>>},
         {AnyTime, <<Only(2)>>, <<Only(12), Only(4)>>}, {AnyTime, <<Only(0)>>})
  \cup {<<AnyTime>>, <<AnyTime, AnyTime, <<Only(30)>>, <<Only(2)>>, AnyTime>>,
        <<AnyTime, <<Only(24)>>, <<<<"every", 0, 0>>>>, AnyTime, AnyTime>>,
        <<AnyTime, <<<<"every", 0, 0>>>>, AnyTime, <<<<"bad", 0, 0>>>>, AnyTime>>,
        <<<<<<"bad", 0, 0>>, <<"every", 0, 0>>>>, AnyTime, AnyTime, AnyTime, AnyTime>>}

(* The last second of 2023, the last minute but one of 29 February 2024,   *)
(* and a morning of March 2027.                                            *)
MCStarts == {1704067199, 1709251139, 1803877230}

(* All graphs of three steps, small workflows, and some wide ones.         *)
Step(a, deps, optional, timeout) ==
  [agent |-> a, deps |-> deps, optional |-> optional, timeout |-> timeout]
MCWorkflows ==
  {[i \in 1..3 |-> Step(IF two /\ i = 1 THEN x ELSE y, deps[i], two /\ i > 1, IF two THEN 0 ELSE i)] :
     deps \in [1..3 -> SUBSET (1..3)], two \in BOOLEAN}
  \cup {<<Step(x, d, FALSE, 2), Step(x, e, o, 0)>> :
          d \in {{}, {9}, {2, 9}}, e \in SUBSET {1, 2}, o \in BOOLEAN}
  \cup {<<Step(x, {}, o, n)>> : o \in BOOLEAN, n \in {0, 5}}
  \cup {[i \in 1..5 |-> Step(<<x, y, z, x4, x>>[i], IF i = 5 THEN {1, 2, 3, 4} ELSE {}, i \in o, 0)] :
          o \in {{}, {1, 2}}}
  \cup {<<Step(x, {}, o, 0), Step(y, {1}, FALSE, 0), Step(z, {1}, o, 0), Step(x, {2, 3}, o, 0),
          Step(x, {4}, FALSE, 0)>> : o \in BOOLEAN}
TenantPolicy(allow, blocked, residency, max, audit) ==
  [allowed |-> allow, blocked |-> blocked, residency |-> residency, max |-> max,
   audit |-> audit, tokens |-> audit]
MCStrictPolicies ==
  {TenantPolicy({}, {}, {}, {}, FALSE), TenantPolicy({}, {x}, {}, {}, FALSE),
   TenantPolicy({{y}}, {}, {"any"}, {3}, TRUE), TenantPolicy({}, {}, {"there"}, {0}, FALSE)}

MCClassified == [tools : 0..5, branches : 0..4, tolerance : 0..3, strict : BOOLEAN]

Symmetry == Permutations(Tasks)
=============================================================================
