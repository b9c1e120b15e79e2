---------------------------- MODULE MCAddonOffer ----------------------------
(* Instances of AddonOffer for TLC.                                        *)
EXTENDS AddonOffer, TLC

CONSTANTS n1, n2, c1, c2, c3, r1, r2, r3, r4, r5, r6, r7, x, y, z, p1, p2, i1, i2, rel1, rel2, ra, rb,
          k1, k2, v1, v2, b1, b2

(* c1 is in a namespace and has a git repository with a template in its    *)
(* URL, and one for https; c3 is for the cluster, has one of each as well, *)
(* and one of its addons has the name and version of one of c1; c2 has all *)
(* that fails early.                                                       *)
SomeNamespaces == [c \in Configs |-> CASE c = c1 -> n1 [] c = c2 -> n2 [] c = c3 -> Cluster]
SomeConfigs == [r \in Repositories |-> IF r \in {r1, r2} THEN c1 ELSE IF r \in {r3, r7} THEN c3 ELSE c2]
SomeProtocols == [r \in Repositories |-> CASE r \in {r1, r3, r4} -> "git" [] r \in {r2, r7} -> "https"
                                           [] r = r5 -> Nil [] r = r6 -> "ftp"]
SomeSecrets == [r \in Repositories |-> CASE r = r1 -> Cluster [] r = r3 -> n2 [] r = r4 -> NoSecretRef
                                         [] OTHER -> NoTemplate]
SomeIndex == [r \in Repositories |-> CASE r = r1 -> {x} [] r = r2 -> {y} [] r = r3 -> {x, y} [] r = r7 -> {z}
                                        [] OTHER -> {}]

-----------------------------------------------------------------------------
var(name, source, key) == [name |-> name, source |-> source, key |-> key]
template(from, vars) == [renders |-> TRUE, yaml |-> [credentialFrom |-> from, credential |-> vars]]

(* Two sources and a variable over them, and a variable that reads a key.  *)
Full == template(<<ra, rb>>, <<var(k1, Literal, k1), var(k2, NoValue, k1)>>)
Keyed == template(<<rb, ra>>, <<var(k2, ra, k1)>>)
Twice == template(<<>>, <<var(k1, Literal, k1), var(k1, rb, k2)>>)
NoSource == template(<<NoValue>>, <<>>)
Broken == [Full EXCEPT !.renders = FALSE]
SomeTemplates == {Full, Keyed, Twice, NoSource, Broken}

plan(id, flag, free, t) ==
  [meta |-> "complete", id |-> id, bindable |-> flag, free |-> free, values |-> Missing,
   schemas |-> [s \in SchemaTypes |-> IF s = "bind" THEN 1 ELSE Missing], template |-> t]
addon(bindable, docs, plans) ==
  [charts |-> 1, chartLoads |-> TRUE, meta |-> "complete", bindable |-> bindable, once |-> FALSE,
   versions |-> TRUE, docs |-> docs, plans |-> plans]
two(p, q) == [n \in {p1, p2} |-> IF n = p1 THEN p ELSE q]

(* Addons that load, with all flags and templates.                         *)
Good ==
  {addon(TRUE, 1, two(plan(i1, "unset", "true", Full), plan(i2, "true", "unset", Keyed))),
   addon(TRUE, Missing, two(plan(i1, "false", "false", Full), plan(i2, "unset", "unset", Nil))),
   addon(FALSE, 1, two(plan(i1, "true", "unset", Twice), plan(i2, "unset", "false", Keyed))),
   addon(FALSE, Nil, two(plan(i1, "true", "unset", NoSource), plan(i2, "true", "true", Broken)))}

Simple == addon(FALSE, 1, [n \in {p1} |-> plan(i1, "unset", "unset", Nil)])
WithPlan(p) == [Simple EXCEPT !.plans = [n \in {p1} |-> p]]
one == Simple.plans[p1]

(* Addons that have something missing or wrong, and the last one that does *)
(* not: a schema of the greatest length, and two plans with one ID.        *)
Odd ==
  {Simple, [Simple EXCEPT !.charts = 0], [Simple EXCEPT !.charts = 2], [Simple EXCEPT !.chartLoads = FALSE],
   [Simple EXCEPT !.meta = Malformed], [Simple EXCEPT !.meta = "incomplete"],
   [Simple EXCEPT !.versions = FALSE], [Simple EXCEPT !.docs = Malformed], [Simple EXCEPT !.docs = 0],
   [Simple EXCEPT !.plans = Nil], [Simple EXCEPT !.plans = [n \in {} |-> one]],
   WithPlan([one EXCEPT !.meta = Missing]),
   WithPlan([one EXCEPT !.values = Malformed]), WithPlan([one EXCEPT !.schemas["update"] = Malformed]),
   WithPlan([one EXCEPT !.schemas["bind"] = maxSchemaLength]), WithPlan([one EXCEPT !.bindable = "true"]),
   WithPlan([one EXCEPT !.schemas["bind"] = maxSchemaLength - 1]),
   [Simple EXCEPT !.plans = two(plan(i1, "true", "unset", Full), plan(i1, "unset", "true", Keyed))]}

SomeContents == [r \in Repositories |-> IF r = r1 THEN Good ELSE IF r = r2 THEN Odd ELSE {Simple}]

SomeData == {{}, {[k \in {k1} |-> v2]}}
ReleaseData == [o \in Objects |-> {[k \in {k1, k2} |-> IF o[2] = ra THEN v1 ELSE v2]}]
Symmetry == Permutations({b1, b2}) \cup Permutations({rel1, rel2})

(* Bindings, and changes of their objects, are looked at where no load has *)
(* failed: what a failed one leaves in /tmp is nothing they read.          *)
CalmBindings == loadFaults = 0 \/ (changes = 0 /\ \A b \in Binders : resolve[b] = NotBinding)

SomeCharts == (Namespaces \cup {Cluster}) \X NVs
=============================================================================
