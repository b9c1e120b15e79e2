------------------------------ MODULE AddonForm ------------------------------
(***************************************************************************)
(* What becomes of an addon, as functions: from the directory a repository *)
(* has (addon/loader.go, addon/form.go) to the addon in the model, to what *)
(* the storage gives back (storage/driver/etcd/entity_addon.go), and to    *)
(* the offer in the catalog (broker/catalog.go) and the check of Bind      *)
(* (broker/bind.go).                                                       *)
(*                                                                         *)
(* A file is Missing, or Malformed, or a document with some of the         *)
(* required fields or with all of them.  A flag of type *bool is unset, or *)
(* false or true.                                                          *)
(***************************************************************************)
EXTENDS Naturals, FiniteSets

CONSTANTS
  PlanDirs,         \* names of directories of plans
  PlanIDs,          \* IDs in the meta.yaml of plans
  Templates,        \* contents of bind.yaml
  maxSchemaLength,  \* 64 kB
  Missing,          \* a file that is not there
  Malformed,        \* a file that cannot be read or decoded
  Nil               \* nothing

FileStates == {Missing, Malformed, "incomplete", "complete"}
Flags == {"unset", "false", "true"}
SchemaTypes == {"provision", "update", "bind"}

(* The directory of a plan; of a schema there is its length.               *)
Plan == [meta : FileStates, id : PlanIDs, bindable : Flags, free : Flags,
         values : {Missing, Malformed, "complete"},
         schemas : [SchemaTypes -> Nat \cup {Missing, Malformed}],
         template : Templates \cup {Nil}]

(* The directory of an addon: the directories under chart/, whether Helm   *)
(* can load the one, the number of entries in docs/meta.yaml, which may be *)
(* missing, as may docs/ itself, and whether the versions are semantic     *)
(* ones.                                                                   *)
IsDirectory(d) ==
  /\ d.charts \in Nat /\ d.chartLoads \in BOOLEAN
  /\ d.meta \in FileStates /\ d.bindable \in BOOLEAN /\ d.once \in BOOLEAN
  /\ d.versions \in BOOLEAN
  /\ d.docs \in Nat \cup {Missing, Malformed, Nil}
  /\ d.plans = Nil \/ (DOMAIN d.plans \subseteq PlanDirs
                         /\ \A n \in DOMAIN d.plans : d.plans[n] \in Plan)

ASSUME FormAssumption == IsFiniteSet(PlanDirs)

-----------------------------------------------------------------------------
(* The loader.                                                             *)

(* loadChartFromDir and discoverPathToHelmChart; files next to the chart   *)
(* are ignored.                                                            *)
loadsChart(d) == d.charts = 1 /\ d.chartLoads

(* loadPlanSchema, and the limit of the OSB API.                           *)
loadsSchema(s) == s = Missing \/ s \in 0 .. maxSchemaLength - 1

(* loadPlanDefinition: meta.yaml is required.                              *)
loadsPlan(p) ==
  /\ p.meta \in {"incomplete", "complete"}
  /\ p.values # Malformed
  /\ \A t \in SchemaTypes : loadsSchema(p.schemas[t])

createsForm(d) ==
  /\ d.meta \in {"incomplete", "complete"}
  /\ d.docs # Malformed
  /\ d.plans # Nil
  /\ \A n \in DOMAIN d.plans : loadsPlan(d.plans[n])

(* Validate of the form.  A plan whose flag says that it is bindable needs *)
(* a template, one that is bindable because its addon is does not.         *)
validPlan(p) == p.meta = "complete" /\ (p.bindable = "true" => p.template # Nil)

validForm(d) ==
  /\ DOMAIN d.plans # {}
  /\ \A n \in DOMAIN d.plans : validPlan(d.plans[n])
  /\ d.meta = "complete"
  /\ d.docs \in {Nil, Missing, 1}

Loads(d) == loadsChart(d) /\ createsForm(d) /\ validForm(d) /\ d.versions

(* ToModel of a plan, with the schemas there are.                          *)
PlanToModel(p) ==
  [bindable |-> p.bindable, free |-> p.free, template |-> p.template,
   schemas |-> {t \in SchemaTypes : p.schemas[t] # Missing}]

(* ToModel: plans are kept by ID.  Of two directories with one ID, the     *)
(* later one in the order in which Go walks a map stays.                   *)
ToModel(d) ==
  LET ids == {d.plans[n].id : n \in DOMAIN d.plans}
      last == {f \in [ids -> DOMAIN d.plans] : \A i \in ids : d.plans[f[i]].id = i} IN
  {[bindable |-> d.bindable, once |-> d.once, docs |-> d.docs,
    plans |-> [i \in ids |-> PlanToModel(d.plans[f[i]])]] : f \in last}

-----------------------------------------------------------------------------
(* The storage.                                                            *)

(* encoding/gob does not send a field that is zero, and it sends a pointer *)
(* as what it points to: one that points to false is nil when it is        *)
(* decoded.                                                                *)
gob(flag) == IF flag = "false" THEN "unset" ELSE flag

(* newAddonDSO and newAddonPlanDSO, encoded, decoded, and NewModel: the    *)
(* documentation is not stored, nor is the flag for a free plan.           *)
decodeDSOToDM(a) ==
  [a EXCEPT !.docs = Nil,
            !.plans = [i \in DOMAIN a.plans |->
                         [a.plans[i] EXCEPT !.bindable = gob(@), !.free = "unset"]]]

(* The memory driver keeps the addon itself.                               *)
Stored(driver, a) == IF driver = "etcd" THEN decodeDSOToDM(a) ELSE a

-----------------------------------------------------------------------------
(* The catalog and binding.                                                *)

(* Convert: bindings are always retrievable, and labels are overridden.    *)
Convert(a) ==
  [bindable |-> a.bindable,
   bindingsRetrievable |-> TRUE,
   labels |-> {"local"} \cup (IF a.once THEN {"provisionOnlyOnce"} ELSE {}),
   plans |-> [i \in DOMAIN a.plans |->
                [bindable |-> a.plans[i].bindable, free |-> a.plans[i].free,
                 schemas |-> a.plans[i].schemas]]]

(* Mutation: the flag of the plan is not looked at.                        *)
BindableAddon(a, i) == a.bindable

(* isBindable of Bind.                                                     *)
isBindable(a, i) ==
  \/ a.plans[i].bindable = "true"
  \/ a.plans[i].bindable = "unset" /\ a.bindable
=============================================================================
