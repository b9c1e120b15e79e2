----------------------------- MODULE AddonOffer -----------------------------
(***************************************************************************)
(* From the repository to the credentials: the addons that the controllers *)
(* load (AddonLoading) are stored, offered in the catalog, and bound by    *)
(* the broker (BindResolver).  How the storage is written is for           *)
(* AddonStorage; here it is what the storage gives back.                   *)
(***************************************************************************)
EXTENDS AddonLoading, BindResolver

CONSTANTS
  Drivers,      \* storage drivers: "etcd", "memory"
  InitialData,  \* InitialData[o]: what object o has at first
  ObjectData,   \* what objects may have later
  MaxChanges    \* bound on changes of objects

ASSUME OfferAssumption ==
  /\ Drivers \subseteq {"etcd", "memory"}
  /\ MaxChanges \in Nat
  /\ InitialData \in [Objects -> ObjectStates] /\ ObjectData \subseteq ObjectStates
  /\ \A c \in Configs, nv \in NVs : <<NamespaceOf[c], nv>> \in ChartNames

VARIABLES
  served,       \* served[c][nv]: what the storage has of configuration c, and its directory
  changes

offerVars == <<loadingVars, resolverVars, driver, served, changes>>

NotServed == [dir |-> Nil, addon |-> Nil]

-----------------------------------------------------------------------------
(* The end of a load: a configuration of which everything could be loaded  *)
(* becomes Ready and is stored, any other becomes Failed, and what it had  *)
(* stored is removed.                                                      *)
Complete(c) ==
  \A r \in RepositoriesOf(c) :
    result[r] = "fetched" /\ \A nv \in Index[r] : entry[r][nv].status = "Ready"

Offer(c, nv) ==
  LET rs == {r \in RepositoriesOf(c) : nv \in Index[r]} IN
  IF ~Complete(c) \/ rs = {} THEN NotServed
  ELSE LET r == CHOOSE r \in rs : TRUE IN
       [dir |-> entry[r][nv].dir, addon |-> Stored(driver, entry[r][nv].addon)]

(* A configuration with a repository that could not be fetched is tried    *)
(* again later, and keeps what it has stored until then.                   *)
IsRepositoriesFetchingError(c) == \E r \in RepositoriesOf(c) : result[r] = "FetchingError"

Publish(w) ==
  LET c == loading[w].cfg IN
  /\ EndLoad(w)
  /\ served' = IF IsRepositoriesFetchingError(c) THEN served
               ELSE [served EXCEPT ![c] = [nv \in NVs |-> Offer(c, nv)]]
  /\ UNCHANGED <<resolverVars, driver, changes>>

(* Bindings are looked at when the last reconciliation is over.            *)
Published == loads = MaxLoads /\ \A w \in Controllers : PC(w) = "idle"

(* The goroutine of Bind, for a plan that can be bound.                    *)
BindPlan(b) ==
  /\ Published
  /\ \E c \in Configs, nv \in NVs, rel \in Releases :
       /\ served[c][nv] # NotServed
       /\ \E i \in DOMAIN served[c][nv].addon.plans :
            /\ isBindable(served[c][nv].addon, i)
            /\ StartResolve(b, <<NamespaceOf[c], nv>>, rel, served[c][nv].addon.plans[i].template)
  /\ UNCHANGED <<loadingVars, driver, served, changes>>

Change ==
  /\ changes < MaxChanges
  /\ changes' = changes + 1
  /\ Published
  /\ \E o \in Objects, data \in ObjectData : ChangeObject(o, data)
  /\ UNCHANGED <<loadingVars, driver, served>>

OfferInit ==
  /\ LoadingInit
  /\ ResolverInit
  /\ driver \in Drivers
  /\ objects = InitialData
  /\ served = [c \in Configs |-> [nv \in NVs |-> NotServed]]
  /\ changes = 0

OfferNext ==
  \/ \E c \in Configs : Reconcile(c) /\ UNCHANGED <<resolverVars, driver, served, changes>>
  \/ \E w \in Controllers :
       \/ (LoadStep(w) \/ Restart(w)) /\ UNCHANGED <<resolverVars, driver, served, changes>>
       \/ Publish(w)
  \/ \E b \in Binders :
       \/ BindPlan(b)
       \/ ResolveStep(b) /\ UNCHANGED <<loadingVars, driver, served, changes>>
  \/ Change

OfferSpec == OfferInit /\ [][OfferNext]_offerVars

-----------------------------------------------------------------------------
(* Properties.                                                             *)

(* Whether what a flag of the plan and one of the addon say together       *)
(* allows a binding, as the OSB API has it for the catalog.                *)
Effective(flag, addon) == IF flag = "unset" THEN addon ELSE flag = "true"

(* What the catalog offers is what the repository has, if the plans of an  *)
(* addon have different IDs: every plan, with its schemas and its          *)
(* bind.yaml, free if it says so (but for what etcd loses of that flag),   *)
(* and Service Catalog decides from the catalog which plan can be bound as *)
(* Bind does from the storage, although each computes it in its own way.   *)
OfferedAsWritten ==
  \A c \in Configs, nv \in NVs : served[c][nv] # NotServed =>
    LET d == served[c][nv].dir
        a == served[c][nv].addon
        offer == Convert(a)
        dirs == DOMAIN d.plans IN
    /\ DOMAIN offer.plans = {d.plans[n].id : n \in dirs}
    /\ Cardinality(DOMAIN offer.plans) = Cardinality(dirs) =>
         \A n \in dirs :
           LET p == d.plans[n]
               o == offer.plans[p.id] IN
           /\ o.schemas = {t \in SchemaTypes : p.schemas[t] # Missing}
           /\ a.plans[p.id].template = p.template
           /\ driver = "memory" => o.free = p.free
           /\ Effective(o.bindable, offer.bindable) = isBindable(a, p.id)
=============================================================================
