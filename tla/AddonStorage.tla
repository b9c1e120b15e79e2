---------------------------- MODULE AddonStorage ----------------------------
(***************************************************************************)
(* Where the addons, charts and documentation of Ready configurations are  *)
(* kept, and how the two controllers write there:                          *)
(* storage/driver/etcd/entity_addon.go and entity_chart.go, the same of    *)
(* driver/memory, controller/docs/, and saveAddons, removeAddon and their  *)
(* callers in controller/common.go.                                        *)
(*                                                                         *)
(* An addon is stored under two keys, its ID, which the broker uses, and   *)
(* its name and version, which the controllers use.  The etcd driver has   *)
(* a copy under each, put and deleted in two calls; the memory driver maps *)
(* the name and version to the ID, and does both under a lock.             *)
(*                                                                         *)
(* A scope is a namespace or the cluster.  One controller serves all       *)
(* namespaces, the other one the cluster, both in one process, each with   *)
(* one configuration at a time.  That a configuration is refused, or why,  *)
(* is for AddonsController; here it registers what it may, or is deleted.  *)
(***************************************************************************)
EXTENDS Naturals, FiniteSets

CONSTANTS
  Scopes,      \* namespaces and the cluster
  Cluster,     \* the scope that is not a namespace
  Extends,     \* <<m, n>>: the name of namespace m is a longer one than n's that begins with it
  Configs,     \* configurations
  ScopeOf,     \* ScopeOf[c]: where configuration c is
  NVs,         \* names and versions of addons
  IDs,         \* IDs of addons
  Offers,      \* the addons repositories may offer
  Charts,      \* names of charts with versions, as Chart.yaml writes them
  ChartOf,     \* ChartOf[nv]: the chart of an addon
  Printed,     \* Printed[ch]: the chart with its version the way String prints it
  Drivers,     \* storage drivers: "etcd", "memory"
  MaxJobs,     \* bound on reconciliations
  MaxFaults,   \* bound on calls that return an error and restarts
  Nil          \* nothing

(* rev tells apart the contents a repository has under one name, version   *)
(* and ID at different times.                                              *)
Addon == [nv : NVs, id : IDs, rev : Nat, docs : BOOLEAN]

ASSUME StorageAssumption ==
  /\ Cluster \in Scopes
  /\ Extends \subseteq (Scopes \ {Cluster}) \X (Scopes \ {Cluster})
  /\ ScopeOf \in [Configs -> Scopes]
  /\ Offers \subseteq Addon
  /\ ChartOf \in [NVs -> Charts]
  /\ Printed \in [Charts -> Charts]
  /\ Drivers \subseteq {"etcd", "memory"}
  /\ MaxJobs \in Nat /\ MaxFaults \in Nat
  /\ Nil \notin Offers \cup IDs \cup Configs

VARIABLES
  driver,      \* the storage driver in use
  idSpace,     \* idSpace[s][id]: the addon stored under its ID
  nvSpace,     \* nvSpace[s][nv]: the addon under its name and version; its ID in memory
  charts,      \* charts[s]: charts stored
  groups,      \* groups[s][id]: rev of the documentation in the AssetGroup, 0 for none
  status,      \* status[c]: the addons in the status of a configuration
  deleting,    \* configurations with a deletion timestamp, kept by the finalizer
  job,         \* job[w]: the reconciliation of controller w
  spoiled,     \* <<s, id>>: addons that were last saved or removed in part only
  jobs, faults

store == <<idSpace, nvSpace, charts, groups>>
counters == <<jobs, faults>>
vars == <<driver, store, status, deleting, job, spoiled, counters>>

-----------------------------------------------------------------------------
Workers == {"AddonsController", "ClusterAddonsController"}
WorkerOf(c) == IF ScopeOf[c] = Cluster THEN "ClusterAddonsController" ELSE "AddonsController"

Saving == {"docs", "id", "nv", "chart", "status"}
Removing == {"get", "delNV", "delID", "undocs", "unchart"}

Status == [ready : SUBSET Offers, failed : SUBSET Offers]
NoStatus == [ready |-> {}, failed |-> {}]
Listed(st) == st.ready \cup st.failed

(* What is to be saved or removed still, the one in hand, and of those     *)
(* that are to be listed the ones that failed or were saved in part.       *)
Job == [pc : Saving \cup Removing \cup {"idle"}, cfg : Configs \cup {Nil}, delete : BOOLEAN,
        offers : SUBSET Offers, todo : SUBSET Offers, cur : Offers \cup {Nil},
        failed : SUBSET Offers, partial : SUBSET Offers]
Idle == [pc |-> "idle", cfg |-> Nil, delete |-> FALSE, offers |-> {}, todo |-> {},
         cur |-> Nil, failed |-> {}, partial |-> {}]

-----------------------------------------------------------------------------
(* Reading.                                                                *)

GetByID(s, id) == idSpace[s][id]

Get(s, nv) ==
  IF driver = "etcd" \/ nvSpace[s][nv] = Nil THEN nvSpace[s][nv] ELSE idSpace[s][nvSpace[s][nv]]

(* The key of an addon of a namespace begins with ns/ and the name of the  *)
(* namespace; FindAll of the etcd driver asks for all keys that begin so,  *)
(* with nothing to mark the end of the name.                               *)
matchesPrefix(s, t) == s = t \/ (driver = "etcd" /\ <<t, s>> \in Extends)

FindAll(s) ==
  {a \in Offers : \E t \in Scopes, id \in IDs : matchesPrefix(s, t) /\ idSpace[t][id] = a}

(* The chart that the plans of an addon refer to once it was stored: gob   *)
(* encodes the version of a ChartRef with String.                          *)
ChartRef(o) == IF driver = "etcd" THEN Printed[ChartOf[o.nv]] ELSE ChartOf[o.nv]

-----------------------------------------------------------------------------
(* A configuration is reconciled.                                          *)

At(w, pc) == job[w].pc = pc
scope(w) == ScopeOf[job[w].cfg]
Fault == faults < MaxFaults /\ faults' = faults + 1
Set(w, j) == job' = [job EXCEPT ![w] = IF j.pc = "idle" THEN Idle ELSE j]
Goto(w, pc) == Set(w, [job[w] EXCEPT !.pc = pc])

(* ReviseAddonDuplicationInRepository looks at the IDs in a configuration, *)
(* ReviseAddonDuplicationInStorage at the names and versions that other    *)
(* configurations of the scope have Ready.                                 *)
Admissible(c, offers) ==
  /\ \A o, p \in offers : o.id = p.id => o = p
  /\ \A o, p \in offers : o.nv = p.nv => o = p
  /\ \A d \in Configs \ {c} :
       ScopeOf[d] = ScopeOf[c] => \A o \in offers, p \in status[d].ready : o.nv # p.nv

(* OnAdd, up to where the phase is known; no offers stand for a            *)
(* configuration that has none, or has become Failed.                      *)
OnAdd(c, offers) ==
  /\ job[WorkerOf(c)] = Idle
  /\ c \notin deleting
  /\ jobs < MaxJobs
  /\ Admissible(c, offers)
  /\ jobs' = jobs + 1
  /\ Set(WorkerOf(c), [Idle EXCEPT !.pc = IF offers = {} THEN "status" ELSE "docs",
                                   !.cfg = c, !.offers = offers, !.todo = offers])
  /\ UNCHANGED <<driver, store, status, deleting, spoiled, faults>>

AddonKeys(c, offers) == {<<ScopeOf[c], o.id>> : o \in offers}

(* A repository cannot be fetched: OnAdd ends with a configuration that is *)
(* Failed, of which nothing is removed, now or later.                      *)
FetchingError(c) ==
  /\ job[WorkerOf(c)] = Idle
  /\ c \notin deleting
  /\ jobs < MaxJobs
  /\ Fault
  /\ jobs' = jobs + 1
  /\ status' = [status EXCEPT ![c] = NoStatus]
  /\ spoiled' = spoiled \cup AddonKeys(c, Listed(status[c]))
  /\ UNCHANGED <<driver, store, deleting, job>>

(* OnDelete: what the status lists is removed, then the configuration      *)
(* goes.  One that is Pending or Failed lists nothing that is removed.     *)
OnDelete(c) ==
  /\ job[WorkerOf(c)] = Idle
  /\ jobs < MaxJobs
  /\ Listed(status[c]) # {}
  /\ jobs' = jobs + 1
  /\ Set(WorkerOf(c), [Idle EXCEPT !.pc = "get", !.cfg = c, !.delete = TRUE,
                                   !.todo = Listed(status[c])])
  /\ deleting' = deleting \cup {c}
  /\ UNCHANGED <<driver, store, status, spoiled, faults>>

(* saveAddons goes on with the next addon, or it is done.                  *)
NextSave(j) == [j EXCEPT !.pc = IF j.todo = {} THEN "status" ELSE "docs", !.cur = Nil]

(* EnsureAssetGroup: the AssetGroup named by the ID is created or updated, *)
(* or that fails for three seconds, which is logged.                       *)
EnsureAssetGroup(w) ==
  /\ At(w, "docs")
  /\ \E o \in job[w].todo :
       LET j == [job[w] EXCEPT !.pc = "id", !.cur = o, !.todo = @ \ {o}] IN
         \/ /\ groups' = [groups EXCEPT ![scope(w)][o.id] = IF o.docs THEN o.rev ELSE @]
            /\ Set(w, j)
            /\ UNCHANGED <<spoiled, faults>>
         \/ /\ o.docs
            /\ Fault
            /\ spoiled' = spoiled \cup {<<scope(w), o.id>>}
            /\ Set(w, [j EXCEPT !.partial = @ \cup {o}])
            /\ UNCHANGED groups
  /\ UNCHANGED <<driver, idSpace, nvSpace, charts, status, deleting, jobs>>

(* Upsert of the etcd driver, the ID space.                                *)
PutID(w) ==
  LET o == job[w].cur IN
  /\ At(w, "id")
  /\ driver = "etcd"
  /\ idSpace' = [idSpace EXCEPT ![scope(w)][o.id] = o]
  /\ Goto(w, "nv")
  /\ UNCHANGED <<driver, nvSpace, charts, groups, status, deleting, spoiled, counters>>

(* Mutation: the memory driver maps to the addon, not to its ID.           *)
WholeAddon(o) == o

(* What an addon is found by under its name and version.                   *)
Mapped(o) == IF driver = "etcd" THEN o ELSE o.id

(* Upsert of the etcd driver, the name and version space.                  *)
PutNameVersion(w) ==
  LET o == job[w].cur IN
  /\ At(w, "nv")
  /\ nvSpace' = [nvSpace EXCEPT ![scope(w)][o.nv] = Mapped(o)]
  /\ Goto(w, "chart")
  /\ UNCHANGED <<driver, idSpace, charts, groups, status, deleting, spoiled, counters>>

(* Mutation: an addon that there is already stays as it is.                *)
KeepStored(w) ==
  LET o == job[w].cur
      known == nvSpace[scope(w)][o.nv] # Nil IN
  /\ At(w, "id")
  /\ driver = "memory"
  /\ nvSpace' = [nvSpace EXCEPT ![scope(w)][o.nv] = IF known THEN @ ELSE Mapped(o)]
  /\ idSpace' = [idSpace EXCEPT ![scope(w)][o.id] = IF known THEN @ ELSE o]
  /\ Goto(w, "chart")
  /\ UNCHANGED <<driver, charts, groups, status, deleting, spoiled, counters>>

(* Upsert of the memory driver: a mapping that there is already stays.     *)
UpsertInMemory(w) ==
  LET o == job[w].cur
      known == nvSpace[scope(w)][o.nv] # Nil IN
  /\ At(w, "id")
  /\ driver = "memory"
  /\ nvSpace' = [nvSpace EXCEPT ![scope(w)][o.nv] = IF known THEN @ ELSE Mapped(o)]
  /\ idSpace' = [idSpace EXCEPT ![scope(w)][o.id] = o]
  /\ Goto(w, "chart")
  /\ UNCHANGED <<driver, charts, groups, status, deleting, spoiled, counters>>

saveCharts(w) ==
  /\ At(w, "chart")
  /\ charts' = [charts EXCEPT ![scope(w)] = @ \cup {ChartOf[job[w].cur.nv]}]
  /\ Set(w, NextSave(job[w]))
  /\ UNCHANGED <<driver, idSpace, nvSpace, groups, status, deleting, spoiled, counters>>

(* A put fails: the addon is listed as Failed, and the others are saved.   *)
RegisteringError(w) ==
  LET j == job[w] IN
  /\ j.pc \in {"id", "nv", "chart"}
  /\ Fault
  /\ spoiled' = spoiled \cup {<<scope(w), j.cur.id>>}
  /\ Set(w, NextSave([j EXCEPT !.failed = @ \cup {j.cur}, !.partial = @ \cup {j.cur}]))
  /\ UNCHANGED <<driver, store, status, deleting, jobs>>

(* Mutation: everything that was listed is removed.                        *)
AllListed(last, offers) == Listed(last)

(* deletePreviousAddons and deleteOrphanAddons: of what was listed, what   *)
(* is not any more, by name and version.                                   *)
Orphans(last, offers) == {p \in Listed(last) : \A o \in offers : o.nv # p.nv}

(* removeAddon goes on with the next one, or the reconciliation ends.      *)
NextRemoval(j) == [j EXCEPT !.pc = IF j.todo = {} THEN "idle" ELSE "get", !.cur = Nil]

(* The addons that were saved as a whole now, and that no configuration    *)
(* will remove because it could not save them before.                      *)
Restored(j) ==
  LET others == {d \in Configs \ {j.cfg} : ScopeOf[d] = ScopeOf[j.cfg]} IN
  {o \in j.offers \ j.partial : \A d \in others : \A p \in status[d].failed : p.nv # o.nv}

(* The status is written, and only then are orphans removed.               *)
updateAddonStatus(w) ==
  LET j == job[w] IN
  /\ At(w, "status")
  /\ status' = [status EXCEPT ![j.cfg] = [ready |-> j.offers \ j.failed, failed |-> j.failed]]
  /\ spoiled' = spoiled \ AddonKeys(j.cfg, Restored(j))
  /\ Set(w, NextRemoval([j EXCEPT !.todo = Orphans(status[j.cfg], j.offers)]))
  /\ UNCHANGED <<driver, store, deleting, counters>>

(* The last removal on deletion: the finalizer goes, and the configuration *)
(* with it.                                                                *)
EndRemoval(w, j) ==
  LET gone == {c \in {j.cfg} : j.delete /\ j.todo = {}} IN
  /\ Set(w, NextRemoval(j))
  /\ status' = [c \in Configs |-> IF c \in gone THEN NoStatus ELSE status[c]]
  /\ deleting' = deleting \ gone

(* Get of removeAddon: an addon that is not found is passed over.  The     *)
(* memory driver drops a mapping to an ID that is not stored.              *)
removeAddon(w) ==
  \E o \in job[w].todo :
    LET s == scope(w)
        found == Get(s, o.nv)
        j == [job[w] EXCEPT !.todo = @ \ {o}] IN
    /\ At(w, "get")
    /\ \/ /\ found # Nil
          /\ Set(w, [j EXCEPT !.pc = "delNV", !.cur = found])
          /\ UNCHANGED <<nvSpace, status, deleting>>
       \/ /\ found = Nil
          /\ nvSpace' = [nvSpace EXCEPT ![s][o.nv] = Nil]
          /\ EndRemoval(w, j)
    /\ UNCHANGED <<driver, idSpace, charts, groups, spoiled, counters>>

(* Remove of the etcd driver, the name and version space.                  *)
DeleteNameVersion(w) ==
  LET o == job[w].cur IN
  /\ At(w, "delNV")
  /\ driver = "etcd"
  /\ nvSpace' = [nvSpace EXCEPT ![scope(w)][o.nv] = Nil]
  /\ Goto(w, "delID")
  /\ UNCHANGED <<driver, idSpace, charts, groups, status, deleting, spoiled, counters>>

(* Mutation: the ID space is forgotten.                                    *)
KeepID(w) ==
  /\ At(w, "delID")
  /\ Goto(w, "undocs")
  /\ UNCHANGED <<driver, store, status, deleting, spoiled, counters>>

(* Remove of the etcd driver, the ID space.                                *)
DeleteID(w) ==
  LET o == job[w].cur IN
  /\ At(w, "delID")
  /\ idSpace' = [idSpace EXCEPT ![scope(w)][o.id] = Nil]
  /\ Goto(w, "undocs")
  /\ UNCHANGED <<driver, nvSpace, charts, groups, status, deleting, spoiled, counters>>

(* Remove of the memory driver, with the version of what was got; the      *)
(* mapping stays.  That there is nothing to remove ends the removal.       *)
RemoveInMemory(w) ==
  LET s == scope(w)
      id == nvSpace[s][job[w].cur.nv] IN
  /\ At(w, "delNV")
  /\ driver = "memory"
  /\ IF id = Nil \/ idSpace[s][id] = Nil
       THEN EndRemoval(w, job[w]) /\ UNCHANGED idSpace
       ELSE /\ idSpace' = [idSpace EXCEPT ![s][id] = Nil]
            /\ Goto(w, "undocs")
            /\ UNCHANGED <<status, deleting>>
  /\ UNCHANGED <<driver, nvSpace, charts, groups, spoiled, counters>>

EnsureAssetGroupRemoved(w) ==
  /\ At(w, "undocs")
  /\ groups' = [groups EXCEPT ![scope(w)][job[w].cur.id] = 0]
  /\ Goto(w, "unchart")
  /\ UNCHANGED <<driver, idSpace, nvSpace, charts, status, deleting, spoiled, counters>>

(* All plans of an addon have the one chart: the first removes what it     *)
(* refers to.  That there is no such chart ends the removal as well.       *)
removeCharts(w) ==
  /\ At(w, "unchart")
  /\ charts' = [charts EXCEPT ![scope(w)] = @ \ {ChartRef(job[w].cur)}]
  /\ EndRemoval(w, job[w])
  /\ UNCHANGED <<driver, idSpace, nvSpace, groups, spoiled, counters>>

-----------------------------------------------------------------------------
(* What has been saved, but for what was stored like that before.          *)
Touched(j) == j.offers \ (j.todo \cup status[j.cfg].ready)

(* What is left in part when a reconciliation is cut off.  The next one of *)
(* the configuration loads what there is then; it does not look for what   *)
(* this one saved, nor again for orphans, since the status was written.    *)
(* When a deletion is tried again, it passes over an addon that is found   *)
(* no more by its name and version.                                        *)
CutOff(j) ==
  IF j.pc \in Saving THEN Touched(j)
  ELSE IF ~j.delete THEN j.todo \cup ({j.cur} \ {Nil})
  ELSE IF j.pc = "delNV" THEN {} ELSE {j.cur} \ {Nil}

(* The status cannot be written, or a call of removeAddon fails.           *)
ReconcileFails(w) ==
  LET j == job[w] IN
  /\ j.pc \in Removing \cup {"status"}
  /\ Fault
  /\ spoiled' = spoiled \cup AddonKeys(j.cfg, CutOff(j))
  /\ Set(w, Idle)
  /\ UNCHANGED <<driver, store, status, deleting, jobs>>

(* The process of both controllers restarts.  (With the memory driver that *)
(* begins anew.)                                                           *)
Crash ==
  LET busy == {w \in Workers : job[w].pc # "idle"} IN
  /\ driver = "etcd"
  /\ Fault
  /\ spoiled' = spoiled \cup UNION {AddonKeys(job[w].cfg, CutOff(job[w])) : w \in busy}
  /\ job' = [w \in Workers |-> Idle]
  /\ UNCHANGED <<driver, store, status, deleting, jobs>>

-----------------------------------------------------------------------------
Init ==
  /\ driver \in Drivers
  /\ idSpace = [s \in Scopes |-> [id \in IDs |-> Nil]]
  /\ nvSpace = [s \in Scopes |-> [nv \in NVs |-> Nil]]
  /\ charts = [s \in Scopes |-> {}]
  /\ groups = [s \in Scopes |-> [id \in IDs |-> 0]]
  /\ status = [c \in Configs |-> NoStatus]
  /\ deleting = {}
  /\ job = [w \in Workers |-> Idle]
  /\ spoiled = {}
  /\ jobs = 0 /\ faults = 0

Save(w) ==
  \/ EnsureAssetGroup(w) \/ PutID(w) \/ PutNameVersion(w) \/ UpsertInMemory(w)
  \/ saveCharts(w) \/ updateAddonStatus(w)

Remove(w) ==
  \/ removeAddon(w) \/ DeleteNameVersion(w) \/ DeleteID(w) \/ RemoveInMemory(w)
  \/ EnsureAssetGroupRemoved(w) \/ removeCharts(w)

Next ==
  \/ \E c \in Configs : FetchingError(c) \/ OnDelete(c)
                          \/ \E offers \in SUBSET Offers : OnAdd(c, offers)
  \/ \E w \in Workers : Save(w) \/ Remove(w) \/ RegisteringError(w) \/ ReconcileFails(w)
  \/ Crash

Spec == Init /\ [][Next]_vars
-----------------------------------------------------------------------------
(* Properties.                                                             *)

(* Type invariant.                                                         *)
StorageTypeOK ==
  /\ driver \in {"etcd", "memory"}
  /\ idSpace \in [Scopes -> [IDs -> Offers \cup {Nil}]]
  /\ nvSpace \in [Scopes -> [NVs -> (IF driver = "etcd" THEN Offers ELSE IDs) \cup {Nil}]]
  /\ charts \in [Scopes -> SUBSET Charts]
  /\ groups \in [Scopes -> [IDs -> Nat]]
  /\ status \in [Configs -> Status]
  /\ deleting \subseteq Configs
  /\ job \in [Workers -> Job]
  /\ spoiled \subseteq Scopes \X IDs

(* No reconciliation of the configuration has begun and not ended.         *)
AtRest(c) == job[WorkerOf(c)].cfg # c /\ c \notin deleting

(* Addons of scope s that were last saved and removed as a whole.          *)
Clean(s) == {o \in Offers : <<s, o.id>> \notin spoiled}

(* The chart of an addon is found by the reference that was stored.        *)
ChartFound(s, o) == ChartRef(o) \in charts[s]
WrittenAsPrinted(o) == Printed[ChartOf[o.nv]] = ChartOf[o.nv]

(* An addon that a configuration lists as Ready is what the broker finds   *)
(* under its ID and what the controllers find under its name and version,  *)
(* in the contents it was last registered with, with its documentation     *)
(* and, unless the version of the chart is written in another way than     *)
(* etcd gives it back, its chart: whatever was registered or removed       *)
(* before, whatever failed for other addons, also when a restart or error  *)
(* cut off an attempt to register the configuration anew, and again after  *)
(* one that had come between the two puts of Upsert.                       *)
ListedIsServed ==
  \A c \in Configs : AtRest(c) =>
    LET s == ScopeOf[c] IN
    \A o \in status[c].ready \cap Clean(s) :
      /\ GetByID(s, o.id) = o
      /\ Get(s, o.nv) = o
      /\ driver = "memory" \/ WrittenAsPrinted(o) => ChartFound(s, o)
      /\ o.docs => groups[s][o.id] = o.rev

ListedIn(s) == UNION {status[c].ready : c \in {d \in Configs : ScopeOf[d] = s}}

(* Between reconciliations the catalog of a scope, FindAll, has nothing    *)
(* but what the configurations of this scope list, nor are there charts or *)
(* documentation of anything else.  (What is left behind of an addon that  *)
(* was cut off by a failure or a restart while it was saved or removed, or *)
(* whose configuration could not fetch a repository, nobody removes, until *)
(* it is registered again.)                                                *)
OnlyListedIsServed ==
  (\A w \in Workers : job[w] = Idle) =>
    \A s \in Scopes :
      \A o \in Clean(s) :
        /\ o \in FindAll(s) => o \in ListedIn(s)
        /\ WrittenAsPrinted(o) /\ ChartFound(s, o) => o.nv \in {p.nv : p \in ListedIn(s)}
        /\ groups[s][o.id] # 0 => o.id \in {p.id : p \in ListedIn(s)}

(* Registering anew is no gap in the catalog: the ID of an addon that was  *)
(* last saved as a whole is deleted only in a scope where no configuration *)
(* lists it, or one that is being deleted.  This needs the status to be    *)
(* written before orphans are removed, and every addon to have an ID of    *)
(* its own.                                                                *)
NoGap ==
  [][\A s \in Scopes, id \in IDs :
       idSpace[s][id] # Nil /\ idSpace'[s][id] = Nil /\ <<s, id>> \notin spoiled =>
         \A c \in Configs :
           ScopeOf[c] = s /\ id \in {o.id : o \in status'[c].ready} => c \in deleting]_vars
=============================================================================
