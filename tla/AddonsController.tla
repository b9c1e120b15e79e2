-------------------------- MODULE AddonsController --------------------------
(***************************************************************************)
(* The controller of (Cluster)AddonsConfigurations of one scope, that is a *)
(* namespace or the cluster (internal/controller/common.go,                *)
(* common_client.go, repository/): it loads the repositories a             *)
(* configuration names, fails it if an addon is broken or offered by       *)
(* another configuration, stores the addons and charts of a configuration  *)
(* that is Ready, removes what is no longer offered, asks Service Catalog  *)
(* to relist, and has configurations reprocessed that may have been        *)
(* waiting for an addon.                                                   *)
(*                                                                         *)
(* One worker reconciles one configuration at a time.  It reads            *)
(* configurations from the cache of the manager, which follows the API     *)
(* server, and writes to the API server; a write from a cached object that *)
(* is out of date is a conflict, and is retried (retry.RetryOnConflict).   *)
(* Every call to the API server or to a storage is a step.                 *)
(*                                                                         *)
(* A repository is one that offers one addon, so that repositories and     *)
(* addons of a configuration are the same set.                             *)
(***************************************************************************)
EXTENDS Naturals, FiniteSets

CONSTANTS
  Configs,     \* names of configurations
  Addons,      \* name and version of an addon, which is its key
  ID,          \* ID[a]: the ID in the meta.yaml of addon a
  ChartOf,     \* ChartOf[a]: the chart of its plan
  Specs,       \* what a user may ask for: sets of addons
  Fresh,       \* reads for which the cache is up to date: "get", "list"
  MaxEdits,    \* bound on what users do
  MaxErrors,   \* bound on loads in which something is wrong
  MaxCrashes,  \* bound on restarts of the controller
  MaxFaults,   \* bound on calls that return an error
  Nil          \* nothing

Charts == {ChartOf[a] : a \in Addons}

ASSUME ConstantsAssumption ==
  /\ ID \in [Addons -> {ID[a] : a \in Addons}]
  /\ ChartOf \in [Addons -> Charts]
  /\ Specs \subseteq SUBSET Addons
  /\ Fresh \subseteq {"get", "list"}
  /\ MaxEdits \in Nat /\ MaxErrors \in Nat /\ MaxCrashes \in Nat /\ MaxFaults \in Nat

VARIABLES
  conf,        \* conf[c]: the configuration in the API server, or Nil
  cache,       \* cache[c]: the same as the manager has it
  queue,       \* configurations in the work queue
  rec,         \* the reconciliation under way
  stored,      \* addons in the storage, by key
  charts,      \* charts in the storage
  broker,      \* the ServiceBroker: "absent", to be relisted, or "listed"
  catalog,     \* the addons Service Catalog has been told of
  edits, errors, crashes, faults

store == <<stored, charts>>
serviceCatalog == <<broker, catalog>>
counters == <<edits, errors, crashes, faults>>
vars == <<conf, cache, queue, rec, store, serviceCatalog, counters>>

-----------------------------------------------------------------------------
(* Data.  A status lists the repositories by what became of them: with an  *)
(* addon that is Ready, with one that is Failed, and not fetched.          *)

PhasesWithoutPending == {"", "Ready", "Failed"}
Phases == {"", "Pending", "Ready", "Failed"}
Status == [phase : Phases, observed : Nat, ready : SUBSET Addons,
           failed : SUBSET Addons, unfetched : SUBSET Addons]
NewStatus == [phase |-> "", observed |-> 0, ready |-> {}, failed |-> {}, unfetched |-> {}]

Configuration == [gen : Nat, spec : SUBSET Addons, deleting : BOOLEAN,
                  finalizer : BOOLEAN, status : Status]

Listed(status) == status.ready \cup status.failed

PCs == {"idle", "protect", "pending", "load", "report", "revise", "save", "status",
        "list", "ask", "remove", "broker", "unprotect"}

(* The locals of a reconciliation: the configuration as it was read, the   *)
(* status before and after, the statuses of the others as they were        *)
(* listed, and what is left to do.                                         *)
Reconciliation ==
  [pc : PCs, cfg : Configs \cup {Nil}, gen : Nat, spec : SUBSET Addons, deleting : BOOLEAN,
   last : Status, status : Status, others : [Configs -> Status \cup {Nil}],
   todo : SUBSET Addons, gone : SUBSET Addons, ask : SUBSET Configs, saved : BOOLEAN]

Idle == [pc |-> "idle", cfg |-> Nil, gen |-> 0, spec |-> {}, deleting |-> FALSE,
         last |-> NewStatus, status |-> NewStatus, others |-> [c \in Configs |-> Nil],
         todo |-> {}, gone |-> {}, ask |-> {}, saved |-> FALSE]

ASSUME NilAssumption == Nil \notin Configs /\ Nil \notin Configuration /\ Nil \notin Status

-----------------------------------------------------------------------------
(* IsReadyForInitialProcessing, IsReadyForReprocessing and Equals.         *)

IsReadyForInitialProcessing(o) == o.status.observed = 0 \/ o.status.phase = "Pending"
ReprocessAlways(o) == o.gen >= o.status.observed \/ o.status.unfetched # {}
IsReadyForReprocessing(o) == o.gen > o.status.observed \/ o.status.unfetched # {}

(* The phase and, repository by repository, what became of it; the addons  *)
(* of a repository are not compared.                                       *)
Equals(s, t) ==
  /\ s.phase = t.phase
  /\ s.unfetched = t.unfetched
  /\ Listed(s) = Listed(t)

(* isConfigurationInConflict: a status that tells of repositories that     *)
(* were not fetched calls none of the others Failed.                       *)
isConfigurationInConflict(a, status) ==
  status.phase # "Ready" /\ status.unfetched = {} /\ a \in status.failed

(* listExistingConfigurations: the statuses of the others in the cache.    *)
listExistingConfigurations(c) ==
  [d \in Configs |-> IF d # c /\ cache[d] # Nil THEN cache[d].status ELSE Nil]

(* findExistingAddon: an addon some other configuration has as Ready,      *)
(* whatever the phase of that configuration.                               *)
FindFailedAddon(a, others) ==
  \E d \in Configs : others[d] # Nil /\ a \in others[d].failed
findExistingAddon(a, others) ==
  \E d \in Configs : others[d] # Nil /\ a \in others[d].ready

-----------------------------------------------------------------------------
(* Moves of the worker.                                                    *)

At(pc) == rec.pc = pc
End == rec' = Idle /\ UNCHANGED queue

(* Reconcile returns an error: the request is queued again.                *)
Retry == rec' = Idle /\ queue' = queue \cup {rec.cfg}

(* A write to c by UpdateConfiguration, UpdateConfigurationStatus and      *)
(* ReprocessRequest: a Get from the cache and an Update, repeated until    *)
(* what was got is the latest version.                                     *)
Write(c, object) ==
  /\ conf[c] # Nil
  /\ cache[c] = conf[c]
  /\ conf' = [conf EXCEPT ![c] = object]
  /\ UNCHANGED cache

(* Every status has a time of its own: one that is otherwise the same is   *)
(* an event, too.                                                          *)
WriteStatus(status) ==
  /\ Write(rec.cfg, [conf[rec.cfg] EXCEPT !.status = status])
  /\ queue' = IF conf' = conf THEN queue \cup {rec.cfg} ELSE queue

(* Where to go on with removals: those left, the broker if something has   *)
(* changed, the finalizer.                                                 *)
SyncAfterSaving(r) ==
  IF r.todo # {} THEN "remove"
  ELSE IF r.saved THEN "broker"
  ELSE IF r.deleting THEN "unprotect" ELSE "idle"
afterRemoving(r) ==
  IF r.todo # {} THEN "remove"
  ELSE IF r.saved \/ r.gone # {} THEN "broker"
  ELSE IF r.deleting THEN "unprotect" ELSE "idle"

Resume(r, pc) == rec' = IF pc = "idle" THEN Idle ELSE [r EXCEPT !.pc = pc]

-----------------------------------------------------------------------------
(* Reconcile.                                                              *)

(* The request is taken off the queue and the configuration read.  That it *)
(* is not found is an error: the request goes back to the queue, which is  *)
(* no step here.                                                           *)
Reconcile(c) ==
  LET o == cache[c]
      r == [Idle EXCEPT !.cfg = c, !.gen = o.gen, !.spec = o.spec, !.deleting = o.deleting,
                        !.last = o.status, !.status = o.status] IN
  /\ At("idle")
  /\ c \in queue
  /\ o # Nil
  /\ "get" \in Fresh => o = conf[c]
  /\ queue' = queue \ {c}
  /\ Resume(r, IF o.deleting
                 THEN IF o.status.phase = "Ready" THEN "list" ELSE "unprotect"
               ELSE IF IsReadyForInitialProcessing(o) THEN "protect"
               ELSE IF IsReadyForReprocessing(o) THEN "load" ELSE "idle")
  /\ UNCHANGED <<conf, cache, store, serviceCatalog, counters>>

(* UpdateConfiguration writes the finalizers and also the spec as it was   *)
(* read at the start; where there is another one by now, that makes a new  *)
(* generation.                                                             *)
Updated(o, finalizer) ==
  LET same == o.gen = rec.gen /\ o.spec = rec.spec IN
  [o EXCEPT !.finalizer = finalizer, !.spec = rec.spec, !.gen = IF same THEN @ ELSE @ + 1]

(* PrepareForProcessing, the finalizer.                                    *)
addFinalizer ==
  LET o == Updated(conf[rec.cfg], TRUE) IN
  /\ At("protect")
  /\ Write(rec.cfg, o)
  /\ rec' = [rec EXCEPT !.pc = "pending", !.gen = o.gen]
  /\ UNCHANGED <<queue, store, serviceCatalog, counters>>

(* PrepareForProcessing, the status.                                       *)
setPending ==
  LET status == [rec.status EXCEPT !.phase = "Pending", !.observed = rec.gen] IN
  /\ At("pending")
  /\ WriteStatus(status)
  /\ rec' = [rec EXCEPT !.pc = "load", !.last = status, !.status = status]
  /\ UNCHANGED <<store, serviceCatalog, counters>>

-----------------------------------------------------------------------------
(* OnAdd.                                                                  *)

(* loadRepositories: repositories that cannot be fetched, and addons that  *)
(* cannot be fetched or loaded.                                            *)
loadRepositories ==
  /\ At("load")
  /\ \E unfetched \in SUBSET rec.spec : \E broken \in SUBSET (rec.spec \ unfetched) :
       /\ \/ unfetched \cup broken = {} /\ UNCHANGED errors
          \/ unfetched \cup broken # {} /\ errors < MaxErrors /\ errors' = errors + 1
       /\ rec' = [rec EXCEPT
                    !.pc = IF unfetched # {} THEN "report" ELSE "revise",
                    !.status = [phase |-> "Failed", observed |-> rec.gen,
                                ready |-> rec.spec \ (unfetched \cup broken),
                                failed |-> broken, unfetched |-> unfetched]]
  /\ UNCHANGED <<conf, cache, queue, store, serviceCatalog, edits, crashes, faults>>

(* A repository was not fetched: the status is written if it says          *)
(* something new, and TemporaryError has the request repeated.             *)
reportFetchingError ==
  /\ At("report")
  /\ IF Equals(rec.status, rec.last)
       THEN UNCHANGED <<conf, cache>>
       ELSE Write(rec.cfg, [conf[rec.cfg] EXCEPT !.status = rec.status])
  /\ Retry
  /\ UNCHANGED <<store, serviceCatalog, counters>>

(* ReviseAddonDuplicationInRepository: of the complete addons with one ID  *)
(* one is kept.                                                            *)
KeepsOneOfEachID(kept, complete) ==
  /\ kept \subseteq complete
  /\ \A a \in complete : \E b \in kept : ID[b] = ID[a]
  /\ \A a, b \in kept : ID[a] = ID[b] => a = b

(* A repository that has a Failed addon has failed.                        *)
IsRepositoriesFailed(failed) == failed # {}

(* ... and ReviseAddonDuplicationInStorage, against the configurations in  *)
(* the cache.                                                              *)
reviseAddonDuplication ==
  LET others == listExistingConfigurations(rec.cfg)
      complete == rec.status.ready IN
  /\ At("revise")
  /\ "list" \in Fresh => cache = conf
  /\ \E kept \in SUBSET complete :
       /\ KeepsOneOfEachID(kept, complete)
       /\ LET ready == {a \in kept : ~findExistingAddon(a, others)}
              failed == rec.spec \ ready
              phase == IF IsRepositoriesFailed(failed) THEN "Failed" ELSE "Ready" IN
          rec' = [rec EXCEPT !.pc = IF phase = "Ready" /\ ready # {} THEN "save" ELSE "status",
                             !.others = others,
                             !.todo = IF phase = "Ready" THEN ready ELSE {},
                             !.status.phase = phase,
                             !.status.ready = ready,
                             !.status.failed = failed]
  /\ UNCHANGED <<conf, cache, queue, store, serviceCatalog, counters>>

(* saveAddons: the addon, then its charts.  (That these are calls of their *)
(* own is for RegisteringError and, call by call, for AddonStorage.)       *)
saveAddon(a) ==
  /\ At("save")
  /\ a \in rec.todo
  /\ stored' = stored \cup {a}
  /\ charts' = charts \cup {ChartOf[a]}
  /\ rec' = [rec EXCEPT !.todo = @ \ {a}, !.saved = TRUE,
                         !.pc = IF rec.todo = {a} THEN "status" ELSE "save"]
  /\ UNCHANGED <<conf, cache, queue, serviceCatalog, counters>>

(* deletePreviousAddons and deleteOrphanAddons: if the configuration was   *)
(* Ready before, the addons it no longer offers are removed, all of them   *)
(* if it has failed.                                                       *)
RemoveAll(last, status) == IF last.phase # "Ready" THEN {} ELSE Listed(last)
KeepOnFailure(last, status) ==
  IF last.phase # "Ready" \/ status.phase = "Failed" THEN {} ELSE Listed(last) \ Listed(status)
orphanAddons(last, status) ==
  IF last.phase # "Ready" THEN {}
  ELSE IF status.phase = "Failed" THEN Listed(last)
  ELSE Listed(last) \ Listed(status)

(* The status is written before anything is removed.                       *)
updateAddonStatus ==
  LET status == [rec.status EXCEPT !.observed = rec.gen]
      r == [rec EXCEPT !.status = status, !.todo = orphanAddons(rec.last, status)] IN
  /\ At("status")
  /\ WriteStatus(status)
  /\ Resume(r, afterRemoving(r))
  /\ UNCHANGED <<store, serviceCatalog, counters>>

-----------------------------------------------------------------------------
(* OnDelete of a configuration that is Ready: all others that are not are  *)
(* asked to reprocess, then the addons are removed.                        *)
PendingOnes(others) == {d \in Configs : others[d] # Nil /\ others[d].phase = "Pending"}
UnreadyOnes(others) == {d \in Configs : others[d] # Nil /\ others[d].phase # "Ready"}
listOnDelete ==
  LET r == [rec EXCEPT !.todo = Listed(rec.status),
                       !.ask = UnreadyOnes(listExistingConfigurations(rec.cfg))] IN
  /\ At("list")
  /\ "list" \in Fresh => cache = conf
  /\ Resume(r, IF r.ask # {} THEN "ask" ELSE afterRemoving(r))
  /\ UNCHANGED <<conf, cache, queue, store, serviceCatalog, counters>>

(* deleteFinalizer: the API server lets a configuration go that is being   *)
(* deleted.                                                                *)
deleteFinalizer ==
  LET o == conf[rec.cfg] IN
  /\ At("unprotect")
  /\ Write(rec.cfg, IF o.deleting THEN Nil ELSE Updated(o, FALSE))
  /\ End
  /\ UNCHANGED <<store, serviceCatalog, counters>>

-----------------------------------------------------------------------------
(* What OnAdd and OnDelete share.                                          *)

(* removeAddon: the addon, then its chart; one that is not stored is       *)
(* passed over.  OnAdd counts that one as removed too, OnDelete does not.  *)
removeAddon(a) ==
  LET counted == IF rec.deleting THEN {a} \cap stored ELSE {a}
      r == [rec EXCEPT !.todo = @ \ {a}, !.gone = @ \cup counted] IN
  /\ At("remove")
  /\ a \in rec.todo
  /\ stored' = stored \ {a}
  /\ charts' = IF a \in stored THEN charts \ {ChartOf[a]} ELSE charts
  /\ Resume(r, afterRemoving(r))
  /\ UNCHANGED <<conf, cache, queue, serviceCatalog, counters>>

(* A broker that exists is to be relisted.                                 *)
Sync == broker' = IF broker = "absent" THEN "absent" ELSE "asked"

(* ensureBroker, or Sync alone on deletion; then OnAdd has configurations  *)
(* reprocessed that are in conflict with what was removed.                 *)
ensureBroker ==
  LET r == [rec EXCEPT !.ask = {d \in Configs :
                                  /\ rec.others[d] # Nil
                                  /\ \E a \in rec.gone :
                                       isConfigurationInConflict(a, rec.others[d])}] IN
  /\ At("broker")
  /\ Sync
  /\ Resume(r, IF rec.deleting THEN "unprotect" ELSE IF r.ask # {} THEN "ask" ELSE "idle")
  /\ UNCHANGED <<conf, cache, queue, store, catalog, counters>>

(* ReprocessRequest; more than one for a configuration is as good as one.  *)
ReprocessRequest(d) ==
  LET r == [rec EXCEPT !.ask = @ \ {d}] IN
  /\ At("ask")
  /\ d \in rec.ask
  /\ Write(d, [conf[d] EXCEPT !.gen = @ + 1])
  /\ Resume(r, IF r.ask # {} THEN "ask"
               ELSE IF r.deleting THEN afterRemoving(r) ELSE "idle")
  /\ UNCHANGED <<queue, store, serviceCatalog, counters>>

(* The configuration to write to is gone.                                  *)
NotFound ==
  /\ rec.pc \in {"protect", "pending", "report", "status", "ask", "unprotect"}
  /\ \E c \in IF At("ask") THEN rec.ask ELSE {rec.cfg} : cache[c] = Nil \/ conf[c] = Nil
  /\ At("report") => ~Equals(rec.status, rec.last)
  /\ Retry
  /\ UNCHANGED <<conf, cache, store, serviceCatalog, counters>>

-----------------------------------------------------------------------------
(* Failures.                                                               *)

Fault == faults < MaxFaults /\ faults' = faults + 1

(* A call to the API server or a storage returns an error.                 *)
CallFails ==
  /\ rec.pc \in {"protect", "pending", "report", "revise", "status", "list", "ask", "broker",
               "unprotect"}
  /\ Fault
  /\ Retry
  /\ UNCHANGED <<conf, cache, store, serviceCatalog, edits, errors, crashes>>

(* An addon or its chart cannot be stored: the addon becomes Failed, but   *)
(* not the configuration.                                                  *)
RegisteringError(a) ==
  /\ At("save")
  /\ a \in rec.todo
  /\ Fault
  /\ \E upserted \in BOOLEAN :
       /\ stored' = IF upserted THEN stored \cup {a} ELSE stored
       /\ rec' = [rec EXCEPT !.todo = @ \ {a}, !.saved = @ \/ upserted,
                              !.status.ready = @ \ {a}, !.status.failed = @ \cup {a},
                              !.pc = IF rec.todo = {a} THEN "status" ELSE "save"]
  /\ UNCHANGED <<conf, cache, queue, charts, serviceCatalog, edits, errors, crashes>>

(* A removal fails, before or after the addon itself is removed.           *)
RemovalFails(a) ==
  /\ At("remove")
  /\ a \in rec.todo
  /\ Fault
  /\ stored' \in {stored, stored \ {a}}
  /\ Retry
  /\ UNCHANGED <<conf, cache, charts, serviceCatalog, edits, errors, crashes>>

(* The controller restarts: the informer lists everything anew.            *)
Crash ==
  /\ crashes < MaxCrashes
  /\ crashes' = crashes + 1
  /\ rec' = Idle
  /\ cache' = conf
  /\ queue' = {c \in Configs : conf[c] # Nil}
  /\ UNCHANGED <<conf, store, serviceCatalog, edits, errors, faults>>

-----------------------------------------------------------------------------
(* The environment: users, the informer, the broker and Service Catalog.   *)

userEdits == edits < MaxEdits /\ edits' = edits + 1

Create(c, spec) ==
  /\ conf[c] = Nil
  /\ userEdits
  /\ conf' = [conf EXCEPT ![c] = [gen |-> 1, spec |-> spec, deleting |-> FALSE,
                                  finalizer |-> FALSE, status |-> NewStatus]]
  /\ UNCHANGED <<cache, queue, rec, store, serviceCatalog, errors, crashes, faults>>

(* Another set of repositories, or a request to reprocess the same.        *)
Edit(c, spec) ==
  /\ conf[c] # Nil
  /\ ~conf[c].deleting
  /\ userEdits
  /\ conf' = [conf EXCEPT ![c].spec = spec, ![c].gen = @ + 1]
  /\ UNCHANGED <<cache, queue, rec, store, serviceCatalog, errors, crashes, faults>>

Delete(c) ==
  /\ conf[c] # Nil
  /\ ~conf[c].deleting
  /\ userEdits
  /\ conf' = [conf EXCEPT ![c] = IF @.finalizer THEN [@ EXCEPT !.deleting = TRUE] ELSE Nil]
  /\ UNCHANGED <<cache, queue, rec, store, serviceCatalog, errors, crashes, faults>>

(* The informer brings the cache up to date and queues a request.          *)
Deliver(c) ==
  /\ cache[c] # conf[c]
  /\ cache' = [cache EXCEPT ![c] = conf[c]]
  /\ queue' = queue \cup {c}
  /\ UNCHANGED <<conf, rec, store, serviceCatalog, counters>>

(* The ServiceBroker is created while there are configurations, and        *)
(* deleted when there are none; Service Catalog fetches the catalog of a   *)
(* new one and whenever RelistRequests has grown.                          *)
CreateBroker ==
  /\ broker = "absent"
  /\ \E c \in Configs : conf[c] # Nil
  /\ broker' = "asked"
  /\ UNCHANGED <<conf, cache, queue, rec, store, catalog, counters>>

DeleteBroker ==
  /\ broker # "absent"
  /\ \A c \in Configs : conf[c] = Nil
  /\ broker' = "absent"
  /\ catalog' = {}
  /\ UNCHANGED <<conf, cache, queue, rec, store, counters>>

Relist ==
  /\ broker = "asked"
  /\ broker' = "listed"
  /\ catalog' = stored
  /\ UNCHANGED <<conf, cache, queue, rec, store, counters>>

-----------------------------------------------------------------------------
Init ==
  /\ conf = [c \in Configs |-> Nil]
  /\ cache = [c \in Configs |-> Nil]
  /\ queue = {}
  /\ rec = Idle
  /\ stored = {}
  /\ charts = {}
  /\ broker = "absent"
  /\ catalog = {}
  /\ edits = 0 /\ errors = 0 /\ crashes = 0 /\ faults = 0

WorkerStep ==
  \/ addFinalizer \/ setPending
  \/ loadRepositories \/ reportFetchingError \/ reviseAddonDuplication
  \/ updateAddonStatus
  \/ \E a \in Addons : saveAddon(a) \/ removeAddon(a)
  \/ listOnDelete \/ deleteFinalizer
  \/ ensureBroker
  \/ \E d \in Configs : ReprocessRequest(d)
  \/ NotFound

FailureStep ==
  \/ CallFails
  \/ \E a \in Addons : RegisteringError(a) \/ RemovalFails(a)
  \/ Crash

UserStep ==
  \E c \in Configs :
    \/ \E spec \in Specs : Create(c, spec) \/ Edit(c, spec)
    \/ Delete(c)

Next ==
  \/ UserStep
  \/ \E c \in Configs : Deliver(c) \/ Reconcile(c)
  \/ WorkerStep
  \/ FailureStep
  \/ CreateBroker \/ DeleteBroker \/ Relist

Spec == Init /\ [][Next]_vars

(* The worker runs, the work queue is served first in, first out, the      *)
(* informer delivers, and Service Catalog relists when it is asked to.     *)
Fairness ==
  /\ WF_vars(WorkerStep)
  /\ \A c \in Configs : SF_vars(Reconcile(c)) /\ WF_vars(Deliver(c))
  /\ WF_vars(Relist)

FairSpec == Spec /\ Fairness
-----------------------------------------------------------------------------
(* Properties.                                                             *)

(* Type invariant.                                                         *)
AddonsTypeOK ==
  /\ \A c \in Configs : conf[c] # Nil => conf[c] \in Configuration
  /\ \A c \in Configs : cache[c] # Nil => cache[c] \in Configuration
  /\ queue \subseteq Configs
  /\ rec \in Reconciliation
  /\ stored \subseteq Addons /\ charts \subseteq Charts
  /\ broker \in {"absent", "asked", "listed"} /\ catalog \subseteq Addons

IsReady(c) == conf[c] # Nil /\ conf[c].status.phase = "Ready"

(* OnAdd compares with the statuses of the other configurations, and writes *)
(* its own a few calls later: an addon is nonetheless registered by one    *)
(* Ready configuration at most, through restarts, failed calls and edits   *)
(* of what is being reconciled.                                            *)
OneRegistrar ==
  \A c, d \in Configs :
    IsReady(c) /\ IsReady(d) /\ c # d => conf[c].status.ready \cap conf[d].status.ready = {}

(* What a Ready configuration says it offers is in the storage, with its   *)
(* chart: no removal on behalf of an earlier owner or of an outdated       *)
(* status takes it away, as long as no call has failed.  (An addon that    *)
(* could not be registered stays in the status of a Ready configuration,   *)
(* which removes it with its own, whoever has registered it since.)        *)
ReadyIsStored ==
  \A c \in Configs :
    faults = 0 /\ IsReady(c) /\ ~conf[c].deleting =>
      \A a \in conf[c].status.ready : a \in stored /\ ChartOf[a] \in charts

(* Nothing is left to do: no reconciliation, request or event.             *)
Quiescent ==
  /\ rec = Idle
  /\ cache = conf
  /\ \A c \in queue : conf[c] = Nil

(* No restart, no failed call and nothing wrong with a repository so far.  *)
Undisturbed == errors = 0 /\ crashes = 0 /\ faults = 0

(* Once all is settled, what is stored is what the Ready configurations    *)
(* offer: nothing of a configuration that failed, changed or was deleted   *)
(* is left.  (OnAdd writes the status before it removes: what a restart or *)
(* an error in between leaves behind is nobody's any more.)                *)
NothingLeftBehind ==
  Quiescent /\ Undisturbed =>
    stored = UNION {conf[c].status.ready : c \in {d \in Configs : IsReady(d)}}

(* Once all is settled, Service Catalog has been told of what is stored,   *)
(* whether the worker or the creation of the broker was first.             *)
CatalogCurrent == Quiescent /\ Undisturbed /\ broker = "listed" => catalog = stored

(* OnDelete of a configuration that it read as Ready: when it is gone,     *)
(* every Failed configuration has been told to try again, through restarts *)
(* and failed calls.                                                       *)
ReleaseReprocesses ==
  [][\A c, d \in Configs :
       /\ At("unprotect") /\ rec.cfg = c /\ rec.last.phase = "Ready" /\ conf'[c] = Nil
       /\ conf[d] # Nil /\ conf[d].status.phase = "Failed"
       => c = d \/ conf'[d].gen > conf[d].status.observed]_vars

(* Reprocessing comes to an end: configurations in conflict do not keep    *)
(* each other busy.                                                        *)
Settles == <>[]Quiescent
=============================================================================
