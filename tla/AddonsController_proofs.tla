----------------------- MODULE AddonsController_proofs -----------------------
(***************************************************************************)
(* The controller of configurations for every value of its constants: its  *)
(* types, that no addon has two registrars, that what is offered stays     *)
(* stored, and that who waits for an addon is told of its release.         *)
(***************************************************************************)
EXTENDS AddonsController, TLAPS

-----------------------------------------------------------------------------
(* The inductive invariant.                                                *)

AddonsTypes ==
  /\ conf \in [Configs -> Configuration \cup {Nil}]
  /\ cache \in [Configs -> Configuration \cup {Nil}]
  /\ queue \subseteq Configs
  /\ rec \in Reconciliation
  /\ stored \subseteq Addons /\ charts \subseteq Charts
  /\ broker \in {"absent", "asked", "listed"} /\ catalog \subseteq Addons
  /\ faults \in Nat

(* OnAdd from the read of the configuration to the write of its status,    *)
(* and the part of that after the finalizer is written.                    *)
Processing == {"protect", "pending", "load", "report", "revise", "save", "status"}
Protected == {"pending", "load", "report", "revise", "save", "status"}
Releasing == {"ask", "remove", "broker", "unprotect"}

(* What the locals r of a reconciliation say at each step: removals are of *)
(* what the configuration had as Ready when it was read, OnDelete has no   *)
(* use for the statuses of others, and has asked all it has to ask before  *)
(* it removes.                                                             *)
LocalInv(r) ==
  /\ r.pc = "idle" => r = Idle
  /\ r.pc # "idle" => r.cfg \in Configs
  /\ r.pc \in Processing => ~r.deleting
  /\ r.pc \in {"list", "unprotect"} => r.deleting
  /\ r.pc = "list" => r.status = r.last /\ r.last.phase = "Ready"
  /\ \A d \in Configs : r.deleting \/ d = r.cfg => r.others[d] = Nil
  /\ r.deleting /\ r.pc # "ask" => r.ask = {}
  /\ r.cfg \notin r.ask
  /\ r.pc = "save" => r.status.phase = "Ready"
  /\ r.pc = "report" => r.status.phase = "Failed"
  /\ r.todo # {} => r.pc = "save" \/ (r.last.phase = "Ready" /\ r.todo \subseteq Listed(r.last))
  /\ r.pc \in Processing \ {"save"} => r.todo = {}
  /\ r.pc = "broker" \/ (~r.deleting /\ r.pc = "ask") => r.todo = {}
  /\ r.pc \in {"report", "revise", "save", "status"} => r.status.observed = r.gen

(* The configuration has been processed.                                   *)
Observed(status) == status.observed # 0 \/ status.phase # ""

(* The finalizer is there as long as a status is, or will be written: the  *)
(* configuration cannot be replaced by another one of its name meanwhile.  *)
ObjectsInv ==
  /\ \A c \in Configs : conf[c] # Nil =>
       /\ conf[c].status.observed <= conf[c].gen
       /\ Observed(conf[c].status) => conf[c].finalizer
  /\ \A c \in Configs : cache[c] # Nil =>
       /\ Observed(cache[c].status) => cache[c].finalizer
       /\ cache[c].finalizer /\ ~cache[c].deleting =>
            conf[c] # Nil /\ conf[c].finalizer /\ cache[c].gen <= conf[c].gen
       /\ cache[c].deleting /\ conf[c] # Nil => conf[c].deleting \/ ~conf[c].finalizer

FinalizerInv(r) ==
  /\ r.pc \in Protected =>
       conf[r.cfg] # Nil /\ conf[r.cfg].finalizer /\ r.gen <= conf[r.cfg].gen
  /\ r.deleting /\ conf[r.cfg] # Nil => conf[r.cfg].deleting \/ ~conf[r.cfg].finalizer

(* The addons a status is about to register are registered by no other.    *)
RegisterInv(r) ==
  r.pc \in {"save", "status"} /\ r.status.phase = "Ready" =>
    \A d \in Configs \ {r.cfg} : IsReady(d) => conf[d].status.ready \cap r.status.ready = {}

(* OnDelete has told every Failed configuration, or will.                  *)
ReleaseInv(r) ==
  r.pc \in Releasing /\ r.deleting /\ r.last.phase = "Ready" =>
    \A d \in Configs \ {r.cfg} : conf[d] # Nil /\ conf[d].status.phase = "Failed"
      => d \in r.ask \/ conf[d].gen > conf[d].status.observed

(* No two addons have a chart in common.                                   *)
OwnCharts == \A a, b \in Addons : ChartOf[a] = ChartOf[b] => a = b

(* In the storage, with the chart if that is the addon's own.              *)
Stored(a) == a \in stored /\ (OwnCharts => ChartOf[a] \in charts)

OffersStored ==
  \A c \in Configs :
    IsReady(c) /\ ~conf[c].deleting => \A a \in conf[c].status.ready : Stored(a)

WasReady(c) == cache[c] # Nil /\ cache[c].status.phase = "Ready"

(* Without a failed call: what is Ready has no Failed addon, and what a    *)
(* configuration has as Ready, in the cache or now, no other has.  A       *)
(* configuration that the cache takes for a deleted one of that name is    *)
(* not Ready.                                                              *)
SharedInv ==
  /\ OffersStored
  /\ \A c \in Configs : IsReady(c) => conf[c].status.failed = {}
  /\ \A c \in Configs : WasReady(c) => cache[c].status.failed = {}
  /\ \A c, d \in Configs : c # d /\ WasReady(c) /\ IsReady(d)
       => cache[c].status.ready \cap conf[d].status.ready = {}
  /\ \A c \in Configs : cache[c] # Nil /\ cache[c].deleting /\ IsReady(c) => conf[c].deleting

(* The same of the status the worker has read, and of the one it will      *)
(* write; so that what it removes is nobody's.                             *)
RemovalInv(r) ==
  /\ r.last.phase = "Ready" =>
       /\ r.last.failed = {}
       /\ \A d \in Configs \ {r.cfg} : IsReady(d) => r.last.ready \cap conf[d].status.ready = {}
  /\ r.pc \in {"save", "status"} /\ r.status.phase = "Ready" =>
       /\ r.status.failed = {}
       /\ \A d \in Configs \ {r.cfg} : WasReady(d) =>
            cache[d].status.ready \cap r.status.ready = {}
       /\ \A a \in r.status.ready \ r.todo : Stored(a)
  /\ r.pc = "remove" /\ ~r.deleting /\ IsReady(r.cfg) => r.todo \cap conf[r.cfg].status.ready = {}
  /\ r.deleting /\ IsReady(r.cfg) => conf[r.cfg].deleting

WorkerInv(r) ==
  /\ LocalInv(r)
  /\ FinalizerInv(r)
  /\ "list" \in Fresh => RegisterInv(r) /\ ReleaseInv(r)
  /\ "list" \in Fresh /\ faults = 0 => RemovalInv(r)

AddonsInv ==
  /\ AddonsTypes
  /\ ObjectsInv
  /\ "list" \in Fresh => OneRegistrar
  /\ "list" \in Fresh /\ faults = 0 => SharedInv
  /\ WorkerInv(rec)


-----------------------------------------------------------------------------
(* The status of a new configuration.                                      *)
LEMMA NewStatusFacts ==
  /\ NewStatus \in Status /\ NewStatus.phase = "" /\ ~Observed(NewStatus)
  /\ \A n \in Nat : NewStatus.observed <= n
  BY DEF NewStatus, Status, Phases, Observed

(* No reconciliation.                                                      *)
LEMMA IdleFacts ==
  /\ Idle \in Reconciliation
  /\ Idle.pc = "idle" /\ Idle.cfg = Nil /\ Idle.last.phase = "" /\ ~Idle.deleting
  /\ Idle.todo = {} /\ Idle.ask = {} /\ Idle.gone = {}
  BY NewStatusFacts DEF Idle, Reconciliation, PCs

(* What follows from the types: the parts of a configuration.              *)
LEMMA ConfFacts ==
  ASSUME AddonsTypes, NEW c \in Configs
  PROVE  /\ conf[c] # Nil => conf[c] \in Configuration /\ conf[c].status \in Status
                             /\ conf[c].gen \in Nat /\ conf[c].status.observed \in Nat
                             /\ conf[c].status.ready \subseteq Addons
         /\ cache[c] # Nil => cache[c] \in Configuration /\ cache[c].status \in Status
                             /\ cache[c].gen \in Nat /\ cache[c].status.observed \in Nat
                             /\ cache[c].status.ready \subseteq Addons
  BY DEF AddonsTypes, Configuration, Status

(* The locals of a reconciliation.                                         *)
LEMMA RecFacts ==
  ASSUME NEW r \in Reconciliation
  PROVE  /\ r.pc \in PCs /\ r.cfg \in Configs \cup {Nil} /\ r.gen \in Nat
         /\ r.spec \subseteq Addons /\ r.deleting \in BOOLEAN /\ r.saved \in BOOLEAN
         /\ r.last \in Status /\ r.status \in Status
         /\ r.others \in [Configs -> Status \cup {Nil}]
         /\ r.todo \subseteq Addons /\ r.gone \subseteq Addons /\ r.ask \subseteq Configs
         /\ r.status.ready \subseteq Addons /\ r.status.failed \subseteq Addons
         /\ r.last.ready \subseteq Addons /\ r.last.failed \subseteq Addons
  BY DEF Reconciliation, Status

(* A reconciliation is of a configuration.                                 *)
LEMMA CfgFacts ==
  ASSUME NEW r \in Reconciliation, LocalInv(r)
  PROVE  /\ r.deleting => r.cfg \in Configs /\ r.pc # "idle"
         /\ r.pc # "idle" => r.cfg \in Configs
         /\ r.pc \in Protected => r.cfg \in Configs
         /\ r.pc \in {"save", "status", "remove"} => r.cfg \in Configs
  BY IdleFacts DEF LocalInv, Protected

(* Nothing is asked of no reconciliation.                                  *)
LEMMA IdleWorks == WorkerInv(Idle)
<1>1. LocalInv(Idle)
  <2>1. \A d \in Configs : Idle.others[d] = Nil
    BY DEF Idle
  <2> QED
    BY <2>1, IdleFacts, NilAssumption DEF LocalInv, Processing
<1>2. FinalizerInv(Idle) /\ RegisterInv(Idle) /\ ReleaseInv(Idle) /\ RemovalInv(Idle)
  BY IdleFacts DEF FinalizerInv, RegisterInv, ReleaseInv, RemovalInv, Protected, Releasing
<1> QED
  BY <1>1, <1>2 DEF WorkerInv

-----------------------------------------------------------------------------
(* Steps that leave the configurations as they are.                        *)
LEMMA MoveKeeps ==
  ASSUME AddonsInv, NEW r \in Reconciliation, rec' = r, UNCHANGED <<conf, cache>>,
         queue' \subseteq Configs, stored' \subseteq Addons, charts' \subseteq Charts,
         broker' \in {"absent", "asked", "listed"}, catalog' \subseteq Addons, faults' \in Nat,
         LocalInv(r), FinalizerInv(r),
         "list" \in Fresh => RegisterInv(r) /\ ReleaseInv(r),
         "list" \in Fresh /\ faults' = 0 => OffersStored' /\ RemovalInv(r)' /\ faults = 0
  PROVE  AddonsInv'
<1> USE DEF AddonsInv
<1>1. AddonsTypes'
  BY DEF AddonsTypes
<1>2. ObjectsInv'
  BY DEF ObjectsInv
<1>3. \A d \in Configs : (IsReady(d)' <=> IsReady(d)) /\ (WasReady(d)' <=> WasReady(d))
  BY DEF IsReady, WasReady
<1>4. "list" \in Fresh => OneRegistrar'
  BY <1>3 DEF OneRegistrar
<1>5. "list" \in Fresh /\ faults' = 0 => SharedInv'
  BY <1>3 DEF SharedInv
<1>6. WorkerInv(rec)'
  <2>1. LocalInv(r)' /\ FinalizerInv(r)'
    BY DEF LocalInv, FinalizerInv
  <2>2. "list" \in Fresh => RegisterInv(r)' /\ ReleaseInv(r)'
    BY <1>3 DEF RegisterInv, ReleaseInv
  <2> QED
    BY <2>1, <2>2 DEF WorkerInv, OwnCharts
<1> QED
  BY <1>1, <1>2, <1>4, <1>5, <1>6 DEF OwnCharts

(* ... and the storage.                                                    *)
LEMMA RecKeeps ==
  ASSUME AddonsInv, NEW r \in Reconciliation, rec' = r, UNCHANGED <<conf, cache, store, catalog>>,
         queue' \subseteq Configs, broker' \in {"absent", "asked", "listed"},
         faults' \in Nat, faults' = 0 => faults = 0,
         LocalInv(r), FinalizerInv(r),
         "list" \in Fresh => RegisterInv(r) /\ ReleaseInv(r),
         "list" \in Fresh /\ faults' = 0 => RemovalInv(r)
  PROVE  AddonsInv'
<1>1. UNCHANGED <<stored, charts>>
  BY DEF store
<1>2. AddonsTypes
  BY DEF AddonsInv
<1>3. "list" \in Fresh /\ faults' = 0 => OffersStored' /\ RemovalInv(r)' /\ faults = 0
  <2> SUFFICES ASSUME "list" \in Fresh, faults' = 0
               PROVE  OffersStored' /\ RemovalInv(r)' /\ faults = 0
    OBVIOUS
  <2>1. SharedInv
    BY DEF AddonsInv
  <2>2. OffersStored'
    BY <1>1, <2>1 DEF SharedInv, OffersStored, Stored, IsReady
  <2>3. RemovalInv(r)'
    BY <1>1 DEF RemovalInv, IsReady, WasReady, Stored
  <2> QED
    BY <2>2, <2>3
<1>4. stored' \subseteq Addons /\ charts' \subseteq Charts /\ catalog' \subseteq Addons
  BY <1>1, <1>2 DEF AddonsTypes
<1> HIDE DEF AddonsInv
<1> QED
  BY <1>3, <1>4, MoveKeeps

(* A reconciliation ends or is given up.                                   *)
LEMMA IdleKeeps ==
  ASSUME AddonsInv, rec' = Idle, UNCHANGED <<conf, cache, serviceCatalog>>,
         queue' \subseteq Configs, stored' \subseteq Addons, charts' \subseteq Charts,
         faults' \in Nat, faults' = 0 => faults = 0,
         "list" \in Fresh /\ faults' = 0 => OffersStored'
  PROVE  AddonsInv'
<1>1. RemovalInv(Idle)'
  BY IdleFacts DEF RemovalInv
<1>2. LocalInv(Idle) /\ FinalizerInv(Idle) /\ RegisterInv(Idle) /\ ReleaseInv(Idle)
  <2>1. FinalizerInv(Idle) /\ RegisterInv(Idle) /\ ReleaseInv(Idle)
    BY IdleFacts DEF FinalizerInv, RegisterInv, ReleaseInv, Protected, Releasing
  <2> QED
    BY <2>1, IdleWorks DEF WorkerInv
<1>3. broker' \in {"absent", "asked", "listed"} /\ catalog' \subseteq Addons
  BY DEF AddonsInv, AddonsTypes, serviceCatalog
<1> QED
  BY <1>1, <1>2, <1>3, IdleFacts, MoveKeeps

(* A configuration is missing, a call has failed, a removal has failed.    *)
LEMMA RetriesKeep ==
  ASSUME AddonsInv, NotFound \/ CallFails \/ \E a \in Addons : RemovalFails(a)
  PROVE  AddonsInv'
<1>0. AddonsTypes /\ rec \in Reconciliation /\ LocalInv(rec)
  BY DEF AddonsInv, AddonsTypes, WorkerInv
<1>1. /\ rec' = Idle /\ UNCHANGED <<conf, cache, serviceCatalog, charts>>
      /\ queue' = queue \cup {rec.cfg} /\ rec.pc # "idle"
  BY DEF NotFound, CallFails, RemovalFails, Retry, At, store
<1>2. queue' \subseteq Configs
  BY <1>0, <1>1, CfgFacts DEF AddonsTypes
<1>3. stored' \subseteq Addons /\ charts' \subseteq Charts
  BY <1>0, <1>1 DEF AddonsTypes, NotFound, CallFails, RemovalFails, store
<1>4. faults' \in Nat /\ (faults' = 0 => faults = 0 /\ UNCHANGED stored)
  <2>1. faults \in Nat
    BY <1>0 DEF AddonsTypes
  <2> QED
    BY <2>1 DEF NotFound, CallFails, RemovalFails, Fault, counters, store
<1>5. "list" \in Fresh /\ faults' = 0 => OffersStored'
  BY <1>1, <1>4 DEF AddonsInv, SharedInv, OffersStored, Stored, IsReady
<1> QED
  BY <1>1, <1>2, <1>3, <1>4, <1>5, IdleKeeps

-----------------------------------------------------------------------------
(* Reconcile reads a configuration.                                        *)
LEMMA ReconcileKeeps ==
  ASSUME AddonsInv, NEW c \in Configs, Reconcile(c)
  PROVE  AddonsInv'
<1> DEFINE o == cache[c]
<1> DEFINE s == [Idle EXCEPT !.cfg = c, !.gen = o.gen, !.spec = o.spec, !.deleting = o.deleting,
                             !.last = o.status, !.status = o.status]
<1> DEFINE pc == IF o.deleting
                   THEN IF o.status.phase = "Ready" THEN "list" ELSE "unprotect"
                 ELSE IF IsReadyForInitialProcessing(o) THEN "protect"
                 ELSE IF IsReadyForReprocessing(o) THEN "load" ELSE "idle"
<1> DEFINE r == [s EXCEPT !.pc = pc]
<1>0. AddonsTypes /\ faults \in Nat
  BY DEF AddonsInv, AddonsTypes
<1>1. /\ UNCHANGED <<conf, cache, store, serviceCatalog, faults, broker, catalog>>
      /\ o # Nil /\ queue' \subseteq Configs
      /\ rec' = IF pc = "idle" THEN Idle ELSE r
  BY <1>0 DEF Reconcile, counters, Resume, AddonsTypes, serviceCatalog
<1>2. o \in Configuration /\ o.status \in Status /\ o.gen \in Nat
  BY <1>0, <1>1, ConfFacts
<1>3. pc \in PCs
  BY DEF PCs
<1>4. /\ r \in Reconciliation /\ r.pc = pc /\ r.cfg = c /\ r.gen = o.gen /\ r.deleting = o.deleting
      /\ r.last = o.status /\ r.status = o.status /\ r.todo = {} /\ r.ask = {}
      /\ \A d \in Configs : r.others[d] = Nil
  <2> HIDE DEF pc
  <2> QED
    BY <1>2, <1>3 DEF Reconciliation, Configuration, Idle
<1>5. CASE pc = "idle"
  <2>1. OffersStored \/ ~("list" \in Fresh /\ faults = 0)
    BY DEF AddonsInv, SharedInv
  <2>2. stored' \subseteq Addons /\ charts' \subseteq Charts /\ (OffersStored => OffersStored')
    BY <1>0, <1>1 DEF AddonsTypes, store, OffersStored, Stored, IsReady
  <2> QED
    BY <1>0, <1>1, <1>5, <2>1, <2>2, IdleKeeps
<1>6. CASE pc # "idle"
  <2>1. /\ rec' = r
        /\ r.pc \in {"list", "unprotect", "protect", "load"}
        /\ r.pc = "list" => r.last.phase = "Ready"
        /\ r.pc = "unprotect" => r.last.phase # "Ready"
        /\ r.pc \in {"list", "unprotect"} <=> r.deleting
        /\ r.pc = "load" => ~IsReadyForInitialProcessing(o)
    BY <1>1, <1>4, <1>6
  <2> HIDE DEF r, s, pc
  <2>2. LocalInv(r)
    BY <1>4, <2>1, RecFacts DEF LocalInv, Processing
  <2>a. r.pc = "load" => Observed(o.status)
    BY <2>1 DEF IsReadyForInitialProcessing, Observed
  <2>3. FinalizerInv(r)
    BY <1>1, <1>4, <2>1, <2>a DEF FinalizerInv, Protected, AddonsInv, ObjectsInv
  <2>4. RegisterInv(r) /\ ReleaseInv(r)
    BY <2>1 DEF RegisterInv, ReleaseInv, Releasing
  <2>5. "list" \in Fresh /\ faults = 0 => RemovalInv(r)
    <3> SUFFICES ASSUME SharedInv PROVE RemovalInv(r)
      BY DEF AddonsInv
    <3>1. r.last.phase = "Ready" =>
            /\ r.last.failed = {}
            /\ \A d \in Configs \ {c} : IsReady(d) => r.last.ready \cap conf[d].status.ready = {}
      BY <1>1, <1>4 DEF SharedInv, WasReady
    <3>2. r.deleting /\ IsReady(c) => conf[c].deleting
      BY <1>1, <1>4 DEF SharedInv
    <3> QED
      BY <1>4, <2>1, <3>1, <3>2 DEF RemovalInv
  <2>6. broker' \in {"absent", "asked", "listed"}
    BY <1>0, <1>1 DEF AddonsTypes
  <2> QED
    BY <1>0, <1>1, <1>4, <2>1, <2>2, <2>3, <2>4, <2>5, <2>6, RecKeeps
<1> QED
  BY <1>5, <1>6

(* loadRepositories: a new status, of nothing registered yet.              *)
LEMMA LoadKeeps ==
  ASSUME AddonsInv, loadRepositories
  PROVE  AddonsInv'
<1>0. /\ AddonsTypes /\ faults \in Nat /\ rec \in Reconciliation /\ rec.pc = "load"
      /\ LocalInv(rec) /\ FinalizerInv(rec)
      /\ "list" \in Fresh /\ faults = 0 => RemovalInv(rec)
  BY DEF AddonsInv, AddonsTypes, WorkerInv, loadRepositories, At
<1>1. PICK unfetched \in SUBSET rec.spec, broken \in SUBSET rec.spec :
        rec' = [rec EXCEPT !.pc = IF unfetched # {} THEN "report" ELSE "revise",
                           !.status = [phase |-> "Failed", observed |-> rec.gen,
                                       ready |-> rec.spec \ (unfetched \cup broken),
                                       failed |-> broken, unfetched |-> unfetched]]
  BY DEF loadRepositories
<1>2. UNCHANGED <<conf, cache, queue, store, broker, catalog, faults>>
  BY DEF loadRepositories, serviceCatalog
<1> DEFINE status == [phase |-> "Failed", observed |-> rec.gen,
                      ready |-> rec.spec \ (unfetched \cup broken),
                      failed |-> broken, unfetched |-> unfetched]
<1> DEFINE pc == IF unfetched # {} THEN "report" ELSE "revise"
<1> DEFINE r == [rec EXCEPT !.pc = pc, !.status = status]
<1>3. status \in Status /\ status.phase = "Failed" /\ status.observed = rec.gen
  BY <1>0, RecFacts DEF Status, Phases
<1>4. pc \in {"report", "revise"} /\ rec' = r
  BY <1>1
<1> HIDE DEF status, pc
<1>5. /\ r \in Reconciliation /\ r.pc = pc /\ r.cfg = rec.cfg /\ r.gen = rec.gen
      /\ r.deleting = rec.deleting /\ r.last = rec.last /\ r.status = status
      /\ r.others = rec.others /\ r.todo = rec.todo /\ r.ask = rec.ask
  BY <1>0, <1>3, <1>4 DEF Reconciliation, PCs
<1> HIDE DEF r
<1>6. LocalInv(r)
  BY <1>0, <1>3, <1>4, <1>5 DEF LocalInv, Processing
<1>7. FinalizerInv(r)
  BY <1>0, <1>4, <1>5 DEF FinalizerInv, Protected
<1>8. RegisterInv(r) /\ ReleaseInv(r)
  BY <1>4, <1>5 DEF RegisterInv, ReleaseInv, Releasing
<1>9. "list" \in Fresh /\ faults = 0 => RemovalInv(r)
  BY <1>0, <1>4, <1>5 DEF RemovalInv
<1>10. queue' \subseteq Configs /\ broker' \in {"absent", "asked", "listed"}
  BY <1>0, <1>2 DEF AddonsTypes
<1> QED
  BY <1>0, <1>2, <1>4, <1>5, <1>6, <1>7, <1>8, <1>9, <1>10, RecKeeps

(* reviseAddonDuplication: what is kept as Ready no other configuration    *)
(* has, given that the cache is up to date.                                *)
LEMMA ReviseKeeps ==
  ASSUME AddonsInv, reviseAddonDuplication
  PROVE  AddonsInv'
<1>0. /\ AddonsTypes /\ faults \in Nat /\ rec \in Reconciliation /\ rec.pc = "revise"
      /\ LocalInv(rec) /\ FinalizerInv(rec)
      /\ "list" \in Fresh /\ faults = 0 => RemovalInv(rec)
  BY DEF AddonsInv, AddonsTypes, WorkerInv, reviseAddonDuplication, At
<1> DEFINE others == listExistingConfigurations(rec.cfg)
<1> DEFINE Ready(kept) == {a \in kept : ~findExistingAddon(a, others)}
<1>1. PICK kept \in SUBSET rec.status.ready :
        LET ready == Ready(kept)
            failed == rec.spec \ ready
            phase == IF IsRepositoriesFailed(failed) THEN "Failed" ELSE "Ready" IN
        rec' = [rec EXCEPT !.pc = IF phase = "Ready" /\ ready # {} THEN "save" ELSE "status",
                           !.others = others,
                           !.todo = IF phase = "Ready" THEN ready ELSE {},
                           !.status.phase = phase,
                           !.status.ready = ready,
                           !.status.failed = failed]
  BY DEF reviseAddonDuplication
<1>2. /\ UNCHANGED <<conf, cache, queue, store, broker, catalog, faults>>
      /\ "list" \in Fresh => cache = conf
  BY DEF reviseAddonDuplication, serviceCatalog, counters
<1> DEFINE ready == Ready(kept)
<1> DEFINE failed == rec.spec \ ready
<1> DEFINE phase == IF IsRepositoriesFailed(failed) THEN "Failed" ELSE "Ready"
<1> DEFINE todo == IF phase = "Ready" THEN ready ELSE {}
<1> DEFINE pc == IF phase = "Ready" /\ ready # {} THEN "save" ELSE "status"
<1> DEFINE r == [rec EXCEPT !.pc = pc, !.others = others, !.todo = todo,
                           !.status.phase = phase, !.status.ready = ready, !.status.failed = failed]
<1>3. ready \subseteq Addons /\ failed \subseteq Addons
  BY <1>0, RecFacts
<1>4. /\ phase \in {"Ready", "Failed"} /\ (phase = "Ready" => failed = {})
      /\ todo \subseteq Addons /\ (phase = "Ready" => todo = ready)
      /\ pc \in {"save", "status"} /\ (pc = "save" => phase = "Ready") /\ (pc = "status" => todo = {})
  BY <1>3 DEF IsRepositoriesFailed
<1>5. \A a \in ready : \A d \in Configs : others[d] # Nil => a \notin others[d].ready
  BY DEF findExistingAddon
<1>6. \A d \in Configs : IF d # rec.cfg /\ cache[d] # Nil THEN others[d] = cache[d].status
                                                          ELSE others[d] = Nil
  BY DEF listExistingConfigurations
<1>7. others \in [Configs -> Status \cup {Nil}]
  BY <1>0, ConfFacts DEF listExistingConfigurations
<1>8. rec' = r
  BY <1>1
<1> HIDE DEF others, ready, failed, phase, todo, pc
<1>9. /\ r \in Reconciliation /\ r.pc = pc /\ r.cfg = rec.cfg /\ r.gen = rec.gen
      /\ r.deleting = rec.deleting /\ r.last = rec.last
      /\ r.others = others /\ r.todo = todo /\ r.ask = rec.ask
      /\ r.status.phase = phase /\ r.status.ready = ready /\ r.status.failed = failed
      /\ r.status.observed = rec.status.observed
  <2>1. rec.status \in Status
    BY <1>0, RecFacts
  <2> DEFINE status == [rec.status EXCEPT !.phase = phase, !.ready = ready, !.failed = failed]
  <2>2. /\ status \in Status /\ status.phase = phase /\ status.ready = ready
        /\ status.failed = failed /\ status.observed = rec.status.observed
    BY <1>3, <1>4, <2>1 DEF Status, Phases
  <2>3. r = [rec EXCEPT !.pc = pc, !.others = others, !.todo = todo, !.status = status]
    BY <1>0, <2>1 DEF Reconciliation, Status
  <2> HIDE DEF status, r
  <2> QED
    BY <1>0, <1>4, <1>7, <2>2, <2>3 DEF Reconciliation, PCs
<1> HIDE DEF r
<1>10. LocalInv(r)
  BY <1>0, <1>4, <1>6, <1>9 DEF LocalInv, Processing
<1>11. FinalizerInv(r)
  BY <1>0, <1>4, <1>9 DEF FinalizerInv, Protected
<1>12. \A d \in Configs \ {rec.cfg} : cache[d] # Nil => cache[d].status.ready \cap ready = {}
  <2> SUFFICES ASSUME NEW d \in Configs, d # rec.cfg, cache[d] # Nil
               PROVE  cache[d].status.ready \cap ready = {}
    OBVIOUS
  <2>1. others[d] = cache[d].status /\ others[d] # Nil
    BY <1>0, <1>6, ConfFacts, NilAssumption
  <2> QED
    BY <1>5, <2>1
<1>13. "list" \in Fresh => RegisterInv(r) /\ ReleaseInv(r)
  BY <1>2, <1>4, <1>9, <1>12 DEF RegisterInv, ReleaseInv, Releasing, IsReady
<1>14. "list" \in Fresh /\ faults = 0 => RemovalInv(r)
  <2> SUFFICES ASSUME RemovalInv(rec) PROVE RemovalInv(r)
    BY <1>0
  <2>1. r.pc \in {"save", "status"} /\ r.status.phase = "Ready" =>
          /\ r.status.failed = {} /\ r.status.ready \ r.todo = {}
          /\ \A d \in Configs \ {r.cfg} : WasReady(d) => cache[d].status.ready \cap r.status.ready = {}
    BY <1>4, <1>9, <1>12 DEF WasReady
  <2> QED
    BY <1>0, <1>4, <1>9, <2>1 DEF RemovalInv, LocalInv, Processing
<1>15. queue' \subseteq Configs /\ broker' \in {"absent", "asked", "listed"}
  BY <1>0, <1>2 DEF AddonsTypes
<1> QED
  BY <1>0, <1>2, <1>8, <1>9, <1>10, <1>11, <1>13, <1>14, <1>15, RecKeeps

-----------------------------------------------------------------------------
(* listOnDelete: every configuration that is Failed will be asked.         *)
LEMMA ListKeeps ==
  ASSUME AddonsInv, listOnDelete
  PROVE  AddonsInv'
<1>0. /\ AddonsTypes /\ faults \in Nat /\ rec \in Reconciliation /\ rec.pc = "list"
      /\ LocalInv(rec) /\ FinalizerInv(rec)
      /\ "list" \in Fresh /\ faults = 0 => RemovalInv(rec)
  BY DEF AddonsInv, AddonsTypes, WorkerInv, listOnDelete, At
<1> DEFINE todo == Listed(rec.status)
<1> DEFINE ask == UnreadyOnes(listExistingConfigurations(rec.cfg))
<1> DEFINE s == [rec EXCEPT !.todo = todo, !.ask = ask]
<1> DEFINE pc == IF s.ask # {} THEN "ask" ELSE afterRemoving(s)
<1> DEFINE r == [s EXCEPT !.pc = pc]
<1>1. /\ UNCHANGED <<conf, cache, queue, store, broker, catalog, faults>>
      /\ "list" \in Fresh => cache = conf
      /\ rec' = IF pc = "idle" THEN Idle ELSE r
  BY DEF listOnDelete, serviceCatalog, counters, Resume
<1>2. /\ todo \subseteq Addons /\ todo = Listed(rec.last)
      /\ ask \subseteq Configs /\ rec.cfg \notin ask
      /\ rec.deleting /\ rec.last.phase = "Ready"
      /\ \A d \in Configs \ {rec.cfg} : cache[d] # Nil /\ cache[d].status.phase # "Ready" => d \in ask
  <2>1. \A d \in Configs : cache[d] # Nil => cache[d].status # Nil
    BY <1>0, ConfFacts, NilAssumption
  <2> QED
    BY <1>0, <2>1, RecFacts DEF LocalInv, Listed, UnreadyOnes, listExistingConfigurations
<1> HIDE DEF todo, ask
<1>3. /\ s \in Reconciliation /\ s.todo = todo /\ s.ask = ask /\ s.deleting = rec.deleting
      /\ s.cfg = rec.cfg /\ s.gen = rec.gen /\ s.last = rec.last /\ s.others = rec.others
  BY <1>0, <1>2 DEF Reconciliation
<1> HIDE DEF s
<1>4. /\ pc \in {"ask", "remove", "broker", "unprotect"}
      /\ pc = "ask" <=> ask # {}
      /\ pc \in {"broker", "unprotect"} => todo = {}
  BY <1>2, <1>3 DEF afterRemoving
<1> HIDE DEF pc
<1>5. /\ r \in Reconciliation /\ r.pc = pc /\ r.todo = todo /\ r.ask = ask /\ r.deleting
      /\ r.cfg = rec.cfg /\ r.gen = rec.gen /\ r.last = rec.last /\ r.others = rec.others
  BY <1>2, <1>3, <1>4 DEF Reconciliation, PCs
<1>6. rec' = r
  BY <1>1, <1>4
<1> HIDE DEF r
<1>7. LocalInv(r)
  BY <1>0, <1>2, <1>4, <1>5 DEF LocalInv, Processing
<1>8. FinalizerInv(r)
  BY <1>0, <1>2, <1>4, <1>5 DEF FinalizerInv, Protected
<1>9. "list" \in Fresh => RegisterInv(r) /\ ReleaseInv(r)
  BY <1>1, <1>2, <1>4, <1>5 DEF RegisterInv, ReleaseInv
<1>10. "list" \in Fresh /\ faults = 0 => RemovalInv(r)
  BY <1>0, <1>2, <1>4, <1>5 DEF RemovalInv
<1>11. queue' \subseteq Configs /\ broker' \in {"absent", "asked", "listed"}
  BY <1>0, <1>1 DEF AddonsTypes
<1> QED
  BY <1>0, <1>1, <1>5, <1>6, <1>7, <1>8, <1>9, <1>10, <1>11, RecKeeps

(* ensureBroker: OnAdd goes on with the configurations to ask, OnDelete    *)
(* has asked.                                                              *)
LEMMA EnsureBrokerKeeps ==
  ASSUME AddonsInv, ensureBroker
  PROVE  AddonsInv'
<1>0. /\ AddonsTypes /\ faults \in Nat /\ rec \in Reconciliation /\ rec.pc = "broker"
      /\ LocalInv(rec) /\ FinalizerInv(rec)
      /\ "list" \in Fresh => ReleaseInv(rec)
      /\ "list" \in Fresh /\ faults = 0 => RemovalInv(rec)
  BY DEF AddonsInv, AddonsTypes, WorkerInv, ensureBroker, At
<1> DEFINE ask == {d \in Configs : /\ rec.others[d] # Nil
                                   /\ \E a \in rec.gone :
                                        isConfigurationInConflict(a, rec.others[d])}
<1> DEFINE s == [rec EXCEPT !.ask = ask]
<1> DEFINE pc == IF rec.deleting THEN "unprotect" ELSE IF s.ask # {} THEN "ask" ELSE "idle"
<1> DEFINE r == [s EXCEPT !.pc = pc]
<1>1. /\ UNCHANGED <<conf, cache, queue, store, catalog, faults>>
      /\ broker' \in {"absent", "asked", "listed"}
      /\ rec' = IF pc = "idle" THEN Idle ELSE r
  BY DEF ensureBroker, counters, Resume, Sync
<1>2. ask \subseteq Configs /\ rec.cfg \notin ask /\ (rec.deleting => ask = {} /\ rec.ask = {})
  BY <1>0 DEF LocalInv
<1> HIDE DEF ask
<1>3. s \in Reconciliation /\ s.ask = ask /\ s.todo = rec.todo /\ s.deleting = rec.deleting
      /\ s.cfg = rec.cfg /\ s.last = rec.last /\ s.others = rec.others
  BY <1>0, <1>2 DEF Reconciliation
<1> HIDE DEF s
<1>4. pc \in {"unprotect", "ask", "idle"} /\ (pc = "unprotect" <=> rec.deleting)
  BY <1>0, RecFacts
<1> HIDE DEF pc
<1>5. /\ r \in Reconciliation /\ r.pc = pc /\ r.todo = rec.todo /\ r.ask = ask
      /\ r.deleting = rec.deleting
      /\ r.cfg = rec.cfg /\ r.last = rec.last /\ r.others = rec.others
  BY <1>3, <1>4 DEF Reconciliation, PCs
<1> HIDE DEF r
<1>6. rec' \in Reconciliation /\ (rec' = Idle \/ (rec' = r /\ pc \in {"unprotect", "ask"}))
  BY <1>1, <1>4, <1>5, IdleFacts
<1>7. queue' \subseteq Configs
  BY <1>0, <1>1 DEF AddonsTypes
<1>8. CASE rec' = Idle
  <2>1. /\ LocalInv(Idle) /\ FinalizerInv(Idle)
        /\ "list" \in Fresh => RegisterInv(Idle) /\ ReleaseInv(Idle)
        /\ "list" \in Fresh /\ faults = 0 => RemovalInv(Idle)
    BY IdleWorks DEF WorkerInv
  <2> QED
    BY <1>0, <1>1, <1>7, <1>8, <2>1, IdleFacts, RecKeeps
<1>9. CASE rec' = r /\ pc \in {"unprotect", "ask"}
  <2>1. LocalInv(r)
    BY <1>0, <1>2, <1>4, <1>5, <1>9 DEF LocalInv, Processing
  <2>2. FinalizerInv(r)
    BY <1>0, <1>5, <1>9 DEF FinalizerInv, Protected
  <2>3. "list" \in Fresh => RegisterInv(r) /\ ReleaseInv(r)
    BY <1>0, <1>2, <1>5, <1>9 DEF RegisterInv, ReleaseInv, Releasing
  <2>4. "list" \in Fresh /\ faults = 0 => RemovalInv(r)
    BY <1>0, <1>5, <1>9 DEF RemovalInv
  <2> QED
    BY <1>0, <1>1, <1>5, <1>7, <1>9, <2>1, <2>2, <2>3, <2>4, RecKeeps
<1> QED
  BY <1>6, <1>8, <1>9

-----------------------------------------------------------------------------
(* saveAddon: what is taken off the list is stored.                        *)
LEMMA SaveKeeps ==
  ASSUME AddonsInv, NEW a \in Addons, saveAddon(a)
  PROVE  AddonsInv'
<1>0. /\ AddonsTypes /\ faults \in Nat /\ rec \in Reconciliation /\ rec.pc = "save" /\ a \in rec.todo
      /\ LocalInv(rec) /\ FinalizerInv(rec)
      /\ "list" \in Fresh => RegisterInv(rec)
      /\ "list" \in Fresh /\ faults = 0 => RemovalInv(rec) /\ SharedInv
  BY DEF AddonsInv, AddonsTypes, WorkerInv, saveAddon, At
<1> DEFINE pc == IF rec.todo = {a} THEN "status" ELSE "save"
<1> DEFINE s == [rec EXCEPT !.todo = @ \ {a}, !.saved = TRUE, !.pc = pc]
<1>1. /\ UNCHANGED <<conf, cache, queue, broker, catalog, faults>>
      /\ stored' = stored \cup {a} /\ charts' = charts \cup {ChartOf[a]}
      /\ rec' = s
  BY DEF saveAddon, serviceCatalog, counters
<1>2. pc \in {"save", "status"} /\ (pc = "status" => rec.todo \ {a} = {})
  OBVIOUS
<1> HIDE DEF pc
<1>a. s \in Reconciliation
  BY <1>0, <1>2 DEF Reconciliation, PCs
<1>b. PICK r \in Reconciliation : r = s /\ rec' = r
  BY <1>1, <1>a
<1>3. /\ r.pc = pc /\ r.todo = rec.todo \ {a} /\ r.ask = rec.ask
      /\ r.deleting = rec.deleting /\ r.gen = rec.gen /\ r.status = rec.status
      /\ r.cfg = rec.cfg /\ r.last = rec.last /\ r.others = rec.others
  BY <1>0, <1>b DEF Reconciliation
<1> HIDE DEF s
<1>4. LocalInv(r)
  BY <1>0, <1>2, <1>3 DEF LocalInv, Processing
<1>5. FinalizerInv(r)
  BY <1>0, <1>2, <1>3 DEF FinalizerInv, Protected
<1>6. "list" \in Fresh => RegisterInv(r) /\ ReleaseInv(r)
  BY <1>0, <1>2, <1>3 DEF RegisterInv, ReleaseInv, Releasing
<1>7. "list" \in Fresh /\ faults' = 0 => OffersStored' /\ RemovalInv(r)' /\ faults = 0
  <2> SUFFICES ASSUME RemovalInv(rec), SharedInv, faults = 0 PROVE OffersStored' /\ RemovalInv(r)'
    BY <1>0, <1>1
  <2>1. OffersStored'
    BY <1>1 DEF SharedInv, OffersStored, Stored, IsReady
  <2>2. \A d \in Configs : (IsReady(d)' <=> IsReady(d)) /\ (WasReady(d)' <=> WasReady(d))
    BY <1>1 DEF IsReady, WasReady
  <2>3. \A b \in rec.status.ready \ rec.todo : Stored(b)' 
    BY <1>0, <1>1 DEF RemovalInv, LocalInv, Stored
  <2>4. \A b \in r.status.ready \ r.todo : Stored(b)'
    BY <1>1, <1>3, <2>3 DEF Stored
  <2>5. RemovalInv(r)'
    BY <1>0, <1>1, <1>2, <1>3, <2>2, <2>4 DEF RemovalInv, LocalInv, Processing
  <2> QED
    BY <2>1, <2>5
<1>8. /\ queue' \subseteq Configs /\ broker' \in {"absent", "asked", "listed"}
      /\ stored' \subseteq Addons /\ charts' \subseteq Charts /\ catalog' \subseteq Addons
  BY <1>0, <1>1 DEF AddonsTypes, Charts
<1> QED
  BY <1>0, <1>1, <1>b, <1>4, <1>5, <1>6, <1>7, <1>8, MoveKeeps

(* RegisteringError: the addon is no longer among those to register.       *)
LEMMA RegisteringErrorKeeps ==
  ASSUME AddonsInv, NEW a \in Addons, RegisteringError(a)
  PROVE  AddonsInv'
<1>0. /\ AddonsTypes /\ faults \in Nat /\ rec \in Reconciliation /\ rec.pc = "save" /\ a \in rec.todo
      /\ LocalInv(rec) /\ FinalizerInv(rec)
      /\ "list" \in Fresh => RegisterInv(rec)
  BY DEF AddonsInv, AddonsTypes, WorkerInv, RegisteringError, At
<1>1. PICK upserted \in BOOLEAN :
        /\ stored' = IF upserted THEN stored \cup {a} ELSE stored
        /\ rec' = [rec EXCEPT !.todo = @ \ {a}, !.saved = @ \/ upserted,
                              !.status.ready = @ \ {a}, !.status.failed = @ \cup {a},
                              !.pc = IF rec.todo = {a} THEN "status" ELSE "save"]
  BY DEF RegisteringError
<1>2. UNCHANGED <<conf, cache, queue, charts, broker, catalog>> /\ faults' = faults + 1
  BY DEF RegisteringError, Fault, serviceCatalog
<1> DEFINE pc == IF rec.todo = {a} THEN "status" ELSE "save"
<1> DEFINE status == [rec.status EXCEPT !.ready = @ \ {a}, !.failed = @ \cup {a}]
<1> DEFINE saved == rec.saved \/ upserted
<1> DEFINE r == [rec EXCEPT !.todo = @ \ {a}, !.saved = saved, !.status = status, !.pc = pc]
<1>3. /\ pc \in {"save", "status"} /\ (pc = "status" => rec.todo \ {a} = {}) /\ saved \in BOOLEAN
  OBVIOUS
<1>4. rec.status \in Status
  BY <1>0, RecFacts
<1>5. /\ status \in Status /\ status.phase = rec.status.phase /\ status.ready = rec.status.ready \ {a}
      /\ status.observed = rec.status.observed
  BY <1>4 DEF Status
<1>6. rec' = r
  BY <1>0, <1>1, <1>4 DEF Reconciliation, Status
<1> HIDE DEF pc, status, saved
<1>7. /\ r \in Reconciliation /\ r.pc = pc /\ r.todo = rec.todo \ {a} /\ r.ask = rec.ask
      /\ r.deleting = rec.deleting /\ r.gen = rec.gen /\ r.status = status
      /\ r.cfg = rec.cfg /\ r.last = rec.last /\ r.others = rec.others
  BY <1>0, <1>3, <1>5 DEF Reconciliation, PCs
<1> HIDE DEF r
<1>8. LocalInv(r)
  BY <1>0, <1>3, <1>5, <1>7 DEF LocalInv, Processing
<1>9. FinalizerInv(r)
  BY <1>0, <1>3, <1>7 DEF FinalizerInv, Protected
<1>10. "list" \in Fresh => RegisterInv(r) /\ ReleaseInv(r)
  BY <1>0, <1>3, <1>5, <1>7 DEF RegisterInv, ReleaseInv, Releasing
<1>11. /\ queue' \subseteq Configs /\ broker' \in {"absent", "asked", "listed"}
       /\ stored' \subseteq Addons /\ charts' \subseteq Charts /\ catalog' \subseteq Addons
  BY <1>0, <1>1, <1>2 DEF AddonsTypes
<1>12. faults' \in Nat /\ faults' # 0
  BY <1>0, <1>2
<1> QED
  BY <1>2, <1>6, <1>7, <1>8, <1>9, <1>10, <1>11, <1>12, MoveKeeps

(* removeAddon: no other configuration, nor the one that is processed, has *)
(* what is removed as Ready.                                               *)
LEMMA RemoveKeeps ==
  ASSUME AddonsInv, NEW a \in Addons, removeAddon(a)
  PROVE  AddonsInv'
<1>0. /\ AddonsTypes /\ faults \in Nat /\ rec \in Reconciliation /\ rec.pc = "remove" /\ a \in rec.todo
      /\ LocalInv(rec) /\ FinalizerInv(rec)
      /\ "list" \in Fresh => ReleaseInv(rec)
      /\ "list" \in Fresh /\ faults = 0 => RemovalInv(rec) /\ SharedInv
  BY DEF AddonsInv, AddonsTypes, WorkerInv, removeAddon, At
<1> DEFINE counted == IF rec.deleting THEN {a} \cap stored ELSE {a}
<1> DEFINE s == [rec EXCEPT !.todo = @ \ {a}, !.gone = @ \cup counted]
<1> DEFINE pc == afterRemoving(s)
<1> DEFINE q == [s EXCEPT !.pc = pc]
<1>1. /\ UNCHANGED <<conf, cache, queue, broker, catalog, faults>>
      /\ stored' = stored \ {a}
      /\ charts' = IF a \in stored THEN charts \ {ChartOf[a]} ELSE charts
      /\ rec' = IF pc = "idle" THEN Idle ELSE q
  BY DEF removeAddon, serviceCatalog, counters, Resume
<1>2. counted \subseteq Addons
  OBVIOUS
<1> HIDE DEF counted
<1>3. /\ s \in Reconciliation /\ s.todo = rec.todo \ {a} /\ s.ask = rec.ask
      /\ s.deleting = rec.deleting /\ s.gen = rec.gen
      /\ s.cfg = rec.cfg /\ s.last = rec.last /\ s.others = rec.others
  BY <1>0, <1>2 DEF Reconciliation
<1> HIDE DEF s
<1>4. /\ pc \in {"remove", "broker", "unprotect", "idle"}
      /\ pc # "remove" => rec.todo \ {a} = {}
      /\ pc = "unprotect" => rec.deleting
  BY <1>3 DEF afterRemoving
<1> HIDE DEF pc
<1>5. /\ q \in Reconciliation /\ q.pc = pc /\ q.todo = rec.todo \ {a} /\ q.ask = rec.ask
      /\ q.deleting = rec.deleting /\ q.gen = rec.gen
      /\ q.cfg = rec.cfg /\ q.last = rec.last /\ q.others = rec.others
  BY <1>3, <1>4 DEF Reconciliation, PCs
<1> HIDE DEF q
<1>6. \A d \in Configs : (IsReady(d)' <=> IsReady(d)) /\ (WasReady(d)' <=> WasReady(d))
  BY <1>1 DEF IsReady, WasReady
<1>7. "list" \in Fresh /\ faults = 0 => OffersStored'
  <2> SUFFICES ASSUME RemovalInv(rec), SharedInv, faults = 0,
                      NEW d \in Configs, IsReady(d), ~conf[d].deleting,
                      NEW b \in conf[d].status.ready
               PROVE  b \in stored' /\ (OwnCharts => ChartOf[b] \in charts')
    BY <1>0, <1>1, <1>6 DEF OffersStored, Stored, OwnCharts
  <2>1. rec.cfg \in Configs /\ rec.last.phase = "Ready" /\ a \in rec.last.ready
    BY <1>0, CfgFacts DEF LocalInv, RemovalInv, Listed
  <2>2. a # b
    <3>1. CASE d # rec.cfg
      BY <2>1, <3>1 DEF RemovalInv
    <3>2. CASE d = rec.cfg
      BY <1>0, <3>2 DEF RemovalInv
    <3> QED
      BY <3>1, <3>2
  <2>3. b \in Addons /\ b \in stored /\ (OwnCharts => ChartOf[b] \in charts)
    BY <1>0, ConfFacts DEF SharedInv, OffersStored, Stored, IsReady
  <2>4. OwnCharts => ChartOf[a] # ChartOf[b]
    BY <2>2, <2>3 DEF OwnCharts
  <2> QED
    BY <1>1, <2>2, <2>3, <2>4
<1>8. /\ queue' \subseteq Configs /\ broker' \in {"absent", "asked", "listed"}
      /\ stored' \subseteq Addons /\ charts' \subseteq Charts /\ catalog' \subseteq Addons
  BY <1>0, <1>1 DEF AddonsTypes
<1>9. CASE pc = "idle"
  BY <1>0, <1>1, <1>7, <1>8, <1>9, IdleKeeps DEF serviceCatalog
<1>10. CASE pc # "idle"
  <2>1. PICK r \in Reconciliation : r = q /\ rec' = r
    BY <1>1, <1>5, <1>10
  <2>2. /\ r.pc = pc /\ r.todo = rec.todo \ {a} /\ r.ask = rec.ask
        /\ r.deleting = rec.deleting /\ r.gen = rec.gen
        /\ r.cfg = rec.cfg /\ r.last = rec.last /\ r.others = rec.others
    BY <1>5, <2>1
  <2>3. LocalInv(r)
    BY <1>0, <1>4, <1>10, <2>2 DEF LocalInv, Processing
  <2>4. FinalizerInv(r)
    BY <1>0, <1>4, <1>10, <2>2 DEF FinalizerInv, Protected
  <2>5. "list" \in Fresh => RegisterInv(r) /\ ReleaseInv(r)
    BY <1>0, <1>4, <1>10, <2>2 DEF RegisterInv, ReleaseInv, Releasing
  <2>6. "list" \in Fresh /\ faults = 0 => RemovalInv(r)'
    <3> SUFFICES ASSUME RemovalInv(rec) PROVE RemovalInv(r)'
      BY <1>0
    <3>1. r.pc \notin {"save", "status"} /\ rec.cfg \in Configs
      BY <1>0, <1>4, <2>2, CfgFacts
    <3> QED
      BY <1>0, <1>1, <1>6, <2>2, <3>1 DEF RemovalInv
  <2> QED
    BY <1>0, <1>1, <1>7, <1>8, <2>1, <2>3, <2>4, <2>5, <2>6, MoveKeeps
<1> QED
  BY <1>9, <1>10

-----------------------------------------------------------------------------
(* A configuration is written, replaced or goes, its status staying what   *)
(* it is: one with a finalizer goes only when it is being deleted, as the  *)
(* cache has it.                                                           *)
LEMMA ObjectKeeps ==
  ASSUME AddonsInv, NEW c \in Configs, NEW o \in Configuration \cup {Nil},
         conf' = [conf EXCEPT ![c] = o], UNCHANGED <<cache, store, faults>>,
         conf[c] # Nil /\ o # Nil => /\ o.status = conf[c].status
                                     /\ conf[c].finalizer => o.finalizer
                                     /\ o.finalizer => conf[c].finalizer \/ cache[c] = conf[c]
                                     /\ o.gen >= conf[c].gen
                                     /\ conf[c].deleting => o.deleting,
         conf[c] # Nil /\ o = Nil =>
           ~conf[c].finalizer \/ (conf[c].deleting /\ cache[c] = conf[c]),
         conf[c] = Nil /\ o # Nil => o.status = NewStatus /\ ~o.finalizer
  PROVE  /\ conf' \in [Configs -> Configuration \cup {Nil}]
         /\ conf'[c] = o /\ \A d \in Configs : d # c => conf'[d] = conf[d]
         /\ ObjectsInv'
         /\ \A d \in Configs : IsReady(d)' => /\ IsReady(d) /\ conf'[d].status = conf[d].status
                                              /\ conf[d].deleting => conf'[d].deleting
         /\ "list" \in Fresh => OneRegistrar'
         /\ "list" \in Fresh /\ faults' = 0 => SharedInv'
<1> USE DEF AddonsInv
<1>1. /\ conf' \in [Configs -> Configuration \cup {Nil}]
      /\ conf'[c] = o /\ \A d \in Configs : d # c => conf'[d] = conf[d]
  BY DEF AddonsTypes
<1>2. /\ \A d \in Configs : conf[d] # Nil => conf[d].gen \in Nat /\ conf[d].status.observed \in Nat
      /\ \A d \in Configs : cache[d] # Nil => cache[d].gen \in Nat
      /\ o # Nil => o.gen \in Nat /\ o.status.observed \in Nat
  BY ConfFacts DEF Configuration, Status
<1>3. ObjectsInv'
  <2>1. \A d \in Configs : conf'[d] # Nil =>
          /\ conf'[d].status.observed <= conf'[d].gen
          /\ Observed(conf'[d].status) => conf'[d].finalizer
    <3>1. CASE conf[c] = Nil /\ o # Nil
      <4>1. o.status.observed <= o.gen /\ ~Observed(o.status)
        BY <1>2, <3>1, NewStatusFacts
      <4> QED
        BY <1>1, <4>1 DEF ObjectsInv
    <3>2. CASE conf[c] # Nil /\ o # Nil
      <4>1. o.status.observed <= o.gen /\ (Observed(o.status) => o.finalizer)
        BY <1>2, <3>2 DEF ObjectsInv
      <4> QED
        BY <1>1, <4>1 DEF ObjectsInv
    <3> QED
      BY <1>1, <3>1, <3>2 DEF ObjectsInv
  <2>2. cache[c] # Nil =>
          /\ cache[c].finalizer /\ ~cache[c].deleting =>
               o # Nil /\ o.finalizer /\ cache[c].gen <= o.gen
          /\ cache[c].deleting /\ o # Nil => o.deleting \/ ~o.finalizer
    <3>1. cache[c] # Nil =>
            /\ cache[c].finalizer /\ ~cache[c].deleting =>
                 conf[c] # Nil /\ conf[c].finalizer /\ cache[c].gen <= conf[c].gen
            /\ cache[c].deleting /\ conf[c] # Nil => conf[c].deleting \/ ~conf[c].finalizer
      BY DEF ObjectsInv
    <3>2. cache[c] # Nil /\ cache[c].finalizer /\ ~cache[c].deleting =>
            o # Nil /\ o.finalizer /\ cache[c].gen <= o.gen
      BY <1>2, <3>1
    <3> QED
      BY <3>1, <3>2
  <2>3. \A d \in Configs : cache[d] # Nil =>
          /\ Observed(cache[d].status) => cache[d].finalizer
          /\ cache[d].finalizer /\ ~cache[d].deleting =>
               conf'[d] # Nil /\ conf'[d].finalizer /\ cache[d].gen <= conf'[d].gen
          /\ cache[d].deleting /\ conf'[d] # Nil => conf'[d].deleting \/ ~conf'[d].finalizer
    BY <1>1, <2>2 DEF ObjectsInv
  <2> QED
    BY <2>1, <2>3 DEF ObjectsInv
<1>4. \A d \in Configs : IsReady(d)' => /\ IsReady(d) /\ conf'[d].status = conf[d].status
                                        /\ conf[d].deleting => conf'[d].deleting
  BY <1>1, NewStatusFacts DEF IsReady
<1>5. "list" \in Fresh => OneRegistrar'
  BY <1>4 DEF OneRegistrar
<1>6. "list" \in Fresh /\ faults' = 0 => SharedInv'
  <2> SUFFICES ASSUME SharedInv, faults = 0 PROVE SharedInv'
    BY DEF OwnCharts
  <2>1. OffersStored'
    BY <1>4 DEF SharedInv, OffersStored, Stored, store
  <2> QED
    BY <1>4, <2>1 DEF SharedInv, WasReady
<1> QED
  BY <1>1, <1>3, <1>4, <1>5, <1>6

(* What the worker holds against a configuration that is Ready it holds    *)
(* against fewer that are.                                                 *)
LEMMA FewerReady ==
  ASSUME NEW r \in Reconciliation, r.pc # "idle" => r.cfg \in Configs,
         r.deleting => r.cfg \in Configs,
         UNCHANGED <<cache, store>>,
         \A d \in Configs : IsReady(d)' => /\ IsReady(d) /\ conf'[d].status = conf[d].status
                                           /\ conf[d].deleting => conf'[d].deleting
  PROVE  /\ RegisterInv(r) => RegisterInv(r)'
         /\ RemovalInv(r) => RemovalInv(r)'
<1>1. RegisterInv(r) => RegisterInv(r)'
  BY DEF RegisterInv
<1>2. RemovalInv(r) => RemovalInv(r)'
  BY DEF RemovalInv, WasReady, Stored, store
<1> QED
  BY <1>1, <1>2

(* A user changes a configuration: its status and finalizer stay; only one *)
(* without a finalizer goes at once; and a new one has neither.            *)
LEMMA ChangeKeeps ==
  ASSUME AddonsInv, NEW c \in Configs, NEW o \in Configuration \cup {Nil},
         conf' = [conf EXCEPT ![c] = o], UNCHANGED <<cache, rec, queue, store, serviceCatalog, faults>>,
         conf[c] # Nil /\ o # Nil => /\ o.status = conf[c].status
                                     /\ o.finalizer = conf[c].finalizer
                                     /\ o.gen >= conf[c].gen
                                     /\ conf[c].deleting => o.deleting,
         conf[c] # Nil /\ o = Nil => ~conf[c].finalizer,
         conf[c] = Nil /\ o # Nil => o.status = NewStatus /\ ~o.finalizer
  PROVE  AddonsInv'
<1>0. /\ AddonsTypes /\ rec \in Reconciliation /\ LocalInv(rec) /\ FinalizerInv(rec)
      /\ "list" \in Fresh => RegisterInv(rec) /\ ReleaseInv(rec)
      /\ "list" \in Fresh /\ faults = 0 => RemovalInv(rec)
  BY DEF AddonsInv, AddonsTypes, WorkerInv
<1>1. /\ conf' \in [Configs -> Configuration \cup {Nil}]
      /\ conf'[c] = o /\ \A d \in Configs : d # c => conf'[d] = conf[d]
      /\ ObjectsInv'
      /\ \A d \in Configs : IsReady(d)' => /\ IsReady(d) /\ conf'[d].status = conf[d].status
                                           /\ conf[d].deleting => conf'[d].deleting
      /\ "list" \in Fresh => OneRegistrar'
      /\ "list" \in Fresh /\ faults' = 0 => SharedInv'
  BY ObjectKeeps
<1>2. /\ \A d \in Configs : conf[d] # Nil => conf[d].gen \in Nat /\ conf[d].status.observed \in Nat
      /\ \A d \in Configs : conf'[d] # Nil => conf'[d].gen \in Nat
      /\ o # Nil => o.gen \in Nat /\ o.status.observed \in Nat
      /\ rec.gen \in Nat
  BY <1>0, <1>1, ConfFacts, RecFacts DEF Configuration, Status
<1>3. PICK r \in Reconciliation : r = rec
  BY <1>0
<1>4. AddonsTypes'
  BY <1>0, <1>1 DEF AddonsTypes, store, serviceCatalog
<1>5. LocalInv(r)'
  BY <1>0, <1>3 DEF LocalInv
<1>6. FinalizerInv(r)'
  <2>1. \A d \in Configs : conf[d] # Nil /\ conf[d].finalizer =>
          conf'[d] # Nil /\ conf'[d].finalizer /\ conf[d].gen <= conf'[d].gen
    BY <1>1, <1>2
  <2>2. \A d \in Configs : conf'[d] # Nil /\ conf'[d].finalizer =>
          conf[d] # Nil /\ conf[d].finalizer /\ (conf[d].deleting => conf'[d].deleting)
    BY <1>1
  <2> QED
    BY <1>0, <1>2, <1>3, <2>1, <2>2, CfgFacts DEF FinalizerInv
<1>7. "list" \in Fresh => ReleaseInv(r)'
  <2>1. \A d \in Configs : conf'[d] # Nil /\ conf'[d].status.phase = "Failed" =>
          /\ conf[d] # Nil /\ conf'[d].status = conf[d].status
          /\ conf[d].gen > conf[d].status.observed => conf'[d].gen > conf[d].status.observed
    <3>1. conf[c] # Nil /\ o # Nil /\ conf[c].gen > conf[c].status.observed
            => o.gen > conf[c].status.observed
      BY <1>2
    <3>2. conf[c] = Nil /\ o # Nil => o.status.phase # "Failed"
      BY NewStatusFacts
    <3> QED
      BY <1>1, <3>1, <3>2
  <2> QED
    BY <1>0, <1>3, <2>1 DEF ReleaseInv
<1>8. /\ "list" \in Fresh => RegisterInv(r)'
      /\ "list" \in Fresh /\ faults' = 0 => RemovalInv(r)'
  BY <1>0, <1>1, <1>3, CfgFacts, FewerReady
<1>9. WorkerInv(rec)'
  BY <1>3, <1>5, <1>6, <1>7, <1>8 DEF WorkerInv, OwnCharts
<1> QED
  BY <1>1, <1>4, <1>9 DEF AddonsInv, OwnCharts

(* What users do.                                                          *)
LEMMA UserStepKeeps ==
  ASSUME AddonsInv, UserStep
  PROVE  AddonsInv'
<1>0. AddonsTypes
  BY DEF AddonsInv
<1>1. ASSUME NEW c \in Configs, NEW spec \in Specs, Create(c, spec) PROVE AddonsInv'
  <2> DEFINE o == [gen |-> 1, spec |-> spec, deleting |-> FALSE,
                   finalizer |-> FALSE, status |-> NewStatus]
  <2>1. o \in Configuration /\ o.status = NewStatus /\ ~o.finalizer
    BY NewStatusFacts, ConstantsAssumption DEF Configuration
  <2>2. /\ conf[c] = Nil /\ conf' = [conf EXCEPT ![c] = o]
        /\ UNCHANGED <<cache, rec, queue, store, serviceCatalog, faults>>
    BY <1>1 DEF Create
  <2> HIDE DEF o
  <2> QED
    BY <2>1, <2>2, ChangeKeeps
<1>2. ASSUME NEW c \in Configs, NEW spec \in Specs, Edit(c, spec) PROVE AddonsInv'
  <2> DEFINE o == [conf[c] EXCEPT !.spec = spec, !.gen = @ + 1]
  <2>1. conf[c] \in Configuration
    BY <1>0, <1>2, ConfFacts DEF Edit
  <2>a. spec \subseteq Addons /\ conf[c].gen \in Nat /\ conf[c].gen + 1 \in Nat
    BY <2>1, ConstantsAssumption DEF Configuration
  <2>2. /\ o \in Configuration /\ o.status = conf[c].status /\ o.finalizer = conf[c].finalizer
        /\ o.deleting = conf[c].deleting /\ o.gen = conf[c].gen + 1
    BY <2>1, <2>a DEF Configuration
  <2>3. /\ conf[c] # Nil /\ conf' = [conf EXCEPT ![c] = o]
        /\ UNCHANGED <<cache, rec, queue, store, serviceCatalog, faults>>
    BY <1>0, <1>2, <2>1 DEF Edit, AddonsTypes
  <2> HIDE DEF o
  <2>4. o.gen >= conf[c].gen
    BY <2>a, <2>2
  <2>5. o # Nil
    BY <2>2, NilAssumption
  <2> QED
    BY <2>2, <2>3, <2>4, <2>5, ChangeKeeps
<1>3. ASSUME NEW c \in Configs, Delete(c) PROVE AddonsInv'
  <2>1. /\ conf[c] # Nil /\ conf[c] \in Configuration /\ conf[c].gen \in Nat
        /\ UNCHANGED <<cache, rec, queue, store, serviceCatalog, faults>>
    BY <1>0, <1>3, ConfFacts DEF Delete
  <2>2. CASE conf[c].finalizer
    <3> DEFINE o == [conf[c] EXCEPT !.deleting = TRUE]
    <3>1. /\ o \in Configuration /\ o.status = conf[c].status /\ o.finalizer = conf[c].finalizer
          /\ o.deleting /\ o.gen = conf[c].gen
      BY <2>1 DEF Configuration
    <3>2. conf' = [conf EXCEPT ![c] = o]
      BY <1>0, <1>3, <2>2 DEF Delete, AddonsTypes
    <3> HIDE DEF o
    <3>3. o.gen >= conf[c].gen /\ o # Nil
      BY <2>1, <3>1, NilAssumption
    <3> QED
      BY <2>1, <3>1, <3>2, <3>3, ChangeKeeps
  <2>3. CASE ~conf[c].finalizer
    <3>1. conf' = [conf EXCEPT ![c] = Nil]
      BY <1>0, <1>3, <2>3 DEF Delete, AddonsTypes
    <3> QED
      BY <2>1, <2>3, <3>1, ChangeKeeps
  <2> QED
    BY <2>2, <2>3
<1> QED
  BY <1>1, <1>2, <1>3 DEF UserStep

-----------------------------------------------------------------------------
(* The informer brings the cache up to date.                               *)
LEMMA DeliverKeeps ==
  ASSUME AddonsInv, NEW c \in Configs, Deliver(c)
  PROVE  AddonsInv'
<1> USE DEF AddonsInv
<1>1. /\ UNCHANGED <<conf, rec, stored, charts, broker, catalog, faults>>
      /\ queue' \subseteq Configs
      /\ cache' \in [Configs -> Configuration \cup {Nil}]
      /\ cache'[c] = conf[c] /\ \A d \in Configs : d # c => cache'[d] = cache[d]
  BY DEF Deliver, AddonsTypes, store, serviceCatalog, counters
<1>2. AddonsTypes'
  BY <1>1 DEF AddonsTypes
<1>3. ObjectsInv'
  BY <1>1, ConfFacts DEF ObjectsInv
<1>4. \A d \in Configs : IsReady(d)' <=> IsReady(d)
  BY <1>1 DEF IsReady
<1>5. \A d \in Configs : d # c => (WasReady(d)' <=> WasReady(d))
  BY <1>1 DEF WasReady
<1>6. WasReady(c)' <=> IsReady(c)
  BY <1>1 DEF WasReady, IsReady
<1>7. "list" \in Fresh => OneRegistrar'
  BY <1>1, <1>4 DEF OneRegistrar
<1>8. "list" \in Fresh /\ faults' = 0 => SharedInv'
  <2> SUFFICES ASSUME OneRegistrar, SharedInv PROVE SharedInv'
    BY <1>1
  <2>1. OffersStored'
    BY <1>1, <1>4 DEF SharedInv, OffersStored, Stored
  <2>2. /\ \A d \in Configs : WasReady(d)' => cache'[d].status.failed = {}
        /\ \A d, e \in Configs : d # e /\ WasReady(d)' /\ IsReady(e)'
             => cache'[d].status.ready \cap conf'[e].status.ready = {}
    BY <1>1, <1>4, <1>5, <1>6 DEF SharedInv, OneRegistrar
  <2>3. \A d \in Configs : cache'[d] # Nil /\ cache'[d].deleting /\ IsReady(d)' => conf'[d].deleting
    BY <1>1, <1>4 DEF SharedInv
  <2> QED
    BY <1>1, <1>4, <2>1, <2>2, <2>3 DEF SharedInv
<1>9. WorkerInv(rec)'
  <2>1. LocalInv(rec)' /\ FinalizerInv(rec)'
    BY <1>1 DEF WorkerInv, LocalInv, FinalizerInv
  <2>2. "list" \in Fresh => RegisterInv(rec)' /\ ReleaseInv(rec)'
    BY <1>1, <1>4 DEF WorkerInv, RegisterInv, ReleaseInv
  <2>3. "list" \in Fresh /\ faults' = 0 => RemovalInv(rec)'
    <3> SUFFICES ASSUME RegisterInv(rec), RemovalInv(rec) PROVE RemovalInv(rec)'
      BY <1>1 DEF WorkerInv
    <3>1. rec.pc \in {"save", "status"} /\ rec.status.phase = "Ready" =>
            \A d \in Configs \ {rec.cfg} : WasReady(d)' =>
              cache'[d].status.ready \cap rec.status.ready = {}
      BY <1>1, <1>5, <1>6 DEF RemovalInv, RegisterInv
    <3> QED
      BY <1>1, <3>1 DEF RemovalInv, Stored, IsReady
  <2> QED
    BY <2>1, <2>2, <2>3 DEF WorkerInv, OwnCharts
<1> QED
  BY <1>2, <1>3, <1>7, <1>8, <1>9 DEF OwnCharts

(* The controller restarts.                                                *)
LEMMA CrashKeeps ==
  ASSUME AddonsInv, Crash
  PROVE  AddonsInv'
<1> USE DEF AddonsInv
<1>1. /\ UNCHANGED <<conf, stored, charts, broker, catalog, faults>>
      /\ queue' \subseteq Configs /\ rec' = Idle /\ cache' = conf
  BY DEF Crash, store, serviceCatalog
<1>2. AddonsTypes'
  BY <1>1, IdleFacts DEF AddonsTypes
<1>3. ObjectsInv'
  <2>1. \A d \in Configs : conf[d] # Nil => conf[d].gen <= conf[d].gen
    BY ConfFacts
  <2> QED
    BY <1>1, <2>1 DEF ObjectsInv
<1>4. \A d \in Configs : (IsReady(d)' <=> IsReady(d)) /\ (WasReady(d)' <=> IsReady(d))
  BY <1>1 DEF IsReady, WasReady
<1>5. "list" \in Fresh => OneRegistrar'
  BY <1>1, <1>4 DEF OneRegistrar
<1>6. "list" \in Fresh /\ faults' = 0 => SharedInv'
  <2> SUFFICES ASSUME OneRegistrar, SharedInv PROVE SharedInv'
    BY <1>1
  <2>1. OffersStored'
    BY <1>1, <1>4 DEF SharedInv, OffersStored, Stored
  <2> QED
    BY <1>1, <1>4, <2>1 DEF SharedInv, OneRegistrar
<1>7. WorkerInv(rec)'
  <2>1. LocalInv(Idle)'
    BY IdleWorks DEF WorkerInv, LocalInv
  <2>2. FinalizerInv(Idle)' /\ RegisterInv(Idle)' /\ ReleaseInv(Idle)' /\ RemovalInv(Idle)'
    BY IdleFacts DEF FinalizerInv, RegisterInv, ReleaseInv, RemovalInv, Protected, Releasing
  <2> QED
    BY <1>1, <2>1, <2>2 DEF WorkerInv
<1> QED
  BY <1>2, <1>3, <1>5, <1>6, <1>7 DEF OwnCharts

(* The ServiceBroker and Service Catalog.                                  *)
LEMMA BrokerKeeps ==
  ASSUME AddonsInv, CreateBroker \/ DeleteBroker \/ Relist
  PROVE  AddonsInv'
<1>1. UNCHANGED <<conf, cache, queue, rec, stored, charts, faults>>
  BY DEF CreateBroker, DeleteBroker, Relist, store, counters
<1>2. AddonsTypes'
  BY <1>1 DEF AddonsInv, AddonsTypes, CreateBroker, DeleteBroker, Relist
<1>3. ObjectsInv' <=> ObjectsInv
  BY <1>1 DEF ObjectsInv
<1>4. (OneRegistrar' <=> OneRegistrar) /\ (SharedInv' <=> SharedInv)
  BY <1>1 DEF OneRegistrar, SharedInv, OffersStored, Stored, IsReady, WasReady
<1>5. /\ LocalInv(rec)' <=> LocalInv(rec)
      /\ FinalizerInv(rec)' <=> FinalizerInv(rec)
      /\ RegisterInv(rec)' <=> RegisterInv(rec)
      /\ ReleaseInv(rec)' <=> ReleaseInv(rec)
      /\ RemovalInv(rec)' <=> RemovalInv(rec)
  BY <1>1 DEF LocalInv, FinalizerInv, RegisterInv, ReleaseInv, RemovalInv, IsReady, WasReady, Stored
<1> QED
  BY <1>1, <1>2, <1>3, <1>4, <1>5 DEF AddonsInv, WorkerInv, OwnCharts

-----------------------------------------------------------------------------
(* The worker writes a status, from a cache that is up to date.            *)
LEMMA StatusKeeps ==
  ASSUME AddonsInv, rec.pc \in Protected, NEW status \in Status,
         WriteStatus(status) \/ Write(rec.cfg, [conf[rec.cfg] EXCEPT !.status = status]),
         UNCHANGED <<store, faults>>,
         status.observed = rec.gen,
         status.phase = "Ready" =>
           rec.pc = "status" /\ rec.status.phase = "Ready"
           /\ status.ready = rec.status.ready /\ status.failed = rec.status.failed
  PROVE  /\ conf' \in [Configs -> Configuration \cup {Nil}] /\ UNCHANGED cache
         /\ conf'[rec.cfg].status = status
         /\ \A d \in Configs : d # rec.cfg => conf'[d] = conf[d]
         /\ ObjectsInv'
         /\ "list" \in Fresh => OneRegistrar'
         /\ "list" \in Fresh /\ faults' = 0 => SharedInv'
<1>0. /\ AddonsTypes /\ rec \in Reconciliation /\ LocalInv(rec) /\ FinalizerInv(rec)
      /\ ObjectsInv
      /\ "list" \in Fresh => RegisterInv(rec) /\ OneRegistrar
      /\ "list" \in Fresh /\ faults = 0 => RemovalInv(rec) /\ SharedInv
  BY DEF AddonsInv, AddonsTypes, WorkerInv
<1> DEFINE c == rec.cfg
<1>1. c \in Configs
  BY <1>0, CfgFacts
<1> DEFINE o == [conf[c] EXCEPT !.status = status]
<1>2. /\ conf[c] # Nil /\ cache[c] = conf[c] /\ UNCHANGED cache
      /\ conf' = [conf EXCEPT ![c] = o]
  BY DEF WriteStatus, Write
<1>3. conf[c] \in Configuration
  BY <1>0, <1>1, <1>2, ConfFacts
<1>4. /\ o \in Configuration /\ o.status = status /\ o.gen = conf[c].gen
      /\ o.finalizer = conf[c].finalizer /\ o.deleting = conf[c].deleting
  BY <1>3 DEF Configuration
<1> HIDE DEF o
<1>5. /\ conf' \in [Configs -> Configuration \cup {Nil}]
      /\ conf'[c] = o /\ \A d \in Configs : d # c => conf'[d] = conf[d]
  BY <1>0, <1>1, <1>2, <1>4 DEF AddonsTypes
<1>6. PICK k \in Configs : k = c
  BY <1>1
<1>7. ObjectsInv'
  <2>1. o.status.observed <= o.gen /\ o.finalizer
    BY <1>0, <1>4 DEF FinalizerInv
  <2>2. \A d \in Configs : conf'[d] # Nil => /\ conf'[d].status.observed <= conf'[d].gen
                                             /\ Observed(conf'[d].status) => conf'[d].finalizer
    BY <1>0, <1>5, <2>1 DEF ObjectsInv
  <2>3. \A d \in Configs : cache[d] # Nil =>
          /\ Observed(cache[d].status) => cache[d].finalizer
          /\ cache[d].finalizer /\ ~cache[d].deleting =>
               conf'[d] # Nil /\ conf'[d].finalizer /\ cache[d].gen <= conf'[d].gen
          /\ cache[d].deleting /\ conf'[d] # Nil => conf'[d].deleting \/ ~conf'[d].finalizer
    <3>1. /\ o # Nil
          /\ Observed(cache[c].status) => cache[c].finalizer
          /\ cache[c].finalizer /\ ~cache[c].deleting => cache[c].gen <= o.gen
      BY <1>0, <1>1, <1>2, <1>4, NilAssumption DEF ObjectsInv
    <3>2. ASSUME NEW d \in Configs, d # c, cache[d] # Nil
          PROVE  /\ Observed(cache[d].status) => cache[d].finalizer
                 /\ cache[d].finalizer /\ ~cache[d].deleting =>
                      conf'[d] # Nil /\ conf'[d].finalizer /\ cache[d].gen <= conf'[d].gen
                 /\ cache[d].deleting /\ conf'[d] # Nil => conf'[d].deleting \/ ~conf'[d].finalizer
      BY <1>0, <1>5, <3>2 DEF ObjectsInv
    <3>3. /\ Observed(cache[c].status) => cache[c].finalizer
          /\ cache[c].finalizer /\ ~cache[c].deleting =>
               conf'[c] # Nil /\ conf'[c].finalizer /\ cache[c].gen <= conf'[c].gen
          /\ cache[c].deleting /\ conf'[c] # Nil => conf'[c].deleting \/ ~conf'[c].finalizer
      BY <1>2, <1>4, <1>5, <2>1, <3>1
    <3> QED
      BY <3>2, <3>3
  <2> QED
    BY <1>2, <2>2, <2>3 DEF ObjectsInv
<1>8. /\ \A d \in Configs : d # k => (IsReady(d)' <=> IsReady(d))
      /\ IsReady(k)' <=> status.phase = "Ready"
      /\ conf'[k].status = status
  BY <1>4, <1>5, <1>6, NilAssumption DEF IsReady
<1>9. "list" \in Fresh => OneRegistrar'
  <2> SUFFICES ASSUME OneRegistrar, RegisterInv(rec) PROVE OneRegistrar'
    BY <1>0
  <2>1. IsReady(k)' => \A d \in Configs : d # k /\ IsReady(d) =>
                         conf[d].status.ready \cap status.ready = {}
    BY <1>6, <1>8 DEF RegisterInv
  <2>2. \A d \in Configs : d # k => conf'[d] = conf[d]
    BY <1>5, <1>6
  <2> QED
    BY <1>8, <2>1, <2>2 DEF OneRegistrar
<1>10. "list" \in Fresh /\ faults' = 0 => SharedInv'
  <2> SUFFICES ASSUME RemovalInv(rec), SharedInv, faults = 0 PROVE SharedInv'
    BY <1>0
  <2>1. \A d \in Configs : d # k => conf'[d] = conf[d]
    BY <1>5, <1>6
  <2>2. status.phase = "Ready" =>
          /\ status.failed = {}
          /\ \A d \in Configs : d # k /\ WasReady(d) => cache[d].status.ready \cap status.ready = {}
          /\ \A a \in status.ready : Stored(a)
    BY <1>0, <1>6 DEF RemovalInv, LocalInv, Processing
  <2>3. OffersStored'
    BY <1>8, <2>1, <2>2 DEF SharedInv, OffersStored, Stored, store
  <2>4. \A d \in Configs : WasReady(d)' <=> WasReady(d)
    BY <1>2 DEF WasReady
  <2>5. /\ \A d \in Configs : IsReady(d)' => conf'[d].status.failed = {}
        /\ \A d \in Configs : WasReady(d)' => cache'[d].status.failed = {}
    BY <1>2, <1>8, <2>1, <2>2, <2>4 DEF SharedInv
  <2>6. \A d, e \in Configs : d # e /\ WasReady(d)' /\ IsReady(e)'
          => cache'[d].status.ready \cap conf'[e].status.ready = {}
    <3> SUFFICES ASSUME NEW d \in Configs, NEW e \in Configs, d # e, WasReady(d), IsReady(e)'
                 PROVE  cache[d].status.ready \cap conf'[e].status.ready = {}
      BY <1>2, <2>4
    <3>1. CASE e = k
      BY <1>8, <2>2, <3>1
    <3>2. CASE e # k
      BY <1>8, <2>1, <3>2 DEF SharedInv
    <3> QED
      BY <3>1, <3>2
  <2>7. \A d \in Configs : cache'[d] # Nil /\ cache'[d].deleting /\ IsReady(d)' => conf'[d].deleting
    BY <1>2, <1>4, <1>5, <1>6, <1>8, <2>1 DEF SharedInv
  <2> QED
    BY <2>3, <2>5, <2>6, <2>7 DEF SharedInv
<1> QED
  BY <1>2, <1>4, <1>5, <1>7, <1>9, <1>10

(* PrepareForProcessing writes the status Pending.                         *)
LEMMA PendingKeeps ==
  ASSUME AddonsInv, setPending
  PROVE  AddonsInv'
<1>0. /\ AddonsTypes /\ rec \in Reconciliation /\ LocalInv(rec) /\ FinalizerInv(rec)
      /\ rec.pc = "pending" /\ rec.gen \in Nat /\ rec.status \in Status
  BY RecFacts DEF AddonsInv, AddonsTypes, WorkerInv, setPending, At
<1> DEFINE status == [rec.status EXCEPT !.phase = "Pending", !.observed = rec.gen]
<1> DEFINE s == [rec EXCEPT !.pc = "load", !.last = status, !.status = status]
<1>1. WriteStatus(status) /\ rec' = s /\ UNCHANGED <<store, serviceCatalog, faults>>
  BY DEF setPending, counters
<1>2. status \in Status /\ status.phase = "Pending" /\ status.observed = rec.gen
  BY <1>0 DEF Status, Phases
<1> HIDE DEF status
<1>3. /\ conf' \in [Configs -> Configuration \cup {Nil}] /\ UNCHANGED cache
      /\ ObjectsInv'
      /\ "list" \in Fresh => OneRegistrar'
      /\ "list" \in Fresh /\ faults' = 0 => SharedInv'
  BY <1>0, <1>1, <1>2, StatusKeeps DEF Protected
<1>4. s \in Reconciliation
  BY <1>0, <1>2 DEF Reconciliation, PCs
<1>5. PICK r \in Reconciliation : r = s
  BY <1>4
<1>6. /\ r.pc = "load" /\ r.cfg = rec.cfg /\ r.gen = rec.gen
      /\ r.deleting = rec.deleting /\ r.last.phase = "Pending"
      /\ r.others = rec.others /\ r.todo = rec.todo /\ r.ask = rec.ask
  BY <1>0, <1>2, <1>5 DEF Reconciliation
<1> HIDE DEF s
<1>7. AddonsTypes'
  <2>1. queue' \subseteq Configs
    BY <1>0, <1>1, CfgFacts DEF AddonsTypes, WriteStatus
  <2> QED
    BY <1>0, <1>1, <1>3, <1>4, <2>1 DEF AddonsTypes, store, serviceCatalog
<1>8. LocalInv(r)'
  BY <1>0, <1>6 DEF LocalInv, Processing
<1>9. rec.cfg \in Configs
  BY <1>0, CfgFacts DEF Protected
<1>10. FinalizerInv(r)'
  <2>1. /\ conf'[r.cfg].finalizer = conf[r.cfg].finalizer /\ conf'[r.cfg].gen = conf[r.cfg].gen
        /\ conf'[r.cfg] # Nil
    <3>1. conf[rec.cfg] \in Configuration
      BY <1>0, <1>9, ConfFacts DEF FinalizerInv, Protected
    <3> DEFINE o == [conf[rec.cfg] EXCEPT !.status = status]
    <3>2. conf'[rec.cfg] = o
      BY <1>0, <1>1, <1>9 DEF WriteStatus, Write, AddonsTypes
    <3>3. o.finalizer = conf[rec.cfg].finalizer /\ o.gen = conf[rec.cfg].gen /\ o \in Configuration
      BY <1>2, <3>1 DEF Configuration
    <3> HIDE DEF o
    <3> QED
      BY <1>6, <3>2, <3>3, NilAssumption
  <2> QED
    BY <1>0, <1>6, <2>1 DEF FinalizerInv, LocalInv, Protected, Processing
<1>11. RegisterInv(r)' /\ ReleaseInv(r)' /\ RemovalInv(r)'
  BY <1>0, <1>6 DEF RegisterInv, ReleaseInv, RemovalInv, Releasing, LocalInv, Processing
<1>12. WorkerInv(rec)'
  BY <1>1, <1>5, <1>8, <1>10, <1>11 DEF WorkerInv
<1> QED
  BY <1>3, <1>7, <1>12 DEF AddonsInv, OwnCharts

(* What a status and a finalizer are written to is as it was otherwise.    *)
LEMMA UpdatedFacts ==
  ASSUME AddonsTypes, NEW o \in Configuration, NEW finalizer \in BOOLEAN
  PROVE  /\ Updated(o, finalizer) \in Configuration
         /\ Updated(o, finalizer).status = o.status
         /\ Updated(o, finalizer).deleting = o.deleting
         /\ Updated(o, finalizer).finalizer = finalizer
         /\ Updated(o, finalizer).gen \in Nat
         /\ Updated(o, finalizer).gen >= o.gen
<1> DEFINE same == o.gen = rec.gen /\ o.spec = rec.spec
<1> DEFINE gen == IF same THEN o.gen ELSE o.gen + 1
<1>1. o.gen \in Nat /\ rec.spec \subseteq Addons
  BY RecFacts DEF Configuration, AddonsTypes
<1>2. gen \in Nat /\ gen >= o.gen
  BY <1>1
<1>3. Updated(o, finalizer) = [o EXCEPT !.finalizer = finalizer, !.spec = rec.spec, !.gen = gen]
  BY DEF Updated, Configuration
<1> HIDE DEF gen
<1> QED
  BY <1>1, <1>2, <1>3 DEF Configuration

(* PrepareForProcessing writes the finalizer.                              *)
LEMMA ProtectKeeps ==
  ASSUME AddonsInv, addFinalizer
  PROVE  AddonsInv'
<1>0. /\ AddonsTypes /\ rec \in Reconciliation /\ LocalInv(rec) /\ rec.pc = "protect"
      /\ "list" \in Fresh /\ faults = 0 => RemovalInv(rec)
  BY DEF AddonsInv, AddonsTypes, WorkerInv, addFinalizer, At
<1>1. PICK c \in Configs : c = rec.cfg
  BY <1>0, CfgFacts
<1>2. /\ conf[c] # Nil /\ cache[c] = conf[c] /\ UNCHANGED cache
      /\ conf' = [conf EXCEPT ![c] = Updated(conf[rec.cfg], TRUE)]
      /\ rec' = [rec EXCEPT !.pc = "pending", !.gen = Updated(conf[rec.cfg], TRUE).gen]
      /\ UNCHANGED <<queue, store, serviceCatalog, faults>>
  BY <1>1 DEF addFinalizer, Write, counters
<1>3. conf[c] \in Configuration
  BY <1>0, <1>2, ConfFacts
<1>4. PICK o \in Configuration : o = Updated(conf[rec.cfg], TRUE)
  BY <1>0, <1>1, <1>3, UpdatedFacts
<1>5. /\ o.status = conf[c].status /\ o.deleting = conf[c].deleting /\ o.finalizer
      /\ o.gen \in Nat /\ o.gen >= conf[c].gen /\ o # Nil
  BY <1>0, <1>1, <1>3, <1>4, UpdatedFacts, NilAssumption
<1>6. conf' = [conf EXCEPT ![c] = o]
  BY <1>2, <1>4
<1>7. /\ conf' \in [Configs -> Configuration \cup {Nil}]
      /\ conf'[c] = o
      /\ ObjectsInv'
      /\ \A d \in Configs : IsReady(d)' => /\ IsReady(d) /\ conf'[d].status = conf[d].status
                                           /\ conf[d].deleting => conf'[d].deleting
      /\ "list" \in Fresh => OneRegistrar'
      /\ "list" \in Fresh /\ faults' = 0 => SharedInv'
  BY <1>2, <1>5, <1>6, ObjectKeeps
<1> DEFINE s == [rec EXCEPT !.pc = "pending", !.gen = o.gen]
<1>8. s \in Reconciliation /\ rec' = s
  BY <1>0, <1>2, <1>4, <1>5 DEF Reconciliation, PCs
<1>9. PICK r \in Reconciliation : r = s
  BY <1>8
<1>10. /\ r.pc = "pending" /\ r.cfg = c /\ r.gen = o.gen
       /\ r.deleting = rec.deleting /\ r.last = rec.last
       /\ r.others = rec.others /\ r.todo = rec.todo /\ r.ask = rec.ask
  BY <1>0, <1>1, <1>9 DEF Reconciliation
<1> HIDE DEF s
<1>11. AddonsTypes'
  BY <1>0, <1>2, <1>7, <1>8 DEF AddonsTypes, store, serviceCatalog
<1>12. LocalInv(r)'
  BY <1>0, <1>1, <1>10 DEF LocalInv, Processing
<1>13. FinalizerInv(r)'
  BY <1>0, <1>5, <1>7, <1>10 DEF FinalizerInv, LocalInv, Processing
<1>14. RegisterInv(r)' /\ ReleaseInv(r)'
  BY <1>10 DEF RegisterInv, ReleaseInv, Releasing
<1>15. "list" \in Fresh /\ faults' = 0 => RemovalInv(r)'
  <2> SUFFICES ASSUME RemovalInv(rec) PROVE RemovalInv(r)'
    BY <1>0, <1>2
  <2>1. ~r.deleting
    BY <1>0, <1>10 DEF LocalInv, Processing
  <2> QED
    BY <1>1, <1>7, <1>10, <2>1 DEF RemovalInv
<1>16. WorkerInv(rec)'
  BY <1>8, <1>9, <1>12, <1>13, <1>14, <1>15 DEF WorkerInv, OwnCharts
<1> QED
  BY <1>7, <1>11, <1>16 DEF AddonsInv, OwnCharts

(* A step that ends a reconciliation and changes configurations.           *)
LEMMA EndKeeps ==
  ASSUME AddonsInv, rec' = Idle, conf' \in [Configs -> Configuration \cup {Nil}],
         UNCHANGED <<cache, store, serviceCatalog, faults>>, queue' \subseteq Configs,
         ObjectsInv', "list" \in Fresh => OneRegistrar',
         "list" \in Fresh /\ faults' = 0 => SharedInv'
  PROVE  AddonsInv'
<1>1. AddonsTypes'
  BY IdleFacts DEF AddonsInv, AddonsTypes, store, serviceCatalog
<1>2. WorkerInv(rec)'
  <2>1. LocalInv(Idle)'
    BY IdleWorks DEF WorkerInv, LocalInv
  <2>2. FinalizerInv(Idle)' /\ RegisterInv(Idle)' /\ ReleaseInv(Idle)' /\ RemovalInv(Idle)'
    BY IdleFacts DEF FinalizerInv, RegisterInv, ReleaseInv, RemovalInv, Protected, Releasing
  <2> QED
    BY <2>1, <2>2 DEF WorkerInv
<1> QED
  BY <1>1, <1>2 DEF AddonsInv, OwnCharts

(* deleteFinalizer: a configuration that is being deleted goes; one that   *)
(* is not has no finalizer to lose.                                        *)
LEMMA UnprotectKeeps ==
  ASSUME AddonsInv, deleteFinalizer
  PROVE  AddonsInv'
<1>0. /\ AddonsTypes /\ rec \in Reconciliation /\ LocalInv(rec) /\ FinalizerInv(rec)
      /\ rec.pc = "unprotect"
  BY DEF AddonsInv, AddonsTypes, WorkerInv, deleteFinalizer, At
<1>1. PICK c \in Configs : c = rec.cfg
  BY <1>0, CfgFacts
<1> DEFINE u == Updated(conf[rec.cfg], FALSE)
<1>2. /\ conf[c] # Nil /\ cache[c] = conf[c] /\ UNCHANGED cache
      /\ conf' = [conf EXCEPT ![c] = IF conf[c].deleting THEN Nil ELSE u]
      /\ rec' = Idle /\ UNCHANGED <<queue, store, serviceCatalog, faults>>
  BY <1>1 DEF deleteFinalizer, Write, End, counters
<1>3. conf[c] \in Configuration /\ conf[c].deleting \in BOOLEAN
  BY <1>0, <1>2, ConfFacts DEF Configuration
<1>4. /\ u \in Configuration /\ u.status = conf[c].status /\ u.deleting = conf[c].deleting
      /\ ~u.finalizer /\ u.gen >= conf[c].gen
  BY <1>0, <1>1, <1>3, UpdatedFacts
<1>5. conf[c].deleting \/ ~conf[c].finalizer
  BY <1>0, <1>1, <1>2 DEF FinalizerInv, LocalInv
<1> HIDE DEF u
<1>6. PICK o \in Configuration \cup {Nil} : o = IF conf[c].deleting THEN Nil ELSE u
  BY <1>4
<1>7. conf' = [conf EXCEPT ![c] = o]
  BY <1>2, <1>6
<1>8. /\ o # Nil => /\ o.status = conf[c].status /\ o.gen >= conf[c].gen
                    /\ ~conf[c].finalizer /\ ~o.finalizer /\ ~conf[c].deleting
      /\ o = Nil => conf[c].deleting
  BY <1>3, <1>4, <1>5, <1>6, NilAssumption
<1>9. /\ conf' \in [Configs -> Configuration \cup {Nil}] /\ ObjectsInv'
      /\ "list" \in Fresh => OneRegistrar'
      /\ "list" \in Fresh /\ faults' = 0 => SharedInv'
  BY <1>2, <1>7, <1>8, ObjectKeeps
<1> QED
  BY <1>0, <1>2, <1>9, EndKeeps DEF AddonsTypes

(* A repository was not fetched: the status written, if any, is Failed.    *)
LEMMA ReportKeeps ==
  ASSUME AddonsInv, reportFetchingError
  PROVE  AddonsInv'
<1>0. /\ AddonsTypes /\ rec \in Reconciliation /\ LocalInv(rec) /\ rec.pc = "report"
      /\ ObjectsInv /\ faults \in Nat
      /\ "list" \in Fresh => OneRegistrar
      /\ "list" \in Fresh /\ faults = 0 => SharedInv
  BY DEF AddonsInv, AddonsTypes, WorkerInv, reportFetchingError, At
<1>1. /\ rec' = Idle /\ queue' = queue \cup {rec.cfg} /\ UNCHANGED <<store, serviceCatalog, faults>>
  BY DEF reportFetchingError, Retry, counters
<1>2. queue' \subseteq Configs
  BY <1>0, <1>1, CfgFacts DEF AddonsTypes
<1>3. CASE Equals(rec.status, rec.last)
  <2>1. UNCHANGED <<conf, cache>>
    BY <1>3 DEF reportFetchingError
  <2>2. stored' \subseteq Addons /\ charts' \subseteq Charts /\ (OffersStored => OffersStored')
    BY <1>0, <1>1, <2>1 DEF AddonsTypes, store, OffersStored, Stored, IsReady
  <2> QED
    BY <1>0, <1>1, <1>2, <2>1, <2>2, IdleKeeps DEF SharedInv
<1>4. CASE ~Equals(rec.status, rec.last)
  <2>1. Write(rec.cfg, [conf[rec.cfg] EXCEPT !.status = rec.status])
    BY <1>4 DEF reportFetchingError
  <2>2. rec.status \in Status /\ rec.status.phase # "Ready" /\ rec.status.observed = rec.gen
    BY <1>0, RecFacts DEF LocalInv
  <2>3. /\ conf' \in [Configs -> Configuration \cup {Nil}] /\ UNCHANGED cache /\ ObjectsInv'
        /\ "list" \in Fresh => OneRegistrar'
        /\ "list" \in Fresh /\ faults' = 0 => SharedInv'
    BY <1>0, <1>1, <2>1, <2>2, StatusKeeps DEF Protected
  <2> QED
    BY <1>1, <1>2, <2>3, EndKeeps
<1> QED
  BY <1>3, <1>4

(* updateAddonStatus: what is left to remove is nothing that the new       *)
(* status offers.                                                          *)
LEMMA UpdateStatusKeeps ==
  ASSUME AddonsInv, updateAddonStatus
  PROVE  AddonsInv'
<1>0. /\ AddonsTypes /\ rec \in Reconciliation /\ LocalInv(rec) /\ FinalizerInv(rec)
      /\ rec.pc = "status" /\ rec.status \in Status /\ rec.gen \in Nat /\ rec.last \in Status
      /\ "list" \in Fresh /\ faults = 0 => RemovalInv(rec)
  BY RecFacts DEF AddonsInv, AddonsTypes, WorkerInv, updateAddonStatus, At
<1> DEFINE status == [rec.status EXCEPT !.observed = rec.gen]
<1> DEFINE todo == orphanAddons(rec.last, status)
<1> DEFINE s == [rec EXCEPT !.status = status, !.todo = todo]
<1> DEFINE pc == afterRemoving(s)
<1> DEFINE q == [s EXCEPT !.pc = pc]
<1>1. /\ WriteStatus(status) /\ UNCHANGED <<store, serviceCatalog, faults>>
      /\ rec' = IF pc = "idle" THEN Idle ELSE q
  BY DEF updateAddonStatus, Resume, counters
<1>2. /\ status \in Status /\ status.phase = rec.status.phase /\ status.observed = rec.gen
      /\ status.ready = rec.status.ready /\ status.failed = rec.status.failed
  BY <1>0 DEF Status
<1> HIDE DEF status
<1>3. /\ todo \subseteq Addons
      /\ todo # {} => rec.last.phase = "Ready" /\ todo \subseteq Listed(rec.last)
      /\ status.phase = "Ready" => todo \cap status.ready = {}
  BY <1>0 DEF orphanAddons, Listed, Status
<1> HIDE DEF todo
<1>4. /\ s \in Reconciliation /\ s.todo = todo /\ s.ask = rec.ask
      /\ s.deleting = rec.deleting
      /\ s.cfg = rec.cfg /\ s.last = rec.last /\ s.others = rec.others
  BY <1>0, <1>2, <1>3 DEF Reconciliation
<1> HIDE DEF s
<1>5. ~rec.deleting
  BY <1>0 DEF LocalInv, Processing
<1>6. pc \in {"remove", "broker", "idle"} /\ (pc # "remove" => todo = {})
  BY <1>4, <1>5 DEF afterRemoving
<1> HIDE DEF pc
<1>7. /\ q \in Reconciliation /\ q.pc = pc /\ q.todo = todo /\ q.ask = rec.ask
      /\ q.deleting = rec.deleting
      /\ q.cfg = rec.cfg /\ q.last = rec.last /\ q.others = rec.others
  BY <1>4, <1>6 DEF Reconciliation, PCs
<1> HIDE DEF q
<1>8. /\ conf' \in [Configs -> Configuration \cup {Nil}] /\ UNCHANGED cache
      /\ conf'[rec.cfg].status = status
      /\ \A d \in Configs : d # rec.cfg => conf'[d] = conf[d]
      /\ ObjectsInv'
      /\ "list" \in Fresh => OneRegistrar'
      /\ "list" \in Fresh /\ faults' = 0 => SharedInv'
  BY <1>0, <1>1, <1>2, StatusKeeps DEF Protected
<1>9. queue' \subseteq Configs
  BY <1>0, <1>1, CfgFacts DEF AddonsTypes, WriteStatus
<1>10. CASE pc = "idle"
  BY <1>1, <1>8, <1>9, <1>10, EndKeeps
<1>11. CASE pc # "idle"
  <2>1. PICK r \in Reconciliation : r = q /\ rec' = r
    BY <1>1, <1>7, <1>11
  <2>2. /\ r.pc \in {"remove", "broker"} /\ r.todo = todo /\ r.ask = rec.ask
        /\ ~r.deleting /\ (r.pc # "remove" => todo = {})
        /\ r.cfg = rec.cfg /\ r.last = rec.last /\ r.others = rec.others
    BY <1>5, <1>6, <1>7, <1>11, <2>1
  <2>3. AddonsTypes'
    BY <1>0, <1>1, <1>8, <1>9, <2>1 DEF AddonsTypes, store, serviceCatalog
  <2>4. LocalInv(r)'
    BY <1>0, <1>3, <2>2 DEF LocalInv, Processing
  <2>5. FinalizerInv(r)' /\ RegisterInv(r)' /\ ReleaseInv(r)'
    BY <2>2 DEF FinalizerInv, RegisterInv, ReleaseInv, Protected
  <2>6. "list" \in Fresh /\ faults' = 0 => RemovalInv(r)'
    <3> SUFFICES ASSUME RemovalInv(rec) PROVE RemovalInv(r)'
      BY <1>0, <1>1
    <3>1. \A d \in Configs : d # r.cfg => (IsReady(d)' <=> IsReady(d)) /\ conf'[d] = conf[d]
      BY <1>8, <2>2 DEF IsReady
    <3>2. r.last.phase = "Ready" =>
            /\ r.last.failed = {}
            /\ \A d \in Configs \ {r.cfg} : IsReady(d)' => r.last.ready \cap conf'[d].status.ready = {}
      BY <2>2, <3>1 DEF RemovalInv
    <3>3. IsReady(r.cfg)' => r.todo \cap conf'[r.cfg].status.ready = {}
      BY <1>3, <1>8, <2>2 DEF IsReady
    <3> QED
      BY <2>2, <3>2, <3>3 DEF RemovalInv
  <2>7. WorkerInv(rec)'
    BY <2>1, <2>4, <2>5, <2>6 DEF WorkerInv, OwnCharts
  <2> QED
    BY <1>8, <2>3, <2>7 DEF AddonsInv, OwnCharts
<1> QED
  BY <1>10, <1>11

(* ReprocessRequest: the one that is asked has a new generation.           *)
LEMMA ReprocessKeeps ==
  ASSUME AddonsInv, NEW d \in Configs, ReprocessRequest(d)
  PROVE  AddonsInv'
<1>0. /\ AddonsTypes /\ rec \in Reconciliation /\ LocalInv(rec) /\ FinalizerInv(rec)
      /\ rec.pc = "ask" /\ d \in rec.ask /\ ObjectsInv
      /\ "list" \in Fresh => ReleaseInv(rec)
      /\ "list" \in Fresh /\ faults = 0 => RemovalInv(rec)
  BY DEF AddonsInv, AddonsTypes, WorkerInv, ReprocessRequest, At
<1> DEFINE w == [conf[d] EXCEPT !.gen = @ + 1]
<1> DEFINE ask == rec.ask \ {d}
<1> DEFINE s == [rec EXCEPT !.ask = ask]
<1> DEFINE pc == IF s.ask # {} THEN "ask" ELSE IF s.deleting THEN afterRemoving(s) ELSE "idle"
<1> DEFINE q == [s EXCEPT !.pc = pc]
<1>1. /\ conf[d] # Nil /\ cache[d] = conf[d] /\ UNCHANGED cache
      /\ conf' = [conf EXCEPT ![d] = w]
      /\ rec' = IF pc = "idle" THEN Idle ELSE q
      /\ UNCHANGED <<queue, store, serviceCatalog, faults>>
  BY DEF ReprocessRequest, Write, Resume, counters
<1>2. conf[d] \in Configuration /\ conf[d].gen \in Nat /\ conf[d].gen + 1 \in Nat
      /\ conf[d].status.observed \in Nat /\ conf[d].status.observed <= conf[d].gen
  BY <1>0, <1>1, ConfFacts DEF ObjectsInv
<1>3. /\ w \in Configuration /\ w.status = conf[d].status /\ w.gen = conf[d].gen + 1
      /\ w.finalizer = conf[d].finalizer /\ w.deleting = conf[d].deleting
  BY <1>2 DEF Configuration
<1>4. PICK o \in Configuration : o = w
  BY <1>3
<1>5. /\ conf' = [conf EXCEPT ![d] = o] /\ o.status = conf[d].status /\ o.gen = conf[d].gen + 1
      /\ o.finalizer = conf[d].finalizer /\ o.deleting = conf[d].deleting
  BY <1>1, <1>3, <1>4
<1> HIDE DEF w
<1>6. o # Nil /\ o.gen >= conf[d].gen /\ o.gen > conf[d].status.observed
  BY <1>2, <1>5, NilAssumption
<1>7. /\ conf' \in [Configs -> Configuration \cup {Nil}]
      /\ conf'[d] = o /\ \A e \in Configs : e # d => conf'[e] = conf[e]
      /\ ObjectsInv'
      /\ \A e \in Configs : IsReady(e)' => /\ IsReady(e) /\ conf'[e].status = conf[e].status
                                           /\ conf[e].deleting => conf'[e].deleting
      /\ "list" \in Fresh => OneRegistrar'
      /\ "list" \in Fresh /\ faults' = 0 => SharedInv'
  BY <1>1, <1>5, <1>6, ObjectKeeps
<1>8. ask \subseteq Configs
  BY <1>0, RecFacts
<1> HIDE DEF ask
<1>9. /\ s \in Reconciliation /\ s.todo = rec.todo /\ s.ask = ask
      /\ s.deleting = rec.deleting
      /\ s.cfg = rec.cfg /\ s.last = rec.last /\ s.others = rec.others
  BY <1>0, <1>8 DEF Reconciliation
<1> HIDE DEF s
<1>10. /\ pc \in {"ask", "remove", "broker", "unprotect", "idle"}
       /\ pc = "ask" <=> ask # {}
       /\ pc \in {"remove", "broker", "unprotect"} => rec.deleting
       /\ pc \in {"broker", "unprotect"} => rec.todo = {}
  BY <1>9 DEF afterRemoving
<1> HIDE DEF pc
<1>11. /\ q \in Reconciliation /\ q.pc = pc /\ q.todo = rec.todo /\ q.ask = ask
       /\ q.deleting = rec.deleting
       /\ q.cfg = rec.cfg /\ q.last = rec.last /\ q.others = rec.others
  BY <1>9, <1>10 DEF Reconciliation, PCs
<1> HIDE DEF q
<1>12. CASE pc = "idle"
  BY <1>0, <1>1, <1>7, <1>12, EndKeeps DEF AddonsTypes
<1>13. CASE pc # "idle"
  <2>1. PICK r \in Reconciliation : r = q /\ rec' = r
    BY <1>1, <1>11, <1>13
  <2>2. /\ r.pc \in {"ask", "remove", "broker", "unprotect"} /\ r.todo = rec.todo
        /\ r.ask = rec.ask \ {d} /\ r.deleting = rec.deleting
        /\ r.pc = "ask" <=> r.ask # {}
        /\ r.pc # "ask" => r.deleting
        /\ r.pc \in {"broker", "unprotect"} => r.todo = {}
        /\ r.cfg = rec.cfg /\ r.last = rec.last /\ r.others = rec.others
    BY <1>10, <1>11, <1>13, <2>1 DEF ask
  <2>3. AddonsTypes'
    BY <1>0, <1>1, <1>7, <2>1 DEF AddonsTypes, store, serviceCatalog
  <2>4. LocalInv(r)'
    BY <1>0, <2>2 DEF LocalInv, Processing
  <2>5. r.cfg \in Configs /\ r.cfg # d
    BY <1>0, <2>2, CfgFacts DEF LocalInv
  <2>6. FinalizerInv(r)'
    BY <1>0, <1>7, <2>2, <2>5 DEF FinalizerInv, Protected
  <2>7. RegisterInv(r)'
    BY <2>2 DEF RegisterInv
  <2>8. "list" \in Fresh => ReleaseInv(r)'
    <3> SUFFICES ASSUME ReleaseInv(rec), r.deleting, r.last.phase = "Ready",
                        NEW e \in Configs, e # r.cfg, conf'[e] # Nil,
                        conf'[e].status.phase = "Failed"
                 PROVE  e \in r.ask \/ conf'[e].gen > conf'[e].status.observed
      BY <1>0 DEF ReleaseInv
    <3>1. CASE e = d
      BY <1>5, <1>6, <1>7, <3>1
    <3>2. CASE e # d
      BY <1>0, <1>7, <2>2, <3>2 DEF ReleaseInv, Releasing
    <3> QED
      BY <3>1, <3>2
  <2>9. "list" \in Fresh /\ faults' = 0 => RemovalInv(r)'
    <3> SUFFICES ASSUME RemovalInv(rec) PROVE RemovalInv(r)'
      BY <1>0, <1>1
    <3> QED
      BY <1>7, <2>2, <2>5 DEF RemovalInv
  <2>10. WorkerInv(rec)'
    BY <2>1, <2>4, <2>6, <2>7, <2>8, <2>9 DEF WorkerInv, OwnCharts
  <2> QED
    BY <1>7, <2>3, <2>10 DEF AddonsInv, OwnCharts
<1> QED
  BY <1>12, <1>13

-----------------------------------------------------------------------------
(* The theorems.                                                           *)

(* At the start there are no configurations and nothing is stored.         *)
LEMMA InitAddons == Init => AddonsInv
<1> SUFFICES ASSUME Init PROVE AddonsInv
  OBVIOUS
<1>1. AddonsTypes
  BY IdleFacts DEF Init, AddonsTypes
<1>2. ObjectsInv
  BY DEF Init, ObjectsInv
<1>3. \A c \in Configs : ~IsReady(c) /\ ~WasReady(c)
  BY DEF Init, IsReady, WasReady
<1>4. OneRegistrar /\ SharedInv
  BY <1>3 DEF OneRegistrar, SharedInv, OffersStored, Stored
<1>5. WorkerInv(rec)
  BY IdleWorks DEF Init
<1> QED
  BY <1>1, <1>2, <1>4, <1>5 DEF AddonsInv

(* Other steps.                                                            *)
LEMMA StutterAddons ==
  ASSUME AddonsInv, UNCHANGED vars
  PROVE  AddonsInv'
<1>1. UNCHANGED <<conf, cache, queue, rec, stored, charts, broker, catalog, faults>>
  BY DEF vars, store, serviceCatalog, counters
<1>2. (AddonsTypes' <=> AddonsTypes) /\ (ObjectsInv' <=> ObjectsInv)
  BY <1>1 DEF AddonsTypes, ObjectsInv
<1>3. (OneRegistrar' <=> OneRegistrar) /\ (SharedInv' <=> SharedInv)
  BY <1>1 DEF OneRegistrar, SharedInv, OffersStored, Stored, IsReady, WasReady
<1>4. /\ LocalInv(rec)' <=> LocalInv(rec)
      /\ FinalizerInv(rec)' <=> FinalizerInv(rec)
      /\ RegisterInv(rec)' <=> RegisterInv(rec)
      /\ ReleaseInv(rec)' <=> ReleaseInv(rec)
      /\ RemovalInv(rec)' <=> RemovalInv(rec)
  BY <1>1 DEF LocalInv, FinalizerInv, RegisterInv, ReleaseInv, RemovalInv, IsReady, WasReady, Stored
<1> QED
  BY <1>1, <1>2, <1>3, <1>4 DEF AddonsInv, WorkerInv, OwnCharts

(* Every step of users, the informer, the worker, Service Catalog, and     *)
(* every failure.                                                          *)
LEMMA NextAddons ==
  ASSUME AddonsInv, [Next]_vars
  PROVE  AddonsInv'
<1>1. CASE UserStep
  BY <1>1, UserStepKeeps
<1>2. ASSUME NEW c \in Configs, Deliver(c) \/ Reconcile(c) PROVE AddonsInv'
  BY <1>2, DeliverKeeps, ReconcileKeeps
<1>3. CASE WorkerStep
  <2>1. ASSUME NEW a \in Addons, saveAddon(a) \/ removeAddon(a) PROVE AddonsInv'
    BY <2>1, SaveKeeps, RemoveKeeps
  <2>2. ASSUME NEW d \in Configs, ReprocessRequest(d) PROVE AddonsInv'
    BY <2>2, ReprocessKeeps
  <2> QED
    BY <1>3, <2>1, <2>2, ProtectKeeps, PendingKeeps, LoadKeeps, ReportKeeps, ReviseKeeps,
       UpdateStatusKeeps, ListKeeps, UnprotectKeeps, EnsureBrokerKeeps, RetriesKeep DEF WorkerStep
<1>4. CASE FailureStep
  <2>1. ASSUME NEW a \in Addons, RegisteringError(a) \/ RemovalFails(a) PROVE AddonsInv'
    BY <2>1, RegisteringErrorKeeps, RetriesKeep
  <2> QED
    BY <1>4, <2>1, RetriesKeep, CrashKeeps DEF FailureStep
<1>5. CASE CreateBroker \/ DeleteBroker \/ Relist
  BY <1>5, BrokerKeeps
<1>6. CASE UNCHANGED vars
  BY <1>6, StutterAddons
<1> QED
  BY <1>1, <1>2, <1>3, <1>4, <1>5, <1>6 DEF Next

(* The inductive invariant of the controller of configurations.            *)
THEOREM Addons_Invariant == Spec => []AddonsInv
<1>1. Init => AddonsInv
  BY InitAddons
<1>2. AddonsInv /\ [Next]_vars => AddonsInv'
  BY NextAddons
<1> QED
  BY <1>1, <1>2, PTL DEF Spec

(* The configurations, the cache, the reconciliation under way and the     *)
(* storage are always of their types.                                      *)
THEOREM Addons_TypeOK == Spec => []AddonsTypeOK
<1>1. AddonsInv => AddonsTypeOK
  BY DEF AddonsInv, AddonsTypes, AddonsTypeOK
<1> QED
  BY <1>1, Addons_Invariant, PTL

(* OnAdd compares with the statuses of the others and writes its own a few *)
(* calls later: when the list it compares with is up to date, an addon     *)
(* nonetheless has one Ready configuration at most, whatever users edit,   *)
(* whichever call fails and wherever the controller restarts.              *)
THEOREM Addons_OneRegistrar ==
  ASSUME "list" \in Fresh
  PROVE  Spec => []OneRegistrar
<1>1. AddonsInv => OneRegistrar
  BY DEF AddonsInv
<1> QED
  BY <1>1, Addons_Invariant, PTL

(* What a Ready configuration says it offers is in the storage, as long as *)
(* no call has failed: no removal for an earlier owner or an outdated      *)
(* status takes it away, if no two addons have a chart in common.          *)
THEOREM Addons_ReadyIsStored ==
  ASSUME "list" \in Fresh, OwnCharts
  PROVE  Spec => []ReadyIsStored
<1>1. AddonsInv => ReadyIsStored
  <2>1. CASE faults = 0
    BY <2>1 DEF AddonsInv, SharedInv, OffersStored, Stored, ReadyIsStored
  <2>2. CASE faults # 0
    BY <2>2 DEF ReadyIsStored
  <2> QED
    BY <2>1, <2>2
<1> QED
  BY <1>1, Addons_Invariant, PTL

(* When OnDelete lets a configuration go that it read as Ready, every      *)
(* Failed configuration has been told to try again.                        *)
THEOREM Addons_ReleaseReprocesses ==
  ASSUME "list" \in Fresh
  PROVE  Spec => ReleaseReprocesses
<1> DEFINE Step == \A c, d \in Configs :
       /\ At("unprotect") /\ rec.cfg = c /\ rec.last.phase = "Ready" /\ conf'[c] = Nil
       /\ conf[d] # Nil /\ conf[d].status.phase = "Failed"
       => c = d \/ conf'[d].gen > conf[d].status.observed
<1>1. AddonsInv /\ [Next]_vars => [Step]_vars
  <2> SUFFICES ASSUME AddonsInv, Next,
                      NEW c \in Configs, NEW d \in Configs,
                      rec.pc = "unprotect", rec.cfg = c, rec.last.phase = "Ready", conf'[c] = Nil,
                      conf[d] # Nil, conf[d].status.phase = "Failed", c # d
               PROVE  conf'[d].gen > conf[d].status.observed
    BY DEF At
  <2>1. conf[d].gen > conf[d].status.observed
    <3>1. LocalInv(rec) /\ ReleaseInv(rec)
      BY DEF AddonsInv, WorkerInv
    <3> QED
      BY <3>1 DEF LocalInv, ReleaseInv, Releasing
  <2>2. conf[d] \in Configuration /\ conf[d].gen \in Nat /\ conf[d].status.observed \in Nat
    BY ConfFacts DEF AddonsInv
  <2>3. conf[d].finalizer
    BY DEF AddonsInv, ObjectsInv, Observed
  <2>4. ASSUME NEW e \in Configs, NEW spec \in Specs, Create(e, spec) PROVE conf'[d] = conf[d]
    BY <2>4 DEF Create, AddonsInv, AddonsTypes
  <2>5. ASSUME NEW e \in Configs, NEW spec \in Specs, Edit(e, spec) PROVE conf'[d].gen \in Nat /\ conf'[d].gen >= conf[d].gen
    <3> DEFINE o == [conf[d] EXCEPT !.spec = spec, !.gen = @ + 1]
    <3>1. conf'[d] = conf[d] \/ conf'[d] = o
      BY <2>2, <2>5 DEF Edit, AddonsInv, AddonsTypes, Configuration
    <3>2. o.gen = conf[d].gen + 1
      BY <2>2 DEF Configuration
    <3> HIDE DEF o
    <3> QED
      BY <2>2, <3>1, <3>2
  <2>6. ASSUME NEW e \in Configs, Delete(e) PROVE conf'[d].gen = conf[d].gen
    <3> DEFINE o == [conf[d] EXCEPT !.deleting = TRUE]
    <3>1. conf'[d] = conf[d] \/ conf'[d] = o
      BY <2>3, <2>6 DEF Delete, AddonsInv, AddonsTypes
    <3>2. o.gen = conf[d].gen
      BY <2>2 DEF Configuration
    <3> HIDE DEF o
    <3> QED
      BY <3>1, <3>2
  <2>7. CASE deleteFinalizer
    BY <2>1, <2>7 DEF deleteFinalizer, Write, AddonsInv, AddonsTypes
  <2>8. CASE UNCHANGED conf
    BY <2>1, <2>8
  <2>9. UserStep \/ deleteFinalizer \/ UNCHANGED conf
    BY DEF Next, Deliver, Reconcile, WorkerStep, addFinalizer, setPending, loadRepositories,
           reportFetchingError, reviseAddonDuplication, updateAddonStatus, saveAddon, removeAddon,
           listOnDelete, ensureBroker, ReprocessRequest, NotFound, FailureStep, CallFails,
           RegisteringError, RemovalFails, Crash, CreateBroker, DeleteBroker, Relist, At
  <2>10. CASE UserStep
    <3>1. conf'[d].gen \in Nat /\ conf'[d].gen >= conf[d].gen
      BY <2>2, <2>4, <2>5, <2>6, <2>10 DEF UserStep
    <3> QED
      BY <2>1, <2>2, <3>1
  <2> QED
    BY <2>7, <2>8, <2>9, <2>10
<1> QED
  BY <1>1, Addons_Invariant, PTL DEF Spec, ReleaseReprocesses
=============================================================================
