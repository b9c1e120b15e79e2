------------------------ MODULE AddonsSettled_proofs ------------------------
(***************************************************************************)
(* What the controller of configurations leaves when all is settled, for   *)
(* every value of its constants: Service Catalog has been told of what is  *)
(* stored, and what is stored is what the Ready configurations offer.      *)
(***************************************************************************)
EXTENDS AddonsController_proofs

-----------------------------------------------------------------------------
(* The steps of the worker, as to the locals that matter here.             *)

(* The locals that a reconciliation never changes after it has started.    *)
SameRequest(r, s) ==
  s.cfg = r.cfg /\ s.deleting = r.deleting /\ s.last = r.last

(* What counts as a change that Service Catalog has to be told of.         *)
Changed(r) == r.saved \/ r.gone # {}

CatalogVars == <<stored, broker, catalog>>

(* Reconcile: the worker was idle; it goes on with the configuration as it *)
(* is in the cache, or has nothing to do.                                  *)
LEMMA ReconcileMoves ==
  ASSUME AddonsInv, NEW c \in Configs, Reconcile(c)
  PROVE  /\ UNCHANGED <<conf, cache, CatalogVars, errors, crashes, faults>>
         /\ rec = Idle /\ cache[c] # Nil /\ queue' = queue \ {c}
         /\ "get" \in Fresh => cache[c] = conf[c]
         /\ \/ rec' = Idle /\ ~cache[c].deleting
            \/ /\ rec'.pc \in {"list", "unprotect", "protect", "load"}
               /\ rec'.cfg = c /\ rec'.gen = cache[c].gen
               /\ rec'.deleting = cache[c].deleting /\ rec'.last = cache[c].status
               /\ rec'.todo = {} /\ rec'.gone = {} /\ ~rec'.saved
               /\ rec'.pc \in {"list", "unprotect"} <=> cache[c].deleting
               /\ rec'.pc = "unprotect" => cache[c].status.phase # "Ready"
               /\ rec'.pc = "protect" => IsReadyForInitialProcessing(cache[c])
<1> DEFINE o == cache[c]
<1> DEFINE s == [Idle EXCEPT !.cfg = c, !.gen = o.gen, !.spec = o.spec, !.deleting = o.deleting,
                             !.last = o.status, !.status = o.status]
<1> DEFINE pc == IF o.deleting
                   THEN IF o.status.phase = "Ready" THEN "list" ELSE "unprotect"
                 ELSE IF IsReadyForInitialProcessing(o) THEN "protect"
                 ELSE IF IsReadyForReprocessing(o) THEN "load" ELSE "idle"
<1> DEFINE r == [s EXCEPT !.pc = pc]
<1>1. /\ UNCHANGED <<conf, cache, CatalogVars, errors, crashes, faults>>
      /\ rec.pc = "idle" /\ cache[c] # Nil /\ queue' = queue \ {c}
      /\ "get" \in Fresh => cache[c] = conf[c]
      /\ rec' = IF pc = "idle" THEN Idle ELSE r
  BY DEF Reconcile, counters, Resume, serviceCatalog, store, CatalogVars, At
<1>2. rec = Idle
  BY <1>1 DEF AddonsInv, WorkerInv, LocalInv
<1>3. o \in Configuration /\ o.deleting \in BOOLEAN
  BY <1>1, ConfFacts DEF AddonsInv, Configuration
<1>4. /\ pc \in {"list", "unprotect", "protect", "load", "idle"}
      /\ pc \in {"list", "unprotect"} <=> o.deleting
      /\ pc = "unprotect" => o.status.phase # "Ready"
      /\ pc = "protect" => IsReadyForInitialProcessing(o)
  BY <1>3
<1> HIDE DEF pc
<1>5. /\ r.pc = pc /\ r.cfg = c /\ r.gen = o.gen /\ r.deleting = o.deleting
      /\ r.last = o.status /\ r.todo = {} /\ r.gone = {} /\ ~r.saved
  BY DEF Idle
<1> HIDE DEF r, s
<1> QED
  BY <1>1, <1>2, <1>4, <1>5

(* loadRepositories: a repository that is not fetched is an error.         *)
LEMMA LoadMoves ==
  ASSUME AddonsInv, loadRepositories
  PROVE  /\ UNCHANGED <<conf, cache, queue, CatalogVars, crashes, faults>>
         /\ rec.pc = "load" /\ rec'.pc \in {"report", "revise"}
         /\ SameRequest(rec, rec') /\ rec'.gen = rec.gen
         /\ errors' = errors \/ errors' = errors + 1
         /\ rec'.pc = "report" => errors' = errors + 1
<1>0. rec \in Reconciliation
  BY DEF AddonsInv, AddonsTypes
<1>1. /\ UNCHANGED <<conf, cache, queue, CatalogVars, crashes, faults>> /\ rec.pc = "load"
  BY DEF loadRepositories, store, serviceCatalog, CatalogVars, At
<1>2. PICK unfetched \in SUBSET rec.spec, broken \in SUBSET rec.spec :
        /\ \/ unfetched \cup broken = {} /\ UNCHANGED errors
           \/ unfetched \cup broken # {} /\ errors' = errors + 1
        /\ rec' = [rec EXCEPT !.pc = IF unfetched # {} THEN "report" ELSE "revise",
                              !.status = [phase |-> "Failed", observed |-> rec.gen,
                                          ready |-> rec.spec \ (unfetched \cup broken),
                                          failed |-> broken, unfetched |-> unfetched]]
  BY DEF loadRepositories
<1>3. /\ rec'.pc = IF unfetched # {} THEN "report" ELSE "revise"
      /\ rec'.cfg = rec.cfg /\ rec'.deleting = rec.deleting /\ rec'.last = rec.last
      /\ rec'.gen = rec.gen
  BY <1>0, <1>2 DEF Reconciliation
<1> QED
  BY <1>1, <1>2, <1>3 DEF SameRequest

(* reviseAddonDuplication: all is Ready and is saved, or the configuration *)
(* has failed.                                                             *)
LEMMA ReviseMoves ==
  ASSUME AddonsInv, reviseAddonDuplication
  PROVE  /\ UNCHANGED <<conf, cache, queue, CatalogVars, errors, crashes, faults>>
         /\ rec.pc = "revise" /\ rec'.pc \in {"save", "status"}
         /\ SameRequest(rec, rec') /\ rec'.gen = rec.gen
         /\ rec'.status.phase \in {"Ready", "Failed"}
         /\ rec'.todo \subseteq rec'.status.ready
<1>0. rec \in Reconciliation /\ rec.status \in Status
  BY RecFacts DEF AddonsInv, AddonsTypes
<1>1. /\ UNCHANGED <<conf, cache, queue, CatalogVars, errors, crashes, faults>> /\ rec.pc = "revise"
  BY DEF reviseAddonDuplication, counters, store, serviceCatalog, CatalogVars, At
<1> DEFINE others == listExistingConfigurations(rec.cfg)
<1> DEFINE Ready(kept) == {a \in kept : ~findExistingAddon(a, others)}
<1>2. PICK kept \in SUBSET rec.status.ready :
        LET ready == Ready(kept)
            failed == rec.spec \ ready
            phase == IF IsRepositoriesFailed(failed) THEN "Failed" ELSE "Ready" IN
        rec' = [rec EXCEPT !.pc = IF phase = "Ready" /\ ready # {} THEN "save" ELSE "status",
                           !.others = others,
                           !.todo = IF phase = "Ready" THEN ready ELSE {},
                           !.status.phase = phase,
                           !.status.ready = ready,
                           !.status.failed = failed]
  BY DEF reviseAddonDuplication
<1> DEFINE ready == Ready(kept)
<1> DEFINE failed == rec.spec \ ready
<1> DEFINE phase == IF IsRepositoriesFailed(failed) THEN "Failed" ELSE "Ready"
<1> DEFINE pc == IF phase = "Ready" /\ ready # {} THEN "save" ELSE "status"
<1> DEFINE todo == IF phase = "Ready" THEN ready ELSE {}
<1>3. rec' = [rec EXCEPT !.pc = pc, !.others = others, !.todo = todo, !.status.phase = phase,
                         !.status.ready = ready, !.status.failed = failed]
  BY <1>2
<1>4. phase \in {"Ready", "Failed"} /\ pc \in {"save", "status"} /\ todo \subseteq ready
  OBVIOUS
<1> HIDE DEF others, Ready, ready, failed, phase, pc, todo
<1>5. /\ rec'.pc = pc /\ rec'.cfg = rec.cfg /\ rec'.deleting = rec.deleting
      /\ rec'.last = rec.last /\ rec'.gen = rec.gen /\ rec'.todo = todo
      /\ rec'.status.phase = phase /\ rec'.status.ready = ready
  BY <1>0, <1>3 DEF Reconciliation, Status
<1> QED
  BY <1>1, <1>4, <1>5 DEF SameRequest

(* saveAddon: one addon more is stored.                                    *)
LEMMA SaveMoves ==
  ASSUME AddonsInv, NEW a \in Addons, saveAddon(a)
  PROVE  /\ UNCHANGED <<conf, cache, queue, broker, catalog, errors, crashes, faults>>
         /\ stored' = stored \cup {a} /\ a \in rec.todo
         /\ rec.pc = "save" /\ rec'.pc \in {"save", "status"}
         /\ SameRequest(rec, rec') /\ rec'.gen = rec.gen /\ rec'.status = rec.status
         /\ rec'.todo = rec.todo \ {a} /\ rec'.saved
<1>0. rec \in Reconciliation
  BY DEF AddonsInv, AddonsTypes
<1>1. /\ UNCHANGED <<conf, cache, queue, broker, catalog, errors, crashes, faults>>
      /\ stored' = stored \cup {a} /\ a \in rec.todo /\ rec.pc = "save"
      /\ rec' = [rec EXCEPT !.todo = @ \ {a}, !.saved = TRUE,
                            !.pc = IF rec.todo = {a} THEN "status" ELSE "save"]
  BY DEF saveAddon, counters, serviceCatalog, At
<1>2. /\ rec'.pc \in {"save", "status"} /\ rec'.cfg = rec.cfg /\ rec'.deleting = rec.deleting
      /\ rec'.last = rec.last /\ rec'.gen = rec.gen /\ rec'.status = rec.status
      /\ rec'.todo = rec.todo \ {a} /\ rec'.saved
  BY <1>0, <1>1 DEF Reconciliation
<1> QED
  BY <1>1, <1>2 DEF SameRequest

(* listOnDelete: everything is to be removed, after the others are asked.  *)
LEMMA ListMoves ==
  ASSUME AddonsInv, listOnDelete
  PROVE  /\ UNCHANGED <<conf, cache, queue, CatalogVars, errors, crashes, faults>>
         /\ rec.pc = "list" /\ rec'.pc \in {"ask", "remove", "broker", "unprotect"}
         /\ SameRequest(rec, rec') /\ rec'.gen = rec.gen
         /\ rec'.todo = Listed(rec.last)
         /\ rec'.pc \in {"broker", "unprotect"} => rec'.todo = {}
<1>0. rec \in Reconciliation /\ LocalInv(rec)
  BY DEF AddonsInv, AddonsTypes, WorkerInv
<1> DEFINE todo == Listed(rec.status)
<1> DEFINE ask == UnreadyOnes(listExistingConfigurations(rec.cfg))
<1> DEFINE s == [rec EXCEPT !.todo = todo, !.ask = ask]
<1> DEFINE pc == IF s.ask # {} THEN "ask" ELSE afterRemoving(s)
<1> DEFINE r == [s EXCEPT !.pc = pc]
<1>1. /\ UNCHANGED <<conf, cache, queue, CatalogVars, errors, crashes, faults>> /\ rec.pc = "list"
      /\ rec' = IF pc = "idle" THEN Idle ELSE r
  BY DEF listOnDelete, Resume, counters, store, serviceCatalog, CatalogVars, At
<1>2. rec.deleting /\ todo = Listed(rec.last) /\ todo \subseteq Addons /\ ask \subseteq Configs
  BY <1>0, <1>1, RecFacts DEF LocalInv, Listed, UnreadyOnes
<1> HIDE DEF todo, ask
<1>3. /\ s.todo = todo /\ s.deleting = rec.deleting /\ s.cfg = rec.cfg
      /\ s.last = rec.last /\ s.gen = rec.gen /\ s \in Reconciliation
  BY <1>0, <1>2 DEF Reconciliation
<1> HIDE DEF s
<1>4. /\ pc \in {"ask", "remove", "broker", "unprotect"}
      /\ pc \in {"broker", "unprotect"} => todo = {}
  BY <1>2, <1>3 DEF afterRemoving
<1> HIDE DEF pc
<1>5. /\ r.pc = pc /\ r.todo = todo /\ r.deleting = rec.deleting /\ r.cfg = rec.cfg
      /\ r.last = rec.last /\ r.gen = rec.gen
  BY <1>3 DEF Reconciliation
<1> HIDE DEF r
<1> QED
  BY <1>1, <1>2, <1>4, <1>5 DEF SameRequest

(* ensureBroker: the broker is to be relisted.                             *)
LEMMA EnsureBrokerMoves ==
  ASSUME AddonsInv, ensureBroker
  PROVE  /\ UNCHANGED <<conf, cache, queue, stored, errors, crashes, faults>>
         /\ broker' # "listed"
         /\ rec.pc = "broker"
         /\ \/ rec' = Idle /\ ~rec.deleting
            \/ /\ rec'.pc \in {"ask", "unprotect"}
               /\ rec'.pc = "unprotect" <=> rec.deleting
               /\ SameRequest(rec, rec') /\ rec'.gen = rec.gen /\ rec'.todo = rec.todo
<1>0. rec \in Reconciliation /\ rec.deleting \in BOOLEAN
  BY RecFacts DEF AddonsInv, AddonsTypes
<1> DEFINE ask == {d \in Configs : /\ rec.others[d] # Nil
                                   /\ \E a \in rec.gone :
                                        isConfigurationInConflict(a, rec.others[d])}
<1> DEFINE s == [rec EXCEPT !.ask = ask]
<1> DEFINE pc == IF rec.deleting THEN "unprotect" ELSE IF s.ask # {} THEN "ask" ELSE "idle"
<1> DEFINE r == [s EXCEPT !.pc = pc]
<1>1. /\ UNCHANGED <<conf, cache, queue, stored, errors, crashes, faults>>
      /\ broker' # "listed" /\ rec.pc = "broker"
      /\ rec' = IF pc = "idle" THEN Idle ELSE r
  BY DEF ensureBroker, counters, Resume, Sync, store, At
<1>a. ask \subseteq Configs
  OBVIOUS
<1> HIDE DEF ask
<1>2. /\ s \in Reconciliation
      /\ s.todo = rec.todo /\ s.deleting = rec.deleting /\ s.cfg = rec.cfg
      /\ s.last = rec.last /\ s.gen = rec.gen
  BY <1>0, <1>a DEF Reconciliation
<1>3. pc \in {"unprotect", "ask", "idle"} /\ (pc = "unprotect" <=> rec.deleting)
  BY <1>0
<1> HIDE DEF s, pc
<1>4. /\ r.pc = pc /\ r.todo = rec.todo /\ r.deleting = rec.deleting /\ r.cfg = rec.cfg
      /\ r.last = rec.last /\ r.gen = rec.gen
  BY <1>2 DEF Reconciliation
<1> HIDE DEF r
<1> QED
  BY <1>0, <1>1, <1>3, <1>4 DEF SameRequest

(* removeAddon: one addon less is stored.  What has changed is counted, so *)
(* that the finalizer comes next only if nothing has.                      *)
LEMMA RemoveMoves ==
  ASSUME AddonsInv, NEW a \in Addons, removeAddon(a)
  PROVE  /\ UNCHANGED <<conf, cache, queue, broker, catalog, errors, crashes, faults>>
         /\ stored' = stored \ {a} /\ a \in rec.todo
         /\ rec.pc = "remove" /\ rec'.pc \in {"remove", "broker", "unprotect"}
         /\ SameRequest(rec, rec') /\ rec'.gen = rec.gen
         /\ rec'.todo = rec.todo \ {a}
         /\ rec'.pc # "remove" => rec'.todo = {}
         /\ Changed(rec) \/ a \in stored => Changed(rec')
         /\ rec'.pc = "unprotect" => ~Changed(rec')
<1>0. rec \in Reconciliation /\ rec.deleting \in BOOLEAN
  BY RecFacts DEF AddonsInv, AddonsTypes
<1> DEFINE counted == IF rec.deleting THEN {a} \cap stored ELSE {a}
<1> DEFINE s == [rec EXCEPT !.todo = @ \ {a}, !.gone = @ \cup counted]
<1> DEFINE pc == afterRemoving(s)
<1> DEFINE r == [s EXCEPT !.pc = pc]
<1>1. /\ UNCHANGED <<conf, cache, queue, broker, catalog, errors, crashes, faults>>
      /\ stored' = stored \ {a} /\ a \in rec.todo /\ rec.pc = "remove"
      /\ rec' = IF pc = "idle" THEN Idle ELSE r
  BY DEF removeAddon, serviceCatalog, counters, Resume, At
<1>2. /\ counted \subseteq Addons /\ (a \in stored => counted # {})
      /\ ~rec.deleting => counted # {}
  OBVIOUS
<1> HIDE DEF counted
<1>3. /\ s \in Reconciliation /\ s.todo = rec.todo \ {a} /\ s.gone = rec.gone \cup counted
      /\ s.deleting = rec.deleting /\ s.gen = rec.gen /\ s.cfg = rec.cfg /\ s.last = rec.last
      /\ s.saved = rec.saved
  BY <1>0, <1>2 DEF Reconciliation
<1> HIDE DEF s
<1>4. /\ pc \in {"remove", "broker", "unprotect"}
      /\ pc # "remove" => s.todo = {}
      /\ pc = "unprotect" => ~Changed(s)
  BY <1>0, <1>2, <1>3 DEF afterRemoving, Changed
<1> HIDE DEF pc
<1>5. /\ r.pc = pc /\ r.todo = s.todo /\ r.gone = s.gone /\ r.saved = s.saved
      /\ r.deleting = rec.deleting /\ r.gen = rec.gen /\ r.cfg = rec.cfg /\ r.last = rec.last
  BY <1>3 DEF Reconciliation
<1> HIDE DEF r
<1> QED
  BY <1>1, <1>2, <1>3, <1>4, <1>5 DEF SameRequest, Changed

(* A write by the worker to one configuration.                             *)
LEMMA WriteMoves ==
  ASSUME AddonsInv, NEW c \in Configs, NEW o, Write(c, o)
  PROVE  /\ conf[c] # Nil /\ cache[c] = conf[c] /\ UNCHANGED cache
         /\ conf[c] \in Configuration
         /\ conf' \in [Configs -> Configuration \cup {Nil, o}] /\ conf'[c] = o
         /\ \A d \in Configs : d # c => conf'[d] = conf[d]
         /\ conf' = conf <=> o = conf[c]
<1>1. conf \in [Configs -> Configuration \cup {Nil}]
  BY DEF AddonsInv, AddonsTypes
<1>2. conf[c] # Nil /\ cache[c] = conf[c] /\ UNCHANGED cache /\ conf' = [conf EXCEPT ![c] = o]
  BY DEF Write
<1> QED
  BY <1>1, <1>2, ConfFacts DEF AddonsInv

(* updateAddonStatus: the status is there; what is left to do is removing, *)
(* or Sync if something has changed.                                       *)
LEMMA UpdateStatusMoves ==
  ASSUME AddonsInv, updateAddonStatus
  PROVE  /\ UNCHANGED <<cache, CatalogVars, errors, crashes, faults>>
         /\ rec.pc = "status" /\ rec.cfg \in Configs /\ ~rec.deleting
         /\ conf[rec.cfg] # Nil /\ cache[rec.cfg] = conf[rec.cfg] /\ conf'[rec.cfg] # Nil
         /\ conf'[rec.cfg].gen = conf[rec.cfg].gen
         /\ conf'[rec.cfg].deleting = conf[rec.cfg].deleting
         /\ conf'[rec.cfg].status = [rec.status EXCEPT !.observed = rec.gen]
         /\ \A d \in Configs : d # rec.cfg => conf'[d] = conf[d]
         /\ queue \subseteq queue' /\ (conf'[rec.cfg] = conf[rec.cfg] => rec.cfg \in queue')
         /\ LET orphans == orphanAddons(rec.last, [rec.status EXCEPT !.observed = rec.gen]) IN
            \/ rec' = Idle /\ ~Changed(rec) /\ orphans = {}
            \/ /\ rec'.pc \in {"remove", "broker"}
               /\ SameRequest(rec, rec') /\ rec'.gen = rec.gen
               /\ rec'.todo = orphans /\ (rec'.pc = "broker" => orphans = {})
               /\ Changed(rec) => Changed(rec')
<1>0. /\ rec \in Reconciliation /\ rec.status \in Status /\ rec.gen \in Nat /\ rec.last \in Status
      /\ LocalInv(rec)
  BY RecFacts DEF AddonsInv, AddonsTypes, WorkerInv
<1> DEFINE status == [rec.status EXCEPT !.observed = rec.gen]
<1> DEFINE todo == orphanAddons(rec.last, status)
<1> DEFINE s == [rec EXCEPT !.status = status, !.todo = todo]
<1> DEFINE pc == afterRemoving(s)
<1> DEFINE r == [s EXCEPT !.pc = pc]
<1>1. /\ UNCHANGED <<CatalogVars, errors, crashes, faults>> /\ rec.pc = "status"
      /\ WriteStatus(status)
      /\ rec' = IF pc = "idle" THEN Idle ELSE r
  BY DEF updateAddonStatus, Resume, counters, store, serviceCatalog, CatalogVars, At
<1>2. rec.cfg \in Configs /\ ~rec.deleting
  BY <1>0, <1>1 DEF LocalInv, Processing
<1> DEFINE o == [conf[rec.cfg] EXCEPT !.status = status]
<1>3. Write(rec.cfg, o) /\ queue' = IF conf' = conf THEN queue \cup {rec.cfg} ELSE queue
  BY <1>1 DEF WriteStatus
<1>4. status \in Status /\ todo \subseteq Addons
  BY <1>0 DEF Status, orphanAddons, Listed
<1> HIDE DEF status, todo
<1>5. PICK w : w = o
  OBVIOUS
<1>6. Write(rec.cfg, w)
  BY <1>3, <1>5
<1>7. /\ conf[rec.cfg] # Nil /\ cache[rec.cfg] = conf[rec.cfg] /\ UNCHANGED cache
      /\ conf[rec.cfg] \in Configuration
      /\ conf'[rec.cfg] = w
      /\ \A d \in Configs : d # rec.cfg => conf'[d] = conf[d]
      /\ conf' = conf <=> w = conf[rec.cfg]
  BY <1>2, <1>6, WriteMoves
<1>8. /\ w \in Configuration /\ w.gen = conf[rec.cfg].gen /\ w.deleting = conf[rec.cfg].deleting
      /\ w.status = status
  BY <1>4, <1>5, <1>7 DEF Configuration
<1>9. /\ s \in Reconciliation /\ s.todo = todo /\ s.gone = rec.gone /\ s.saved = rec.saved
      /\ s.deleting = rec.deleting /\ s.gen = rec.gen /\ s.cfg = rec.cfg /\ s.last = rec.last
  BY <1>0, <1>4 DEF Reconciliation
<1> HIDE DEF s, o
<1>10. /\ pc \in {"remove", "broker", "idle"} /\ (pc # "remove" => todo = {})
       /\ pc = "idle" => ~Changed(rec)
  BY <1>2, <1>9 DEF afterRemoving, Changed
<1> HIDE DEF pc
<1>11. /\ r.pc = pc /\ r.todo = todo /\ r.gone = rec.gone /\ r.saved = rec.saved
       /\ r.deleting = rec.deleting /\ r.gen = rec.gen /\ r.cfg = rec.cfg /\ r.last = rec.last
  BY <1>9 DEF Reconciliation
<1> HIDE DEF r
<1>12. /\ queue \subseteq queue' /\ (conf'[rec.cfg] = conf[rec.cfg] => rec.cfg \in queue')
       /\ conf'[rec.cfg] # Nil
  BY <1>3, <1>7, <1>8, NilAssumption
<1>13. \/ rec' = Idle /\ ~Changed(rec) /\ todo = {}
       \/ /\ rec'.pc \in {"remove", "broker"}
          /\ SameRequest(rec, rec') /\ rec'.gen = rec.gen
          /\ rec'.todo = todo /\ (rec'.pc = "broker" => todo = {})
          /\ Changed(rec) => Changed(rec')
  BY <1>1, <1>10, <1>11 DEF SameRequest, Changed
<1> QED
  BY <1>1, <1>2, <1>7, <1>8, <1>12, <1>13 DEF status, todo

(* ReprocessRequest: another configuration has a new generation, which is  *)
(* an event.                                                               *)
LEMMA ReprocessMoves ==
  ASSUME AddonsInv, NEW d \in Configs, ReprocessRequest(d)
  PROVE  /\ UNCHANGED <<cache, queue, CatalogVars, errors, crashes, faults>>
         /\ rec.pc = "ask" /\ d # rec.cfg
         /\ conf[d] # Nil /\ conf'[d] # Nil /\ cache[d] # conf'[d]
         /\ conf'[d].gen # 0 /\ conf'[d].deleting = conf[d].deleting
         /\ conf'[d].status = conf[d].status
         /\ \A e \in Configs : e # d => conf'[e] = conf[e]
         /\ \/ rec' = Idle /\ ~rec.deleting
            \/ /\ rec'.pc \in {"ask", "remove", "broker", "unprotect"}
               /\ rec'.pc # "ask" => rec.deleting
               /\ SameRequest(rec, rec') /\ rec'.gen = rec.gen /\ rec'.todo = rec.todo
               /\ rec'.pc \in {"broker", "unprotect"} => rec.todo = {}
<1>0. rec \in Reconciliation /\ LocalInv(rec) /\ rec.deleting \in BOOLEAN
  BY RecFacts DEF AddonsInv, AddonsTypes, WorkerInv
<1> DEFINE o == [conf[d] EXCEPT !.gen = @ + 1]
<1> DEFINE ask == rec.ask \ {d}
<1> DEFINE s == [rec EXCEPT !.ask = ask]
<1> DEFINE pc == IF s.ask # {} THEN "ask" ELSE IF s.deleting THEN afterRemoving(s) ELSE "idle"
<1> DEFINE r == [s EXCEPT !.pc = pc]
<1>1. /\ UNCHANGED <<queue, CatalogVars, errors, crashes, faults>> /\ rec.pc = "ask"
      /\ d \in rec.ask /\ Write(d, o)
      /\ rec' = IF pc = "idle" THEN Idle ELSE r
  BY DEF ReprocessRequest, Resume, counters, store, serviceCatalog, CatalogVars, At
<1>2. d # rec.cfg
  BY <1>0, <1>1 DEF LocalInv
<1>3. PICK w : w = o
  OBVIOUS
<1>4. Write(d, w)
  BY <1>1, <1>3
<1>5. /\ conf[d] # Nil /\ cache[d] = conf[d] /\ UNCHANGED cache /\ conf[d] \in Configuration
      /\ conf'[d] = w /\ \A e \in Configs : e # d => conf'[e] = conf[e]
  BY <1>4, WriteMoves
<1>6. conf[d].gen \in Nat
  BY <1>5 DEF Configuration
<1>7. /\ w \in Configuration /\ w.gen = conf[d].gen + 1
      /\ w.deleting = conf[d].deleting /\ w.status = conf[d].status
  BY <1>3, <1>5, <1>6 DEF Configuration
<1> HIDE DEF o
<1>8. conf'[d] # Nil /\ conf'[d].gen # 0 /\ cache[d] # conf'[d]
  BY <1>5, <1>6, <1>7, NilAssumption
<1>9. ask \subseteq Configs
  BY <1>0, RecFacts
<1> HIDE DEF ask
<1>10. /\ s \in Reconciliation /\ s.ask = ask /\ s.todo = rec.todo
       /\ s.deleting = rec.deleting /\ s.gen = rec.gen /\ s.cfg = rec.cfg /\ s.last = rec.last
  BY <1>0, <1>9 DEF Reconciliation
<1> HIDE DEF s
<1>11. /\ pc \in {"ask", "remove", "broker", "unprotect", "idle"}
       /\ pc \notin {"ask", "idle"} => rec.deleting
       /\ pc = "idle" => ~rec.deleting
       /\ pc \in {"broker", "unprotect"} => rec.todo = {}
  BY <1>0, <1>10 DEF afterRemoving
<1> HIDE DEF pc
<1>12. /\ r.pc = pc /\ r.todo = rec.todo
       /\ r.deleting = rec.deleting /\ r.gen = rec.gen /\ r.cfg = rec.cfg /\ r.last = rec.last
  BY <1>10 DEF Reconciliation
<1> HIDE DEF r
<1>13. \/ rec' = Idle /\ ~rec.deleting
       \/ /\ rec'.pc \in {"ask", "remove", "broker", "unprotect"}
          /\ rec'.pc # "ask" => rec.deleting
          /\ SameRequest(rec, rec') /\ rec'.gen = rec.gen /\ rec'.todo = rec.todo
          /\ rec'.pc \in {"broker", "unprotect"} => rec.todo = {}
  BY <1>1, <1>11, <1>12 DEF SameRequest
<1> QED
  BY <1>1, <1>2, <1>5, <1>7, <1>8, <1>13

(* addFinalizer: the status stays.                                         *)
LEMMA ProtectMoves ==
  ASSUME AddonsInv, addFinalizer
  PROVE  /\ UNCHANGED <<cache, queue, CatalogVars, errors, crashes, faults>>
         /\ rec.pc = "protect" /\ rec.cfg \in Configs /\ ~rec.deleting
         /\ conf[rec.cfg] # Nil /\ cache[rec.cfg] = conf[rec.cfg] /\ conf'[rec.cfg] # Nil
         /\ conf'[rec.cfg].gen >= conf[rec.cfg].gen /\ conf[rec.cfg].gen \in Nat
         /\ conf'[rec.cfg].gen \in Nat
         /\ conf'[rec.cfg].deleting = conf[rec.cfg].deleting
         /\ conf'[rec.cfg].status = conf[rec.cfg].status
         /\ \A d \in Configs : d # rec.cfg => conf'[d] = conf[d]
         /\ rec'.pc = "pending" /\ rec'.gen = conf'[rec.cfg].gen /\ SameRequest(rec, rec')
<1>0. rec \in Reconciliation /\ LocalInv(rec) /\ AddonsTypes
  BY DEF AddonsInv, AddonsTypes, WorkerInv
<1> DEFINE o == Updated(conf[rec.cfg], TRUE)
<1>1. /\ UNCHANGED <<queue, CatalogVars, errors, crashes, faults>> /\ rec.pc = "protect"
      /\ Write(rec.cfg, o)
      /\ rec' = [rec EXCEPT !.pc = "pending", !.gen = o.gen]
  BY DEF addFinalizer, counters, store, serviceCatalog, CatalogVars, At
<1>2. rec.cfg \in Configs /\ ~rec.deleting
  BY <1>0, <1>1 DEF LocalInv, Processing
<1>3. PICK w : w = o
  OBVIOUS
<1>4. Write(rec.cfg, w)
  BY <1>1, <1>3
<1>5. /\ conf[rec.cfg] # Nil /\ cache[rec.cfg] = conf[rec.cfg] /\ UNCHANGED cache
      /\ conf[rec.cfg] \in Configuration
      /\ conf'[rec.cfg] = w /\ \A d \in Configs : d # rec.cfg => conf'[d] = conf[d]
  BY <1>2, <1>4, WriteMoves
<1>6. /\ w \in Configuration /\ w.status = conf[rec.cfg].status
      /\ w.deleting = conf[rec.cfg].deleting /\ w.gen \in Nat /\ w.gen >= conf[rec.cfg].gen
  BY <1>0, <1>3, <1>5, UpdatedFacts
<1>7. rec' = [rec EXCEPT !.pc = "pending", !.gen = w.gen]
  BY <1>1, <1>3
<1> HIDE DEF o
<1>8. /\ rec'.pc = "pending" /\ rec'.gen = w.gen
      /\ rec'.cfg = rec.cfg /\ rec'.deleting = rec.deleting /\ rec'.last = rec.last
  BY <1>0, <1>7 DEF Reconciliation
<1>9. conf[rec.cfg].gen \in Nat /\ w # Nil
  BY <1>5, <1>6, NilAssumption DEF Configuration
<1> QED
  BY <1>1, <1>2, <1>5, <1>6, <1>8, <1>9 DEF SameRequest

(* setPending: the configuration is Pending.                               *)
LEMMA PendingMoves ==
  ASSUME AddonsInv, setPending
  PROVE  /\ UNCHANGED <<cache, CatalogVars, errors, crashes, faults>>
         /\ rec.pc = "pending" /\ rec.cfg \in Configs /\ ~rec.deleting
         /\ conf[rec.cfg] # Nil /\ cache[rec.cfg] = conf[rec.cfg] /\ conf'[rec.cfg] # Nil
         /\ conf'[rec.cfg].gen = conf[rec.cfg].gen
         /\ conf'[rec.cfg].deleting = conf[rec.cfg].deleting
         /\ conf'[rec.cfg].status.phase = "Pending"
         /\ \A d \in Configs : d # rec.cfg => conf'[d] = conf[d]
         /\ queue \subseteq queue' /\ (conf'[rec.cfg] = conf[rec.cfg] => rec.cfg \in queue')
         /\ rec'.pc = "load" /\ rec'.gen = rec.gen /\ rec'.last.phase = "Pending"
         /\ rec'.cfg = rec.cfg /\ rec'.deleting = rec.deleting
<1>0. /\ rec \in Reconciliation /\ rec.status \in Status /\ rec.gen \in Nat
      /\ LocalInv(rec)
  BY RecFacts DEF AddonsInv, AddonsTypes, WorkerInv
<1> DEFINE status == [rec.status EXCEPT !.phase = "Pending", !.observed = rec.gen]
<1> DEFINE o == [conf[rec.cfg] EXCEPT !.status = status]
<1>1. /\ UNCHANGED <<CatalogVars, errors, crashes, faults>> /\ rec.pc = "pending"
      /\ Write(rec.cfg, o) /\ queue' = IF conf' = conf THEN queue \cup {rec.cfg} ELSE queue
      /\ rec' = [rec EXCEPT !.pc = "load", !.last = status, !.status = status]
  BY DEF setPending, WriteStatus, counters, store, serviceCatalog, CatalogVars, At
<1>2. rec.cfg \in Configs /\ ~rec.deleting
  BY <1>0, <1>1 DEF LocalInv, Processing
<1>3. status \in Status /\ status.phase = "Pending"
  BY <1>0 DEF Status, Phases
<1> HIDE DEF status
<1>4. PICK w : w = o
  OBVIOUS
<1>5. Write(rec.cfg, w)
  BY <1>1, <1>4
<1>6. /\ conf[rec.cfg] # Nil /\ cache[rec.cfg] = conf[rec.cfg] /\ UNCHANGED cache
      /\ conf[rec.cfg] \in Configuration
      /\ conf'[rec.cfg] = w /\ \A d \in Configs : d # rec.cfg => conf'[d] = conf[d]
      /\ conf' = conf <=> w = conf[rec.cfg]
  BY <1>2, <1>5, WriteMoves
<1>7. /\ w \in Configuration /\ w.gen = conf[rec.cfg].gen /\ w.deleting = conf[rec.cfg].deleting
      /\ w.status = status
  BY <1>3, <1>4, <1>6 DEF Configuration
<1> HIDE DEF o
<1>8. /\ rec'.pc = "load" /\ rec'.gen = rec.gen /\ rec'.last = status
      /\ rec'.cfg = rec.cfg /\ rec'.deleting = rec.deleting
  BY <1>0, <1>1 DEF Reconciliation
<1>9. /\ queue \subseteq queue' /\ (conf'[rec.cfg] = conf[rec.cfg] => rec.cfg \in queue')
      /\ conf'[rec.cfg] # Nil
  BY <1>1, <1>6, <1>7, NilAssumption
<1> QED
  BY <1>1, <1>2, <1>3, <1>6, <1>7, <1>8, <1>9

(* deleteFinalizer: a configuration that is being deleted is gone.         *)
LEMMA UnprotectMoves ==
  ASSUME AddonsInv, deleteFinalizer
  PROVE  /\ UNCHANGED <<cache, queue, CatalogVars, errors, crashes, faults>>
         /\ rec.pc = "unprotect" /\ rec.cfg \in Configs /\ rec.deleting /\ rec' = Idle
         /\ conf[rec.cfg] # Nil /\ (conf[rec.cfg].deleting => conf'[rec.cfg] = Nil)
         /\ \A d \in Configs : d # rec.cfg => conf'[d] = conf[d]
<1>0. rec \in Reconciliation /\ LocalInv(rec)
  BY DEF AddonsInv, AddonsTypes, WorkerInv
<1>1. PICK w : /\ Write(rec.cfg, w)
               /\ w = IF conf[rec.cfg].deleting THEN Nil ELSE Updated(conf[rec.cfg], FALSE)
  BY DEF deleteFinalizer
<1>2. /\ UNCHANGED <<queue, CatalogVars, errors, crashes, faults>> /\ rec.pc = "unprotect"
      /\ rec' = Idle
  BY DEF deleteFinalizer, End, counters, store, serviceCatalog, CatalogVars, At
<1>3. rec.cfg \in Configs /\ rec.deleting
  BY <1>0, <1>2 DEF LocalInv
<1>4. /\ conf[rec.cfg] # Nil /\ UNCHANGED cache
      /\ conf'[rec.cfg] = w /\ \A d \in Configs : d # rec.cfg => conf'[d] = conf[d]
  BY <1>1, <1>3, WriteMoves
<1> QED
  BY <1>1, <1>2, <1>3, <1>4

(* reportFetchingError and NotFound: the request is queued again.          *)
LEMMA RetryMoves ==
  ASSUME AddonsInv, reportFetchingError \/ NotFound
  PROVE  /\ UNCHANGED <<cache, CatalogVars, errors, crashes, faults>>
         /\ rec.pc \in {"protect", "pending", "report", "status", "ask", "unprotect"}
         /\ rec' = Idle /\ queue' = queue \cup {rec.cfg}
         /\ rec.pc # "report" => UNCHANGED conf
         /\ rec.pc = "status" => cache[rec.cfg] = Nil \/ conf[rec.cfg] = Nil
<1>1. CASE reportFetchingError
  BY <1>1 DEF reportFetchingError, Write, Retry, counters, store, serviceCatalog, CatalogVars, At
<1>2. CASE NotFound
  BY <1>2 DEF NotFound, Retry, counters, store, serviceCatalog, CatalogVars, At
<1> QED
  BY <1>1, <1>2

(* Users: a configuration is new and has not been processed, has another   *)
(* generation, is being deleted, or is gone if nothing protects it.        *)
UserChange(o, p) ==
  \/ p = o
  \/ /\ o = Nil /\ p # Nil /\ p.gen = 1 /\ ~p.deleting /\ p.status = NewStatus
  \/ /\ o # Nil /\ p # Nil /\ p.gen = o.gen + 1 /\ ~o.deleting /\ ~p.deleting
     /\ p.status = o.status
  \/ /\ o # Nil /\ p # Nil /\ p.gen = o.gen /\ o.finalizer /\ ~o.deleting /\ p.deleting
     /\ p.status = o.status
  \/ /\ o # Nil /\ p = Nil /\ ~o.finalizer /\ ~o.deleting

LEMMA UserMoves ==
  ASSUME AddonsInv, UserStep
  PROVE  /\ UNCHANGED <<cache, queue, rec, CatalogVars, errors, crashes, faults>>
         /\ \A c \in Configs : UserChange(conf[c], conf'[c])
<1>0. AddonsTypes /\ conf \in [Configs -> Configuration \cup {Nil}]
  BY DEF AddonsInv, AddonsTypes
<1>1. UNCHANGED <<cache, queue, rec, CatalogVars, errors, crashes, faults>>
  BY DEF UserStep, Create, Edit, Delete, CatalogVars, store, serviceCatalog
<1>2. ASSUME NEW c \in Configs, NEW spec \in Specs, Create(c, spec), NEW d \in Configs
      PROVE  UserChange(conf[d], conf'[d])
  <2> DEFINE o == [gen |-> 1, spec |-> spec, deleting |-> FALSE,
                   finalizer |-> FALSE, status |-> NewStatus]
  <2>1. o \in Configuration /\ o.gen = 1 /\ o.deleting = FALSE /\ o.status = NewStatus
    BY NewStatusFacts, ConstantsAssumption DEF Configuration
  <2>2. conf[c] = Nil /\ conf' = [conf EXCEPT ![c] = o]
    BY <1>2 DEF Create
  <2> HIDE DEF o
  <2> QED
    BY <1>0, <2>1, <2>2, NilAssumption DEF UserChange
<1>3. ASSUME NEW c \in Configs, NEW spec \in Specs, Edit(c, spec), NEW d \in Configs
      PROVE  UserChange(conf[d], conf'[d])
  <2> DEFINE o == [conf[c] EXCEPT !.spec = spec, !.gen = @ + 1]
  <2>1. conf[c] \in Configuration /\ conf[c] # Nil /\ ~conf[c].deleting
    BY <1>0, <1>3, ConfFacts DEF Edit
  <2>2. spec \subseteq Addons /\ conf[c].gen \in Nat /\ conf[c].gen + 1 \in Nat
    BY <2>1, ConstantsAssumption DEF Configuration
  <2>3. /\ o \in Configuration /\ o.status = conf[c].status
        /\ o.deleting = conf[c].deleting /\ o.gen = conf[c].gen + 1
    BY <2>1, <2>2 DEF Configuration
  <2>4. conf' = [conf EXCEPT ![c] = o]
    BY <1>0, <1>3, <2>1 DEF Edit
  <2> HIDE DEF o
  <2> QED
    BY <1>0, <2>1, <2>3, <2>4, NilAssumption DEF UserChange
<1>4. ASSUME NEW c \in Configs, Delete(c), NEW d \in Configs
      PROVE  UserChange(conf[d], conf'[d])
  <2>1. conf[c] \in Configuration /\ conf[c] # Nil /\ ~conf[c].deleting
    BY <1>0, <1>4, ConfFacts DEF Delete
  <2> DEFINE o == [conf[c] EXCEPT !.deleting = TRUE]
  <2>2. /\ o \in Configuration /\ o.status = conf[c].status
        /\ o.deleting /\ o.gen = conf[c].gen
    BY <2>1 DEF Configuration
  <2>3. conf' = [conf EXCEPT ![c] = IF conf[c].finalizer THEN o ELSE Nil]
    BY <1>0, <1>4 DEF Delete
  <2> HIDE DEF o
  <2> QED
    BY <1>0, <2>1, <2>2, <2>3, NilAssumption DEF UserChange
<1>5. \A c \in Configs : UserChange(conf[c], conf'[c])
  BY <1>2, <1>3, <1>4 DEF UserStep
<1> QED
  BY <1>1, <1>5

-----------------------------------------------------------------------------
(* Service Catalog has been told.                                          *)

CountersInv == errors \in Nat /\ crashes \in Nat /\ faults \in Nat

(* Once the finalizer is there, the cache has some version of the          *)
(* configuration, too: OnAdd finds it when it writes the status.           *)
PresentInv == rec.pc \in Protected => cache[rec.cfg] # Nil

(* From the first change of what is stored until Sync.                     *)
Changing == {"save", "status", "remove", "broker"}

(* What Service Catalog was told last is what is stored, or the worker has *)
(* counted a change and is on the way to Sync.                             *)
CatalogInv ==
  broker = "listed" => catalog = stored \/ (rec.pc \in Changing /\ Changed(rec))

(* The counters count.                                                     *)
LEMMA CountersKeep ==
  ASSUME CountersInv, [Next]_vars
  PROVE  /\ CountersInv'
         /\ errors' = 0 => errors = 0
         /\ crashes' = 0 => crashes = 0
         /\ faults' = 0 => faults = 0
         /\ FailureStep => crashes' # 0 \/ faults' # 0
<1>1. CASE FailureStep
  <2>1. /\ UNCHANGED errors
        /\ \/ UNCHANGED crashes /\ faults' = faults + 1
           \/ UNCHANGED faults /\ crashes' = crashes + 1
    <3>1. ASSUME NEW a \in Addons, RegisteringError(a) \/ RemovalFails(a)
          PROVE  UNCHANGED <<errors, crashes>> /\ faults' = faults + 1
      BY <3>1 DEF RegisteringError, RemovalFails, Fault
    <3>2. CallFails => UNCHANGED <<errors, crashes>> /\ faults' = faults + 1
      BY DEF CallFails, Fault
    <3>3. Crash => UNCHANGED <<errors, faults>> /\ crashes' = crashes + 1
      BY DEF Crash
    <3> QED
      BY <1>1, <3>1, <3>2, <3>3 DEF FailureStep
  <2> QED
    BY <2>1 DEF CountersInv
<1>2. CASE UNCHANGED <<errors, crashes, faults>>
  BY <1>2, <1>1 DEF CountersInv
<1>3. CASE loadRepositories
  <2>1. UNCHANGED <<crashes, faults>> /\ (errors' = errors \/ errors' = errors + 1)
    BY <1>3 DEF loadRepositories
  <2> QED
    BY <1>1, <2>1 DEF CountersInv
<1>4. UserStep => UNCHANGED <<errors, crashes, faults>>
  BY DEF UserStep, Create, Edit, Delete
<1>5. (\E c \in Configs : Deliver(c) \/ Reconcile(c)) => UNCHANGED <<errors, crashes, faults>>
  BY DEF Deliver, Reconcile, counters
<1>6. WorkerStep => loadRepositories \/ UNCHANGED <<errors, crashes, faults>>
  BY DEF WorkerStep, addFinalizer, setPending, reportFetchingError, reviseAddonDuplication,
         updateAddonStatus, saveAddon, removeAddon, listOnDelete, deleteFinalizer,
         ensureBroker, ReprocessRequest, NotFound, counters
<1>7. CreateBroker \/ DeleteBroker \/ Relist => UNCHANGED <<errors, crashes, faults>>
  BY DEF CreateBroker, DeleteBroker, Relist, counters
<1>8. UNCHANGED vars => UNCHANGED <<errors, crashes, faults>>
  BY DEF vars, counters
<1> QED
  BY <1>1, <1>2, <1>3, <1>4, <1>5, <1>6, <1>7, <1>8 DEF Next

(* The configuration a worker has protected stays in the cache.            *)
LEMMA PresentKeeps ==
  ASSUME AddonsInv, PresentInv, [Next]_vars
  PROVE  PresentInv'
<1>0. FinalizerInv(rec) /\ AddonsTypes
  BY DEF AddonsInv, WorkerInv
<1>1. ASSUME NEW c \in Configs, Deliver(c) PROVE PresentInv'
  BY <1>0, <1>1 DEF Deliver, PresentInv, FinalizerInv, AddonsTypes
<1>2. ASSUME NEW c \in Configs, Reconcile(c) PROVE PresentInv'
  BY <1>2, ReconcileMoves, IdleFacts DEF PresentInv, Protected
<1>3. CASE rec'.pc \notin Protected
  BY <1>3 DEF PresentInv
<1>4. CASE UNCHANGED cache /\ rec.pc \in Protected /\ rec'.cfg = rec.cfg
  BY <1>4 DEF PresentInv
<1>5. CASE UNCHANGED <<cache, rec>>
  BY <1>5 DEF PresentInv
<1>6. CASE UserStep
  BY <1>5, <1>6, UserMoves
<1>7. CASE WorkerStep
  <2>1. CASE addFinalizer
    BY <2>1, ProtectMoves DEF PresentInv, SameRequest
  <2>2. CASE setPending
    BY <1>4, <2>2, PendingMoves DEF Protected
  <2>3. CASE loadRepositories
    BY <1>4, <2>3, LoadMoves DEF Protected, SameRequest
  <2>4. CASE reviseAddonDuplication
    BY <1>4, <2>4, ReviseMoves DEF Protected, SameRequest
  <2>5. ASSUME NEW a \in Addons, saveAddon(a) PROVE PresentInv'
    BY <1>4, <2>5, SaveMoves DEF Protected, SameRequest
  <2>6. ASSUME NEW a \in Addons, removeAddon(a) PROVE PresentInv'
    BY <1>3, <2>6, RemoveMoves DEF Protected
  <2>7. CASE updateAddonStatus
    BY <1>3, <2>7, UpdateStatusMoves, IdleFacts DEF Protected
  <2>8. CASE listOnDelete
    BY <1>3, <2>8, ListMoves DEF Protected
  <2>9. CASE deleteFinalizer \/ reportFetchingError \/ NotFound
    BY <1>3, <2>9, UnprotectMoves, RetryMoves, IdleFacts DEF Protected
  <2>10. CASE ensureBroker
    BY <1>3, <2>10, EnsureBrokerMoves, IdleFacts DEF Protected
  <2>11. ASSUME NEW d \in Configs, ReprocessRequest(d) PROVE PresentInv'
    BY <1>3, <2>11, ReprocessMoves, IdleFacts DEF Protected
  <2> QED
    BY <1>7, <2>1, <2>2, <2>3, <2>4, <2>5, <2>6, <2>7, <2>8, <2>9, <2>10, <2>11 DEF WorkerStep
<1>8. CASE FailureStep
  <2>1. ASSUME NEW a \in Addons, RegisteringError(a) PROVE PresentInv'
    <3>1. rec \in Reconciliation /\ rec.pc = "save" /\ UNCHANGED cache
      BY <2>1 DEF AddonsInv, AddonsTypes, RegisteringError, At
    <3>2. rec'.cfg = rec.cfg
      BY <2>1, <3>1 DEF RegisteringError, Reconciliation
    <3> QED
      BY <1>4, <3>1, <3>2 DEF Protected
  <2>2. CASE CallFails \/ Crash \/ \E a \in Addons : RemovalFails(a)
    BY <1>3, <2>2, IdleFacts DEF CallFails, Crash, RemovalFails, Retry, Protected
  <2> QED
    BY <1>8, <2>1, <2>2 DEF FailureStep
<1>9. CASE CreateBroker \/ DeleteBroker \/ Relist \/ UNCHANGED vars
  BY <1>5, <1>9 DEF CreateBroker, DeleteBroker, Relist, vars
<1> QED
  BY <1>1, <1>2, <1>6, <1>7, <1>8, <1>9 DEF Next

(* Without a failed call or a restart, the worker gets from a change to    *)
(* Sync: it finds the configuration it has protected.                      *)
LEMMA CatalogKeeps ==
  ASSUME AddonsInv, PresentInv, CatalogInv, [Next]_vars, ~FailureStep
  PROVE  CatalogInv'
<1>0. FinalizerInv(rec)
  BY DEF AddonsInv, WorkerInv
<1>1. CASE UNCHANGED CatalogVars /\ rec.pc \notin Changing
  BY <1>1 DEF CatalogInv, CatalogVars
<1>2. CASE UNCHANGED <<CatalogVars, rec>>
  BY <1>2 DEF CatalogInv, CatalogVars
<1>3. CASE UserStep
  BY <1>2, <1>3, UserMoves
<1>4. ASSUME NEW c \in Configs, Deliver(c) \/ Reconcile(c) PROVE CatalogInv'
  <2>1. CASE Deliver(c)
    BY <1>2, <2>1 DEF Deliver, CatalogVars, store, serviceCatalog
  <2>2. CASE Reconcile(c)
    BY <1>1, <2>2, ReconcileMoves, IdleFacts DEF Changing
  <2> QED
    BY <1>4, <2>1, <2>2
<1>5. CASE WorkerStep
  <2>1. CASE addFinalizer \/ setPending \/ loadRepositories \/ reviseAddonDuplication
             \/ listOnDelete \/ deleteFinalizer
    BY <1>1, <2>1, ProtectMoves, PendingMoves, LoadMoves, ReviseMoves, ListMoves, UnprotectMoves
       DEF Changing
  <2>2. CASE reportFetchingError \/ NotFound
    <3>1. rec.pc # "status"
      BY <1>0, <2>2, RetryMoves DEF FinalizerInv, PresentInv, Protected
    <3> QED
      BY <1>1, <2>2, <3>1, RetryMoves DEF Changing
  <2>3. ASSUME NEW a \in Addons, saveAddon(a) PROVE CatalogInv'
    BY <2>3, SaveMoves DEF CatalogInv, Changed, Changing
  <2>4. ASSUME NEW a \in Addons, removeAddon(a) PROVE CatalogInv'
    <3>1. /\ UNCHANGED <<broker, catalog>> /\ stored' = stored \ {a}
          /\ rec'.pc \in {"remove", "broker", "unprotect"}
          /\ Changed(rec) \/ a \in stored => Changed(rec')
          /\ rec'.pc = "unprotect" => ~Changed(rec')
      BY <2>4, RemoveMoves
    <3>2. CASE Changed(rec')
      BY <3>1, <3>2 DEF CatalogInv, Changing
    <3>3. CASE ~Changed(rec')
      BY <3>1, <3>3 DEF CatalogInv
    <3> QED
      BY <3>2, <3>3
  <2>5. CASE updateAddonStatus
    <3>1. /\ UNCHANGED CatalogVars
          /\ \/ ~Changed(rec)
             \/ rec'.pc \in {"remove", "broker"} /\ Changed(rec')
      BY <2>5, UpdateStatusMoves
    <3> QED
      BY <3>1 DEF CatalogInv, CatalogVars, Changing
  <2>6. CASE ensureBroker
    BY <2>6, EnsureBrokerMoves DEF CatalogInv
  <2>7. ASSUME NEW d \in Configs, ReprocessRequest(d) PROVE CatalogInv'
    BY <1>1, <2>7, ReprocessMoves DEF Changing
  <2> QED
    BY <1>5, <2>1, <2>2, <2>3, <2>4, <2>5, <2>6, <2>7 DEF WorkerStep
<1>6. CASE CreateBroker \/ DeleteBroker \/ Relist
  BY <1>6 DEF CreateBroker, DeleteBroker, Relist, CatalogInv, store
<1>7. CASE UNCHANGED vars
  BY <1>2, <1>7 DEF vars, CatalogVars, store, serviceCatalog
<1> QED
  BY <1>3, <1>4, <1>5, <1>6, <1>7 DEF Next

(* The invariant: for every freshness of the cache.                        *)
ToldInv ==
  CountersInv /\ PresentInv /\ (crashes = 0 /\ faults = 0 => CatalogInv)

LEMMA Addons_Told == Spec => []ToldInv
<1>1. Init => ToldInv
  <2>1. Init => CountersInv
    BY DEF Init, CountersInv
  <2>2. Init => PresentInv /\ CatalogInv
    BY IdleFacts DEF Init, PresentInv, CatalogInv, Protected
  <2> QED
    BY <2>1, <2>2 DEF ToldInv
<1>2. AddonsInv /\ ToldInv /\ [Next]_vars => ToldInv'
  <2> SUFFICES ASSUME AddonsInv, ToldInv, [Next]_vars PROVE ToldInv'
    OBVIOUS
  <2>1. CountersInv /\ PresentInv /\ (crashes = 0 /\ faults = 0 => CatalogInv)
    BY DEF ToldInv
  <2>2. /\ CountersInv'
        /\ crashes' = 0 => crashes = 0
        /\ faults' = 0 => faults = 0
        /\ FailureStep => crashes' # 0 \/ faults' # 0
    BY <2>1, CountersKeep
  <2>3. PresentInv'
    BY <2>1, PresentKeeps
  <2>4. crashes' = 0 /\ faults' = 0 => CatalogInv'
    BY <2>1, <2>2, CatalogKeeps
  <2> QED
    BY <2>2, <2>3, <2>4 DEF ToldInv
<1> QED
  BY <1>1, <1>2, Addons_Invariant, PTL DEF Spec

(* Once all is settled, Service Catalog has been told of what is stored:   *)
(* saving and removing are counted on the way to Sync, and OnAdd does not  *)
(* lose the configuration in between, however late the cache is.           *)
THEOREM Addons_CatalogCurrent == Spec => []CatalogCurrent
<1>1. ToldInv => CatalogCurrent
  BY IdleFacts DEF ToldInv, CatalogInv, CatalogCurrent, Quiescent, Undisturbed, Changing
<1> QED
  BY <1>1, Addons_Told, PTL

-----------------------------------------------------------------------------
(* What is stored is offered.                                              *)

(* The informer or the worker will come to it.                             *)
Attended(c) == c \in queue \/ cache[c] # conf[c] \/ (rec.deleting /\ rec.cfg = c)

(* A Ready configuration is not taken for a new one, and one that is being *)
(* deleted is not forgotten.                                               *)
ConfsInv ==
  \A c \in Configs : conf[c] # Nil =>
    /\ conf[c].gen # 0
    /\ IsReady(c) => conf[c].status.observed # 0
    /\ conf[c].deleting => Attended(c)

(* The status the worker has read is still that of the configuration, as   *)
(* far as it is Ready: what it registers and removes is all there is.      *)
LastInv(r) ==
  /\ r.pc # "idle" => r.gen # 0
  /\ r.pc # "report"
  /\ r.pc \in Processing \/ r.deleting =>
       IF r.last.phase = "Ready" THEN conf[r.cfg] # Nil /\ conf[r.cfg].status = r.last
                                 ELSE ~IsReady(r.cfg)
  /\ r.pc \in {"protect", "pending"} => r.last.phase # "Ready"
  /\ r.pc = "save" => r.todo \subseteq r.status.ready
  /\ r.pc = "status" => r.status.phase \in {"Ready", "Failed"}
  /\ r.deleting => conf[r.cfg] # Nil /\ conf[r.cfg].deleting
  /\ r.deleting /\ r.last.phase = "Ready" /\ r.pc \in Releasing =>
       r.last.ready \cap stored \subseteq r.todo
  /\ r.pc = "unprotect" => r.todo = {}

(* Stored is what some Ready configuration offers, what the status to come *)
(* will offer, and what is to be removed.                                  *)
Held(r) ==
  IF r.pc = "remove" THEN r.todo
  ELSE IF r.pc \in {"save", "status"} /\ r.status.phase = "Ready" THEN r.status.ready ELSE {}

OfferedBy(c, a) == IsReady(c) /\ a \in conf[c].status.ready

OwnedInv == \A a \in stored : a \in Held(rec) \/ \E c \in Configs : OfferedBy(c, a)

SettledInv == ConfsInv /\ LastInv(rec) /\ OwnedInv

(* The worker moves on while configurations and storage stay: what it holds *)
(* it goes on holding, and it does not drop one that is being deleted.     *)
LEMMA RecSettles ==
  ASSUME SettledInv, UNCHANGED <<conf, cache, stored>>, queue \subseteq queue',
         rec.deleting => rec'.deleting /\ rec'.cfg = rec.cfg,
         LastInv(rec)', Held(rec) \subseteq Held(rec)'
  PROVE  SettledInv'
<1>1. \A c \in Configs : IsReady(c)' <=> IsReady(c)
  BY DEF IsReady
<1>2. ConfsInv'
  BY <1>1 DEF SettledInv, ConfsInv, Attended
<1>3. OwnedInv'
  BY <1>1 DEF SettledInv, OwnedInv, OfferedBy
<1> QED
  BY <1>2, <1>3 DEF SettledInv

(* Reconcile reads what is there.                                          *)
LEMMA ReconcileSettles ==
  ASSUME AddonsInv, SettledInv, "get" \in Fresh, NEW c \in Configs, Reconcile(c)
  PROVE  SettledInv'
<1>1. /\ UNCHANGED <<conf, cache, stored>> /\ rec = Idle /\ queue' = queue \ {c}
      /\ conf[c] # Nil /\ cache[c] = conf[c]
      /\ \/ rec' = Idle /\ ~conf[c].deleting
         \/ /\ rec'.pc \in {"list", "unprotect", "protect", "load"}
            /\ rec'.cfg = c /\ rec'.gen = conf[c].gen
            /\ rec'.deleting = conf[c].deleting /\ rec'.last = conf[c].status
            /\ rec'.todo = {}
            /\ rec'.pc \in {"list", "unprotect"} <=> conf[c].deleting
            /\ rec'.pc = "unprotect" => conf[c].status.phase # "Ready"
            /\ rec'.pc = "protect" => IsReadyForInitialProcessing(conf[c])
  BY ReconcileMoves DEF CatalogVars
<1>2. \A d \in Configs : IsReady(d)' <=> IsReady(d)
  BY <1>1 DEF IsReady
<1>3. ConfsInv'
  BY <1>1, <1>2, IdleFacts DEF SettledInv, ConfsInv, Attended
<1>4. OwnedInv'
  BY <1>1, <1>2, IdleFacts DEF SettledInv, OwnedInv, OfferedBy, Held
<1>5. LastInv(rec)'
  <2>1. CASE rec' = Idle
    BY <2>1, IdleFacts DEF LastInv, Processing
  <2>2. CASE rec' # Idle
    <3>1. conf[c].gen # 0 /\ (IsReady(c) => conf[c].status.observed # 0)
      BY <1>1 DEF SettledInv, ConfsInv
    <3>2. rec'.pc = "protect" => rec'.last.phase # "Ready"
      BY <1>1, <2>2, <3>1 DEF IsReadyForInitialProcessing, IsReady
    <3>3. IsReady(c)' <=> rec'.last.phase = "Ready"
      BY <1>1, <2>2 DEF IsReady
    <3> QED
      BY <1>1, <2>2, <3>1, <3>2, <3>3 DEF LastInv, Releasing, Processing
  <2> QED
    BY <2>1, <2>2
<1> QED
  BY <1>3, <1>4, <1>5 DEF SettledInv

(* OnAdd without errors: nothing is given up before the status is written. *)
LEMMA OnAddSettles ==
  ASSUME AddonsInv, SettledInv, CountersInv,
         (loadRepositories /\ errors' = 0) \/ reviseAddonDuplication
  PROVE  SettledInv'
<1>0. LocalInv(rec)
  BY DEF AddonsInv, WorkerInv
<1>1. CASE loadRepositories /\ errors' = 0
  <2>1. /\ UNCHANGED <<conf, cache, queue, stored>> /\ rec.pc = "load" /\ rec'.pc = "revise"
        /\ rec'.cfg = rec.cfg /\ rec'.deleting = rec.deleting /\ rec'.last = rec.last
        /\ rec'.gen = rec.gen
    BY <1>1, LoadMoves DEF SameRequest, CatalogVars, CountersInv
  <2>2. IsReady(rec.cfg)' <=> IsReady(rec.cfg)
    BY <2>1 DEF IsReady
  <2>3. LastInv(rec)'
    BY <2>1, <2>2 DEF SettledInv, LastInv, Processing, Releasing
  <2>4. Held(rec) = {}
    BY <2>1 DEF Held
  <2> QED
    BY <2>1, <2>3, <2>4, RecSettles
<1>2. CASE reviseAddonDuplication
  <2>1. /\ UNCHANGED <<conf, cache, queue, stored>> /\ rec.pc = "revise"
        /\ rec'.pc \in {"save", "status"}
        /\ rec'.cfg = rec.cfg /\ rec'.deleting = rec.deleting /\ rec'.last = rec.last
        /\ rec'.gen = rec.gen
        /\ rec'.status.phase \in {"Ready", "Failed"} /\ rec'.todo \subseteq rec'.status.ready
    BY <1>2, ReviseMoves DEF SameRequest, CatalogVars
  <2>2. IsReady(rec.cfg)' <=> IsReady(rec.cfg)
    BY <2>1 DEF IsReady
  <2>3. LastInv(rec)'
    BY <2>1, <2>2 DEF SettledInv, LastInv, Processing, Releasing
  <2>4. Held(rec) = {}
    BY <2>1 DEF Held
  <2> QED
    BY <2>1, <2>3, <2>4, RecSettles
<1> QED
  BY <1>1, <1>2

(* saveAddon: what is saved is in the status to come.                      *)
LEMMA SaveSettles ==
  ASSUME AddonsInv, SettledInv, NEW a \in Addons, saveAddon(a)
  PROVE  SettledInv'
<1>0. LocalInv(rec)
  BY DEF AddonsInv, WorkerInv
<1>1. /\ UNCHANGED <<conf, cache, queue>> /\ stored' = stored \cup {a} /\ a \in rec.todo
      /\ rec.pc = "save" /\ rec'.pc \in {"save", "status"}
      /\ rec'.cfg = rec.cfg /\ rec'.deleting = rec.deleting /\ rec'.last = rec.last
      /\ rec'.gen = rec.gen /\ rec'.status = rec.status /\ rec'.todo = rec.todo \ {a}
  BY SaveMoves DEF SameRequest
<1>2. rec.status.phase = "Ready" /\ ~rec.deleting
  BY <1>0, <1>1 DEF LocalInv, Processing
<1>3. \A d \in Configs : IsReady(d)' <=> IsReady(d)
  BY <1>1 DEF IsReady
<1>4. IsReady(rec.cfg)' <=> IsReady(rec.cfg)
  BY <1>1 DEF IsReady
<1>5. ConfsInv'
  BY <1>1, <1>3 DEF SettledInv, ConfsInv, Attended
<1>6. LastInv(rec)'
  BY <1>1, <1>2, <1>4 DEF SettledInv, LastInv, Processing
<1>7. OwnedInv'
  <2>1. a \in rec.status.ready
    BY <1>1 DEF SettledInv, LastInv
  <2>2. Held(rec) = rec.status.ready /\ Held(rec)' = rec.status.ready
    BY <1>1, <1>2 DEF Held
  <2> QED
    BY <1>1, <1>3, <2>1, <2>2 DEF SettledInv, OwnedInv, OfferedBy
<1> QED
  BY <1>5, <1>6, <1>7 DEF SettledInv

(* listOnDelete: all the configuration offers is to be removed.            *)
LEMMA ListSettles ==
  ASSUME AddonsInv, SettledInv, listOnDelete
  PROVE  SettledInv'
<1>1. /\ UNCHANGED <<conf, cache, queue, stored>> /\ rec.pc = "list"
      /\ rec'.pc \in {"ask", "remove", "broker", "unprotect"}
      /\ rec'.cfg = rec.cfg /\ rec'.deleting = rec.deleting /\ rec'.last = rec.last
      /\ rec'.gen = rec.gen /\ rec'.todo = Listed(rec.last)
      /\ rec'.pc \in {"broker", "unprotect"} => rec'.todo = {}
  BY ListMoves DEF SameRequest, CatalogVars
<1>2. IsReady(rec.cfg)' <=> IsReady(rec.cfg)
  BY <1>1 DEF IsReady
<1>3. rec.last.ready \subseteq rec'.todo
  BY <1>1 DEF Listed
<1>4. LastInv(rec)'
  BY <1>1, <1>2, <1>3 DEF SettledInv, LastInv, Processing
<1>5. Held(rec) = {}
  BY <1>1 DEF Held
<1> QED
  BY <1>1, <1>4, <1>5, RecSettles

(* ensureBroker: all is removed.                                           *)
LEMMA EnsureBrokerSettles ==
  ASSUME AddonsInv, SettledInv, ensureBroker
  PROVE  SettledInv'
<1>0. LocalInv(rec)
  BY DEF AddonsInv, WorkerInv
<1>1. /\ UNCHANGED <<conf, cache, queue, stored>> /\ rec.pc = "broker"
      /\ \/ rec' = Idle /\ ~rec.deleting
         \/ /\ rec'.pc \in {"ask", "unprotect"}
            /\ rec'.pc = "unprotect" <=> rec.deleting
            /\ rec'.cfg = rec.cfg /\ rec'.deleting = rec.deleting /\ rec'.last = rec.last
            /\ rec'.gen = rec.gen /\ rec'.todo = rec.todo
  BY EnsureBrokerMoves DEF SameRequest
<1>2. rec.todo = {}
  BY <1>0, <1>1 DEF LocalInv
<1>3. Held(rec) = {}
  BY <1>1 DEF Held
<1>4. CASE rec' = Idle
  <2>1. LastInv(rec)'
    BY <1>4, IdleFacts DEF LastInv, Processing
  <2> QED
    BY <1>1, <1>3, <1>4, <2>1, IdleFacts, RecSettles
<1>5. CASE rec' # Idle
  <2>1. IsReady(rec.cfg)' <=> IsReady(rec.cfg)
    BY <1>1, <1>5 DEF IsReady
  <2>2. LastInv(rec)'
    BY <1>1, <1>2, <1>5, <2>1 DEF SettledInv, LastInv, Processing, Releasing
  <2> QED
    BY <1>1, <1>3, <1>5, <2>2, RecSettles
<1> QED
  BY <1>4, <1>5

(* removeAddon: what is removed is held no longer.                         *)
LEMMA RemoveSettles ==
  ASSUME AddonsInv, SettledInv, NEW a \in Addons, removeAddon(a)
  PROVE  SettledInv'
<1>1. /\ UNCHANGED <<conf, cache, queue>> /\ stored' = stored \ {a}
      /\ rec.pc = "remove" /\ rec'.pc \in {"remove", "broker", "unprotect"}
      /\ rec'.cfg = rec.cfg /\ rec'.deleting = rec.deleting /\ rec'.last = rec.last
      /\ rec'.gen = rec.gen /\ rec'.todo = rec.todo \ {a}
      /\ rec'.pc # "remove" => rec'.todo = {}
  BY RemoveMoves DEF SameRequest
<1>2. \A d \in Configs : IsReady(d)' <=> IsReady(d)
  BY <1>1 DEF IsReady
<1>3. IsReady(rec.cfg)' <=> IsReady(rec.cfg)
  BY <1>1 DEF IsReady
<1>4. ConfsInv'
  BY <1>1, <1>2 DEF SettledInv, ConfsInv, Attended
<1>5. LastInv(rec)'
  <2>1. /\ rec.deleting => conf[rec.cfg] # Nil /\ conf[rec.cfg].deleting
        /\ rec.deleting => IF rec.last.phase = "Ready"
                             THEN conf[rec.cfg] # Nil /\ conf[rec.cfg].status = rec.last
                             ELSE ~IsReady(rec.cfg)
        /\ rec.deleting /\ rec.last.phase = "Ready" => rec.last.ready \cap stored \subseteq rec.todo
        /\ rec.gen # 0
    BY <1>1 DEF SettledInv, LastInv, Releasing
  <2>2. rec.deleting /\ rec.last.phase = "Ready" =>
          rec.last.ready \cap stored' \subseteq rec.todo \ {a}
    BY <1>1, <2>1
  <2> QED
    BY <1>1, <1>3, <2>1, <2>2 DEF LastInv, Processing
<1>6. OwnedInv'
  <2>1. Held(rec) = rec.todo /\ Held(rec)' = rec.todo \ {a}
    BY <1>1 DEF Held
  <2> QED
    BY <1>1, <1>2, <2>1 DEF SettledInv, OwnedInv, OfferedBy
<1> QED
  BY <1>4, <1>5, <1>6 DEF SettledInv

(* NotFound: never when a status is to be written, so that nothing is held. *)
LEMMA NotFoundSettles ==
  ASSUME AddonsInv, PresentInv, SettledInv, NotFound
  PROVE  SettledInv'
<1>0. FinalizerInv(rec)
  BY DEF AddonsInv, WorkerInv
<1>1. /\ UNCHANGED <<cache, stored>> /\ rec' = Idle /\ queue' = queue \cup {rec.cfg}
      /\ rec.pc \in {"protect", "pending", "report", "status", "ask", "unprotect"}
      /\ rec.pc # "report" => UNCHANGED conf
      /\ rec.pc = "status" => cache[rec.cfg] = Nil \/ conf[rec.cfg] = Nil
  BY RetryMoves DEF CatalogVars
<1>2. rec.pc # "status" /\ rec.pc # "report"
  BY <1>0, <1>1 DEF FinalizerInv, PresentInv, Protected, SettledInv, LastInv
<1>3. \A d \in Configs : IsReady(d)' <=> IsReady(d)
  BY <1>1, <1>2 DEF IsReady
<1>4. ConfsInv'
  BY <1>1, <1>2, <1>3 DEF SettledInv, ConfsInv, Attended
<1>5. LastInv(rec)'
  BY <1>1, IdleFacts DEF LastInv, Processing
<1>6. OwnedInv'
  BY <1>1, <1>2, <1>3 DEF SettledInv, OwnedInv, OfferedBy, Held
<1> QED
  BY <1>4, <1>5, <1>6 DEF SettledInv

(* addFinalizer: the configuration is not Ready, and stays so.             *)
LEMMA ProtectSettles ==
  ASSUME AddonsInv, SettledInv, addFinalizer
  PROVE  SettledInv'
<1> PICK c : c = rec.cfg
  OBVIOUS
<1>1. /\ UNCHANGED <<cache, queue, stored>>
      /\ rec.pc = "protect" /\ c \in Configs /\ ~rec.deleting
      /\ conf[c] # Nil /\ cache[c] = conf[c] /\ conf'[c] # Nil
      /\ conf'[c].gen >= conf[c].gen /\ conf[c].gen \in Nat /\ conf'[c].gen \in Nat
      /\ conf'[c].deleting = conf[c].deleting
      /\ conf'[c].status = conf[c].status
      /\ \A d \in Configs : d # c => conf'[d] = conf[d]
      /\ rec'.pc = "pending" /\ rec'.gen = conf'[c].gen
      /\ rec'.cfg = c /\ rec'.deleting = rec.deleting /\ rec'.last = rec.last
  BY ProtectMoves DEF SameRequest, CatalogVars
<1>2. conf'[c].gen # 0
  BY <1>1 DEF SettledInv, ConfsInv
<1>3. \A d \in Configs : /\ IsReady(d)' <=> IsReady(d)
                         /\ IsReady(d) => conf'[d].status = conf[d].status
  BY <1>1 DEF IsReady
<1>4. ConfsInv'
  <2>1. c \in queue \/ ~conf[c].deleting
    BY <1>1 DEF SettledInv, ConfsInv, Attended
  <2> QED
    BY <1>1, <1>2, <1>3, <2>1 DEF SettledInv, ConfsInv, Attended
<1>5. LastInv(rec)'
  <2>1. rec.last.phase # "Ready" /\ ~IsReady(c)
    BY <1>1 DEF SettledInv, LastInv, Processing
  <2>2. ~IsReady(c)'
    BY <1>1, <1>3, <2>1
  <2> QED
    BY <1>1, <1>2, <2>1, <2>2 DEF LastInv, IsReady
<1>6. OwnedInv'
  BY <1>1, <1>3 DEF SettledInv, OwnedInv, OfferedBy, Held
<1> QED
  BY <1>4, <1>5, <1>6 DEF SettledInv

(* setPending: a configuration that was not Ready.                         *)
LEMMA PendingSettles ==
  ASSUME AddonsInv, SettledInv, setPending
  PROVE  SettledInv'
<1> PICK c : c = rec.cfg
  OBVIOUS
<1>1. /\ UNCHANGED <<cache, stored>>
      /\ rec.pc = "pending" /\ c \in Configs /\ ~rec.deleting
      /\ conf[c] # Nil /\ cache[c] = conf[c] /\ conf'[c] # Nil
      /\ conf'[c].gen = conf[c].gen
      /\ conf'[c].deleting = conf[c].deleting
      /\ conf'[c].status.phase = "Pending"
      /\ \A d \in Configs : d # c => conf'[d] = conf[d]
      /\ queue \subseteq queue' /\ (conf'[c] = conf[c] => c \in queue')
      /\ rec'.pc = "load" /\ rec'.gen = rec.gen /\ rec'.last.phase = "Pending"
      /\ rec'.cfg = c /\ rec'.deleting = rec.deleting
  BY PendingMoves DEF CatalogVars
<1>2. rec.gen # 0 /\ ~IsReady(c)
  BY <1>1 DEF SettledInv, LastInv, Processing
<1>3. /\ ~IsReady(c)'
      /\ \A d \in Configs : /\ IsReady(d)' <=> IsReady(d)
                            /\ IsReady(d) => conf'[d].status = conf[d].status
  BY <1>1, <1>2 DEF IsReady
<1>4. ConfsInv'
  BY <1>1, <1>3 DEF SettledInv, ConfsInv, Attended
<1>5. LastInv(rec)'
  BY <1>1, <1>2, <1>3 DEF LastInv, IsReady
<1>6. OwnedInv'
  BY <1>1, <1>3 DEF SettledInv, OwnedInv, OfferedBy, Held
<1> QED
  BY <1>4, <1>5, <1>6 DEF SettledInv

(* updateAddonStatus: what was Ready before and is not any more is to be   *)
(* removed, and what has been saved is offered.                            *)
LEMMA UpdateStatusSettles ==
  ASSUME AddonsInv, SettledInv, updateAddonStatus, "list" \in Fresh, faults = 0
  PROVE  SettledInv'
<1>0. rec \in Reconciliation /\ rec.status \in Status /\ rec.gen \in Nat /\ RemovalInv(rec)
  BY RecFacts DEF AddonsInv, AddonsTypes, WorkerInv
<1> PICK c : c = rec.cfg
  OBVIOUS
<1> PICK status : status = [rec.status EXCEPT !.observed = rec.gen]
  OBVIOUS
<1>1. /\ status.phase = rec.status.phase /\ status.ready = rec.status.ready
      /\ status.failed = rec.status.failed /\ status.observed = rec.gen
  BY <1>0 DEF Status
<1> DEFINE orphans == orphanAddons(rec.last, status)
<1>2. /\ UNCHANGED <<cache, stored>>
      /\ rec.pc = "status" /\ c \in Configs /\ ~rec.deleting
      /\ conf[c] # Nil /\ cache[c] = conf[c] /\ conf'[c] # Nil
      /\ conf'[c].gen = conf[c].gen
      /\ conf'[c].deleting = conf[c].deleting
      /\ conf'[c].status = status
      /\ \A d \in Configs : d # c => conf'[d] = conf[d]
      /\ queue \subseteq queue' /\ (conf'[c] = conf[c] => c \in queue')
      /\ \/ rec' = Idle /\ orphans = {}
         \/ /\ rec'.pc \in {"remove", "broker"}
            /\ rec'.cfg = c /\ rec'.deleting = rec.deleting /\ rec'.last = rec.last
            /\ rec'.gen = rec.gen
            /\ rec'.todo = orphans /\ (rec'.pc = "broker" => orphans = {})
  BY UpdateStatusMoves DEF SameRequest, CatalogVars
<1>3. /\ rec.gen # 0 /\ rec.status.phase \in {"Ready", "Failed"}
      /\ IF rec.last.phase = "Ready" THEN conf[c].status = rec.last ELSE ~IsReady(c)
      /\ rec.status.phase = "Ready" => rec.status.failed = {}
  BY <1>0, <1>2 DEF SettledInv, LastInv, Processing, RemovalInv
<1>4. orphans \subseteq Held(rec)'
  BY <1>2 DEF Held
<1>5. ConfsInv'
  <2>1. \A d \in Configs : d # c => (IsReady(d)' <=> IsReady(d))
    BY <1>2 DEF IsReady
  <2>2. conf'[c].gen # 0 /\ conf'[c].status.observed # 0
    BY <1>1, <1>2, <1>3 DEF SettledInv, ConfsInv
  <2>3. \A d \in Configs : Attended(d) => Attended(d)'
    BY <1>2 DEF Attended
  <2>4. ASSUME NEW d \in Configs, d # c, conf'[d] # Nil
        PROVE  /\ conf'[d].gen # 0
               /\ IsReady(d)' => conf'[d].status.observed # 0
               /\ conf'[d].deleting => Attended(d)'
    BY <1>2, <2>1, <2>3, <2>4 DEF SettledInv, ConfsInv
  <2>5. conf'[c].deleting => Attended(c)'
    BY <1>2, <2>3 DEF SettledInv, ConfsInv
  <2> QED
    BY <2>2, <2>4, <2>5 DEF ConfsInv
<1>6. LastInv(rec)'
  <2>1. CASE rec' = Idle
    BY <2>1, IdleFacts DEF LastInv, Processing
  <2>2. CASE rec' # Idle
    BY <1>2, <1>3, <2>2 DEF LastInv, Processing
  <2> QED
    BY <2>1, <2>2
<1>7. OwnedInv'
  <2> SUFFICES ASSUME NEW a \in stored
               PROVE  a \in Held(rec)' \/ \E d \in Configs : OfferedBy(d, a)'
    BY <1>2 DEF OwnedInv
  <2>1. CASE a \in Held(rec)
    <3>1. status.phase = "Ready" /\ a \in status.ready
      BY <1>1, <1>2, <2>1 DEF Held
    <3>2. OfferedBy(c, a)'
      BY <1>2, <3>1 DEF OfferedBy, IsReady
    <3> QED
      BY <1>2, <3>2
  <2>2. ASSUME NEW d \in Configs, OfferedBy(d, a), d # c
        PROVE  a \in Held(rec)' \/ \E e \in Configs : OfferedBy(e, a)'
    <3>1. OfferedBy(d, a)'
      BY <1>2, <2>2 DEF OfferedBy, IsReady
    <3> QED
      BY <3>1
  <2>3. ASSUME OfferedBy(c, a)
        PROVE  a \in Held(rec)' \/ \E e \in Configs : OfferedBy(e, a)'
    <3>1. rec.last.phase = "Ready" /\ a \in rec.last.ready
      BY <1>3, <2>3 DEF OfferedBy
    <3>2. CASE status.phase = "Ready" /\ a \in status.ready
      <4>1. OfferedBy(c, a)'
        BY <1>2, <3>2 DEF OfferedBy, IsReady
      <4> QED
        BY <1>2, <4>1
    <3>3. CASE ~(status.phase = "Ready" /\ a \in status.ready)
      <4>1. a \in orphans
        BY <1>1, <1>3, <3>1, <3>3 DEF orphanAddons, Listed
      <4> QED
        BY <1>4, <4>1
    <3> QED
      BY <3>2, <3>3
  <2>4. a \in Held(rec) \/ \E d \in Configs : OfferedBy(d, a)
    BY DEF SettledInv, OwnedInv
  <2> QED
    BY <2>1, <2>2, <2>3, <2>4
<1> QED
  BY <1>5, <1>6, <1>7 DEF SettledInv

(* ReprocessRequest: the status stays; a new generation is an event.       *)
LEMMA ReprocessSettles ==
  ASSUME AddonsInv, SettledInv, NEW d \in Configs, ReprocessRequest(d)
  PROVE  SettledInv'
<1>0. LocalInv(rec) /\ rec \in Reconciliation
  BY DEF AddonsInv, AddonsTypes, WorkerInv
<1> PICK c : c = rec.cfg
  OBVIOUS
<1>1. /\ UNCHANGED <<cache, queue, stored>>
      /\ rec.pc = "ask" /\ d # c
      /\ conf[d] # Nil /\ conf'[d] # Nil /\ cache[d] # conf'[d]
      /\ conf'[d].gen # 0 /\ conf'[d].deleting = conf[d].deleting
      /\ conf'[d].status = conf[d].status
      /\ \A e \in Configs : e # d => conf'[e] = conf[e]
      /\ \/ rec' = Idle /\ ~rec.deleting
         \/ /\ rec'.pc \in {"ask", "remove", "broker", "unprotect"}
            /\ rec'.pc # "ask" => rec.deleting
            /\ rec'.cfg = c /\ rec'.deleting = rec.deleting /\ rec'.last = rec.last
            /\ rec'.gen = rec.gen /\ rec'.todo = rec.todo
            /\ rec'.pc \in {"broker", "unprotect"} => rec.todo = {}
  BY ReprocessMoves DEF SameRequest, CatalogVars
<1>2. c \in Configs /\ conf'[c] = conf[c]
  BY <1>0, <1>1 DEF LocalInv
<1>3. \A e \in Configs : /\ IsReady(e)' <=> IsReady(e)
                         /\ conf'[e] # Nil <=> conf[e] # Nil
                         /\ conf[e] # Nil => conf'[e].status = conf[e].status
  BY <1>1 DEF IsReady
<1>4. ConfsInv'
  BY <1>1, <1>3 DEF SettledInv, ConfsInv, Attended
<1>5. LastInv(rec)'
  <2>1. CASE rec' = Idle
    BY <2>1, IdleFacts DEF LastInv, Processing
  <2>2. CASE rec' # Idle
    <3>1. /\ rec.deleting => conf[c] # Nil /\ conf[c].deleting
          /\ rec.deleting => IF rec.last.phase = "Ready"
                               THEN conf[c] # Nil /\ conf[c].status = rec.last
                               ELSE ~IsReady(c)
          /\ rec.deleting /\ rec.last.phase = "Ready" =>
               rec.last.ready \cap stored \subseteq rec.todo
          /\ rec.gen # 0
      BY <1>1 DEF SettledInv, LastInv, Releasing
    <3> QED
      BY <1>1, <1>2, <1>3, <2>2, <3>1 DEF LastInv, Processing, IsReady
  <2> QED
    BY <2>1, <2>2
<1>6. OwnedInv'
  BY <1>1, <1>3 DEF SettledInv, OwnedInv, OfferedBy, Held
<1> QED
  BY <1>4, <1>5, <1>6 DEF SettledInv

(* deleteFinalizer: nothing of the configuration that goes is stored.      *)
LEMMA UnprotectSettles ==
  ASSUME AddonsInv, SettledInv, deleteFinalizer
  PROVE  SettledInv'
<1> PICK c : c = rec.cfg
  OBVIOUS
<1>1. /\ UNCHANGED <<cache, queue, stored>>
      /\ rec.pc = "unprotect" /\ c \in Configs /\ rec.deleting /\ rec' = Idle
      /\ conf[c] # Nil /\ (conf[c].deleting => conf'[c] = Nil)
      /\ \A d \in Configs : d # c => conf'[d] = conf[d]
  BY UnprotectMoves DEF CatalogVars
<1>2. /\ conf[c].deleting
      /\ IF rec.last.phase = "Ready" THEN conf[c].status = rec.last ELSE ~IsReady(c)
      /\ rec.last.phase = "Ready" => rec.last.ready \cap stored = {}
  BY <1>1 DEF SettledInv, LastInv, Releasing
<1>3. conf'[c] = Nil
  BY <1>1, <1>2
<1>4. \A d \in Configs : d # c => (IsReady(d)' <=> IsReady(d))
  BY <1>1 DEF IsReady
<1>5. ConfsInv'
  BY <1>1, <1>3, <1>4 DEF SettledInv, ConfsInv, Attended
<1>6. LastInv(rec)'
  BY <1>1, IdleFacts DEF LastInv, Processing
<1>7. OwnedInv'
  <2> SUFFICES ASSUME NEW a \in stored PROVE \E d \in Configs : OfferedBy(d, a)'
    BY <1>1 DEF OwnedInv
  <2>1. PICK d \in Configs : OfferedBy(d, a)
    BY <1>1 DEF SettledInv, OwnedInv, Held
  <2>2. d # c
    BY <1>2, <2>1 DEF OfferedBy
  <2>3. OfferedBy(d, a)'
    BY <1>1, <2>1, <2>2 DEF OfferedBy, IsReady
  <2> QED
    BY <2>3
<1> QED
  BY <1>5, <1>6, <1>7 DEF SettledInv

(* Users do not change a status, nor take away one that is protected; and  *)
(* the informer tells of what they delete.                                 *)
LEMMA UserSettles ==
  ASSUME AddonsInv, SettledInv, UserStep
  PROVE  SettledInv'
<1>0. LocalInv(rec) /\ rec \in Reconciliation /\ ObjectsInv /\ AddonsTypes
  BY DEF AddonsInv, AddonsTypes, WorkerInv
<1>1. UNCHANGED <<cache, queue, rec, stored>> /\ \A c \in Configs : UserChange(conf[c], conf'[c])
  BY UserMoves DEF CatalogVars
<1>2. ASSUME NEW c \in Configs
      PROVE  /\ IsReady(c)' <=> IsReady(c)
             /\ IsReady(c) => conf'[c].status = conf[c].status
             /\ conf[c] # Nil /\ conf[c].deleting => conf'[c] = conf[c]
  <2>1. IsReady(c) => conf[c].finalizer
    BY <1>0 DEF ObjectsInv, Observed, IsReady
  <2>2. UserChange(conf[c], conf'[c])
    BY <1>1
  <2> QED
    BY <2>1, <2>2, NewStatusFacts DEF UserChange, IsReady
<1>3. ConfsInv'
  <2> SUFFICES ASSUME NEW c \in Configs, conf'[c] # Nil
               PROVE  /\ conf'[c].gen # 0
                      /\ IsReady(c)' => conf'[c].status.observed # 0
                      /\ conf'[c].deleting => Attended(c)'
    BY DEF ConfsInv
  <2>1. UserChange(conf[c], conf'[c])
    BY <1>1
  <2>2. conf[c] # Nil => conf[c].gen \in Nat /\ conf[c].gen # 0
    BY <1>0, ConfFacts DEF SettledInv, ConfsInv
  <2>3. conf'[c].gen # 0
    BY <2>1, <2>2 DEF UserChange
  <2>4. IsReady(c)' => conf'[c].status.observed # 0
    BY <1>2 DEF SettledInv, ConfsInv, IsReady
  <2>5. ASSUME conf'[c].deleting PROVE Attended(c)'
    <3>1. CASE conf[c] # Nil /\ conf[c].deleting
      BY <1>1, <1>2, <3>1 DEF SettledInv, ConfsInv, Attended
    <3>2. CASE conf[c] # Nil /\ conf[c].finalizer /\ ~conf[c].deleting
      <4>1. cache[c] # Nil => ~cache[c].deleting
        BY <1>0, <3>2 DEF ObjectsInv
      <4>2. cache[c] # conf'[c]
        BY <2>5, <4>1
      <4> QED
        BY <1>1, <4>2 DEF Attended
    <3> QED
      BY <2>1, <2>5, <3>1, <3>2 DEF UserChange
  <2> QED
    BY <2>3, <2>4, <2>5
<1>4. LastInv(rec)'
  <2> PICK r : r = rec
    OBVIOUS
  <2>1. LastInv(r)
    BY DEF SettledInv
  <2>2. r.pc \in Processing \/ r.deleting => r.cfg \in Configs
    BY <1>0, CfgFacts, IdleFacts DEF Processing
  <2>3. r.deleting => conf'[r.cfg] = conf[r.cfg]
    BY <1>2, <2>1, <2>2 DEF LastInv
  <2>4. r.pc \in Processing \/ r.deleting =>
          IF r.last.phase = "Ready" THEN conf'[r.cfg] # Nil /\ conf'[r.cfg].status = r.last
                                    ELSE ~IsReady(r.cfg)'
    BY <1>2, <2>1, <2>2 DEF LastInv, IsReady
  <2>5. LastInv(r)'
    BY <1>1, <2>1, <2>3, <2>4 DEF LastInv
  <2> QED
    BY <1>1, <2>5
<1>5. OwnedInv'
  BY <1>1, <1>2 DEF SettledInv, OwnedInv, OfferedBy, Held
<1> QED
  BY <1>3, <1>4, <1>5 DEF SettledInv

(* Deliver queues a request.                                               *)
LEMMA DeliverSettles ==
  ASSUME AddonsInv, SettledInv, NEW c \in Configs, Deliver(c)
  PROVE  SettledInv'
<1>1. /\ UNCHANGED <<conf, rec, stored>> /\ queue' = queue \cup {c}
      /\ \A d \in Configs : d # c => cache'[d] = cache[d]
  BY DEF Deliver, store, AddonsInv, AddonsTypes
<1>2. \A d \in Configs : IsReady(d)' <=> IsReady(d)
  BY <1>1 DEF IsReady
<1>3. ConfsInv'
  BY <1>1, <1>2 DEF SettledInv, ConfsInv, Attended
<1>4. LastInv(rec)'
  BY <1>1 DEF SettledInv, LastInv, IsReady
<1>5. OwnedInv'
  BY <1>1, <1>2 DEF SettledInv, OwnedInv, OfferedBy, Held
<1> QED
  BY <1>3, <1>4, <1>5 DEF SettledInv

(* The broker and Service Catalog are not concerned.                       *)
LEMMA OthersSettle ==
  ASSUME SettledInv, CreateBroker \/ DeleteBroker \/ Relist \/ UNCHANGED vars
  PROVE  SettledInv'
<1>1. UNCHANGED <<conf, cache, queue, rec, stored>>
  BY DEF CreateBroker, DeleteBroker, Relist, vars, store
<1>2. LastInv(rec)' /\ Held(rec)' = Held(rec)
  BY <1>1 DEF SettledInv, LastInv, IsReady, Held
<1> QED
  BY <1>1, <1>2, RecSettles

(* Every step that is no failure.                                          *)
LEMMA NextSettles ==
  ASSUME AddonsInv, PresentInv, CountersInv, SettledInv, [Next]_vars, ~FailureStep,
         faults = 0, errors' = 0, "get" \in Fresh, "list" \in Fresh
  PROVE  SettledInv'
<1>1. CASE UserStep
  BY <1>1, UserSettles
<1>2. ASSUME NEW c \in Configs, Deliver(c) \/ Reconcile(c) PROVE SettledInv'
  BY <1>2, DeliverSettles, ReconcileSettles
<1>3. CASE WorkerStep
  <2>1. ASSUME NEW a \in Addons, saveAddon(a) \/ removeAddon(a) PROVE SettledInv'
    BY <2>1, SaveSettles, RemoveSettles
  <2>2. ASSUME NEW d \in Configs, ReprocessRequest(d) PROVE SettledInv'
    BY <2>2, ReprocessSettles
  <2>3. ~reportFetchingError
    BY DEF SettledInv, LastInv, reportFetchingError, At
  <2> QED
    BY <1>3, <2>1, <2>2, <2>3, ProtectSettles, PendingSettles, OnAddSettles, UpdateStatusSettles,
       ListSettles, UnprotectSettles, EnsureBrokerSettles, NotFoundSettles DEF WorkerStep
<1>4. CASE CreateBroker \/ DeleteBroker \/ Relist \/ UNCHANGED vars
  BY <1>4, OthersSettle
<1> QED
  BY <1>1, <1>2, <1>3, <1>4 DEF Next

(* The invariant, as long as nothing has gone wrong.                       *)
LEMMA Addons_Settled ==
  ASSUME "get" \in Fresh, "list" \in Fresh
  PROVE  Spec => [](Undisturbed => SettledInv)
<1> DEFINE Inv == Undisturbed => SettledInv
<1>1. Init => Inv
  <2> SUFFICES ASSUME Init PROVE SettledInv
    OBVIOUS
  <2>1. rec = Idle /\ stored = {} /\ \A c \in Configs : conf[c] = Nil
    BY DEF Init
  <2>2. LastInv(rec)
    BY <2>1, IdleFacts DEF LastInv, Processing
  <2> QED
    BY <2>1, <2>2 DEF SettledInv, ConfsInv, OwnedInv
<1>2. AddonsInv /\ ToldInv /\ Inv /\ [Next]_vars => Inv'
  <2> SUFFICES ASSUME AddonsInv, ToldInv, Inv, [Next]_vars,
                      errors' = 0, crashes' = 0, faults' = 0
               PROVE  SettledInv'
    BY DEF Undisturbed
  <2>1. PresentInv /\ CountersInv
    BY DEF ToldInv
  <2>2. errors = 0 /\ crashes = 0 /\ faults = 0 /\ ~FailureStep
    BY <2>1, CountersKeep
  <2>3. SettledInv
    BY <2>2 DEF Undisturbed
  <2> QED
    BY <2>1, <2>2, <2>3, NextSettles
<1> QED
  BY <1>1, <1>2, Addons_Invariant, Addons_Told, PTL DEF Spec

(* Once all is settled, what is stored is what the Ready configurations    *)
(* offer: OnAdd removes what it read in the status that it replaces,       *)
(* OnDelete empties the storage of a configuration before it lets it go,   *)
(* and no configuration that is being deleted is forgotten.  The cache is  *)
(* up to date when a configuration is read and when the others are listed. *)
THEOREM Addons_NothingLeftBehind ==
  ASSUME "get" \in Fresh, "list" \in Fresh
  PROVE  Spec => []NothingLeftBehind
<1>1. AddonsInv /\ (Undisturbed => SettledInv) => NothingLeftBehind
  <2> SUFFICES ASSUME AddonsInv, Undisturbed, SettledInv, Quiescent
               PROVE  stored = UNION {conf[c].status.ready : c \in {d \in Configs : IsReady(d)}}
    BY DEF NothingLeftBehind
  <2>1. OffersStored
    BY DEF AddonsInv, SharedInv, Undisturbed
  <2>2. ASSUME NEW c \in Configs, IsReady(c) PROVE conf[c].status.ready \subseteq stored
    <3>1. ~Attended(c)
      BY <2>2, IdleFacts DEF Quiescent, Attended, IsReady
    <3>2. ~conf[c].deleting
      BY <2>2, <3>1 DEF SettledInv, ConfsInv, IsReady
    <3> QED
      BY <2>1, <2>2, <3>2 DEF OffersStored, Stored
  <2>3. ASSUME NEW a \in stored PROVE \E c \in Configs : IsReady(c) /\ a \in conf[c].status.ready
    BY IdleFacts DEF SettledInv, OwnedInv, OfferedBy, Held, Quiescent
  <2> QED
    BY <2>2, <2>3
<1> QED
  BY <1>1, Addons_Invariant, Addons_Settled, PTL
=============================================================================
