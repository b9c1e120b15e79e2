------------------------- MODULE AddonStorage_proofs -------------------------
(***************************************************************************)
(* The storage of addons for every value of the constants: what is listed  *)
(* is served, under both keys, the catalog has nothing else, and           *)
(* registering anew leaves no gap.                                         *)
(***************************************************************************)
EXTENDS AddonStorage, TLAPS

-----------------------------------------------------------------------------
(* The inductive invariant.                                                *)

(* Addons of one ID have one name and version, and the other way round,    *)
(* and no two share a chart, as it is written or as it is printed.         *)
OwnKeys ==
  /\ \A o, p \in Offers : o.id = p.id <=> o.nv = p.nv
  /\ \A o, p \in Offers : ChartOf[o.nv] = ChartOf[p.nv] => o.nv = p.nv
  /\ \A o, p \in Offers : Printed[ChartOf[o.nv]] = ChartOf[p.nv] => o.nv = p.nv

(* A controller that is busy has a configuration of its own, and an addon  *)
(* in hand between two calls about it.                                     *)
HasAddon == {"id", "nv", "chart", "delNV", "delID", "undocs", "unchart"}
JobTypes(w, j) ==
  /\ j.pc # "idle" => j.cfg \in Configs /\ WorkerOf(j.cfg) = w
  /\ j.pc \in HasAddon => j.cur \in Offers
  /\ j.pc = "idle" => j = Idle

StorageTypes == StorageTypeOK /\ \A w \in Workers : JobTypes(w, job[w])

IdsOf(S) == {o.id : o \in S}
IsClean(s, o) == <<s, o.id>> \notin spoiled

(* What a controller has in hand of a scope, the addons that stay, and     *)
(* those of configurations whose deletion is to be tried again.            *)
WorkerIn(s) == IF s = Cluster THEN "ClusterAddonsController" ELSE "AddonsController"
On(s, j) == j.pc # "idle" /\ ScopeOf[j.cfg] = s
InHand(s, j) ==
  IF ~On(s, j) THEN {}
  ELSE IF j.pc \in Saving THEN Touched(j)
  ELSE j.todo \cup ({j.cur} \ {Nil})
Stays(s, c) == ScopeOf[c] = s /\ c \notin deleting
Waits(s, j, c) == ScopeOf[c] = s /\ c \in deleting /\ ~(On(s, j) /\ j.cfg = c)
Kept(s) == UNION {status[c].ready : c \in {d \in Configs : Stays(s, d)}}
Leaving(s, j) == UNION {status[c].ready : c \in {d \in Configs : Waits(s, j, d)}}

(* An addon is stored, or nothing is of it; the memory driver keeps the    *)
(* mapping of its name and version.                                        *)
Served(s, o) ==
  /\ idSpace[s][o.id] = o
  /\ nvSpace[s][o.nv] = Mapped(o)
  /\ ChartOf[o.nv] \in charts[s]
  /\ o.docs => groups[s][o.id] = o.rev
Absent(s, o) ==
  /\ idSpace[s][o.id] = Nil
  /\ driver = "etcd" => nvSpace[s][o.nv] = Nil
  /\ ChartRef(o) = ChartOf[o.nv] => ChartOf[o.nv] \notin charts[s]
  /\ groups[s][o.id] = 0
Gone(s, j, o) == Absent(s, o) \/ \E p \in Leaving(s, j) : p.id = o.id /\ Served(s, p)

(* How far an addon has come.                                              *)
Saved(s, o, pc) ==
  /\ o.docs => groups[s][o.id] = o.rev
  /\ pc \in {"nv", "chart"} => idSpace[s][o.id] = o
  /\ pc = "chart" => nvSpace[s][o.nv] = Mapped(o)
Removed(s, o, pc) ==
  /\ pc = "delNV" => Served(s, o)
  /\ pc # "delNV" /\ driver = "etcd" => nvSpace[s][o.nv] = Nil
  /\ pc \in {"undocs", "unchart"} => idSpace[s][o.id] = Nil
  /\ pc = "unchart" => groups[s][o.id] = 0

(* What is stored under a key belongs there.                               *)
KeyedInv ==
  /\ \A s \in Scopes, id \in IDs : idSpace[s][id] # Nil => idSpace[s][id].id = id
  /\ \A s \in Scopes, o \in Offers :
       nvSpace[s][o.nv] # Nil =>
         IF driver = "etcd" THEN nvSpace[s][o.nv].nv = o.nv ELSE nvSpace[s][o.nv] = o.id

(* A configuration lists an addon once, what it lists as Failed was not    *)
(* saved as a whole, and no other one of the scope lists it as Ready.      *)
StatusInv ==
  /\ \A c \in Configs : \A o, p \in Listed(status[c]) : o.id = p.id => o = p
  /\ \A c \in Configs : \A o \in status[c].failed : ~IsClean(ScopeOf[c], o)
  /\ \A c, d \in Configs : c # d /\ ScopeOf[c] = ScopeOf[d] =>
       \A o \in status[c].ready, p \in status[d].ready : o.id # p.id

(* What a controller saves nobody else has, and what it removes is listed  *)
(* by the configuration that goes, or by none.                             *)
SavingInv(j) ==
  j.pc \in Saving =>
    /\ ~j.delete /\ j.cfg \notin deleting /\ j.todo \subseteq j.offers
    /\ j.failed \subseteq j.partial /\ j.partial \subseteq j.offers \ j.todo
    /\ \A o, p \in j.offers : o.id = p.id => o = p
    /\ j.pc \in HasAddon => j.cur \in j.offers /\ j.cur \notin j.todo
    /\ j.pc = "status" => j.todo = {}
    /\ j.pc \notin HasAddon => j.cur = Nil
    /\ \A o \in j.partial : ~IsClean(ScopeOf[j.cfg], o)
    /\ \A d \in Configs : d # j.cfg /\ ScopeOf[d] = ScopeOf[j.cfg] =>
         \A o \in j.offers, p \in status[d].ready : o.id # p.id

RemovingInv(j) ==
  j.pc \in Removing =>
    /\ j.delete <=> j.cfg \in deleting
    /\ j.pc \notin HasAddon => j.cur = Nil
    /\ \A o, p \in j.todo : o.id = p.id => o = p
    /\ j.pc \in HasAddon => \A o \in j.todo : o.id # j.cur.id
    /\ j.delete => /\ j.todo \subseteq Listed(status[j.cfg])
                   /\ j.pc \in HasAddon => j.cur.id \in IdsOf(Listed(status[j.cfg]))
                   /\ j.pc \in HasAddon /\ IsClean(ScopeOf[j.cfg], j.cur)
                        => j.cur \in Listed(status[j.cfg])
    /\ \A o \in InHand(ScopeOf[j.cfg], j) :
         IsClean(ScopeOf[j.cfg], o) => o.id \notin IdsOf(Kept(ScopeOf[j.cfg]))

(* The addons of a scope: those that stay are stored, nothing is of those  *)
(* that nobody lists, and those in hand are as far as they have come.      *)
ScopeInv(s, j) ==
  /\ \A o \in Offers : IsClean(s, o) =>
       /\ o \in Kept(s) /\ o.id \notin IdsOf(InHand(s, j)) => Served(s, o)
       /\ o.id \notin IdsOf(Kept(s)) /\ o.id \notin IdsOf(InHand(s, j)) => Gone(s, j, o)
       /\ On(s, j) /\ j.pc \in Removing =>
            /\ o \in j.todo => Served(s, o) \/ (j.delete /\ Absent(s, o))
            /\ j.pc \in HasAddon /\ o = j.cur => Removed(s, o, j.pc)
  /\ On(s, j) /\ j.pc \in Saving =>
       \A o \in j.offers \ j.partial :
         /\ j.pc \in HasAddon /\ o = j.cur => Saved(s, o, j.pc)
         /\ o \notin j.todo /\ (j.pc \in HasAddon => o # j.cur) => Served(s, o)

StorageInv ==
  /\ StorageTypes
  /\ OwnKeys =>
       /\ KeyedInv /\ StatusInv
       /\ \A w \in Workers : SavingInv(job[w]) /\ RemovingInv(job[w])
       /\ \A s \in Scopes : ScopeInv(s, job[WorkerIn(s)])

-----------------------------------------------------------------------------
(* Everything but the jobs has its type.                                   *)
StoreTypes ==
  /\ driver \in {"etcd", "memory"}
  /\ idSpace \in [Scopes -> [IDs -> Offers \cup {Nil}]]
  /\ nvSpace \in [Scopes -> [NVs -> (IF driver = "etcd" THEN Offers ELSE IDs) \cup {Nil}]]
  /\ charts \in [Scopes -> SUBSET Charts]
  /\ groups \in [Scopes -> [IDs -> Nat]]
  /\ status \in [Configs -> Status]
  /\ deleting \subseteq Configs
  /\ spoiled \subseteq Scopes \X IDs

(* The type invariant, with the jobs apart.                                *)
LEMMA TypesSplit ==
  StorageTypes <=> /\ StoreTypes /\ job \in [Workers -> Job]
                   /\ \A w \in Workers : JobTypes(w, job[w])
  BY DEF StorageTypes, StoreTypes, StorageTypeOK

(* Facts about addons, scopes and jobs.                                    *)
LEMMA OfferFacts ==
  /\ \A o \in Offers : /\ o.id \in IDs /\ o.nv \in NVs /\ o.rev \in Nat /\ o.docs \in BOOLEAN
                       /\ ChartOf[o.nv] \in Charts
  /\ Nil \notin Offers /\ Nil \notin IDs /\ Nil \notin Configs
  /\ \A c \in Configs : ScopeOf[c] \in Scopes
  BY StorageAssumption DEF Addon

(* The fields of a job.                                                    *)
LEMMA JobFields ==
  ASSUME NEW j \in Job
  PROVE  /\ j.pc \in Saving \cup Removing \cup {"idle"} /\ j.cfg \in Configs \cup {Nil}
         /\ j.delete \in BOOLEAN /\ j.offers \subseteq Offers /\ j.todo \subseteq Offers
         /\ j.cur \in Offers \cup {Nil} /\ j.failed \subseteq Offers /\ j.partial \subseteq Offers
  BY DEF Job

(* The fields of a status.                                                 *)
LEMMA StatusFields ==
  ASSUME StoreTypes, NEW c \in Configs
  PROVE  status[c].ready \subseteq Offers /\ status[c].failed \subseteq Offers
  BY DEF StoreTypes, Status

(* The job of a controller that has nothing to do.                         *)
LEMMA IdleFacts ==
  /\ Idle \in Job /\ Idle.pc = "idle" /\ Idle.cfg = Nil
  /\ \A w \in Workers : JobTypes(w, Idle)
<1>1. Idle \in Job /\ Idle.pc = "idle" /\ Idle.cfg = Nil
  BY DEF Idle, Job
<1> QED
  BY <1>1 DEF JobTypes, HasAddon

(* A job saves or removes, or is idle.                                     *)
LEMMA Phases ==
  /\ "idle" \notin Saving /\ "idle" \notin Removing /\ "idle" \notin HasAddon
  /\ \A pc \in Saving : pc \notin Removing
  BY DEF Saving, Removing, HasAddon

(* Each scope has its controller.                                          *)
LEMMA WorkerOfScope ==
  /\ \A s \in Scopes : WorkerIn(s) \in Workers
  /\ \A c \in Configs : WorkerIn(ScopeOf[c]) = WorkerOf(c) /\ WorkerOf(c) \in Workers
  BY DEF WorkerIn, WorkerOf, Workers

-----------------------------------------------------------------------------
(* Nothing changes in a scope, but that more may be spoiled; nothing       *)
(* changes in the other scopes.                                            *)
Still(t) ==
  /\ driver' = driver /\ \A o : IsClean(t, o)' => IsClean(t, o)
  /\ idSpace'[t] = idSpace[t] /\ nvSpace'[t] = nvSpace[t]
  /\ charts'[t] = charts[t] /\ groups'[t] = groups[t]
  /\ \A c \in Configs : ScopeOf[c] = t =>
       status'[c] = status[c] /\ (c \in deleting' <=> c \in deleting)
Local(s) == \A t \in Scopes : t # s => Still(t)

(* Then the same addons stay, and the same ones are to go.                 *)
LEMMA StillListed ==
  ASSUME NEW t, Still(t), NEW j
  PROVE  /\ Kept(t)' = Kept(t) /\ Leaving(t, j)' = Leaving(t, j)
         /\ \A k : ~On(t, j) /\ ~On(t, k) => Leaving(t, j) = Leaving(t, k)
<1>1. \A c \in Configs : ScopeOf[c] = t =>
        status'[c] = status[c] /\ (c \in deleting' <=> c \in deleting)
  BY DEF Still
<1>2. \A c \in Configs : Stays(t, c)' <=> Stays(t, c)
  BY <1>1 DEF Stays
<1>3. \A c \in Configs : Waits(t, j, c)' <=> Waits(t, j, c)
  BY <1>1 DEF Waits, On
<1>4. Kept(t)' = Kept(t)
  BY <1>1, <1>2 DEF Kept, Stays
<1>5. Leaving(t, j)' = Leaving(t, j)
  BY <1>1, <1>3 DEF Leaving, Waits
<1>6. ASSUME NEW k, ~On(t, j), ~On(t, k)
      PROVE  Leaving(t, j) = Leaving(t, k)
  <2>1. \A c \in Configs : Waits(t, j, c) <=> Waits(t, k, c)
    BY <1>6 DEF Waits
  <2> QED
    BY <2>1 DEF Leaving
<1> QED
  BY <1>4, <1>5, <1>6

(* What is said of a scope depends on the job only if it is about it.      *)
LEMMA OtherScope ==
  ASSUME NEW t \in Scopes, Still(t), NEW j, NEW k, On(t, j) => j.cfg \in Configs,
         ScopeInv(t, j), j = k \/ (~On(t, j) /\ ~On(t, k))
  PROVE  ScopeInv(t, k)'
<1>1. InHand(t, k) = InHand(t, j) /\ (On(t, k) => j = k) /\ (On(t, k) <=> On(t, j))
  BY DEF InHand
<1>2. Kept(t)' = Kept(t) /\ Leaving(t, k)' = Leaving(t, j)
  BY StillListed
<1>3. \A o : /\ Served(t, o)' <=> Served(t, o)
             /\ Absent(t, o)' <=> Absent(t, o)
             /\ IsClean(t, o)' => IsClean(t, o)
             /\ \A pc : Saved(t, o, pc)' <=> Saved(t, o, pc)
             /\ \A pc : Removed(t, o, pc)' <=> Removed(t, o, pc)
  BY DEF Still, Served, Absent, Saved, Removed, Mapped, ChartRef
<1>4. \A o : Gone(t, k, o)' <=> Gone(t, j, o)
  BY <1>2, <1>3 DEF Gone
<1>5. InHand(t, k)' = InHand(t, j) /\ (On(t, k)' <=> On(t, k))
  <2>1. On(t, k)' <=> On(t, k)
    BY DEF On
  <2>2. On(t, k) => Touched(k)' = Touched(k)
    BY <1>1 DEF Touched, Still, On
  <2> QED
    BY <1>1, <2>1, <2>2 DEF InHand
<1>6. ASSUME NEW o \in Offers, IsClean(t, o)'
      PROVE  /\ o \in Kept(t)' /\ o.id \notin IdsOf(InHand(t, k)') => Served(t, o)'
             /\ o.id \notin IdsOf(Kept(t)') /\ o.id \notin IdsOf(InHand(t, k)') => Gone(t, k, o)'
             /\ On(t, k) /\ k.pc \in Removing =>
                  /\ o \in k.todo => Served(t, o)' \/ (k.delete /\ Absent(t, o)')
                  /\ k.pc \in HasAddon /\ o = k.cur => Removed(t, o, k.pc)'
  BY <1>1, <1>2, <1>3, <1>4, <1>5, <1>6 DEF ScopeInv
<1>7. On(t, k) /\ k.pc \in Saving =>
        \A o \in k.offers \ k.partial :
          /\ k.pc \in HasAddon /\ o = k.cur => Saved(t, o, k.pc)'
          /\ o \notin k.todo /\ (k.pc \in HasAddon => o # k.cur) => Served(t, o)'
  BY <1>1, <1>3 DEF ScopeInv
<1>8. IdsOf(InHand(t, k)') = IdsOf(InHand(t, k))' /\ IdsOf(Kept(t)') = IdsOf(Kept(t))'
  BY DEF IdsOf
<1> QED
  BY <1>5, <1>6, <1>7, <1>8 DEF ScopeInv

(* What is said of a job depends on its scope only.                        *)
LEMMA OtherJob ==
  ASSUME NEW j, j.pc # "idle" => j.cfg \in Configs /\ Still(ScopeOf[j.cfg]),
         SavingInv(j), RemovingInv(j)
  PROVE  SavingInv(j)' /\ RemovingInv(j)'
<1> SUFFICES ASSUME j.pc # "idle"
             PROVE  SavingInv(j)' /\ RemovingInv(j)'
  BY Phases DEF SavingInv, RemovingInv
<1>1. j.cfg \in Configs /\ Still(ScopeOf[j.cfg])
  OBVIOUS
<1>2. /\ \A d \in Configs : ScopeOf[d] = ScopeOf[j.cfg] =>
           status'[d] = status[d] /\ (d \in deleting' <=> d \in deleting)
      /\ \A o : IsClean(ScopeOf[j.cfg], o)' => IsClean(ScopeOf[j.cfg], o)
  BY <1>1 DEF Still
<1>3. SavingInv(j)'
  BY <1>1, <1>2, OfferFacts DEF SavingInv
<1>4. InHand(ScopeOf[j.cfg], j)' = InHand(ScopeOf[j.cfg], j)
  BY <1>1, <1>2 DEF InHand, On, Touched
<1>5. Kept(ScopeOf[j.cfg])' = Kept(ScopeOf[j.cfg])
  BY <1>1, StillListed
<1>6. Listed(status'[j.cfg]) = Listed(status[j.cfg])
  BY <1>1, <1>2
<1>7. RemovingInv(j)'
  BY <1>1, <1>2, <1>4, <1>5, <1>6, OfferFacts DEF RemovingInv
<1> QED
  BY <1>3, <1>7

(* A step of one controller in one scope.                                  *)
LEMMA StepKeeps ==
  ASSUME StorageInv, NEW w \in Workers, NEW s \in Scopes, WorkerIn(s) = w, NEW k \in Job,
         JobTypes(w, k), job' = [job EXCEPT ![w] = k], StoreTypes', Local(s),
         job[w].pc # "idle" => ScopeOf[job[w].cfg] = s, k.pc # "idle" => ScopeOf[k.cfg] = s,
         OwnKeys => /\ KeyedInv' /\ StatusInv' /\ SavingInv(k)' /\ RemovingInv(k)'
                    /\ ScopeInv(s, k)'
  PROVE  StorageInv'
<1>0. StorageTypes /\ StoreTypes /\ job \in [Workers -> Job] /\ \A v \in Workers : JobTypes(v, job[v])
  BY TypesSplit DEF StorageInv
<1>1. /\ job' \in [Workers -> Job] /\ job'[w] = k
      /\ \A v \in Workers : v # w => job'[v] = job[v]
  BY <1>0
<1>2. StorageTypes'
  <2>1. \A v \in Workers : JobTypes(v, job[v])'
    BY <1>0, <1>1 DEF JobTypes, WorkerOf
  <2> QED
    BY <1>1, <2>1 DEF StorageTypes, StoreTypes, StorageTypeOK
<1>3. ASSUME OwnKeys, NEW v \in Workers
      PROVE  SavingInv(job[v])' /\ RemovingInv(job[v])'
  <2>1. CASE v = w
    BY <1>1, <1>3, <2>1
  <2>2. CASE v # w
    <3>1. PICK j \in Job : j = job[v]
      BY <1>0
    <3>2. SavingInv(j) /\ RemovingInv(j)
      BY <1>3, <3>1 DEF StorageInv
    <3>3. j.pc # "idle" => j.cfg \in Configs /\ ScopeOf[j.cfg] # s
      BY <1>0, <2>2, <3>1, WorkerOfScope DEF JobTypes
    <3>4. j.pc # "idle" => j.cfg \in Configs /\ Still(ScopeOf[j.cfg])
      BY <3>3, OfferFacts DEF Local
    <3>5. SavingInv(j)' /\ RemovingInv(j)'
      BY <3>2, <3>4, OtherJob
    <3> QED
      BY <1>1, <2>2, <3>1, <3>5
  <2> QED
    BY <2>1, <2>2
<1>4. ASSUME OwnKeys, NEW t \in Scopes
      PROVE  ScopeInv(t, job[WorkerIn(t)])'
  <2>1. CASE t = s
    <3>1. WorkerIn(t)' = w
      BY <2>1 DEF WorkerIn
    <3>2. job'[WorkerIn(t)'] = k
      BY <1>1, <3>1
    <3> QED
      BY <1>4, <2>1, <3>2
  <2>2. CASE t # s
    <3>1. PICK j \in Job : j = job[WorkerIn(t)]
      BY <1>0, WorkerOfScope
    <3>2. ScopeInv(t, j)
      BY <1>4, <3>1 DEF StorageInv
    <3>3. PICK l : l = job'[WorkerIn(t)]
      OBVIOUS
    <3>4. j = l \/ (~On(t, j) /\ ~On(t, l))
      BY <1>1, <2>2, <3>1, <3>3, WorkerOfScope DEF On
    <3>5. Still(t) /\ (On(t, j) => j.cfg \in Configs)
      BY <1>0, <2>2, <3>1, WorkerOfScope DEF Local, JobTypes, On
    <3>6. ScopeInv(t, l)'
      BY <3>2, <3>4, <3>5, OtherScope
    <3>7. WorkerIn(t)' = WorkerIn(t)
      BY DEF WorkerIn
    <3> QED
      BY <3>3, <3>6, <3>7
  <2> QED
    BY <2>1, <2>2
<1>5. OwnKeys' <=> OwnKeys
  BY DEF OwnKeys
<1> QED
  BY <1>2, <1>3, <1>4, <1>5 DEF StorageInv

-----------------------------------------------------------------------------
(* Nothing changes in the scope but what is stored of one addon.           *)
OnlySlot(s, p) ==
  /\ \A id \in IDs : id # p.id => idSpace'[s][id] = idSpace[s][id]
  /\ \A o \in Offers : o.id # p.id =>
       /\ nvSpace'[s][o.nv] = nvSpace[s][o.nv]
       /\ ChartOf[o.nv] \in charts'[s] <=> ChartOf[o.nv] \in charts[s]
       /\ groups'[s][o.id] = groups[s][o.id]

(* A step about one addon leaves the state of the others as it is.         *)
LEMMA SlotsKept ==
  ASSUME NEW s \in Scopes, NEW p \in Offers, OnlySlot(s, p), UNCHANGED driver,
         NEW o \in Offers, o.id # p.id
  PROVE  /\ Served(s, o)' <=> Served(s, o)
         /\ Absent(s, o)' <=> Absent(s, o)
         /\ \A pc : Saved(s, o, pc)' <=> Saved(s, o, pc)
         /\ \A pc : Removed(s, o, pc)' <=> Removed(s, o, pc)
<1>1. /\ idSpace'[s][o.id] = idSpace[s][o.id] /\ nvSpace'[s][o.nv] = nvSpace[s][o.nv]
      /\ ChartOf[o.nv] \in charts'[s] <=> ChartOf[o.nv] \in charts[s]
      /\ groups'[s][o.id] = groups[s][o.id]
  BY OfferFacts DEF OnlySlot
<1> QED
  BY <1>1 DEF Served, Absent, Saved, Removed, Mapped, ChartRef

(* Addons of one ID are told apart by nothing but their contents.          *)
LEMMA SameSlot ==
  ASSUME OwnKeys, NEW o \in Offers, NEW p \in Offers, o.id = p.id
  PROVE  o.nv = p.nv
  BY DEF OwnKeys

(* The parts of ScopeInv.                                                  *)
LEMMA ScopeParts ==
  ASSUME NEW s, NEW j, NEW o \in Offers, ScopeInv(s, j), IsClean(s, o)
  PROVE  /\ o \in Kept(s) /\ o.id \notin IdsOf(InHand(s, j)) => Served(s, o)
         /\ o.id \notin IdsOf(Kept(s)) /\ o.id \notin IdsOf(InHand(s, j)) => Gone(s, j, o)
         /\ On(s, j) /\ j.pc \in Removing =>
              /\ o \in j.todo => Served(s, o) \/ (j.delete /\ Absent(s, o))
              /\ j.pc \in HasAddon /\ o = j.cur => Removed(s, o, j.pc)
  BY DEF ScopeInv

(* What it says of the addons that are being saved.                        *)
LEMMA SavedParts ==
  ASSUME NEW s, NEW j, ScopeInv(s, j), On(s, j), j.pc \in Saving, NEW o \in j.offers, o \notin j.partial
  PROVE  /\ j.pc \in HasAddon /\ o = j.cur => Saved(s, o, j.pc)
         /\ o \notin j.todo /\ (j.pc \in HasAddon => o # j.cur) => Served(s, o)
  BY DEF ScopeInv

(* What is listed is offered by somebody.                                  *)
LEMMA ListedOffers ==
  ASSUME StoreTypes, NEW s, NEW j
  PROVE  Kept(s) \subseteq Offers /\ Leaving(s, j) \subseteq Offers
  BY StatusFields DEF Kept, Leaving

(* An addon that is gone is no longer so only if its own keys change.      *)
LEMMA GoneKept ==
  ASSUME StoreTypes, NEW s \in Scopes, NEW p \in Offers, OnlySlot(s, p), UNCHANGED driver,
         NEW o \in Offers, o.id # p.id, NEW j, NEW k, Leaving(s, k)' = Leaving(s, j), Gone(s, j, o)
  PROVE  Gone(s, k, o)'
<1>1. Leaving(s, j) \subseteq Offers
  BY ListedOffers
<1>2. Absent(s, o)' <=> Absent(s, o)
  BY SlotsKept
<1>3. \A q \in Leaving(s, j) : q.id = o.id => (Served(s, q)' <=> Served(s, q))
  BY <1>1, SlotsKept
<1> QED
  BY <1>2, <1>3 DEF Gone

(* What is saved once more as it was stored is not in hand, and nobody     *)
(* else has it.                                                            *)
LEMMA SavedAnew ==
  ASSUME StatusInv, NEW j \in Job, SavingInv(j), j.pc \in Saving, j.cfg \in Configs,
         NEW s, s = ScopeOf[j.cfg], NEW p \in j.offers, NEW o \in Offers, o.id = p.id, p \notin j.todo,
         o.id \notin IdsOf(InHand(s, j))
  PROVE  /\ o.id \in IdsOf(Kept(s))
         /\ o \in Kept(s) => o = p
<1>1. j.pc # "idle" /\ On(s, j) /\ InHand(s, j) = Touched(j)
  BY Phases DEF On, InHand
<1>2. p \in status[j.cfg].ready
  BY <1>1 DEF Touched, IdsOf
<1>3. j.cfg \notin deleting /\ p \in Kept(s)
  BY <1>2 DEF SavingInv, Kept, Stays
<1>4. ASSUME o \in Kept(s)
      PROVE  o = p
  <2>1. PICK d \in Configs : ScopeOf[d] = s /\ o \in status[d].ready
    BY <1>4 DEF Kept, Stays
  <2>2. d = j.cfg
    BY <1>2, <2>1 DEF StatusInv
  <2> QED
    BY <1>2, <2>1, <2>2 DEF StatusInv, Listed
<1> QED
  BY <1>3, <1>4 DEF IdsOf

(* A call about the addon in hand.                                         *)
LEMMA SlotStepKeeps ==
  ASSUME StorageInv, OwnKeys, NEW w \in Workers, NEW j \in Job, j = job[w], j.pc \in HasAddon,
         NEW k \in Job, k.pc \in HasAddon, k.pc \in Saving <=> j.pc \in Saving,
         k.cfg = j.cfg, k.delete = j.delete, k.offers = j.offers, k.todo = j.todo, k.cur = j.cur,
         k.failed = j.failed, k.partial = j.partial,
         NEW s \in Scopes, s = ScopeOf[j.cfg], OnlySlot(s, j.cur),
         UNCHANGED <<driver, status, deleting, spoiled>>,
         j.pc \in Saving => /\ j.cur \notin j.partial => Saved(s, j.cur, k.pc)'
                            /\ Served(s, j.cur) => Served(s, j.cur)',
         j.pc \in Removing => (IsClean(s, j.cur) => Removed(s, j.cur, k.pc)')
  PROVE  StatusInv' /\ SavingInv(k)' /\ RemovingInv(k)' /\ ScopeInv(s, k)'
<1>0. /\ StatusInv /\ SavingInv(j) /\ RemovingInv(j) /\ j.cur \in Offers /\ j.pc # "idle"
      /\ j.cfg \in Configs /\ WorkerIn(s) = w /\ StoreTypes
  BY Phases, WorkerOfScope, TypesSplit DEF StorageInv, StorageTypes, JobTypes
<1>1. ScopeInv(s, j)
  BY <1>0 DEF StorageInv
<1>2. k.pc \in Removing <=> j.pc \in Removing
  BY Phases, JobFields
<1>3. \A o : IsClean(s, o)' <=> IsClean(s, o)
  BY DEF IsClean
<1>4. StatusInv'
  BY <1>0 DEF StatusInv, IsClean
<1>5. /\ On(s, j) /\ On(s, k) /\ InHand(s, k) = InHand(s, j)
  BY <1>0, Phases DEF On, InHand, Touched
<1>6. Kept(s)' = Kept(s) /\ Leaving(s, k)' = Leaving(s, j)
  BY <1>5 DEF Kept, Stays, Leaving, Waits, On
<1>7. SavingInv(k)'
  BY <1>0, <1>3 DEF SavingInv, HasAddon
<1>8. InHand(s, k)' = InHand(s, j)
  BY <1>5 DEF InHand, On, Touched
<1>9. RemovingInv(k)'
  BY <1>0, <1>2, <1>3, <1>6, <1>8 DEF RemovingInv
<1>10. ScopeInv(s, k)'
  <2>1. On(s, k)'
    BY <1>5 DEF On
  <2>2. ASSUME NEW o \in Offers, o.id # j.cur.id
        PROVE  /\ (Served(s, o)' <=> Served(s, o)) /\ (Absent(s, o)' <=> Absent(s, o))
               /\ Gone(s, j, o) => Gone(s, k, o)'
    BY <1>0, <1>6, <2>2, SlotsKept, GoneKept
  <2>3. ASSUME NEW o \in Offers, IsClean(s, o), o.id # j.cur.id
        PROVE  /\ o \in Kept(s) /\ o.id \notin IdsOf(InHand(s, j)) => Served(s, o)'
               /\ o.id \notin IdsOf(Kept(s)) /\ o.id \notin IdsOf(InHand(s, j)) => Gone(s, k, o)'
               /\ j.pc \in Removing =>
                    /\ o \in j.todo => Served(s, o)' \/ (j.delete /\ Absent(s, o)')
                    /\ o # j.cur
    BY <1>1, <1>5, <2>2, <2>3, ScopeParts
  <2>4. ASSUME NEW o \in Offers, IsClean(s, o), o.id = j.cur.id
        PROVE  /\ o \in Kept(s) /\ o.id \notin IdsOf(InHand(s, j)) => Served(s, o)'
               /\ o.id \notin IdsOf(Kept(s)) /\ o.id \notin IdsOf(InHand(s, j)) => Gone(s, k, o)'
               /\ j.pc \in Removing =>
                    /\ o \in j.todo => Served(s, o)' \/ (j.delete /\ Absent(s, o)')
                    /\ o = j.cur => Removed(s, o, k.pc)'
    <3>1. CASE j.pc \in Removing
      <4>1. o.id \in IdsOf(InHand(s, j)) /\ o \notin j.todo
        <5>1. j.cur \in InHand(s, j)
          BY <1>0, <1>5, <3>1, Phases, OfferFacts DEF InHand
        <5> QED
          BY <1>0, <2>4, <3>1, <5>1 DEF IdsOf, RemovingInv
      <4> QED
        BY <2>4, <3>1, <4>1
    <3>2. CASE j.pc \in Saving
      <4>1. j.cur \in j.offers /\ j.cur \notin j.todo
        BY <1>0, <3>2 DEF SavingInv
      <4>2. o.id \notin IdsOf(InHand(s, j)) => o.id \in IdsOf(Kept(s)) /\ (o \in Kept(s) => o = j.cur)
        BY <1>0, <2>4, <3>2, <4>1, SavedAnew
      <4>3. o \in Kept(s) /\ o.id \notin IdsOf(InHand(s, j)) => Served(s, o)
        BY <1>1, <2>4, ScopeParts
      <4> QED
        BY <3>2, <4>2, <4>3, Phases
    <3> QED
      BY <1>0, <3>1, <3>2, JobFields
  <2>5. ASSUME j.pc \in Saving, NEW o \in j.offers, o \notin j.partial
        PROVE  /\ o = j.cur => Saved(s, o, k.pc)'
               /\ o \notin j.todo /\ o # j.cur => Served(s, o)'
    <3>1. ASSUME o # j.cur
          PROVE  o \in Offers /\ o.id # j.cur.id
      BY <1>0, <2>5, <3>1, JobFields DEF SavingInv
    <3>2. o \notin j.todo /\ o # j.cur => Served(s, o)
      BY <1>1, <1>5, <2>5, SavedParts
    <3> QED
      BY <2>2, <2>5, <3>1, <3>2
  <2>6. ASSUME NEW o \in Offers, IsClean(s, o)
        PROVE  /\ o \in Kept(s) /\ o.id \notin IdsOf(InHand(s, j)) => Served(s, o)'
               /\ o.id \notin IdsOf(Kept(s)) /\ o.id \notin IdsOf(InHand(s, j)) => Gone(s, k, o)'
               /\ k.pc \in Removing =>
                    /\ o \in k.todo => Served(s, o)' \/ (k.delete /\ Absent(s, o)')
                    /\ o = k.cur => Removed(s, o, k.pc)'
    BY <1>2, <2>3, <2>4, <2>6
  <2>7. IdsOf(InHand(s, k))' = IdsOf(InHand(s, j)) /\ IdsOf(Kept(s))' = IdsOf(Kept(s))
    BY <1>6, <1>8 DEF IdsOf
  <2> QED
    BY <1>3, <1>6, <2>1, <2>5, <2>6, <2>7 DEF ScopeInv
<1> QED
  BY <1>4, <1>7, <1>9, <1>10

(* A write under one key of one scope.                                     *)
LEMMA PutFacts ==
  ASSUME NEW S, NEW K, NEW V, NEW f \in [S -> [K -> V]], NEW s \in S, NEW k \in K, NEW v \in V, NEW g,
         g = [f EXCEPT ![s][k] = v]
  PROVE  /\ g \in [S -> [K -> V]]
         /\ \A t \in S : t # s => g[t] = f[t]
         /\ \A i \in K : g[s][i] = IF i = k THEN v ELSE f[s][i]
  OBVIOUS

(* The job goes on.                                                        *)
LEMMA GotoFacts ==
  ASSUME StorageInv, NEW w \in Workers, NEW pc \in Saving \cup Removing, Goto(w, pc)
  PROVE  \E k \in Job : /\ job' = [job EXCEPT ![w] = k] /\ k.pc = pc /\ k.cfg = job[w].cfg
                        /\ k.delete = job[w].delete /\ k.offers = job[w].offers
                        /\ k.todo = job[w].todo /\ k.cur = job[w].cur /\ k.failed = job[w].failed
                        /\ k.partial = job[w].partial
<1> DEFINE k == [job[w] EXCEPT !.pc = pc]
<1>0. job[w] \in Job
  BY TypesSplit DEF StorageInv
<1>1. /\ k \in Job /\ k.pc = pc /\ k.cfg = job[w].cfg
      /\ k.delete = job[w].delete /\ k.offers = job[w].offers
      /\ k.todo = job[w].todo /\ k.cur = job[w].cur /\ k.failed = job[w].failed
      /\ k.partial = job[w].partial
  BY <1>0 DEF Job
<1>2. k.pc # "idle"
  BY <1>1, Phases
<1>3. job' = [job EXCEPT ![w] = k]
  BY <1>2 DEF Goto, Set
<1> HIDE DEF k
<1> QED
  BY <1>1, <1>3

(* A controller with an addon in hand.                                     *)
LEMMA AtWork ==
  ASSUME StorageInv, NEW w \in Workers, job[w].pc # "idle"
  PROVE  /\ job[w] \in Job /\ job[w].cfg \in Configs /\ WorkerOf(job[w].cfg) = w
         /\ scope(w) \in Scopes /\ scope(w) = ScopeOf[job[w].cfg] /\ WorkerIn(scope(w)) = w
         /\ StoreTypes /\ JobTypes(w, job[w])
         /\ job[w].pc \in HasAddon =>
              /\ job[w].cur \in Offers /\ job[w].cur.id \in IDs /\ job[w].cur.nv \in NVs
              /\ ChartOf[job[w].cur.nv] \in Charts
  BY TypesSplit, OfferFacts, WorkerOfScope DEF StorageInv, JobTypes, scope

(* A step that takes the addon in hand to its next phase keeps the         *)
(* invariant if it brings the addon as far as that phase says.             *)
LEMMA GotoKeeps ==
  ASSUME StorageInv, NEW w \in Workers, job[w].pc \in HasAddon, NEW pc \in HasAddon, Goto(w, pc),
         pc \in Saving <=> job[w].pc \in Saving, UNCHANGED <<driver, status, deleting, spoiled>>,
         StoreTypes', NEW s \in Scopes, s = scope(w), Local(s), NEW o \in Offers, o = job[w].cur,
         OwnKeys =>
           /\ KeyedInv' /\ OnlySlot(s, o)
           /\ pc \in Saving => /\ o \notin job[w].partial => Saved(s, o, pc)'
                               /\ Served(s, o) => Served(s, o)'
           /\ pc \in Removing => (IsClean(s, o) => Removed(s, o, pc)')
  PROVE  StorageInv'
<1>0. pc \in Saving \cup Removing /\ pc # "idle" /\ job[w].pc # "idle"
  BY DEF HasAddon, Saving, Removing
<1>1. PICK k \in Job :
        /\ job' = [job EXCEPT ![w] = k] /\ k.pc = pc /\ k.cfg = job[w].cfg
        /\ k.delete = job[w].delete /\ k.offers = job[w].offers
        /\ k.todo = job[w].todo /\ k.cur = job[w].cur /\ k.failed = job[w].failed
        /\ k.partial = job[w].partial
  BY <1>0, GotoFacts
<1>2. PICK j \in Job : j = job[w]
  BY <1>0, AtWork
<1>3. /\ j.cfg \in Configs /\ WorkerOf(j.cfg) = w /\ s = ScopeOf[j.cfg] /\ WorkerIn(s) = w
      /\ j.cur = o
  BY <1>0, <1>2, AtWork
<1>4. JobTypes(w, k)
  BY <1>0, <1>1, <1>2, <1>3 DEF JobTypes
<1>5. ASSUME OwnKeys
      PROVE  KeyedInv' /\ StatusInv' /\ SavingInv(k)' /\ RemovingInv(k)' /\ ScopeInv(s, k)'
  <2>1. /\ j.pc \in Saving => /\ j.cur \notin j.partial => Saved(s, j.cur, k.pc)'
                              /\ Served(s, j.cur) => Served(s, j.cur)'
        /\ j.pc \in Removing => (IsClean(s, j.cur) => Removed(s, j.cur, k.pc)')
    <3>1. pc \in Removing <=> j.pc \in Removing
      BY <1>0, <1>2, Phases, JobFields
    <3> QED
      BY <1>1, <1>2, <1>3, <1>5, <3>1
  <2>2. KeyedInv' /\ OnlySlot(s, j.cur)
    BY <1>3, <1>5
  <2> QED
    BY <1>1, <1>2, <1>3, <1>5, <2>1, <2>2, SlotStepKeeps
<1> QED
  BY <1>0, <1>1, <1>2, <1>3, <1>4, <1>5, StepKeeps

(* What is stored elsewhere stays what it was.                             *)
LEMMA KeyedKept ==
  ASSUME OwnKeys, KeyedInv, UNCHANGED driver, NEW s \in Scopes, NEW p \in Offers, OnlySlot(s, p),
         \A t \in Scopes : t # s => idSpace'[t] = idSpace[t] /\ nvSpace'[t] = nvSpace[t],
         idSpace'[s][p.id] \in {idSpace[s][p.id], p, Nil},
         nvSpace'[s][p.nv] \in {nvSpace[s][p.nv], Mapped(p), Nil}
  PROVE  KeyedInv'
<1>1. ASSUME NEW t \in Scopes, NEW id \in IDs, idSpace'[t][id] # Nil
      PROVE  idSpace'[t][id].id = id
  BY <1>1 DEF KeyedInv, OnlySlot
<1>2. ASSUME NEW t \in Scopes, NEW o \in Offers
      PROVE  nvSpace'[t][o.nv] # Nil =>
               IF driver = "etcd" THEN nvSpace'[t][o.nv].nv = o.nv ELSE nvSpace'[t][o.nv] = o.id
  <2>1. nvSpace[t][o.nv] # Nil =>
          IF driver = "etcd" THEN nvSpace[t][o.nv].nv = o.nv ELSE nvSpace[t][o.nv] = o.id
    BY DEF KeyedInv
  <2>2. CASE t # s \/ o.id # p.id
    BY <2>1, <2>2 DEF OnlySlot
  <2>3. CASE t = s /\ o.id = p.id
    <3>1. o.nv = p.nv
      BY <2>3, SameSlot
    <3>2. IF driver = "etcd" THEN Mapped(p) = p ELSE Mapped(p) = p.id
      BY DEF Mapped
    <3> QED
      BY <2>1, <2>3, <3>1, <3>2
  <2> QED
    BY <2>2, <2>3
<1> QED
  BY <1>1, <1>2 DEF KeyedInv
(* The calls about one addon, one after the other.                         *)
LEMMA PutIDKeeps ==
  ASSUME StorageInv, NEW w \in Workers, PutID(w)
  PROVE  StorageInv'
<1>0. /\ job[w].pc = "id" /\ "id" \in HasAddon /\ "nv" \in HasAddon /\ "id" \in Saving /\ "nv" \in Saving
      /\ "nv" \notin Removing
  BY DEF PutID, At, HasAddon, Saving, Removing
<1>1. PICK s \in Scopes, o \in Offers : s = scope(w) /\ o = job[w].cur /\ o.id \in IDs
  BY <1>0, AtWork
<1>2. /\ Goto(w, "nv") /\ UNCHANGED <<driver, nvSpace, charts, groups, status, deleting, spoiled>>
      /\ idSpace' = [idSpace EXCEPT ![s][o.id] = o] /\ StoreTypes
  BY <1>0, <1>1, AtWork DEF PutID
<1>3. /\ idSpace' \in [Scopes -> [IDs -> Offers \cup {Nil}]]
      /\ \A t \in Scopes : t # s => idSpace'[t] = idSpace[t]
      /\ \A i \in IDs : idSpace'[s][i] = IF i = o.id THEN o ELSE idSpace[s][i]
  <2>1. idSpace \in [Scopes -> [IDs -> Offers \cup {Nil}]]
    BY <1>2 DEF StoreTypes
  <2> QED
    BY <1>1, <1>2, <2>1, PutFacts
<1>4. StoreTypes' /\ Local(s)
  BY <1>2, <1>3 DEF StoreTypes, Local, Still, IsClean
<1>5. ASSUME OwnKeys
      PROVE  KeyedInv' /\ OnlySlot(s, o) /\ (o \notin job[w].partial => Saved(s, o, "nv")')
             /\ (Served(s, o) => Served(s, o)')
  <2>1. OnlySlot(s, o)
    BY <1>2, <1>3, OfferFacts DEF OnlySlot
  <2>2. KeyedInv'
    BY <1>1, <1>2, <1>3, <1>5, <2>1, KeyedKept DEF StorageInv
  <2>3. o \notin job[w].partial => Saved(s, o, "id")
    <3>1. SavingInv(job[w]) /\ ScopeInv(s, job[w]) /\ On(s, job[w])
      BY <1>0, <1>1, <1>5, AtWork DEF StorageInv, On
    <3> QED
      BY <1>0, <1>1, <3>1, SavedParts DEF SavingInv
  <2>4. o \notin job[w].partial => Saved(s, o, "nv")'
    BY <1>1, <1>2, <1>3, <2>3 DEF Saved
  <2>5. Served(s, o) => Served(s, o)'
    BY <1>1, <1>2, <1>3 DEF Served, Mapped
  <2> QED
    BY <2>1, <2>2, <2>4, <2>5
<1> QED
  BY <1>0, <1>1, <1>2, <1>4, <1>5, GotoKeeps

(* Upsert of the etcd driver, the name and version space: with it the addon*)
(* is found by both keys.                                                  *)
LEMMA PutNVKeeps ==
  ASSUME StorageInv, NEW w \in Workers, PutNameVersion(w)
  PROVE  StorageInv'
<1>0. /\ job[w].pc = "nv" /\ "nv" \in HasAddon /\ "chart" \in HasAddon /\ "nv" \in Saving
      /\ "chart" \in Saving /\ "chart" \notin Removing
  BY DEF PutNameVersion, At, HasAddon, Saving, Removing
<1>1. PICK s \in Scopes, o \in Offers : s = scope(w) /\ o = job[w].cur /\ o.id \in IDs /\ o.nv \in NVs
  BY <1>0, AtWork
<1>2. /\ Goto(w, "chart") /\ UNCHANGED <<driver, idSpace, charts, groups, status, deleting, spoiled>>
      /\ nvSpace' = [nvSpace EXCEPT ![s][o.nv] = Mapped(o)] /\ StoreTypes
  BY <1>0, <1>1, AtWork DEF PutNameVersion
<1> DEFINE V == (IF driver = "etcd" THEN Offers ELSE IDs) \cup {Nil}
<1>3. /\ nvSpace' \in [Scopes -> [NVs -> V]]
      /\ \A t \in Scopes : t # s => nvSpace'[t] = nvSpace[t]
      /\ \A i \in NVs : nvSpace'[s][i] = IF i = o.nv THEN Mapped(o) ELSE nvSpace[s][i]
  <2>1. nvSpace \in [Scopes -> [NVs -> V]]
    BY <1>2 DEF StoreTypes
  <2>2. PICK v \in V : v = Mapped(o)
    BY <1>1 DEF Mapped
  <2> HIDE DEF V
  <2> QED
    BY <1>1, <1>2, <2>1, <2>2, PutFacts
<1>4. StoreTypes' /\ Local(s)
  BY <1>2, <1>3 DEF StoreTypes, Local, Still, IsClean
<1>5. ASSUME OwnKeys
      PROVE  KeyedInv' /\ OnlySlot(s, o) /\ (o \notin job[w].partial => Saved(s, o, "chart")')
             /\ (Served(s, o) => Served(s, o)')
  <2>1. OnlySlot(s, o)
    BY <1>2, <1>3, <1>5, OfferFacts DEF OnlySlot, OwnKeys
  <2>2. KeyedInv'
    BY <1>1, <1>2, <1>3, <1>5, <2>1, KeyedKept DEF StorageInv
  <2>3. o \notin job[w].partial => Saved(s, o, "nv")
    <3>1. SavingInv(job[w]) /\ ScopeInv(s, job[w]) /\ On(s, job[w])
      BY <1>0, <1>1, <1>5, AtWork DEF StorageInv, On
    <3> QED
      BY <1>0, <1>1, <3>1, SavedParts DEF SavingInv
  <2>4. o \notin job[w].partial => Saved(s, o, "chart")'
    BY <1>1, <1>2, <1>3, <2>3 DEF Saved, Mapped
  <2>5. Served(s, o) => Served(s, o)'
    BY <1>1, <1>2, <1>3 DEF Served, Mapped
  <2> QED
    BY <2>1, <2>2, <2>4, <2>5
<1> QED
  BY <1>0, <1>1, <1>2, <1>4, <1>5, GotoKeeps

(* Upsert of the memory driver: a mapping that stays is to the ID of the   *)
(* same addon.                                                             *)
LEMMA UpsertKeeps ==
  ASSUME StorageInv, NEW w \in Workers, UpsertInMemory(w)
  PROVE  StorageInv'
<1>0. /\ job[w].pc = "id" /\ "id" \in HasAddon /\ "chart" \in HasAddon /\ "id" \in Saving
      /\ "chart" \in Saving /\ "chart" \notin Removing
  BY DEF UpsertInMemory, At, HasAddon, Saving, Removing
<1>1. PICK s \in Scopes, o \in Offers : s = scope(w) /\ o = job[w].cur /\ o.id \in IDs /\ o.nv \in NVs
  BY <1>0, AtWork
<1> DEFINE x == IF nvSpace[s][o.nv] # Nil THEN nvSpace[s][o.nv] ELSE o.id
<1>2. /\ Goto(w, "chart") /\ UNCHANGED <<driver, charts, groups, status, deleting, spoiled>>
      /\ idSpace' = [idSpace EXCEPT ![s][o.id] = o]
      /\ nvSpace' = [nvSpace EXCEPT ![s][o.nv] = x]
      /\ StoreTypes /\ driver = "memory"
  BY <1>0, <1>1, AtWork DEF UpsertInMemory, Mapped
<1>3. /\ idSpace' \in [Scopes -> [IDs -> Offers \cup {Nil}]]
      /\ \A t \in Scopes : t # s => idSpace'[t] = idSpace[t]
      /\ \A i \in IDs : idSpace'[s][i] = IF i = o.id THEN o ELSE idSpace[s][i]
  <2>1. idSpace \in [Scopes -> [IDs -> Offers \cup {Nil}]]
    BY <1>2 DEF StoreTypes
  <2> QED
    BY <1>1, <1>2, <2>1, PutFacts
<1>4. PICK v \in IDs \cup {Nil} : v = x
  BY <1>1, <1>2 DEF StoreTypes
<1> HIDE DEF x
<1>5. /\ nvSpace' \in [Scopes -> [NVs -> IDs \cup {Nil}]]
      /\ \A t \in Scopes : t # s => nvSpace'[t] = nvSpace[t]
      /\ \A i \in NVs : nvSpace'[s][i] = IF i = o.nv THEN v ELSE nvSpace[s][i]
  <2>1. nvSpace \in [Scopes -> [NVs -> IDs \cup {Nil}]]
    BY <1>2 DEF StoreTypes
  <2> QED
    BY <1>1, <1>2, <1>4, <2>1, PutFacts
<1>6. StoreTypes' /\ Local(s)
  BY <1>2, <1>3, <1>5 DEF StoreTypes, Local, Still, IsClean
<1>7. ASSUME OwnKeys
      PROVE  KeyedInv' /\ OnlySlot(s, o) /\ (o \notin job[w].partial => Saved(s, o, "chart")')
             /\ (Served(s, o) => Served(s, o)')
  <2>1. OnlySlot(s, o)
    BY <1>2, <1>3, <1>5, <1>7, OfferFacts DEF OnlySlot, OwnKeys
  <2>2. v = o.id /\ v = Mapped(o)
    BY <1>2, <1>4, <1>7 DEF StorageInv, KeyedInv, Mapped, x
  <2>3. KeyedInv'
    BY <1>1, <1>2, <1>3, <1>5, <1>7, <2>1, <2>2, KeyedKept DEF StorageInv
  <2>4. o \notin job[w].partial => Saved(s, o, "id")
    <3>1. SavingInv(job[w]) /\ ScopeInv(s, job[w]) /\ On(s, job[w])
      BY <1>0, <1>1, <1>7, AtWork DEF StorageInv, On
    <3> QED
      BY <1>0, <1>1, <3>1, SavedParts DEF SavingInv
  <2>5. o \notin job[w].partial => Saved(s, o, "chart")'
    BY <1>1, <1>2, <1>3, <1>5, <2>2, <2>4 DEF Saved, Mapped
  <2>6. Served(s, o) => Served(s, o)'
    BY <1>1, <1>2, <1>3, <1>5, <2>2 DEF Served, Mapped
  <2> QED
    BY <2>1, <2>3, <2>5, <2>6
<1> QED
  BY <1>0, <1>1, <1>2, <1>6, <1>7, GotoKeeps

(* Remove of the etcd driver, the name and version space.                  *)
LEMMA DeleteNVKeeps ==
  ASSUME StorageInv, NEW w \in Workers, DeleteNameVersion(w)
  PROVE  StorageInv'
<1>0. /\ job[w].pc = "delNV" /\ "delNV" \in HasAddon /\ "delID" \in HasAddon /\ "delNV" \notin Saving
      /\ "delID" \notin Saving
  BY DEF DeleteNameVersion, At, HasAddon, Saving
<1>1. PICK s \in Scopes, o \in Offers : s = scope(w) /\ o = job[w].cur /\ o.id \in IDs /\ o.nv \in NVs
  BY <1>0, AtWork
<1>2. /\ Goto(w, "delID") /\ UNCHANGED <<driver, idSpace, charts, groups, status, deleting, spoiled>>
      /\ nvSpace' = [nvSpace EXCEPT ![s][o.nv] = Nil] /\ StoreTypes
  BY <1>0, <1>1, AtWork DEF DeleteNameVersion
<1> DEFINE V == (IF driver = "etcd" THEN Offers ELSE IDs) \cup {Nil}
<1>3. /\ nvSpace' \in [Scopes -> [NVs -> V]]
      /\ \A t \in Scopes : t # s => nvSpace'[t] = nvSpace[t]
      /\ \A i \in NVs : nvSpace'[s][i] = IF i = o.nv THEN Nil ELSE nvSpace[s][i]
  <2>1. nvSpace \in [Scopes -> [NVs -> V]] /\ Nil \in V
    BY <1>2 DEF StoreTypes
  <2> HIDE DEF V
  <2> QED
    BY <1>1, <1>2, <2>1, PutFacts
<1>4. StoreTypes' /\ Local(s)
  BY <1>2, <1>3 DEF StoreTypes, Local, Still, IsClean
<1>5. ASSUME OwnKeys
      PROVE  KeyedInv' /\ OnlySlot(s, o) /\ Removed(s, o, "delID")'
  <2>1. OnlySlot(s, o)
    BY <1>2, <1>3, <1>5, OfferFacts DEF OnlySlot, OwnKeys
  <2>2. KeyedInv'
    BY <1>1, <1>2, <1>3, <1>5, <2>1, KeyedKept DEF StorageInv
  <2>3. Removed(s, o, "delID")'
    BY <1>1, <1>3 DEF Removed
  <2> QED
    BY <2>1, <2>2, <2>3
<1> QED
  BY <1>0, <1>1, <1>2, <1>4, <1>5, GotoKeeps

(* How far the addon in hand is removed.                                   *)
LEMMA RemovedSoFar ==
  ASSUME StorageInv, OwnKeys, NEW w \in Workers, job[w].pc \in HasAddon, job[w].pc \in Removing,
         NEW s, s = scope(w), NEW o, o = job[w].cur, IsClean(s, o)
  PROVE  Removed(s, o, job[w].pc)
<1>1. job[w].pc # "idle"
  BY Phases
<1>2. o \in Offers /\ ScopeInv(s, job[w]) /\ On(s, job[w])
  BY <1>1, AtWork DEF StorageInv, On
<1> QED
  BY <1>2, ScopeParts

(* Remove of the etcd driver, the ID space.                                *)
LEMMA DeleteIDKeeps ==
  ASSUME StorageInv, NEW w \in Workers, DeleteID(w)
  PROVE  StorageInv'
<1>0. /\ job[w].pc = "delID" /\ "delID" \in HasAddon /\ "undocs" \in HasAddon /\ "delID" \notin Saving
      /\ "undocs" \notin Saving /\ "delID" \in Removing
  BY DEF DeleteID, At, HasAddon, Saving, Removing
<1>1. PICK s \in Scopes, o \in Offers : s = scope(w) /\ o = job[w].cur /\ o.id \in IDs
  BY <1>0, AtWork
<1>2. /\ Goto(w, "undocs") /\ UNCHANGED <<driver, nvSpace, charts, groups, status, deleting, spoiled>>
      /\ idSpace' = [idSpace EXCEPT ![s][o.id] = Nil] /\ StoreTypes
  BY <1>0, <1>1, AtWork DEF DeleteID
<1>3. /\ idSpace' \in [Scopes -> [IDs -> Offers \cup {Nil}]]
      /\ \A t \in Scopes : t # s => idSpace'[t] = idSpace[t]
      /\ \A i \in IDs : idSpace'[s][i] = IF i = o.id THEN Nil ELSE idSpace[s][i]
  <2>1. idSpace \in [Scopes -> [IDs -> Offers \cup {Nil}]] /\ Nil \in Offers \cup {Nil}
    BY <1>2 DEF StoreTypes
  <2> QED
    BY <1>1, <1>2, <2>1, PutFacts
<1>4. StoreTypes' /\ Local(s)
  BY <1>2, <1>3 DEF StoreTypes, Local, Still, IsClean
<1>5. ASSUME OwnKeys
      PROVE  KeyedInv' /\ OnlySlot(s, o) /\ (IsClean(s, o) => Removed(s, o, "undocs")')
  <2>1. OnlySlot(s, o)
    BY <1>2, <1>3, OfferFacts DEF OnlySlot
  <2>2. KeyedInv'
    BY <1>1, <1>2, <1>3, <1>5, <2>1, KeyedKept DEF StorageInv
  <2>3. IsClean(s, o) => Removed(s, o, "delID")
    BY <1>0, <1>1, <1>5, RemovedSoFar
  <2>4. IsClean(s, o) => Removed(s, o, "undocs")'
    BY <1>1, <1>2, <1>3, <2>3 DEF Removed
  <2> QED
    BY <2>1, <2>2, <2>4
<1> QED
  BY <1>0, <1>1, <1>2, <1>4, <1>5, GotoKeeps

(* The documentation of the addon in hand is removed.                      *)
LEMMA UndocsKeeps ==
  ASSUME StorageInv, NEW w \in Workers, EnsureAssetGroupRemoved(w)
  PROVE  StorageInv'
<1>0. /\ job[w].pc = "undocs" /\ "undocs" \in HasAddon /\ "unchart" \in HasAddon
      /\ "undocs" \notin Saving /\ "unchart" \notin Saving /\ "undocs" \in Removing
  BY DEF EnsureAssetGroupRemoved, At, HasAddon, Saving, Removing
<1>1. PICK s \in Scopes, o \in Offers : s = scope(w) /\ o = job[w].cur /\ o.id \in IDs
  BY <1>0, AtWork
<1>2. /\ Goto(w, "unchart") /\ UNCHANGED <<driver, idSpace, nvSpace, charts, status, deleting, spoiled>>
      /\ groups' = [groups EXCEPT ![s][o.id] = 0] /\ StoreTypes
  BY <1>0, <1>1, AtWork DEF EnsureAssetGroupRemoved
<1>3. /\ groups' \in [Scopes -> [IDs -> Nat]]
      /\ \A t \in Scopes : t # s => groups'[t] = groups[t]
      /\ \A i \in IDs : groups'[s][i] = IF i = o.id THEN 0 ELSE groups[s][i]
  <2>1. groups \in [Scopes -> [IDs -> Nat]] /\ 0 \in Nat
    BY <1>2 DEF StoreTypes
  <2> QED
    BY <1>1, <1>2, <2>1, PutFacts
<1>4. StoreTypes' /\ Local(s)
  BY <1>2, <1>3 DEF StoreTypes, Local, Still, IsClean
<1>5. ASSUME OwnKeys
      PROVE  KeyedInv' /\ OnlySlot(s, o) /\ (IsClean(s, o) => Removed(s, o, "unchart")')
  <2>1. OnlySlot(s, o)
    BY <1>2, <1>3, OfferFacts DEF OnlySlot
  <2>2. KeyedInv'
    BY <1>1, <1>2, <1>5, <2>1, KeyedKept DEF StorageInv
  <2>3. IsClean(s, o) => Removed(s, o, "undocs")
    BY <1>0, <1>1, <1>5, RemovedSoFar
  <2>4. IsClean(s, o) => Removed(s, o, "unchart")'
    BY <1>1, <1>2, <1>3, <2>3 DEF Removed
  <2> QED
    BY <2>1, <2>2, <2>4
<1> QED
  BY <1>0, <1>1, <1>2, <1>4, <1>5, GotoKeeps

-----------------------------------------------------------------------------
(* A removal ends, and the next one begins, or the job ends.               *)
LEMMA EndFacts ==
  ASSUME StorageInv, NEW w \in Workers, NEW j \in Job, j.cfg \in Configs, EndRemoval(w, j)
  PROVE  \E k \in Job :
           /\ job' = [job EXCEPT ![w] = k]
           /\ k.pc = (IF j.todo = {} THEN "idle" ELSE "get")
           /\ k.pc = "idle" => k = Idle
           /\ k.pc # "idle" => /\ k.cfg = j.cfg /\ k.delete = j.delete /\ k.todo = j.todo
                               /\ k.cur = Nil
           /\ status' \in [Configs -> Status]
           /\ \A c \in Configs : c # j.cfg => status'[c] = status[c]
           /\ status'[j.cfg] = IF j.delete /\ j.todo = {} THEN NoStatus ELSE status[j.cfg]
           /\ deleting' = deleting \ (IF j.delete /\ j.todo = {} THEN {j.cfg} ELSE {})
           /\ deleting' \subseteq Configs
<1> DEFINE l == NextRemoval(j)
           k == IF l.pc = "idle" THEN Idle ELSE l
<1>1. /\ l \in Job /\ l.pc = (IF j.todo = {} THEN "idle" ELSE "get")
      /\ l.cfg = j.cfg /\ l.delete = j.delete /\ l.todo = j.todo /\ l.cur = Nil
  BY DEF NextRemoval, Job, Removing
<1>2. job' = [job EXCEPT ![w] = k]
  BY DEF EndRemoval, Set
<1>3. /\ status' \in [Configs -> Status]
      /\ \A c \in Configs : c # j.cfg => status'[c] = status[c]
      /\ status'[j.cfg] = IF j.delete /\ j.todo = {} THEN NoStatus ELSE status[j.cfg]
      /\ deleting' = deleting \ (IF j.delete /\ j.todo = {} THEN {j.cfg} ELSE {})
      /\ deleting' \subseteq Configs
  <2>1. status \in [Configs -> Status] /\ NoStatus \in Status /\ deleting \subseteq Configs
    BY TypesSplit DEF StorageInv, StoreTypes, NoStatus, Status
  <2>2. PICK G : G = {c \in {j.cfg} : j.delete /\ j.todo = {}}
    OBVIOUS
  <2>3. G = (IF j.delete /\ j.todo = {} THEN {j.cfg} ELSE {})
    BY <2>2
  <2>4. /\ status' = [c \in Configs |-> IF c \in G THEN NoStatus ELSE status[c]]
        /\ deleting' = deleting \ G
    BY <2>2 DEF EndRemoval
  <2> QED
    BY <2>1, <2>3, <2>4
<1> HIDE DEF l
<1>4. /\ k \in Job /\ k.pc = (IF j.todo = {} THEN "idle" ELSE "get")
      /\ k.pc = "idle" => k = Idle
      /\ k.pc # "idle" => /\ k.cfg = j.cfg /\ k.delete = j.delete /\ k.todo = j.todo
                          /\ k.cur = Nil
  BY <1>1, IdleFacts
<1> HIDE DEF k
<1> QED
  BY <1>2, <1>3, <1>4

(* Job j lets go of addon p, goes on with addons T, and is then k.         *)
LetsGo(s, j, k, T, p) ==
  /\ T \subseteq j.todo
  /\ T = {} => k.pc = "idle"
  /\ T # {} => k.pc = "get"
  /\ k.pc # "idle" => k.cfg = j.cfg /\ k.delete = j.delete /\ k.todo = T /\ k.cur = Nil
  /\ \A c \in Configs : c # j.cfg => status'[c] = status[c]
  /\ status'[j.cfg] = IF j.delete /\ T = {} THEN NoStatus ELSE status[j.cfg]
  /\ deleting' = deleting \ (IF j.delete /\ T = {} THEN {j.cfg} ELSE {})
  /\ \A o \in InHand(s, j) : o \in T \/ o.id = p.id
  /\ \A o \in T : o.id # p.id
  /\ p \in InHand(s, j)

(* Nothing is left of an addon that a removal lets go of.                  *)
LEMMA HandKeeps ==
  ASSUME StorageInv, OwnKeys, NEW w \in Workers, NEW j \in Job, j = job[w], j.pc \in Removing,
         NEW k \in Job, NEW T, NEW p \in Offers, NEW s \in Scopes, s = ScopeOf[j.cfg],
         LetsGo(s, j, k, T, p), OnlySlot(s, p), UNCHANGED <<driver, spoiled>>,
         IsClean(s, p) => Absent(s, p)'
  PROVE  StatusInv' /\ SavingInv(k)' /\ RemovingInv(k)' /\ ScopeInv(s, k)'
<1> USE DEF LetsGo
<1>0. /\ StatusInv /\ RemovingInv(j) /\ j.pc # "idle" /\ j.pc \notin Saving
      /\ j.cfg \in Configs /\ WorkerIn(s) = w /\ StoreTypes
  BY Phases, WorkerOfScope, TypesSplit DEF StorageInv, JobTypes
<1>1. ScopeInv(s, j)
  BY <1>0 DEF StorageInv
<1>2. k.pc \notin Saving /\ (k.pc # "idle" => k.pc = "get" /\ k.pc \in Removing) /\ "get" \notin HasAddon
  BY DEF Saving, Removing, HasAddon
<1>3. /\ NoStatus.ready = {} /\ NoStatus.failed = {} /\ Listed(NoStatus) = {}
  BY DEF NoStatus, Listed
<1>4. \A o : IsClean(s, o)' <=> IsClean(s, o)
  BY DEF IsClean
<1>5. StatusInv'
  BY <1>0, <1>3 DEF StatusInv, IsClean
<1>6. SavingInv(k)'
  BY <1>2 DEF SavingInv
<1>7. On(s, j) /\ (On(s, k) <=> T # {})
  BY <1>0 DEF On
<1>8. InHand(s, k)' = T
  BY <1>2, <1>7, OfferFacts DEF InHand, On
<1>9. Kept(s)' = Kept(s) /\ Leaving(s, k)' = Leaving(s, j)
  <2>0. (j.delete <=> j.cfg \in deleting) /\ ScopeOf[j.cfg] = s
    BY <1>0 DEF RemovingInv
  <2>1. /\ Kept(s)' = UNION {status'[c].ready : c \in {d \in Configs : Stays(s, d)'}}
        /\ Leaving(s, k)' = UNION {status'[c].ready : c \in {d \in Configs : Waits(s, k, d)'}}
    BY DEF Kept, Leaving
  <2>2. ASSUME NEW c \in Configs, c # j.cfg
        PROVE  (Stays(s, c)' <=> Stays(s, c)) /\ (Waits(s, k, c)' <=> Waits(s, j, c))
    BY <1>0, <2>2 DEF Stays, Waits, On
  <2>3. ~Waits(s, j, j.cfg) /\ ~Waits(s, k, j.cfg)'
    BY <1>0, <1>7, <2>0 DEF Waits, On
  <2>4. CASE ~(j.delete /\ T = {})
    <3>1. Stays(s, j.cfg)' <=> Stays(s, j.cfg)
      BY <2>4 DEF Stays
    <3>2. \A c \in Configs : status'[c] = status[c]
      BY <2>4
    <3> QED
      BY <2>1, <2>2, <2>3, <3>1, <3>2 DEF Kept, Leaving
  <2>5. CASE j.delete /\ T = {}
    <3>1. status'[j.cfg].ready = {} /\ ~Stays(s, j.cfg)
      BY <1>3, <2>0, <2>5 DEF Stays
    <3> QED
      BY <2>1, <2>2, <2>3, <3>1 DEF Kept, Leaving
  <2> QED
    BY <2>4, <2>5
<1>10. IsClean(s, p) => p.id \notin IdsOf(Kept(s))
  BY <1>0 DEF RemovingInv
<1>11. RemovingInv(k)'
  <2> SUFFICES ASSUME k.pc # "idle"
               PROVE  RemovingInv(k)'
    BY Phases DEF RemovingInv
  <2>1. /\ T # {} /\ k.cfg = j.cfg /\ k.delete = j.delete /\ k.todo = T /\ k.cur = Nil /\ k.pc = "get"
        /\ j.delete <=> j.cfg \in deleting'
    BY <1>0, <1>2 DEF RemovingInv
  <2>2. \A o, p_1 \in T : o.id = p_1.id => o = p_1
    BY <1>0 DEF RemovingInv
  <2>3. j.delete => T \subseteq Listed(status'[j.cfg])
    BY <1>0, <2>1 DEF RemovingInv
  <2>4. \A o \in T : IsClean(s, o)' => o.id \notin IdsOf(Kept(s)')
    <3>1. T \subseteq InHand(s, j)
      BY <1>0, <1>7 DEF InHand
    <3> QED
      BY <1>0, <1>4, <1>9, <3>1 DEF RemovingInv
  <2>5. \A o \in InHand(s, k)' : IsClean(s, o)' => o.id \notin IdsOf(Kept(s)')
    BY <1>8, <2>4
  <2> QED
    BY <1>2, <2>1, <2>2, <2>3, <2>5 DEF RemovingInv, IdsOf
<1>12. ScopeInv(s, k)'
  <2>1. ASSUME NEW o \in Offers, IsClean(s, o), o.id # p.id
        PROVE  /\ o \in Kept(s) /\ o.id \notin IdsOf(T) => Served(s, o)'
               /\ o.id \notin IdsOf(Kept(s)) /\ o.id \notin IdsOf(T) => Gone(s, k, o)'
               /\ o \in T => Served(s, o)' \/ (j.delete /\ Absent(s, o)')
    <3>1. (Served(s, o)' <=> Served(s, o)) /\ (Absent(s, o)' <=> Absent(s, o))
      BY <2>1, SlotsKept
    <3>2. Gone(s, j, o) => Gone(s, k, o)'
      BY <1>0, <1>9, <2>1, GoneKept
    <3>3. o.id \notin IdsOf(T) => o.id \notin IdsOf(InHand(s, j))
      BY <2>1 DEF IdsOf
    <3> QED
      BY <1>1, <1>7, <2>1, <3>1, <3>2, <3>3, ScopeParts
  <2>2. ASSUME NEW o \in Offers, IsClean(s, o), o.id = p.id
        PROVE  o \notin Kept(s) /\ o \notin T /\ Absent(s, o)' /\ Gone(s, k, o)'
    <3>1. IsClean(s, p) /\ o.nv = p.nv
      BY <2>2, SameSlot DEF IsClean
    <3> QED
      BY <1>10, <2>2, <3>1 DEF IdsOf, Absent, Gone, ChartRef
  <2> SUFFICES ASSUME NEW o \in Offers, IsClean(s, o)
               PROVE  /\ o \in Kept(s) /\ o.id \notin IdsOf(T) => Served(s, o)'
                      /\ o.id \notin IdsOf(Kept(s)) /\ o.id \notin IdsOf(T) => Gone(s, k, o)'
                      /\ o \in T => Served(s, o)' \/ (j.delete /\ Absent(s, o)')
    <3>1. (On(s, k)' <=> On(s, k)) /\ (k.pc # "idle" => k.pc \notin HasAddon)
      BY <1>2 DEF On
    <3> QED
      BY <1>2, <1>4, <1>7, <1>8, <1>9, <3>1 DEF ScopeInv, IdsOf
  <2> QED
    BY <2>1, <2>2
<1> QED
  BY <1>5, <1>6, <1>11, <1>12

(* The end of a removal: of the addon in hand, or of one to be removed     *)
(* that is not found.                                                      *)
LEMMA EndKeeps ==
  ASSUME StorageInv, NEW w \in Workers, job[w].pc \in Removing, NEW l \in Job,
         l.cfg = job[w].cfg, l.delete = job[w].delete, l.todo \subseteq job[w].todo, EndRemoval(w, l),
         NEW s \in Scopes, s = scope(w), NEW p \in Offers, UNCHANGED <<driver, spoiled>>,
         status' \in [Configs -> Status] /\ deleting' \subseteq Configs => StoreTypes',
         \A t \in Scopes : t # s => /\ idSpace'[t] = idSpace[t] /\ nvSpace'[t] = nvSpace[t]
                                    /\ charts'[t] = charts[t] /\ groups'[t] = groups[t],
         OwnKeys => /\ KeyedInv' /\ OnlySlot(s, p)
                    /\ \A o \in InHand(s, job[w]) : o \in l.todo \/ o.id = p.id
                    /\ \A o \in l.todo : o.id # p.id
                    /\ p \in InHand(s, job[w])
                    /\ IsClean(s, p) => Absent(s, p)'
  PROVE  StorageInv'
<1>0. job[w].pc # "idle"
  BY Phases
<1>1. PICK j \in Job : j = job[w]
  BY <1>0, AtWork
<1>2. /\ j.cfg \in Configs /\ WorkerOf(j.cfg) = w /\ s = ScopeOf[j.cfg] /\ WorkerIn(s) = w
  BY <1>0, <1>1, AtWork
<1>3. PICK k \in Job :
        /\ job' = [job EXCEPT ![w] = k]
        /\ k.pc = (IF l.todo = {} THEN "idle" ELSE "get")
        /\ k.pc = "idle" => k = Idle
        /\ k.pc # "idle" => /\ k.cfg = l.cfg /\ k.delete = l.delete /\ k.todo = l.todo
                            /\ k.cur = Nil
        /\ status' \in [Configs -> Status]
        /\ \A c \in Configs : c # l.cfg => status'[c] = status[c]
        /\ status'[l.cfg] = IF l.delete /\ l.todo = {} THEN NoStatus ELSE status[l.cfg]
        /\ deleting' = deleting \ (IF l.delete /\ l.todo = {} THEN {l.cfg} ELSE {})
        /\ deleting' \subseteq Configs
  BY <1>1, <1>2, EndFacts
<1>4. JobTypes(w, k)
  BY <1>1, <1>2, <1>3 DEF JobTypes, HasAddon
<1>5. StoreTypes' /\ Local(s)
  BY <1>1, <1>2, <1>3 DEF Local, Still, IsClean
<1>6. ASSUME OwnKeys
      PROVE  KeyedInv' /\ StatusInv' /\ SavingInv(k)' /\ RemovingInv(k)' /\ ScopeInv(s, k)'
  <2>1. PICK T : T = l.todo
    OBVIOUS
  <2>2. LetsGo(s, j, k, T, p)
    BY <1>1, <1>3, <1>6, <2>1 DEF LetsGo
  <2>3. KeyedInv' /\ OnlySlot(s, p) /\ (IsClean(s, p) => Absent(s, p)')
    BY <1>6
  <2>4. j.pc \in Removing
    BY <1>1
  <2> QED
    <3>1. StatusInv' /\ SavingInv(k)' /\ RemovingInv(k)' /\ ScopeInv(s, k)'
      BY <1>1, <1>2, <1>6, <2>2, <2>3, <2>4, HandKeeps
    <3> QED
      BY <2>3, <3>1
<1>7. k.pc # "idle" => ScopeOf[k.cfg] = s
  BY <1>1, <1>2, <1>3
<1>8. job' = [job EXCEPT ![w] = k]
  BY <1>3
<1> QED
  BY <1>1, <1>2, <1>4, <1>5, <1>6, <1>7, <1>8, StepKeeps

(* What a removal has in hand.                                             *)
LEMMA HandOfRemoval ==
  ASSUME StorageInv, OwnKeys, NEW w \in Workers, job[w].pc \in Removing, NEW s, s = scope(w)
  PROVE  /\ job[w].pc \in HasAddon =>
              /\ InHand(s, job[w]) = job[w].todo \cup {job[w].cur}
              /\ \A o \in job[w].todo : o.id # job[w].cur.id
         /\ job[w].pc \notin HasAddon => InHand(s, job[w]) = job[w].todo
         /\ \A o, p \in job[w].todo : o.id = p.id => o = p
<1>1. job[w].pc # "idle" /\ job[w].pc \notin Saving
  BY Phases
<1>2. RemovingInv(job[w]) /\ On(s, job[w])
  BY <1>1, AtWork DEF StorageInv, On
<1> QED
  BY <1>1, <1>2, AtWork, OfferFacts DEF InHand, RemovingInv

(* The chart is removed, and with it the last of the addon.                *)
LEMMA RemoveChartsKeeps ==
  ASSUME StorageInv, NEW w \in Workers, removeCharts(w)
  PROVE  StorageInv'
<1>0. job[w].pc = "unchart" /\ job[w].pc # "idle" /\ "unchart" \in Removing /\ "unchart" \in HasAddon
  BY DEF removeCharts, At, Removing, HasAddon
<1>1. PICK s \in Scopes, o \in Offers : s = scope(w) /\ o = job[w].cur
  BY <1>0, AtWork
<1>2. PICK l \in Job : l = job[w]
  BY <1>0, AtWork
<1>3. /\ EndRemoval(w, l) /\ UNCHANGED <<driver, idSpace, nvSpace, groups, spoiled>>
      /\ charts' = [charts EXCEPT ![s] = @ \ {ChartRef(o)}] /\ StoreTypes
  BY <1>0, <1>1, <1>2, AtWork DEF removeCharts
<1>4. /\ charts' \in [Scopes -> SUBSET Charts]
      /\ \A t \in Scopes : t # s => charts'[t] = charts[t]
      /\ charts'[s] = charts[s] \ {ChartRef(o)}
  BY <1>1, <1>3 DEF StoreTypes
<1>5. status' \in [Configs -> Status] /\ deleting' \subseteq Configs => StoreTypes'
  BY <1>3, <1>4 DEF StoreTypes
<1>6. ASSUME OwnKeys
      PROVE  /\ KeyedInv' /\ OnlySlot(s, o)
             /\ \A p \in InHand(s, job[w]) : p \in l.todo \/ p.id = o.id
             /\ \A p \in l.todo : p.id # o.id
             /\ o \in InHand(s, job[w])
             /\ IsClean(s, o) => Absent(s, o)'
  <2>1. OnlySlot(s, o)
    BY <1>3, <1>4, <1>6, OfferFacts DEF OnlySlot, OwnKeys, ChartRef
  <2>2. KeyedInv'
    BY <1>3, <1>6, <2>1, KeyedKept DEF StorageInv
  <2>3. IsClean(s, o) => Removed(s, o, "unchart")
    BY <1>0, <1>1, <1>6, RemovedSoFar
  <2>4. IsClean(s, o) => Absent(s, o)'
    BY <1>3, <1>4, <2>3 DEF Removed, Absent, ChartRef
  <2> QED
    BY <1>0, <1>1, <1>2, <1>6, <2>1, <2>2, <2>4, HandOfRemoval
<1> QED
  BY <1>0, <1>1, <1>2, <1>3, <1>4, <1>5, <1>6, EndKeeps

(* Remove of the memory driver: there is nothing to remove only of an addon*)
(* that was spoiled.                                                       *)
LEMMA RemoveInMemoryKeeps ==
  ASSUME StorageInv, NEW w \in Workers, RemoveInMemory(w)
  PROVE  StorageInv'
<1>0. /\ job[w].pc = "delNV" /\ job[w].pc # "idle" /\ "delNV" \in Removing /\ "delNV" \in HasAddon
      /\ "delNV" \notin Saving /\ "undocs" \in HasAddon /\ "undocs" \notin Saving
  BY DEF RemoveInMemory, At, Removing, HasAddon, Saving
<1>1. PICK s \in Scopes, o \in Offers : s = scope(w) /\ o = job[w].cur /\ o.id \in IDs /\ o.nv \in NVs
  BY <1>0, AtWork
<1>2. PICK l \in Job : l = job[w]
  BY <1>0, AtWork
<1>3. PICK id : id = nvSpace[s][o.nv]
  OBVIOUS
<1>4. /\ UNCHANGED <<driver, nvSpace, charts, groups, spoiled>> /\ StoreTypes /\ driver = "memory"
      /\ id \in IDs \cup {Nil}
  BY <1>0, <1>1, <1>3, AtWork DEF RemoveInMemory, StoreTypes
<1>5. OwnKeys /\ IsClean(s, o) => Served(s, o)
  BY <1>0, <1>1, RemovedSoFar DEF Removed
<1>6. CASE id = Nil \/ idSpace[s][id] = Nil
  <2>1. EndRemoval(w, l) /\ UNCHANGED idSpace
    BY <1>1, <1>2, <1>3, <1>6 DEF RemoveInMemory
  <2>2. status' \in [Configs -> Status] /\ deleting' \subseteq Configs => StoreTypes'
    BY <1>4, <2>1 DEF StoreTypes
  <2>3. ASSUME OwnKeys
        PROVE  /\ KeyedInv' /\ OnlySlot(s, o)
               /\ \A p \in InHand(s, job[w]) : p \in l.todo \/ p.id = o.id
               /\ \A p \in l.todo : p.id # o.id
               /\ o \in InHand(s, job[w])
               /\ IsClean(s, o) => Absent(s, o)'
    <3>1. OnlySlot(s, o)
      BY <1>4, <2>1 DEF OnlySlot
    <3>2. KeyedInv'
      BY <1>4, <2>1, <2>3, <3>1, KeyedKept DEF StorageInv
    <3>3. ~IsClean(s, o)
      BY <1>3, <1>4, <1>5, <1>6, <2>3, OfferFacts DEF Served, Mapped
    <3> QED
      BY <1>0, <1>1, <1>2, <2>3, <3>1, <3>2, <3>3, HandOfRemoval
  <2> QED
    BY <1>0, <1>1, <1>2, <1>4, <2>1, <2>2, <2>3, EndKeeps
<1>7. CASE ~(id = Nil \/ idSpace[s][id] = Nil)
  <2>1. /\ Goto(w, "undocs") /\ UNCHANGED <<status, deleting>>
        /\ idSpace' = [idSpace EXCEPT ![s][id] = Nil] /\ id \in IDs
    BY <1>1, <1>3, <1>4, <1>7 DEF RemoveInMemory
  <2>2. /\ idSpace' \in [Scopes -> [IDs -> Offers \cup {Nil}]]
        /\ \A t \in Scopes : t # s => idSpace'[t] = idSpace[t]
        /\ \A i \in IDs : idSpace'[s][i] = IF i = id THEN Nil ELSE idSpace[s][i]
    <3>1. idSpace \in [Scopes -> [IDs -> Offers \cup {Nil}]] /\ Nil \in Offers \cup {Nil}
      BY <1>4 DEF StoreTypes
    <3> QED
      BY <1>1, <2>1, <3>1, PutFacts
  <2>3. StoreTypes' /\ Local(s)
    BY <1>4, <2>1, <2>2 DEF StoreTypes, Local, Still, IsClean
  <2>4. ASSUME OwnKeys
        PROVE  KeyedInv' /\ OnlySlot(s, o) /\ (IsClean(s, o) => Removed(s, o, "undocs")')
    <3>1. id = o.id
      BY <1>1, <1>3, <1>4, <1>7, <2>4 DEF StorageInv, KeyedInv
    <3>2. OnlySlot(s, o)
      BY <1>4, <2>2, <3>1, OfferFacts DEF OnlySlot
    <3>3. KeyedInv'
      BY <1>1, <1>4, <2>2, <2>4, <3>1, <3>2, KeyedKept DEF StorageInv
    <3>4. Removed(s, o, "undocs")'
      BY <1>1, <1>4, <2>2, <3>1 DEF Removed
    <3> QED
      BY <3>2, <3>3, <3>4
  <2> QED
    BY <1>0, <1>1, <1>4, <2>1, <2>3, <2>4, GotoKeeps
<1> QED
  BY <1>6, <1>7

(* What Get finds belongs to the addon that is asked for, and it is the    *)
(* addon itself, stored as a whole, if that was never spoiled.             *)
LEMMA FoundFacts ==
  ASSUME StorageInv, NEW s \in Scopes, NEW o \in Offers
  PROVE  /\ Get(s, o.nv) \in Offers \cup {Nil}
         /\ OwnKeys /\ Get(s, o.nv) # Nil => Get(s, o.nv).id = o.id
         /\ Served(s, o) => Get(s, o.nv) = o
         /\ OwnKeys /\ Absent(s, o) => Get(s, o.nv) = Nil
<1>1. StoreTypes /\ o.nv \in NVs /\ o.id \in IDs
  BY TypesSplit, OfferFacts DEF StorageInv
<1>2. CASE driver = "etcd"
  <2>1. Get(s, o.nv) = nvSpace[s][o.nv] /\ nvSpace[s][o.nv] \in Offers \cup {Nil}
    BY <1>1, <1>2 DEF Get, StoreTypes
  <2>2. OwnKeys /\ nvSpace[s][o.nv] # Nil => nvSpace[s][o.nv].nv = o.nv
    BY <1>2 DEF StorageInv, KeyedInv
  <2>3. OwnKeys /\ nvSpace[s][o.nv] # Nil => nvSpace[s][o.nv].id = o.id
    BY <2>1, <2>2 DEF OwnKeys
  <2> QED
    BY <1>2, <2>1, <2>3 DEF Served, Absent, Mapped
<1>3. CASE driver # "etcd"
  <2>1. nvSpace[s][o.nv] \in IDs \cup {Nil} /\ idSpace[s] \in [IDs -> Offers \cup {Nil}]
    BY <1>1, <1>3 DEF StoreTypes
  <2>2. Get(s, o.nv) = IF nvSpace[s][o.nv] = Nil THEN Nil ELSE idSpace[s][nvSpace[s][o.nv]]
    BY <1>3 DEF Get
  <2>3. OwnKeys /\ nvSpace[s][o.nv] # Nil => nvSpace[s][o.nv] = o.id
    BY <1>3 DEF StorageInv, KeyedInv
  <2>4. OwnKeys /\ idSpace[s][o.id] # Nil => idSpace[s][o.id].id = o.id
    BY <1>1 DEF StorageInv, KeyedInv
  <2> QED
    BY <1>1, <1>3, <2>1, <2>2, <2>3, <2>4, OfferFacts DEF Served, Absent, Mapped
<1> QED
  BY <1>2, <1>3

(* Nothing is stored or removed, but the job may take up another addon.    *)
Unstored == UNCHANGED <<driver, idSpace, nvSpace, charts, groups, spoiled>>

(* Then every addon is as far as it was.                                   *)
LEMMA StoreKept ==
  ASSUME Unstored
  PROVE  /\ \A s, o : /\ Served(s, o)' <=> Served(s, o)
                      /\ Absent(s, o)' <=> Absent(s, o)
                      /\ IsClean(s, o)' <=> IsClean(s, o)
                      /\ \A pc : Saved(s, o, pc)' <=> Saved(s, o, pc)
                      /\ \A pc : Removed(s, o, pc)' <=> Removed(s, o, pc)
         /\ KeyedInv' <=> KeyedInv
  BY DEF Unstored, Served, Absent, IsClean, Saved, Removed, Mapped, ChartRef, KeyedInv

(* An addon to be removed is found.                                        *)
LEMMA FoundKeeps ==
  ASSUME StorageInv, OwnKeys, NEW w \in Workers, NEW j \in Job, j = job[w], j.pc = "get",
         NEW o \in j.todo, NEW p \in Offers, NEW s \in Scopes, s = ScopeOf[j.cfg], p = Get(s, o.nv),
         NEW k \in Job, k.pc = "delNV", k.cfg = j.cfg, k.delete = j.delete, k.todo = j.todo \ {o},
         k.cur = p, Unstored, UNCHANGED <<status, deleting>>
  PROVE  StatusInv' /\ SavingInv(k)' /\ RemovingInv(k)' /\ ScopeInv(s, k)'
<1>0. /\ StatusInv /\ RemovingInv(j) /\ j.pc # "idle" /\ j.pc \notin Saving
      /\ j.cfg \in Configs /\ WorkerIn(s) = w /\ o \in Offers
      /\ j.pc \in Removing /\ j.pc \notin HasAddon /\ k.pc \in Removing /\ k.pc \in HasAddon
      /\ k.pc \notin Saving
  BY Phases, WorkerOfScope, TypesSplit, JobFields DEF StorageInv, JobTypes, Removing, HasAddon, Saving
<1>1. ScopeInv(s, j) /\ On(s, j) /\ On(s, k) /\ (On(s, k)' <=> On(s, k))
  BY <1>0 DEF StorageInv, On
<1>2. p.id = o.id /\ p # Nil
  BY <1>0, FoundFacts, OfferFacts
<1>3. IsClean(s, p) => p = o /\ Served(s, o)
  <2>1. IsClean(s, p) => Served(s, o) \/ Absent(s, o)
    BY <1>0, <1>1, <1>2, ScopeParts DEF IsClean
  <2> QED
    BY <1>0, <1>2, <2>1, FoundFacts
<1>4. j.cur = Nil /\ InHand(s, j) = j.todo /\ InHand(s, k)' = (j.todo \ {o}) \cup {p}
  BY <1>0, <1>1, <1>2 DEF RemovingInv, InHand, On
<1>5. Kept(s)' = Kept(s) /\ Leaving(s, k)' = Leaving(s, j)
  BY <1>1 DEF Kept, Stays, Leaving, Waits, On
<1>6. StatusInv'
  BY <1>0 DEF StatusInv, IsClean, Unstored
<1>7. SavingInv(k)'
  BY <1>0 DEF SavingInv
<1>8. RemovingInv(k)'
  <2>1. \A q, r \in j.todo : q.id = r.id => q = r
    BY <1>0 DEF RemovingInv
  <2>2. \A q \in k.todo : q.id # p.id
    BY <1>2, <2>1
  <2>3. j.delete => /\ j.todo \subseteq Listed(status'[j.cfg])
                    /\ p.id \in IdsOf(Listed(status'[j.cfg]))
                    /\ IsClean(s, p)' => p \in Listed(status'[j.cfg])
    BY <1>0, <1>2, <1>3, StoreKept DEF RemovingInv, IdsOf
  <2>4. \A q \in InHand(s, k)' : IsClean(s, q)' => q.id \notin IdsOf(Kept(s)')
    <3>1. \A q \in j.todo : IsClean(s, q) => q.id \notin IdsOf(Kept(s))
      BY <1>0, <1>4 DEF RemovingInv
    <3> QED
      BY <1>3, <1>4, <1>5, <3>1, StoreKept
  <2> QED
    BY <1>0, <2>1, <2>2, <2>3, <2>4 DEF RemovingInv, IdsOf
<1>9. ScopeInv(s, k)'
  <2>1. IdsOf(InHand(s, k))' = IdsOf(InHand(s, j)) /\ IdsOf(Kept(s))' = IdsOf(Kept(s))
    BY <1>2, <1>4, <1>5 DEF IdsOf
  <2>2. Removed(s, p, "delNV") <=> Served(s, p)
    BY DEF Removed
  <2> SUFFICES ASSUME NEW q \in Offers, IsClean(s, q)
               PROVE  /\ q \in Kept(s) /\ q.id \notin IdsOf(InHand(s, j)) => Served(s, q)
                      /\ q.id \notin IdsOf(Kept(s)) /\ q.id \notin IdsOf(InHand(s, j)) => Gone(s, j, q)
                      /\ q \in k.todo => Served(s, q) \/ (k.delete /\ Absent(s, q))
                      /\ q = k.cur => Removed(s, q, "delNV")
    <3>1. \A q : /\ Served(s, q)' <=> Served(s, q)
                 /\ Absent(s, q)' <=> Absent(s, q)
                 /\ IsClean(s, q)' <=> IsClean(s, q)
                 /\ Removed(s, q, "delNV")' <=> Removed(s, q, "delNV")
      BY StoreKept
    <3>2. \A q : Gone(s, k, q)' <=> Gone(s, j, q)
      BY <1>5, <3>1 DEF Gone
    <3> QED
      BY <1>0, <1>1, <1>5, <2>1, <3>1, <3>2 DEF ScopeInv
  <2> QED
    BY <1>0, <1>1, <1>3, <2>2, ScopeParts
<1> QED
  BY <1>6, <1>7, <1>8, <1>9

(* removeAddon takes up the next addon, found or not.                      *)
LEMMA RemoveAddonKeeps ==
  ASSUME StorageInv, NEW w \in Workers, removeAddon(w)
  PROVE  StorageInv'
<1>0. job[w].pc = "get" /\ job[w].pc # "idle" /\ "get" \in Removing /\ "get" \notin HasAddon
  BY DEF removeAddon, At, Removing, HasAddon
<1>1. PICK j \in Job : j = job[w]
  BY <1>0, AtWork
<1>2. PICK s \in Scopes : s = scope(w) /\ s = ScopeOf[j.cfg]
  BY <1>0, <1>1, AtWork
<1>3. PICK o \in j.todo :
        /\ \/ /\ Get(s, o.nv) # Nil
              /\ Set(w, [[j EXCEPT !.todo = @ \ {o}] EXCEPT !.pc = "delNV", !.cur = Get(s, o.nv)])
              /\ UNCHANGED <<nvSpace, status, deleting>>
           \/ /\ Get(s, o.nv) = Nil
              /\ nvSpace' = [nvSpace EXCEPT ![s][o.nv] = Nil]
              /\ EndRemoval(w, [j EXCEPT !.todo = @ \ {o}])
        /\ UNCHANGED <<driver, idSpace, charts, groups, spoiled>>
  BY <1>1, <1>2 DEF removeAddon
<1>4. /\ o \in Offers /\ o.nv \in NVs /\ StoreTypes /\ j.cfg \in Configs /\ WorkerIn(s) = w
      /\ WorkerOf(j.cfg) = w
  BY <1>0, <1>1, <1>2, AtWork, JobFields, OfferFacts
<1>5. CASE Get(s, o.nv) # Nil
  <2>1. PICK p \in Offers : p = Get(s, o.nv)
    BY <1>4, <1>5, FoundFacts
  <2> DEFINE k == [[j EXCEPT !.todo = @ \ {o}] EXCEPT !.pc = "delNV", !.cur = p]
  <2>2. /\ k \in Job /\ k.pc = "delNV" /\ k.cfg = j.cfg /\ k.delete = j.delete
        /\ k.todo = j.todo \ {o} /\ k.cur = p
    BY <2>1 DEF Job, Removing
  <2>3. job' = [job EXCEPT ![w] = k] /\ Unstored /\ UNCHANGED <<status, deleting>>
    BY <1>3, <1>5, <2>1 DEF Set, Unstored
  <2> HIDE DEF k
  <2>4. JobTypes(w, k)
    BY <1>4, <2>1, <2>2 DEF JobTypes
  <2>5. StoreTypes' /\ Local(s)
    BY <1>4, <2>3 DEF Unstored, StoreTypes, Local, Still, IsClean
  <2>6. ASSUME OwnKeys
        PROVE  KeyedInv' /\ StatusInv' /\ SavingInv(k)' /\ RemovingInv(k)' /\ ScopeInv(s, k)'
    <3>1. KeyedInv'
      BY <2>3, <2>6, StoreKept DEF StorageInv
    <3>2. StatusInv' /\ SavingInv(k)' /\ RemovingInv(k)' /\ ScopeInv(s, k)'
      BY <1>0, <1>1, <1>2, <2>1, <2>2, <2>3, <2>6, FoundKeeps
    <3> QED
      BY <3>1, <3>2
  <2> QED
    BY <1>1, <1>2, <1>4, <2>2, <2>3, <2>4, <2>5, <2>6, StepKeeps
<1>6. CASE Get(s, o.nv) = Nil
  <2> DEFINE k == [j EXCEPT !.todo = @ \ {o}]
  <2>1. k \in Job /\ k.cfg = j.cfg /\ k.delete = j.delete /\ k.todo = j.todo \ {o}
    BY DEF Job
  <2>2. /\ EndRemoval(w, k) /\ UNCHANGED <<driver, idSpace, charts, groups, spoiled>>
        /\ nvSpace' = [nvSpace EXCEPT ![s][o.nv] = Nil]
    BY <1>3, <1>6
  <2> HIDE DEF k
  <2>3. PICK l \in Job : l = k
    BY <2>1
  <2> DEFINE V == (IF driver = "etcd" THEN Offers ELSE IDs) \cup {Nil}
  <2>4. /\ nvSpace' \in [Scopes -> [NVs -> V]]
        /\ \A t \in Scopes : t # s => nvSpace'[t] = nvSpace[t]
        /\ \A i \in NVs : nvSpace'[s][i] = IF i = o.nv THEN Nil ELSE nvSpace[s][i]
    <3>1. nvSpace \in [Scopes -> [NVs -> V]] /\ Nil \in V
      BY <1>4 DEF StoreTypes
    <3> HIDE DEF V
    <3> QED
      BY <1>4, <2>2, <3>1, PutFacts
  <2>5. status' \in [Configs -> Status] /\ deleting' \subseteq Configs => StoreTypes'
    BY <1>4, <2>2, <2>4 DEF StoreTypes
  <2>6. ASSUME OwnKeys
        PROVE  /\ KeyedInv' /\ OnlySlot(s, o)
               /\ \A p \in InHand(s, job[w]) : p \in l.todo \/ p.id = o.id
               /\ \A p \in l.todo : p.id # o.id
               /\ o \in InHand(s, job[w])
               /\ IsClean(s, o) => Absent(s, o)'
    <3>1. OnlySlot(s, o)
      BY <1>4, <2>2, <2>4, <2>6, OfferFacts DEF OnlySlot, OwnKeys
    <3>2. KeyedInv'
      BY <1>4, <2>2, <2>4, <2>6, <3>1, KeyedKept DEF StorageInv
    <3>3. IsClean(s, o) => Served(s, o) \/ Absent(s, o)
      <4>1. ScopeInv(s, j) /\ On(s, j)
        BY <1>0, <1>1, <1>2, <1>4, <2>6 DEF StorageInv, On
      <4> QED
        BY <1>0, <1>1, <1>4, <4>1, ScopeParts
    <3>4. IsClean(s, o) => Absent(s, o)
      BY <1>4, <1>6, <3>3, FoundFacts, OfferFacts
    <3>5. IsClean(s, o) => Absent(s, o)'
      BY <1>4, <2>2, <2>4, <3>4 DEF Absent, ChartRef
    <3>6. InHand(s, job[w]) = job[w].todo /\ \A p, q \in job[w].todo : p.id = q.id => p = q
      BY <1>0, <1>2, <2>6, HandOfRemoval
    <3> QED
      BY <1>1, <2>1, <2>3, <3>1, <3>2, <3>5, <3>6
  <2>7. /\ l.cfg = job[w].cfg /\ l.delete = job[w].delete /\ l.todo \subseteq job[w].todo
        /\ EndRemoval(w, l)
    BY <1>1, <2>1, <2>2, <2>3
  <2>8. \A t \in Scopes : t # s => /\ idSpace'[t] = idSpace[t] /\ nvSpace'[t] = nvSpace[t]
                                   /\ charts'[t] = charts[t] /\ groups'[t] = groups[t]
    BY <2>2, <2>4
  <2> QED
    BY <1>0, <1>2, <1>4, <2>2, <2>5, <2>6, <2>7, <2>8, EndKeeps
<1> QED
  BY <1>5, <1>6

-----------------------------------------------------------------------------
(* Job j takes up addon p, or is done with it, and is then k.              *)
Turns(s, j, k, p) ==
  /\ k.cfg = j.cfg /\ k.delete = j.delete /\ k.offers = j.offers
  /\ k.todo \subseteq j.todo /\ p \notin k.todo /\ \A o \in j.todo : o \in k.todo \/ o = p
  /\ p \in j.offers /\ (j.pc \in HasAddon => j.cur = p)
  /\ k.pc \in HasAddon => k.cur = p
  /\ k.pc \notin HasAddon => k.cur = Nil
  /\ k.pc = "status" => k.todo = {}
  /\ k.failed \subseteq k.partial
  /\ j.partial \subseteq k.partial /\ k.partial \subseteq j.partial \cup {p}
  /\ p \in k.partial => p \in j.partial \/ <<s, p.id>> \in spoiled'

(* Then it has come as far as its phase says, or was saved in part only.   *)
LEMMA TurnKeeps ==
  ASSUME StorageInv, OwnKeys, NEW w \in Workers, NEW j \in Job, j = job[w], j.pc \in Saving,
         NEW k \in Job, k.pc \in Saving, NEW p \in Offers, NEW s \in Scopes, s = ScopeOf[j.cfg],
         Turns(s, j, k, p), OnlySlot(s, p), UNCHANGED <<driver, status, deleting>>,
         spoiled \subseteq spoiled', Served(s, p) => Served(s, p)',
         p \notin k.partial => /\ k.pc \in HasAddon => Saved(s, p, k.pc)'
                               /\ k.pc \notin HasAddon => Served(s, p)'
  PROVE  StatusInv' /\ SavingInv(k)' /\ RemovingInv(k)' /\ ScopeInv(s, k)'
<1> USE DEF Turns
<1>0. /\ StatusInv /\ SavingInv(j) /\ j.pc # "idle" /\ k.pc # "idle" /\ StoreTypes
      /\ j.cfg \in Configs /\ WorkerIn(s) = w /\ k.pc \notin Removing
  BY Phases, WorkerOfScope, TypesSplit DEF StorageInv, JobTypes
<1>1. ScopeInv(s, j)
  BY <1>0 DEF StorageInv
<1>2. \A t, o : IsClean(t, o)' => IsClean(t, o)
  BY DEF IsClean
<1>3. On(s, j) /\ On(s, k) /\ (On(s, k)' <=> On(s, k))
  BY <1>0 DEF On
<1>4. /\ InHand(s, k)' = j.offers \ (k.todo \cup status[j.cfg].ready)
      /\ InHand(s, j) = j.offers \ (j.todo \cup status[j.cfg].ready)
  BY <1>3 DEF InHand, On, Touched
<1>5. Kept(s)' = Kept(s) /\ Leaving(s, k)' = Leaving(s, j)
  BY <1>3 DEF Kept, Stays, Leaving, Waits, On
<1>6. StatusInv'
  BY <1>0, <1>2 DEF StatusInv
<1>7. RemovingInv(k)'
  BY <1>0 DEF RemovingInv
<1>8. SavingInv(k)'
  <2>1. \A o \in k.partial : ~IsClean(s, o)'
    BY <1>0, <1>2 DEF SavingInv, IsClean
  <2>2. k.partial \subseteq k.offers \ k.todo
    BY <1>0 DEF SavingInv
  <2> QED
    BY <1>0, <2>1, <2>2 DEF SavingInv
<1>9. ScopeInv(s, k)'
  <2>1. IdsOf(InHand(s, k))' = IdsOf(InHand(s, k)') /\ IdsOf(Kept(s))' = IdsOf(Kept(s))
    BY <1>5 DEF IdsOf
  <2>2. \A o \in Offers : /\ o.id \notin IdsOf(InHand(s, k)') => o.id \notin IdsOf(InHand(s, j))
                          /\ o.id = p.id /\ o.id \notin IdsOf(InHand(s, k)') => p \in status[j.cfg].ready
    BY <1>4 DEF IdsOf
  <2>3. ASSUME NEW o \in Offers, o.id # p.id
        PROVE  (Served(s, o) => Served(s, o)') /\ (Gone(s, j, o) => Gone(s, k, o)')
    BY <1>0, <1>5, <2>3, SlotsKept, GoneKept
  <2>4. ASSUME NEW o \in Offers, IsClean(s, o)', o.id \notin IdsOf(InHand(s, k)')
        PROVE  /\ o \in Kept(s) => Served(s, o)'
               /\ o.id \notin IdsOf(Kept(s)) => Gone(s, k, o)'
    <3>1. /\ o \in Kept(s) => Served(s, o)
          /\ o.id \notin IdsOf(Kept(s)) => Gone(s, j, o)
      BY <1>1, <1>2, <2>2, <2>4, ScopeParts
    <3>2. CASE o.id # p.id
      BY <2>3, <3>1, <3>2
    <3>3. CASE o.id = p.id
      <4>1. p \in status[j.cfg].ready /\ p \in Kept(s)
        BY <1>0, <2>2, <2>4, <3>3 DEF SavingInv, Kept, Stays
      <4>2. ASSUME o \in Kept(s)
            PROVE  o = p
        <5>1. PICK d \in Configs : ScopeOf[d] = s /\ o \in status[d].ready
          BY <4>2 DEF Kept, Stays
        <5>2. d = j.cfg
          BY <1>0, <3>3, <4>1, <5>1 DEF StatusInv
        <5> QED
          BY <1>0, <3>3, <4>1, <5>1, <5>2 DEF StatusInv, Listed
      <4> QED
        BY <3>1, <3>3, <4>1, <4>2 DEF IdsOf
    <3> QED
      BY <3>2, <3>3
  <2>5. ASSUME NEW o \in j.offers, o \notin k.partial
        PROVE  /\ k.pc \in HasAddon /\ o = k.cur => Saved(s, o, k.pc)'
               /\ o \notin k.todo /\ (k.pc \in HasAddon => o # k.cur) => Served(s, o)'
    <3>1. CASE o = p
      BY <2>5, <3>1
    <3>2. CASE o # p
      <4>1. o \in Offers /\ o.id # p.id /\ o \notin j.partial
        BY <1>0, <2>5, <3>2, JobFields DEF SavingInv
      <4>2. o \notin k.todo => Served(s, o)
        BY <1>1, <1>3, <2>5, <3>2, <4>1, SavedParts
      <4> QED
        BY <2>3, <3>2, <4>1, <4>2
    <3> QED
      BY <3>1, <3>2
  <2> QED
    BY <1>0, <1>3, <1>5, <2>1, <2>4, <2>5 DEF ScopeInv
<1> QED
  BY <1>6, <1>7, <1>8, <1>9

(* The same, for the whole invariant.                                      *)
LEMMA SaveKeeps ==
  ASSUME StorageInv, NEW w \in Workers, NEW j \in Job, j = job[w], j.pc \in Saving,
         NEW k \in Job, k.pc \in Saving, k.cfg = j.cfg, k.pc \in HasAddon => k.cur \in Offers,
         NEW p \in Offers, NEW s \in Scopes, s = scope(w), job' = [job EXCEPT ![w] = k],
         UNCHANGED <<driver, status, deleting>>, spoiled \subseteq spoiled', StoreTypes', Local(s),
         OwnKeys => /\ KeyedInv' /\ Turns(s, j, k, p) /\ OnlySlot(s, p)
                    /\ Served(s, p) => Served(s, p)'
                    /\ p \notin k.partial => /\ k.pc \in HasAddon => Saved(s, p, k.pc)'
                                             /\ k.pc \notin HasAddon => Served(s, p)'
  PROVE  StorageInv'
<1>1. k.pc # "idle" /\ j.pc # "idle"
  BY Phases
<1>2. j.cfg \in Configs /\ WorkerOf(j.cfg) = w /\ s = ScopeOf[j.cfg] /\ WorkerIn(s) = w
  BY <1>1, AtWork
<1>3. JobTypes(w, k)
  BY <1>1, <1>2 DEF JobTypes
<1>4. ASSUME OwnKeys
      PROVE  KeyedInv' /\ StatusInv' /\ SavingInv(k)' /\ RemovingInv(k)' /\ ScopeInv(s, k)'
  <2>1. StatusInv' /\ SavingInv(k)' /\ RemovingInv(k)' /\ ScopeInv(s, k)'
    BY <1>2, <1>4, TurnKeeps
  <2> QED
    BY <1>4, <2>1
<1> QED
  BY <1>2, <1>3, <1>4, StepKeeps

(* A job that saves its addons has only those in hand.                     *)
LEMMA HandOfSaving ==
  ASSUME StorageInv, OwnKeys, NEW w \in Workers, NEW j \in Job, j = job[w], j.pc \in Saving
  PROVE  /\ j.todo \subseteq j.offers
         /\ j.pc \in HasAddon => j.cur \in j.offers /\ j.cur \notin j.todo
         /\ \A s \in Scopes, o \in Offers :
              s = scope(w) /\ o = j.cur /\ j.pc \in HasAddon /\ o \notin j.partial => Saved(s, o, j.pc)
         /\ j.failed \subseteq j.partial
<1>1. SavingInv(j) /\ j.pc # "idle"
  BY Phases DEF StorageInv
<1>2. ASSUME NEW s, NEW o \in Offers, s = scope(w), o = j.cur, j.pc \in HasAddon, o \notin j.partial
      PROVE  Saved(s, o, j.pc)
  <2>1. ScopeInv(s, j) /\ On(s, j)
    BY <1>1, <1>2, AtWork DEF StorageInv, On
  <2> QED
    BY <1>1, <1>2, <2>1, SavedParts DEF SavingInv
<1> QED
  BY <1>1, <1>2 DEF SavingInv

(* saveAddons takes up the next addon, and its documentation is stored or  *)
(* it is spoiled.                                                          *)
LEMMA EnsureKeeps ==
  ASSUME StorageInv, NEW w \in Workers, EnsureAssetGroup(w)
  PROVE  StorageInv'
<1>0. /\ job[w].pc = "docs" /\ job[w].pc # "idle" /\ "docs" \in Saving /\ "docs" \notin HasAddon
      /\ "id" \in Saving /\ "id" \in HasAddon
  BY DEF EnsureAssetGroup, At, Saving, HasAddon
<1>1. PICK j \in Job : j = job[w]
  BY <1>0, AtWork
<1>2. PICK s \in Scopes : s = scope(w)
  BY <1>0, AtWork
<1> DEFINE l(o) == [j EXCEPT !.pc = "id", !.cur = o, !.todo = @ \ {o}]
<1>3. PICK o \in j.todo :
        /\ \/ /\ groups' = [groups EXCEPT ![s][o.id] = IF o.docs THEN o.rev ELSE @]
              /\ Set(w, l(o))
              /\ UNCHANGED spoiled
           \/ /\ o.docs
              /\ spoiled' = spoiled \cup {<<s, o.id>>}
              /\ Set(w, [l(o) EXCEPT !.partial = @ \cup {o}])
              /\ UNCHANGED groups
        /\ UNCHANGED <<driver, idSpace, nvSpace, charts, status, deleting>>
  BY <1>1, <1>2 DEF EnsureAssetGroup
<1>4. o \in Offers /\ o.id \in IDs /\ o.rev \in Nat /\ StoreTypes
  BY <1>0, AtWork, JobFields, OfferFacts
<1>5. /\ groups \in [Scopes -> [IDs -> Nat]] /\ spoiled \subseteq Scopes \X IDs
  BY <1>4 DEF StoreTypes
<1>6. PICK k \in Job :
        /\ job' = [job EXCEPT ![w] = k]
        /\ k.pc = "id" /\ k.cfg = j.cfg /\ k.delete = j.delete /\ k.offers = j.offers
        /\ k.todo = j.todo \ {o} /\ k.cur = o /\ k.failed = j.failed
        /\ \/ k.partial = j.partial \cup {o} /\ <<s, o.id>> \in spoiled'
           \/ k.partial = j.partial /\ groups'[s][o.id] = IF o.docs THEN o.rev ELSE groups[s][o.id]
  <2>1. CASE /\ groups' = [groups EXCEPT ![s][o.id] = IF o.docs THEN o.rev ELSE @]
             /\ Set(w, l(o))
    <3>1. /\ l(o) \in Job /\ l(o).pc = "id" /\ l(o).cfg = j.cfg /\ l(o).delete = j.delete
          /\ l(o).offers = j.offers /\ l(o).todo = j.todo \ {o} /\ l(o).cur = o
          /\ l(o).failed = j.failed /\ l(o).partial = j.partial
      BY <1>0, <1>4 DEF Job
    <3>2. job' = [job EXCEPT ![w] = l(o)]
      BY <2>1, <3>1 DEF Set
    <3>3. groups'[s][o.id] = IF o.docs THEN o.rev ELSE groups[s][o.id]
      BY <1>4, <1>5, <2>1
    <3> HIDE DEF l
    <3> QED
      BY <3>1, <3>2, <3>3
  <2>2. CASE /\ spoiled' = spoiled \cup {<<s, o.id>>}
             /\ Set(w, [l(o) EXCEPT !.partial = @ \cup {o}])
    <3> DEFINE k == [l(o) EXCEPT !.partial = @ \cup {o}]
    <3>1. /\ k \in Job /\ k.pc = "id" /\ k.cfg = j.cfg /\ k.delete = j.delete
          /\ k.offers = j.offers /\ k.todo = j.todo \ {o} /\ k.cur = o
          /\ k.failed = j.failed /\ k.partial = j.partial \cup {o}
      BY <1>0, <1>4 DEF Job
    <3>2. job' = [job EXCEPT ![w] = k]
      BY <2>2, <3>1 DEF Set
    <3> HIDE DEF k
    <3> QED
      BY <2>2, <3>1, <3>2
  <2> QED
    BY <1>3, <2>1, <2>2
<1>7. /\ groups' \in [Scopes -> [IDs -> Nat]] /\ spoiled' \subseteq Scopes \X IDs
      /\ spoiled \subseteq spoiled' /\ spoiled' \subseteq spoiled \cup {<<s, o.id>>}
      /\ \A t \in Scopes : t # s => groups'[t] = groups[t]
      /\ \A i \in IDs : i # o.id => groups'[s][i] = groups[s][i]
      /\ groups'[s][o.id] = groups[s][o.id] \/ (o.docs /\ groups'[s][o.id] = o.rev)
  <2>1. CASE groups' = [groups EXCEPT ![s][o.id] = IF o.docs THEN o.rev ELSE @] /\ UNCHANGED spoiled
    <3>1. PICK v \in Nat : v = IF o.docs THEN o.rev ELSE groups[s][o.id]
      BY <1>4, <1>5
    <3>2. groups' = [groups EXCEPT ![s][o.id] = v]
      BY <2>1, <3>1
    <3> QED
      BY <1>4, <1>5, <2>1, <3>1, <3>2, PutFacts
  <2>2. CASE spoiled' = spoiled \cup {<<s, o.id>>} /\ UNCHANGED groups
    BY <1>4, <1>5, <2>2
  <2> QED
    BY <1>3, <2>1, <2>2
<1>8. StoreTypes' /\ Local(s)
  BY <1>3, <1>4, <1>7 DEF StoreTypes, Local, Still, IsClean
<1>9. ASSUME OwnKeys
      PROVE  /\ KeyedInv' /\ Turns(s, j, k, o) /\ OnlySlot(s, o)
             /\ Served(s, o) => Served(s, o)'
             /\ o \notin k.partial => /\ k.pc \in HasAddon => Saved(s, o, k.pc)'
                                      /\ k.pc \notin HasAddon => Served(s, o)'
  <2>1. OnlySlot(s, o)
    BY <1>3, <1>7, OfferFacts DEF OnlySlot
  <2>2. KeyedInv'
    BY <1>3, <1>4, <1>9, <2>1, KeyedKept DEF StorageInv
  <2>3. Turns(s, j, k, o)
    BY <1>0, <1>1, <1>6, <1>9, HandOfSaving DEF Turns
  <2>4. o \notin k.partial => Saved(s, o, "id")'
    BY <1>6 DEF Saved
  <2>5. Served(s, o) => Served(s, o)'
    BY <1>3, <1>7 DEF Served, Mapped
  <2> QED
    BY <1>0, <1>6, <2>1, <2>2, <2>3, <2>4, <2>5
<1>10. UNCHANGED <<driver, status, deleting>> /\ j.pc \in Saving /\ k.pc \in Saving /\ k.cur \in Offers
  BY <1>0, <1>1, <1>3, <1>4, <1>6
<1> HIDE DEF l
<1> QED
  BY <1>1, <1>2, <1>4, <1>6, <1>7, <1>8, <1>9, <1>10, SaveKeeps

(* An addon is done with, saved or not.                                    *)
LEMMA NextSaveFacts ==
  ASSUME NEW w \in Workers, NEW j \in Job, Set(w, NextSave(j))
  PROVE  \E k \in Job :
           /\ job' = [job EXCEPT ![w] = k] /\ k.pc \in Saving /\ k.pc \notin HasAddon
           /\ k.pc = "status" => j.todo = {}
           /\ k.cfg = j.cfg /\ k.delete = j.delete /\ k.offers = j.offers /\ k.todo = j.todo
           /\ k.cur = Nil /\ k.failed = j.failed /\ k.partial = j.partial
<1> DEFINE k == NextSave(j)
<1>1. /\ k \in Job /\ k.pc = (IF j.todo = {} THEN "status" ELSE "docs")
      /\ k.cfg = j.cfg /\ k.delete = j.delete /\ k.offers = j.offers /\ k.todo = j.todo
      /\ k.cur = Nil /\ k.failed = j.failed /\ k.partial = j.partial
  BY DEF NextSave, Job, Saving
<1>2. k.pc # "idle"
  BY <1>1
<1>3. job' = [job EXCEPT ![w] = k]
  BY <1>2 DEF Set
<1> HIDE DEF k
<1>4. k.pc \in Saving /\ k.pc \notin HasAddon /\ (k.pc = "status" => j.todo = {})
  BY <1>1 DEF Saving, HasAddon
<1> QED
  BY <1>1, <1>3, <1>4

(* The chart is stored, and with it the addon as a whole.                  *)
LEMMA SaveChartsKeeps ==
  ASSUME StorageInv, NEW w \in Workers, saveCharts(w)
  PROVE  StorageInv'
<1>0. job[w].pc = "chart" /\ job[w].pc # "idle" /\ "chart" \in Saving /\ "chart" \in HasAddon
  BY DEF saveCharts, At, Saving, HasAddon
<1>1. PICK j \in Job : j = job[w]
  BY <1>0, AtWork
<1>2. PICK s \in Scopes, o \in Offers : s = scope(w) /\ o = job[w].cur /\ ChartOf[o.nv] \in Charts
  BY <1>0, AtWork
<1>3. /\ charts' = [charts EXCEPT ![s] = @ \cup {ChartOf[o.nv]}] /\ Set(w, NextSave(j))
      /\ UNCHANGED <<driver, idSpace, nvSpace, groups, status, deleting, spoiled>> /\ StoreTypes
  BY <1>0, <1>1, <1>2, AtWork DEF saveCharts
<1>4. PICK k \in Job :
        /\ job' = [job EXCEPT ![w] = k] /\ k.pc \in Saving /\ k.pc \notin HasAddon
        /\ k.pc = "status" => j.todo = {}
        /\ k.cfg = j.cfg /\ k.delete = j.delete /\ k.offers = j.offers /\ k.todo = j.todo
        /\ k.cur = Nil /\ k.failed = j.failed /\ k.partial = j.partial
  BY <1>3, NextSaveFacts
<1>5. /\ charts' \in [Scopes -> SUBSET Charts]
      /\ \A t \in Scopes : t # s => charts'[t] = charts[t]
      /\ charts'[s] = charts[s] \cup {ChartOf[o.nv]}
  BY <1>2, <1>3 DEF StoreTypes
<1>6. StoreTypes' /\ Local(s)
  BY <1>3, <1>5 DEF StoreTypes, Local, Still, IsClean
<1>7. ASSUME OwnKeys
      PROVE  /\ KeyedInv' /\ Turns(s, j, k, o) /\ OnlySlot(s, o)
             /\ Served(s, o) => Served(s, o)'
             /\ o \notin k.partial => /\ k.pc \in HasAddon => Saved(s, o, k.pc)'
                                      /\ k.pc \notin HasAddon => Served(s, o)'
  <2>1. OnlySlot(s, o)
    BY <1>3, <1>5, <1>7, OfferFacts DEF OnlySlot, OwnKeys
  <2>2. KeyedInv'
    BY <1>2, <1>3, <1>7, <2>1, KeyedKept DEF StorageInv
  <2>3. Turns(s, j, k, o)
    BY <1>0, <1>1, <1>2, <1>4, <1>7, HandOfSaving DEF Turns
  <2>4. o \notin k.partial => Saved(s, o, "chart")
    BY <1>0, <1>1, <1>2, <1>4, <1>7, HandOfSaving
  <2>5. (Served(s, o) => Served(s, o)') /\ (o \notin k.partial => Served(s, o)')
    BY <1>2, <1>3, <1>5, <2>4 DEF Saved, Served, Mapped
  <2> QED
    BY <1>4, <2>1, <2>2, <2>3, <2>5
<1>8. UNCHANGED <<driver, status, deleting>> /\ j.pc \in Saving /\ spoiled \subseteq spoiled'
  BY <1>0, <1>1, <1>3
<1> QED
  BY <1>1, <1>2, <1>4, <1>6, <1>7, <1>8, SaveKeeps

(* A put fails, and the addon is spoiled.                                  *)
LEMMA RegisteringErrorKeeps ==
  ASSUME StorageInv, NEW w \in Workers, RegisteringError(w)
  PROVE  StorageInv'
<1>0. job[w].pc # "idle" /\ job[w].pc \in Saving /\ job[w].pc \in HasAddon
  BY DEF RegisteringError, Saving, HasAddon
<1>1. PICK j \in Job : j = job[w]
  BY <1>0, AtWork
<1>2. PICK s \in Scopes, o \in Offers : s = scope(w) /\ o = job[w].cur /\ o.id \in IDs
  BY <1>0, AtWork
<1> DEFINE l == [j EXCEPT !.failed = @ \cup {o}, !.partial = @ \cup {o}]
<1>3. /\ Set(w, NextSave(l)) /\ spoiled' = spoiled \cup {<<s, o.id>>}
      /\ UNCHANGED <<driver, idSpace, nvSpace, charts, groups, status, deleting>> /\ StoreTypes
  BY <1>0, <1>1, <1>2, AtWork DEF RegisteringError, store
<1>4. /\ l \in Job /\ l.cfg = j.cfg /\ l.delete = j.delete /\ l.offers = j.offers /\ l.todo = j.todo
      /\ l.failed = j.failed \cup {o} /\ l.partial = j.partial \cup {o}
  BY DEF Job
<1> HIDE DEF l
<1>5. PICK k \in Job :
        /\ job' = [job EXCEPT ![w] = k] /\ k.pc \in Saving /\ k.pc \notin HasAddon
        /\ k.pc = "status" => l.todo = {}
        /\ k.cfg = l.cfg /\ k.delete = l.delete /\ k.offers = l.offers /\ k.todo = l.todo
        /\ k.cur = Nil /\ k.failed = l.failed /\ k.partial = l.partial
  BY <1>3, <1>4, NextSaveFacts
<1>6. StoreTypes' /\ Local(s)
  BY <1>2, <1>3 DEF StoreTypes, Local, Still, IsClean
<1>7. ASSUME OwnKeys
      PROVE  /\ KeyedInv' /\ Turns(s, j, k, o) /\ OnlySlot(s, o)
             /\ Served(s, o) => Served(s, o)'
             /\ o \notin k.partial => /\ k.pc \in HasAddon => Saved(s, o, k.pc)'
                                      /\ k.pc \notin HasAddon => Served(s, o)'
  <2>1. OnlySlot(s, o)
    BY <1>3 DEF OnlySlot
  <2>2. KeyedInv'
    BY <1>3, <1>7, <2>1, KeyedKept DEF StorageInv
  <2>3. Turns(s, j, k, o)
    BY <1>0, <1>1, <1>2, <1>3, <1>4, <1>5, <1>7, HandOfSaving DEF Turns
  <2>4. (Served(s, o) => Served(s, o)') /\ o \in k.partial
    BY <1>3, <1>4, <1>5 DEF Served, Mapped
  <2> QED
    BY <2>1, <2>2, <2>3, <2>4
<1>8. /\ UNCHANGED <<driver, status, deleting>> /\ j.pc \in Saving /\ k.cfg = j.cfg
      /\ spoiled \subseteq spoiled'
  BY <1>0, <1>1, <1>3, <1>4, <1>5
<1> QED
  BY <1>1, <1>2, <1>5, <1>6, <1>7, <1>8, SaveKeeps

-----------------------------------------------------------------------------
(* Without keys in common, orphans are those whose ID is not offered.      *)
LEMMA OrphanFacts ==
  ASSUME OwnKeys, NEW S \in SUBSET Offers, NEW st \in Status
  PROVE  /\ Orphans(st, S) \subseteq Listed(st) /\ Listed(st) \subseteq Offers
         /\ \A p \in Listed(st) : p \in Orphans(st, S) <=> p.id \notin IdsOf(S)
<1>1. Listed(st) \subseteq Offers
  BY DEF Listed, Status
<1> QED
  BY <1>1 DEF OwnKeys, Orphans, IdsOf

(* The status is written: what was saved is listed, and the orphans are in *)
(* hand.                                                                   *)
LEMMA ListKeeps ==
  ASSUME StorageInv, OwnKeys, NEW w \in Workers, NEW j \in Job, j = job[w], j.pc = "status",
         NEW T, T = Orphans(status[j.cfg], j.offers), NEW k \in Job,
         k.pc = (IF T = {} THEN "idle" ELSE "get"),
         k.pc # "idle" => k.cfg = j.cfg /\ k.delete = j.delete /\ k.todo = T /\ k.cur = Nil,
         NEW s \in Scopes, s = ScopeOf[j.cfg],
         UNCHANGED <<driver, idSpace, nvSpace, charts, groups, deleting>>,
         spoiled' = spoiled \ AddonKeys(j.cfg, Restored(j)),
         \A c \in Configs : c # j.cfg => status'[c] = status[c],
         status'[j.cfg].ready = j.offers \ j.failed, status'[j.cfg].failed = j.failed
  PROVE  StatusInv' /\ SavingInv(k)' /\ RemovingInv(k)' /\ ScopeInv(s, k)'
<1>0. /\ StatusInv /\ SavingInv(j) /\ j.pc # "idle" /\ j.pc \in Saving /\ j.pc \notin HasAddon
      /\ j.cfg \in Configs /\ WorkerIn(s) = w /\ k.pc \notin HasAddon /\ k.pc \notin Saving
      /\ StoreTypes /\ (k.pc # "idle" => k.pc \in Removing) /\ j.pc \notin Removing
  BY Phases, WorkerOfScope, TypesSplit DEF StorageInv, JobTypes, Saving, HasAddon, Removing
<1>1. ScopeInv(s, j)
  BY <1>0 DEF StorageInv
<1>2. \A o : (Served(s, o)' <=> Served(s, o)) /\ (Absent(s, o)' <=> Absent(s, o))
  BY DEF Served, Absent, Mapped, ChartRef
<1>3. /\ ~j.delete /\ j.todo = {} /\ j.failed \subseteq j.partial /\ j.partial \subseteq j.offers
      /\ j.offers \subseteq Offers /\ j.cfg \notin deleting
      /\ \A o, p \in j.offers : o.id = p.id => o = p
      /\ \A o \in j.partial : ~IsClean(s, o)
      /\ \A d \in Configs : d # j.cfg /\ ScopeOf[d] = s =>
           \A o \in j.offers, p \in status[d].ready : o.id # p.id
  BY <1>0, JobFields DEF SavingInv
<1>4. /\ T \subseteq Listed(status[j.cfg]) /\ Listed(status[j.cfg]) \subseteq Offers
      /\ \A p \in Listed(status[j.cfg]) : p \in T <=> p.id \notin IdsOf(j.offers)
  <2>1. PICK st \in Status : st = status[j.cfg]
    BY <1>0 DEF StoreTypes
  <2>2. PICK S \in SUBSET Offers : S = j.offers
    BY <1>3
  <2>3. /\ Orphans(st, S) \subseteq Listed(st) /\ Listed(st) \subseteq Offers
        /\ \A p \in Listed(st) : p \in Orphans(st, S) <=> p.id \notin IdsOf(S)
    BY OrphanFacts
  <2>4. T = Orphans(st, S)
    BY <2>1, <2>2
  <2> QED
    BY <2>1, <2>2, <2>3, <2>4
<1>5. /\ \A o, p \in Listed(status[j.cfg]) : o.id = p.id => o = p
      /\ \A o \in Listed(status[j.cfg]) : IsClean(s, o) => o \in status[j.cfg].ready
      /\ \A d \in Configs : d # j.cfg /\ ScopeOf[d] = s =>
           \A o \in status[j.cfg].ready, p \in status[d].ready : o.id # p.id
  BY <1>0 DEF StatusInv, Listed
<1>6. /\ \A o : o.id \notin IdsOf(j.offers) => (IsClean(s, o)' <=> IsClean(s, o))
      /\ \A o \in j.partial : ~IsClean(s, o)'
      /\ \A t, o : t # s => (IsClean(t, o)' <=> IsClean(t, o))
      /\ \A d \in Configs : ScopeOf[d] = s /\ d # j.cfg => \A o \in status[d].failed : ~IsClean(s, o)'
  <2>1. \A t, o : IsClean(t, o)' <=> IsClean(t, o) \/ (t = s /\ \E r \in Restored(j) : r.id = o.id)
    BY DEF IsClean, AddonKeys
  <2>2. /\ Restored(j) \subseteq j.offers \ j.partial
        /\ \A r \in Restored(j) : \A d \in Configs : ScopeOf[d] = s /\ d # j.cfg =>
             \A o \in status[d].failed : o.nv # r.nv
    BY DEF Restored
  <2>3. \A d \in Configs : ScopeOf[d] = s /\ d # j.cfg => \A o \in status[d].failed : ~IsClean(s, o)'
    <3>1. \A d \in Configs : status[d].failed \subseteq Offers
      BY <1>0, StatusFields
    <3>2. \A d \in Configs : ScopeOf[d] = s => \A o \in status[d].failed : ~IsClean(s, o)
      BY <1>0 DEF StatusInv
    <3> QED
      BY <1>3, <2>1, <2>2, <3>1, <3>2 DEF OwnKeys
  <2>4. \A o : o.id \notin IdsOf(j.offers) => (IsClean(s, o)' <=> IsClean(s, o))
    BY <2>1, <2>2 DEF IdsOf
  <2>5. \A o \in j.partial : ~IsClean(s, o)'
    BY <1>3, <2>1, <2>2
  <2> QED
    BY <2>1, <2>3, <2>4, <2>5
<1>7. StatusInv'
  <2>1. Listed(status'[j.cfg]) = j.offers
    BY <1>3 DEF Listed
  <2>2. \A c \in Configs : \A o, p \in Listed(status'[c]) : o.id = p.id => o = p
    BY <1>0, <1>3, <2>1 DEF StatusInv
  <2>3. \A c \in Configs : \A o \in status'[c].failed : ~IsClean(ScopeOf[c], o)'
    <3>1. \A c \in Configs : \A o \in status[c].failed : ~IsClean(ScopeOf[c], o)
      BY <1>0 DEF StatusInv
    <3> SUFFICES ASSUME NEW c \in Configs, NEW o \in status'[c].failed
                 PROVE  ~IsClean(ScopeOf[c], o)'
      OBVIOUS
    <3>2. CASE c = j.cfg
      BY <1>3, <1>6, <3>2
    <3>3. CASE c # j.cfg /\ ScopeOf[c] = s
      <4>1. o \in status[c].failed
        BY <3>3
      <4>2. ~IsClean(s, o)'
        BY <1>6, <3>3, <4>1
      <4> QED
        BY <3>3, <4>2 DEF IsClean
    <3>4. CASE c # j.cfg /\ ScopeOf[c] # s
      <4>1. ~IsClean(ScopeOf[c], o)
        BY <3>1, <3>4
      <4>2. PICK t : t = ScopeOf[c] /\ t # s
        BY <3>4
      <4>3. ~IsClean(t, o)'
        BY <1>6, <4>1, <4>2
      <4> QED
        BY <4>2, <4>3 DEF IsClean
    <3> QED
      BY <3>2, <3>3, <3>4
  <2>4. \A c, d \in Configs : c # d /\ ScopeOf[c] = ScopeOf[d] =>
          \A o \in status'[c].ready, p \in status'[d].ready : o.id # p.id
    BY <1>0, <1>3 DEF StatusInv
  <2> QED
    BY <2>2, <2>3, <2>4 DEF StatusInv
<1>8. SavingInv(k)'
  BY <1>0 DEF SavingInv
<1> DEFINE K == UNION {status[c].ready : c \in {d \in Configs : Stays(s, d) /\ d # j.cfg}}
<1>9. Kept(s)' = K \cup (j.offers \ j.failed)
  <2>1. Stays(s, j.cfg) /\ \A c \in Configs : Stays(s, c)' <=> Stays(s, c)
    BY <1>3 DEF Stays
  <2>2. Kept(s)' = UNION {status'[c].ready : c \in {d \in Configs : Stays(s, d)'}}
    BY DEF Kept
  <2>3. \A o : o \in Kept(s)' <=> \E c \in Configs : Stays(s, c) /\ o \in status'[c].ready
    BY <2>1, <2>2
  <2>4. \A o : (\E c \in Configs : Stays(s, c) /\ o \in status'[c].ready)
              <=> o \in K \/ o \in status'[j.cfg].ready
    BY <1>0, <2>1
  <2> QED
    BY <2>3, <2>4
<1>10. Kept(s) = K \cup status[j.cfg].ready
  <2>1. Stays(s, j.cfg)
    BY <1>3 DEF Stays
  <2>2. \A o : o \in Kept(s) <=> \E c \in Configs : Stays(s, c) /\ o \in status[c].ready
    BY DEF Kept
  <2>3. \A o : (\E c \in Configs : Stays(s, c) /\ o \in status[c].ready)
              <=> o \in K \/ o \in status[j.cfg].ready
    BY <1>0, <2>1
  <2> QED
    BY <2>2, <2>3
<1>11. /\ \A o \in j.offers, p \in K : o.id # p.id
       /\ \A o \in status[j.cfg].ready, p \in K : o.id # p.id
  BY <1>3, <1>5 DEF Stays
<1> HIDE DEF K
<1>12. Leaving(s, k)' = Leaving(s, j)
  <2>1. \A c \in Configs : /\ Waits(s, k, c)' <=> ScopeOf[c] = s /\ c \in deleting
                           /\ Waits(s, j, c) <=> ScopeOf[c] = s /\ c \in deleting
    BY <1>3 DEF Waits, On
  <2>2. Leaving(s, k)' = UNION {status'[c].ready : c \in {d \in Configs : Waits(s, k, d)'}}
    BY DEF Leaving
  <2> QED
    BY <1>3, <2>1, <2>2 DEF Leaving
<1>13. /\ (On(s, k) <=> T # {}) /\ (On(s, k)' <=> On(s, k)) /\ InHand(s, k)' = T /\ On(s, j)
       /\ InHand(s, j) \subseteq j.offers
  BY <1>0, OfferFacts DEF On, InHand, Touched
<1>14. ASSUME NEW o \in T, IsClean(s, o)'
       PROVE  /\ o \in Offers /\ o \in status[j.cfg].ready /\ IsClean(s, o)
              /\ o.id \notin IdsOf(j.offers) /\ o.id \notin IdsOf(Kept(s)')
  <2>1. o \in Offers /\ o.id \notin IdsOf(j.offers)
    BY <1>4, <1>14
  <2>2. IsClean(s, o) /\ o \in status[j.cfg].ready
    BY <1>4, <1>5, <1>6, <1>14, <2>1
  <2> QED
    BY <1>9, <1>11, <2>1, <2>2 DEF IdsOf
<1>15. RemovingInv(k)'
  <2>1. k.pc # "idle" => ~k.delete /\ k.todo = T /\ k.cur = Nil /\ k.cfg = j.cfg
    BY <1>3
  <2>2. \A o, p \in T : o.id = p.id => o = p
    BY <1>4, <1>5
  <2>3. \A o \in InHand(s, k)' : IsClean(s, o)' => o.id \notin IdsOf(Kept(s)')
    BY <1>13, <1>14
  <2> QED
    BY <1>0, <1>3, <2>1, <2>2, <2>3, Phases DEF RemovingInv, IdsOf
<1>16. ScopeInv(s, k)'
  <2>1. IdsOf(InHand(s, k))' = IdsOf(T) /\ IdsOf(Kept(s))' = IdsOf(Kept(s)')
    BY <1>13 DEF IdsOf
  <2>6. \A o : Gone(s, k, o)' <=> Gone(s, j, o)
    BY <1>2, <1>12 DEF Gone
  <2> SUFFICES ASSUME NEW o \in Offers, IsClean(s, o)'
               PROVE  /\ o \in Kept(s)' /\ o.id \notin IdsOf(T) => Served(s, o)
                      /\ o.id \notin IdsOf(Kept(s)') /\ o.id \notin IdsOf(T) => Gone(s, j, o)
                      /\ o \in T => Served(s, o)
    BY <1>0, <1>2, <1>13, <2>1, <2>6 DEF ScopeInv
  <2>2. ASSUME o.id \notin IdsOf(j.offers)
        PROVE  /\ IsClean(s, o)
               /\ o \in Kept(s) => Served(s, o)
               /\ o.id \notin IdsOf(Kept(s)) => Gone(s, j, o)
    <3>1. IsClean(s, o) /\ o.id \notin IdsOf(InHand(s, j))
      BY <1>13, <1>6, <2>2 DEF IdsOf
    <3> QED
      BY <1>1, <3>1, ScopeParts
  <2>3. o \in Kept(s)' => Served(s, o)
    <3>1. o \in K => o \in Kept(s) /\ o.id \notin IdsOf(j.offers)
      BY <1>10, <1>11 DEF IdsOf
    <3>2. ASSUME o \in j.offers \ j.failed
          PROVE  Served(s, o)
      <4>1. o \notin j.partial
        BY <1>6
      <4> QED
        BY <1>0, <1>1, <1>3, <1>13, <3>2, <4>1, SavedParts
    <3> QED
      BY <1>9, <2>2, <3>1, <3>2
  <2>4. ASSUME o.id \notin IdsOf(Kept(s)'), o.id \notin IdsOf(T)
        PROVE  Gone(s, j, o)
    <3>1. o.id \notin IdsOf(j.offers)
      <4>1. ASSUME NEW p \in j.offers, p.id = o.id
            PROVE  FALSE
        <5>1. IsClean(s, p)'
          BY <4>1 DEF IsClean
        <5>2. p \in j.offers \ j.failed
          BY <1>3, <1>6, <4>1, <5>1
        <5> QED
          BY <1>9, <2>4, <4>1, <5>2 DEF IdsOf
      <4> QED
        BY <4>1 DEF IdsOf
    <3>2. o.id \notin IdsOf(K)
      BY <1>9, <2>4 DEF IdsOf
    <3>3. o.id \notin IdsOf(status[j.cfg].ready)
      BY <1>4, <2>4, <3>1 DEF IdsOf, Listed
    <3>4. o.id \notin IdsOf(Kept(s))
      BY <1>10, <3>2, <3>3 DEF IdsOf
    <3> QED
      BY <2>2, <3>1, <3>4
  <2>5. o \in T => Served(s, o)
    BY <1>10, <1>14, <2>2
  <2> QED
    BY <2>3, <2>4, <2>5
<1> QED
  BY <1>7, <1>8, <1>15, <1>16

(* The status is written.                                                  *)
LEMMA UpdateStatusKeeps ==
  ASSUME StorageInv, NEW w \in Workers, updateAddonStatus(w)
  PROVE  StorageInv'
<1>0. job[w].pc = "status" /\ job[w].pc # "idle"
  BY DEF updateAddonStatus, At
<1>1. PICK j \in Job : j = job[w]
  BY <1>0, AtWork
<1>2. PICK s \in Scopes : s = scope(w) /\ s = ScopeOf[j.cfg]
  BY <1>0, <1>1, AtWork
<1>3. /\ j.cfg \in Configs /\ WorkerOf(j.cfg) = w /\ WorkerIn(s) = w /\ StoreTypes
      /\ j.offers \subseteq Offers /\ j.failed \subseteq Offers
  BY <1>0, <1>1, <1>2, AtWork, JobFields
<1>4. PICK T : T = Orphans(status[j.cfg], j.offers)
  OBVIOUS
<1>5. T \subseteq Offers
  BY <1>3, <1>4 DEF Orphans, Listed, StoreTypes, Status
<1> DEFINE l == NextRemoval([j EXCEPT !.todo = T])
           k == IF l.pc = "idle" THEN Idle ELSE l
<1>6. /\ l \in Job /\ l.pc = (IF T = {} THEN "idle" ELSE "get")
      /\ l.cfg = j.cfg /\ l.delete = j.delete /\ l.todo = T /\ l.cur = Nil
  BY <1>5 DEF NextRemoval, Job, Removing
<1>7. /\ job' = [job EXCEPT ![w] = k]
      /\ UNCHANGED <<driver, idSpace, nvSpace, charts, groups, deleting>>
      /\ spoiled' = spoiled \ AddonKeys(j.cfg, Restored(j))
      /\ status' = [status EXCEPT ![j.cfg] = [ready |-> j.offers \ j.failed, failed |-> j.failed]]
  BY <1>1, <1>4 DEF updateAddonStatus, Set, store
<1> HIDE DEF l
<1>8. /\ k \in Job /\ k.pc = (IF T = {} THEN "idle" ELSE "get")
      /\ k.pc = "idle" => k = Idle
      /\ k.pc # "idle" => /\ k.cfg = j.cfg /\ k.delete = j.delete /\ k.todo = T
                          /\ k.cur = Nil
  BY <1>6, IdleFacts
<1> HIDE DEF k
<1>9. /\ status' \in [Configs -> Status]
      /\ \A c \in Configs : c # j.cfg => status'[c] = status[c]
      /\ status'[j.cfg].ready = j.offers \ j.failed /\ status'[j.cfg].failed = j.failed
  BY <1>3, <1>7 DEF StoreTypes, Status
<1>10. JobTypes(w, k)
  BY <1>3, <1>8 DEF JobTypes, HasAddon
<1>11. StoreTypes' /\ Local(s)
  BY <1>2, <1>3, <1>7, <1>9 DEF StoreTypes, Local, Still, IsClean, AddonKeys
<1>12. ASSUME OwnKeys
       PROVE  KeyedInv' /\ StatusInv' /\ SavingInv(k)' /\ RemovingInv(k)' /\ ScopeInv(s, k)'
  <2>1. KeyedInv'
    BY <1>7, <1>12 DEF StorageInv, KeyedInv
  <2>2. StatusInv' /\ SavingInv(k)' /\ RemovingInv(k)' /\ ScopeInv(s, k)'
    BY <1>0, <1>1, <1>2, <1>4, <1>7, <1>8, <1>9, <1>12, ListKeeps
  <2> QED
    BY <2>1, <2>2
<1>13. k.pc # "idle" => ScopeOf[k.cfg] = s
  BY <1>2, <1>8
<1> QED
  BY <1>1, <1>2, <1>3, <1>7, <1>8, <1>10, <1>11, <1>12, <1>13, StepKeeps

(* Between reconciliations nothing is in hand.                             *)
LEMMA NothingInHand ==
  ASSUME NEW s
  PROVE  /\ InHand(s, Idle) = {} /\ ~On(s, Idle) /\ \A o : o.id \notin IdsOf(InHand(s, Idle))
         /\ Kept(s) = UNION {status[c].ready : c \in {d \in Configs : ScopeOf[d] = s /\ d \notin deleting}}
         /\ Leaving(s, Idle) = UNION {status[c].ready : c \in {d \in Configs : ScopeOf[d] = s /\ d \in deleting}}
<1>1. ~On(s, Idle) /\ InHand(s, Idle) = {}
  BY IdleFacts DEF InHand, On
<1>2. \A c \in Configs : Waits(s, Idle, c) <=> ScopeOf[c] = s /\ c \in deleting
  BY <1>1 DEF Waits
<1> QED
  BY <1>1, <1>2 DEF IdsOf, Kept, Stays, Leaving

(* A configuration is registered.                                          *)
LEMMA AddKeeps ==
  ASSUME StorageInv, OwnKeys, NEW c \in Configs, NEW s \in Scopes, s = ScopeOf[c], c \notin deleting,
         job[WorkerIn(s)] = Idle, NEW S \in SUBSET Offers, Admissible(c, S), Unstored,
         UNCHANGED <<status, deleting>>, NEW k \in Job, k.pc = (IF S = {} THEN "status" ELSE "docs"),
         k.cfg = c, ~k.delete, k.offers = S, k.todo = S, k.cur = Nil, k.failed = {}, k.partial = {}
  PROVE  StatusInv' /\ SavingInv(k)' /\ RemovingInv(k)' /\ ScopeInv(s, k)'
<1>0. /\ StatusInv /\ ScopeInv(s, Idle) /\ StoreTypes
      /\ k.pc \in Saving /\ k.pc \notin HasAddon /\ k.pc \notin Removing /\ k.pc # "idle"
  BY Phases, TypesSplit DEF StorageInv, Saving, HasAddon
<1>1. Kept(s)' = Kept(s) /\ Leaving(s, k)' = Leaving(s, Idle)
  <2>1. \A d \in Configs : Stays(s, d)' <=> Stays(s, d)
    BY DEF Stays
  <2>2. \A d \in Configs : Waits(s, k, d)' <=> Waits(s, Idle, d)
    BY NothingInHand DEF Waits
  <2>3. /\ Kept(s)' = UNION {status'[d].ready : d \in {e \in Configs : Stays(s, e)'}}
        /\ Leaving(s, k)' = UNION {status'[d].ready : d \in {e \in Configs : Waits(s, k, e)'}}
    BY DEF Kept, Leaving
  <2> QED
    BY <2>1, <2>2, <2>3 DEF Kept, Leaving
<1>2. StatusInv'
  BY <1>0 DEF StatusInv, IsClean, Unstored
<1>3. RemovingInv(k)'
  BY <1>0 DEF RemovingInv
<1>4. SavingInv(k)'
  <2>1. \A o, p \in S : o.id = p.id => o = p
    BY DEF Admissible
  <2>2. \A d \in Configs : d # c /\ ScopeOf[d] = ScopeOf[c] =>
          \A o \in S, p \in status'[d].ready : o.id # p.id
    <3>1. \A d \in Configs : status'[d] = status[d] /\ status[d].ready \subseteq Offers
      BY <1>0, StatusFields
    <3> QED
      BY <3>1 DEF Admissible, OwnKeys
  <2> QED
    BY <1>0, <2>1, <2>2 DEF SavingInv
<1>5. ScopeInv(s, k)'
  <2>1. \A o : /\ Served(s, o)' <=> Served(s, o)
               /\ Absent(s, o)' <=> Absent(s, o)
               /\ IsClean(s, o)' <=> IsClean(s, o)
    BY StoreKept
  <2>2. \A o : Gone(s, k, o)' <=> Gone(s, Idle, o)
    BY <1>1, <2>1 DEF Gone
  <2>3. ASSUME NEW o \in Offers, IsClean(s, o)
        PROVE  /\ o \in Kept(s) => Served(s, o)
               /\ o.id \notin IdsOf(Kept(s)) => Gone(s, Idle, o)
    BY <1>0, <2>3, NothingInHand, ScopeParts
  <2>4. IdsOf(Kept(s))' = IdsOf(Kept(s))
    BY <1>1 DEF IdsOf
  <2> QED
    BY <1>0, <1>1, <2>1, <2>2, <2>3, <2>4 DEF ScopeInv
<1> QED
  BY <1>2, <1>3, <1>4, <1>5

(* A configuration is deleted, or that is tried once more.                 *)
LEMMA DeleteKeeps ==
  ASSUME StorageInv, OwnKeys, NEW c \in Configs, NEW s \in Scopes, s = ScopeOf[c],
         job[WorkerIn(s)] = Idle, Unstored, UNCHANGED status, deleting' = deleting \cup {c},
         NEW k \in Job, k.pc = "get", k.cfg = c, k.delete, k.todo = Listed(status[c]), k.cur = Nil
  PROVE  StatusInv' /\ SavingInv(k)' /\ RemovingInv(k)' /\ ScopeInv(s, k)'
<1>0. /\ StatusInv /\ ScopeInv(s, Idle) /\ StoreTypes
      /\ k.pc \notin Saving /\ k.pc \notin HasAddon /\ k.pc \in Removing /\ k.pc # "idle"
  BY Phases, TypesSplit DEF StorageInv, Removing, HasAddon, Saving
<1>1. /\ Kept(s) = UNION {status[d].ready : d \in {e \in Configs : ScopeOf[e] = s /\ e \notin deleting}}
      /\ Leaving(s, Idle) = UNION {status[d].ready : d \in {e \in Configs : ScopeOf[e] = s /\ e \in deleting}}
  BY NothingInHand
<1>2. On(s, k) /\ (On(s, k)' <=> On(s, k)) /\ InHand(s, k)' = Listed(status[c])
  BY <1>0 DEF InHand, On
<1>3. /\ Kept(s)' = UNION {status[d].ready : d \in {e \in Configs : ScopeOf[e] = s /\ e \notin deleting /\ e # c}}
      /\ Leaving(s, k)' = UNION {status[d].ready : d \in {e \in Configs : ScopeOf[e] = s /\ e \in deleting /\ e # c}}
  <2>1. \A d \in Configs : Stays(s, d)' <=> ScopeOf[d] = s /\ d \notin deleting /\ d # c
    BY DEF Stays
  <2>2. \A d \in Configs : Waits(s, k, d)' <=> ScopeOf[d] = s /\ d \in deleting /\ d # c
    BY <1>2 DEF Waits
  <2>3. /\ Kept(s)' = UNION {status[d].ready : d \in {e \in Configs : Stays(s, e)'}}
        /\ Leaving(s, k)' = UNION {status[d].ready : d \in {e \in Configs : Waits(s, k, e)'}}
    BY DEF Kept, Leaving
  <2> QED
    BY <2>1, <2>2, <2>3
<1>4. /\ \A o \in Kept(s)' : o \in Kept(s)
      /\ \A o \in Kept(s) : o \in Kept(s)' \/ o \in status[c].ready
      /\ \A o \in Leaving(s, Idle) : o \in Leaving(s, k)' \/ o \in status[c].ready
      /\ \A o \in status[c].ready : o \in Kept(s) \/ o \in Leaving(s, Idle)
  BY <1>1, <1>3
<1>5. /\ \A o, p \in Listed(status[c]) : o.id = p.id => o = p
      /\ \A o \in Listed(status[c]) : IsClean(s, o) => o \in status[c].ready
      /\ \A o \in status[c].ready, p \in Kept(s)' : o.id # p.id
      /\ status[c].ready \subseteq Listed(status[c])
  BY <1>0, <1>3 DEF StatusInv, Listed
<1>6. \A o : /\ Served(s, o)' <=> Served(s, o)
             /\ Absent(s, o)' <=> Absent(s, o)
             /\ IsClean(s, o)' <=> IsClean(s, o)
  BY StoreKept
<1>7. StatusInv'
  BY <1>0 DEF StatusInv, IsClean, Unstored
<1>8. SavingInv(k)'
  BY <1>0 DEF SavingInv
<1>9. RemovingInv(k)'
  <2>1. \A o \in InHand(s, k)' : IsClean(s, o)' => o.id \notin IdsOf(Kept(s)')
    BY <1>2, <1>5, <1>6 DEF IdsOf
  <2> QED
    BY <1>0, <1>5, <2>1 DEF RemovingInv, IdsOf
<1>10. ScopeInv(s, k)'
  <2>1. IdsOf(InHand(s, k))' = IdsOf(Listed(status[c])) /\ IdsOf(Kept(s))' = IdsOf(Kept(s)')
    BY <1>2 DEF IdsOf
  <2> SUFFICES ASSUME NEW o \in Offers, IsClean(s, o)
               PROVE  /\ o \in Kept(s)' => Served(s, o)
                      /\ o.id \notin IdsOf(Kept(s)') /\ o.id \notin IdsOf(Listed(status[c]))
                           => Gone(s, k, o)'
                      /\ o \in Listed(status[c]) => Served(s, o) \/ Absent(s, o)
    BY <1>0, <1>2, <1>6, <2>1 DEF ScopeInv
  <2>2. /\ o \in Kept(s) => Served(s, o)
        /\ o.id \notin IdsOf(Kept(s)) => Gone(s, Idle, o)
    BY <1>0, NothingInHand, ScopeParts
  <2>3. ASSUME o.id \notin IdsOf(Kept(s)'), o.id \notin IdsOf(Listed(status[c]))
        PROVE  Gone(s, k, o)'
    <3>1. Gone(s, Idle, o)
      BY <1>4, <1>5, <2>2, <2>3 DEF IdsOf
    <3>2. ASSUME NEW p \in Leaving(s, Idle), p.id = o.id, Served(s, p)
          PROVE  p \in Leaving(s, k)' /\ Served(s, p)'
      BY <1>4, <1>5, <1>6, <2>3, <3>2 DEF IdsOf
    <3> QED
      BY <1>6, <3>1, <3>2 DEF Gone
  <2>4. ASSUME o \in status[c].ready
        PROVE  Served(s, o) \/ Absent(s, o)
    <3>1. CASE o \in Kept(s)
      BY <2>2, <3>1
    <3>2. CASE o \notin Kept(s)
      <4>1. c \in deleting
        BY <1>1, <2>4, <3>2
      <4>2. ASSUME NEW p, NEW d \in Configs, ScopeOf[d] = s, p \in status[d].ready, p.id = o.id
            PROVE  d = c /\ p = o
        BY <1>0, <1>5, <2>4, <4>2 DEF StatusInv
      <4>3. o.id \notin IdsOf(Kept(s))
        BY <1>1, <4>1, <4>2 DEF IdsOf
      <4>4. Gone(s, Idle, o)
        BY <2>2, <4>3
      <4>5. ASSUME NEW p \in Leaving(s, Idle), p.id = o.id
            PROVE  p = o
        BY <1>1, <4>2, <4>5
      <4> QED
        BY <4>4, <4>5 DEF Gone
    <3> QED
      BY <3>1, <3>2
  <2> QED
    BY <1>4, <1>5, <2>2, <2>3, <2>4
<1> QED
  BY <1>7, <1>8, <1>9, <1>10

(* A reconciliation begins: what it may register no other configuration    *)
(* lists.                                                                  *)
LEMMA OnAddKeeps ==
  ASSUME StorageInv, NEW c \in Configs, NEW S \in SUBSET Offers, OnAdd(c, S)
  PROVE  StorageInv'
<1>1. PICK w \in Workers, s \in Scopes : w = WorkerOf(c) /\ s = ScopeOf[c] /\ WorkerIn(s) = w
  BY WorkerOfScope, OfferFacts
<1> DEFINE k == [Idle EXCEPT !.pc = IF S = {} THEN "status" ELSE "docs",
                             !.cfg = c, !.offers = S, !.todo = S]
<1>2. /\ k \in Job /\ k.pc = (IF S = {} THEN "status" ELSE "docs") /\ k.cfg = c
      /\ ~k.delete /\ k.offers = S /\ k.todo = S /\ k.cur = Nil /\ k.failed = {} /\ k.partial = {}
  BY DEF Idle, Job, Saving
<1>3. k.pc # "idle" /\ k.pc \notin HasAddon
  BY <1>2 DEF HasAddon
<1>4. /\ job' = [job EXCEPT ![w] = k] /\ job[w] = Idle /\ Unstored /\ UNCHANGED <<status, deleting>>
      /\ Admissible(c, S) /\ c \notin deleting
  BY <1>1, <1>3 DEF OnAdd, Set, store, Unstored
<1> HIDE DEF k
<1>5. JobTypes(w, k)
  BY <1>1, <1>2, <1>3 DEF JobTypes
<1>6. StoreTypes' /\ Local(s)
  BY <1>4, TypesSplit DEF StorageInv, StoreTypes, Local, Still, IsClean, Unstored
<1>7. ASSUME OwnKeys
      PROVE  KeyedInv' /\ StatusInv' /\ SavingInv(k)' /\ RemovingInv(k)' /\ ScopeInv(s, k)'
  <2>1. KeyedInv'
    BY <1>4, <1>7, StoreKept DEF StorageInv
  <2>2. StatusInv' /\ SavingInv(k)' /\ RemovingInv(k)' /\ ScopeInv(s, k)'
    BY <1>1, <1>2, <1>4, <1>7, AddKeeps
  <2> QED
    BY <2>1, <2>2
<1> QED
  BY <1>1, <1>2, <1>4, <1>5, <1>6, <1>7, IdleFacts, StepKeeps

(* A deletion begins: what it lists and nobody spoiled is stored, or was   *)
(* removed by an attempt before.                                           *)
LEMMA OnDeleteKeeps ==
  ASSUME StorageInv, NEW c \in Configs, OnDelete(c)
  PROVE  StorageInv'
<1>1. PICK w \in Workers, s \in Scopes : w = WorkerOf(c) /\ s = ScopeOf[c] /\ WorkerIn(s) = w
  BY WorkerOfScope, OfferFacts
<1>2. PICK T : T = Listed(status[c])
  OBVIOUS
<1>3. T \subseteq Offers
  BY <1>2, TypesSplit DEF Listed, StorageInv, StoreTypes, Status
<1> DEFINE k == [Idle EXCEPT !.pc = "get", !.cfg = c, !.delete = TRUE, !.todo = T]
<1>4. /\ k \in Job /\ k.pc = "get" /\ k.cfg = c /\ k.delete /\ k.todo = T /\ k.cur = Nil
  BY <1>3 DEF Idle, Job, Removing
<1>5. k.pc # "idle" /\ k.pc \notin HasAddon
  BY <1>4 DEF HasAddon
<1>6. /\ job' = [job EXCEPT ![w] = k] /\ job[w] = Idle /\ Unstored /\ UNCHANGED status
      /\ deleting' = deleting \cup {c}
  BY <1>1, <1>2, <1>5 DEF OnDelete, Set, store, Unstored
<1> HIDE DEF k
<1>7. JobTypes(w, k)
  BY <1>1, <1>4, <1>5 DEF JobTypes
<1>8. StoreTypes' /\ Local(s)
  BY <1>1, <1>6, TypesSplit DEF StorageInv, StoreTypes, Local, Still, IsClean, Unstored
<1>9. ASSUME OwnKeys
      PROVE  KeyedInv' /\ StatusInv' /\ SavingInv(k)' /\ RemovingInv(k)' /\ ScopeInv(s, k)'
  <2>1. KeyedInv'
    BY <1>6, <1>9, StoreKept DEF StorageInv
  <2>2. StatusInv' /\ SavingInv(k)' /\ RemovingInv(k)' /\ ScopeInv(s, k)'
    BY <1>1, <1>2, <1>4, <1>6, <1>9, DeleteKeeps
  <2> QED
    BY <2>1, <2>2
<1> QED
  BY <1>1, <1>4, <1>6, <1>7, <1>8, <1>9, IdleFacts, StepKeeps

(* A repository cannot be fetched: what was listed is spoiled.             *)
LEMMA FetchingErrorKeeps ==
  ASSUME StorageInv, NEW c \in Configs, FetchingError(c)
  PROVE  StorageInv'
<1>1. PICK w \in Workers, s \in Scopes : w = WorkerOf(c) /\ s = ScopeOf[c] /\ WorkerIn(s) = w
  BY WorkerOfScope, OfferFacts
<1>2. /\ job[w] = Idle /\ job' = job /\ status' = [status EXCEPT ![c] = NoStatus] /\ c \notin deleting
      /\ spoiled' = spoiled \cup AddonKeys(c, Listed(status[c]))
      /\ UNCHANGED <<driver, idSpace, nvSpace, charts, groups, deleting>>
      /\ StoreTypes /\ job \in [Workers -> Job]
  BY <1>1, TypesSplit DEF FetchingError, store, StorageInv
<1>3. NoStatus \in Status /\ NoStatus.ready = {} /\ NoStatus.failed = {} /\ Listed(NoStatus) = {}
  BY DEF NoStatus, Status, Listed
<1>4. status'[c] = NoStatus /\ \A d \in Configs : d # c => status'[d] = status[d]
  BY <1>2 DEF StoreTypes
<1>5. StoreTypes' /\ Local(s)
  <2>1. Listed(status[c]) \subseteq Offers
    BY <1>2, StatusFields DEF Listed
  <2>2. AddonKeys(c, Listed(status[c])) \subseteq Scopes \X IDs
    BY <1>1, <2>1, OfferFacts DEF AddonKeys
  <2>3. StoreTypes'
    BY <1>2, <1>3, <2>2 DEF StoreTypes
  <2> QED
    BY <1>1, <1>2, <1>4, <2>3 DEF Local, Still, IsClean
<1>6. \A t, o : /\ IsClean(t, o)' => IsClean(t, o)
                /\ IsClean(s, o)' => o.id \notin IdsOf(Listed(status[c]))
  BY <1>1, <1>2 DEF IsClean, AddonKeys, IdsOf
<1>7. ASSUME OwnKeys
      PROVE  KeyedInv' /\ StatusInv' /\ SavingInv(Idle)' /\ RemovingInv(Idle)' /\ ScopeInv(s, Idle)'
  <2>0. StatusInv /\ ScopeInv(s, Idle) /\ KeyedInv
    BY <1>1, <1>2, <1>7 DEF StorageInv
  <2>1. KeyedInv'
    BY <1>2, <2>0 DEF KeyedInv
  <2>2. StatusInv'
    BY <1>3, <1>4, <1>6, <2>0 DEF StatusInv
  <2>3. SavingInv(Idle)' /\ RemovingInv(Idle)'
    BY IdleFacts, Phases DEF SavingInv, RemovingInv
  <2>4. /\ \A o \in Kept(s)' : o \in Kept(s)
        /\ \A o \in Kept(s) : o \in Kept(s)' \/ o \in status[c].ready
        /\ Leaving(s, Idle)' = Leaving(s, Idle)
    <3>1. \A d \in Configs : (Stays(s, d)' <=> Stays(s, d)) /\ (Waits(s, Idle, d)' <=> Waits(s, Idle, d))
      BY <1>2 DEF Stays, Waits, On
    <3>2. ~Waits(s, Idle, c)
      BY <1>2 DEF Waits
    <3>3. /\ Kept(s)' = UNION {status'[d].ready : d \in {e \in Configs : Stays(s, e)'}}
          /\ Leaving(s, Idle)' = UNION {status'[d].ready : d \in {e \in Configs : Waits(s, Idle, e)'}}
      BY DEF Kept, Leaving
    <3> QED
      BY <1>3, <1>4, <3>1, <3>2, <3>3 DEF Kept, Leaving
  <2>5. \A o : (Served(s, o)' <=> Served(s, o)) /\ (Absent(s, o)' <=> Absent(s, o))
    BY <1>2 DEF Served, Absent, Mapped, ChartRef
  <2>6. \A o : Gone(s, Idle, o)' <=> Gone(s, Idle, o)
    BY <2>4, <2>5 DEF Gone
  <2>7. ASSUME NEW o \in Offers, IsClean(s, o)'
        PROVE  /\ o \in Kept(s)' => Served(s, o)
               /\ o.id \notin IdsOf(Kept(s)') => Gone(s, Idle, o)
    <3>1. IsClean(s, o) /\ o.id \notin IdsOf(Listed(status[c]))
      BY <1>6, <2>7
    <3>2. /\ o \in Kept(s) => Served(s, o)
          /\ o.id \notin IdsOf(Kept(s)) => Gone(s, Idle, o)
      BY <2>0, <3>1, NothingInHand, ScopeParts
    <3> QED
      BY <2>4, <3>1, <3>2 DEF IdsOf, Listed
  <2>8. ~On(s, Idle)' /\ IdsOf(Kept(s))' = IdsOf(Kept(s)')
    BY IdleFacts DEF On, IdsOf
  <2>9. ScopeInv(s, Idle)'
    BY <2>5, <2>6, <2>7, <2>8 DEF ScopeInv
  <2> QED
    BY <2>1, <2>2, <2>3, <2>9
<1>8. job' = [job EXCEPT ![w] = Idle]
  BY <1>2
<1> QED
  BY <1>1, <1>2, <1>5, <1>7, <1>8, IdleFacts, StepKeeps

-----------------------------------------------------------------------------
(* Nothing is stored, removed or listed, but some addons are spoiled.      *)
Spoils ==
  /\ UNCHANGED <<driver, idSpace, nvSpace, charts, groups, status, deleting>>
  /\ spoiled \subseteq spoiled'

(* Then what is said of addons that are clean yet goes on to hold.         *)
LEMMA SpoilsKeeps ==
  ASSUME Spoils
  PROVE  /\ \A s : Still(s)
         /\ \A s, o : /\ Served(s, o)' <=> Served(s, o)
                      /\ Absent(s, o)' <=> Absent(s, o)
                      /\ IsClean(s, o)' => IsClean(s, o)
         /\ KeyedInv => KeyedInv'
         /\ StatusInv => StatusInv'
<1>1. \A s, o : IsClean(s, o)' => IsClean(s, o)
  BY DEF Spoils, IsClean
<1>2. \A s : Still(s)
  BY <1>1 DEF Spoils, Still
<1>3. \A s, o : (Served(s, o)' <=> Served(s, o)) /\ (Absent(s, o)' <=> Absent(s, o))
  BY DEF Spoils, Served, Absent, Mapped, ChartRef
<1>4. KeyedInv => KeyedInv'
  BY DEF Spoils, KeyedInv
<1>5. StatusInv => StatusInv'
  BY <1>1 DEF Spoils, StatusInv
<1> QED
  BY <1>1, <1>2, <1>3, <1>4, <1>5

(* A reconciliation of the scope is cut off.  What a deletion has not      *)
(* removed yet waits for the next attempt; all else that was in hand is    *)
(* spoiled.                                                                *)
LEMMA CutOffKeeps ==
  ASSUME StorageInv, OwnKeys, Spoils, NEW s \in Scopes, NEW j \in Job, j = job[WorkerIn(s)],
         On(s, j) => AddonKeys(j.cfg, CutOff(j)) \subseteq spoiled'
  PROVE  ScopeInv(s, Idle)'
<1>0. /\ WorkerIn(s) \in Workers /\ StoreTypes /\ JobTypes(WorkerIn(s), j)
      /\ StatusInv /\ SavingInv(j) /\ RemovingInv(j) /\ ScopeInv(s, j)
  BY WorkerOfScope, TypesSplit DEF StorageInv
<1>1. CASE ~On(s, j)
  <2>1. Still(s) /\ ~On(s, Idle)
    BY SpoilsKeeps, NothingInHand
  <2> QED
    BY <1>0, <1>1, <2>1, OtherScope
<1>2. CASE On(s, j)
  <2>0. j.pc # "idle" /\ j.cfg \in Configs /\ ScopeOf[j.cfg] = s
    BY <1>0, <1>2 DEF On, JobTypes
  <2>1. \A o : IsClean(s, o)' => IsClean(s, o) /\ o.id \notin IdsOf(CutOff(j))
    <3>1. \A o : o.id \in IdsOf(CutOff(j)) => <<s, o.id>> \in AddonKeys(j.cfg, CutOff(j))
      BY <2>0 DEF IdsOf, AddonKeys
    <3> QED
      BY <1>2, <3>1, SpoilsKeeps DEF IsClean
  <2>2. \A o : (Served(s, o)' <=> Served(s, o)) /\ (Absent(s, o)' <=> Absent(s, o))
    BY SpoilsKeeps
  <2>3. /\ Kept(s)' = Kept(s)
        /\ Leaving(s, Idle)' = Leaving(s, Idle)
    BY SpoilsKeeps, StillListed
  <2>4. /\ \A o \in Leaving(s, j) : o \in Leaving(s, Idle)
        /\ j.cfg \in deleting => \A o \in status[j.cfg].ready : o \in Leaving(s, Idle)
    BY <2>0, NothingInHand DEF Leaving, Waits
  <2>5. ASSUME NEW o, Gone(s, j, o)
        PROVE  Gone(s, Idle, o)'
    BY <2>2, <2>3, <2>4, <2>5 DEF Gone
  <2>6. ASSUME NEW o \in Offers, IsClean(s, o)'
        PROVE  /\ o \in Kept(s) => Served(s, o)
               /\ o.id \notin IdsOf(Kept(s)) => Gone(s, Idle, o)'
    <3>0. IsClean(s, o) /\ o.id \notin IdsOf(CutOff(j))
      BY <2>1, <2>6
    <3>1. CASE o.id \notin IdsOf(InHand(s, j))
      BY <1>0, <2>5, <3>0, <3>1, ScopeParts
    <3>2. CASE o.id \in IdsOf(InHand(s, j))
      <4>1. PICK p \in InHand(s, j) : p.id = o.id
        BY <3>2 DEF IdsOf
      <4>2. IsClean(s, p) /\ p \notin CutOff(j)
        BY <3>0, <4>1 DEF IsClean, IdsOf
      <4>3. j.pc \in Removing /\ j.delete
        <5>1. j.pc \in Saving => CutOff(j) = InHand(s, j)
          BY <1>2 DEF CutOff, InHand
        <5>2. j.pc \in Removing /\ ~j.delete => CutOff(j) = InHand(s, j)
          BY <1>2, Phases DEF CutOff, InHand
        <5> QED
          BY <2>0, <4>1, <4>2, <5>1, <5>2, JobFields
      <4>4. j.cfg \in deleting /\ o.id \notin IdsOf(Kept(s))
        BY <1>0, <2>0, <4>1, <4>2, <4>3 DEF RemovingInv
      <4>5. p \in Offers /\ (p \in j.todo \/ p = j.cur) /\ p # Nil
        BY <1>2, <4>1, <4>3, Phases, JobFields, OfferFacts DEF InHand
      <4>6. p \in Listed(status[j.cfg]) /\ (Served(s, p) \/ Absent(s, p))
        <5>1. CASE p \in j.todo
          BY <1>0, <1>2, <4>2, <4>3, <4>5, <5>1, ScopeParts DEF RemovingInv
        <5>2. CASE p = j.cur
          <6>1. j.pc = "delNV" /\ "delNV" \in HasAddon
            BY <4>2, <4>3, <4>5, <5>2, Phases DEF CutOff, HasAddon
          <6>2. p \in Listed(status[j.cfg])
            BY <1>0, <2>0, <4>2, <4>3, <5>2, <6>1 DEF RemovingInv
          <6>3. Removed(s, p, "delNV")
            BY <1>0, <1>2, <4>2, <4>3, <4>5, <5>2, <6>1, ScopeParts
          <6> QED
            BY <6>2, <6>3 DEF Removed
        <5> QED
          BY <4>5, <5>1, <5>2
      <4>7. p \in status[j.cfg].ready
        BY <1>0, <2>0, <4>2, <4>6 DEF StatusInv, Listed
      <4>8. CASE Served(s, p)
        BY <2>2, <2>3, <2>4, <4>1, <4>4, <4>7, <4>8 DEF Gone, IdsOf
      <4>9. CASE Absent(s, p)
        <5>1. o.nv = p.nv
          BY <4>1, <4>5, <2>6, SameSlot
        <5>2. Absent(s, o)
          BY <4>1, <4>9, <5>1 DEF Absent, ChartRef
        <5> QED
          BY <2>2, <4>4, <5>2 DEF Gone, IdsOf
      <4> QED
        BY <4>6, <4>8, <4>9
    <3> QED
      BY <3>1, <3>2
  <2>7. ~On(s, Idle)' /\ IdsOf(Kept(s))' = IdsOf(Kept(s))
    BY <2>3, IdleFacts DEF On, IdsOf
  <2> QED
    BY <2>2, <2>3, <2>6, <2>7 DEF ScopeInv
<1> QED
  BY <1>1, <1>2

(* What is cut off are addons of the scope.                                *)
LEMMA CutOffTypes ==
  ASSUME StoreTypes, NEW j \in Job, j.cfg \in Configs
  PROVE  AddonKeys(j.cfg, CutOff(j)) \subseteq Scopes \X IDs
<1>1. CutOff(j) \subseteq Offers
  BY JobFields DEF CutOff, Touched
<1> QED
  BY <1>1, OfferFacts DEF AddonKeys

(* The status cannot be written, or a call of removeAddon fails.           *)
LEMMA ReconcileFailsKeeps ==
  ASSUME StorageInv, NEW w \in Workers, ReconcileFails(w)
  PROVE  StorageInv'
<1>0. job[w].pc # "idle"
  BY Phases DEF ReconcileFails
<1>1. PICK j \in Job : j = job[w] /\ j.cfg \in Configs
  BY <1>0, AtWork
<1>2. PICK s \in Scopes : s = ScopeOf[j.cfg] /\ WorkerIn(s) = w
  BY <1>0, <1>1, AtWork
<1>3. /\ job' = [job EXCEPT ![w] = Idle] /\ StoreTypes
      /\ spoiled' = spoiled \cup AddonKeys(j.cfg, CutOff(j))
      /\ UNCHANGED <<driver, idSpace, nvSpace, charts, groups, status, deleting>>
  BY <1>0, <1>1, AtWork DEF ReconcileFails, Set, store
<1>4. Spoils /\ spoiled' \subseteq Scopes \X IDs
  BY <1>1, <1>3, CutOffTypes DEF Spoils, StoreTypes
<1>5. StoreTypes' /\ Local(s)
  BY <1>3, <1>4, SpoilsKeeps DEF StoreTypes, Local
<1>6. ASSUME OwnKeys
      PROVE  KeyedInv' /\ StatusInv' /\ SavingInv(Idle)' /\ RemovingInv(Idle)' /\ ScopeInv(s, Idle)'
  <2>1. KeyedInv' /\ StatusInv'
    BY <1>4, <1>6, SpoilsKeeps DEF StorageInv
  <2>2. SavingInv(Idle)' /\ RemovingInv(Idle)'
    BY IdleFacts, Phases DEF SavingInv, RemovingInv
  <2>3. ScopeInv(s, Idle)'
    BY <1>1, <1>2, <1>3, <1>4, <1>6, CutOffKeeps
  <2> QED
    BY <2>1, <2>2, <2>3
<1> QED
  BY <1>0, <1>1, <1>2, <1>3, <1>5, <1>6, IdleFacts, StepKeeps

(* The process restarts, and both reconciliations are cut off at once.     *)
LEMMA CrashKeeps ==
  ASSUME StorageInv, Crash
  PROVE  StorageInv'
<1>0. /\ job \in [Workers -> Job] /\ StoreTypes /\ job' = [w \in Workers |-> Idle]
      /\ \A w \in Workers : JobTypes(w, job[w])
      /\ UNCHANGED <<driver, idSpace, nvSpace, charts, groups, status, deleting>>
      /\ spoiled' = spoiled \cup UNION {AddonKeys(job[w].cfg, CutOff(job[w])) :
                                          w \in {v \in Workers : job[v].pc # "idle"}}
  BY TypesSplit DEF Crash, StorageInv, store
<1>1. \A w \in Workers : job[w].pc # "idle" =>
        /\ AddonKeys(job[w].cfg, CutOff(job[w])) \subseteq Scopes \X IDs
        /\ AddonKeys(job[w].cfg, CutOff(job[w])) \subseteq spoiled'
  BY <1>0, CutOffTypes DEF JobTypes
<1>2. Spoils /\ spoiled' \subseteq Scopes \X IDs
  BY <1>0, <1>1 DEF Spoils, StoreTypes
<1>3. job' \in [Workers -> Job] /\ \A w \in Workers : job'[w] = Idle
  BY <1>0, IdleFacts
<1>4. StorageTypes'
  <2>1. \A w \in Workers : JobTypes(w, job[w])'
    BY <1>3, IdleFacts DEF JobTypes
  <2> QED
    BY <1>0, <1>2, <1>3, <2>1 DEF StorageTypes, StoreTypes, StorageTypeOK
<1>5. ASSUME OwnKeys
      PROVE  /\ KeyedInv' /\ StatusInv'
             /\ \A w \in Workers : SavingInv(job[w])' /\ RemovingInv(job[w])'
             /\ \A s \in Scopes : ScopeInv(s, job[WorkerIn(s)])'
  <2>1. KeyedInv' /\ StatusInv'
    BY <1>2, <1>5, SpoilsKeeps DEF StorageInv
  <2>2. \A w \in Workers : SavingInv(job[w])' /\ RemovingInv(job[w])'
    BY <1>3, IdleFacts, Phases DEF SavingInv, RemovingInv
  <2>3. ASSUME NEW s \in Scopes
        PROVE  ScopeInv(s, job[WorkerIn(s)])'
    <3>1. PICK j \in Job : j = job[WorkerIn(s)] /\ WorkerIn(s) \in Workers
      BY <1>0, WorkerOfScope
    <3>2. On(s, j) => AddonKeys(j.cfg, CutOff(j)) \subseteq spoiled'
      BY <1>1, <3>1 DEF On
    <3>3. ScopeInv(s, Idle)'
      BY <1>2, <1>5, <3>1, <3>2, CutOffKeeps
    <3>4. job'[WorkerIn(s)'] = Idle
      BY <1>3, <3>1 DEF WorkerIn
    <3> QED
      BY <3>3, <3>4
  <2> QED
    BY <2>1, <2>2, <2>3
<1>6. OwnKeys' <=> OwnKeys
  BY DEF OwnKeys
<1> QED
  BY <1>4, <1>5, <1>6 DEF StorageInv

-----------------------------------------------------------------------------
(* At first nothing is stored, and nothing is listed.                      *)
LEMMA InitKeeps ==
  ASSUME Init
  PROVE  StorageInv
<1>1. /\ NoStatus \in Status /\ NoStatus.ready = {} /\ NoStatus.failed = {} /\ Listed(NoStatus) = {}
      /\ 0 \in Nat
  BY DEF NoStatus, Status, Listed
<1>2. \A c \in Configs : status[c] = NoStatus
  BY DEF Init
<1>3. /\ job \in [Workers -> Job] /\ \A w \in Workers : job[w] = Idle
      /\ \A w \in Workers : JobTypes(w, job[w])
  BY IdleFacts DEF Init
<1>4. StoreTypes
  <2>1. driver \in {"etcd", "memory"}
    BY StorageAssumption DEF Init
  <2>2. status \in [Configs -> Status]
    BY <1>1 DEF Init
  <2> QED
    BY <2>1, <2>2 DEF Init, StoreTypes
<1>5. StorageTypes
  BY <1>3, <1>4, TypesSplit
<1>6. KeyedInv
  BY OfferFacts DEF Init, KeyedInv
<1>7. StatusInv
  BY <1>1, <1>2 DEF StatusInv
<1>8. \A w \in Workers : SavingInv(job[w]) /\ RemovingInv(job[w])
  BY <1>3, IdleFacts, Phases DEF SavingInv, RemovingInv
<1>9. ASSUME NEW s \in Scopes
      PROVE  ScopeInv(s, job[WorkerIn(s)])
  <2>1. job[WorkerIn(s)] = Idle
    BY <1>3, WorkerOfScope
  <2>2. \A o : o \notin Kept(s)
    BY <1>1, <1>2 DEF Kept
  <2>3. \A o \in Offers : Absent(s, o)
    BY OfferFacts DEF Init, Absent
  <2>4. ScopeInv(s, Idle)
    BY <2>2, <2>3, IdleFacts DEF ScopeInv, On, Gone
  <2> QED
    BY <2>1, <2>4
<1> QED
  BY <1>5, <1>6, <1>7, <1>8, <1>9 DEF StorageInv

(* Every step keeps the invariant.                                         *)
LEMMA NextKeeps ==
  ASSUME StorageInv, [Next]_vars
  PROVE  StorageInv'
<1>1. ASSUME NEW c \in Configs, OnDelete(c)
      PROVE  StorageInv'
  BY <1>1, OnDeleteKeeps
<1>2. ASSUME NEW c \in Configs, NEW S \in SUBSET Offers, OnAdd(c, S)
      PROVE  StorageInv'
  BY <1>2, OnAddKeeps
<1>3. ASSUME NEW w \in Workers, Save(w)
      PROVE  StorageInv'
  BY <1>3, EnsureKeeps, PutIDKeeps, PutNVKeeps, UpsertKeeps, SaveChartsKeeps, UpdateStatusKeeps
     DEF Save
<1>4. ASSUME NEW w \in Workers, Remove(w)
      PROVE  StorageInv'
  BY <1>4, RemoveAddonKeeps, DeleteNVKeeps, DeleteIDKeeps, RemoveInMemoryKeeps, UndocsKeeps,
     RemoveChartsKeeps DEF Remove
<1>5. ASSUME NEW w \in Workers, RegisteringError(w)
      PROVE  StorageInv'
  BY <1>5, RegisteringErrorKeeps
<1>6. ASSUME NEW w \in Workers, ReconcileFails(w)
      PROVE  StorageInv'
  BY <1>6, ReconcileFailsKeeps
<1>7. CASE Crash
  BY <1>7, CrashKeeps
<1>8. ASSUME NEW c \in Configs, FetchingError(c)
      PROVE  StorageInv'
  BY <1>8, FetchingErrorKeeps
<1>9. CASE UNCHANGED vars
  <2>1. Spoils /\ job' = job /\ StorageTypes'
    <3>1. UNCHANGED <<driver, idSpace, nvSpace, charts, groups, status, deleting, spoiled, job>>
      BY <1>9 DEF vars, store
    <3> QED
      BY <3>1 DEF Spoils, StorageInv, StorageTypes, StorageTypeOK, JobTypes
  <2>2. ASSUME OwnKeys, NEW w \in Workers
        PROVE  SavingInv(job[w])' /\ RemovingInv(job[w])'
    <3>1. PICK j : j = job[w]
      OBVIOUS
    <3>2. j.pc # "idle" => j.cfg \in Configs /\ Still(ScopeOf[j.cfg])
      BY <2>1, <3>1, SpoilsKeeps DEF StorageInv, StorageTypes, JobTypes
    <3>3. SavingInv(j)' /\ RemovingInv(j)'
      BY <2>2, <3>1, <3>2, OtherJob DEF StorageInv
    <3> QED
      BY <2>1, <3>1, <3>3
  <2>3. ASSUME OwnKeys, NEW s \in Scopes
        PROVE  ScopeInv(s, job[WorkerIn(s)])'
    <3>1. PICK j : j = job[WorkerIn(s)] /\ (On(s, j) => j.cfg \in Configs)
      BY WorkerOfScope DEF StorageInv, StorageTypes, JobTypes, On
    <3>2. ScopeInv(s, j)'
      BY <2>1, <2>3, <3>1, SpoilsKeeps, OtherScope DEF StorageInv
    <3>3. job'[WorkerIn(s)'] = j
      BY <2>1, <3>1 DEF WorkerIn
    <3> QED
      BY <3>2, <3>3
  <2>4. OwnKeys => KeyedInv' /\ StatusInv'
    BY <2>1, SpoilsKeeps DEF StorageInv
  <2>5. OwnKeys' <=> OwnKeys
    BY DEF OwnKeys
  <2> QED
    BY <2>1, <2>2, <2>3, <2>4, <2>5 DEF StorageInv
<1> QED
  BY <1>1, <1>2, <1>3, <1>4, <1>5, <1>6, <1>7, <1>8, <1>9 DEF Next

(* The inductive invariant holds: both drivers, any configurations, any    *)
(* number of faults and restarts.                                          *)
THEOREM Storage_Invariant == Spec => []StorageInv
<1>1. Init => StorageInv
  BY InitKeeps
<1>2. StorageInv /\ [Next]_vars => StorageInv'
  BY NextKeeps
<1> QED
  BY <1>1, <1>2, PTL DEF Spec

(* The stores, the status and the jobs keep their types.                   *)
THEOREM Storage_TypeOK == Spec => []StorageTypeOK
<1>1. StorageInv => StorageTypeOK
  BY DEF StorageInv, StorageTypes
<1> QED
  BY <1>1, Storage_Invariant, PTL

-----------------------------------------------------------------------------
(* What stays of a scope is not in hand, unless it was spoiled.            *)
LEMMA KeptNotInHand ==
  ASSUME StorageInv, OwnKeys, NEW c \in Configs, NEW s \in Scopes, s = ScopeOf[c],
         NEW j \in Job, j = job[WorkerIn(s)], NEW o \in status[c].ready, IsClean(s, o), Stays(s, c),
         j.pc \in Saving => j.cfg # c
  PROVE  o \in Offers /\ o \in Kept(s) /\ o.id \notin IdsOf(InHand(s, j))
<1>0. WorkerIn(s) \in Workers /\ StoreTypes /\ SavingInv(j) /\ RemovingInv(j) /\ JobTypes(WorkerIn(s), j)
  BY WorkerOfScope, TypesSplit DEF StorageInv
<1>1. o \in Offers /\ o \in Kept(s)
  BY <1>0, StatusFields DEF Kept
<1> SUFFICES ASSUME NEW p \in InHand(s, j), p.id = o.id
             PROVE  FALSE
  BY <1>1 DEF IdsOf
<1>2. On(s, j) /\ j.pc # "idle" /\ ScopeOf[j.cfg] = s
  BY DEF InHand, On
<1>3. IsClean(s, p)
  BY DEF IsClean
<1>4. CASE j.pc \in Saving
  <2>1. p \in j.offers /\ p \notin status[j.cfg].ready
    BY <1>2, <1>4 DEF InHand, Touched
  <2>2. j.cfg \in Configs /\ j.cfg # c
    BY <1>0, <1>2, <1>4 DEF JobTypes
  <2> QED
    BY <1>0, <1>2, <1>4, <2>1, <2>2 DEF SavingInv
<1>5. CASE j.pc \in Removing
  <2>1. p.id \notin IdsOf(Kept(s))
    BY <1>0, <1>2, <1>3, <1>5 DEF RemovingInv
  <2> QED
    BY <1>1, <2>1 DEF IdsOf
<1> QED
  BY <1>2, <1>4, <1>5, JobFields

(* Where no two addons share a key or a chart, an addon that a             *)
(* configuration lists as Ready is what the broker and the controllers     *)
(* find, with its chart and documentation, through any interleaving of the *)
(* two controllers, failed call and restart that did not hit itself.       *)
THEOREM Storage_ListedIsServed ==
  ASSUME OwnKeys
  PROVE  Spec => []ListedIsServed
<1>1. ASSUME StorageInv
      PROVE  ListedIsServed
  <2> SUFFICES ASSUME NEW c \in Configs, AtRest(c), NEW o \in status[c].ready \cap Clean(ScopeOf[c])
               PROVE  /\ GetByID(ScopeOf[c], o.id) = o
                      /\ Get(ScopeOf[c], o.nv) = o
                      /\ driver = "memory" \/ WrittenAsPrinted(o) => ChartFound(ScopeOf[c], o)
                      /\ o.docs => groups[ScopeOf[c]][o.id] = o.rev
    BY DEF ListedIsServed
  <2>1. PICK s \in Scopes : s = ScopeOf[c]
    BY OfferFacts
  <2>2. PICK j \in Job : j = job[WorkerIn(s)]
    BY <1>1, WorkerOfScope, TypesSplit DEF StorageInv
  <2>3. j.cfg # c /\ c \notin deleting
    BY <2>1, <2>2, WorkerOfScope DEF AtRest
  <2>4. IsClean(s, o) /\ Stays(s, c) /\ o \in status[c].ready
    BY <2>1, <2>3 DEF Clean, IsClean, Stays
  <2>5. o \in Offers /\ o \in Kept(s) /\ o.id \notin IdsOf(InHand(s, j))
    BY <1>1, <2>1, <2>2, <2>3, <2>4, KeptNotInHand
  <2>6. ScopeInv(s, j)
    BY <1>1, <2>2 DEF StorageInv
  <2>7. Served(s, o)
    BY <2>4, <2>5, <2>6, ScopeParts
  <2>8. Get(s, o.nv) = o
    BY <1>1, <2>5, <2>7, FoundFacts
  <2>9. driver = "memory" \/ WrittenAsPrinted(o) => ChartRef(o) = ChartOf[o.nv]
    BY DEF WrittenAsPrinted, ChartRef
  <2> QED
    BY <2>1, <2>7, <2>8, <2>9 DEF Served, GetByID, ChartFound
<1>2. StorageInv => ListedIsServed
  BY <1>1
<1> QED
  BY <1>2, Storage_Invariant, PTL

(* If moreover no name of a namespace begins with that of another, the     *)
(* catalog, the charts and the documentation of a scope have, between      *)
(* reconciliations, nothing but what its configurations list.              *)
THEOREM Storage_OnlyListedIsServed ==
  ASSUME OwnKeys, Extends = {}
  PROVE  Spec => []OnlyListedIsServed
<1>1. ASSUME StorageInv
      PROVE  OnlyListedIsServed
  <2> SUFFICES ASSUME \A w \in Workers : job[w] = Idle, NEW s \in Scopes, NEW o \in Clean(s)
               PROVE  /\ o \in FindAll(s) => o \in ListedIn(s)
                      /\ WrittenAsPrinted(o) /\ ChartFound(s, o) => o.nv \in {p.nv : p \in ListedIn(s)}
                      /\ groups[s][o.id] # 0 => o.id \in {p.id : p \in ListedIn(s)}
    BY DEF OnlyListedIsServed
  <2>1. /\ ScopeInv(s, Idle) /\ KeyedInv /\ StoreTypes
    BY <1>1, WorkerOfScope, TypesSplit DEF StorageInv
  <2>2. o \in Offers /\ o.id \in IDs /\ IsClean(s, o)
    BY OfferFacts DEF Clean, IsClean
  <2>3. Kept(s) \subseteq ListedIn(s) /\ Leaving(s, Idle) \subseteq ListedIn(s)
    BY NothingInHand DEF ListedIn
  <2>4. ASSUME ~Absent(s, o)
        PROVE  \E p \in ListedIn(s) : p.id = o.id /\ p.nv = o.nv /\ Served(s, p)
    <3>1. ASSUME NEW p \in Kept(s) \cup Leaving(s, Idle), p.id = o.id, Served(s, p)
          PROVE  \E q \in ListedIn(s) : q.id = o.id /\ q.nv = o.nv /\ Served(s, q)
      <4>1. p \in Offers
        BY <2>1, ListedOffers
      <4> QED
        BY <2>2, <2>3, <3>1, <4>1, SameSlot
    <3>2. CASE o.id \in IdsOf(Kept(s))
      <4>1. PICK p \in Kept(s) : p.id = o.id
        BY <3>2 DEF IdsOf
      <4>2. p \in Offers /\ IsClean(s, p)
        BY <2>1, <2>2, <4>1, ListedOffers DEF IsClean
      <4>3. Served(s, p)
        BY <2>1, <4>1, <4>2, NothingInHand, ScopeParts
      <4> QED
        BY <3>1, <4>1, <4>3
    <3>3. CASE o.id \notin IdsOf(Kept(s))
      <4>1. Gone(s, Idle, o)
        BY <2>1, <2>2, <3>3, NothingInHand, ScopeParts
      <4> QED
        BY <2>4, <3>1, <4>1 DEF Gone
    <3> QED
      BY <3>2, <3>3
  <2>5. o \in FindAll(s) => o \in ListedIn(s)
    <3>1. o \in FindAll(s) <=> \E id \in IDs : idSpace[s][id] = o
      BY <2>2 DEF FindAll, matchesPrefix
    <3>2. ASSUME NEW id \in IDs, idSpace[s][id] = o
          PROVE  o \in ListedIn(s)
      <4>1. id = o.id /\ ~Absent(s, o)
        BY <2>1, <2>2, <3>2, OfferFacts DEF KeyedInv, Absent
      <4>2. PICK p \in ListedIn(s) : p.id = o.id /\ Served(s, p)
        BY <2>4, <4>1
      <4> QED
        BY <3>2, <4>1, <4>2 DEF Served
    <3> QED
      BY <3>1, <3>2
  <2>6. WrittenAsPrinted(o) /\ ChartFound(s, o) => o.nv \in {p.nv : p \in ListedIn(s)}
    <3>1. WrittenAsPrinted(o) /\ ChartFound(s, o) => ~Absent(s, o)
      BY DEF WrittenAsPrinted, ChartFound, ChartRef, Absent
    <3> QED
      BY <2>4, <3>1
  <2>7. groups[s][o.id] # 0 => o.id \in {p.id : p \in ListedIn(s)}
    <3>1. groups[s][o.id] # 0 => ~Absent(s, o)
      BY DEF Absent
    <3> QED
      BY <2>4, <3>1
  <2> QED
    BY <2>5, <2>6, <2>7
<1>2. StorageInv => OnlyListedIsServed
  BY <1>1
<1> QED
  BY <1>2, Storage_Invariant, PTL

(* What a removal has in hand, and nobody spoiled, is listed only by the   *)
(* configuration that is being deleted.                                    *)
LEMMA InHandNotListed ==
  ASSUME StorageInv, OwnKeys, NEW w \in Workers, job[w].pc \in Removing, job[w].pc \in HasAddon,
         NEW s \in Scopes, s = scope(w), IsClean(s, job[w].cur),
         NEW c \in Configs, ScopeOf[c] = s, job[w].cur.id \in {o.id : o \in status[c].ready}
  PROVE  c \in deleting
<1>1. PICK j \in Job : j = job[w]
  BY Phases, AtWork
<1>2. /\ RemovingInv(j) /\ s = ScopeOf[j.cfg] /\ WorkerIn(s) = w /\ WorkerOf(c) = w
      /\ j.cur \in InHand(s, j)
  BY <1>1, Phases, AtWork, WorkerOfScope, HandOfRemoval DEF StorageInv
<1>3. j.cur.id \notin IdsOf(Kept(s))
  BY <1>1, <1>2 DEF RemovingInv
<1>4. ~Stays(s, c)
  BY <1>1, <1>3 DEF Kept, IdsOf
<1> QED
  BY <1>1, <1>2, <1>4 DEF Stays

(* Where no two addons share a key or a chart, the ID of an addon is       *)
(* deleted only where no configuration lists it, or the one that is being  *)
(* deleted: registering anew never takes an addon off the catalog.         *)
THEOREM Storage_NoGap ==
  ASSUME OwnKeys
  PROVE  Spec => NoGap
<1> DEFINE Gapless == \A s \in Scopes, id \in IDs :
             idSpace[s][id] # Nil /\ idSpace'[s][id] = Nil /\ <<s, id>> \notin spoiled =>
               \A c \in Configs :
                 ScopeOf[c] = s /\ id \in {o.id : o \in status'[c].ready}
                   => c \in deleting
<1>1. ASSUME StorageInv, [Next]_vars
      PROVE  [Gapless]_vars
  <2> SUFFICES ASSUME NEW s \in Scopes, NEW id \in IDs,
                      idSpace[s][id] # Nil, idSpace'[s][id] = Nil, <<s, id>> \notin spoiled,
                      NEW c \in Configs, ScopeOf[c] = s, id \in {o.id : o \in status'[c].ready}
               PROVE  c \in deleting
    OBVIOUS
  <2>1. idSpace' # idSpace /\ StoreTypes /\ KeyedInv
    BY <1>1, TypesSplit DEF StorageInv
  <2>2. PICK w \in Workers : PutID(w) \/ UpsertInMemory(w) \/ DeleteID(w) \/ RemoveInMemory(w)
    BY <1>1, <2>1 DEF Next, OnDelete, OnAdd, Save, Remove, EnsureAssetGroup, PutNameVersion, saveCharts,
       updateAddonStatus, removeAddon, DeleteNameVersion, EnsureAssetGroupRemoved, removeCharts,
       RegisteringError, ReconcileFails, FetchingError, Crash, vars, store
  <2>3. /\ job[w].pc \in HasAddon
        /\ DeleteID(w) \/ RemoveInMemory(w) => job[w].pc \in Removing
    BY <2>2 DEF PutID, UpsertInMemory, DeleteID, RemoveInMemory, At, HasAddon, Removing
  <2>4. PICK r \in Scopes, o \in Offers : r = scope(w) /\ o = job[w].cur /\ o.id \in IDs /\ o.nv \in NVs
    BY <1>1, <2>3, AtWork, Phases
  <2>5. idSpace \in [Scopes -> [IDs -> Offers \cup {Nil}]]
    BY <2>1 DEF StoreTypes
  <2>6. CASE PutID(w) \/ UpsertInMemory(w)
    <3>1. idSpace' = [idSpace EXCEPT ![r][o.id] = o]
      BY <2>4, <2>6 DEF PutID, UpsertInMemory
    <3>2. idSpace'[s][id] \in {idSpace[s][id], o}
      BY <2>4, <2>5, <3>1
    <3> QED
      BY <3>2, OfferFacts
  <2>7. CASE DeleteID(w)
    <3>1. idSpace' = [idSpace EXCEPT ![r][o.id] = Nil] /\ UNCHANGED status
      BY <2>4, <2>7 DEF DeleteID
    <3>2. s = r /\ id = o.id
      BY <2>4, <2>5, <3>1
    <3> QED
      BY <1>1, <2>3, <2>4, <2>7, <3>1, <3>2, InHandNotListed DEF IsClean
  <2>8. CASE RemoveInMemory(w)
    <3>1. PICK i : i = nvSpace[r][o.nv]
      OBVIOUS
    <3>2. /\ i # Nil /\ idSpace' = [idSpace EXCEPT ![r][i] = Nil] /\ UNCHANGED status
          /\ driver = "memory"
      BY <2>1, <2>4, <2>8, <3>1 DEF RemoveInMemory
    <3>3. i = o.id
      BY <2>1, <2>4, <3>1, <3>2 DEF KeyedInv
    <3>4. s = r /\ id = o.id
      BY <2>4, <2>5, <3>2, <3>3
    <3> QED
      BY <1>1, <2>3, <2>4, <2>8, <3>2, <3>4, InHandNotListed DEF IsClean
  <2> QED
    BY <2>2, <2>6, <2>7, <2>8
<1>2. StorageInv /\ [Next]_vars => [Gapless]_vars
  BY <1>1
<1>3. NoGap <=> [][Gapless]_vars
  BY PTL DEF NoGap
<1> QED
  BY <1>2, <1>3, Storage_Invariant, PTL DEF Spec
=============================================================================
