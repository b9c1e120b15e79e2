-------------------------- MODULE AddonOffer_proofs --------------------------
(***************************************************************************)
(* Loading and offering of addons for every value of the constants: whose  *)
(* Secret is asked for, whose documentation is uploaded, what is left in   *)
(* the temporary directory, that the catalog offers what the author of an  *)
(* addon has written and agrees with Bind, and that credentials follow the *)
(* rules of Resolve.                                                       *)
(***************************************************************************)
EXTENDS AddonOffer, FiniteSetTheorems, SequenceTheorems, TLAPS

-----------------------------------------------------------------------------
(* The inductive invariant.                                                *)

(* From the clone of a repository, or the start of downloads, to Cleanup;  *)
(* while an addon is in hand; and while its documentation is uploaded.     *)
Open == {"index", "entry", "load", "docs", "archive", "write", "read", "upload"}
InHand == {"docs", "archive", "write", "read", "upload"}
Archiving == {"archive", "write", "read", "upload"}

AllContents == UNION {Contents[r] : r \in Repositories}

Loading ==
  [pc : {"idle", "next", "template", "getter"} \cup Open, cfg : Configs \cup {Nil},
   repos : SUBSET Repositories, repo : Repositories \cup {Nil}, entries : SUBSET NVs,
   nv : NVs \cup {Nil}, dir : AllContents \cup {Nil}, docs : Repositories \cup {Nil, "partial"}]

LoadingTypes ==
  /\ templateNS \in Namespaces \cup {Cluster}
  /\ asked \in [Repositories -> Namespaces \cup {Cluster, Nil}]
  /\ tgz \in [NVs -> Repositories \cup {Nil, "partial"}]
  /\ tmp \in Int
  /\ loading \in [Controllers -> Loading]
  /\ DOMAIN entry = Repositories /\ \A r \in Repositories : DOMAIN entry[r] = NVs
  /\ loads \in Nat /\ loadFaults \in Nat

(* A controller has configurations of its own, and their repositories.     *)
WorkInv(w, l) ==
  /\ l.pc # "idle" => l.cfg \in Configs /\ ControllerOf(l.cfg) = w
  /\ l.pc = "idle" => l.repos = {}
  /\ l.repos \subseteq RepositoriesOf(l.cfg)
  /\ l.pc \notin {"idle", "next"} => l.repo \in Repositories /\ ConfigOf[l.repo] = l.cfg
  /\ l.pc \in Open => Protocol[l.repo] \in {"git", "https"}
  /\ l.pc \in Open \ {"index"} => l.entries \subseteq Index[l.repo]
  /\ l.pc = "load" => l.nv \in Index[l.repo] /\ l.dir \in Contents[l.repo]
  /\ l.pc \in InHand => l.nv \in Index[l.repo] /\ l.dir \in Contents[l.repo] /\ Loads(l.dir)
  /\ l.pc \in Archiving => /\ DocumentationEnabled /\ Protocol[l.repo] = "git"
                           /\ l.dir.docs # Nil

(* The Template service has the namespace of what the controller for       *)
(* namespaces works on.                                                    *)
NamespaceInv ==
  LET l == loading["AddonsController"] IN l.pc # "idle" => templateNS = NamespaceOf[l.cfg]

(* The archive is what the controller has put there, if the other one has  *)
(* no addon of that name and version.                                      *)
ArchiveInv(l) ==
  l.pc \in Archiving /\ ~SharesArchive(l.repo, l.nv) =>
    /\ l.pc = "write" => tgz[l.nv] = "partial"
    /\ l.pc = "read" => tgz[l.nv] = l.repo
    /\ l.pc = "upload" => l.docs = l.repo

(* An addon that is Ready was loaded from a directory it can be loaded     *)
(* from.                                                                   *)
EntryInv ==
  \A r \in Repositories, nv \in NVs : entry[r][nv].status = "Ready" =>
    /\ entry[r][nv].dir \in Contents[r] /\ Loads(entry[r][nv].dir)
    /\ entry[r][nv].addon \in ToModel(entry[r][nv].dir)

(* There is a temporary directory for each repository that is open, one    *)
(* for an addon that is unpacked, and at most four for each error so far:  *)
(* a restart leaves those of both controllers.                             *)
Dirs(l) ==
  IF l.pc \notin Open THEN 0 ELSE IF l.pc = "load" /\ Protocol[l.repo] = "https" THEN 2 ELSE 1
TmpInv ==
  LET open == Dirs(loading["AddonsController"]) + Dirs(loading["ClusterAddonsController"]) IN
  open <= tmp /\ tmp <= open + 4 * loadFaults

(* While nothing goes wrong, whoever has made an archive is going to       *)
(* remove it.                                                              *)
Holds(l, nv) == l.pc \in {"write", "read", "upload"} /\ l.nv = nv
TgzInv ==
  loadFaults = 0 =>
    \A nv \in NVs : tgz[nv] # Nil => \E v \in Controllers : Holds(loading[v], nv)

LoadingInv ==
  /\ LoadingTypes
  /\ \A w \in Controllers : WorkInv(w, loading[w])
  /\ NamespaceInv
  /\ \A w \in Controllers : ArchiveInv(loading[w])
  /\ EntryInv
  /\ TmpInv
  /\ TgzInv
  /\ SecretOfConfiguration
  /\ DocsOfAddon

(* What is served was loaded, and has been through the storage.            *)
ServedOK ==
  \A c \in Configs, nv \in NVs : served[c][nv] # NotServed =>
    LET d == served[c][nv].dir IN
    /\ IsDirectory(d) /\ Loads(d)
    /\ \E m \in ToModel(d) : served[c][nv].addon = Stored(driver, m)

ServedInv ==
  /\ driver \in {"etcd", "memory"} /\ DOMAIN served = Configs
  /\ ServedOK

-----------------------------------------------------------------------------
(* What follows from the types.                                            *)
LEMMA LoadingFacts ==
  ASSUME NEW l \in Loading
  PROVE  /\ l.pc \in {"idle", "next", "template", "getter"} \cup Open
         /\ l.cfg \in Configs \cup {Nil} /\ l.repos \subseteq Repositories
         /\ l.repo \in Repositories \cup {Nil} /\ l.entries \subseteq NVs
         /\ l.nv \in NVs \cup {Nil} /\ l.dir \in AllContents \cup {Nil}
         /\ l.docs \in Repositories \cup {Nil, "partial"}
  BY DEF Loading

(* An idle controller.                                                     *)
LEMMA NotLoadingFacts ==
  /\ NotLoading \in Loading /\ NotLoading.pc = "idle" /\ NotLoading.repos = {}
  /\ \A w \in Controllers : WorkInv(w, NotLoading)
  /\ ArchiveInv(NotLoading) /\ Dirs(NotLoading) = 0
<1>1. /\ NotLoading \in Loading /\ NotLoading.pc = "idle" /\ NotLoading.repos = {}
  BY DEF NotLoading, Loading
<1>2. \A w \in Controllers : WorkInv(w, NotLoading)
  BY <1>1 DEF WorkInv, Open, InHand, Archiving
<1>3. ArchiveInv(NotLoading) /\ Dirs(NotLoading) = 0
  BY <1>1 DEF ArchiveInv, Dirs, Open, Archiving
<1> QED
  BY <1>1, <1>2, <1>3

(* A controller has two directories at most.                               *)
LEMMA DirsFacts == \A l : Dirs(l) \in {0, 1, 2}
  BY DEF Dirs

(* A step of one controller.                                               *)
LEMMA WorkKeeps ==
  ASSUME LoadingInv, NEW w \in Controllers, NEW l \in Loading, Put(w, l),
         UNCHANGED <<templateNS, loads>>,
         asked' \in [Repositories -> Namespaces \cup {Cluster, Nil}],
         tgz' \in [NVs -> Repositories \cup {Nil, "partial"}],
         tmp' \in Int, loadFaults' \in Nat, loadFaults' >= loadFaults,
         DOMAIN entry' = Repositories, \A r \in Repositories : DOMAIN entry'[r] = NVs,
         WorkInv(w, l), l.pc # "idle" => loading[w].pc # "idle" /\ l.cfg = loading[w].cfg,
         ArchiveInv(l)', \A v \in Controllers \ {w} : ArchiveInv(loading[v])',
         EntryInv', SecretOfConfiguration', DocsOfAddon', TgzInv',
         tmp' - Dirs(l) >= tmp - Dirs(loading[w]),
         tmp' - Dirs(l) - 4 * loadFaults' <= tmp - Dirs(loading[w]) - 4 * loadFaults
  PROVE  LoadingInv'
<1>0. LoadingTypes /\ NamespaceInv /\ TmpInv /\ \A v \in Controllers : WorkInv(v, loading[v])
  BY DEF LoadingInv
<1>1. /\ loading' \in [Controllers -> Loading] /\ loading'[w] = l
      /\ \A v \in Controllers : v # w => loading'[v] = loading[v]
  BY <1>0 DEF Put, LoadingTypes
<1>2. LoadingTypes'
  BY <1>0, <1>1 DEF LoadingTypes
<1>3. \A v \in Controllers : WorkInv(v, loading[v])'
  <2> SUFFICES ASSUME NEW v \in Controllers PROVE WorkInv(v, loading'[v])
    BY DEF WorkInv, Loads
  <2> QED
    BY <1>0, <1>1
<1>4. NamespaceInv'
  BY <1>0, <1>1 DEF NamespaceInv, Controllers
<1>5. \A v \in Controllers : ArchiveInv(loading[v])'
  BY <1>1
<1>6. TmpInv'
  <2> DEFINE A == "AddonsController"
             C == "ClusterAddonsController"
  <2>1. /\ tmp \in Int /\ loadFaults \in Nat
        /\ Dirs(loading[A]) + Dirs(loading[C]) <= tmp
        /\ tmp <= Dirs(loading[A]) + Dirs(loading[C]) + 4 * loadFaults
    BY <1>0 DEF LoadingTypes, TmpInv
  <2>2. /\ Dirs(loading[A]) \in Int /\ Dirs(loading[C]) \in Int /\ Dirs(l) \in Int
        /\ Dirs(loading'[A]) \in Int /\ Dirs(loading'[C]) \in Int
    BY DirsFacts
  <2>3. CASE w = A
    <3>1. loading'[A] = l /\ loading'[C] = loading[C]
      BY <1>1, <2>3 DEF Controllers
    <3>2. /\ Dirs(l) + Dirs(loading[C]) <= tmp'
          /\ tmp' <= Dirs(l) + Dirs(loading[C]) + 4 * loadFaults'
      BY <2>1, <2>2, <2>3
    <3> QED
      BY <3>1, <3>2 DEF TmpInv
  <2>4. CASE w = C
    <3>1. loading'[C] = l /\ loading'[A] = loading[A]
      BY <1>1, <2>4 DEF Controllers
    <3>2. /\ Dirs(loading[A]) + Dirs(l) <= tmp'
          /\ tmp' <= Dirs(loading[A]) + Dirs(l) + 4 * loadFaults'
      BY <2>1, <2>2, <2>4
    <3> QED
      BY <3>1, <3>2 DEF TmpInv
  <2> QED
    BY <2>3, <2>4 DEF Controllers
<1> QED
  BY <1>2, <1>3, <1>4, <1>5, <1>6 DEF LoadingInv

(* Archives that are there are held by one that does not let go of them.   *)
LEMMA HeldKept ==
  ASSUME LoadingInv, NEW w \in Controllers, loadFaults' \in Nat, loadFaults' >= loadFaults,
         \A v \in Controllers \ {w} : loading'[v] = loading[v],
         \A nv \in NVs : tgz'[nv] # Nil => \/ tgz[nv] # Nil /\ ~Holds(loading[w], nv)
                                          \/ Holds(loading'[w], nv)
  PROVE  TgzInv'
<1> SUFFICES ASSUME loadFaults' = 0, NEW nv \in NVs, tgz'[nv] # Nil
             PROVE  \E v \in Controllers : Holds(loading'[v], nv)
  BY DEF TgzInv, Holds
<1>1. loadFaults = 0
  BY DEF LoadingInv, LoadingTypes
<1>2. CASE Holds(loading'[w], nv)
  BY <1>2
<1>3. CASE tgz[nv] # Nil /\ ~Holds(loading[w], nv)
  <2>1. PICK v \in Controllers : Holds(loading[v], nv)
    BY <1>1, <1>3 DEF LoadingInv, TgzInv
  <2> QED
    BY <1>3, <2>1
<1> QED
  BY <1>2, <1>3

(* ... in which nothing is written but locals and results.                 *)
LEMMA MoveKeeps ==
  ASSUME LoadingInv, NEW w \in Controllers, NEW l \in Loading, Put(w, l),
         UNCHANGED <<templateNS, asked, tgz, entry, loads>>,
         tmp' \in Int, loadFaults' \in Nat, loadFaults' >= loadFaults,
         WorkInv(w, l), l.pc # "idle" => loading[w].pc # "idle" /\ l.cfg = loading[w].cfg,
         ArchiveInv(l), loading[w].pc \notin {"write", "read", "upload"},
         tmp' - Dirs(l) >= tmp - Dirs(loading[w]),
         tmp' - Dirs(l) - 4 * loadFaults' <= tmp - Dirs(loading[w]) - 4 * loadFaults
  PROVE  LoadingInv'
<1>0. LoadingTypes
  BY DEF LoadingInv
<1>1. EntryInv' /\ SecretOfConfiguration' /\ DocsOfAddon'
  BY DEF LoadingInv, EntryInv, SecretOfConfiguration, DocsOfAddon
<1>2. ArchiveInv(l)' /\ \A v \in Controllers \ {w} : ArchiveInv(loading[v])'
  <2>1. loading' = [loading EXCEPT ![w] = l]
    BY DEF Put
  <2>2. \A v \in Controllers \ {w} : loading'[v] = loading[v]
    BY <1>0, <2>1 DEF LoadingTypes
  <2> QED
    BY <2>2 DEF LoadingInv, ArchiveInv
<1>3. /\ asked' \in [Repositories -> Namespaces \cup {Cluster, Nil}]
      /\ tgz' \in [NVs -> Repositories \cup {Nil, "partial"}]
      /\ DOMAIN entry' = Repositories /\ \A r \in Repositories : DOMAIN entry'[r] = NVs
  BY <1>0 DEF LoadingTypes
<1>4. TgzInv'
  <2>1. \A v \in Controllers \ {w} : loading'[v] = loading[v]
    BY <1>0 DEF LoadingTypes, Put
  <2>2. \A nv : ~Holds(loading[w], nv)
    BY DEF Holds
  <2> QED
    BY <2>1, <2>2, HeldKept
<1> QED
  BY <1>1, <1>2, <1>3, <1>4, WorkKeeps

(* A controller that is not idle.                                          *)
LEMMA AtWork ==
  ASSUME LoadingInv, NEW w \in Controllers, PC(w) # "idle"
  PROVE  /\ loading[w] \in Loading /\ WorkInv(w, loading[w])
         /\ loading[w].cfg \in Configs /\ ControllerOf(loading[w].cfg) = w
         /\ tmp \in Int /\ loadFaults \in Nat
         /\ PC(w) # "next" => /\ Repo(w) \in Repositories /\ ConfigOf[Repo(w)] = loading[w].cfg
                              /\ \A nv \in Index[Repo(w)] : nv \in NVs
  BY LoadingAssumption DEF LoadingInv, LoadingTypes, WorkInv, PC, Repo

(* The locals after a repository is done with.                             *)
LEMMA FinishFacts ==
  ASSUME LoadingInv, NEW w \in Controllers, PC(w) # "idle", NEW status, Finish(w, status)
  PROVE  \E l \in Loading : /\ Put(w, l) /\ l.pc = "next" /\ l.cfg = loading[w].cfg
                            /\ WorkInv(w, l) /\ ArchiveInv(l) /\ Dirs(l) = 0
<1> DEFINE l == [NotLoading EXCEPT !.pc = "next", !.cfg = loading[w].cfg, !.repos = loading[w].repos]
<1>0. /\ loading[w] \in Loading /\ WorkInv(w, loading[w]) /\ loading[w].cfg \in Configs
      /\ ControllerOf(loading[w].cfg) = w
  BY AtWork
<1>1. Put(w, l)
  BY DEF Finish
<1>2. l \in Loading /\ l.pc = "next" /\ l.cfg = loading[w].cfg /\ l.repos = loading[w].repos
  BY <1>0, NotLoadingFacts, LoadingFacts DEF Loading
<1> HIDE DEF l
<1>3. WorkInv(w, l)
  BY <1>0, <1>2 DEF WorkInv, Open, InHand, Archiving
<1>4. ArchiveInv(l) /\ Dirs(l) = 0
  BY <1>2 DEF ArchiveInv, Dirs, Open, Archiving
<1> QED
  BY <1>1, <1>2, <1>3, <1>4

(* loadRepositories.                                                       *)
LEMMA NextKeeps ==
  ASSUME LoadingInv, NEW w \in Controllers, loadRepositories(w)
  PROVE  LoadingInv'
<1>0. /\ PC(w) = "next" /\ loading[w] \in Loading /\ WorkInv(w, loading[w])
      /\ loading[w].cfg \in Configs /\ ControllerOf(loading[w].cfg) = w
      /\ tmp \in Int /\ loadFaults \in Nat
  BY AtWork DEF loadRepositories
<1>1. PICK r \in loading[w].repos :
        \/ Put(w, [loading[w] EXCEPT !.repos = @ \ {r}])
        \/ Put(w, [[loading[w] EXCEPT !.repos = @ \ {r}] EXCEPT !.pc = "template", !.repo = r])
  BY DEF loadRepositories
<1>2. UNCHANGED <<templateNS, asked, tgz, entry, loads, tmp, loadFaults>>
  BY DEF loadRepositories
<1>3. r \in Repositories /\ ConfigOf[r] = loading[w].cfg
  BY <1>0 DEF WorkInv, RepositoriesOf, PC
<1> DEFINE rest == [loading[w] EXCEPT !.repos = @ \ {r}]
<1> DEFINE l == [rest EXCEPT !.pc = "template", !.repo = r]
<1>4. /\ rest \in Loading /\ rest.pc = "next" /\ rest.cfg = loading[w].cfg
      /\ rest.repos \subseteq loading[w].repos
  BY <1>0 DEF Loading, PC
<1>5. /\ l \in Loading /\ l.pc = "template" /\ l.cfg = loading[w].cfg
      /\ l.repos = rest.repos /\ l.repo = r
  <2> HIDE DEF rest
  <2> QED
    BY <1>3, <1>4 DEF Loading
<1>6. Put(w, rest) \/ Put(w, l)
  BY <1>1
<1> HIDE DEF rest, l
<1>7. WorkInv(w, rest) /\ WorkInv(w, l)
  BY <1>0, <1>3, <1>4, <1>5 DEF WorkInv, Open, InHand, Archiving
<1>8. ArchiveInv(rest) /\ ArchiveInv(l)
  BY <1>4, <1>5 DEF ArchiveInv, Archiving
<1>9. Dirs(rest) = 0 /\ Dirs(l) = 0 /\ Dirs(loading[w]) = 0
  BY <1>0, <1>4, <1>5 DEF Dirs, Open, PC
<1>10. /\ tmp' \in Int /\ loadFaults' \in Nat /\ loadFaults' >= loadFaults
       /\ tmp' - 0 >= tmp - 0
       /\ tmp' - 0 - 4 * loadFaults' <= tmp - 0 - 4 * loadFaults
  BY <1>0, <1>2
<1>11. CASE Put(w, rest)
  BY <1>0, <1>2, <1>4, <1>7, <1>8, <1>9, <1>10, <1>11, MoveKeeps DEF PC
<1>12. CASE Put(w, l)
  BY <1>0, <1>2, <1>5, <1>7, <1>8, <1>9, <1>10, <1>12, MoveKeeps DEF PC
<1> QED
  BY <1>6, <1>11, <1>12

(* TemplateURL: the namespace that is asked is the configuration's own or  *)
(* the one that it names.                                                  *)
LEMMA TemplateKeeps ==
  ASSUME LoadingInv, NEW w \in Controllers, TemplateURL(w)
  PROVE  LoadingInv'
<1> DEFINE r == Repo(w)
<1> DEFINE ref == SecretOf[r]
<1> DEFINE fetchNS == IF ref = Cluster THEN templateNS ELSE ref
<1> DEFINE ns == IF ref \in {NoTemplate, NoSecretRef} THEN Nil ELSE fetchNS
<1>0. /\ PC(w) = "template" /\ loading[w] \in Loading /\ WorkInv(w, loading[w])
      /\ loading[w].cfg \in Configs /\ ControllerOf(loading[w].cfg) = w
      /\ tmp \in Int /\ loadFaults \in Nat /\ r \in Repositories /\ ConfigOf[r] = loading[w].cfg
      /\ LoadingTypes
  BY AtWork DEF TemplateURL, LoadingInv
<1>1. /\ asked' = [asked EXCEPT ![r] = ns]
      /\ UNCHANGED <<templateNS, tgz, tmp, entry, loads, loadFaults>>
  BY DEF TemplateURL
<1>2. \E l \in Loading : /\ Put(w, l) /\ l.pc # "idle" /\ l.cfg = loading[w].cfg
                         /\ WorkInv(w, l) /\ ArchiveInv(l) /\ Dirs(l) = 0
  <2> DEFINE m == [loading[w] EXCEPT !.pc = "getter"]
  <2>1. Put(w, m) \/ Finish(w, "TemplatingError")
    BY DEF TemplateURL
  <2>2. CASE Put(w, m)
    <3>1. /\ m \in Loading /\ m.pc = "getter" /\ m.cfg = loading[w].cfg
          /\ m.repos = loading[w].repos /\ m.repo = loading[w].repo
      BY <1>0 DEF Loading
    <3> HIDE DEF m
    <3>2. WorkInv(w, m)
      BY <1>0, <3>1 DEF WorkInv, Open, InHand, Archiving, PC
    <3>3. ArchiveInv(m) /\ Dirs(m) = 0
      BY <3>1 DEF ArchiveInv, Dirs, Open, Archiving
    <3> QED
      BY <2>2, <3>1, <3>2, <3>3
  <2>3. CASE Finish(w, "TemplatingError")
    BY <1>0, <2>3, FinishFacts
  <2> QED
    BY <2>1, <2>2, <2>3
<1>3. PICK l \in Loading : /\ Put(w, l) /\ l.pc # "idle" /\ l.cfg = loading[w].cfg
                           /\ WorkInv(w, l) /\ ArchiveInv(l) /\ Dirs(l) = 0
  BY <1>2
<1>4. ns \in Namespaces \cup {Cluster, Nil}
  BY <1>0, LoadingAssumption DEF LoadingTypes
<1>5. ns # Nil => /\ ref \in Namespaces => ns = ref
                  /\ ref = Cluster /\ NamespaceOf[ConfigOf[r]] # Cluster => ns = NamespaceOf[ConfigOf[r]]
  <2>1. NamespaceOf[ConfigOf[r]] # Cluster => templateNS = NamespaceOf[ConfigOf[r]]
    BY <1>0 DEF LoadingInv, NamespaceInv, ControllerOf, PC
  <2> QED
    BY <2>1, LoadingAssumption
<1> HIDE DEF ns
<1>6. asked' \in [Repositories -> Namespaces \cup {Cluster, Nil}]
  BY <1>0, <1>1, <1>4 DEF LoadingTypes
<1>7. \A q \in Repositories : asked'[q] = IF q = r THEN ns ELSE asked[q]
  BY <1>0, <1>1 DEF LoadingTypes
<1>8. SecretOfConfiguration'
  BY <1>5, <1>7 DEF LoadingInv, SecretOfConfiguration
<1>9. EntryInv' /\ DocsOfAddon'
  BY <1>1 DEF LoadingInv, EntryInv, DocsOfAddon
<1>10. ArchiveInv(l)' /\ \A v \in Controllers \ {w} : ArchiveInv(loading[v])'
  <2>1. \A v \in Controllers \ {w} : loading'[v] = loading[v]
    BY <1>0, <1>3 DEF LoadingTypes, Put
  <2> QED
    BY <1>1, <1>3, <2>1 DEF LoadingInv, ArchiveInv
<1>11. Dirs(loading[w]) = 0
  BY <1>0 DEF Dirs, Open, PC
<1>12. /\ tgz' \in [NVs -> Repositories \cup {Nil, "partial"}]
       /\ DOMAIN entry' = Repositories /\ \A q \in Repositories : DOMAIN entry'[q] = NVs
       /\ tmp' \in Int /\ loadFaults' \in Nat /\ loadFaults' >= loadFaults
  BY <1>0, <1>1 DEF LoadingTypes
<1>13. /\ tmp' - Dirs(l) >= tmp - Dirs(loading[w])
       /\ tmp' - Dirs(l) - 4 * loadFaults' <= tmp - Dirs(loading[w]) - 4 * loadFaults
  BY <1>0, <1>1, <1>3, <1>11
<1>14. TgzInv'
  <2>1. \A v \in Controllers \ {w} : loading'[v] = loading[v]
    BY <1>0, <1>3 DEF LoadingTypes, Put
  <2>2. \A nv : ~Holds(loading[w], nv)
    BY <1>0 DEF Holds, PC
  <2> QED
    BY <1>1, <1>12, <2>1, <2>2, HeldKept
<1> QED
  BY <1>0, <1>1, <1>3, <1>6, <1>8, <1>9, <1>10, <1>12, <1>13, <1>14, WorkKeeps DEF PC

(* What Finish does to the temporary directory is what was left open.      *)
LEMMA FinishKeeps ==
  ASSUME LoadingInv, NEW w \in Controllers, PC(w) # "idle", NEW status, Finish(w, status),
         PC(w) \notin {"write", "read", "upload"},
         UNCHANGED <<templateNS, asked, tgz, entry, loads>>,
         tmp' \in Int, loadFaults' \in Nat, loadFaults' >= loadFaults,
         tmp' >= tmp - Dirs(loading[w]),
         tmp' - 4 * loadFaults' <= tmp - Dirs(loading[w]) - 4 * loadFaults
  PROVE  LoadingInv'
<1>1. PICK l \in Loading : /\ Put(w, l) /\ l.pc = "next" /\ l.cfg = loading[w].cfg
                           /\ WorkInv(w, l) /\ ArchiveInv(l) /\ Dirs(l) = 0
  BY FinishFacts
<1>2. /\ tmp' - Dirs(l) >= tmp - Dirs(loading[w])
      /\ tmp' - Dirs(l) - 4 * loadFaults' <= tmp - Dirs(loading[w]) - 4 * loadFaults
  BY <1>1
<1> QED
  BY <1>1, <1>2, MoveKeeps DEF PC

(* NewGetter.                                                              *)
LEMMA GetterKeeps ==
  ASSUME LoadingInv, NEW w \in Controllers, NewGetter(w)
  PROVE  LoadingInv'
<1>0. /\ PC(w) = "getter" /\ loading[w] \in Loading /\ WorkInv(w, loading[w])
      /\ loading[w].cfg \in Configs
      /\ tmp \in Int /\ loadFaults \in Nat
      /\ UNCHANGED <<templateNS, asked, tgz, entry, loads>>
  BY AtWork DEF NewGetter
<1> DEFINE l == [loading[w] EXCEPT !.pc = "index"]
<1>1. \/ /\ Put(w, l) /\ Protocol[Repo(w)] \in {"git", "https"}
         /\ tmp' = tmp + 1 /\ UNCHANGED loadFaults
      \/ /\ Finish(w, "FetchingError")
         /\ \/ tmp' \in {tmp, tmp + 1} /\ loadFaults' = loadFaults + 1
            \/ UNCHANGED <<tmp, loadFaults>>
  BY DEF NewGetter, NewClientModeDirGetter, NewHTTP, LoadFault
<1>2. Dirs(loading[w]) = 0
  BY <1>0 DEF Dirs, Open, PC
<1>3. CASE Put(w, l) /\ Protocol[Repo(w)] \in {"git", "https"} /\ tmp' = tmp + 1 /\ UNCHANGED loadFaults
  <2>1. /\ l \in Loading /\ l.pc = "index" /\ l.cfg = loading[w].cfg /\ l.repos = loading[w].repos
        /\ l.repo = loading[w].repo /\ l.entries = loading[w].entries
    BY <1>0 DEF Loading, Open
  <2> HIDE DEF l
  <2>2. ArchiveInv(l) /\ Dirs(l) = 1
    BY <2>1 DEF ArchiveInv, Dirs, Open, Archiving
  <2>3. WorkInv(w, l)
    BY <1>0, <1>3, <2>1 DEF WorkInv, Open, InHand, Archiving, PC, Repo
  <2>4. /\ tmp' \in Int /\ loadFaults' \in Nat /\ loadFaults' >= loadFaults
        /\ tmp' - Dirs(l) >= tmp - Dirs(loading[w])
        /\ tmp' - Dirs(l) - 4 * loadFaults' <= tmp - Dirs(loading[w]) - 4 * loadFaults
    BY <1>0, <1>2, <1>3, <2>2
  <2> QED
    BY <1>0, <1>3, <2>1, <2>2, <2>3, <2>4, MoveKeeps DEF PC
<1>4. CASE /\ Finish(w, "FetchingError")
           /\ \/ tmp' \in {tmp, tmp + 1} /\ loadFaults' = loadFaults + 1
              \/ UNCHANGED <<tmp, loadFaults>>
  <2>1. /\ tmp' \in Int /\ loadFaults' \in Nat /\ loadFaults' >= loadFaults
        /\ tmp' >= tmp - Dirs(loading[w])
        /\ tmp' - 4 * loadFaults' <= tmp - Dirs(loading[w]) - 4 * loadFaults
    BY <1>0, <1>2, <1>4
  <2> QED
    BY <1>0, <1>4, <2>1, FinishKeeps
<1> QED
  BY <1>1, <1>3, <1>4

(* GetIndex and the end of an index: Cleanup.                              *)
LEMMA IndexKeeps ==
  ASSUME LoadingInv, NEW w \in Controllers, GetIndex(w) \/ endIndex(w)
  PROVE  LoadingInv'
<1>0. PC(w) \in {"index", "entry"} /\ UNCHANGED <<templateNS, asked, tgz, entry, loads>>
  BY DEF GetIndex, endIndex
<1>1. /\ loading[w] \in Loading /\ WorkInv(w, loading[w]) /\ loading[w].cfg \in Configs
      /\ tmp \in Int /\ loadFaults \in Nat /\ Repo(w) \in Repositories
  BY <1>0, AtWork
<1> DEFINE l == [loading[w] EXCEPT !.pc = "entry", !.entries = Index[Repo(w)]]
<1>2. \/ PC(w) = "index" /\ Put(w, l) /\ UNCHANGED <<tmp, loadFaults>>
      \/ \E status \in {"FetchingError", "fetched"} :
           Finish(w, status) /\ tmp' = tmp - 1 /\ loadFaults' \in {loadFaults, loadFaults + 1}
  BY DEF GetIndex, endIndex, Cleanup, LoadFault
<1>3. Dirs(loading[w]) = 1
  BY <1>0 DEF Dirs, Open, PC
<1>4. CASE PC(w) = "index" /\ Put(w, l) /\ UNCHANGED <<tmp, loadFaults>>
  <2>1. Index[Repo(w)] \subseteq NVs
    BY <1>1, LoadingAssumption
  <2>2. /\ l \in Loading /\ l.pc = "entry" /\ l.cfg = loading[w].cfg /\ l.repos = loading[w].repos
        /\ l.repo = loading[w].repo /\ l.entries = Index[loading[w].repo]
    BY <1>1, <2>1 DEF Loading, Open, Repo
  <2> HIDE DEF l
  <2>3. ArchiveInv(l) /\ Dirs(l) = 1
    BY <2>2 DEF ArchiveInv, Dirs, Open, Archiving
  <2>4. WorkInv(w, l)
    BY <1>1, <1>4, <2>2 DEF WorkInv, Open, InHand, Archiving, PC
  <2>5. /\ tmp' \in Int /\ loadFaults' \in Nat /\ loadFaults' >= loadFaults
        /\ tmp' - Dirs(l) >= tmp - Dirs(loading[w])
        /\ tmp' - Dirs(l) - 4 * loadFaults' <= tmp - Dirs(loading[w]) - 4 * loadFaults
    BY <1>1, <1>3, <1>4, <2>3
  <2> QED
    BY <1>0, <1>1, <1>4, <2>2, <2>3, <2>4, <2>5, MoveKeeps DEF PC
<1>5. ASSUME NEW status \in {"FetchingError", "fetched"}, Finish(w, status), tmp' = tmp - 1,
             loadFaults' \in {loadFaults, loadFaults + 1}
      PROVE  LoadingInv'
  <2>1. /\ tmp' \in Int /\ loadFaults' \in Nat /\ loadFaults' >= loadFaults
        /\ tmp' >= tmp - Dirs(loading[w])
        /\ tmp' - 4 * loadFaults' <= tmp - Dirs(loading[w]) - 4 * loadFaults
    <3>1. CASE loadFaults' = loadFaults
      BY <1>1, <1>3, <1>5, <3>1
    <3>2. CASE loadFaults' = loadFaults + 1
      BY <1>1, <1>3, <1>5, <3>2
    <3> QED
      BY <1>5, <3>1, <3>2
  <2>2. PC(w) # "idle" /\ PC(w) \notin {"write", "read", "upload"}
    BY <1>0
  <2> QED
    BY <1>0, <1>5, <2>1, <2>2, FinishKeeps
<1> QED
  BY <1>2, <1>4, <1>5

-----------------------------------------------------------------------------
(* Controllers that archive documentation for addons of one name and       *)
(* version share the archive.                                              *)
LEMMA OwnArchive ==
  ASSUME LoadingInv, NEW w \in Controllers, NEW v \in Controllers, v # w,
         PC(w) \in Archiving, PC(v) \in Archiving, loading[w].nv = loading[v].nv
  PROVE  SharesArchive(loading[v].repo, loading[v].nv)
<1>1. \A u \in {w, v} : /\ loading[u].repo \in Repositories /\ Protocol[loading[u].repo] = "git"
                        /\ loading[u].nv \in Index[loading[u].repo]
                        /\ ControllerOf(ConfigOf[loading[u].repo]) = u
  BY DEF LoadingInv, WorkInv, PC, Archiving, InHand
<1> QED
  BY <1>1 DEF SharesArchive

(* A write to the archive of an addon leaves alone those that do not share *)
(* it.                                                                     *)
LEMMA OthersArchive ==
  ASSUME LoadingInv, NEW w \in Controllers, PC(w) \in Archiving,
         \A nv \in NVs : nv # loading[w].nv => tgz'[nv] = tgz[nv],
         \A v \in Controllers \ {w} : loading'[v] = loading[v]
  PROVE  \A v \in Controllers \ {w} : ArchiveInv(loading[v])'
<1> SUFFICES ASSUME NEW v \in Controllers, v # w
             PROVE  ArchiveInv(loading[v])'
  OBVIOUS
<1>0. PICK l \in Loading : l = loading[v]
  BY DEF LoadingInv, LoadingTypes
<1>1. ArchiveInv(l) /\ WorkInv(v, l) /\ loading'[v] = l
  BY <1>0 DEF LoadingInv
<1>2. l.pc \in Archiving /\ ~SharesArchive(l.repo, l.nv) => tgz'[l.nv] = tgz[l.nv]
  <2> SUFFICES ASSUME l.pc \in Archiving, ~SharesArchive(l.repo, l.nv)
               PROVE  tgz'[l.nv] = tgz[l.nv]
    OBVIOUS
  <2>1. l.nv # loading[w].nv
    BY <1>0, OwnArchive DEF PC
  <2>2. l.nv \in NVs
    BY <1>1, LoadingAssumption DEF WorkInv, Archiving, InHand
  <2> QED
    BY <2>1, <2>2
<1>3. ArchiveInv(l)'
  BY <1>1, <1>2 DEF ArchiveInv
<1> QED
  BY <1>1, <1>3

(* An addon is done with: the status of one entry is set.                  *)
LEMMA SetEntryKeeps ==
  ASSUME LoadingInv, NEW w \in Controllers, PC(w) \in Open, NEW nv \in Index[Repo(w)], NEW e,
         SetEntry(w, nv, e), PC(w) # "index",
         UNCHANGED <<templateNS, asked, loads>>,
         tgz' \in [NVs -> Repositories \cup {Nil, "partial"}],
         tmp' \in Int, loadFaults' \in Nat, loadFaults' >= loadFaults,
         \A v \in Controllers \ {w} : ArchiveInv(loading[v])', TgzInv',
         tmp' - 1 >= tmp - Dirs(loading[w]),
         tmp' - 1 - 4 * loadFaults' <= tmp - Dirs(loading[w]) - 4 * loadFaults,
         e.status = "Ready" =>
           /\ e.dir \in Contents[Repo(w)] /\ Loads(e.dir) /\ e.addon \in ToModel(e.dir)
           /\ ~SharesArchive(Repo(w), nv) =>
                e.docs = IF DocumentationEnabled /\ (Protocol[Repo(w)] = "https" \/ e.dir.docs # Nil)
                           THEN Repo(w) ELSE Nil
  PROVE  LoadingInv'
<1>0. /\ loading[w] \in Loading /\ WorkInv(w, loading[w]) /\ loading[w].cfg \in Configs
      /\ tmp \in Int /\ loadFaults \in Nat /\ Repo(w) \in Repositories /\ nv \in NVs
      /\ LoadingTypes
  BY AtWork DEF Open, LoadingInv
<1> DEFINE m == [loading[w] EXCEPT !.pc = "entry", !.entries = @ \ {nv}, !.nv = Nil, !.dir = Nil,
                                   !.docs = Nil]
<1>11. /\ m \in Loading /\ m.pc = "entry" /\ m.cfg = loading[w].cfg /\ m.repos = loading[w].repos
      /\ m.repo = loading[w].repo /\ m.entries \subseteq loading[w].entries
  BY <1>0 DEF Loading, Open
<1>1. Put(w, m) /\ entry' = [entry EXCEPT ![Repo(w)][nv] = e]
  BY DEF SetEntry
<1> HIDE DEF m
<1>2. PICK l \in Loading :
        /\ Put(w, l) /\ l.pc = "entry" /\ l.cfg = loading[w].cfg /\ l.repos = loading[w].repos
        /\ l.repo = loading[w].repo /\ l.entries \subseteq loading[w].entries
  BY <1>11, <1>1
<1>3. ArchiveInv(l)' /\ Dirs(l) = 1
  BY <1>2 DEF ArchiveInv, Dirs, Open, Archiving, PC
<1>4. WorkInv(w, l)
  BY <1>0, <1>2 DEF WorkInv, Open, InHand, Archiving, PC
<1>5. /\ DOMAIN entry' = Repositories /\ \A r \in Repositories : DOMAIN entry'[r] = NVs
      /\ \A r \in Repositories, n \in NVs :
           entry'[r][n] = IF r = Repo(w) /\ n = nv THEN e ELSE entry[r][n]
  BY <1>0, <1>1 DEF LoadingTypes
<1>6. EntryInv'
  BY <1>5 DEF LoadingInv, EntryInv
<1>7. DocsOfAddon'
  BY <1>5 DEF LoadingInv, DocsOfAddon
<1>8. SecretOfConfiguration' /\ asked' \in [Repositories -> Namespaces \cup {Cluster, Nil}]
  BY <1>0 DEF LoadingInv, SecretOfConfiguration, LoadingTypes
<1>9. /\ tmp' - Dirs(l) >= tmp - Dirs(loading[w])
      /\ tmp' - Dirs(l) - 4 * loadFaults' <= tmp - Dirs(loading[w]) - 4 * loadFaults
  BY <1>0, <1>3
<1>10. loading[w].pc # "idle"
  BY DEF PC, Open
<1> QED
  BY <1>0, <1>1, <1>2, <1>3, <1>4, <1>5, <1>6, <1>7, <1>8, <1>9, <1>10, WorkKeeps

(* An addon that fails ...                                                 *)
LEMMA FailedKeeps ==
  ASSUME LoadingInv, NEW w \in Controllers, PC(w) \in Open, PC(w) # "index",
         NEW nv \in Index[Repo(w)], NEW reason, reason # "Ready", SetEntry(w, nv, Failed(reason)),
         UNCHANGED <<templateNS, asked, loads>>,
         tgz' \in [NVs -> Repositories \cup {Nil, "partial"}],
         tmp' \in Int, loadFaults' \in Nat, loadFaults' >= loadFaults,
         \A v \in Controllers \ {w} : ArchiveInv(loading[v])', TgzInv',
         tmp' - 1 >= tmp - Dirs(loading[w]),
         tmp' - 1 - 4 * loadFaults' <= tmp - Dirs(loading[w]) - 4 * loadFaults
  PROVE  LoadingInv'
<1> DEFINE e == Failed(reason)
<1>1. e.status # "Ready"
  BY DEF Failed, NotLoaded
<1>2. SetEntry(w, nv, e)
  OBVIOUS
<1> HIDE DEF e
<1> QED
  BY <1>1, <1>2, SetEntryKeeps

(* ... and one that is Ready has the documentation it should have.         *)
LEMMA ReadyKeeps ==
  ASSUME LoadingInv, NEW w \in Controllers, PC(w) \in InHand, NEW docs, Ready(w, docs),
         UNCHANGED <<templateNS, asked, loads, tmp, loadFaults>>,
         tgz' \in [NVs -> Repositories \cup {Nil, "partial"}],
         \A v \in Controllers \ {w} : ArchiveInv(loading[v])', TgzInv',
         ~SharesArchive(Repo(w), loading[w].nv) =>
           docs = IF DocumentationEnabled /\ (Protocol[Repo(w)] = "https" \/ loading[w].dir.docs # Nil)
                    THEN Repo(w) ELSE Nil
  PROVE  LoadingInv'
<1>0. /\ PC(w) \in Open /\ PC(w) # "index" /\ PC(w) # "idle"
  BY DEF InHand, Open
<1>1. /\ loading[w].nv \in Index[Repo(w)] /\ loading[w].dir \in Contents[Repo(w)]
      /\ Loads(loading[w].dir) /\ tmp \in Int /\ loadFaults \in Nat
  BY <1>0, AtWork DEF WorkInv, PC, Repo
<1>2. PICK a \in ToModel(loading[w].dir) :
        SetEntry(w, loading[w].nv, Loaded(loading[w].dir, a, docs))
  BY DEF Ready
<1>3. PICK d : d = loading[w].dir
  OBVIOUS
<1> DEFINE e == Loaded(d, a, docs)
<1>4. e.dir = d /\ e.addon = a /\ e.docs = docs
  BY DEF Loaded
<1>5. SetEntry(w, loading[w].nv, e)
  BY <1>2, <1>3
<1> HIDE DEF e
<1>6. /\ tmp' \in Int /\ loadFaults' \in Nat /\ loadFaults' >= loadFaults
      /\ tmp' - 1 >= tmp - Dirs(loading[w])
      /\ tmp' - 1 - 4 * loadFaults' <= tmp - Dirs(loading[w]) - 4 * loadFaults
  <2>1. Dirs(loading[w]) = 1
    BY DEF Dirs, InHand, Open, PC
  <2> QED
    BY <1>1, <2>1
<1> QED
  BY <1>0, <1>1, <1>2, <1>3, <1>4, <1>5, <1>6, SetEntryKeeps

(* The archives of the others, when nothing is written to one.             *)
LEMMA ArchivesKept ==
  ASSUME LoadingInv, NEW w \in Controllers, UNCHANGED tgz,
         \A v \in Controllers \ {w} : loading'[v] = loading[v]
  PROVE  /\ \A v \in Controllers \ {w} : ArchiveInv(loading[v])'
         /\ tgz' \in [NVs -> Repositories \cup {Nil, "partial"}]
<1>1. ASSUME NEW v \in Controllers \ {w}
      PROVE  ArchiveInv(loading[v])'
  <2>1. PICK l \in Loading : l = loading[v]
    BY DEF LoadingInv, LoadingTypes
  <2>2. ArchiveInv(l)
    BY <2>1 DEF LoadingInv
  <2>3. ArchiveInv(l)'
    BY <2>2 DEF ArchiveInv
  <2> QED
    BY <2>1, <2>3
<1> QED
  BY <1>1 DEF LoadingInv, LoadingTypes

(* Put leaves the other controller alone.                                  *)
LEMMA PutOthers ==
  ASSUME LoadingInv, NEW w \in Controllers, NEW l, Put(w, l)
  PROVE  /\ loading'[w] = l
         /\ \A v \in Controllers \ {w} : loading'[v] = loading[v]
  BY DEF Put, LoadingInv, LoadingTypes

(* Archives that nobody lets go of.                                        *)
LEMMA StillHeld ==
  ASSUME LoadingInv, NEW w \in Controllers, loadFaults' \in Nat, loadFaults' >= loadFaults,
         UNCHANGED tgz, loading[w].pc \notin {"write", "read", "upload"},
         \A v \in Controllers \ {w} : loading'[v] = loading[v]
  PROVE  TgzInv'
<1>1. \A nv : ~Holds(loading[w], nv)
  BY DEF Holds
<1> QED
  BY <1>1, HeldKept

(* GetAddon.                                                               *)
LEMMA AddonKeeps ==
  ASSUME LoadingInv, NEW w \in Controllers, GetAddon(w)
  PROVE  LoadingInv'
<1>0. PC(w) = "entry" /\ UNCHANGED <<templateNS, asked, tgz, result, loads>>
  BY DEF GetAddon
<1>1. /\ loading[w] \in Loading /\ WorkInv(w, loading[w]) /\ loading[w].cfg \in Configs
      /\ tmp \in Int /\ loadFaults \in Nat /\ Repo(w) \in Repositories
      /\ \A n \in Index[Repo(w)] : n \in NVs
  BY <1>0, AtWork
<1>2. /\ loading[w].entries \subseteq Index[Repo(w)] /\ PC(w) \in Open /\ PC(w) # "index"
      /\ Dirs(loading[w]) = 1
  BY <1>0, <1>1 DEF WorkInv, PC, Repo, Open, Dirs
<1>3. PICK nv \in loading[w].entries :
        \/ \E d \in Contents[Repo(w)] :
             /\ Put(w, [loading[w] EXCEPT !.pc = "load", !.nv = nv, !.dir = d])
             /\ tmp' = IF Protocol[Repo(w)] = "https" THEN tmp + 1 ELSE tmp
             /\ UNCHANGED <<entry, loadFaults>>
        \/ /\ \E reason \in {"LoadingError", "FetchingError"} : SetEntry(w, nv, Failed(reason))
           /\ tmp' \in {tmp, tmp + 1} /\ loadFaults' = loadFaults + 1
  BY DEF GetAddon, AddonLoadInfoFails, unpackArchiveFails, LoadFault
<1>4. nv \in Index[Repo(w)] /\ nv \in NVs
  BY <1>1, <1>2, <1>3
<1>5. ASSUME NEW d \in Contents[Repo(w)],
             Put(w, [loading[w] EXCEPT !.pc = "load", !.nv = nv, !.dir = d]),
             tmp' = IF Protocol[Repo(w)] = "https" THEN tmp + 1 ELSE tmp,
             UNCHANGED <<entry, loadFaults>>
      PROVE  LoadingInv'
  <2> DEFINE l == [loading[w] EXCEPT !.pc = "load", !.nv = nv, !.dir = d]
  <2>1. d \in AllContents
    BY <1>1 DEF AllContents
  <2>2. /\ l \in Loading /\ l.pc = "load" /\ l.cfg = loading[w].cfg /\ l.repos = loading[w].repos
        /\ l.repo = loading[w].repo /\ l.entries = loading[w].entries /\ l.nv = nv /\ l.dir = d
    BY <1>1, <1>4, <2>1 DEF Loading, Open
  <2>3. Put(w, l)
    BY <1>5
  <2> HIDE DEF l
  <2>4. ArchiveInv(l) /\ Dirs(l) = IF Protocol[Repo(w)] = "https" THEN 2 ELSE 1
    BY <2>2 DEF ArchiveInv, Dirs, Open, Archiving, Repo
  <2>5. WorkInv(w, l)
    BY <1>0, <1>1, <1>4, <1>5, <2>2 DEF WorkInv, Open, InHand, Archiving, PC, Repo
  <2>6. /\ tmp' \in Int /\ loadFaults' \in Nat /\ loadFaults' >= loadFaults
        /\ tmp' - Dirs(l) >= tmp - Dirs(loading[w])
        /\ tmp' - Dirs(l) - 4 * loadFaults' <= tmp - Dirs(loading[w]) - 4 * loadFaults
    BY <1>1, <1>2, <1>5, <2>4
  <2> QED
    BY <1>0, <1>5, <2>2, <2>3, <2>4, <2>5, <2>6, MoveKeeps DEF PC
<1>6. ASSUME NEW reason \in {"LoadingError", "FetchingError"}, SetEntry(w, nv, Failed(reason)),
             tmp' \in {tmp, tmp + 1}, loadFaults' = loadFaults + 1
      PROVE  LoadingInv'
  <2>1. /\ tmp' \in Int /\ loadFaults' \in Nat /\ loadFaults' >= loadFaults
        /\ tmp' - 1 >= tmp - Dirs(loading[w])
        /\ tmp' - 1 - 4 * loadFaults' <= tmp - Dirs(loading[w]) - 4 * loadFaults
    <3>1. tmp \in Int /\ loadFaults \in Nat /\ Dirs(loading[w]) = 1
      BY <1>1, <1>2
    <3>2. tmp' = tmp \/ tmp' = tmp + 1
      BY <1>6
    <3>3. loadFaults' = loadFaults + 1
      BY <1>6
    <3> QED
      BY <3>1, <3>2, <3>3
  <2>2. \A v \in Controllers \ {w} : loading'[v] = loading[v]
    BY <1>6, PutOthers DEF SetEntry
  <2>3. /\ \A v \in Controllers \ {w} : ArchiveInv(loading[v])'
        /\ tgz' \in [NVs -> Repositories \cup {Nil, "partial"}]
    BY <1>0, <2>2, ArchivesKept
  <2>4. TgzInv'
    BY <1>0, <2>1, <2>2, StillHeld DEF PC
  <2>5. reason # "Ready"
    OBVIOUS
  <2> QED
    BY <1>0, <1>2, <1>4, <1>6, <2>1, <2>3, <2>4, <2>5, FailedKeeps
<1> QED
  BY <1>3, <1>5, <1>6

(* Load, which removes what was unpacked.                                  *)
LEMMA LoadKeeps ==
  ASSUME LoadingInv, NEW w \in Controllers, Load(w)
  PROVE  LoadingInv'
<1>0. PC(w) = "load" /\ UNCHANGED <<templateNS, asked, tgz, result, loads, loadFaults>>
  BY DEF Load
<1>1. /\ loading[w] \in Loading /\ WorkInv(w, loading[w]) /\ loading[w].cfg \in Configs
      /\ tmp \in Int /\ loadFaults \in Nat /\ Repo(w) \in Repositories
  BY <1>0, AtWork
<1>2. /\ loading[w].nv \in Index[Repo(w)] /\ PC(w) \in Open /\ PC(w) # "index"
      /\ Dirs(loading[w]) = IF Protocol[Repo(w)] = "https" THEN 2 ELSE 1
  BY <1>0, <1>1 DEF WorkInv, PC, Repo, Open, Dirs
<1>3. /\ tmp' \in Int /\ loadFaults' \in Nat /\ loadFaults' >= loadFaults
      /\ tmp' - 1 >= tmp - Dirs(loading[w])
      /\ tmp' - 1 - 4 * loadFaults' <= tmp - Dirs(loading[w]) - 4 * loadFaults
  BY <1>0, <1>1, <1>2 DEF Load
<1>4. CASE Loads(loading[w].dir)
  <2> DEFINE l == [loading[w] EXCEPT !.pc = "docs"]
  <2>1. Put(w, l) /\ UNCHANGED entry
    BY <1>4 DEF Load
  <2>2. /\ l \in Loading /\ l.pc = "docs" /\ l.cfg = loading[w].cfg /\ l.repos = loading[w].repos
        /\ l.repo = loading[w].repo /\ l.entries = loading[w].entries /\ l.nv = loading[w].nv
        /\ l.dir = loading[w].dir
    BY <1>1 DEF Loading, Open
  <2> HIDE DEF l
  <2>3. ArchiveInv(l) /\ Dirs(l) = 1
    BY <2>2 DEF ArchiveInv, Dirs, Open, Archiving
  <2>4. WorkInv(w, l)
    BY <1>0, <1>1, <1>4, <2>2 DEF WorkInv, Open, InHand, Archiving, PC
  <2>5. /\ tmp' - Dirs(l) >= tmp - Dirs(loading[w])
        /\ tmp' - Dirs(l) - 4 * loadFaults' <= tmp - Dirs(loading[w]) - 4 * loadFaults
    BY <1>3, <2>3
  <2> QED
    BY <1>0, <1>3, <2>1, <2>2, <2>3, <2>4, <2>5, MoveKeeps DEF PC
<1>5. CASE ~Loads(loading[w].dir)
  <2>1. PICK nv, reason : nv = loading[w].nv /\ reason = "LoadingError"
    OBVIOUS
  <2>2. SetEntry(w, nv, Failed(reason))
    BY <1>5, <2>1 DEF Load
  <2>3. \A v \in Controllers \ {w} : loading'[v] = loading[v]
    BY <2>2, PutOthers DEF SetEntry
  <2>4. /\ \A v \in Controllers \ {w} : ArchiveInv(loading[v])'
        /\ tgz' \in [NVs -> Repositories \cup {Nil, "partial"}]
    BY <1>0, <2>3, ArchivesKept
  <2>5. TgzInv'
    BY <1>0, <1>3, <2>3, StillHeld DEF PC
  <2>6. reason # "Ready"
    BY <2>1
  <2> QED
    BY <1>0, <1>2, <1>3, <2>1, <2>2, <2>4, <2>5, <2>6, FailedKeeps
<1> QED
  BY <1>4, <1>5

(* A step on the archive of the addon in hand.                             *)
LEMMA ArchiveStepKeeps ==
  ASSUME LoadingInv, NEW w \in Controllers, PC(w) \in Archiving, NEW l \in Loading, Put(w, l),
         l.pc \in Archiving, l.cfg = loading[w].cfg, l.repos = loading[w].repos,
         l.repo = loading[w].repo, l.entries = loading[w].entries, l.nv = loading[w].nv,
         l.dir = loading[w].dir, ArchiveInv(l)',
         UNCHANGED <<templateNS, asked, tmp, entry, loads, loadFaults>>,
         tgz' \in [NVs -> Repositories \cup {Nil, "partial"}],
         \A nv \in NVs : nv # loading[w].nv => tgz'[nv] = tgz[nv],
         l.pc # "archive"
  PROVE  LoadingInv'
<1>0. PC(w) # "idle" /\ l.pc # "idle" /\ LoadingTypes
  BY DEF Archiving, LoadingInv
<1>1. WorkInv(w, loading[w]) /\ tmp \in Int /\ loadFaults \in Nat
  BY <1>0, AtWork
<1>2. WorkInv(w, l)
  BY <1>1 DEF WorkInv, Archiving, InHand, Open, PC
<1>3. Dirs(l) = 1 /\ Dirs(loading[w]) = 1
  BY DEF Dirs, Archiving, Open, PC
<1>4. \A v \in Controllers \ {w} : ArchiveInv(loading[v])'
  BY PutOthers, OthersArchive
<1>5. EntryInv' /\ SecretOfConfiguration' /\ DocsOfAddon'
  BY DEF LoadingInv, EntryInv, SecretOfConfiguration, DocsOfAddon
<1>6. /\ tmp' \in Int /\ loadFaults' \in Nat /\ loadFaults' >= loadFaults
      /\ tmp' - Dirs(l) >= tmp - Dirs(loading[w])
      /\ tmp' - Dirs(l) - 4 * loadFaults' <= tmp - Dirs(loading[w]) - 4 * loadFaults
  BY <1>1, <1>3
<1>7. /\ asked' \in [Repositories -> Namespaces \cup {Cluster, Nil}]
      /\ DOMAIN entry' = Repositories /\ \A r \in Repositories : DOMAIN entry'[r] = NVs
  BY <1>0 DEF LoadingTypes
<1>8. TgzInv'
  <2>1. \A v \in Controllers \ {w} : loading'[v] = loading[v]
    BY PutOthers
  <2>2. loading'[w] = l
    BY PutOthers
  <2>3. ASSUME NEW nv \in NVs, tgz'[nv] # Nil
        PROVE  (tgz[nv] # Nil /\ ~Holds(loading[w], nv)) \/ Holds(loading'[w], nv)
    <3>1. CASE nv = loading[w].nv
      BY <2>2, <3>1 DEF Holds, Archiving
    <3>2. CASE nv # loading[w].nv
      BY <2>3, <3>2 DEF Holds
    <3> QED
      BY <3>1, <3>2
  <2> QED
    BY <1>6, <2>1, <2>3, HeldKept
<1> QED
  BY <1>0, <1>2, <1>4, <1>5, <1>6, <1>7, <1>8, WorkKeeps DEF PC

(* The locals while an addon is archived: only pc and docs change.         *)
LEMMA ArchiveLocals ==
  ASSUME LoadingInv, NEW w \in Controllers, PC(w) \in InHand, NEW pc \in Archiving,
         NEW docs \in Repositories \cup {Nil, "partial"},
         \/ docs = loading[w].docs /\ Put(w, [loading[w] EXCEPT !.pc = pc])
         \/ Put(w, [loading[w] EXCEPT !.pc = pc, !.docs = docs])
  PROVE  \E l \in Loading :
           /\ Put(w, l) /\ l.pc = pc /\ l.cfg = loading[w].cfg /\ l.repos = loading[w].repos
           /\ l.repo = loading[w].repo /\ l.entries = loading[w].entries
           /\ l.nv = loading[w].nv /\ l.dir = loading[w].dir /\ l.docs = docs
<1>0. loading[w] \in Loading
  BY DEF LoadingInv, LoadingTypes
<1>1. pc \in {"idle", "next", "template", "getter"} \cup Open
  BY DEF Archiving, Open
<1>2. CASE docs = loading[w].docs /\ Put(w, [loading[w] EXCEPT !.pc = pc])
  <2> DEFINE l == [loading[w] EXCEPT !.pc = pc]
  <2>1. /\ l \in Loading /\ l.pc = pc /\ l.cfg = loading[w].cfg /\ l.repos = loading[w].repos
        /\ l.repo = loading[w].repo /\ l.entries = loading[w].entries
        /\ l.nv = loading[w].nv /\ l.dir = loading[w].dir /\ l.docs = docs
    BY <1>0, <1>1, <1>2 DEF Loading
  <2> QED
    BY <1>2, <2>1
<1>3. CASE Put(w, [loading[w] EXCEPT !.pc = pc, !.docs = docs])
  <2> DEFINE l == [loading[w] EXCEPT !.pc = pc, !.docs = docs]
  <2>1. /\ l \in Loading /\ l.pc = pc /\ l.cfg = loading[w].cfg /\ l.repos = loading[w].repos
        /\ l.repo = loading[w].repo /\ l.entries = loading[w].entries
        /\ l.nv = loading[w].nv /\ l.dir = loading[w].dir /\ l.docs = docs
    BY <1>0, <1>1 DEF Loading
  <2> QED
    BY <1>3, <2>1
<1> QED
  BY <1>2, <1>3

(* AddonDocURL.                                                            *)
LEMMA DocURLKeeps ==
  ASSUME LoadingInv, NEW w \in Controllers, AddonDocURL(w)
  PROVE  LoadingInv'
<1>0. PC(w) = "docs" /\ UNCHANGED <<templateNS, asked, tgz, tmp, result, loads, loadFaults>>
  BY DEF AddonDocURL
<1>1. /\ PC(w) \in InHand /\ PC(w) # "idle"
  BY <1>0 DEF InHand
<1>2. /\ loading[w] \in Loading /\ WorkInv(w, loading[w]) /\ loading[w].cfg \in Configs
      /\ tmp \in Int /\ loadFaults \in Nat
      /\ Protocol[Repo(w)] \in {"git", "https"}
  BY <1>0, AtWork DEF WorkInv, PC, Repo, Open
<1>3. ASSUME NEW docs, Ready(w, docs),
             docs = IF DocumentationEnabled
                         /\ (Protocol[Repo(w)] = "https" \/ loading[w].dir.docs # Nil)
                      THEN Repo(w) ELSE Nil
      PROVE  LoadingInv'
  <2>1. \A v \in Controllers \ {w} : loading'[v] = loading[v]
    BY <1>3, PutOthers DEF Ready, SetEntry
  <2>2. /\ \A v \in Controllers \ {w} : ArchiveInv(loading[v])'
        /\ tgz' \in [NVs -> Repositories \cup {Nil, "partial"}]
    BY <1>0, <2>1, ArchivesKept
  <2>3. TgzInv'
    BY <1>0, <1>2, <2>1, StillHeld DEF PC
  <2> QED
    BY <1>0, <1>1, <1>3, <2>2, <2>3, ReadyKeeps
<1>4. ASSUME DocumentationEnabled, Protocol[Repo(w)] # "https", loading[w].dir.docs # Nil,
             Put(w, [loading[w] EXCEPT !.pc = "archive"]), UNCHANGED entry
      PROVE  LoadingInv'
  <2>1. "archive" \in Archiving /\ loading[w].docs \in Repositories \cup {Nil, "partial"}
    BY <1>2, LoadingFacts DEF Archiving
  <2>2. PICK l \in Loading :
          /\ Put(w, l) /\ l.pc = "archive" /\ l.cfg = loading[w].cfg /\ l.repos = loading[w].repos
          /\ l.repo = loading[w].repo /\ l.entries = loading[w].entries
          /\ l.nv = loading[w].nv /\ l.dir = loading[w].dir
    <3>1. PICK pc \in Archiving, docs \in Repositories \cup {Nil, "partial"} :
            pc = "archive" /\ docs = loading[w].docs
      BY <2>1
    <3>2. \/ docs = loading[w].docs /\ Put(w, [loading[w] EXCEPT !.pc = pc])
          \/ Put(w, [loading[w] EXCEPT !.pc = pc, !.docs = docs])
      BY <1>4, <3>1
    <3>3. \E l \in Loading :
            /\ Put(w, l) /\ l.pc = pc /\ l.cfg = loading[w].cfg /\ l.repos = loading[w].repos
            /\ l.repo = loading[w].repo /\ l.entries = loading[w].entries
            /\ l.nv = loading[w].nv /\ l.dir = loading[w].dir /\ l.docs = docs
      BY <1>1, <3>2, ArchiveLocals
    <3> QED
      BY <3>1, <3>3
  <2>3. ArchiveInv(l) /\ Dirs(l) = 1 /\ Dirs(loading[w]) = 1
    BY <1>0, <2>2 DEF ArchiveInv, Dirs, Open, Archiving, PC
  <2>4. WorkInv(w, l)
    BY <1>0, <1>2, <1>4, <2>2 DEF WorkInv, Open, InHand, Archiving, PC, Repo
  <2>5. /\ tmp' \in Int /\ loadFaults' \in Nat /\ loadFaults' >= loadFaults
        /\ tmp' - Dirs(l) >= tmp - Dirs(loading[w])
        /\ tmp' - Dirs(l) - 4 * loadFaults' <= tmp - Dirs(loading[w]) - 4 * loadFaults
    BY <1>0, <1>2, <2>3
  <2> QED
    BY <1>0, <1>1, <1>4, <2>2, <2>3, <2>4, <2>5, MoveKeeps DEF PC
<1>5. \/ \E docs : /\ Ready(w, docs)
                   /\ docs = IF DocumentationEnabled
                                  /\ (Protocol[Repo(w)] = "https" \/ loading[w].dir.docs # Nil)
                               THEN Repo(w) ELSE Nil
      \/ /\ DocumentationEnabled /\ Protocol[Repo(w)] # "https" /\ loading[w].dir.docs # Nil
         /\ Put(w, [loading[w] EXCEPT !.pc = "archive"])
         /\ UNCHANGED entry
  BY DEF AddonDocURL
<1> QED
  BY <1>3, <1>4, <1>5

(* An addon whose documentation is archived.                               *)
LEMMA InArchive ==
  ASSUME LoadingInv, NEW w \in Controllers, PC(w) \in Archiving
  PROVE  /\ PC(w) \in InHand /\ PC(w) \in Open /\ PC(w) # "index" /\ PC(w) # "idle"
         /\ loading[w] \in Loading /\ WorkInv(w, loading[w]) /\ ArchiveInv(loading[w])
         /\ tmp \in Int /\ loadFaults \in Nat
         /\ Repo(w) \in Repositories /\ loading[w].nv \in Index[Repo(w)] /\ loading[w].nv \in NVs
         /\ tgz \in [NVs -> Repositories \cup {Nil, "partial"}]
         /\ loading[w].docs \in Repositories \cup {Nil, "partial"}
         /\ DocumentationEnabled /\ loading[w].dir.docs # Nil
<1>1. PC(w) \in InHand /\ PC(w) \in Open /\ PC(w) # "index" /\ PC(w) # "idle" /\ PC(w) # "next"
  BY DEF Archiving, InHand, Open
<1>2. /\ loading[w] \in Loading /\ WorkInv(w, loading[w]) /\ tmp \in Int /\ loadFaults \in Nat
      /\ Repo(w) \in Repositories /\ \A nv \in Index[Repo(w)] : nv \in NVs
  BY <1>1, AtWork
<1>3. /\ loading[w].nv \in Index[Repo(w)] /\ DocumentationEnabled /\ loading[w].dir.docs # Nil
  BY <1>1, <1>2 DEF WorkInv, PC, Repo
<1>4. ArchiveInv(loading[w]) /\ tgz \in [NVs -> Repositories \cup {Nil, "partial"}]
  BY DEF LoadingInv, LoadingTypes
<1> QED
  BY <1>1, <1>2, <1>3, <1>4, LoadingFacts

(* Archive and WriteArchive.                                               *)
LEMMA WriteKeeps ==
  ASSUME LoadingInv, NEW w \in Controllers, Archive(w) \/ WriteArchive(w)
  PROVE  LoadingInv'
<1>0. PC(w) \in {"archive", "write"} /\ PC(w) \in Archiving
  BY DEF Archive, WriteArchive, Archiving
<1>1. /\ PC(w) \in InHand /\ loading[w] \in Loading /\ ArchiveInv(loading[w])
      /\ Repo(w) \in Repositories /\ loading[w].nv \in NVs
      /\ tgz \in [NVs -> Repositories \cup {Nil, "partial"}]
      /\ loading[w].docs \in Repositories \cup {Nil, "partial"}
  BY <1>0, InArchive
<1>2. UNCHANGED <<templateNS, asked, tmp, result, loads>>
  BY DEF Archive, WriteArchive
<1> DEFINE f == loading[w].nv
<1> DEFINE alone == /\ tgz[f] = "partial"
                    /\ \A v \in Controllers \ {w} : PC(v) = "write" => loading[v].nv # f
<1> DEFINE contents == IF alone THEN {Repo(w)}
                       ELSE IF tgz[f] = Nil THEN {Nil} ELSE {Repo(w), "partial", tgz[f]}
<1> DEFINE Written == /\ \E c \in contents : tgz' = [tgz EXCEPT ![f] = c]
                      /\ Put(w, [loading[w] EXCEPT !.pc = "read"])
                      /\ UNCHANGED <<entry, loadFaults>>
<1>3. CASE Archive(w)
  <2>1. PICK l \in Loading :
          /\ Put(w, l) /\ l.pc = "write" /\ l.cfg = loading[w].cfg /\ l.repos = loading[w].repos
          /\ l.repo = loading[w].repo /\ l.entries = loading[w].entries
          /\ l.nv = loading[w].nv /\ l.dir = loading[w].dir
    <3> DEFINE m == [loading[w] EXCEPT !.pc = "write"]
    <3>1. /\ m \in Loading /\ m.pc = "write" /\ m.cfg = loading[w].cfg /\ m.repos = loading[w].repos
          /\ m.repo = loading[w].repo /\ m.entries = loading[w].entries
          /\ m.nv = loading[w].nv /\ m.dir = loading[w].dir
      BY <1>1 DEF Loading, Open
    <3>2. Put(w, m)
      BY <1>3 DEF Archive
    <3> HIDE DEF m
    <3> QED
      BY <3>1, <3>2
  <2>2. tgz' = [tgz EXCEPT ![loading[w].nv] = "partial"]
    BY <1>3 DEF Archive, TgzOf
  <2>3. /\ tgz' \in [NVs -> Repositories \cup {Nil, "partial"}]
        /\ \A nv \in NVs : tgz'[nv] = IF nv = loading[w].nv THEN "partial" ELSE tgz[nv]
    BY <1>1, <2>2
  <2>4. ArchiveInv(l)'
    BY <1>1, <2>1, <2>3 DEF ArchiveInv
  <2>5. l.pc \in Archiving
    BY <2>1 DEF Archiving
  <2> QED
    BY <1>0, <1>2, <1>3, <2>1, <2>3, <2>4, <2>5, ArchiveStepKeeps DEF Archive
<1>4. CASE PC(w) = "write" /\ Written
  <2>1. PICK l \in Loading :
          /\ Put(w, l) /\ l.pc = "read" /\ l.cfg = loading[w].cfg /\ l.repos = loading[w].repos
          /\ l.repo = loading[w].repo /\ l.entries = loading[w].entries
          /\ l.nv = loading[w].nv /\ l.dir = loading[w].dir
    <3> DEFINE m == [loading[w] EXCEPT !.pc = "read"]
    <3>1. /\ m \in Loading /\ m.pc = "read" /\ m.cfg = loading[w].cfg /\ m.repos = loading[w].repos
          /\ m.repo = loading[w].repo /\ m.entries = loading[w].entries
          /\ m.nv = loading[w].nv /\ m.dir = loading[w].dir
      BY <1>1 DEF Loading, Open
    <3>2. Put(w, m)
      BY <1>4
    <3> HIDE DEF m
    <3> QED
      BY <3>1, <3>2
  <2>2. PICK c \in Repositories \cup {Nil, "partial"} :
          /\ tgz' = [tgz EXCEPT ![loading[w].nv] = c]
          /\ alone => c = Repo(w)
    <3>1. PICK c \in contents : tgz' = [tgz EXCEPT ![loading[w].nv] = c]
      BY <1>4
    <3>2. tgz[loading[w].nv] \in Repositories \cup {Nil, "partial"}
      BY <1>1
    <3> HIDE DEF alone
    <3> QED
      BY <1>1, <3>1, <3>2
  <2>3. /\ tgz' \in [NVs -> Repositories \cup {Nil, "partial"}]
        /\ \A nv \in NVs : tgz'[nv] = IF nv = loading[w].nv THEN c ELSE tgz[nv]
    BY <1>1, <2>2
  <2>4. ~SharesArchive(l.repo, l.nv) => alone
    <3> SUFFICES ASSUME ~SharesArchive(loading[w].repo, loading[w].nv)
                 PROVE  alone
      BY <2>1
    <3>1. tgz[loading[w].nv] = "partial"
      BY <1>0, <1>1, <1>4 DEF ArchiveInv, PC
    <3>2. ASSUME NEW v \in Controllers \ {w}, PC(v) = "write", loading[v].nv = loading[w].nv
          PROVE  FALSE
      <4>1. PC(v) \in Archiving
        BY <3>2 DEF Archiving
      <4> QED
        BY <1>0, <3>2, <4>1, OwnArchive
    <3> QED
      BY <3>1, <3>2
  <2> HIDE DEF alone
  <2>5. ArchiveInv(l)'
    <3>1. ~SharesArchive(l.repo, l.nv) => tgz'[l.nv] = l.repo
      BY <1>1, <2>1, <2>2, <2>3, <2>4 DEF Repo
    <3> QED
      BY <2>1, <3>1 DEF ArchiveInv
  <2>6. l.pc \in Archiving
    BY <2>1 DEF Archiving
  <2> QED
    BY <1>0, <1>2, <1>4, <2>1, <2>3, <2>5, <2>6, ArchiveStepKeeps
<1>5. CASE LoadFault /\ SetEntry(w, loading[w].nv, Failed("LoadingError")) /\ UNCHANGED tgz
  <2>0. tmp \in Int /\ loadFaults \in Nat /\ loading[w].nv \in Index[Repo(w)]
        /\ PC(w) \in Open /\ PC(w) # "index"
    BY <1>0, InArchive
  <2>1. PICK nv, reason : nv = loading[w].nv /\ reason = "LoadingError"
    OBVIOUS
  <2>2. SetEntry(w, nv, Failed(reason)) /\ loadFaults' = loadFaults + 1
    BY <1>5, <2>1 DEF LoadFault
  <2>3. /\ \A v \in Controllers \ {w} : ArchiveInv(loading[v])'
        /\ tgz' \in [NVs -> Repositories \cup {Nil, "partial"}]
    BY <1>5, <2>2, PutOthers, ArchivesKept DEF SetEntry
  <2>4. TgzInv'
    BY <2>0, <2>2 DEF TgzInv
  <2>5. Dirs(loading[w]) = 1
    BY <1>0 DEF Dirs, Open, PC
  <2>6. /\ tmp' \in Int /\ loadFaults' \in Nat /\ loadFaults' >= loadFaults
        /\ tmp' - 1 >= tmp - Dirs(loading[w])
        /\ tmp' - 1 - 4 * loadFaults' <= tmp - Dirs(loading[w]) - 4 * loadFaults
    BY <1>2, <2>0, <2>2, <2>5
  <2>7. reason # "Ready"
    BY <2>1
  <2> QED
    BY <1>2, <2>0, <2>1, <2>2, <2>3, <2>4, <2>6, <2>7, FailedKeeps
<1>6. WriteArchive(w) => \/ PC(w) = "write" /\ Written
                         \/ LoadFault /\ SetEntry(w, loading[w].nv, Failed("LoadingError"))
                            /\ UNCHANGED tgz
  BY DEF WriteArchive, TgzOf
<1> QED
  BY <1>3, <1>4, <1>5, <1>6

(* ReadArchive.                                                            *)
LEMMA ReadKeeps ==
  ASSUME LoadingInv, NEW w \in Controllers, ReadArchive(w)
  PROVE  LoadingInv'
<1>0. PC(w) = "read" /\ PC(w) \in Archiving
  BY DEF ReadArchive, Archiving
<1>1. /\ PC(w) \in InHand /\ PC(w) \in Open /\ PC(w) # "index"
      /\ loading[w] \in Loading /\ ArchiveInv(loading[w])
      /\ tmp \in Int /\ loadFaults \in Nat
      /\ Repo(w) \in Repositories /\ loading[w].nv \in Index[Repo(w)] /\ loading[w].nv \in NVs
      /\ tgz \in [NVs -> Repositories \cup {Nil, "partial"}]
  BY <1>0, InArchive
<1>2. UNCHANGED <<templateNS, asked, tgz, tmp, result, loads, loadFaults>>
  BY DEF ReadArchive
<1>3. PICK nv : nv = loading[w].nv
  OBVIOUS
<1>4. CASE tgz[nv] = Nil /\ SetEntry(w, nv, Failed("LoadingError"))
  <2>0. \A v \in Controllers \ {w} : loading'[v] = loading[v]
    BY <1>4, PutOthers DEF SetEntry
  <2>1. /\ \A v \in Controllers \ {w} : ArchiveInv(loading[v])'
        /\ tgz' \in [NVs -> Repositories \cup {Nil, "partial"}]
    BY <1>2, <2>0, ArchivesKept
  <2>2. /\ tmp' \in Int /\ loadFaults' \in Nat /\ loadFaults' >= loadFaults
        /\ tmp' - 1 >= tmp - Dirs(loading[w])
        /\ tmp' - 1 - 4 * loadFaults' <= tmp - Dirs(loading[w]) - 4 * loadFaults
    <3>1. Dirs(loading[w]) = 1
      BY <1>0 DEF Dirs, Open, PC
    <3> QED
      BY <1>1, <1>2, <3>1
  <2>3. TgzInv'
    <3>1. \A n \in NVs : tgz'[n] # Nil => tgz[n] # Nil /\ ~Holds(loading[w], n)
      BY <1>2, <1>3, <1>4 DEF Holds
    <3> QED
      BY <2>0, <2>2, <3>1, HeldKept
  <2>4. "LoadingError" # "Ready"
    OBVIOUS
  <2> QED
    BY <1>1, <1>2, <1>3, <1>4, <2>1, <2>2, <2>3, <2>4, FailedKeeps
<1>5. CASE Put(w, [loading[w] EXCEPT !.pc = "upload", !.docs = tgz[nv]]) /\ UNCHANGED entry
  <2>1. PICK l \in Loading :
          /\ Put(w, l) /\ l.pc = "upload" /\ l.cfg = loading[w].cfg /\ l.repos = loading[w].repos
          /\ l.repo = loading[w].repo /\ l.entries = loading[w].entries
          /\ l.nv = loading[w].nv /\ l.dir = loading[w].dir /\ l.docs = tgz[nv]
    <3>1. "upload" \in Archiving /\ tgz[nv] \in Repositories \cup {Nil, "partial"}
      BY <1>1, <1>3 DEF Archiving
    <3> QED
      BY <1>1, <1>5, <3>1, ArchiveLocals
  <2>2. ArchiveInv(l)'
    <3>1. ~SharesArchive(l.repo, l.nv) => l.docs = l.repo
      BY <1>0, <1>1, <1>3, <2>1 DEF ArchiveInv, PC
    <3> QED
      BY <2>1, <3>1 DEF ArchiveInv
  <2>3. l.pc \in Archiving
    BY <2>1 DEF Archiving
  <2> QED
    BY <1>0, <1>1, <1>2, <1>5, <2>1, <2>2, <2>3, ArchiveStepKeeps
<1>6. \/ tgz[nv] = Nil /\ SetEntry(w, nv, Failed("LoadingError"))
      \/ Put(w, [loading[w] EXCEPT !.pc = "upload", !.docs = tgz[nv]]) /\ UNCHANGED entry
  BY <1>3 DEF ReadArchive, TgzOf
<1> QED
  BY <1>4, <1>5, <1>6

(* Upload.                                                                 *)
LEMMA UploadKeeps ==
  ASSUME LoadingInv, NEW w \in Controllers, Upload(w)
  PROVE  LoadingInv'
<1>0. PC(w) = "upload" /\ PC(w) \in Archiving
  BY DEF Upload, Archiving
<1>1. /\ PC(w) \in InHand /\ PC(w) \in Open /\ PC(w) # "index"
      /\ loading[w] \in Loading /\ ArchiveInv(loading[w])
      /\ tmp \in Int /\ loadFaults \in Nat
      /\ Repo(w) \in Repositories /\ loading[w].nv \in Index[Repo(w)] /\ loading[w].nv \in NVs
      /\ tgz \in [NVs -> Repositories \cup {Nil, "partial"}]
      /\ DocumentationEnabled /\ loading[w].dir.docs # Nil
  BY <1>0, InArchive
<1>2. /\ UNCHANGED <<templateNS, asked, tmp, result, loads>>
      /\ tgz' = [tgz EXCEPT ![loading[w].nv] = Nil]
  BY DEF Upload, TgzOf
<1>3. /\ tgz' \in [NVs -> Repositories \cup {Nil, "partial"}]
      /\ \A nv \in NVs : nv # loading[w].nv => tgz'[nv] = tgz[nv]
  BY <1>1, <1>2
<1>4. \A v \in Controllers \ {w} : loading'[v] = loading[v]
  BY PutOthers DEF Upload, Ready, SetEntry
<1>5. \A v \in Controllers \ {w} : ArchiveInv(loading[v])'
  BY <1>0, <1>3, <1>4, OthersArchive
<1>8. loadFaults' \in Nat /\ loadFaults' >= loadFaults
  BY <1>1 DEF Upload, LoadFault
<1>9. TgzInv'
  <2>1. \A nv \in NVs : tgz'[nv] # Nil => tgz[nv] # Nil /\ ~Holds(loading[w], nv)
    BY <1>1, <1>2 DEF Holds
  <2> QED
    BY <1>4, <1>8, <2>1, HeldKept
<1>10. Dirs(loading[w]) = 1
  BY <1>0 DEF Dirs, Open, PC
<1>6. CASE Ready(w, loading[w].docs) /\ UNCHANGED loadFaults
  <2>1. PICK docs : docs = loading[w].docs
    OBVIOUS
  <2>2. ~SharesArchive(Repo(w), loading[w].nv) => docs = Repo(w)
    BY <1>0, <1>1, <2>1 DEF ArchiveInv, PC, Repo
  <2> QED
    BY <1>1, <1>2, <1>3, <1>5, <1>6, <1>9, <2>1, <2>2, ReadyKeeps
<1>7. CASE LoadFault /\ SetEntry(w, loading[w].nv, Failed("LoadingError"))
  <2>1. /\ tmp' \in Int /\ loadFaults' \in Nat /\ loadFaults' >= loadFaults
        /\ tmp' - 1 >= tmp - Dirs(loading[w])
        /\ tmp' - 1 - 4 * loadFaults' <= tmp - Dirs(loading[w]) - 4 * loadFaults
    BY <1>1, <1>2, <1>7, <1>10 DEF LoadFault
  <2>2. "LoadingError" # "Ready"
    OBVIOUS
  <2>3. PICK nv : nv = loading[w].nv
    OBVIOUS
  <2> QED
    BY <1>1, <1>2, <1>3, <1>5, <1>7, <1>9, <2>1, <2>2, <2>3, FailedKeeps
<1> QED
  BY <1>6, <1>7 DEF Upload

-----------------------------------------------------------------------------
(* Reconcile takes up a configuration: the Template service gets its       *)
(* namespace, or keeps the one that the other controller works in.         *)
LEMMA ReconcileKeeps ==
  ASSUME LoadingInv, NEW c \in Configs, Reconcile(c)
  PROVE  LoadingInv'
<1>0. PICK w \in Controllers : w = ControllerOf(c)
  BY DEF ControllerOf, Controllers
<1> DEFINE m == [NotLoading EXCEPT !.pc = "next", !.cfg = c, !.repos = RepositoriesOf(c)]
<1>1. /\ PC(w) = "idle" /\ loads' = loads + 1 /\ templateNS' = SetWorkingNamespace(c)
      /\ Put(w, m) /\ UNCHANGED <<asked, tgz, tmp, result, entry, loadFaults>>
  BY <1>0 DEF Reconcile
<1>2. m \in Loading /\ m.pc = "next" /\ m.cfg = c /\ m.repos = RepositoriesOf(c)
  BY NotLoadingFacts DEF Loading, RepositoriesOf
<1> HIDE DEF m
<1>3. PICK l \in Loading : Put(w, l) /\ l.pc = "next" /\ l.cfg = c /\ l.repos = RepositoriesOf(c)
  BY <1>1, <1>2
<1>4. /\ loading'[w] = l /\ \A v \in Controllers : v # w => loading'[v] = loading[v]
      /\ loading' \in [Controllers -> Loading]
  BY <1>3 DEF Put, LoadingInv, LoadingTypes
<1>5. LoadingTypes'
  <2>1. templateNS' \in Namespaces \cup {Cluster}
    BY <1>1, LoadingAssumption DEF SetWorkingNamespace, LoadingInv, LoadingTypes
  <2> QED
    BY <1>1, <1>4, <2>1 DEF LoadingInv, LoadingTypes
<1>6. \A v \in Controllers : WorkInv(v, loading[v])'
  <2>1. WorkInv(w, l)
    BY <1>0, <1>3 DEF WorkInv, Open, InHand, Archiving
  <2> SUFFICES ASSUME NEW v \in Controllers PROVE WorkInv(v, loading'[v])
    BY DEF WorkInv, Loads
  <2> QED
    BY <1>4, <2>1 DEF LoadingInv
<1>7. NamespaceInv'
  <2>1. CASE NamespaceOf[c] = Cluster
    <3>1. w # "AddonsController" /\ templateNS' = templateNS
      BY <1>0, <1>1, <2>1 DEF ControllerOf, SetWorkingNamespace
    <3> QED
      BY <1>4, <3>1 DEF LoadingInv, NamespaceInv, Controllers
  <2>2. CASE NamespaceOf[c] # Cluster
    <3>1. w = "AddonsController" /\ templateNS' = NamespaceOf[c]
      BY <1>0, <1>1, <2>2 DEF ControllerOf, SetWorkingNamespace
    <3> QED
      BY <1>3, <1>4, <3>1 DEF NamespaceInv
  <2> QED
    BY <2>1, <2>2
<1>8. \A v \in Controllers : ArchiveInv(loading[v])'
  <2>1. \A v \in Controllers \ {w} : ArchiveInv(loading[v])'
    BY <1>1, <1>4, ArchivesKept
  <2>2. ArchiveInv(l)'
    BY <1>3 DEF ArchiveInv, Archiving
  <2> QED
    BY <1>4, <2>1, <2>2
<1>9. EntryInv' /\ SecretOfConfiguration' /\ DocsOfAddon'
  BY <1>1 DEF LoadingInv, EntryInv, SecretOfConfiguration, DocsOfAddon
<1>10. TmpInv'
  <2>1. \A v \in Controllers : Dirs(loading'[v]) = Dirs(loading[v])
    BY <1>1, <1>3, <1>4 DEF Dirs, Open, PC
  <2> QED
    BY <1>1, <2>1 DEF LoadingInv, TmpInv, Controllers
<1>11. TgzInv'
  <2>1. loadFaults' \in Nat /\ loadFaults' >= loadFaults /\ UNCHANGED tgz
    BY <1>1 DEF LoadingInv, LoadingTypes
  <2> QED
    BY <1>1, <1>4, <2>1, StillHeld DEF PC
<1> QED
  BY <1>5, <1>6, <1>7, <1>8, <1>9, <1>10, <1>11 DEF LoadingInv

(* What is forgotten is not wrong.                                         *)
LEMMA ForgetFacts ==
  ASSUME LoadingInv, NEW C, Forget(C)
  PROVE  /\ asked' \in [Repositories -> Namespaces \cup {Cluster, Nil}]
         /\ DOMAIN entry' = Repositories /\ \A r \in Repositories : DOMAIN entry'[r] = NVs
         /\ EntryInv' /\ SecretOfConfiguration' /\ DocsOfAddon'
<1>0. LoadingTypes
  BY DEF LoadingInv
<1>1. /\ asked' \in [Repositories -> Namespaces \cup {Cluster, Nil}]
      /\ \A r \in Repositories : asked'[r] = Nil \/ asked'[r] = asked[r]
  BY <1>0 DEF Forget, LoadingTypes
<1>2. DOMAIN entry' = Repositories /\ \A r \in Repositories : DOMAIN entry'[r] = NVs
  BY <1>0 DEF Forget, LoadingTypes
<1>3. \A r \in Repositories, nv \in NVs : entry'[r][nv] = NotLoaded \/ entry'[r][nv] = entry[r][nv]
  BY <1>0 DEF Forget, LoadingTypes
<1>4. NotLoaded.status # "Ready"
  BY LoadingAssumption DEF NotLoaded
<1>5. \A r \in Repositories, nv \in NVs :
        entry'[r][nv].status = "Ready" => entry'[r][nv] = entry[r][nv]
  BY <1>3, <1>4
<1>6. SecretOfConfiguration'
  BY <1>1 DEF LoadingInv, SecretOfConfiguration
<1>7. EntryInv'
  BY <1>5 DEF LoadingInv, EntryInv
<1>8. DocsOfAddon'
  BY <1>5 DEF LoadingInv, DocsOfAddon
<1> QED
  BY <1>1, <1>2, <1>6, <1>7, <1>8

(* EndLoad.                                                                *)
LEMMA EndKeeps ==
  ASSUME LoadingInv, NEW w \in Controllers, EndLoad(w)
  PROVE  LoadingInv'
<1>0. /\ PC(w) = "next" /\ Put(w, NotLoading) /\ Forget({loading[w].cfg})
      /\ UNCHANGED <<templateNS, tgz, tmp, loads, loadFaults>>
  BY DEF EndLoad
<1>1. /\ asked' \in [Repositories -> Namespaces \cup {Cluster, Nil}]
      /\ DOMAIN entry' = Repositories /\ \A r \in Repositories : DOMAIN entry'[r] = NVs
      /\ EntryInv' /\ SecretOfConfiguration' /\ DocsOfAddon'
  BY <1>0, ForgetFacts
<1>2. /\ \A v \in Controllers \ {w} : ArchiveInv(loading[v])'
      /\ tgz' \in [NVs -> Repositories \cup {Nil, "partial"}]
  BY <1>0, PutOthers, ArchivesKept
<1>3. PICK l \in Loading : /\ l = NotLoading /\ l.pc = "idle" /\ Dirs(l) = 0
                           /\ WorkInv(w, l)
  BY NotLoadingFacts
<1>4. Put(w, l) /\ ArchiveInv(l)'
  BY <1>0, <1>3 DEF ArchiveInv, Archiving
<1>5. tmp \in Int /\ loadFaults \in Nat
  BY DEF LoadingInv, LoadingTypes
<1>6. Dirs(loading[w]) = 0
  BY <1>0 DEF Dirs, Open, PC
<1>7. /\ tmp' \in Int /\ loadFaults' \in Nat /\ loadFaults' >= loadFaults
      /\ tmp' - Dirs(l) >= tmp - Dirs(loading[w])
      /\ tmp' - Dirs(l) - 4 * loadFaults' <= tmp - Dirs(loading[w]) - 4 * loadFaults
  BY <1>0, <1>3, <1>5, <1>6
<1>8. UNCHANGED <<templateNS, loads>>
  BY <1>0
<1>9. TgzInv'
  BY <1>0, <1>7, PutOthers, StillHeld DEF PC
<1> QED
  BY <1>1, <1>2, <1>3, <1>4, <1>7, <1>8, <1>9, WorkKeeps

(* A restart leaves the directories of both controllers.                   *)
LEMMA RestartKeeps ==
  ASSUME LoadingInv, NEW w \in Controllers, Restart(w)
  PROVE  LoadingInv'
<1>0. /\ loadFaults' = loadFaults + 1 /\ loading' = [v \in Controllers |-> NotLoading]
      /\ templateNS' = Cluster /\ Forget(Configs) /\ UNCHANGED <<tgz, tmp, loads>>
  BY DEF Restart, LoadFault
<1>1. /\ asked' \in [Repositories -> Namespaces \cup {Cluster, Nil}]
      /\ DOMAIN entry' = Repositories /\ \A r \in Repositories : DOMAIN entry'[r] = NVs
      /\ EntryInv' /\ SecretOfConfiguration' /\ DocsOfAddon'
  BY <1>0, ForgetFacts
<1>2. \A v \in Controllers : loading'[v] = NotLoading
  BY <1>0
<1>3. loading' \in [Controllers -> Loading]
  BY <1>0, NotLoadingFacts
<1>4. LoadingTypes'
  BY <1>0, <1>1, <1>3 DEF LoadingInv, LoadingTypes
<1>5. \A v \in Controllers : WorkInv(v, loading[v])'
  <2> SUFFICES ASSUME NEW v \in Controllers PROVE WorkInv(v, loading'[v])
    BY DEF WorkInv, Loads
  <2> QED
    BY <1>2, NotLoadingFacts
<1>6. NamespaceInv'
  BY <1>2, NotLoadingFacts DEF NamespaceInv, Controllers
<1>7. \A v \in Controllers : ArchiveInv(loading[v])'
  BY <1>2, NotLoadingFacts DEF ArchiveInv, Archiving
<1>8. TmpInv'
  <2> DEFINE A == "AddonsController"
             C == "ClusterAddonsController"
  <2>1. /\ tmp \in Int /\ loadFaults \in Nat
        /\ Dirs(loading[A]) + Dirs(loading[C]) <= tmp
        /\ tmp <= Dirs(loading[A]) + Dirs(loading[C]) + 4 * loadFaults
    BY DEF LoadingInv, LoadingTypes, TmpInv
  <2>2. Dirs(loading[A]) \in {0, 1, 2} /\ Dirs(loading[C]) \in {0, 1, 2}
    BY DirsFacts
  <2>3. 0 + 0 <= tmp' /\ tmp' <= 0 + 0 + 4 * loadFaults'
    BY <1>0, <2>1, <2>2
  <2>4. Dirs(loading'[A]) = 0 /\ Dirs(loading'[C]) = 0
    BY <1>2, NotLoadingFacts DEF Controllers
  <2> QED
    BY <2>3, <2>4 DEF TmpInv
<1>9. TgzInv'
  BY <1>0 DEF LoadingInv, LoadingTypes, TgzInv
<1> QED
  BY <1>1, <1>4, <1>5, <1>6, <1>7, <1>8, <1>9 DEF LoadingInv

(* Nothing of loading changes.                                             *)
LEMMA LoadingUnchanged ==
  ASSUME LoadingInv, UNCHANGED loadingVars
  PROVE  LoadingInv'
<1>1. UNCHANGED <<templateNS, asked, tgz, tmp, loading, result, entry, loads, loadFaults>>
  BY DEF loadingVars
<1>2. LoadingTypes' /\ NamespaceInv' /\ TmpInv' /\ TgzInv' /\ EntryInv'
  BY <1>1 DEF LoadingInv, LoadingTypes, NamespaceInv, TmpInv, TgzInv, EntryInv
<1>3. SecretOfConfiguration' /\ DocsOfAddon'
  BY <1>1 DEF LoadingInv, SecretOfConfiguration, DocsOfAddon
<1>4. \A w \in Controllers : WorkInv(w, loading[w])'
  BY <1>1 DEF LoadingInv, WorkInv, Loads
<1>5. \A w \in Controllers : ArchiveInv(loading[w])'
  BY <1>1 DEF LoadingInv, ArchiveInv
<1> QED
  BY <1>2, <1>3, <1>4, <1>5 DEF LoadingInv

(* The initial state.                                                      *)
LEMMA LoadingAtFirst ==
  ASSUME LoadingInit
  PROVE  LoadingInv
<1>1. /\ \A w \in Controllers : loading[w] = NotLoading
      /\ loading \in [Controllers -> Loading]
  BY NotLoadingFacts DEF LoadingInit
<1>2. LoadingTypes
  BY <1>1 DEF LoadingInit, LoadingTypes
<1>3. \A w \in Controllers : WorkInv(w, loading[w]) /\ ArchiveInv(loading[w])
  BY <1>1, NotLoadingFacts
<1>4. NamespaceInv
  BY <1>1, NotLoadingFacts DEF NamespaceInv, Controllers
<1>5. TmpInv
  <2>1. Dirs(loading["AddonsController"]) = 0 /\ Dirs(loading["ClusterAddonsController"]) = 0
    BY <1>1, NotLoadingFacts DEF Controllers
  <2>2. tmp = 0 /\ loadFaults = 0
    BY DEF LoadingInit
  <2> QED
    BY <2>1, <2>2 DEF TmpInv
<1>6. \A r \in Repositories, nv \in NVs : entry[r][nv].status # "Ready"
  BY LoadingAssumption DEF LoadingInit, NotLoaded
<1>7. EntryInv /\ DocsOfAddon
  BY <1>6 DEF EntryInv, DocsOfAddon
<1>8. SecretOfConfiguration /\ TgzInv
  BY DEF LoadingInit, SecretOfConfiguration, TgzInv
<1> QED
  BY <1>2, <1>3, <1>4, <1>5, <1>7, <1>8 DEF LoadingInv

-----------------------------------------------------------------------------
(* What the storage gives back of an addon.                                *)
StoredFlag(flag) == IF driver = "etcd" THEN gob(flag) ELSE flag

(* The fields of what is stored.                                           *)
LEMMA StoredFacts ==
  ASSUME NEW ids, NEW ps, NEW bindable, NEW once, NEW docs, DOMAIN ps = ids,
         \A i \in ids : ps[i] = [bindable |-> ps[i].bindable, free |-> ps[i].free,
                                 template |-> ps[i].template, schemas |-> ps[i].schemas],
         driver \in {"etcd", "memory"}, NEW a,
         a = Stored(driver, [bindable |-> bindable, once |-> once, docs |-> docs, plans |-> ps])
  PROVE  /\ a.bindable = bindable /\ DOMAIN a.plans = ids
         /\ \A i \in ids : /\ a.plans[i].bindable = StoredFlag(ps[i].bindable)
                           /\ a.plans[i].template = ps[i].template
                           /\ a.plans[i].schemas = ps[i].schemas
                           /\ driver = "memory" => a.plans[i].free = ps[i].free
<1> DEFINE m == [bindable |-> bindable, once |-> once, docs |-> docs, plans |-> ps]
<1>1. m.plans = ps /\ m.bindable = bindable
  OBVIOUS
<1>2. CASE driver = "memory"
  <2>1. a = m
    BY <1>2 DEF Stored
  <2>2. a.plans = ps /\ a.bindable = bindable
    BY <2>1
  <2> QED
    BY <1>2, <2>2 DEF StoredFlag
<1>3. CASE driver = "etcd"
  <2> DEFINE qs == [i \in ids |-> [ps[i] EXCEPT !.bindable = gob(@), !.free = "unset"]]
  <2>1. a.plans = qs /\ a.bindable = bindable
    BY <1>3 DEF Stored, decodeDSOToDM
  <2>2. \A i \in ids : /\ qs[i].bindable = gob(ps[i].bindable)
                       /\ qs[i].template = ps[i].template
                       /\ qs[i].schemas = ps[i].schemas
    <3> SUFFICES ASSUME NEW i \in ids
                 PROVE  /\ qs[i].bindable = gob(ps[i].bindable)
                        /\ qs[i].template = ps[i].template
                        /\ qs[i].schemas = ps[i].schemas
      OBVIOUS
    <3>1. PICK b, f, t, s : ps[i] = [bindable |-> b, free |-> f, template |-> t, schemas |-> s]
      OBVIOUS
    <3>2. qs[i] = [ps[i] EXCEPT !.bindable = gob(@), !.free = "unset"]
      OBVIOUS
    <3>3. PICK r : r = [bindable |-> b, free |-> f, template |-> t, schemas |-> s]
      OBVIOUS
    <3> HIDE DEF qs
    <3>4. qs[i] = [r EXCEPT !.bindable = gob(r.bindable), !.free = "unset"]
      BY <3>1, <3>2, <3>3
    <3>5. r.bindable = b
      BY <3>3
    <3>6. PICK g : g = gob(b)
      OBVIOUS
    <3>7. qs[i] = [r EXCEPT !.bindable = g, !.free = "unset"]
      BY <3>4, <3>5, <3>6
    <3>8. qs[i] = [bindable |-> g, free |-> "unset", template |-> t, schemas |-> s]
      BY <3>3, <3>7
    <3> QED
      BY <3>1, <3>8, <3>6
  <2>3. DOMAIN qs = ids
    OBVIOUS
  <2> HIDE DEF qs
  <2> QED
    BY <1>3, <2>1, <2>2, <2>3 DEF StoredFlag
<1> QED
  BY <1>2, <1>3

(* Directories of plans with as many IDs have one each.                    *)
LEMMA OneDirectory ==
  ASSUME NEW D, IsFiniteSet(D), NEW id, DOMAIN id = D,
         Cardinality({id[n] : n \in D}) = Cardinality(D),
         NEW n \in D, NEW k \in D, id[n] = id[k]
  PROVE  n = k
<1> DEFINE ids == {id[j] : j \in D}
           f == [j \in D |-> id[j]]
<1>1. f \in Surjection(D, ids)
  BY DEF Surjection
<1>2. f \in Injection(D, ids)
  BY <1>1, FS_Surjection
<1>3. \A i, j \in D : f[i] = f[j] => i = j
  BY <1>2 DEF Injection, IsInjective
<1> QED
  BY <1>3

(* The model of an addon, and what is stored of it, for a directory that   *)
(* loads: every plan is there, and by its ID if the IDs differ.            *)
LEMMA ModelFacts ==
  ASSUME NEW d, IsDirectory(d), Loads(d), NEW m \in ToModel(d), NEW a, a = Stored(driver, m),
         driver \in {"etcd", "memory"}
  PROVE  /\ a.bindable = d.bindable
         /\ DOMAIN a.plans = {d.plans[n].id : n \in DOMAIN d.plans}
         /\ \A i \in DOMAIN a.plans :
              \E n \in DOMAIN d.plans : a.plans[i].template = d.plans[n].template
         /\ Cardinality(DOMAIN a.plans) = Cardinality(DOMAIN d.plans) =>
              \A n \in DOMAIN d.plans :
                LET p == d.plans[n] IN
                /\ a.plans[p.id].schemas = {t \in SchemaTypes : p.schemas[t] # Missing}
                /\ a.plans[p.id].template = p.template
                /\ driver = "memory" => a.plans[p.id].free = p.free
                /\ a.plans[p.id].bindable = StoredFlag(p.bindable)
<1> DEFINE D == DOMAIN d.plans
           id == [n \in D |-> d.plans[n].id]
           ids == {d.plans[n].id : n \in D}
<1>1. PICK f \in [ids -> D] :
        /\ \A i \in ids : d.plans[f[i]].id = i
        /\ m = [bindable |-> d.bindable, once |-> d.once, docs |-> d.docs,
                plans |-> [i \in ids |-> PlanToModel(d.plans[f[i]])]]
  BY DEF ToModel
<1> DEFINE ps == [i \in ids |-> PlanToModel(d.plans[f[i]])]
<1>2. DOMAIN ps = ids
  OBVIOUS
<1>3. \A i \in ids : /\ ps[i].bindable = d.plans[f[i]].bindable /\ ps[i].free = d.plans[f[i]].free
                     /\ ps[i].template = d.plans[f[i]].template
                     /\ ps[i].schemas = {t \in SchemaTypes : d.plans[f[i]].schemas[t] # Missing}
                     /\ ps[i] = [bindable |-> ps[i].bindable, free |-> ps[i].free,
                                 template |-> ps[i].template, schemas |-> ps[i].schemas]
  BY DEF PlanToModel
<1>4. a = Stored(driver, [bindable |-> d.bindable, once |-> d.once, docs |-> d.docs, plans |-> ps])
  BY <1>1
<1>5. \A n \in D : d.plans[n].id \in ids
  OBVIOUS
<1> HIDE DEF ps, ids
<1>6. /\ a.bindable = d.bindable /\ DOMAIN a.plans = ids
      /\ \A i \in ids : /\ a.plans[i].bindable = StoredFlag(ps[i].bindable)
                        /\ a.plans[i].template = ps[i].template
                        /\ a.plans[i].schemas = ps[i].schemas
                        /\ driver = "memory" => a.plans[i].free = ps[i].free
  BY <1>2, <1>3, <1>4, StoredFacts
<1>7. ASSUME Cardinality(ids) = Cardinality(D), NEW n \in D
      PROVE  f[d.plans[n].id] = n
  <2>1. IsFiniteSet(D)
    <3>1. D \subseteq PlanDirs
      BY DEF IsDirectory, Loads, createsForm
    <3> QED
      BY <3>1, FormAssumption, FS_Subset
  <2>2. DOMAIN id = D /\ \A k \in D : id[k] = d.plans[k].id
    OBVIOUS
  <2>3. ids = {id[k] : k \in D}
    BY <2>2 DEF ids
  <2>4. f[d.plans[n].id] \in D /\ id[f[d.plans[n].id]] = id[n]
    BY <1>1, <1>5, <2>2
  <2> HIDE DEF D, id
  <2> QED
    BY <1>7, <2>1, <2>2, <2>3, <2>4, OneDirectory
<1>8. ASSUME Cardinality(ids) = Cardinality(D), NEW n \in D
      PROVE  LET p == d.plans[n] IN
             /\ a.plans[p.id].schemas = {t \in SchemaTypes : p.schemas[t] # Missing}
             /\ a.plans[p.id].template = p.template
             /\ driver = "memory" => a.plans[p.id].free = p.free
             /\ a.plans[p.id].bindable = StoredFlag(p.bindable)
  <2>1. f[d.plans[n].id] = n /\ d.plans[n].id \in ids
    BY <1>5, <1>7, <1>8
  <2>2. PICK i \in ids : i = d.plans[n].id /\ f[i] = n
    BY <2>1
  <2>3. /\ ps[i].bindable = d.plans[n].bindable /\ ps[i].free = d.plans[n].free
        /\ ps[i].template = d.plans[n].template
        /\ ps[i].schemas = {t \in SchemaTypes : d.plans[n].schemas[t] # Missing}
    BY <1>3, <2>2
  <2> QED
    BY <1>6, <2>2, <2>3
<1>9. DOMAIN a.plans = {d.plans[n].id : n \in DOMAIN d.plans}
  BY <1>6 DEF ids
<1>10. \A i \in DOMAIN a.plans : \E n \in DOMAIN d.plans : a.plans[i].template = d.plans[n].template
  <2>1. ASSUME NEW i \in ids
        PROVE  \E n \in DOMAIN d.plans : a.plans[i].template = d.plans[n].template
    <3>1. PICK n \in D : n = f[i]
      BY <1>1
    <3>2. a.plans[i].template = d.plans[n].template
      BY <1>3, <1>6, <3>1
    <3> QED
      BY <3>1, <3>2
  <2> QED
    BY <1>6, <2>1
<1> QED
  BY <1>6, <1>8, <1>9, <1>10

(* What OfferedAsWritten says of one addon.                                *)
AsWritten(d, a) ==
  /\ DOMAIN Convert(a).plans = {d.plans[n].id : n \in DOMAIN d.plans}
  /\ Cardinality(DOMAIN Convert(a).plans) = Cardinality(DOMAIN d.plans) =>
       \A n \in DOMAIN d.plans :
         LET p == d.plans[n]
             o == Convert(a).plans[p.id] IN
         /\ o.schemas = {t \in SchemaTypes : p.schemas[t] # Missing}
         /\ a.plans[p.id].template = p.template
         /\ driver = "memory" => o.free = p.free
         /\ Effective(o.bindable, Convert(a).bindable) = isBindable(a, p.id)

(* It holds of what the storage gives back of an addon that loads.         *)
LEMMA StoredIsAsWritten ==
  ASSUME NEW d, NEW a, IsDirectory(d), Loads(d), driver \in {"etcd", "memory"},
         \E m \in ToModel(d) : a = Stored(driver, m)
  PROVE  AsWritten(d, a)
<1> DEFINE dirs == DOMAIN d.plans
           offer == Convert(a)
<1>3. /\ a.bindable = d.bindable
      /\ DOMAIN a.plans = {d.plans[n].id : n \in dirs}
      /\ Cardinality(DOMAIN a.plans) = Cardinality(dirs) =>
           \A n \in dirs :
             LET p == d.plans[n] IN
             /\ a.plans[p.id].schemas = {t \in SchemaTypes : p.schemas[t] # Missing}
             /\ a.plans[p.id].template = p.template
             /\ driver = "memory" => a.plans[p.id].free = p.free
             /\ a.plans[p.id].bindable = StoredFlag(p.bindable)
  BY ModelFacts
<1>4. /\ offer.bindable = a.bindable /\ DOMAIN offer.plans = DOMAIN a.plans
      /\ \A i \in DOMAIN a.plans : /\ offer.plans[i].bindable = a.plans[i].bindable
                                   /\ offer.plans[i].free = a.plans[i].free
                                   /\ offer.plans[i].schemas = a.plans[i].schemas
  BY DEF Convert
<1> HIDE DEF offer
<1>5. ASSUME Cardinality(DOMAIN offer.plans) = Cardinality(dirs), NEW n \in dirs
      PROVE  LET p == d.plans[n]
                 o == offer.plans[p.id] IN
             /\ o.schemas = {t \in SchemaTypes : p.schemas[t] # Missing}
             /\ a.plans[p.id].template = p.template
             /\ driver = "memory" => o.free = p.free
             /\ Effective(o.bindable, offer.bindable) = isBindable(a, p.id)
  <2>1. PICK p, i : p = d.plans[n] /\ i = p.id
    OBVIOUS
  <2>2. /\ a.plans[i].schemas = {t \in SchemaTypes : p.schemas[t] # Missing}
        /\ a.plans[i].template = p.template
        /\ driver = "memory" => a.plans[i].free = p.free
        /\ a.plans[i].bindable = StoredFlag(p.bindable)
    BY <1>3, <1>4, <1>5, <2>1
  <2>3. i \in DOMAIN a.plans
    BY <1>3, <2>1
  <2>4. p.bindable \in Flags /\ d.bindable \in BOOLEAN
    BY <1>5, <2>1 DEF IsDirectory, Loads, createsForm, Plan
  <2>5. StoredFlag(p.bindable) \in Flags
    BY <2>4 DEF StoredFlag, gob, Flags
  <2>6. PICK flag \in Flags : flag = a.plans[i].bindable
    BY <2>2, <2>5
  <2>7. Effective(offer.plans[i].bindable, offer.bindable) = isBindable(a, i)
    <3>1. offer.plans[i].bindable = flag /\ offer.bindable = d.bindable /\ a.bindable = d.bindable
      BY <1>3, <1>4, <2>3, <2>6
    <3>2. CASE d.bindable = TRUE
      BY <2>6, <3>1, <3>2 DEF isBindable, Effective, Flags
    <3>3. CASE d.bindable = FALSE
      BY <2>6, <3>1, <3>3 DEF isBindable, Effective, Flags
    <3> QED
      BY <2>4, <3>2, <3>3
  <2> QED
    BY <1>4, <2>1, <2>2, <2>3, <2>6, <2>7
<1>6. /\ DOMAIN offer.plans = {d.plans[n].id : n \in dirs}
      /\ Cardinality(DOMAIN offer.plans) = Cardinality(dirs) =>
           \A n \in dirs :
             LET p == d.plans[n]
                 o == offer.plans[p.id] IN
             /\ o.schemas = {t \in SchemaTypes : p.schemas[t] # Missing}
             /\ a.plans[p.id].template = p.template
             /\ driver = "memory" => o.free = p.free
             /\ Effective(o.bindable, offer.bindable) = isBindable(a, p.id)
  BY <1>3, <1>4, <1>5
<1> QED
  BY <1>6 DEF AsWritten, offer

(* What is served is offered as it was written.                            *)
LEMMA ServedIsAsWritten ==
  ASSUME ServedInv
  PROVE  OfferedAsWritten
<1>1. ASSUME NEW c \in Configs, NEW nv \in NVs, served[c][nv] # NotServed
      PROVE  AsWritten(served[c][nv].dir, served[c][nv].addon)
  BY <1>1, StoredIsAsWritten DEF ServedInv, ServedOK
<1> QED
  BY <1>1 DEF OfferedAsWritten, AsWritten

-----------------------------------------------------------------------------
(* What is published was loaded.                                           *)
LEMMA OfferFacts ==
  ASSUME EntryInv, NEW c \in Configs, NEW nv \in NVs, Offer(c, nv) # NotServed
  PROVE  LET o == Offer(c, nv) IN
         /\ IsDirectory(o.dir) /\ Loads(o.dir)
         /\ \E m \in ToModel(o.dir) : o.addon = Stored(driver, m)
<1> DEFINE rs == {r \in RepositoriesOf(c) : nv \in Index[r]}
<1> DEFINE q == CHOOSE r \in rs : TRUE
<1>1. /\ Complete(c) /\ rs # {}
      /\ Offer(c, nv) = [dir |-> entry[q][nv].dir, addon |-> Stored(driver, entry[q][nv].addon)]
  BY DEF Offer
<1>2. q \in rs
  BY <1>1
<1> HIDE DEF q
<1>3. q \in Repositories /\ entry[q][nv].status = "Ready"
  BY <1>1, <1>2 DEF Complete, RepositoriesOf
<1>4. PICK d, m : d = entry[q][nv].dir /\ m = entry[q][nv].addon
  OBVIOUS
<1>5. d \in Contents[q] /\ Loads(d) /\ m \in ToModel(d)
  BY <1>3, <1>4 DEF EntryInv
<1>6. IsDirectory(d)
  BY <1>3, <1>5, LoadingAssumption
<1>7. Offer(c, nv).dir = d /\ Offer(c, nv).addon = Stored(driver, m)
  BY <1>1, <1>4
<1> QED
  BY <1>5, <1>6, <1>7

(* The storage does not change.                                            *)
LEMMA ServedUnchanged ==
  ASSUME ServedInv, UNCHANGED <<driver, served>>
  PROVE  ServedInv'
  BY DEF ServedInv, ServedOK, Loads, NotServed

(* Publish.                                                                *)
LEMMA PublishKeeps ==
  ASSUME LoadingInv, ServedInv, NEW w \in Controllers, Publish(w)
  PROVE  ServedInv'
<1>1. PICK k \in Configs : k = loading[w].cfg
  <2>1. PC(w) = "next"
    BY DEF Publish, EndLoad
  <2> QED
    BY <2>1, AtWork
<1>2. /\ served' \in {served, [served EXCEPT ![k] = [nv \in NVs |-> Offer(k, nv)]]}
      /\ UNCHANGED driver
  BY <1>1 DEF Publish
<1> SUFFICES ASSUME served' = [served EXCEPT ![k] = [nv \in NVs |-> Offer(k, nv)]]
             PROVE  ServedInv'
  BY <1>2, ServedUnchanged
<1>3. /\ DOMAIN served' = Configs
      /\ \A c \in Configs, nv \in NVs :
           served'[c][nv] = IF c = k THEN Offer(k, nv) ELSE served[c][nv]
  BY <1>2 DEF ServedInv
<1>4. ASSUME NEW c \in Configs, NEW nv \in NVs, served'[c][nv] # NotServed
      PROVE  LET o == served'[c][nv] IN
             /\ IsDirectory(o.dir) /\ Loads(o.dir)
             /\ \E m \in ToModel(o.dir) : o.addon = Stored(driver, m)
  <2>1. CASE c = k
    BY <1>3, <1>4, <2>1, OfferFacts DEF LoadingInv
  <2>2. CASE c # k
    BY <1>3, <1>4, <2>2 DEF ServedInv, ServedOK
  <2> QED
    BY <2>1, <2>2
<1>5. ServedOK'
  BY <1>2, <1>4 DEF ServedOK, Loads, NotServed
<1> QED
  BY <1>2, <1>3, <1>5 DEF ServedInv

(* The inductive invariant.                                                *)
OfferInv == LoadingInv /\ ServedInv

(* Every step keeps the inductive invariant ...                            *)
LEMMA OfferStep ==
  ASSUME OfferInv, [OfferNext]_offerVars
  PROVE  OfferInv'
<1> USE DEF OfferInv
<1>1. CASE \E c \in Configs : Reconcile(c) /\ UNCHANGED <<resolverVars, driver, served, changes>>
  BY <1>1, ReconcileKeeps, ServedUnchanged
<1>2. ASSUME NEW w \in Controllers, LoadStep(w) \/ Restart(w),
             UNCHANGED <<resolverVars, driver, served, changes>>
      PROVE  OfferInv'
  <2>1. ServedInv'
    BY <1>2, ServedUnchanged
  <2>2. LoadingInv'
    <3>1. CASE loadRepositories(w)
      BY <3>1, NextKeeps
    <3>2. CASE TemplateURL(w)
      BY <3>2, TemplateKeeps
    <3>3. CASE NewGetter(w)
      BY <3>3, GetterKeeps
    <3>4. CASE GetIndex(w) \/ endIndex(w)
      BY <3>4, IndexKeeps
    <3>5. CASE GetAddon(w)
      BY <3>5, AddonKeeps
    <3>6. CASE AddonDocURL(w)
      BY <3>6, DocURLKeeps
    <3>7. CASE Archive(w) \/ WriteArchive(w)
      BY <3>7, WriteKeeps
    <3>8. CASE ReadArchive(w)
      BY <3>8, ReadKeeps
    <3>9. CASE Upload(w)
      BY <3>9, UploadKeeps
    <3>11. CASE Load(w)
      BY <3>11, LoadKeeps
    <3>10. CASE Restart(w)
      BY <3>10, RestartKeeps
    <3> QED
      BY <1>2, <3>1, <3>2, <3>3, <3>4, <3>5, <3>6, <3>7, <3>8, <3>9, <3>10, <3>11 DEF LoadStep
  <2> QED
    BY <2>1, <2>2
<1>3. CASE \E w \in Controllers : Publish(w)
  <2>1. PICK w \in Controllers : Publish(w)
    BY <1>3
  <2>2. LoadingInv'
    BY <2>1, EndKeeps DEF Publish
  <2> QED
    BY <2>1, <2>2, PublishKeeps
<1>4. CASE UNCHANGED <<loadingVars, driver, served>>
  BY <1>4, LoadingUnchanged, ServedUnchanged
<1>5. ASSUME NEW b \in Binders,
             BindPlan(b) \/ (ResolveStep(b) /\ UNCHANGED <<loadingVars, driver, served, changes>>)
      PROVE  UNCHANGED <<loadingVars, driver, served>>
  BY <1>5 DEF BindPlan
<1>6. CASE Change
  BY <1>4, <1>6 DEF Change
<1>7. CASE UNCHANGED offerVars
  BY <1>4, <1>7 DEF offerVars
<1> QED
  BY <1>1, <1>2, <1>3, <1>4, <1>5, <1>6, <1>7 DEF OfferNext

(* ... which the initial state satisfies.                                  *)
LEMMA OfferAtFirst ==
  ASSUME OfferInit
  PROVE  OfferInv
<1>1. LoadingInv
  BY LoadingAtFirst DEF OfferInit
<1>2. driver \in {"etcd", "memory"} /\ DOMAIN served = Configs
  BY OfferAssumption DEF OfferInit
<1>3. \A c \in Configs, nv \in NVs : served[c][nv] = NotServed
  BY DEF OfferInit
<1>4. ServedOK
  BY <1>3 DEF ServedOK
<1> QED
  BY <1>1, <1>2, <1>4 DEF OfferInv, ServedInv

(* The inductive invariant holds in every reachable state.                 *)
THEOREM Offer_Invariant == OfferSpec => []OfferInv
<1>1. OfferInit => OfferInv
  BY OfferAtFirst
<1>2. OfferInv /\ [OfferNext]_offerVars => OfferInv'
  BY OfferStep
<1> QED
  BY <1>1, <1>2, PTL DEF OfferSpec

(* TemplateURL asks for the Secret in the namespace of the configuration   *)
(* or the one that secretRef names, whatever the other controller, which   *)
(* has the same Template service, does meanwhile.                          *)
THEOREM Offer_SecretOfConfiguration == OfferSpec => []SecretOfConfiguration
<1>1. OfferInv => SecretOfConfiguration
  BY DEF OfferInv, LoadingInv
<1> QED
  BY <1>1, Offer_Invariant, PTL

(* The documentation that is uploaded for an addon is its own and whole,   *)
(* unless both controllers have an addon of that name and version.         *)
THEOREM Offer_DocsOfAddon == OfferSpec => []DocsOfAddon
<1>1. OfferInv => DocsOfAddon
  BY DEF OfferInv, LoadingInv
<1> QED
  BY <1>1, Offer_Invariant, PTL

(* The temporary directory is empty between loads while nothing fails, and *)
(* every error, or restart at any step, leaves four directories in it at   *)
(* most, whatever both controllers were loading.                           *)
THEOREM Offer_LittleIsLeft == OfferSpec => []LittleIsLeft
<1>1. ASSUME OfferInv
      PROVE  LittleIsLeft
  <2> DEFINE A == "AddonsController"
             C == "ClusterAddonsController"
  <2>1. /\ tmp \in Int /\ loadFaults \in Nat
        /\ Dirs(loading[A]) + Dirs(loading[C]) <= tmp
        /\ tmp <= Dirs(loading[A]) + Dirs(loading[C]) + 4 * loadFaults
    BY <1>1 DEF OfferInv, LoadingInv, LoadingTypes, TmpInv
  <2>2. Dirs(loading[A]) \in {0, 1, 2} /\ Dirs(loading[C]) \in {0, 1, 2}
    BY DirsFacts
  <2>3. tmp >= 0
    BY <2>1, <2>2
  <2>4. ASSUME \A w \in Controllers : PC(w) = "idle"
        PROVE  tmp <= 4 * loadFaults /\ (loadFaults = 0 => \A nv \in NVs : tgz[nv] = Nil)
    <3>1. Dirs(loading[A]) = 0 /\ Dirs(loading[C]) = 0
      BY <2>4 DEF Controllers, PC, Dirs, Open
    <3>2. tmp <= 4 * loadFaults
      BY <2>1, <3>1
    <3>3. \A w \in Controllers, nv \in NVs : ~Holds(loading[w], nv)
      BY <2>4 DEF PC, Holds
    <3>4. loadFaults = 0 => \A nv \in NVs : tgz[nv] = Nil
      BY <1>1, <3>3 DEF OfferInv, LoadingInv, TgzInv
    <3> QED
      BY <3>2, <3>4
  <2> QED
    BY <2>3, <2>4 DEF LittleIsLeft
<1> QED
  BY <1>1, Offer_Invariant, PTL

(* What the catalog offers has the plans, schemas, bind.yaml and flags     *)
(* that the author of an addon has written, through the loader, ToModel,   *)
(* the storage of either driver and Convert, and the catalog and Bind      *)
(* agree on what can be bound.                                             *)
THEOREM Offer_OfferedAsWritten == OfferSpec => []OfferedAsWritten
<1>1. OfferInv => OfferedAsWritten
  BY ServedIsAsWritten DEF OfferInv
<1> QED
  BY <1>1, Offer_Invariant, PTL

-----------------------------------------------------------------------------
(* Resolve, against its rules.                                             *)

(* Of the first p sources, j is the last one that has k.                   *)
LastWith(bind, p, k, j) ==
  /\ j \in 1 .. p /\ Has(bind.credentialFrom[j], k)
  /\ \A l \in 1 .. p : Has(bind.credentialFrom[l], k) => l <= j

(* The first p sources have been read into m.                              *)
SourcesRead(bind, p, m) ==
  /\ \A i \in 1 .. p : bind.credentialFrom[i] # NoValue /\ objects[bind.credentialFrom[i]] # {}
  /\ DOMAIN m = {k \in Keys : \E i \in 1 .. p : Has(bind.credentialFrom[i], k)}
  /\ \A k \in DOMAIN m : \E j \in 1 .. p :
       LastWith(bind, p, k, j) /\ m[k] = ValueAt(bind.credentialFrom[j], k)

(* The first q variables have been read into m.                            *)
NamedTo(bind, q) == {i \in 1 .. q : bind.credential[i].source # NoValue}
ValueOf(v) == IF v.source = Literal THEN Literal ELSE ValueAt(v.source, v.key)
VariablesRead(bind, q, m) ==
  /\ \A i \in NamedTo(bind, q) :
       bind.credential[i].source # Literal => Has(bind.credential[i].source, bind.credential[i].key)
  /\ \A i, j \in NamedTo(bind, q) : bind.credential[i].name = bind.credential[j].name => i = j
  /\ DOMAIN m = {bind.credential[i].name : i \in NamedTo(bind, q)}
  /\ \A i \in NamedTo(bind, q) : m[bind.credential[i].name] = ValueOf(bind.credential[i])

(* What is left of a list after the first p entries.                       *)
Remaining(rest, all, p) ==
  /\ p \in 0 .. Len(all) /\ Len(rest) = Len(all) - p
  /\ \A i \in 1 .. Len(rest) : rest[i] = all[p + i]

(* Where Resolve is on its way through the bind.yaml.                      *)
Midway(r, bind) ==
  /\ r.from \in Seq(Objects \cup {NoValue}) /\ r.vars \in Seq(CredentialVar(Objects))
  /\ \E p \in 0 .. Len(bind.credentialFrom) :
       Remaining(r.from, bind.credentialFrom, p) /\ SourcesRead(bind, p, r.credFrom)
  /\ \E q \in 0 .. Len(bind.credential) :
       Remaining(r.vars, bind.credential, q) /\ VariablesRead(bind, q, r.cred)

-----------------------------------------------------------------------------
(* The lists of a bind.yaml.                                               *)
LEMMA YAMLFacts ==
  ASSUME NEW bind \in YAML(Objects)
  PROVE  /\ bind.credentialFrom \in Seq(Objects \cup {NoValue})
         /\ bind.credential \in Seq(CredentialVar(Objects))
         /\ Len(bind.credentialFrom) \in Nat /\ Len(bind.credential) \in Nat
         /\ DOMAIN bind.credentialFrom = 1 .. Len(bind.credentialFrom)
         /\ DOMAIN bind.credential = 1 .. Len(bind.credential)
         /\ \A i \in 1 .. Len(bind.credentialFrom) : bind.credentialFrom[i] \in Objects \cup {NoValue}
         /\ \A i \in 1 .. Len(bind.credential) :
              /\ bind.credential[i].name \in Keys /\ bind.credential[i].key \in Keys
              /\ bind.credential[i].source \in Objects \cup {Literal, NoValue}
<1>1. /\ bind.credentialFrom \in Seq(Objects \cup {NoValue})
      /\ bind.credential \in Seq(CredentialVar(Objects))
  BY DEF YAML
<1>2. /\ Len(bind.credentialFrom) \in Nat /\ Len(bind.credential) \in Nat
      /\ DOMAIN bind.credentialFrom = 1 .. Len(bind.credentialFrom)
      /\ DOMAIN bind.credential = 1 .. Len(bind.credential)
  BY <1>1, LenProperties
<1>3. /\ \A i \in 1 .. Len(bind.credentialFrom) : bind.credentialFrom[i] \in Objects \cup {NoValue}
      /\ \A i \in 1 .. Len(bind.credential) : bind.credential[i] \in CredentialVar(Objects)
  BY <1>1, ElementOfSeq
<1>4. ASSUME NEW v \in CredentialVar(Objects)
      PROVE  v.name \in Keys /\ v.key \in Keys /\ v.source \in Objects \cup {Literal, NoValue}
  BY DEF CredentialVar
<1> QED
  BY <1>1, <1>2, <1>3, <1>4

(* An object has its data, or none.                                        *)
LEMMA ObjectFacts ==
  ASSUME objects \in [Objects -> ObjectStates], NEW o \in Objects, NEW data \in objects[o]
  PROVE  /\ DOMAIN data \subseteq Keys
         /\ \A k : Has(o, k) <=> k \in DOMAIN data
         /\ \A k : ValueAt(o, k) = data[k]
<1>1. objects[o] \in ObjectStates
  OBVIOUS
<1>2. objects[o] = {data} /\ data \in Data
  BY <1>1 DEF ObjectStates
<1>3. DOMAIN data \subseteq Keys
  BY <1>2 DEF Data
<1>4. (CHOOSE d \in objects[o] : TRUE) = data
  BY <1>2
<1> QED
  BY <1>2, <1>3, <1>4 DEF Has, ValueAt

(* getCredFromAllRefValues: the next source is read, over the others.      *)
LEMMA SourceRead ==
  ASSUME objects \in [Objects -> ObjectStates], NEW bind \in YAML(Objects), NEW m,
         NEW p \in Nat, p + 1 <= Len(bind.credentialFrom), SourcesRead(bind, p, m),
         bind.credentialFrom[p + 1] # NoValue, NEW data \in objects[bind.credentialFrom[p + 1]]
  PROVE  SourcesRead(bind, p + 1, SetAll(m, data))
<1>1. PICK o \in Objects : o = bind.credentialFrom[p + 1]
  BY YAMLFacts
<1>2. /\ DOMAIN data \subseteq Keys
      /\ \A k : Has(o, k) <=> k \in DOMAIN data
      /\ \A k : ValueAt(o, k) = data[k]
  BY <1>1, ObjectFacts
<1>3. PICK n : n = SetAll(m, data)
  OBVIOUS
<1>4. DOMAIN n = DOMAIN m \cup DOMAIN data
  BY <1>3 DEF SetAll
<1>5. \A k \in DOMAIN n : n[k] = IF k \in DOMAIN data THEN data[k] ELSE m[k]
  BY <1>3 DEF SetAll
<1>6. \A i \in 1 .. p + 1 : i = p + 1 \/ i \in 1 .. p
  OBVIOUS
<1>7. \A i \in 1 .. p + 1 : bind.credentialFrom[i] # NoValue /\ objects[bind.credentialFrom[i]] # {}
  BY <1>6 DEF SourcesRead
<1>8. DOMAIN n = {k \in Keys : \E i \in 1 .. p + 1 : Has(bind.credentialFrom[i], k)}
  <2>1. \A k \in DOMAIN m : k \in Keys /\ \E i \in 1 .. p + 1 : Has(bind.credentialFrom[i], k)
    BY DEF SourcesRead
  <2>2. \A k \in DOMAIN data : k \in Keys /\ Has(bind.credentialFrom[p + 1], k)
    BY <1>1, <1>2
  <2>3. \A k \in Keys : (\E i \in 1 .. p + 1 : Has(bind.credentialFrom[i], k))
                          => k \in DOMAIN m \/ k \in DOMAIN data
    BY <1>1, <1>2, <1>6 DEF SourcesRead
  <2>4. p + 1 \in 1 .. p + 1
    OBVIOUS
  <2> QED
    BY <1>4, <2>1, <2>2, <2>3, <2>4
<1>9. ASSUME NEW k \in DOMAIN n
      PROVE  \E j \in 1 .. p + 1 :
               LastWith(bind, p + 1, k, j) /\ n[k] = ValueAt(bind.credentialFrom[j], k)
  <2>1. CASE k \in DOMAIN data
    <3>1. LastWith(bind, p + 1, k, p + 1)
      BY <1>1, <1>2, <2>1 DEF LastWith
    <3>2. n[k] = ValueAt(bind.credentialFrom[p + 1], k)
      BY <1>1, <1>2, <1>5, <2>1
    <3> QED
      BY <3>1, <3>2
  <2>2. CASE k \notin DOMAIN data
    <3>1. k \in DOMAIN m /\ n[k] = m[k]
      BY <1>4, <1>5, <2>2
    <3>2. PICK j \in 1 .. p : LastWith(bind, p, k, j) /\ m[k] = ValueAt(bind.credentialFrom[j], k)
      BY <3>1 DEF SourcesRead
    <3>3. ~Has(bind.credentialFrom[p + 1], k)
      BY <1>1, <1>2, <2>2
    <3>4. LastWith(bind, p + 1, k, j)
      BY <1>6, <3>2, <3>3 DEF LastWith
    <3> QED
      BY <3>1, <3>2, <3>4
  <2> QED
    BY <2>1, <2>2
<1> QED
  BY <1>3, <1>7, <1>8, <1>9 DEF SourcesRead

(* Insert: the next variable has a name of its own and a value.            *)
LEMMA VariableRead ==
  ASSUME NEW bind \in YAML(Objects), NEW m, NEW q \in Nat, q + 1 <= Len(bind.credential),
         VariablesRead(bind, q, m), NEW v, v = bind.credential[q + 1], v.source # NoValue,
         v.source # Literal => Has(v.source, v.key), v.name \notin DOMAIN m
  PROVE  VariablesRead(bind, q + 1, SetAll(m, [k \in {v.name} |-> ValueOf(v)]))
<1>1. PICK name, value : name = v.name /\ value = ValueOf(v)
  OBVIOUS
<1>2. PICK n : n = SetAll(m, [k \in {name} |-> value])
  OBVIOUS
<1>3. /\ DOMAIN n = DOMAIN m \cup {name} /\ n[name] = value
      /\ \A k \in DOMAIN m : n[k] = m[k]
  BY <1>1, <1>2 DEF SetAll
<1>4. NamedTo(bind, q + 1) = NamedTo(bind, q) \cup {q + 1}
  BY DEF NamedTo
<1>5. q + 1 \notin NamedTo(bind, q)
  BY DEF NamedTo
<1>6. \A i \in NamedTo(bind, q) : bind.credential[i].name \in DOMAIN m /\ bind.credential[i].name # name
  BY <1>1 DEF VariablesRead
<1>7. \A i \in NamedTo(bind, q + 1) :
        bind.credential[i].source # Literal => Has(bind.credential[i].source, bind.credential[i].key)
  BY <1>4 DEF VariablesRead
<1>8. \A i, j \in NamedTo(bind, q + 1) : bind.credential[i].name = bind.credential[j].name => i = j
  BY <1>1, <1>4, <1>6 DEF VariablesRead
<1>9. DOMAIN n = {bind.credential[i].name : i \in NamedTo(bind, q + 1)}
  <2>1. DOMAIN m = {bind.credential[i].name : i \in NamedTo(bind, q)}
    BY DEF VariablesRead
  <2> QED
    BY <1>1, <1>3, <1>4, <2>1
<1>10. \A i \in NamedTo(bind, q + 1) : n[bind.credential[i].name] = ValueOf(bind.credential[i])
  <2>1. \A i \in NamedTo(bind, q) : n[bind.credential[i].name] = ValueOf(bind.credential[i])
    BY <1>3, <1>6 DEF VariablesRead
  <2>2. n[bind.credential[q + 1].name] = ValueOf(bind.credential[q + 1])
    BY <1>1, <1>3
  <2> QED
    BY <1>4, <2>1, <2>2
<1> QED
  BY <1>1, <1>2, <1>7, <1>8, <1>9, <1>10 DEF VariablesRead

(* A variable that names nothing is passed over.                           *)
LEMMA VariablePassed ==
  ASSUME NEW bind \in YAML(Objects), NEW m, NEW q \in Nat,
         VariablesRead(bind, q, m), bind.credential[q + 1].source = NoValue
  PROVE  VariablesRead(bind, q + 1, m)
<1>1. NamedTo(bind, q + 1) = NamedTo(bind, q)
  BY DEF NamedTo
<1> QED
  BY <1>1 DEF VariablesRead

(* Everything has been read: what Resolve returns is what its rules say.   *)
LEMMA AllRead ==
  ASSUME NEW bind \in YAML(Objects), NEW m, NEW c,
         SourcesRead(bind, Len(bind.credentialFrom), m),
         VariablesRead(bind, Len(bind.credential), c)
  PROVE  /\ Resolvable(bind)
         /\ SetAll(m, c) = [k \in Wanted(bind) |-> Credential(bind, k)]
<1>1. PICK sources, variables : sources = Len(bind.credentialFrom) /\ variables = Len(bind.credential)
  OBVIOUS
<1>2. /\ DOMAIN bind.credentialFrom = 1 .. sources /\ DOMAIN bind.credential = 1 .. variables
      /\ sources \in Nat /\ variables \in Nat
  BY <1>1, YAMLFacts
<1>3. Named(bind) = NamedTo(bind, variables)
  BY <1>2 DEF Named, NamedTo
<1>4. Resolvable(bind)
  BY <1>1, <1>2, <1>3 DEF Resolvable, SourcesRead, VariablesRead
<1>5. DOMAIN m \cup DOMAIN c = Wanted(bind)
  BY <1>1, <1>2, <1>3 DEF Wanted, SourcesRead, VariablesRead
<1>6. ASSUME NEW k \in DOMAIN c
      PROVE  c[k] = Credential(bind, k)
  <2> DEFINE mine == {i \in Named(bind) : bind.credential[i].name = k}
  <2>1. PICK i \in Named(bind) : bind.credential[i].name = k
    BY <1>1, <1>3 DEF VariablesRead
  <2>2. mine = {i}
    BY <1>1, <1>3, <2>1 DEF VariablesRead
  <2>3. mine # {} /\ (CHOOSE j \in mine : TRUE) = i
    BY <2>2
  <2>4. Credential(bind, k) = ValueOf(bind.credential[i])
    BY <2>3 DEF Credential, ValueOf
  <2> QED
    BY <1>1, <1>3, <2>1, <2>4 DEF VariablesRead
<1>7. ASSUME NEW k \in DOMAIN m, k \notin DOMAIN c
      PROVE  m[k] = Credential(bind, k)
  <2> DEFINE mine == {i \in Named(bind) : bind.credential[i].name = k}
             having == {i \in DOMAIN bind.credentialFrom : Has(bind.credentialFrom[i], k)}
             last == CHOOSE j \in having : \A l \in having : l <= j
  <2>1. mine = {}
    BY <1>1, <1>3, <1>7 DEF VariablesRead
  <2>2. PICK j \in 1 .. sources :
          LastWith(bind, sources, k, j) /\ m[k] = ValueAt(bind.credentialFrom[j], k)
    BY <1>1 DEF SourcesRead
  <2>3. j \in having /\ \A l \in having : l <= j
    BY <1>2, <2>2 DEF LastWith
  <2>4. having \subseteq Int
    BY <1>2
  <2>5. last \in having /\ \A l \in having : l <= last
    BY <2>3
  <2> HIDE DEF having, last
  <2>6. last = j
    BY <2>3, <2>4, <2>5
  <2> USE DEF having, last
  <2>7. Credential(bind, k) = ValueAt(bind.credentialFrom[last], k)
    BY <2>1 DEF Credential
  <2> HIDE DEF having, last
  <2> QED
    BY <2>2, <2>6, <2>7
<1>8. SetAll(m, c) = [k \in DOMAIN m \cup DOMAIN c |-> IF k \in DOMAIN c THEN c[k] ELSE m[k]]
  BY DEF SetAll
<1>9. \A k \in DOMAIN m \cup DOMAIN c : (IF k \in DOMAIN c THEN c[k] ELSE m[k]) = Credential(bind, k)
  BY <1>6, <1>7
<1> QED
  BY <1>4, <1>5, <1>8, <1>9

(* The next entry of a list.                                               *)
LEMMA NextEntry ==
  ASSUME NEW S, NEW all \in Seq(S), NEW rest \in Seq(S), rest # <<>>, NEW p \in Nat,
         Remaining(rest, all, p)
  PROVE  /\ p + 1 \in 1 .. Len(all) /\ Head(rest) = all[p + 1]
         /\ Tail(rest) \in Seq(S) /\ Remaining(Tail(rest), all, p + 1)
<1>1. Len(all) \in Nat /\ Len(rest) \in Nat \ {0}
  BY LenProperties, EmptySeq
<1>2. Head(rest) = rest[1]
  BY <1>1
<1>3. /\ Tail(rest) \in Seq(S) /\ Len(Tail(rest)) = Len(rest) - 1
      /\ \A i \in 1 .. Len(Tail(rest)) : Tail(rest)[i] = rest[i + 1]
  BY HeadTailProperties
<1>4. p + 1 \in 1 .. Len(all) /\ rest[1] = all[p + 1]
  BY <1>1 DEF Remaining
<1>5. ASSUME NEW i \in 1 .. Len(Tail(rest))
      PROVE  Tail(rest)[i] = all[p + 1 + i]
  <2>1. i + 1 \in 1 .. Len(rest) /\ p + (i + 1) = p + 1 + i
    BY <1>1, <1>3
  <2>2. rest[i + 1] = all[p + (i + 1)]
    BY <2>1 DEF Remaining
  <2> QED
    BY <1>3, <2>1, <2>2
<1> QED
  BY <1>1, <1>2, <1>3, <1>4, <1>5 DEF Remaining

(* What r has come to agrees with the rules for template t.                *)
Follows(r, t) ==
  LET own == Rendered(t, r.release) IN
  /\ r.pc = "resolve" => t.renders /\ Midway(r, own)
  /\ r.pc = "done" => /\ t.renders /\ Resolvable(own)
                      /\ r.credFrom = [k \in Wanted(own) |-> Credential(own, k)]
  /\ r.pc = "failed" => ~(t.renders /\ Resolvable(own))

(* What has been read is about the objects, which stay.                    *)
LEMMA ReadingKept ==
  ASSUME NEW bind, UNCHANGED objects
  PROVE  /\ \A p, m : SourcesRead(bind, p, m) => SourcesRead(bind, p, m)'
         /\ \A q, m : VariablesRead(bind, q, m) => VariablesRead(bind, q, m)'
<1>1. ASSUME NEW p, NEW m, SourcesRead(bind, p, m)
      PROVE  SourcesRead(bind, p, m)'
  <2>1. \A o, k : (Has(o, k)' <=> Has(o, k)) /\ ValueAt(o, k)' = ValueAt(o, k)
    BY DEF Has, ValueAt
  <2>2. \A k, j : LastWith(bind, p, k, j) => LastWith(bind, p, k, j)'
    BY <2>1 DEF LastWith
  <2> QED
    BY <1>1, <2>1, <2>2 DEF SourcesRead
<1>2. \A q, m : VariablesRead(bind, q, m) => VariablesRead(bind, q, m)'
  BY DEF VariablesRead, NamedTo, ValueOf, Has, ValueAt
<1> QED
  BY <1>1, <1>2

(* So are the rules, ...                                                  *)
LEMMA RulesKept ==
  ASSUME NEW bind, UNCHANGED objects
  PROVE  /\ Resolvable(bind)' <=> Resolvable(bind)
         /\ Wanted(bind)' = Wanted(bind)
         /\ \A k : Credential(bind, k)' = Credential(bind, k)
<1>1. Resolvable(bind)' <=> Resolvable(bind)
  BY DEF Resolvable, Named, Has
<1>2. Wanted(bind)' = Wanted(bind)
  BY DEF Wanted, Named, Has
<1>3. \A k : Credential(bind, k)' = Credential(bind, k)
  BY DEF Credential, Named, Has, ValueAt
<1> QED
  BY <1>1, <1>2, <1>3

(* ... and whether they are followed.                                      *)
LEMMA FollowsKept ==
  ASSUME NEW r, NEW t, UNCHANGED objects, Follows(r, t)
  PROVE  Follows(r, t)'
<1>1. PICK own : own = Rendered(t, r.release)
  OBVIOUS
<1>2. Midway(r, own) => Midway(r, own)'
  BY ReadingKept DEF Midway
<1>3. (r.pc = "resolve" => t.renders /\ Midway(r, own))'
  BY <1>1, <1>2 DEF Follows
<1>4. Resolvable(own)' <=> Resolvable(own)
  BY RulesKept
<1>5. [k \in Wanted(own) |-> Credential(own, k)]' = [k \in Wanted(own) |-> Credential(own, k)]
  BY RulesKept
<1>6. (r.pc = "done" => /\ t.renders /\ Resolvable(own)
                      /\ r.credFrom = [k \in Wanted(own) |-> Credential(own, k)])'
  BY <1>1, <1>4, <1>5 DEF Follows
<1>7. (r.pc = "failed" => ~(t.renders /\ Resolvable(own)))'
  BY <1>1, <1>4 DEF Follows
<1> QED
  BY <1>1, <1>3, <1>6, <1>7 DEF Follows

(* A template of a bind.yaml, rendered for a release.                      *)
LEMMA RenderedFacts ==
  ASSUME NEW t \in Template, NEW rel \in Releases
  PROVE  Rendered(t, rel) \in YAML(Objects)
<1>1. PICK cf, cv : cf = t.yaml.credentialFrom /\ cv = t.yaml.credential
  OBVIOUS
<1>2. cf \in Seq(Roles \cup {NoValue}) /\ cv \in Seq(CredentialVar(Roles))
  BY <1>1 DEF Template, YAML
<1>3. PICK n \in Nat, m \in Nat : /\ DOMAIN cf = 1 .. n /\ DOMAIN cv = 1 .. m
                                  /\ \A i \in 1 .. n : cf[i] \in Roles \cup {NoValue}
                                  /\ \A i \in 1 .. m : cv[i] \in CredentialVar(Roles)
  <2>1. Len(cf) \in Nat /\ DOMAIN cf = 1 .. Len(cf) /\ \A i \in 1 .. Len(cf) : cf[i] \in Roles \cup {NoValue}
    BY <1>2, LenProperties, ElementOfSeq
  <2>2. Len(cv) \in Nat /\ DOMAIN cv = 1 .. Len(cv) /\ \A i \in 1 .. Len(cv) : cv[i] \in CredentialVar(Roles)
    BY <1>2, LenProperties, ElementOfSeq
  <2> QED
    BY <2>1, <2>2
<1>4. \A x \in Roles : ObjectIn(rel, x) \in Objects
  BY DEF ObjectIn, Objects
<1>5. \A x : x \notin Roles => ObjectIn(rel, x) = x
  BY DEF ObjectIn
<1>6. ASSUME NEW v \in CredentialVar(Roles)
      PROVE  [v EXCEPT !.source = ObjectIn(rel, @)] \in CredentialVar(Objects)
  <2>1. PICK s : s = ObjectIn(rel, v.source)
    OBVIOUS
  <2>2. s \in Objects \cup {Literal, NoValue}
    BY <1>4, <1>5, <2>1 DEF CredentialVar
  <2>3. [v EXCEPT !.source = s] \in CredentialVar(Objects)
    BY <2>2 DEF CredentialVar
  <2>4. [v EXCEPT !.source = ObjectIn(rel, @)] = [v EXCEPT !.source = s]
    BY <2>1
  <2> QED
    BY <2>3, <2>4
<1> DEFINE of == [i \in DOMAIN cf |-> ObjectIn(rel, cf[i])]
           ov == [i \in DOMAIN cv |-> [cv[i] EXCEPT !.source = ObjectIn(rel, @)]]
<1>7. of \in Seq(Objects \cup {NoValue})
  <2>1. of \in [1 .. n -> Objects \cup {NoValue}]
    BY <1>3, <1>4, <1>5
  <2> HIDE DEF of
  <2> QED
    BY <2>1, SeqDef
<1>8. ov \in Seq(CredentialVar(Objects))
  <2>1. \A i \in 1 .. m : [cv[i] EXCEPT !.source = ObjectIn(rel, @)] \in CredentialVar(Objects)
    BY <1>3, <1>6
  <2>2. ov \in [1 .. m -> CredentialVar(Objects)]
    BY <1>3, <2>1
  <2> HIDE DEF ov
  <2> QED
    BY <2>2, SeqDef
<1>9. Rendered(t, rel) = [credentialFrom |-> of, credential |-> ov]
  BY <1>1 DEF Rendered
<1> HIDE DEF of, ov
<1> QED
  BY <1>7, <1>8, <1>9 DEF YAML

-----------------------------------------------------------------------------
(* The goroutines.                                                         *)

(* Past Render.                                                            *)
PastRender == {"resolve", "done", "failed"}

(* A record of the ten fields, and the types of some.                      *)
IsRecord(r) ==
  r = [pc |-> r.pc, chart |-> r.chart, release |-> r.release, template |-> r.template,
       bind |-> r.bind, from |-> r.from, vars |-> r.vars,
       credFrom |-> r.credFrom, cred |-> r.cred, changed |-> r.changed]

BinderOK(r) ==
  /\ IsRecord(r)
  /\ r.pc # "none" => r.chart \in ChartNames /\ r.release \in Releases /\ r.template \in Template
  /\ r.pc \in {"append", "render"} => DOMAIN r.credFrom = {} /\ DOMAIN r.cred = {}

(* c has the bind.yaml that b may find in its chart.                       *)
Gives(c, b) ==
  /\ resolve[c].pc # "none" /\ resolve[c].chart = resolve[b].chart
  /\ driver # "memory" => c = b

(* The inductive invariant.  A goroutine resolves some bind.yaml that was  *)
(* added to its chart, not always its own, and follows the rules for that. *)
ResolverInv ==
  /\ resolve = [b \in Binders |-> resolve[b]]
  /\ chartFiles = [ch \in ChartNames |-> chartFiles[ch]]
  /\ objects \in [Objects -> ObjectStates]
  /\ \A b \in Binders : BinderOK(resolve[b])
  /\ \A b \in Binders : resolve[b].pc = "render" =>
       \E c \in Binders : Gives(c, b) /\ FileOf(b) = resolve[c].template
  /\ \A b \in Binders : resolve[b].pc \in PastRender /\ ~resolve[b].changed =>
       \E c \in Binders : Gives(c, b) /\ Follows(resolve[b], resolve[c].template)

(* q is r, as far as it stays once a binding has started.                  *)
Same(q, r) ==
  /\ q.chart = r.chart /\ q.release = r.release /\ q.template = r.template
  /\ q.changed = r.changed

(* What a goroutine has is kept by a step that only moves it ...           *)
LEMMA UpdatePc ==
  ASSUME NEW r, IsRecord(r), NEW x, NEW q, q = [r EXCEPT !.pc = x]
  PROVE  /\ IsRecord(q) /\ Same(q, r) /\ q.pc = x
         /\ q.credFrom = r.credFrom /\ q.cred = r.cred
<1>1. PICK f1, f2, f3, f4, f5, f6, f7, f8, f9, f10 :
        r = [pc |-> f1, chart |-> f2, release |-> f3, template |-> f4, bind |-> f5, from |-> f6,
             vars |-> f7, credFrom |-> f8, cred |-> f9, changed |-> f10]
  BY DEF IsRecord
<1> QED
  BY <1>1 DEF IsRecord, Same

(* ... and by a change of an object.                                       *)
LEMMA UpdateChanged ==
  ASSUME NEW r, IsRecord(r), NEW x, NEW q, q = [r EXCEPT !.changed = x]
  PROVE  /\ IsRecord(q) /\ q.pc = r.pc /\ q.changed = x
         /\ q.credFrom = r.credFrom /\ q.cred = r.cred
         /\ q.chart = r.chart /\ q.release = r.release /\ q.template = r.template
<1>1. PICK f1, f2, f3, f4, f5, f6, f7, f8, f9, f10 :
        r = [pc |-> f1, chart |-> f2, release |-> f3, template |-> f4, bind |-> f5, from |-> f6,
             vars |-> f7, credFrom |-> f8, cred |-> f9, changed |-> f10]
  BY DEF IsRecord
<1> QED
  BY <1>1 DEF IsRecord, Same

(* A goroutine goes on: whatever it was given, and what others have, stays.*)
LEMMA Moves ==
  ASSUME ResolverInv, NEW b \in Binders, NEW r, BinderOK(r), r.pc \notin {"none", "render"},
         Become(b, r), UNCHANGED <<chartFiles, objects, driver>>,
         resolve[b].pc # "none" => Same(r, resolve[b]),
         r.pc \in PastRender => resolve[b].pc # "none",
         r.pc \in PastRender /\ ~r.changed =>
           \E c \in Binders : Gives(c, b) /\ Follows(r, resolve[c].template)
  PROVE  ResolverInv'
<1>1. /\ resolve' = [d \in Binders |-> resolve'[d]] /\ resolve'[b] = r
      /\ \A d \in Binders : d # b => resolve'[d] = resolve[d]
  BY DEF Become, ResolverInv
<1>2. /\ (chartFiles = [ch \in ChartNames |-> chartFiles[ch]])'
      /\ (objects \in [Objects -> ObjectStates])'
  BY DEF ResolverInv
<1>3. \A d \in Binders : BinderOK(resolve'[d])
  BY <1>1 DEF ResolverInv
<1>4. \A c \in Binders : resolve[c].pc # "none" =>
        /\ resolve'[c].pc # "none" /\ resolve'[c].chart = resolve[c].chart
        /\ resolve'[c].template = resolve[c].template
  BY <1>1 DEF Same
<1>5. \A c, d \in Binders : Gives(c, d) /\ resolve[d].pc # "none" => Gives(c, d)'
  BY <1>4 DEF Gives
<1>6. ASSUME NEW d \in Binders, resolve'[d].pc = "render"
      PROVE  \E c \in Binders : Gives(c, d)' /\ FileOf(d)' = resolve'[c].template
  <2>1. d # b /\ resolve'[d] = resolve[d]
    BY <1>1, <1>6
  <2>2. PICK c \in Binders : Gives(c, d) /\ FileOf(d) = resolve[c].template
    BY <1>6, <2>1 DEF ResolverInv
  <2>3. FileOf(d)' = FileOf(d)
    BY <2>1 DEF FileOf
  <2> QED
    BY <1>4, <1>5, <1>6, <2>1, <2>2, <2>3 DEF Gives
<1>7. ASSUME NEW d \in Binders, resolve'[d].pc \in PastRender, ~resolve'[d].changed
      PROVE  \E c \in Binders : Gives(c, d)' /\ Follows(resolve[d], resolve[c].template)'
  <2>1. PICK q : q = resolve'[d]
    OBVIOUS
  <2>2. PICK c \in Binders : Gives(c, d) /\ Follows(q, resolve[c].template)
    BY <1>1, <1>7, <2>1 DEF ResolverInv
  <2>3. resolve[d].pc # "none"
    BY <1>1, <1>7 DEF PastRender
  <2>4. PICK t : t = resolve[c].template
    OBVIOUS
  <2>5. t = resolve'[c].template /\ Gives(c, d)'
    BY <1>4, <1>5, <2>2, <2>3, <2>4 DEF Gives
  <2>6. Follows(q, t)'
    BY <2>2, <2>4, FollowsKept
  <2>7. Follows(resolve[d], resolve[c].template)'
    BY <2>1, <2>5, <2>6
  <2> QED
    BY <2>5, <2>7
<1> QED
  BY <1>1, <1>2, <1>3, <1>6, <1>7 DEF ResolverInv

(* Fail of a goroutine whose bind.yaml cannot be rendered or resolved.     *)
LEMMA FailKeeps ==
  ASSUME ResolverInv, NEW b \in Binders, resolve[b].pc # "none", Fail(b),
         UNCHANGED <<chartFiles, objects, driver>>,
         ~resolve[b].changed => \E c \in Binders :
           /\ Gives(c, b)
           /\ LET t == resolve[c].template IN
              ~(t.renders /\ Resolvable(Rendered(t, resolve[b].release)))
  PROVE  ResolverInv'
<1>1. PICK r, old : old = resolve[b] /\ r = [old EXCEPT !.pc = "failed"]
  OBVIOUS
<1>2. BinderOK(old)
  BY <1>1 DEF ResolverInv
<1>3. IsRecord(r) /\ Same(r, old) /\ r.pc = "failed"
  BY <1>1, <1>2, UpdatePc DEF BinderOK
<1>4. BinderOK(r)
  BY <1>1, <1>2, <1>3 DEF BinderOK, Same
<1>5. Become(b, r)
  BY <1>1 DEF Fail
<1>6. ASSUME ~r.changed
      PROVE  \E c \in Binders : Gives(c, b) /\ Follows(r, resolve[c].template)
  <2>1. ~resolve[b].changed /\ r.release = resolve[b].release
    BY <1>1, <1>3, <1>6 DEF Same
  <2>2. PICK c \in Binders :
          /\ Gives(c, b)
          /\ LET t == resolve[c].template IN
             ~(t.renders /\ Resolvable(Rendered(t, resolve[b].release)))
    BY <2>1
  <2>3. PICK t : t = resolve[c].template
    OBVIOUS
  <2>4. Follows(r, t)
    BY <1>3, <2>1, <2>2, <2>3 DEF Follows
  <2> QED
    BY <2>2, <2>3, <2>4
<1> QED
  BY <1>1, <1>3, <1>4, <1>5, <1>6, Moves

(* renderAndResolveBindData starts.                                        *)
LEMMA StartKeeps ==
  ASSUME ResolverInv, NEW b \in Binders, NEW ch \in ChartNames, NEW rel \in Releases,
         NEW t \in Template \cup {Nil}, StartResolve(b, ch, rel, t), UNCHANGED driver
  PROVE  ResolverInv'
<1>1. PICK u : u = IF t = Nil THEN [renders |-> TRUE, yaml |-> EmptyYAML] ELSE t
  OBVIOUS
<1>2. EmptyYAML \in YAML(Roles)
  BY EmptySeq DEF EmptyYAML, YAML
<1>3. u \in Template
  BY <1>1, <1>2 DEF Template
<1>4. PICK r : r = [NotBinding EXCEPT !.pc = "append", !.chart = ch, !.release = rel, !.template = u]
  OBVIOUS
<1>5. /\ IsRecord(r) /\ r.pc = "append" /\ r.chart = ch /\ r.release = rel /\ r.template = u
      /\ r.credFrom = Nothing /\ r.cred = Nothing
  BY <1>4 DEF NotBinding, IsRecord
<1>6. BinderOK(r)
  BY <1>3, <1>5 DEF BinderOK, Nothing
<1>7. Become(b, r) /\ resolve[b].pc = "none" /\ UNCHANGED <<chartFiles, objects>>
  BY <1>1, <1>4 DEF StartResolve
<1> QED
  BY <1>5, <1>6, <1>7, Moves DEF PastRender

(* Render adds bind.yaml to the chart.                                     *)
LEMMA AppendKeeps ==
  ASSUME ResolverInv, NEW b \in Binders, AppendTemplate(b), UNCHANGED driver
  PROVE  ResolverInv'
<1>1. PICK r, old : old = resolve[b] /\ r = [old EXCEPT !.pc = "render"]
  OBVIOUS
<1>2. BinderOK(old) /\ old.pc = "append"
  BY <1>1 DEF ResolverInv, AppendTemplate
<1>3. /\ IsRecord(r) /\ Same(r, old) /\ r.pc = "render"
      /\ r.credFrom = old.credFrom /\ r.cred = old.cred
  BY <1>1, <1>2, UpdatePc DEF BinderOK
<1>4. BinderOK(r)
  BY <1>2, <1>3 DEF BinderOK, Same
<1>5. /\ resolve' = [d \in Binders |-> resolve'[d]] /\ resolve'[b] = r
      /\ \A d \in Binders : d # b => resolve'[d] = resolve[d]
  BY <1>1 DEF AppendTemplate, Become, ResolverInv
<1>6. UNCHANGED objects
  BY DEF AppendTemplate
<1>7. /\ chartFiles' = [ch \in ChartNames |-> chartFiles'[ch]]
      /\ driver = "memory" => chartFiles'[old.chart] = old.template
      /\ \A ch \in ChartNames : ch # old.chart => chartFiles'[ch] = chartFiles[ch]
  BY <1>1, <1>2 DEF AppendTemplate, ResolverInv, BinderOK
<1>8. \A d \in Binders : BinderOK(resolve'[d])
  BY <1>4, <1>5 DEF ResolverInv
<1>9. \A c \in Binders : resolve[c].pc # "none" =>
        /\ resolve'[c].pc # "none" /\ resolve'[c].chart = resolve[c].chart
        /\ resolve'[c].template = resolve[c].template
  BY <1>1, <1>3, <1>5 DEF Same
<1>10. \A c, d \in Binders : Gives(c, d) /\ resolve[d].pc # "none" => Gives(c, d)'
  BY <1>9 DEF Gives
<1>11. ASSUME NEW d \in Binders, resolve'[d].pc = "render"
       PROVE  \E c \in Binders : Gives(c, d)' /\ FileOf(d)' = resolve'[c].template
  <2>1. CASE driver # "memory"
    <3>1. Gives(d, d)' /\ FileOf(d)' = resolve'[d].template
      BY <1>11, <2>1 DEF Gives, FileOf
    <3> QED
      BY <3>1
  <2>2. CASE driver = "memory" /\ resolve'[d].chart = old.chart
    <3>1. Gives(b, d)'
      BY <1>1, <1>2, <1>9, <2>2 DEF Gives
    <3>2. FileOf(d)' = resolve'[b].template
      BY <1>3, <1>5, <1>7, <2>2 DEF FileOf, Same
    <3> QED
      BY <3>1, <3>2
  <2>3. CASE driver = "memory" /\ resolve'[d].chart # old.chart
    <3>1. d # b /\ resolve'[d] = resolve[d]
      BY <1>3, <1>5, <2>3 DEF Same
    <3>2. PICK c \in Binders : Gives(c, d) /\ FileOf(d) = resolve[c].template
      BY <1>11, <3>1 DEF ResolverInv
    <3>3. resolve[d].chart \in ChartNames
      BY <1>11, <3>1 DEF ResolverInv, BinderOK
    <3>4. FileOf(d)' = FileOf(d)
      BY <1>7, <2>3, <3>1, <3>3 DEF FileOf
    <3> QED
      BY <1>9, <1>10, <1>11, <3>1, <3>2, <3>4 DEF Gives
  <2> QED
    BY <2>1, <2>2, <2>3
<1>12. ASSUME NEW d \in Binders, resolve'[d].pc \in PastRender, ~resolve'[d].changed
       PROVE  \E c \in Binders : Gives(c, d)' /\ Follows(resolve[d], resolve[c].template)'
  <2>1. PICK q : q = resolve'[d]
    OBVIOUS
  <2>2. d # b /\ q = resolve[d]
    BY <1>3, <1>5, <1>12, <2>1 DEF PastRender
  <2>3. PICK c \in Binders : Gives(c, d) /\ Follows(q, resolve[c].template)
    BY <1>12, <2>1, <2>2 DEF ResolverInv
  <2>4. resolve[d].pc # "none"
    BY <1>12, <2>1, <2>2 DEF PastRender
  <2>5. PICK t : t = resolve[c].template
    OBVIOUS
  <2>6. t = resolve'[c].template /\ Gives(c, d)'
    BY <1>9, <1>10, <2>3, <2>4, <2>5 DEF Gives
  <2>7. Follows(q, t)'
    BY <1>6, <2>3, <2>5, FollowsKept
  <2>8. Follows(resolve[d], resolve[c].template)'
    BY <2>1, <2>6, <2>7
  <2> QED
    BY <2>6, <2>8
<1> QED
  BY <1>5, <1>6, <1>7, <1>8, <1>11, <1>12 DEF ResolverInv

(* While a goroutine resolves: some template it may have been given is     *)
(* what it resolves, and it is midway through that.                        *)
LEMMA AtResolve ==
  ASSUME ResolverInv, NEW b \in Binders, resolve[b].pc = "resolve", ~resolve[b].changed
  PROVE  \E c \in Binders : \E t \in Template : \E own \in YAML(Objects) :
           /\ Gives(c, b) /\ t = resolve[c].template /\ t.renders
           /\ own = Rendered(t, resolve[b].release) /\ Midway(resolve[b], own)
<1>1. PICK c \in Binders : Gives(c, b) /\ Follows(resolve[b], resolve[c].template)
  BY DEF ResolverInv, PastRender
<1>2. resolve[c].template \in Template /\ resolve[b].release \in Releases
  BY <1>1 DEF ResolverInv, BinderOK, Gives
<1>3. Rendered(resolve[c].template, resolve[b].release) \in YAML(Objects)
  BY <1>2, RenderedFacts
<1> QED
  BY <1>1, <1>2, <1>3 DEF Follows

(* A goroutine that resolves goes on ...                                   *)
LEMMA GoesOn ==
  ASSUME ResolverInv, NEW b \in Binders, resolve[b].pc = "resolve", NEW r, IsRecord(r),
         Same(r, resolve[b]), r.pc = "resolve", Become(b, r), UNCHANGED <<chartFiles, objects, driver>>,
         \A own \in YAML(Objects) : Midway(resolve[b], own) => Midway(r, own)
  PROVE  ResolverInv'
<1>1. BinderOK(r)
  BY DEF ResolverInv, BinderOK, Same
<1>2. ASSUME ~r.changed
      PROVE  \E c \in Binders : Gives(c, b) /\ Follows(r, resolve[c].template)
  <2>1. ~resolve[b].changed /\ r.release = resolve[b].release
    BY <1>2 DEF Same
  <2>2. PICK c \in Binders, t \in Template, own \in YAML(Objects) :
           /\ Gives(c, b) /\ t = resolve[c].template /\ t.renders
           /\ own = Rendered(t, resolve[b].release) /\ Midway(resolve[b], own)
    BY <2>1, AtResolve
  <2>3. Follows(r, t)
    BY <2>1, <2>2 DEF Follows
  <2> QED
    BY <2>2, <2>3
<1> QED
  BY <1>1, <1>2, Moves

(* ... or fails, where there is nothing to be resolved.                    *)
LEMMA Fails ==
  ASSUME ResolverInv, NEW b \in Binders, resolve[b].pc = "resolve", Fail(b),
         UNCHANGED <<chartFiles, objects, driver>>,
         \A own \in YAML(Objects) : Midway(resolve[b], own) => ~Resolvable(own)
  PROVE  ResolverInv'
<1>1. ASSUME ~resolve[b].changed
      PROVE  \E c \in Binders :
           /\ Gives(c, b)
           /\ LET t == resolve[c].template IN
              ~(t.renders /\ Resolvable(Rendered(t, resolve[b].release)))
  <2>1. PICK c \in Binders, t \in Template, own \in YAML(Objects) :
           /\ Gives(c, b) /\ t = resolve[c].template /\ t.renders
           /\ own = Rendered(t, resolve[b].release) /\ Midway(resolve[b], own)
    BY <1>1, AtResolve
  <2> QED
    BY <2>1
<1> QED
  BY <1>1, FailKeeps

(* Render.                                                                 *)
LEMMA RenderKeeps ==
  ASSUME ResolverInv, NEW b \in Binders, Render(b), UNCHANGED driver
  PROVE  ResolverInv'
<1>1. PICK old : old = resolve[b]
  OBVIOUS
<1>2. BinderOK(old) /\ old.pc = "render" /\ UNCHANGED <<chartFiles, objects>>
  BY <1>1 DEF Render, ResolverInv
<1>3. PICK c \in Binders : Gives(c, b) /\ FileOf(b) = resolve[c].template
  BY <1>1, <1>2 DEF ResolverInv
<1>4. PICK t : t = resolve[c].template
  OBVIOUS
<1>5. t \in Template /\ old.release \in Releases
  BY <1>1, <1>2, <1>3, <1>4 DEF ResolverInv, BinderOK, Gives
<1>6. PICK own \in YAML(Objects) : own = Rendered(t, old.release)
  BY <1>5, RenderedFacts
<1>7. CASE ~t.renders
  <2>1. Fail(b)
    BY <1>3, <1>4, <1>7 DEF Render
  <2> QED
    BY <1>1, <1>2, <1>3, <1>4, <1>7, <2>1, FailKeeps
<1>8. CASE t.renders
  <2> DEFINE new == [resolve[b] EXCEPT !.pc = "resolve", !.bind = Rendered(FileOf(b), resolve[b].release),
                       !.from = Rendered(FileOf(b), resolve[b].release).credentialFrom,
                       !.vars = Rendered(FileOf(b), resolve[b].release).credential]
  <2>1. Rendered(FileOf(b), resolve[b].release) = own /\ FileOf(b).renders
    BY <1>1, <1>3, <1>4, <1>6, <1>8
  <2>2. Become(b, new)
    BY <2>1 DEF Render
  <2>3. PICK r : r = [old EXCEPT !.pc = "resolve", !.bind = own,
                                 !.from = own.credentialFrom, !.vars = own.credential]
    OBVIOUS
  <2>4. new = r
    BY <1>1, <2>1, <2>3
  <2> HIDE DEF new
  <2>5. Become(b, r)
    BY <2>2, <2>4
  <2>6. /\ IsRecord(r) /\ Same(r, old) /\ r.pc = "resolve"
        /\ r.from = own.credentialFrom /\ r.vars = own.credential
        /\ r.credFrom = old.credFrom /\ r.cred = old.cred
    <3>1. PICK f1, f2, f3, f4, f5, f6, f7, f8, f9, f10 :
            old = [pc |-> f1, chart |-> f2, release |-> f3, template |-> f4, bind |-> f5, from |-> f6,
                   vars |-> f7, credFrom |-> f8, cred |-> f9, changed |-> f10]
      BY <1>2 DEF BinderOK, IsRecord
    <3> QED
      BY <2>3, <3>1 DEF IsRecord, Same
  <2>7. BinderOK(r)
    BY <1>2, <2>6 DEF BinderOK, Same
  <2>8. Len(own.credentialFrom) \in Nat /\ Len(own.credential) \in Nat
    BY YAMLFacts
  <2>9. Remaining(r.from, own.credentialFrom, 0) /\ Remaining(r.vars, own.credential, 0)
    BY <2>6, <2>8 DEF Remaining
  <2>10. DOMAIN r.credFrom = {} /\ DOMAIN r.cred = {}
    BY <1>2, <2>6 DEF BinderOK
  <2>11. SourcesRead(own, 0, r.credFrom)
    BY <2>10 DEF SourcesRead
  <2>12. VariablesRead(own, 0, r.cred)
    BY <2>10 DEF VariablesRead, NamedTo
  <2>13. Midway(r, own)
    BY <2>6, <2>8, <2>9, <2>11, <2>12, YAMLFacts DEF Midway
  <2>14. Follows(r, t)
    BY <1>6, <1>8, <2>6, <2>13 DEF Follows, Same
  <2> QED
    BY <1>1, <1>2, <1>3, <1>4, <2>5, <2>6, <2>7, <2>14, Moves
<1> QED
  BY <1>7, <1>8

(* getCredFromAllRefValues.                                                *)
LEMMA SourceKeeps ==
  ASSUME ResolverInv, NEW b \in Binders, getCredFromAllRefValues(b), UNCHANGED driver
  PROVE  ResolverInv'
<1>1. PICK old, source : old = resolve[b] /\ source = Head(old.from)
  OBVIOUS
<1>2. /\ BinderOK(old) /\ old.pc = "resolve" /\ old.from # <<>> /\ UNCHANGED <<chartFiles, objects>>
      /\ objects \in [Objects -> ObjectStates]
  BY <1>1 DEF getCredFromAllRefValues, ResolverInv
<1>3. ASSUME NEW own \in YAML(Objects), Midway(old, own)
      PROVE  \E p \in Nat :
               /\ p + 1 \in 1 .. Len(own.credentialFrom) /\ source = own.credentialFrom[p + 1]
               /\ SourcesRead(own, p, old.credFrom)
               /\ Tail(old.from) \in Seq(Objects \cup {NoValue})
               /\ Remaining(Tail(old.from), own.credentialFrom, p + 1)
  <2>1. /\ own.credentialFrom \in Seq(Objects \cup {NoValue}) /\ old.from \in Seq(Objects \cup {NoValue})
        /\ Len(own.credentialFrom) \in Nat
    BY <1>3, YAMLFacts DEF Midway
  <2>2. PICK p \in 0 .. Len(own.credentialFrom) :
          Remaining(old.from, own.credentialFrom, p) /\ SourcesRead(own, p, old.credFrom)
    BY <1>3 DEF Midway
  <2>3. p \in Nat
    BY <2>1, <2>2
  <2> QED
    BY <1>1, <1>2, <2>1, <2>2, <2>3, NextEntry
<1>4. CASE source = NoValue \/ objects[source] = {}
  <2>1. Fail(b)
    BY <1>1, <1>4 DEF getCredFromAllRefValues
  <2>2. ASSUME NEW own \in YAML(Objects), Midway(old, own)
        PROVE  ~Resolvable(own)
    <3>1. PICK p \in Nat : p + 1 \in 1 .. Len(own.credentialFrom) /\ source = own.credentialFrom[p + 1]
      BY <1>3, <2>2
    <3>2. p + 1 \in DOMAIN own.credentialFrom
      BY <3>1, YAMLFacts
    <3> QED
      BY <1>4, <3>1, <3>2 DEF Resolvable
  <2> QED
    BY <1>1, <1>2, <2>1, <2>2, Fails
<1>5. CASE source # NoValue /\ objects[source] # {}
  <2>1. PICK data \in objects[source] :
          Become(b, [resolve[b] EXCEPT !.from = Tail(@), !.credFrom = SetAll(@, data)])
    BY <1>1, <1>5 DEF getCredFromAllRefValues
  <2>2. PICK rest, m : rest = Tail(old.from) /\ m = SetAll(old.credFrom, data)
    OBVIOUS
  <2>3. PICK r : r = [old EXCEPT !.from = rest, !.credFrom = m]
    OBVIOUS
  <2> DEFINE new == [resolve[b] EXCEPT !.from = Tail(@), !.credFrom = SetAll(@, data)]
  <2>4. new = r
    BY <1>1, <2>2, <2>3
  <2> HIDE DEF new
  <2>5. Become(b, r)
    BY <2>1, <2>4 DEF new
  <2>6. /\ IsRecord(r) /\ Same(r, old) /\ r.pc = "resolve" /\ r.from = rest /\ r.vars = old.vars
        /\ r.credFrom = m /\ r.cred = old.cred
    <3>1. PICK f1, f2, f3, f4, f5, f6, f7, f8, f9, f10 :
            old = [pc |-> f1, chart |-> f2, release |-> f3, template |-> f4, bind |-> f5, from |-> f6,
                   vars |-> f7, credFrom |-> f8, cred |-> f9, changed |-> f10]
      BY <1>2 DEF BinderOK, IsRecord
    <3> QED
      BY <1>2, <2>3, <3>1 DEF IsRecord, Same
  <2>7. ASSUME NEW own \in YAML(Objects), Midway(old, own)
        PROVE  Midway(r, own)
    <3>1. PICK p \in Nat :
               /\ p + 1 \in 1 .. Len(own.credentialFrom) /\ source = own.credentialFrom[p + 1]
               /\ SourcesRead(own, p, old.credFrom)
               /\ Tail(old.from) \in Seq(Objects \cup {NoValue})
               /\ Remaining(Tail(old.from), own.credentialFrom, p + 1)
      BY <1>3, <2>7
    <3>2. SourcesRead(own, p + 1, m)
      BY <1>2, <1>5, <2>2, <3>1, SourceRead
    <3>3. p + 1 \in 0 .. Len(own.credentialFrom)
      BY <3>1
    <3> QED
      BY <2>2, <2>6, <2>7, <3>1, <3>2, <3>3 DEF Midway
  <2> QED
    BY <1>1, <1>2, <2>5, <2>6, <2>7, GoesOn
<1> QED
  BY <1>4, <1>5

(* Resolve returns.                                                        *)
LEMMA EndResolveKeeps ==
  ASSUME ResolverInv, NEW b \in Binders, endResolve(b), UNCHANGED driver
  PROVE  ResolverInv'
<1>1. PICK old : old = resolve[b]
  OBVIOUS
<1>2. /\ BinderOK(old) /\ old.pc = "resolve" /\ old.from = <<>> /\ old.vars = <<>>
      /\ UNCHANGED <<chartFiles, objects>>
  BY <1>1 DEF endResolve, ResolverInv
<1>3. PICK m : m = SetAll(old.credFrom, old.cred)
  OBVIOUS
<1>4. PICK r : r = [old EXCEPT !.pc = "done", !.credFrom = m]
  OBVIOUS
<1> DEFINE new == [resolve[b] EXCEPT !.pc = "done", !.credFrom = SetAll(@, resolve[b].cred)]
<1>5. Become(b, new)
  BY DEF endResolve
<1>6. new = r
  BY <1>1, <1>3, <1>4
<1> HIDE DEF new
<1>7. Become(b, r)
  BY <1>5, <1>6
<1>8. IsRecord(r) /\ Same(r, old) /\ r.pc = "done" /\ r.credFrom = m
  <2>1. PICK f1, f2, f3, f4, f5, f6, f7, f8, f9, f10 :
            old = [pc |-> f1, chart |-> f2, release |-> f3, template |-> f4, bind |-> f5, from |-> f6,
                   vars |-> f7, credFrom |-> f8, cred |-> f9, changed |-> f10]
    BY <1>2 DEF BinderOK, IsRecord
  <2> QED
    BY <1>4, <2>1 DEF IsRecord, Same
<1>9. BinderOK(r)
  BY <1>2, <1>8 DEF BinderOK, Same
<1>10. ASSUME ~r.changed
      PROVE  \E c \in Binders : Gives(c, b) /\ Follows(r, resolve[c].template)
  <2>1. ~resolve[b].changed /\ r.release = resolve[b].release
    BY <1>1, <1>8, <1>10 DEF Same
  <2>2. PICK c \in Binders, t \in Template, own \in YAML(Objects) :
           /\ Gives(c, b) /\ t = resolve[c].template /\ t.renders
           /\ own = Rendered(t, resolve[b].release) /\ Midway(old, own)
    BY <1>1, <1>2, <2>1, AtResolve
  <2>3. Len(<<>>) = 0 /\ Len(own.credentialFrom) \in Nat /\ Len(own.credential) \in Nat
    BY YAMLFacts, EmptySeq
  <2>4. SourcesRead(own, Len(own.credentialFrom), old.credFrom)
    BY <1>2, <2>2, <2>3 DEF Midway, Remaining
  <2>5. VariablesRead(own, Len(own.credential), old.cred)
    BY <1>2, <2>2, <2>3 DEF Midway, Remaining
  <2>6. Resolvable(own) /\ m = [k \in Wanted(own) |-> Credential(own, k)]
    BY <1>3, <2>4, <2>5, AllRead
  <2>7. Follows(r, t)
    BY <1>8, <2>1, <2>2, <2>6 DEF Follows
  <2> QED
    BY <2>2, <2>7
<1> QED
  BY <1>1, <1>2, <1>7, <1>8, <1>9, <1>10, Moves

(* The next variable.                                                      *)
LEMMA NextVariable ==
  ASSUME NEW r, r.vars # <<>>, NEW own \in YAML(Objects), Midway(r, own)
  PROVE  \E q \in Nat :
           /\ q + 1 \in 1 .. Len(own.credential) /\ Head(r.vars) = own.credential[q + 1]
           /\ VariablesRead(own, q, r.cred)
           /\ Tail(r.vars) \in Seq(CredentialVar(Objects))
           /\ Remaining(Tail(r.vars), own.credential, q + 1)
<1>1. /\ own.credential \in Seq(CredentialVar(Objects)) /\ r.vars \in Seq(CredentialVar(Objects))
      /\ Len(own.credential) \in Nat
  BY YAMLFacts DEF Midway
<1>2. PICK q \in 0 .. Len(own.credential) :
        Remaining(r.vars, own.credential, q) /\ VariablesRead(own, q, r.cred)
  BY DEF Midway
<1>3. q \in Nat
  BY <1>1, <1>2
<1> QED
  BY <1>1, <1>2, <1>3, NextEntry

(* Insert of the next variable.                                            *)
LEMMA InsertKeeps ==
  ASSUME ResolverInv, NEW b \in Binders, resolve[b].pc = "resolve", resolve[b].vars # <<>>,
         NEW v, v = Head(resolve[b].vars), v.source # NoValue,
         v.source # Literal => Has(v.source, v.key),
         NEW value, value = ValueOf(v), Insert(b, v.name, value),
         UNCHANGED <<chartFiles, objects, driver>>
  PROVE  ResolverInv'
<1>1. PICK old : old = resolve[b]
  OBVIOUS
<1>2. BinderOK(old) /\ old.pc = "resolve" /\ old.vars # <<>>
  BY <1>1 DEF ResolverInv
<1>3. CASE v.name \in DOMAIN old.cred
  <2>1. Fail(b)
    BY <1>1, <1>3 DEF Insert
  <2>2. ASSUME NEW own \in YAML(Objects), Midway(old, own)
        PROVE  ~Resolvable(own)
    <3>1. PICK q \in Nat : /\ q + 1 \in 1 .. Len(own.credential) /\ v = own.credential[q + 1]
                           /\ VariablesRead(own, q, old.cred)
      BY <1>1, <1>2, <2>2, NextVariable
    <3>2. PICK i \in NamedTo(own, q) : own.credential[i].name = v.name
      BY <1>3, <3>1 DEF VariablesRead
    <3>3. DOMAIN own.credential = 1 .. Len(own.credential) /\ Len(own.credential) \in Nat
      BY YAMLFacts
    <3>4. i \in Named(own) /\ q + 1 \in Named(own) /\ i # q + 1
      BY <3>1, <3>2, <3>3 DEF Named, NamedTo
    <3> QED
      BY <3>1, <3>2, <3>4 DEF Resolvable
  <2> QED
    BY <1>1, <1>2, <2>1, <2>2, Fails
<1>4. CASE v.name \notin DOMAIN old.cred
  <2> DEFINE new == [resolve[b] EXCEPT !.vars = Tail(@), !.cred = SetAll(@, [k \in {v.name} |-> value])]
  <2>1. Become(b, new)
    BY <1>1, <1>4 DEF Insert
  <2>2. PICK rest, m : rest = Tail(old.vars) /\ m = SetAll(old.cred, [k \in {v.name} |-> value])
    OBVIOUS
  <2>3. PICK r : r = [old EXCEPT !.vars = rest, !.cred = m]
    OBVIOUS
  <2>4. new = r
    BY <1>1, <2>2, <2>3
  <2> HIDE DEF new
  <2>5. Become(b, r)
    BY <2>1, <2>4
  <2>6. /\ IsRecord(r) /\ Same(r, old) /\ r.pc = "resolve" /\ r.from = old.from /\ r.vars = rest
        /\ r.credFrom = old.credFrom /\ r.cred = m
    <3>1. PICK f1, f2, f3, f4, f5, f6, f7, f8, f9, f10 :
            old = [pc |-> f1, chart |-> f2, release |-> f3, template |-> f4, bind |-> f5, from |-> f6,
                   vars |-> f7, credFrom |-> f8, cred |-> f9, changed |-> f10]
      BY <1>2 DEF BinderOK, IsRecord
    <3> QED
      BY <1>2, <2>3, <3>1 DEF IsRecord, Same
  <2>7. ASSUME NEW own \in YAML(Objects), Midway(old, own)
        PROVE  Midway(r, own)
    <3>1. PICK q \in Nat :
           /\ q + 1 \in 1 .. Len(own.credential) /\ v = own.credential[q + 1]
           /\ VariablesRead(own, q, old.cred)
           /\ rest \in Seq(CredentialVar(Objects))
           /\ Remaining(rest, own.credential, q + 1)
      BY <1>1, <1>2, <2>2, <2>7, NextVariable
    <3>2. q + 1 <= Len(own.credential) /\ q + 1 \in 0 .. Len(own.credential)
      BY <3>1
    <3>3. VariablesRead(own, q + 1, m)
      BY <1>4, <2>2, <3>1, <3>2, VariableRead
    <3> QED
      BY <2>6, <2>7, <3>1, <3>2, <3>3 DEF Midway
  <2> QED
    BY <1>1, <1>2, <2>5, <2>6, <2>7, GoesOn
<1> QED
  BY <1>3, <1>4

(* resolveCredential.                                                      *)
LEMMA VariableKeeps ==
  ASSUME ResolverInv, NEW b \in Binders, resolveCredential(b), UNCHANGED driver
  PROVE  ResolverInv'
<1>1. PICK old, v : old = resolve[b] /\ v = Head(old.vars)
  OBVIOUS
<1>2. /\ BinderOK(old) /\ old.pc = "resolve" /\ old.vars # <<>> /\ UNCHANGED <<chartFiles, objects>>
      /\ objects \in [Objects -> ObjectStates]
  BY <1>1 DEF resolveCredential, ResolverInv
<1>3. \/ v.source = Literal /\ Insert(b, v.name, Literal)
      \/ v.source = NoValue /\ Become(b, [resolve[b] EXCEPT !.vars = Tail(@)])
      \/ v.source \in Objects /\ getCredVarKeyRefValue(b, v)
  BY <1>1 DEF resolveCredential
<1>4. CASE v.source = Literal /\ Insert(b, v.name, Literal)
  <2>1. ValueOf(v) = Literal /\ v.source # NoValue
    BY <1>4, ResolverAssumption DEF ValueOf
  <2> QED
    BY <1>1, <1>2, <1>4, <2>1, InsertKeeps
<1>5. CASE v.source = NoValue /\ Become(b, [resolve[b] EXCEPT !.vars = Tail(@)])
  <2> DEFINE new == [resolve[b] EXCEPT !.vars = Tail(@)]
  <2>1. PICK rest : rest = Tail(old.vars)
    OBVIOUS
  <2>2. PICK r : r = [old EXCEPT !.vars = rest]
    OBVIOUS
  <2>3. new = r
    BY <1>1, <2>1, <2>2
  <2>4. Become(b, new)
    BY <1>5
  <2> HIDE DEF new
  <2>5. Become(b, r)
    BY <2>3, <2>4
  <2>6. /\ IsRecord(r) /\ Same(r, old) /\ r.pc = "resolve" /\ r.from = old.from /\ r.vars = rest
        /\ r.credFrom = old.credFrom /\ r.cred = old.cred
    <3>1. PICK f1, f2, f3, f4, f5, f6, f7, f8, f9, f10 :
            old = [pc |-> f1, chart |-> f2, release |-> f3, template |-> f4, bind |-> f5, from |-> f6,
                   vars |-> f7, credFrom |-> f8, cred |-> f9, changed |-> f10]
      BY <1>2 DEF BinderOK, IsRecord
    <3> QED
      BY <1>2, <2>2, <3>1 DEF IsRecord, Same
  <2>7. ASSUME NEW own \in YAML(Objects), Midway(old, own)
        PROVE  Midway(r, own)
    <3>1. PICK q \in Nat :
           /\ q + 1 \in 1 .. Len(own.credential) /\ v = own.credential[q + 1]
           /\ VariablesRead(own, q, old.cred)
           /\ rest \in Seq(CredentialVar(Objects))
           /\ Remaining(rest, own.credential, q + 1)
      BY <1>1, <1>2, <2>1, <2>7, NextVariable
    <3>2. q + 1 \in 0 .. Len(own.credential)
      BY <3>1
    <3>3. VariablesRead(own, q + 1, old.cred)
      BY <1>5, <3>1, VariablePassed
    <3> QED
      BY <2>6, <2>7, <3>1, <3>2, <3>3 DEF Midway
  <2> QED
    BY <1>1, <1>2, <2>5, <2>6, <2>7, GoesOn
<1>6. CASE v.source \in Objects /\ getCredVarKeyRefValue(b, v)
  <2>1. v.source # NoValue /\ v.source # Literal
    BY <1>6, ResolverAssumption
  <2>2. CASE Has(v.source, v.key)
    <3>1. PICK data \in objects[v.source] : Insert(b, v.name, data[v.key])
      BY <1>6, <2>2 DEF getCredVarKeyRefValue, Has
    <3>2. data[v.key] = ValueOf(v)
      BY <1>2, <1>6, <2>1, <3>1, ObjectFacts DEF ValueOf
    <3> QED
      BY <1>1, <1>2, <2>1, <2>2, <3>1, <3>2, InsertKeeps
  <2>3. CASE ~Has(v.source, v.key)
    <3>1. Fail(b)
      BY <1>6, <2>3 DEF getCredVarKeyRefValue, Has
    <3>2. ASSUME NEW own \in YAML(Objects), Midway(old, own)
          PROVE  ~Resolvable(own)
      <4>1. PICK q \in Nat : q + 1 \in 1 .. Len(own.credential) /\ v = own.credential[q + 1]
        BY <1>1, <1>2, <3>2, NextVariable
      <4>2. q + 1 \in Named(own)
        BY <2>1, <4>1, YAMLFacts DEF Named
      <4> QED
        BY <2>1, <2>3, <4>1, <4>2 DEF Resolvable
    <3> QED
      BY <1>1, <1>2, <3>1, <3>2, Fails
  <2> QED
    BY <2>2, <2>3
<1> QED
  BY <1>3, <1>4, <1>5, <1>6

(* An object changes: from now on nothing is claimed of whoever is binding.*)
LEMMA ChangeKeeps ==
  ASSUME ResolverInv, NEW o \in Objects, NEW data \in ObjectStates, ChangeObject(o, data),
         UNCHANGED driver
  PROVE  ResolverInv'
<1>1. /\ UNCHANGED chartFiles /\ objects' = [objects EXCEPT ![o] = data]
      /\ resolve' = [b \in Binders |-> [resolve[b] EXCEPT !.changed = resolve[b].pc # "none"]]
  BY DEF ChangeObject
<1>2. /\ (chartFiles = [ch \in ChartNames |-> chartFiles[ch]])'
      /\ (objects \in [Objects -> ObjectStates])'
  BY <1>1 DEF ResolverInv
<1>3. resolve' = [b \in Binders |-> resolve'[b]]
  BY <1>1
<1>4. ASSUME NEW b \in Binders
      PROVE  /\ BinderOK(resolve'[b]) /\ resolve'[b].pc = resolve[b].pc
             /\ resolve'[b].chart = resolve[b].chart /\ resolve'[b].template = resolve[b].template
             /\ resolve[b].pc # "none" => resolve'[b].changed
  <2>1. PICK r, q, x : r = resolve[b] /\ q = resolve'[b] /\ x = (r.pc # "none")
    OBVIOUS
  <2>2. q = [r EXCEPT !.changed = x] /\ BinderOK(r)
    BY <1>1, <2>1 DEF ResolverInv
  <2>3. /\ IsRecord(q) /\ q.pc = r.pc /\ q.changed = x
        /\ q.credFrom = r.credFrom /\ q.cred = r.cred
        /\ q.chart = r.chart /\ q.release = r.release /\ q.template = r.template
    BY <2>2, UpdateChanged DEF BinderOK
  <2>4. BinderOK(q)
    BY <2>2, <2>3 DEF BinderOK
  <2> QED
    BY <2>1, <2>3, <2>4
<1>5. \A c, d \in Binders : Gives(c, d) => Gives(c, d)'
  BY <1>4 DEF Gives
<1>6. ASSUME NEW d \in Binders, resolve'[d].pc = "render"
      PROVE  \E c \in Binders : Gives(c, d)' /\ FileOf(d)' = resolve'[c].template
  <2>1. PICK c \in Binders : Gives(c, d) /\ FileOf(d) = resolve[c].template
    BY <1>4, <1>6 DEF ResolverInv
  <2>2. FileOf(d)' = FileOf(d)
    BY <1>1, <1>4 DEF FileOf
  <2> QED
    BY <1>4, <1>5, <2>1, <2>2
<1>7. \A d \in Binders : resolve'[d].pc \in PastRender => resolve'[d].changed
  BY <1>4 DEF PastRender
<1> QED
  BY <1>2, <1>3, <1>4, <1>6, <1>7 DEF ResolverInv

(* What is bound is a plan of an addon that was loaded.                    *)
LEMMA BindPlanKeeps ==
  ASSUME ResolverInv, ServedInv, NEW b \in Binders, BindPlan(b)
  PROVE  ResolverInv'
<1>1. PICK c \in Configs, nv \in NVs, rel \in Releases : \E i \in DOMAIN served[c][nv].addon.plans :
        /\ served[c][nv] # NotServed
        /\ StartResolve(b, <<NamespaceOf[c], nv>>, rel, served[c][nv].addon.plans[i].template)
  BY DEF BindPlan
<1>2. PICK i \in DOMAIN served[c][nv].addon.plans :
        /\ served[c][nv] # NotServed
        /\ StartResolve(b, <<NamespaceOf[c], nv>>, rel, served[c][nv].addon.plans[i].template)
  BY <1>1
<1>3. PICK a, d : a = served[c][nv].addon /\ d = served[c][nv].dir
  OBVIOUS
<1>4. IsDirectory(d) /\ Loads(d) /\ \E m \in ToModel(d) : a = Stored(driver, m)
  BY <1>2, <1>3 DEF ServedInv, ServedOK
<1>5. PICK n \in DOMAIN d.plans : a.plans[i].template = d.plans[n].template
  BY <1>2, <1>3, <1>4, ModelFacts DEF ServedInv
<1>6. d.plans[n] \in Plan
  BY <1>4, <1>5 DEF IsDirectory, Loads, createsForm
<1>7. a.plans[i].template \in Template \cup {Nil}
  BY <1>5, <1>6, ResolverAssumption DEF Plan
<1>8. <<NamespaceOf[c], nv>> \in ChartNames /\ UNCHANGED driver
  BY OfferAssumption DEF BindPlan
<1> QED
  BY <1>2, <1>3, <1>7, <1>8, StartKeeps

(* Nothing that resolves changes.                                          *)
LEMMA ResolverUnchanged ==
  ASSUME ResolverInv, UNCHANGED <<resolverVars, driver>>
  PROVE  ResolverInv'
<1>1. UNCHANGED <<chartFiles, objects, resolve, driver>>
  BY DEF resolverVars
<1>2. /\ (resolve = [b \in Binders |-> resolve[b]])'
      /\ (chartFiles = [ch \in ChartNames |-> chartFiles[ch]])'
      /\ (objects \in [Objects -> ObjectStates])'
      /\ \A b \in Binders : BinderOK(resolve'[b])
  BY <1>1 DEF ResolverInv
<1>3. \A c, d \in Binders : (Gives(c, d)' <=> Gives(c, d)) /\ FileOf(d)' = FileOf(d)
  BY <1>1 DEF Gives, FileOf
<1>4. \A d \in Binders : resolve'[d].pc = "render" =>
        \E c \in Binders : Gives(c, d)' /\ FileOf(d)' = resolve'[c].template
  BY <1>1, <1>3 DEF ResolverInv
<1>5. ASSUME NEW d \in Binders, resolve'[d].pc \in PastRender, ~resolve'[d].changed
      PROVE  \E c \in Binders : Gives(c, d)' /\ Follows(resolve[d], resolve[c].template)'
  <2>1. PICK c \in Binders : Gives(c, d) /\ Follows(resolve[d], resolve[c].template)
    BY <1>1, <1>5 DEF ResolverInv
  <2>2. PICK q, t : q = resolve[d] /\ t = resolve[c].template
    OBVIOUS
  <2>3. Follows(q, t)'
    BY <1>1, <2>1, <2>2, FollowsKept
  <2>4. q = resolve'[d] /\ t = resolve'[c].template
    BY <1>1, <2>2
  <2>5. Follows(resolve[d], resolve[c].template)'
    BY <2>3, <2>4
  <2> QED
    BY <1>3, <2>1, <2>5
<1> QED
  BY <1>2, <1>4, <1>5 DEF ResolverInv

(* Every step keeps ResolverInv ...                                        *)
LEMMA ResolverStep ==
  ASSUME ResolverInv, ServedInv, [OfferNext]_offerVars
  PROVE  ResolverInv'
<1>1. ASSUME NEW c \in Configs, Reconcile(c) /\ UNCHANGED <<resolverVars, driver, served, changes>>
      PROVE  ResolverInv'
  BY <1>1, ResolverUnchanged
<1>2. ASSUME NEW w \in Controllers,
             \/ (LoadStep(w) \/ Restart(w)) /\ UNCHANGED <<resolverVars, driver, served, changes>>
             \/ Publish(w)
      PROVE  ResolverInv'
  BY <1>2, ResolverUnchanged DEF Publish
<1>3. ASSUME NEW b \in Binders, BindPlan(b)
      PROVE  ResolverInv'
  BY <1>3, BindPlanKeeps
<1>4. ASSUME NEW b \in Binders, ResolveStep(b), UNCHANGED <<loadingVars, driver, served, changes>>
      PROVE  ResolverInv'
  <2>1. UNCHANGED driver
    BY <1>4
  <2> QED
    BY <1>4, <2>1, AppendKeeps, RenderKeeps, SourceKeeps, VariableKeeps, EndResolveKeeps
    DEF ResolveStep
<1>5. CASE Change
  <2>1. PICK o \in Objects, data \in ObjectData : ChangeObject(o, data) /\ UNCHANGED driver
    BY <1>5 DEF Change
  <2>2. data \in ObjectStates
    BY OfferAssumption
  <2> QED
    BY <2>1, <2>2, ChangeKeeps
<1>6. CASE UNCHANGED offerVars
  BY <1>6, ResolverUnchanged DEF offerVars
<1> QED
  BY <1>1, <1>2, <1>3, <1>4, <1>5, <1>6 DEF OfferNext

(* ... which holds when nobody binds yet.                                  *)
LEMMA ResolverAtFirst ==
  ASSUME OfferInit
  PROVE  ResolverInv
<1>1. /\ chartFiles = [ch \in ChartNames |-> Nil] /\ resolve = [b \in Binders |-> NotBinding]
      /\ objects = InitialData
  BY DEF OfferInit, ResolverInit
<1>2. IsRecord(NotBinding) /\ NotBinding.pc = "none"
  BY DEF IsRecord, NotBinding
<1>3. objects \in [Objects -> ObjectStates]
  BY <1>1, OfferAssumption
<1>4. \A b \in Binders : resolve[b].pc = "none" /\ BinderOK(resolve[b])
  BY <1>1, <1>2 DEF BinderOK
<1> QED
  BY <1>1, <1>3, <1>4 DEF ResolverInv, PastRender

(* An undisturbed goroutine has resolved the template of its own plan.     *)
LEMMA ResolvedAsOwn ==
  ASSUME ResolverInv
  PROVE  ResolvedByPolicy
<1>1. ASSUME NEW b \in Binders, ~resolve[b].changed, Undisturbed(b), resolve[b].pc \in PastRender
      PROVE  Follows(resolve[b], resolve[b].template)
  <2>1. PICK c \in Binders : Gives(c, b) /\ Follows(resolve[b], resolve[c].template)
    BY <1>1 DEF ResolverInv
  <2>2. resolve[c].template = resolve[b].template
    BY <1>1, <2>1 DEF Undisturbed, Gives
  <2> QED
    BY <2>1, <2>2
<1> QED
  BY <1>1 DEF ResolvedByPolicy, Follows, PastRender

(* Resolve policy rules 1 to 3 (bind/resolver.go), for templates of any    *)
(* length and any number of goroutines: what Resolve returns, reading one  *)
(* object after the other, is what its rules say of the bind.yaml of the   *)
(* plan, and it fails only where they cannot be met, unless an object has  *)
(* changed meanwhile or, with the memory driver, another goroutine has     *)
(* added another bind.yaml to the same chart.                              *)
THEOREM Offer_ResolvedByPolicy == OfferSpec => []ResolvedByPolicy
<1>1. OfferInit => ResolverInv
  BY ResolverAtFirst
<1>2. OfferInv /\ ResolverInv /\ [OfferNext]_offerVars => ResolverInv'
  BY ResolverStep DEF OfferInv
<1>3. ResolverInv => ResolvedByPolicy
  BY ResolvedAsOwn
<1> QED
  BY <1>1, <1>2, <1>3, Offer_Invariant, PTL DEF OfferSpec
=============================================================================
