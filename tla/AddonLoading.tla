---------------------------- MODULE AddonLoading ----------------------------
(***************************************************************************)
(* How the two controllers load the repositories of a configuration:       *)
(* loadRepositories and createAddons of controller/common.go, the URL      *)
(* templates of controller/repository/template.go, the getters of          *)
(* addon/provider and the upload of documentation of rafter.               *)
(*                                                                         *)
(* Each controller has one configuration at a time.  They are goroutines   *)
(* of one process and share the Template service, which only the one for   *)
(* namespaces gives a namespace, and a directory for temporary files,      *)
(* where the archive of an addon's documentation has the name and version  *)
(* of the addon in its name.                                               *)
(***************************************************************************)
EXTENDS AddonForm

CONSTANTS
  Namespaces,      \* namespaces
  Cluster,         \* no namespace
  Configs,         \* configurations
  NamespaceOf,     \* NamespaceOf[c]: where configuration c is
  Repositories,    \* repositories
  ConfigOf,        \* ConfigOf[r]: the configuration that has repository r
  Protocol,        \* Protocol[r]: "git" (or hg or s3), "https", another one, or Nil without a URL
  SecretOf,        \* SecretOf[r]: the namespace that secretRef of a URL with templates names
  Secrets,         \* the namespaces that have the Secret
  NVs,             \* names and versions of addons
  Index,           \* Index[r]: the addons in the index of repository r
  Contents,        \* Contents[r]: what the directory of an addon may have
  DocumentationEnabled,  \* whether documentation is wanted
  MaxLoads,        \* bound on reconciliations
  MaxLoadFaults    \* bound on errors while loading

(* SecretOf is NoTemplate for a URL that is complete, NoSecretRef if it    *)
(* needs a Secret and names none, and Cluster if it names no namespace.    *)
CONSTANTS NoTemplate, NoSecretRef

RepositoriesOf(c) == {r \in Repositories : ConfigOf[r] = c}

ASSUME LoadingAssumption ==
  /\ NamespaceOf \in [Configs -> Namespaces \cup {Cluster}]
  /\ ConfigOf \in [Repositories -> Configs]
  /\ SecretOf \in [Repositories -> Namespaces \cup {Cluster, NoTemplate, NoSecretRef}]
  /\ Secrets \subseteq Namespaces
  /\ Index \in [Repositories -> SUBSET NVs]
  /\ \A r, q \in Repositories :
       r # q /\ ConfigOf[r] = ConfigOf[q] => Index[r] \cap Index[q] = {}
  /\ \A r \in Repositories : \A d \in Contents[r] : IsDirectory(d)
  /\ MaxLoads \in Nat /\ MaxLoadFaults \in Nat
  /\ Cluster \notin Namespaces
  /\ Nil \notin Configs \cup {"Ready"}

VARIABLES
  templateNS,   \* the namespace of the Template service
  asked,        \* asked[r]: the namespace the Secret for r was asked for in
  tgz,          \* tgz[nv]: whose documentation is in docs-<nv>.tgz
  tmp,          \* number of other temporary directories
  loading,      \* loading[w]: what controller w is loading
  result,       \* result[r]: status of repository r as far as it is loaded
  entry,        \* entry[r][nv]: status of addon nv of r as far as it is loaded
  loads, loadFaults

loadingVars == <<templateNS, asked, tgz, tmp, loading, result, entry, loads, loadFaults>>

-----------------------------------------------------------------------------
Controllers == {"AddonsController", "ClusterAddonsController"}
ControllerOf(c) ==
  IF NamespaceOf[c] = Cluster THEN "ClusterAddonsController" ELSE "AddonsController"

NotLoading == [pc |-> "idle", cfg |-> Nil, repos |-> {}, repo |-> Nil, entries |-> {},
               nv |-> Nil, dir |-> Nil, docs |-> Nil]

(* An entry of a repository, with the directory it was loaded from and the *)
(* place of its documentation.                                             *)
NotLoaded == [status |-> Nil, dir |-> Nil, addon |-> Nil, docs |-> Nil]
Failed(reason) == [NotLoaded EXCEPT !.status = reason]

LoadFault == loadFaults < MaxLoadFaults /\ loadFaults' = loadFaults + 1

Put(w, l) == loading' = [loading EXCEPT ![w] = l]
PC(w) == loading[w].pc
Repo(w) == loading[w].repo

-----------------------------------------------------------------------------
(* Mutation: the controller for the cluster sets the namespace, too.       *)
SetClusterToo(c) == NamespaceOf[c]

(* Reconcile; only the controller for namespaces calls                     *)
(* SetWorkingNamespace, which sets that of the Template service.           *)
SetWorkingNamespace(c) == IF NamespaceOf[c] = Cluster THEN templateNS ELSE NamespaceOf[c]

Reconcile(c) ==
  LET w == ControllerOf(c) IN
  /\ PC(w) = "idle"
  /\ loads < MaxLoads
  /\ loads' = loads + 1
  /\ templateNS' = SetWorkingNamespace(c)
  /\ Put(w, [NotLoading EXCEPT !.pc = "next", !.cfg = c, !.repos = RepositoriesOf(c)])
  /\ UNCHANGED <<asked, tgz, tmp, result, entry, loadFaults>>

(* loadRepositories takes up the next repository.                          *)
loadRepositories(w) ==
  /\ PC(w) = "next"
  /\ \E r \in loading[w].repos :
       LET rest == [loading[w] EXCEPT !.repos = @ \ {r}] IN
       \/ /\ Protocol[r] = Nil
          /\ result' = [result EXCEPT ![r] = "EmptyURLError"]
          /\ Put(w, rest)
       \/ /\ Protocol[r] # Nil
          /\ Put(w, [rest EXCEPT !.pc = "template", !.repo = r])
          /\ UNCHANGED result
  /\ UNCHANGED <<templateNS, asked, tgz, tmp, entry, loads, loadFaults>>

(* The repository is done with, for better or worse.                       *)
Finish(w, status) ==
  /\ result' = [result EXCEPT ![Repo(w)] = status]
  /\ Put(w, [NotLoading EXCEPT !.pc = "next", !.cfg = loading[w].cfg, !.repos = loading[w].repos])

(* TemplateURL: the namespace of secretRef, or the one that is set now.    *)
TemplateURL(w) ==
  LET ref == SecretOf[Repo(w)]
      fetchNS == IF ref = Cluster THEN templateNS ELSE ref IN
  /\ PC(w) = "template"
  /\ asked' = [asked EXCEPT ![Repo(w)] = IF ref \in {NoTemplate, NoSecretRef} THEN Nil ELSE fetchNS]
  /\ IF ref = NoTemplate \/ (ref # NoSecretRef /\ fetchNS \in Secrets)
       THEN Put(w, [loading[w] EXCEPT !.pc = "getter"]) /\ UNCHANGED result
       ELSE Finish(w, "TemplatingError")
  /\ UNCHANGED <<templateNS, tgz, tmp, entry, loads, loadFaults>>

(* NewClientModeDirGetter clones the repository to a directory of its own. *)
(* What a clone that fails has left there stays, since there is no getter  *)
(* to clean up.                                                            *)
NewClientModeDirGetter(w) ==
  /\ Protocol[Repo(w)] = "git"
  /\ \/ /\ tmp' = tmp + 1
        /\ Put(w, [loading[w] EXCEPT !.pc = "index"])
        /\ UNCHANGED <<result, loadFaults>>
     \/ /\ LoadFault
        /\ tmp' \in {tmp, tmp + 1}
        /\ Finish(w, "FetchingError")

NewHTTP(w) ==
  /\ Protocol[Repo(w)] = "https"
  /\ tmp' = tmp + 1
  /\ Put(w, [loading[w] EXCEPT !.pc = "index"])
  /\ UNCHANGED <<result, loadFaults>>

(* NewGetter, which does not know every protocol.                          *)
NewGetter(w) ==
  /\ PC(w) = "getter"
  /\ \/ NewClientModeDirGetter(w)
     \/ NewHTTP(w)
     \/ /\ Protocol[Repo(w)] \notin {"git", "https"}
        /\ Finish(w, "FetchingError")
        /\ UNCHANGED <<tmp, loadFaults>>
  /\ UNCHANGED <<templateNS, asked, tgz, entry, loads>>

(* createAddons returns: Cleanup removes the directory.                    *)
Cleanup(w, status) == Finish(w, status) /\ tmp' = tmp - 1

GetIndex(w) ==
  /\ PC(w) = "index"
  /\ \/ /\ Put(w, [loading[w] EXCEPT !.pc = "entry", !.entries = Index[Repo(w)]])
        /\ UNCHANGED <<tmp, result, loadFaults>>
     \/ LoadFault /\ Cleanup(w, "FetchingError")
  /\ UNCHANGED <<templateNS, asked, tgz, entry, loads>>

endIndex(w) ==
  /\ PC(w) = "entry"
  /\ loading[w].entries = {}
  /\ Cleanup(w, "fetched")
  /\ UNCHANGED <<templateNS, asked, tgz, entry, loads, loadFaults>>

(* An addon is done with.                                                  *)
SetEntry(w, nv, e) ==
  /\ entry' = [entry EXCEPT ![Repo(w)][nv] = e]
  /\ Put(w, [loading[w] EXCEPT !.pc = "entry", !.entries = @ \ {nv}, !.nv = Nil, !.dir = Nil,
                               !.docs = Nil])

Loaded(d, a, docs) == [status |-> "Ready", dir |-> d, addon |-> a, docs |-> docs]

(* The archive of an addon cannot be downloaded.                           *)
AddonLoadInfoFails(w, nv) ==
  /\ LoadFault
  /\ SetEntry(w, nv, Failed("FetchingError"))
  /\ UNCHANGED tmp

(* The archive is unpacked to a directory, which stays if that fails half  *)
(* way.                                                                    *)
unpackArchiveFails(w, nv) ==
  /\ LoadFault
  /\ SetEntry(w, nv, Failed("LoadingError"))
  /\ tmp' = tmp + 1

(* GetCompleteAddon: the directory of the addon is in the clone, or its    *)
(* archive is downloaded and unpacked to a directory beside the getter's.  *)
GetAddon(w) ==
  /\ PC(w) = "entry"
  /\ \E nv \in loading[w].entries :
       \/ /\ \E d \in Contents[Repo(w)] :
               Put(w, [loading[w] EXCEPT !.pc = "load", !.nv = nv, !.dir = d])
          /\ tmp' = IF Protocol[Repo(w)] = "https" THEN tmp + 1 ELSE tmp
          /\ UNCHANGED <<entry, loadFaults>>
       \/ /\ Protocol[Repo(w)] = "https"
          /\ AddonLoadInfoFails(w, nv) \/ unpackArchiveFails(w, nv)
  /\ UNCHANGED <<templateNS, asked, tgz, result, loads>>

(* Mutation: what was unpacked is removed only if it could be loaded.      *)
KeepUnpacked(w) ==
  /\ PC(w) = "load"
  /\ IF Loads(loading[w].dir) THEN Put(w, [loading[w] EXCEPT !.pc = "docs"]) /\ UNCHANGED entry
     ELSE SetEntry(w, loading[w].nv, Failed("LoadingError"))
  /\ tmp' = IF Protocol[Repo(w)] = "https" /\ Loads(loading[w].dir) THEN tmp - 1 ELSE tmp
  /\ UNCHANGED <<templateNS, asked, tgz, result, loads, loadFaults>>

(* loadDir, and what was unpacked is removed when it returns, loaded or    *)
(* not.                                                                    *)
Load(w) ==
  /\ PC(w) = "load"
  /\ IF Loads(loading[w].dir) THEN Put(w, [loading[w] EXCEPT !.pc = "docs"]) /\ UNCHANGED entry
     ELSE SetEntry(w, loading[w].nv, Failed("LoadingError"))
  /\ tmp' = IF Protocol[Repo(w)] = "https" THEN tmp - 1 ELSE tmp
  /\ UNCHANGED <<templateNS, asked, tgz, result, loads, loadFaults>>

Ready(w, docs) ==
  \E a \in ToModel(loading[w].dir) :
    SetEntry(w, loading[w].nv, Loaded(loading[w].dir, a, docs))

(* AddonDocURL: the URL of the archive for https, nothing for a repository *)
(* without docs/, and otherwise docs/ is archived and uploaded.            *)
AddonDocURL(w) ==
  /\ PC(w) = "docs"
  /\ \/ DocumentationEnabled /\ Protocol[Repo(w)] = "https" /\ Ready(w, Repo(w))
     \/ /\ DocumentationEnabled => Protocol[Repo(w)] # "https" /\ loading[w].dir.docs = Nil
        /\ Ready(w, Nil)
     \/ /\ DocumentationEnabled /\ Protocol[Repo(w)] # "https" /\ loading[w].dir.docs # Nil
        /\ Put(w, [loading[w] EXCEPT !.pc = "archive"])
        /\ UNCHANGED entry
  /\ UNCHANGED <<templateNS, asked, tgz, tmp, result, loads, loadFaults>>

(* Mutation: one archive for all addons.                                   *)
OneTgz(nv) == CHOOSE n \in NVs : TRUE

(* The archive an addon's documentation is put in; "partial" while it is   *)
(* being written.                                                          *)
TgzOf(nv) == nv

Archive(w) ==
  LET f == TgzOf(loading[w].nv) IN
  /\ PC(w) = "archive"
  /\ tgz' = [tgz EXCEPT ![f] = "partial"]
  /\ Put(w, [loading[w] EXCEPT !.pc = "write"])
  /\ UNCHANGED <<templateNS, asked, tmp, result, entry, loads, loadFaults>>

(* The archive is written, or that fails, which leaves what there is of    *)
(* it.  Somebody else may have removed or replaced the file meanwhile.  If *)
(* two write to it, the outcome may be neither's.                          *)
WriteArchive(w) ==
  LET f == TgzOf(loading[w].nv) IN
  /\ PC(w) = "write"
  /\ \/ /\ \E c \in IF tgz[f] = "partial" /\ \A v \in Controllers \ {w} :
                                               PC(v) = "write" => TgzOf(loading[v].nv) # f
                    THEN {Repo(w)} ELSE IF tgz[f] = Nil THEN {Nil} ELSE {Repo(w), "partial", tgz[f]} :
             tgz' = [tgz EXCEPT ![f] = c]
        /\ Put(w, [loading[w] EXCEPT !.pc = "read"])
        /\ UNCHANGED <<entry, loadFaults>>
     \/ /\ LoadFault
        /\ SetEntry(w, loading[w].nv, Failed("LoadingError"))
        /\ UNCHANGED tgz
  /\ UNCHANGED <<templateNS, asked, tmp, result, loads>>

(* The archive is opened and read, and removed if that fails.              *)
ReadArchive(w) ==
  LET f == TgzOf(loading[w].nv) IN
  /\ PC(w) = "read"
  /\ IF tgz[f] = Nil THEN SetEntry(w, loading[w].nv, Failed("LoadingError"))
     ELSE Put(w, [loading[w] EXCEPT !.pc = "upload", !.docs = tgz[f]]) /\ UNCHANGED entry
  /\ UNCHANGED <<templateNS, asked, tgz, tmp, result, loads, loadFaults>>

(* Upload of rafter, and the archive is removed whatever it returns.       *)
Upload(w) ==
  /\ PC(w) = "upload"
  /\ tgz' = [tgz EXCEPT ![TgzOf(loading[w].nv)] = Nil]
  /\ \/ Ready(w, loading[w].docs) /\ UNCHANGED loadFaults
     \/ LoadFault /\ SetEntry(w, loading[w].nv, Failed("LoadingError"))
  /\ UNCHANGED <<templateNS, asked, tmp, result, loads>>

(* The repositories of some configurations are forgotten.                  *)
Forget(C) ==
  /\ asked' = [r \in Repositories |-> IF ConfigOf[r] \in C THEN Nil ELSE asked[r]]
  /\ result' = [r \in Repositories |-> IF ConfigOf[r] \in C THEN Nil ELSE result[r]]
  /\ entry' = [r \in Repositories |->
                 IF ConfigOf[r] \in C THEN [nv \in NVs |-> NotLoaded] ELSE entry[r]]

(* loadRepositories returns.                                               *)
EndLoad(w) ==
  /\ PC(w) = "next"
  /\ loading[w].repos = {}
  /\ Put(w, NotLoading)
  /\ Forget({loading[w].cfg})
  /\ UNCHANGED <<templateNS, tgz, tmp, loads, loadFaults>>

(* The process restarts, with the files it had: it may be killed anywhere, *)
(* and a version in an index that is no semantic one makes                 *)
(* NewRepositoryEntry panic.                                               *)
Restart(w) ==
  /\ PC(w) # "idle"
  /\ LoadFault
  /\ loading' = [v \in Controllers |-> NotLoading]
  /\ templateNS' = Cluster
  /\ Forget(Configs)
  /\ UNCHANGED <<tgz, tmp, loads>>

LoadStep(w) ==
  \/ loadRepositories(w) \/ TemplateURL(w) \/ NewGetter(w) \/ GetIndex(w) \/ endIndex(w)
  \/ GetAddon(w) \/ Load(w) \/ AddonDocURL(w) \/ Archive(w) \/ WriteArchive(w) \/ ReadArchive(w)
  \/ Upload(w)

LoadingInit ==
  /\ templateNS = Cluster
  /\ asked = [r \in Repositories |-> Nil]
  /\ tgz = [nv \in NVs |-> Nil]
  /\ tmp = 0
  /\ loading = [w \in Controllers |-> NotLoading]
  /\ result = [r \in Repositories |-> Nil]
  /\ entry = [r \in Repositories |-> [nv \in NVs |-> NotLoaded]]
  /\ loads = 0 /\ loadFaults = 0

-----------------------------------------------------------------------------
(* The Secret for the URLs of a configuration in a namespace is taken from *)
(* that namespace, or the one secretRef names, although the namespace of   *)
(* the Template service is set once for all repositories and both          *)
(* controllers use the service.  (A configuration of the cluster that      *)
(* names no namespace gets whatever was set last.)                         *)
SecretOfConfiguration ==
  \A r \in Repositories : asked[r] # Nil =>
    /\ SecretOf[r] \in Namespaces => asked[r] = SecretOf[r]
    /\ SecretOf[r] = Cluster /\ NamespaceOf[ConfigOf[r]] # Cluster
         => asked[r] = NamespaceOf[ConfigOf[r]]

SharesArchive(r, nv) ==
  \E q \in Repositories : /\ nv \in Index[q] /\ Protocol[q] = "git"
                          /\ ControllerOf(ConfigOf[q]) # ControllerOf(ConfigOf[r])

(* The documentation of an addon is the one in its own repository, and is  *)
(* whole, if there is one, although both controllers archive documentation *)
(* in one directory; unless the other one loads an addon of the same name  *)
(* and version.                                                            *)
DocsOfAddon ==
  \A r \in Repositories, nv \in NVs :
    entry[r][nv].status = "Ready" /\ ~SharesArchive(r, nv) =>
      entry[r][nv].docs =
        IF DocumentationEnabled /\ (Protocol[r] = "https" \/ entry[r][nv].dir.docs # Nil) THEN r ELSE Nil

(* The temporary directory, whose size is limited, does not fill up: when  *)
(* nothing is being loaded there is nothing in it unless something went    *)
(* wrong, and no more than a restart leaves, which are the directories of  *)
(* the getter and of the addon being loaded of each controller.            *)
LittleIsLeft ==
  /\ tmp >= 0
  /\ (\A w \in Controllers : PC(w) = "idle") =>
       /\ tmp <= 4 * loadFaults
       /\ loadFaults = 0 => \A nv \in NVs : tgz[nv] = Nil
=============================================================================
