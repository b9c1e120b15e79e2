---------------------------- MODULE BindResolver ----------------------------
(***************************************************************************)
(* Credentials of a binding: bind.yaml is rendered as one more template of *)
(* the chart (bind/renderer.go) and resolved (bind/resolver.go) from the   *)
(* ConfigMaps, Secrets and Services of the release, which are read one     *)
(* after the other, while they may change.                                 *)
(*                                                                         *)
(* bind.yaml has two lists.  credentialFrom names objects all of whose     *)
(* keys are wanted.  credential names variables with a value, or with the  *)
(* key of an object, or with neither.                                      *)
(*                                                                         *)
(* The goroutines of Bind run side by side.  With the memory driver they   *)
(* have the chart itself, with the etcd driver each has a copy.            *)
(***************************************************************************)
EXTENDS AddonForm, Sequences

CONSTANTS
  Binders,     \* goroutines of Bind
  Releases,    \* releases of instances
  Roles,       \* what a chart names its objects by, next to the name of the release
  Keys,        \* names of variables, and keys of objects
  Values,      \* values of keys
  ChartNames,  \* charts
  Literal,     \* a value that bind.yaml itself has
  NoValue      \* a variable or source that names nothing

VARIABLES
  driver,      \* the storage driver
  chartFiles,  \* chartFiles[ch]: the bind.yaml last added to the chart the memory driver has
  objects,     \* objects[o]: the data of object o, in a set that is empty if there is no o
  resolve      \* resolve[b]: what goroutine b is doing

resolverVars == <<chartFiles, objects, resolve>>

Objects == Releases \X Roles
Data == UNION {[K -> Values] : K \in SUBSET Keys}

(* An object has its data, or there is none of the name.                   *)
ObjectStates == {{}} \cup {{data} : data \in Data}

(* YAML, with roles in the template and objects once it is rendered.       *)
CredentialVar(S) == [name : Keys, source : S \cup {Literal, NoValue}, key : Keys]
YAML(S) == [credentialFrom : Seq(S \cup {NoValue}), credential : Seq(CredentialVar(S))]

(* A template that Helm cannot render, or that is no YAML then, does not   *)
(* render.                                                                 *)
Template == [renders : BOOLEAN, yaml : YAML(Roles)]

(* The files bind.yaml are such templates, and what stands for a value or  *)
(* for nothing is no object.                                               *)
ASSUME ResolverAssumption ==
  /\ Templates \subseteq Template
  /\ Literal # NoValue /\ Literal \notin Objects /\ NoValue \notin Objects

EmptyYAML == [credentialFrom |-> <<>>, credential |-> <<>>]
Nothing == [k \in {} |-> Literal]

(* The template of the plan, what it was rendered to, what is left of the  *)
(* two lists, and the two maps; changed tells whether an object has        *)
(* changed meanwhile.                                                      *)
NotBinding == [pc |-> "none", chart |-> Nil, release |-> Nil, template |-> Nil,
               bind |-> EmptyYAML, from |-> <<>>, vars |-> <<>>,
               credFrom |-> Nothing, cred |-> Nothing, changed |-> FALSE]

(* Mutation: what is set first stays.                                      *)
KeepFirst(m, n) == [k \in DOMAIN m \cup DOMAIN n |-> IF k \in DOMAIN m THEN m[k] ELSE n[k]]

(* Set of credentials, of all that is in n.                                *)
SetAll(m, n) == [k \in DOMAIN m \cup DOMAIN n |-> IF k \in DOMAIN n THEN n[k] ELSE m[k]]

-----------------------------------------------------------------------------
Become(b, r) == resolve' = [resolve EXCEPT ![b] = r]
Fail(b) == Become(b, [resolve[b] EXCEPT !.pc = "failed"])

(* renderAndResolveBindData.  A plan without bind.yaml has an empty one.   *)
StartResolve(b, ch, rel, t) ==
  /\ resolve[b].pc = "none"
  /\ Become(b, [NotBinding EXCEPT !.pc = "append", !.chart = ch, !.release = rel,
                                  !.template = IF t = Nil THEN [renders |-> TRUE, yaml |-> EmptyYAML] ELSE t])
  /\ UNCHANGED <<chartFiles, objects>>

(* Render adds bind.yaml to the templates of the chart ...                 *)
AppendTemplate(b) ==
  /\ resolve[b].pc = "append"
  /\ chartFiles' = [chartFiles EXCEPT ![resolve[b].chart] =
                      IF driver = "memory" THEN resolve[b].template ELSE @]
  /\ Become(b, [resolve[b] EXCEPT !.pc = "render"])
  /\ UNCHANGED objects

(* ... which are all rendered; of files with one name the last is taken.   *)
FileOf(b) == IF driver = "memory" THEN chartFiles[resolve[b].chart] ELSE resolve[b].template

(* The objects a template names for a release.                             *)
ObjectIn(rel, x) == IF x \in Roles THEN <<rel, x>> ELSE x
Rendered(t, rel) ==
  [credentialFrom |-> [i \in DOMAIN t.yaml.credentialFrom |-> ObjectIn(rel, t.yaml.credentialFrom[i])],
   credential |-> [i \in DOMAIN t.yaml.credential |->
                     [t.yaml.credential[i] EXCEPT !.source = ObjectIn(rel, @)]]]

Render(b) ==
  LET bind == Rendered(FileOf(b), resolve[b].release) IN
  /\ resolve[b].pc = "render"
  /\ IF FileOf(b).renders
       THEN Become(b, [resolve[b] EXCEPT !.pc = "resolve", !.bind = bind,
                                         !.from = bind.credentialFrom, !.vars = bind.credential])
       ELSE Fail(b)
  /\ UNCHANGED <<chartFiles, objects>>

(* getCredFromAllRefValues of the next source: all its values (policy 1).  *)
getCredFromAllRefValues(b) ==
  LET source == Head(resolve[b].from) IN
  /\ resolve[b].pc = "resolve"
  /\ resolve[b].from # <<>>
  /\ IF source = NoValue \/ objects[source] = {} THEN Fail(b)
     ELSE \E data \in objects[source] :
            Become(b, [resolve[b] EXCEPT !.from = Tail(@), !.credFrom = SetAll(@, data)])
  /\ UNCHANGED <<chartFiles, objects>>

(* Insert of credentials (policy 2).                                       *)
Insert(b, name, value) ==
  IF name \in DOMAIN resolve[b].cred THEN Fail(b)
  ELSE Become(b, [resolve[b] EXCEPT !.vars = Tail(@),
                                    !.cred = SetAll(@, [k \in {name} |-> value])])

(* getCredVarKeyRefValue of the next variable.                             *)
getCredVarKeyRefValue(b, v) ==
  IF \E data \in objects[v.source] : v.key \in DOMAIN data
    THEN \E data \in objects[v.source] : Insert(b, v.name, data[v.key])
    ELSE Fail(b)

resolveCredential(b) ==
  LET v == Head(resolve[b].vars) IN
  /\ resolve[b].pc = "resolve"
  /\ resolve[b].from = <<>>
  /\ resolve[b].vars # <<>>
  /\ \/ v.source = Literal /\ Insert(b, v.name, Literal)
     \/ v.source = NoValue /\ Become(b, [resolve[b] EXCEPT !.vars = Tail(@)])
     \/ v.source \in Objects /\ getCredVarKeyRefValue(b, v)
  /\ UNCHANGED <<chartFiles, objects>>

(* Resolve returns credential over credentialFrom (policy 3).              *)
endResolve(b) ==
  /\ resolve[b].pc = "resolve"
  /\ resolve[b].from = <<>> /\ resolve[b].vars = <<>>
  /\ Become(b, [resolve[b] EXCEPT !.pc = "done", !.credFrom = SetAll(@, resolve[b].cred)])
  /\ UNCHANGED <<chartFiles, objects>>

ResolveStep(b) ==
  \/ AppendTemplate(b) \/ Render(b)
  \/ getCredFromAllRefValues(b) \/ resolveCredential(b) \/ endResolve(b)

(* An object is changed or deleted.                                        *)
ChangeObject(o, data) ==
  /\ data # objects[o]
  /\ objects' = [objects EXCEPT ![o] = data]
  /\ resolve' = [b \in Binders |-> [resolve[b] EXCEPT !.changed = resolve[b].pc # "none"]]
  /\ UNCHANGED chartFiles

ResolverInit ==
  /\ chartFiles = [ch \in ChartNames |-> Nil]
  /\ resolve = [b \in Binders |-> NotBinding]

-----------------------------------------------------------------------------
(* The rules Resolve states, for objects that stay as they are.  Variables *)
(* without a value or a source do not count.                               *)

Named(bind) == {i \in DOMAIN bind.credential : bind.credential[i].source # NoValue}

Has(o, k) == \E data \in objects[o] : k \in DOMAIN data
ValueAt(o, k) == (CHOOSE data \in objects[o] : TRUE)[k]

Resolvable(bind) ==
  /\ \A i \in DOMAIN bind.credentialFrom :
       bind.credentialFrom[i] # NoValue /\ objects[bind.credentialFrom[i]] # {}
  /\ \A i \in Named(bind) :
       bind.credential[i].source # Literal => Has(bind.credential[i].source, bind.credential[i].key)
  /\ \A i, j \in Named(bind) : bind.credential[i].name = bind.credential[j].name => i = j

Credential(bind, k) ==
  LET mine == {i \in Named(bind) : bind.credential[i].name = k}
      having == {i \in DOMAIN bind.credentialFrom : Has(bind.credentialFrom[i], k)}
      i == CHOOSE i \in mine : TRUE
      last == CHOOSE j \in having : \A l \in having : l <= j IN
  IF mine = {} THEN ValueAt(bind.credentialFrom[last], k)
  ELSE IF bind.credential[i].source = Literal THEN Literal
  ELSE ValueAt(bind.credential[i].source, bind.credential[i].key)

Wanted(bind) ==
  {bind.credential[i].name : i \in Named(bind)}
    \cup {k \in Keys : \E i \in DOMAIN bind.credentialFrom : Has(bind.credentialFrom[i], k)}

(* With the memory driver, goroutines that bind the same chart with        *)
(* another bind.yaml are in each other's way.                              *)
Undisturbed(b) ==
  driver = "memory" =>
    \A c \in Binders : resolve[c].chart = resolve[b].chart
                         => resolve[c].template = resolve[b].template

(* Resolve policy rules 1 to 3 (bind/resolver.go): of several sources in   *)
(* credentialFrom the last one wins, a name that is twice in credential is *)
(* an error, and credential wins over credentialFrom.  Every reference     *)
(* must be met, by an object of the instance's own release, no credential  *)
(* is missing or added, and what counts is the bind.yaml of the plan,      *)
(* whatever else is bound at the same time.                                *)
ResolvedByPolicy ==
  \A b \in Binders : ~resolve[b].changed /\ Undisturbed(b) =>
    LET t == resolve[b].template
        own == Rendered(t, resolve[b].release) IN
    /\ resolve[b].pc = "done" =>
         /\ t.renders /\ Resolvable(own)
         /\ resolve[b].credFrom = [k \in Wanted(own) |-> Credential(own, k)]
    /\ resolve[b].pc = "failed" => ~(t.renders /\ Resolvable(own))
=============================================================================
