---------------------------- MODULE InformerCache ----------------------------
(***************************************************************************)
(* One informer of the multi-cluster-orchestrator client: the cache that   *)
(* ListFunc and WatchFunc fill from the API server, or from the fake       *)
(* clientset that tests use, and what a program reads from it.             *)
(*                                                                         *)
(* The reflector behind the informer lists, and then watches from the      *)
(* version of the listing on; a watch that breaks is resumed from the last *)
(* event, or the reflector lists again.  A program reads objects through   *)
(* the lister, copies them with DeepCopy and edits the copy, or gets them  *)
(* from the typed client, and edits those.                                 *)
(***************************************************************************)
EXTENDS ApiTypes, Integers, Sequences, FiniteSetsExt, Functions

CONSTANTS Objects,      \* records with the namespace ns and the name of an object
          Home, All,    \* the namespace of the program; every namespace
          Backends,     \* subset of {"server", "fake"}
          OptionLists,  \* the lists of options given to the factory
          None,
          MaxWrites     \* bound on the writes to the API

VARIABLES config,     \* backend, kind and options, which never change
          log,        \* the versions of all objects, in the order of the writes
          phase,      \* of the reflector
          cursor,     \* the version up to which it has followed the log
          cache,      \* the version of each object in the indexer, 0 if it has none
          missed,     \* history: objects of which the watch began too late
          copy,       \* the object that a program edits
          scribbled   \* history: what such an edit changed besides the copy

apiVars == <<config, log>>
cacheVars == <<phase, cursor, cache, missed>>
vars == <<apiVars, cacheVars, copy, scribbled>>

Fake == config.backend = "fake"
Versions == 0..Len(log)

(* The current version of an object after the first n writes, 0 if none.   *)
Version(n, o) ==
  LET of == {i \in 1..n : log[i].obj = o} IN
  IF of # {} /\ log[Max(of)].there THEN Max(of) ELSE 0

(* An object is selected, or not, by the labels that the tweak asks for.   *)
TypeOK ==
  /\ config \in [backend : Backends, kind : Kinds, options : OptionLists]
  /\ log \in Seq([obj : Objects, there : BOOLEAN, selected : BOOLEAN]) /\ Len(log) <= MaxWrites
  /\ phase \in {"list", "watch", "follow"}
  /\ cursor \in Versions
  /\ cache \in [Objects -> Versions]
  /\ missed \subseteq Objects
  /\ copy \in [obj : Objects, version : Versions, from : {"cache", "store"}, shared : SUBSET References[config.kind]] \cup {None}
  /\ scribbled \subseteq {"cache", "store"} \X References[config.kind]

Init ==
  /\ config \in [backend : Backends, kind : Kinds, options : OptionLists]
  /\ log = <<>> /\ phase = "list" /\ cursor = 0
  /\ cache = [o \in Objects |-> 0]
  /\ missed = {} /\ copy = None /\ scribbled = {}
-----------------------------------------------------------------------------
(* The options of the factory, applied one after the other, and their way  *)
(* through the group and version to the informer.                          *)
WithNamespace == [field |-> "namespace", value |-> Home]
WithTweakListOptions == [field |-> "tweak", value |-> TRUE]

ASSUME CacheAssumption ==
  /\ Backends \subseteq {"server", "fake"} /\ MaxWrites \in Nat
  /\ OptionLists \subseteq Seq({WithNamespace, WithTweakListOptions})
  /\ Home # All

NewSharedInformerFactoryWithOptions(options) ==
  LET after[i \in 0..Len(options)] ==
        IF i = 0 THEN [namespace |-> All, tweak |-> FALSE]
        ELSE [after[i - 1] EXCEPT ![options[i].field] = options[i].value]
  IN  after[Len(options)]

Api(f) == [namespace |-> f.namespace, tweak |-> f.tweak]

(* Mutant: the tweak is not handed on.                                     *)
V1alpha1Untweaked(g) == [namespace |-> g.namespace, tweak |-> FALSE]

V1alpha1(g) == [namespace |-> g.namespace, tweak |-> g.tweak]

BindingInformer(v) == [kind |-> "Binding", namespace |-> v.namespace, tweak |-> v.tweak]
PlacementInformer(v) == [kind |-> "Placement", namespace |-> v.namespace, tweak |-> v.tweak]

informer ==
  LET v == V1alpha1(Api(NewSharedInformerFactoryWithOptions(config.options)))
  IN  IF config.kind = "Binding" THEN BindingInformer(v) ELSE PlacementInformer(v)

InNamespace(o) == informer.namespace \in {All, o.ns}

(* What the two functions of the informer let through of version v.  The   *)
(* fake clientset's List looks at the labels, its Watch does not.          *)
ListFunc(v) == InNamespace(log[v].obj) /\ (informer.tweak => log[v].selected)

(* Mutant: the tweak is applied to listings only.                          *)
WatchFuncUntweaked(v) == InNamespace(log[v].obj)

WatchFunc(v) == InNamespace(log[v].obj) /\ (informer.tweak /\ ~Fake => log[v].selected)
-----------------------------------------------------------------------------
(* Somebody creates, updates, relabels or deletes an object.               *)
Write(o) ==
  /\ Len(log) < MaxWrites
  /\ \E there, selected \in BOOLEAN :
       /\ ~there => ~selected /\ Version(Len(log), o) # 0
       /\ log' = Append(log, [obj |-> o, there |-> there, selected |-> selected])
  /\ UNCHANGED <<config, cacheVars, copy, scribbled>>

(* The listing replaces the whole of the cache.                            *)
List ==
  /\ phase = "list"
  /\ cache' = [o \in Objects |-> LET v == Version(Len(log), o) IN
                                 IF v # 0 /\ ListFunc(v) THEN v ELSE 0]
  /\ cursor' = Len(log) /\ phase' = "watch" /\ missed' = {}
  /\ UNCHANGED <<apiVars, copy, scribbled>>

Written(m, n) == {log[i].obj : i \in m + 1 .. n}

(* Mutants: the watch resumes after the version that follows the listing's; *)
(* the version of the listing is not in the options of the watch.          *)
WatchFromNext ==
  /\ phase = "watch"
  /\ phase' = "follow" /\ cursor' = cursor + 1
  /\ UNCHANGED <<apiVars, cache, missed, copy, scribbled>>
WatchFromNow ==
  /\ phase = "watch"
  /\ phase' = "follow" /\ cursor' = Len(log)
  /\ missed' = IF Fake THEN missed \cup Written(cursor, Len(log)) ELSE missed
  /\ UNCHANGED <<apiVars, cache, copy, scribbled>>

(* The server sends what was written since the listing; the fake tracker   *)
(* knows no versions, and sends what is written from now on.               *)
Watch ==
  /\ phase = "watch"
  /\ phase' = "follow"
  /\ IF Fake THEN cursor' = Len(log) /\ missed' = missed \cup Written(cursor, Len(log))
             ELSE UNCHANGED <<cursor, missed>>
  /\ UNCHANGED <<apiVars, cache, copy, scribbled>>

(* An event: the object in its new version, or that it is gone, which the  *)
(* server also says of an object that the labels no longer select.         *)
Deliver ==
  /\ phase = "follow" /\ cursor < Len(log)
  /\ LET v == cursor + 1 IN
       /\ cursor' = v
       /\ IF InNamespace(log[v].obj)
            THEN cache' = [cache EXCEPT ![log[v].obj] = IF log[v].there /\ WatchFunc(v) THEN v ELSE 0]
            ELSE UNCHANGED cache
       /\ missed' = missed \ {log[v].obj}
  /\ UNCHANGED <<apiVars, phase, copy, scribbled>>

(* The connection breaks; the server may have forgotten the last version.  *)
WatchBreaks ==
  /\ phase = "follow" /\ ~Fake
  /\ phase' \in {"watch", "list"}
  /\ UNCHANGED <<apiVars, cursor, cache, missed, copy, scribbled>>

(* A program takes an object from the lister and copies it ...             *)
Lister(ns) == {o \in Objects : cache[o] # 0 /\ ns \in {All, o.ns}}
Take(o, v, from, shared) ==
  /\ copy = None
  /\ copy' = [obj |-> o, version |-> v, from |-> from, shared |-> shared]
  /\ UNCHANGED <<apiVars, cacheVars, scribbled>>
CopyFromLister(o) ==
  o \in Lister(o.ns) /\ Take(o, cache[o], "cache", Shared[config.kind][config.kind])

(* ... or gets it from the typed client, alone or in a list.  A server's   *)
(* answer is decoded anew; the fake tracker answers with a DeepCopy.       *)
FetchFromClient(o, root) ==
  /\ Version(Len(log), o) # 0
  /\ Take(o, Version(Len(log), o), "store", IF Fake THEN Shared[config.kind][root] ELSE {})

(* It writes to a field, and whoever still holds the original of the copy  *)
(* sees that if the field is shared; and in the end it drops the copy.     *)
Original == IF copy.from = "cache" THEN cache[copy.obj] ELSE Version(Len(log), copy.obj)
Edit(r) ==
  /\ copy # None
  /\ scribbled' = IF r \in copy.shared /\ Original = copy.version
                    THEN scribbled \cup {<<copy.from, r>>} ELSE scribbled
  /\ UNCHANGED <<apiVars, cacheVars, copy>>
DropCopy == copy # None /\ copy' = None /\ UNCHANGED <<apiVars, cacheVars, scribbled>>

Next ==
  \/ \E o \in Objects : Write(o) \/ CopyFromLister(o)
                        \/ FetchFromClient(o, config.kind) \/ FetchFromClient(o, ListOf[config.kind])
  \/ List \/ Watch \/ Deliver \/ WatchBreaks
  \/ \E r \in References[config.kind] : Edit(r)
  \/ DropCopy

Spec == Init /\ [][Next]_vars

(* The reflector lists and watches as long as it runs.  However often the  *)
(* watch breaks, now and then an event gets through.                       *)
FairSpec == Spec /\ WF_vars(List) /\ WF_vars(Watch) /\ SF_vars(Deliver)
-----------------------------------------------------------------------------
(* What the options ask for, in whatever order they were given.            *)
Wanted(v) ==
  /\ WithNamespace \in Range(config.options) => log[v].obj.ns = Home
  /\ WithTweakListOptions \in Range(config.options) => log[v].selected
Expected(n, o) == LET v == Version(n, o) IN IF v # 0 /\ Wanted(v) THEN v ELSE 0
Filters == ~(Fake /\ WithTweakListOptions \in Range(config.options))

(***************************************************************************)
(* "Listers obtained via this SharedInformerFactory will be subject to the *)
(* same filters as specified here" (factory.go): the cache is, at any      *)
(* time, what the API server held at one moment, all objects that the      *)
(* options want and no others, each in its version of that moment.  It is  *)
(* not so of the fake clientset: objects written between its List and its  *)
(* Watch are missed until their next change, and its Watch has no          *)
(* selector.                                                               *)
(***************************************************************************)
CacheIsASnapshot ==
  Filters => \A o \in Objects \ missed : cache[o] = Expected(cursor, o)

(***************************************************************************)
(* Edits of a copy change neither the cache, which other goroutines read,  *)
(* nor the objects of the fake clientset.                                  *)
(***************************************************************************)
CopiesAreDeep == scribbled = {}

(***************************************************************************)
(* Once nothing is written any more, the cache becomes what the API server *)
(* holds, and stays so, whatever watches break.                            *)
(***************************************************************************)
CacheCatchesUp ==
  <>[](Filters => \A o \in Objects \ missed : cache[o] = Expected(Len(log), o))
=============================================================================
