------------------------- MODULE InformerCacheProofs -------------------------
(***************************************************************************)
(* Proofs about one informer of the multi-cluster-orchestrator client, for *)
(* any objects, any lists of options and any number of writes.             *)
(***************************************************************************)
EXTENDS InformerCache, SequenceTheorems, WellFoundedInduction, TLAPS

USE DEF apiVars, cacheVars
-----------------------------------------------------------------------------
(***************************************************************************)
(* The generated deep copies.  What a struct's DeepCopyInto calls is       *)
(* reached from it, up to four calls deep, and what is reached stays so.   *)
(***************************************************************************)
LEMMA Called ==
  ASSUME NEW S, NEW s \in S
  PROVE  s \in WithCalled(S) /\ DeepCopyInto(s).calls \subseteq WithCalled(S)
  BY DEF WithCalled

LEMMA Calls ==
  /\ DeepCopyInto("BindingList").calls = {"Binding"}
  /\ DeepCopyInto("PlacementList").calls = {"Placement"}
  /\ DeepCopyInto("Placement").calls = {"PlacementSpec", "PlacementStatus"}
  /\ DeepCopyInto("PlacementSpec").calls = {"PlacementClusterSelectorRule", "Scaling"}
  /\ DeepCopyInto("PlacementStatus").calls = {"PlacementCluster"}
  /\ DeepCopyInto("Scaling").calls = {"AutoscaleForCapacity"}
  BY DEF DeepCopyInto, CapacityCopies, BindingCopies, PlacementCopies, ClusterCopies, ScalingCopies,
         Copies

LEMMA Fresh ==
  /\ DeepCopyInto("Binding").fresh = {"metadata"}
  /\ DeepCopyInto("BindingList").fresh = {"metadata", "items"}
  /\ DeepCopyInto("Placement").fresh = {"metadata"}
  /\ DeepCopyInto("PlacementList").fresh = {"metadata", "items"}
  /\ DeepCopyInto("PlacementSpec").fresh = {"clusterSelectorRules"}
  /\ DeepCopyInto("PlacementStatus").fresh = {"clusters"}
  /\ DeepCopyInto("PlacementCluster").fresh = {"atCapacityCeiling", "draining"}
  /\ DeepCopyInto("PlacementClusterSelectorRule").fresh = {"arguments"}
  /\ DeepCopyInto("Scaling").fresh = {"autoscaleForCapacity"}
  /\ DeepCopyInto("AutoscaleForCapacity").fresh = {"workloadDetails"}
  BY DEF DeepCopyInto, CapacityCopies, BindingCopies, PlacementCopies, ClusterCopies, ScalingCopies,
         Copies

(* Every struct with a reference is reached, from the object and from its list. *)
LEMMA Reached ==
  ASSUME NEW kind \in Kinds, NEW root \in {kind, ListOf[kind]}, NEW r \in References[kind],
         root = kind => r[1] # ListOf[kind]
  PROVE  r[1] \in CopiedStructs(root)
<1> DEFINE one == WithCalled({root})
           two == WithCalled(one)
           three == WithCalled(two)
           four == WithCalled(three)
<1>1. one \subseteq two /\ two \subseteq three /\ three \subseteq four /\ root \in one
  BY Called
<1>2. CopiedStructs(root) = four
  BY DEF CopiedStructs
<1> HIDE DEF four
<1>3. CASE kind = "Binding"
  <2>1. root = "BindingList" => "Binding" \in one
    BY Called, Calls
  <2> QED BY <1>1, <1>2, <1>3, <2>1 DEF ListOf, References, BindingReferences
<1>4. CASE kind = "Placement"
  <2>1. "Placement" \in one
    BY <1>4, Called, Calls DEF ListOf
  <2>2. {"PlacementSpec", "PlacementStatus"} \subseteq two
    BY <2>1, Called, Calls
  <2>3. {"PlacementClusterSelectorRule", "Scaling", "PlacementCluster"} \subseteq three
    BY <2>2, Called, Calls
  <2>4. "AutoscaleForCapacity" \in four
    BY <2>3, Called, Calls DEF four
  <2> QED
    BY <1>1, <1>2, <1>4, <2>1, <2>2, <2>3, <2>4
       DEF ListOf, References, PlacementReferences, SpecReferences, StatusReferences
<1> QED BY <1>3, <1>4 DEF Kinds

(* No copy, alone or in a list, has a reference in common with its original. *)
LEMMA NothingShared ==
  ASSUME NEW kind \in Kinds, NEW root \in {kind, ListOf[kind]}
  PROVE  Shared[kind][root] = {}
<1>1. ASSUME NEW r \in References[kind]
      PROVE  r[2] \in DeepCopyInto(r[1]).fresh
  BY Fresh
     DEF Kinds, References, BindingReferences, PlacementReferences, SpecReferences, StatusReferences
<1>2. SharedBy(kind, root) = {}
  BY <1>1, Reached DEF SharedBy
<1> QED BY <1>2 DEF Shared
-----------------------------------------------------------------------------
(* A set of numbers that is not empty has a least one: the induction that  *)
(* the lemmas about options and versions need.                             *)
LEMMA LeastOne ==
  ASSUME NEW T \in SUBSET Nat, T # {}
  PROVE  \E n \in T : \A m \in T : n <= m
<1> DEFINE less == {ss \in Nat \X Nat : ss[1] < ss[2]}
<1>1. IsWellFoundedOn(less, Nat)
  BY NatLessThanWellFounded, Zenon DEF OpToRel
<1>2. \E n \in T : \A m \in T : ~(<<m, n>> \in less)
  BY <1>1, WFMin, Zenon
<1>3. PICK n \in T : \A m \in T : ~(<<m, n>> \in less)
  BY <1>2, Zenon
<1>4. \A m \in T : ~(m < n)
  BY <1>3
<1> QED BY <1>4

(* So the greatest of a set of numbers up to n is one of them.             *)
LEMMA GreatestOne ==
  ASSUME NEW n \in Nat, NEW S \in SUBSET (1..n), S # {}
  PROVE  Max(S) \in S /\ \A y \in S : y <= Max(S)
<1> DEFINE bounds == {u \in Nat : \A y \in S : y <= u}
<1>1. n \in bounds
  OBVIOUS
<1>2. PICK u \in bounds : \A b \in bounds : u <= b
  <2> HIDE DEF bounds
  <2>1. bounds \in SUBSET Nat
    BY DEF bounds
  <2> QED BY <1>1, <2>1, LeastOne
<1>3. u \in S
  <2> SUFFICES ASSUME u \notin S PROVE FALSE
    OBVIOUS
  <2>1. \A y \in S : y <= u - 1
    BY <1>2
  <2>2. u - 1 \in Nat
    <3>1. PICK y \in S : TRUE
      OBVIOUS
    <3>2. 1 <= y /\ y <= u
      BY <1>2
    <3> QED BY <1>2, <3>2
  <2>3. u - 1 \in bounds
    BY <2>1, <2>2
  <2> QED BY <1>2, <2>3
<1>4. \E x \in S : \A y \in S : x >= y
  BY <1>2, <1>3
<1> HIDE DEF bounds
<1>5. Max(S) \in S /\ \A y \in S : Max(S) >= y
  BY <1>4 DEF Max
<1> QED BY <1>5
-----------------------------------------------------------------------------
(* The options of a factory, whatever their order and however often one is *)
(* given, leave it with the namespace and the tweak that they ask for.     *)
Asked(options, i) ==
  [namespace |-> IF \E j \in 1..i : options[j] = WithNamespace THEN Home ELSE All,
   tweak     |-> \E j \in 1..i : options[j] = WithTweakListOptions]

LEMMA SetNamespace ==
  ASSUME NEW a, NEW b, NEW c
  PROVE  [[namespace |-> a, tweak |-> b] EXCEPT !.namespace = c] = [namespace |-> c, tweak |-> b]
  OBVIOUS

LEMMA SetTweak ==
  ASSUME NEW a, NEW b, NEW c
  PROVE  [[namespace |-> a, tweak |-> b] EXCEPT !.tweak = c] = [namespace |-> a, tweak |-> c]
  OBVIOUS

LEMMA OptionsApplied ==
  ASSUME NEW options \in Seq({WithNamespace, WithTweakListOptions})
  PROVE  NewSharedInformerFactoryWithOptions(options) = Asked(options, Len(options))
<1> DEFINE N == Len(options)
           start == [namespace |-> All, tweak |-> FALSE]
           body(f, i) == IF i = 0 THEN start
                         ELSE [f[i - 1] EXCEPT ![options[i].field] = options[i].value]
           closed == [i \in 0..N |-> Asked(options, i)]
           after[i \in 0..N] == body(after, i)
<1>1. N \in Nat
  OBVIOUS
<1>2. ASSUME NEW i \in 1..N
      PROVE  Asked(options, i) = [Asked(options, i - 1) EXCEPT ![options[i].field] = options[i].value]
  <2>1. options[i] \in {WithNamespace, WithTweakListOptions}
    OBVIOUS
  <2>2. 1..i = (1..(i - 1)) \cup {i}
    OBVIOUS
  <2> DEFINE home(k) == IF \E j \in 1..k : options[j] = WithNamespace THEN Home ELSE All
             tweaked(k) == \E j \in 1..k : options[j] = WithTweakListOptions
             next == [Asked(options, i - 1) EXCEPT ![options[i].field] = options[i].value]
  <2>3. \A k : Asked(options, k) = [namespace |-> home(k), tweak |-> tweaked(k)]
    BY DEF Asked
  <2>4. CASE options[i] = WithNamespace
    <3>1. options[i].field = "namespace" /\ options[i].value = Home
      BY <2>4 DEF WithNamespace
    <3>2. home(i) = Home /\ tweaked(i) = tweaked(i - 1)
      BY <2>2, <2>4 DEF WithNamespace, WithTweakListOptions
    <3> HIDE DEF home, tweaked
    <3>3. next = [namespace |-> Home, tweak |-> tweaked(i - 1)]
      BY <2>3, <3>1, SetNamespace
    <3> QED BY <2>3, <3>2, <3>3
  <2>5. CASE options[i] = WithTweakListOptions
    <3>1. options[i].field = "tweak" /\ options[i].value = TRUE
      BY <2>5 DEF WithTweakListOptions
    <3>2. home(i) = home(i - 1) /\ tweaked(i) = TRUE
      BY <2>2, <2>5 DEF WithNamespace, WithTweakListOptions
    <3> HIDE DEF home, tweaked
    <3>3. next = [namespace |-> home(i - 1), tweak |-> TRUE]
      <4>1. next = [Asked(options, i - 1) EXCEPT !.tweak = TRUE]
        BY <3>1
      <4>2. next = [[namespace |-> home(i - 1), tweak |-> tweaked(i - 1)] EXCEPT !.tweak = TRUE]
        BY <2>3, <4>1
      <4> HIDE DEF next
      <4> QED BY <4>2, SetTweak
    <3> QED BY <2>3, <3>2, <3>3
  <2> QED BY <2>1, <2>4, <2>5
<1>3. Asked(options, 0) = start
  BY DEF Asked
<1>4. closed = [i \in 0..N |-> body(closed, i)]
  BY <1>1, <1>2, <1>3
<1>5. after = [i \in 0..N |-> body(after, i)]
  <2> HIDE DEF body, closed, N
  <2> QED BY <1>4, Zenon
<1>6. \A i \in 0..N : after[i] = Asked(options, i)
  <2> DEFINE differ == {i \in 0..N : after[i] # Asked(options, i)}
  <2> SUFFICES ASSUME differ # {} PROVE FALSE
    OBVIOUS
  <2> HIDE DEF after
  <2>1. PICK i \in differ : \A j \in differ : i <= j
    <3>1. differ \in SUBSET Nat
      BY <1>1
    <3> HIDE DEF differ
    <3> QED BY <3>1, LeastOne
  <2>2. i # 0
    BY <1>1, <1>3, <1>5
  <2>3. after[i - 1] = Asked(options, i - 1)
    BY <1>1, <2>1, <2>2
  <2>4. after[i] = body(after, i)
    BY <1>5, <2>1
  <2>5. i \in 1..N
    BY <1>1, <2>1, <2>2
  <2> QED BY <1>2, <2>1, <2>3, <2>4, <2>5
<1> QED BY <1>1, <1>6 DEF NewSharedInformerFactoryWithOptions

(* The filters of the informer are the ones that the options ask for.      *)
LEMMA InformerFilters ==
  ASSUME config.options \in OptionLists
  PROVE  /\ \A o : InNamespace(o) <=> (WithNamespace \in Range(config.options) => o.ns = Home)
         /\ informer.tweak <=> WithTweakListOptions \in Range(config.options)
<1> DEFINE options == config.options
           N == Len(options)
<1>1. options \in Seq({WithNamespace, WithTweakListOptions})
  BY CacheAssumption
<1>2. Range(options) = {options[j] : j \in 1..N}
  BY <1>1 DEF Range
<1>3. informer.namespace = Asked(options, N).namespace /\ informer.tweak = Asked(options, N).tweak
  BY <1>1, OptionsApplied DEF informer, Api, V1alpha1, BindingInformer, PlacementInformer, Asked
<1>4. informer.namespace = IF WithNamespace \in Range(options) THEN Home ELSE All
  BY <1>2, <1>3 DEF Asked
<1>5. informer.tweak <=> WithTweakListOptions \in Range(options)
  BY <1>2, <1>3 DEF Asked
<1> QED BY <1>4, <1>5, CacheAssumption DEF InNamespace

(* So a listing lets through what is wanted, and so does a watch, except   *)
(* for the watch of the fake clientset with a tweak.                       *)
LEMMA WhatIsWanted ==
  ASSUME config.options \in OptionLists, NEW v
  PROVE  /\ ListFunc(v) <=> Wanted(v)
         /\ Filters => (WatchFunc(v) <=> Wanted(v))
         /\ Wanted(v) => InNamespace(log[v].obj)
  BY InformerFilters DEF ListFunc, WatchFunc, Wanted, Filters
-----------------------------------------------------------------------------
(***************************************************************************)
(* The current version of an object after n writes is one of those writes, *)
(* and of that object; another write changes it only if it is of the       *)
(* object.                                                                 *)
(***************************************************************************)
Entries == [obj : Objects, there : BOOLEAN, selected : BOOLEAN]

LEMMA VersionIsAWrite ==
  ASSUME NEW n \in Nat, NEW o
  PROVE  /\ Version(n, o) \in 0..n
         /\ Version(n, o) # 0 => log[Version(n, o)].obj = o
<1> DEFINE of == {i \in 1..n : log[i].obj = o}
<1>1. of # {} => Max(of) \in of
  BY GreatestOne
<1> QED BY <1>1 DEF Version

LEMMA VersionOfNextWrite ==
  ASSUME NEW n \in Nat, NEW o
  PROVE  Version(n + 1, o) = IF log[n + 1].obj # o THEN Version(n, o)
                             ELSE IF log[n + 1].there THEN n + 1 ELSE 0
<1> DEFINE of(k) == {i \in 1..k : log[i].obj = o}
<1>1. CASE log[n + 1].obj = o
  <2>1. n + 1 \in of(n + 1)
    BY <1>1
  <2>2. Max(of(n + 1)) = n + 1
    <3>1. Max(of(n + 1)) \in of(n + 1) /\ n + 1 <= Max(of(n + 1))
      <4>1. of(n + 1) \in SUBSET (1..(n + 1)) /\ n + 1 \in Nat
        OBVIOUS
      <4> HIDE DEF of
      <4> QED BY <2>1, <4>1, GreatestOne
    <3> QED BY <3>1
  <2> HIDE DEF of
  <2>3. Version(n + 1, o) = IF log[n + 1].there THEN n + 1 ELSE 0
    BY <2>1, <2>2 DEF Version, of
  <2> QED BY <1>1, <2>3
<1>2. CASE log[n + 1].obj # o
  <2>1. of(n + 1) = of(n)
    BY <1>2
  <2> QED BY <1>2, <2>1 DEF Version
<1> QED BY <1>1, <1>2

LEMMA VersionUnlessWritten ==
  ASSUME NEW n \in Nat, NEW m \in 0..n, NEW o, o \notin Written(m, n)
  PROVE  Version(n, o) = Version(m, o)
<1>1. {i \in 1..n : log[i].obj = o} = {i \in 1..m : log[i].obj = o}
  BY DEF Written
<1> QED BY <1>1 DEF Version

(* A write leaves alone what the versions were before it.                  *)
LEMMA VersionUnderWrite ==
  ASSUME log \in Seq(Entries), NEW e \in Entries, log' = Append(log, e), UNCHANGED config
  PROVE  /\ \A v \in 1..Len(log) : log'[v] = log[v] /\ (Wanted(v)' <=> Wanted(v))
         /\ \A n \in 0..Len(log), o \in Objects : Version(n, o)' = Version(n, o)
<1>1. \A v \in 1..Len(log) : log'[v] = log[v]
  OBVIOUS
<1>2. \A v \in 1..Len(log) : Wanted(v)' <=> Wanted(v)
  BY <1>1 DEF Wanted
<1>3. ASSUME NEW n \in 0..Len(log), NEW o \in Objects
      PROVE  Version(n, o)' = Version(n, o)
  <2> DEFINE of == {i \in 1..n : log[i].obj = o}
  <2>1. {i \in 1..n : log'[i].obj = o} = of
    BY <1>1
  <2>2. of # {} => Max(of) \in 1..Len(log)
    <3>1. of \in SUBSET (1..n) /\ n \in Nat /\ 1..n \subseteq 1..Len(log)
      OBVIOUS
    <3> HIDE DEF of
    <3> QED BY <3>1, GreatestOne
  <2> QED BY <1>1, <2>1, <2>2 DEF Version
<1> QED BY <1>1, <1>2, <1>3
-----------------------------------------------------------------------------
(***************************************************************************)
(* The invariant: nothing outside of the namespace of the informer is in   *)
(* the cache, so that an event about such an object, which is ignored,     *)
(* leaves the cache a snapshot; and no copy shares anything.               *)
(***************************************************************************)
PlaceInv == \A o \in Objects : cache[o] # 0 => InNamespace(o)
CopyInv == copy # None => copy.shared = {}
IInv == TypeOK /\ PlaceInv /\ CopyInv /\ CacheIsASnapshot /\ CopiesAreDeep

LEMMA Facts ==
  ASSUME IInv
  PROVE  /\ config.options \in OptionLists /\ config.kind \in Kinds
         /\ log \in Seq(Entries) /\ Len(log) \in Nat
         /\ cursor \in 0..Len(log) /\ cache \in [Objects -> 0..Len(log)]
  BY DEF IInv, TypeOK, Versions, Entries

LEMMA InitIInv == Init => IInv
<1> SUFFICES ASSUME Init PROVE IInv
  OBVIOUS
<1>1. TypeOK
  BY CacheAssumption DEF Init, TypeOK, Versions
<1>2. PlaceInv /\ CopyInv /\ CopiesAreDeep
  BY DEF Init, PlaceInv, CopyInv, CopiesAreDeep
<1>3. CacheIsASnapshot
  <2>1. \A o : Version(0, o) = 0
    BY VersionIsAWrite
  <2> QED BY <2>1 DEF Init, CacheIsASnapshot, Expected
<1> QED BY <1>1, <1>2, <1>3 DEF IInv

(* A write appends to the log; the cache is as far behind as before.       *)
LEMMA WriteStep ==
  ASSUME IInv, NEW o \in Objects, Write(o)
  PROVE  IInv'
<1>1. PICK there \in BOOLEAN, selected \in BOOLEAN :
        log' = Append(log, [obj |-> o, there |-> there, selected |-> selected])
  BY DEF Write
<1> DEFINE e == [obj |-> o, there |-> there, selected |-> selected]
<1>2. e \in Entries
  BY DEF Entries
<1>3. log' \in Seq(Entries) /\ Len(log') = Len(log) + 1 /\ Len(log) < MaxWrites
  BY <1>1, <1>2, Facts DEF Write
<1>4. UNCHANGED <<config, phase, cursor, cache, missed, copy, scribbled>>
  BY DEF Write
<1>5. TypeOK'
  BY <1>3, <1>4, CacheAssumption DEF IInv, TypeOK, Versions, Entries
<1>6. PlaceInv' /\ CopyInv' /\ CopiesAreDeep'
  BY <1>4 DEF IInv, PlaceInv, CopyInv, CopiesAreDeep, InNamespace, informer
<1>7. CacheIsASnapshot'
  <2> HIDE DEF e
  <2> SUFFICES ASSUME Filters, NEW q \in Objects \ missed
               PROVE  cache[q] = Expected(cursor, q)'
    BY <1>4 DEF CacheIsASnapshot, Filters, Fake
  <2>1. /\ \A v \in 1..Len(log) : Wanted(v)' <=> Wanted(v)
        /\ Version(cursor, q)' = Version(cursor, q)
    BY <1>1, <1>2, <1>4, Facts, VersionUnderWrite DEF e
  <2>2. Version(cursor, q) \in 0..cursor
    BY Facts, VersionIsAWrite
  <2>3. Expected(cursor, q)' = Expected(cursor, q)
    BY <2>1, <2>2, Facts DEF Expected
  <2> QED BY <2>3 DEF IInv, CacheIsASnapshot
<1> QED BY <1>5, <1>6, <1>7 DEF IInv

(* A listing puts the wanted objects in the cache, each as it is now.      *)
LEMMA ListStep ==
  ASSUME IInv, List
  PROVE  IInv'
<1> DEFINE n == Len(log)
<1>1. UNCHANGED <<config, log, copy, scribbled>> /\ cursor' = n /\ phase' = "watch" /\ missed' = {}
  BY DEF List
<1>2. \A o \in Objects : cache'[o] = Expected(n, o)
  BY Facts, WhatIsWanted DEF List, Expected
<1>3. \A o \in Objects : cache'[o] = IF Version(n, o) # 0 /\ Wanted(Version(n, o)) THEN Version(n, o) ELSE 0
  BY <1>2 DEF Expected
<1>4. \A o \in Objects : Version(n, o) \in 0..n /\ (Version(n, o) # 0 => log[Version(n, o)].obj = o)
  BY Facts, VersionIsAWrite
<1>5. cache' \in [Objects -> 0..n]
  BY <1>3, <1>4 DEF List
<1>6. TypeOK'
  BY <1>1, <1>5, Facts DEF IInv, TypeOK, Versions
<1>7. PlaceInv'
  <2>1. \A o \in Objects : cache'[o] # 0 => InNamespace(o)
    BY <1>3, <1>4, Facts, WhatIsWanted
  <2> QED BY <1>1, <2>1 DEF PlaceInv, InNamespace, informer
<1>8. CopyInv' /\ CopiesAreDeep'
  BY <1>1 DEF IInv, CopyInv, CopiesAreDeep
<1>9. CacheIsASnapshot'
  BY <1>1, <1>2 DEF CacheIsASnapshot, Expected, Version, Wanted
<1> QED BY <1>6, <1>7, <1>8, <1>9 DEF IInv

(* A watch goes on from the listing, except on the fake clientset, where   *)
(* the objects written in between are the missed ones.                     *)
LEMMA WatchStep ==
  ASSUME IInv, Watch
  PROVE  IInv'
<1>1. UNCHANGED <<config, log, cache, copy, scribbled>> /\ phase' = "follow"
  BY DEF Watch
<1>2. TypeOK'
  <2>1. Written(cursor, Len(log)) \subseteq Objects
    <3>1. \A i \in cursor + 1 .. Len(log) : log[i] \in Entries
      BY Facts
    <3> QED BY <3>1 DEF Written, Entries
  <2> QED BY <1>1, <2>1, Facts DEF IInv, TypeOK, Versions, Watch
<1>3. PlaceInv' /\ CopyInv' /\ CopiesAreDeep'
  BY <1>1 DEF IInv, PlaceInv, CopyInv, CopiesAreDeep, InNamespace, informer
<1>4. CacheIsASnapshot'
  <2> SUFFICES ASSUME Filters, NEW o \in Objects \ missed'
               PROVE  cache[o] = Expected(cursor', o)
    BY <1>1 DEF CacheIsASnapshot, Filters, Fake, Expected, Version, Wanted
  <2>1. CASE Fake
    <3>1. cursor' = Len(log) /\ o \notin missed /\ o \notin Written(cursor, Len(log))
      BY <2>1 DEF Watch
    <3>2. Version(cursor', o) = Version(cursor, o)
      BY <3>1, Facts, VersionUnlessWritten
    <3> QED BY <3>1, <3>2 DEF IInv, CacheIsASnapshot, Expected
  <2>2. CASE ~Fake
    BY <2>2 DEF IInv, CacheIsASnapshot, Watch
  <2> QED BY <2>1, <2>2
<1> QED BY <1>2, <1>3, <1>4 DEF IInv

(* An event brings the cache one write further, and leaves no object       *)
(* missed whose new version it is.                                         *)
LEMMA DeliverStep ==
  ASSUME IInv, Deliver
  PROVE  IInv'
<1> DEFINE v == cursor + 1
           written == log[v].obj
           event == IF log[v].there /\ WatchFunc(v) THEN v ELSE 0
<1>1. /\ UNCHANGED <<config, log, phase, copy, scribbled>>
      /\ cursor' = v /\ missed' = missed \ {written}
      /\ cache' = IF InNamespace(written) THEN [cache EXCEPT ![written] = event] ELSE cache
  BY DEF Deliver
<1>2. v \in 1..Len(log) /\ written \in Objects
  <2>1. v \in 1..Len(log)
    BY Facts DEF Deliver
  <2>2. log[v] \in Entries
    BY <2>1, Facts
  <2> QED BY <2>1, <2>2 DEF Entries
<1>3. \A o \in Objects : cache'[o] = IF o = written /\ InNamespace(o) THEN event ELSE cache[o]
  BY <1>1, Facts
<1>4. TypeOK'
  BY <1>1, <1>2, Facts DEF IInv, TypeOK, Versions
<1>5. PlaceInv'
  <2>1. \A o \in Objects : cache'[o] # 0 => InNamespace(o)
    BY <1>3 DEF IInv, PlaceInv
  <2> QED BY <1>1, <2>1 DEF PlaceInv, InNamespace, informer
<1>6. CopyInv' /\ CopiesAreDeep'
  BY <1>1 DEF IInv, CopyInv, CopiesAreDeep
<1>7. CacheIsASnapshot'
  <2> SUFFICES ASSUME Filters, NEW o \in Objects \ missed'
               PROVE  cache'[o] = Expected(v, o)
    BY <1>1 DEF CacheIsASnapshot, Filters, Fake, Expected, Version, Wanted
  <2>1. Version(v, o) = IF written # o THEN Version(cursor, o) ELSE IF log[v].there THEN v ELSE 0
    <3>1. cursor \in Nat
      BY Facts
    <3> QED BY <3>1, VersionOfNextWrite
  <2>2. CASE o # written
    <3>1. o \notin missed /\ cache'[o] = cache[o]
      BY <1>1, <1>3, <2>2
    <3> QED BY <2>1, <2>2, <3>1 DEF IInv, CacheIsASnapshot, Expected
  <2>3. CASE o = written /\ InNamespace(o)
    <3>1. cache'[o] = event /\ (WatchFunc(v) <=> Wanted(v))
      BY <1>3, <2>3, Facts, WhatIsWanted
    <3> QED BY <1>2, <2>1, <2>3, <3>1 DEF Expected
  <2>4. CASE o = written /\ ~InNamespace(o)
    <3>1. cache'[o] = 0
      BY <1>3, <2>4 DEF IInv, PlaceInv
    <3>2. ~Wanted(v)
      BY <2>4, Facts, WhatIsWanted
    <3> QED BY <2>1, <2>4, <3>1, <3>2 DEF Expected
  <2> QED BY <2>2, <2>3, <2>4
<1> QED BY <1>4, <1>5, <1>6, <1>7 DEF IInv

(* Taking a copy, editing it and dropping it: what it has in common with   *)
(* an original is nothing, whichever way it was come by.                   *)
LEMMA TakeStep ==
  ASSUME IInv, NEW o \in Objects, NEW v \in Versions, NEW from \in {"cache", "store"},
         Take(o, v, from, {})
  PROVE  IInv'
<1>1. UNCHANGED <<config, log, phase, cursor, cache, missed, scribbled>>
  BY DEF Take
<1>2. copy' = [obj |-> o, version |-> v, from |-> from, shared |-> {}]
  BY DEF Take
<1>3. TypeOK'
  BY <1>1, <1>2 DEF IInv, TypeOK, Versions
<1>4. PlaceInv' /\ CopyInv' /\ CopiesAreDeep'
  BY <1>1, <1>2 DEF IInv, PlaceInv, CopyInv, CopiesAreDeep, InNamespace, informer
<1>5. CacheIsASnapshot'
  BY <1>1 DEF IInv, CacheIsASnapshot, Filters, Fake, Expected, Version, Wanted
<1> QED BY <1>3, <1>4, <1>5 DEF IInv

LEMMA CopyStep ==
  ASSUME IInv, NEW o \in Objects,
         \/ CopyFromLister(o)
         \/ FetchFromClient(o, config.kind)
         \/ FetchFromClient(o, ListOf[config.kind])
  PROVE  IInv'
<1>1. \A root \in {config.kind, ListOf[config.kind]} : Shared[config.kind][root] = {}
  BY Facts, NothingShared
<1>2. CASE CopyFromLister(o)
  <2>1. cache[o] \in Versions
    BY Facts DEF Versions
  <2> QED BY <1>1, <1>2, <2>1, TakeStep DEF CopyFromLister
<1>3. ASSUME NEW root \in {config.kind, ListOf[config.kind]}, FetchFromClient(o, root)
      PROVE  IInv'
  <2>1. Version(Len(log), o) \in Versions
    BY Facts, VersionIsAWrite DEF Versions
  <2>2. Take(o, Version(Len(log), o), "store", {})
    BY <1>1, <1>3 DEF FetchFromClient
  <2> QED BY <2>1, <2>2, TakeStep
<1> QED BY <1>2, <1>3

LEMMA EditStep ==
  ASSUME IInv, DropCopy \/ \E r \in References[config.kind] : Edit(r)
  PROVE  IInv'
<1>1. UNCHANGED <<config, log, phase, cursor, cache, missed>>
  BY DEF DropCopy, Edit
<1>2. copy' \in {copy, None} /\ scribbled' = scribbled
  BY DEF DropCopy, Edit, IInv, CopyInv
<1>3. TypeOK'
  BY <1>1, <1>2 DEF IInv, TypeOK, Versions
<1>4. PlaceInv' /\ CopyInv' /\ CopiesAreDeep'
  BY <1>1, <1>2 DEF IInv, PlaceInv, CopyInv, CopiesAreDeep, InNamespace, informer
<1>5. CacheIsASnapshot'
  BY <1>1 DEF IInv, CacheIsASnapshot, Filters, Fake, Expected, Version, Wanted
<1> QED BY <1>3, <1>4, <1>5 DEF IInv

LEMMA StepIInv == IInv /\ [Next]_vars => IInv'
<1> SUFFICES ASSUME IInv, [Next]_vars PROVE IInv'
  OBVIOUS
<1>1. ASSUME NEW o \in Objects, Write(o) PROVE IInv'
  BY <1>1, WriteStep
<1>2. ASSUME NEW o \in Objects,
             \/ CopyFromLister(o)
             \/ FetchFromClient(o, config.kind)
             \/ FetchFromClient(o, ListOf[config.kind])
      PROVE  IInv'
  BY <1>2, CopyStep
<1>3. CASE List
  BY <1>3, ListStep
<1>4. CASE Watch
  BY <1>4, WatchStep
<1>5. CASE Deliver
  BY <1>5, DeliverStep
<1>6. CASE WatchBreaks
  <2>1. UNCHANGED <<config, log, cursor, cache, missed, copy, scribbled>> /\ phase' \in {"watch", "list"}
    BY <1>6 DEF WatchBreaks
  <2>2. TypeOK' /\ PlaceInv' /\ CopyInv' /\ CopiesAreDeep'
    BY <2>1 DEF IInv, TypeOK, Versions, PlaceInv, CopyInv, CopiesAreDeep, InNamespace, informer
  <2>3. CacheIsASnapshot'
    BY <2>1 DEF IInv, CacheIsASnapshot, Filters, Fake, Expected, Version, Wanted
  <2> QED BY <2>2, <2>3 DEF IInv
<1>7. CASE DropCopy \/ \E r \in References[config.kind] : Edit(r)
  BY <1>7, EditStep
<1>8. CASE UNCHANGED vars
  <2>1. UNCHANGED <<config, log, phase, cursor, cache, missed, copy, scribbled>>
    BY <1>8 DEF vars
  <2>2. TypeOK' /\ PlaceInv' /\ CopyInv' /\ CopiesAreDeep'
    BY <2>1 DEF IInv, TypeOK, Versions, PlaceInv, CopyInv, CopiesAreDeep, InNamespace, informer
  <2>3. CacheIsASnapshot'
    BY <2>1 DEF IInv, CacheIsASnapshot, Filters, Fake, Expected, Version, Wanted
  <2> QED BY <2>2, <2>3 DEF IInv
<1> QED BY <1>1, <1>2, <1>3, <1>4, <1>5, <1>6, <1>7, <1>8 DEF Next

(* IInv is an invariant of the informer.                                   *)
THEOREM IInvAlways == Spec => []IInv
<1>1. IInv /\ [Next]_vars => IInv'
  BY StepIInv
<1> QED BY InitIInv, <1>1, PTL DEF Spec
-----------------------------------------------------------------------------
(* The types of the reflector's position, the cache and the copies.        *)
THEOREM TypeCorrect == Spec => []TypeOK
<1>1. IInv => TypeOK
  BY DEF IInv
<1> QED BY IInvAlways, <1>1, PTL

(* The cache is at any time what the API server held at one moment, all    *)
(* objects that the options of the factory ask for and no others, however  *)
(* often the watch broke and the reflector listed again.                   *)
THEOREM CacheIsAlwaysASnapshot == Spec => []CacheIsASnapshot
<1>1. IInv => CacheIsASnapshot
  BY DEF IInv
<1> QED BY IInvAlways, <1>1, PTL

(* No edit of a copy, from the lister or from the typed client, alone or   *)
(* in a list, is ever seen in the cache or by the fake clientset.          *)
THEOREM CopiesAreAlwaysDeep == Spec => []CopiesAreDeep
<1>1. IInv => CopiesAreDeep
  BY DEF IInv
<1> QED BY IInvAlways, <1>1, PTL
=============================================================================
