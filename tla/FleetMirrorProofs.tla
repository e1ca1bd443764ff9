-------------------------- MODULE FleetMirrorProofs --------------------------
(***************************************************************************)
(* The refresh goroutine implements FleetMirror, for every fleet and any   *)
(* number of changes and faults: each of its steps, seen through the       *)
(* mapping of FleetSyncRefinement, is one of FleetMirror or changes        *)
(* nothing there.                                                          *)
(***************************************************************************)
EXTENDS FleetSyncRefinement, FleetSyncProofs

USE DEF fleet, lists, caches, loop, history

(* Names and manifests mean the same in both specifications.               *)
LEMMA SameData ==
  /\ Mirror!SecretNames = SecretNames /\ Mirror!Secret = Secret /\ Mirror!Bindings = Bindings
  /\ \A n : Mirror!Manifest(n) = Manifest(n)
  /\ \A m : Mirror!SecretName(m) = SecretName(m)
  BY DEF Mirror!SecretNames, SecretNames, Mirror!SecretName, SecretName, Mirror!Secret, Secret,
         Mirror!ServerURLs, ServerURLs, Mirror!ConnectGatewayURL, ConnectGatewayURL,
         Mirror!Bindings, Bindings, Mirror!Manifest, Manifest

LEMMA MirrorInit == Init => Mirror!Init
<1> SUFFICES ASSUME Init PROVE Mirror!Init
  OBVIOUS
<1>1. /\ members \cup bindings \subseteq Memberships \cup Mirror!Bindings
      /\ secrets \in [Mirror!SecretNames -> Mirror!Secret \cup {NoSecret}]
  BY SameData, TypedInit DEF Typed, TypeOK
<1> QED BY <1>1 DEF Init, Mirror!Init, Phase, View, Reconcile, Applying

(***************************************************************************)
(* What the process may do between two states of a refresh: stay in it     *)
(* with what it has published, or leave it.                                *)
(***************************************************************************)
Stays  == pc \in Reconcile /\ pc' \in Reconcile /\ UNCHANGED caches
Leaves == pc \in Reconcile /\ pc' \notin Reconcile
Frame  == UNCHANGED <<fleet, changes, history>>

LEMMA WhatShows ==
  /\ Stays => UNCHANGED <<Phase, View>>
  /\ Leaves => Mirror!Over
  /\ pc \notin Reconcile /\ pc' \notin Reconcile => UNCHANGED <<Phase, View>>
  /\ UNCHANGED <<pc, caches>> => UNCHANGED <<Phase, View>>
  /\ pc \in Reconcile => Phase = "writing" /\ View = Published
  /\ pc \notin Reconcile => Phase = "reading" /\ View = {}
  BY DEF Stays, Leaves, Mirror!Over, Phase, View, Published

(* The clusters of what it has published are those it keeps secrets for.   *)
LEMMA WantedNames ==
  ASSUME IInv, pc \in Reconcile
  PROVE  Mirror!Wanted = ClusterSecrets
<1>1. DOMAIN memCache \subseteq Memberships
  BY DEF IInv, Typed, TypeOK, CachesReady
<1>2. Published \cap Memberships = DOMAIN memCache
  BY <1>1, Disjoint DEF Published
<1> QED BY <1>2, SameData DEF Mirror!Wanted, View, ClusterSecrets, ClusterSecretNames

LEMMA IsPut ==
  ASSUME IInv, NEW n \in ClusterSecrets, secrets' = [secrets EXCEPT ![n] = Manifest(n)],
         Stays \/ Leaves, Frame
  PROVE  Mirror!Put(n)
<1>1. pc \in Reconcile
  BY DEF Stays, Leaves
<1> QED
  BY <1>1, WantedNames, WhatShows, SameData
     DEF Mirror!Put, Mirror!WriteSecret, Frame

LEMMA IsRemove ==
  ASSUME IInv, NEW n \in todo, pc = "prune", secrets[n] # NoSecret,
         secrets' = [secrets EXCEPT ![n] = NoSecret],
         Stays \/ Leaves, Frame
  PROVE  n \in SecretNames /\ Mirror!Remove(n)
<1>1. pc \in Reconcile
  BY DEF Reconcile
<1>2. n \in SecretNames /\ n \notin ClusterSecrets /\ (n \in tampered \/ IsPluginSecret(secrets[n]))
  BY DEF IInv, Typed, TypeOK, LoopInv
<1>3. \A k \in ClusterSecrets \ tampered : secrets[k] = Manifest(k)
  BY DEF IInv, LoopInv, Applied
<1> QED
  BY <1>1, <1>2, <1>3, WantedNames, WhatShows, SameData
     DEF Mirror!Remove, Mirror!WriteSecret, Frame, IsPluginSecret

(* Steps that do not show: the listings, and those between two writes.     *)
LEMMA NothingShows ==
  ASSUME Frame, secrets' = secrets,
         Stays \/ (pc \notin Reconcile /\ pc' \notin Reconcile)
  PROVE  UNCHANGED Mirror!mirrorVars
  BY WhatShows DEF Mirror!mirrorVars, Frame

LEMMA IsEnd ==
  ASSUME Frame, secrets' = secrets, Leaves
  PROVE  Mirror!End
  BY WhatShows DEF Mirror!End, Frame, Leaves

(* An error, or a crash, ends the refresh, unless it has not read yet.     *)
LEMMA ErrorEnds ==
  ASSUME Frame, secrets' = secrets, RefreshError \/ Exit
  PROVE  [Mirror!Next]_(Mirror!mirrorVars)
<1>1. pc' \notin Reconcile
  BY DEF RefreshError, Exit, Reconcile, Applying
<1> QED BY <1>1, NothingShows, IsEnd DEF Leaves, Mirror!Next
-----------------------------------------------------------------------------
LEMMA UsersShow ==
  ASSUME IInv, IInv', Environment
  PROVE  Mirror!Next
<1>1. CASE Change /\ FleetChange
  <2>1. members' \cup bindings' \subseteq Memberships \cup Mirror!Bindings
    BY SameData DEF IInv, Typed, TypeOK
  <2>2. Mirror!UsersChangeFleet
    BY <1>1, <2>1, WhatShows DEF Mirror!UsersChangeFleet, Change, FleetChange
  <2> QED BY <2>2 DEF Mirror!Next
<1>2. ASSUME NEW n \in SecretNames, UserWrites(n)
      PROVE  Mirror!Next
  <2>1. Mirror!UserWrites(n)
    BY <1>2, SameData, SecretAssumption, WhatShows DEF UserWrites, Change, Mirror!UserWrites
  <2> QED BY <2>1, SameData DEF Mirror!Next
<1> QED
  BY <1>1, <1>2 DEF Environment, Register, Unregister, CreateScope, DeleteScope, Bind, Unbind

LEMMA ReadingShows ==
  ASSUME IInv, IInv', PublishScopes
  PROVE  Mirror!Read
<1>1. /\ pc \notin Reconcile /\ pc' \in Reconcile
      /\ UNCHANGED <<fleet, secrets, changes, history>>
  BY DEF PublishScopes, Reconcile, Applying
<1>2. /\ steady \cap Memberships \subseteq DOMAIN memCache' /\ DOMAIN memCache' \subseteq window
      /\ \A b \in steady \cap Bindings : b \in Published'
      /\ Published' \subseteq window
  BY <1>1 DEF IInv, TopologyInv, TopologyIsCurrent, Published
<1>3. steady \subseteq Published'
  BY <1>2 DEF IInv, Typed, TypeOK, Published
<1>4. ASSUME NEW b \in Published' \cap Bindings
      PROVE  b.membership \in Published'
  <2>1. DOMAIN memCache' \subseteq Memberships
    BY <1>1 DEF IInv, Typed, TypeOK, CachesReady
  <2>2. ShortID(b.scope) \in DOMAIN scopeCache' /\ b.membership \in scopeCache'[ShortID(b.scope)]
    BY <1>4, <2>1, Disjoint DEF Published
  <2>3. MapsAgree(memCache', scopeCache')
    BY <1>1 DEF IInv, TopologyInv, TenancyMapsAgree, Typed, CachesReady, Reconcile, Applying
  <2>4. b.membership \in Memberships /\ ShortID(b.scope) \in ScopeKeys
    BY DEF Bindings, ShortID, ScopeKeys
  <2>5. b.membership \in DOMAIN memCache'
    BY <2>2, <2>3, <2>4 DEF MapsAgree
  <2> QED BY <2>5 DEF Published
<1> QED BY <1>1, <1>2, <1>3, <1>4, SameData DEF Phase, View, Mirror!Read

LEMMA StepRefines ==
  ASSUME IInv, IInv', [Next]_vars
  PROVE  [Mirror!Next]_(Mirror!mirrorVars)
<1>1. CASE Environment
  BY <1>1, UsersShow
<1>2. CASE Start \/ Wake
  <2>1. Mirror!Begin
    BY <1>2, WhatShows DEF Start, Wake, BeginRefresh, Mirror!Begin, Reconcile, Applying
  <2> QED BY <2>1 DEF Mirror!Next
<1>3. CASE ListStep \/ PublishMemberships
  <2>1. pc \notin Reconcile /\ pc' \notin Reconcile /\ Frame /\ secrets' = secrets
    BY <1>3 DEF ListStep, ListMemberships, ListScopes, ListMembershipBindings, NextPage,
                PublishMemberships, Frame, Reconcile, Applying
  <2> QED BY <2>1, NothingShows
<1>4. CASE PublishScopes
  BY <1>4, ReadingShows DEF Mirror!Next
<1>5. CASE \/ ReconcileClusterSecrets \/ ApplyDone \/ PruneList
           \/ \E n \in SecretNames : ApplyAlreadyExists(n)
  <2>1. Stays /\ Frame /\ secrets' = secrets
    BY <1>5 DEF ReconcileClusterSecrets, ApplyDone, PruneList, ApplyAlreadyExists, Stays, Frame, Reconcile, Applying
  <2> QED BY <2>1, NothingShows
<1>6. CASE RefreshDone
  <2>1. Leaves /\ Frame /\ secrets' = secrets
    BY <1>6 DEF RefreshDone, Leaves, Frame, Reconcile, Applying
  <2> QED BY <2>1, IsEnd DEF Mirror!Next
<1>7. ASSUME NEW n \in SecretNames, n \in todo, pc \in Applying, SecretWritten(n)
      PROVE  [Mirror!Next]_(Mirror!mirrorVars)
  <2>1. n \in ClusterSecrets
    BY <1>7 DEF IInv, LoopInv
  <2>2. Stays /\ Frame /\ secrets' = [secrets EXCEPT ![n] = Manifest(n)]
    BY <1>7 DEF SecretWritten, Stays, Frame, Reconcile, Applying
  <2>3. Mirror!Put(n)
    BY <2>1, <2>2, IsPut
  <2> QED BY <2>3, SameData DEF Mirror!Next
<1>8. ASSUME NEW n \in SecretNames, ApplyCreate(n) PROVE [Mirror!Next]_(Mirror!mirrorVars)
  BY <1>7, <1>8 DEF ApplyCreate, Applying
<1>9. CASE ApplyUpdate
  <2>1. target \in SecretNames /\ target \in todo
    BY <1>9 DEF ApplyUpdate, IInv, Typed, CachesReady, LoopInv
  <2> QED BY <1>7, <1>9, <2>1 DEF ApplyUpdate, Applying
<1>10. ASSUME NEW n \in SecretNames, PruneDelete(n) PROVE [Mirror!Next]_(Mirror!mirrorVars)
  <2>1. Stays /\ Frame
    BY <1>10 DEF PruneDelete, Stays, Frame, Reconcile
  <2>2. Mirror!Remove(n)
    BY <1>10, <2>1, IsRemove DEF PruneDelete
  <2> QED BY <2>2, SameData DEF Mirror!Next
<1>11. CASE UpdateRejected \/ CallFails \/ Crash \/ \E n \in SecretNames : DeleteNotFound(n)
  BY <1>11, ErrorEnds DEF UpdateRejected, CallFails, Crash, DeleteNotFound, Frame
<1>12. ASSUME NEW n \in SecretNames, AnswerLost(n) PROVE [Mirror!Next]_(Mirror!mirrorVars)
  <2>1. Frame /\ pc' \notin Reconcile
    BY <1>12 DEF AnswerLost, Frame, RefreshError, Exit, Reconcile, Applying
  <2>2. CASE pc \in Applying /\ secrets' = [secrets EXCEPT ![n] = Manifest(n)] /\ n \in todo
    <3>1. n \in ClusterSecrets /\ Leaves
      BY <2>1, <2>2 DEF IInv, LoopInv, Leaves, Reconcile
    <3> QED BY <2>1, <2>2, <3>1, IsPut, SameData DEF Mirror!Next
  <2>3. CASE pc = "prune" /\ n \in todo /\ secrets[n] # NoSecret /\ secrets' = [secrets EXCEPT ![n] = NoSecret]
    <3>1. Leaves
      BY <2>1, <2>3 DEF Leaves, Reconcile
    <3>2. Mirror!Remove(n)
      BY <2>1, <2>3, <3>1, IsRemove
    <3> QED BY <3>2, SameData DEF Mirror!Next
  <2> QED BY <1>12, <2>2, <2>3 DEF AnswerLost, Applying, IInv, LoopInv
<1>13. CASE UNCHANGED vars
  BY <1>13, WhatShows DEF vars, Mirror!mirrorVars
<1> QED
  BY <1>1, <1>2, <1>3, <1>4, <1>5, <1>6, <1>8, <1>9, <1>10, <1>11, <1>12, <1>13
     DEF Next, Refresh, Faulty, ListStep

(***************************************************************************)
(* The plugin does what FleetMirror promises: it goes by one reading of    *)
(* the fleet, puts the secrets of its clusters in place first and removes  *)
(* its others afterwards, whatever happens between its calls.              *)
(***************************************************************************)
THEOREM FleetSyncImplementsMirror == Spec => ImplementsMirror
<1>1. IInv /\ IInv' /\ [Next]_vars => [Mirror!Next]_(Mirror!mirrorVars)
  BY StepRefines
<1> QED BY MirrorInit, Invariance, <1>1, PTL DEF Spec, ImplementsMirror, Mirror!Spec
-----------------------------------------------------------------------------
(***************************************************************************)
(* What FleetMirror says is enough for the users of the namespace: as what *)
(* was registered all the time has been read, its secrets are wanted, and  *)
(* all that has been read was registered at some time.                     *)
(***************************************************************************)
MirrorInv ==
  /\ secrets \in [SecretNames -> Secret \cup {NoSecret}] /\ changes \in Nat
  /\ Phase = "writing" => steady \subseteq View /\ View \subseteq window

LEMMA MirrorWrite ==
  ASSUME MirrorInv, NEW n \in SecretNames, NEW s \in Secret \cup {NoSecret}, Mirror!WriteSecret(n, s)
  PROVE  MirrorInv'
<1>1. secrets' \in [SecretNames -> Secret \cup {NoSecret}] /\ changes' \in Nat
  BY DEF MirrorInv, Mirror!WriteSecret
<1>2. Phase' = "writing" => UNCHANGED <<View, steady, window>> /\ Phase = "writing"
  BY DEF Mirror!WriteSecret, Mirror!Over
<1> QED BY <1>1, <1>2 DEF MirrorInv

LEMMA MirrorInvStep ==
  ASSUME MirrorInv, [Mirror!Next]_(Mirror!mirrorVars)
  PROVE  MirrorInv'
<1>1. CASE Mirror!UsersChangeFleet
  BY <1>1 DEF MirrorInv, Mirror!UsersChangeFleet
<1>2. CASE Mirror!Begin
  BY <1>2 DEF MirrorInv, Mirror!Begin
<1>3. CASE Mirror!Read
  BY <1>3 DEF MirrorInv, Mirror!Read
<1>4. CASE Mirror!End
  BY <1>4 DEF MirrorInv, Mirror!End, Mirror!Over
<1>5. ASSUME NEW n \in SecretNames, Mirror!UserWrites(n)
      PROVE  MirrorInv'
  BY <1>5, SameData DEF MirrorInv, Mirror!UserWrites
<1>6. ASSUME NEW n \in SecretNames, Mirror!Put(n) \/ Mirror!Remove(n)
      PROVE  MirrorInv'
  BY <1>6, Manifests, MirrorWrite, SameData DEF Mirror!Put, Mirror!Remove
<1>7. CASE UNCHANGED Mirror!mirrorVars
  BY <1>7 DEF MirrorInv, Mirror!mirrorVars
<1> QED BY <1>1, <1>2, <1>3, <1>4, <1>5, <1>6, <1>7, SameData DEF Mirror!Next

(* A step that is not a user's removes no secret of what is steady, and    *)
(* writes none but those of what was registered at some time.              *)
LEMMA MirrorStep ==
  ASSUME MirrorInv, [Mirror!Next]_(Mirror!mirrorVars), ~UserStep, NEW k \in SecretNames,
         secrets'[k] # secrets[k]
  PROVE  /\ secrets'[k] = NoSecret => k \notin ClusterSecretNames(steady \cap Memberships)
         /\ secrets'[k] # NoSecret => k \in ClusterSecretNames(window \cap Memberships)
<1>1. Mirror!Next /\ ~Mirror!UsersChangeFleet /\ ~Mirror!Begin /\ ~Mirror!Read /\ ~Mirror!End
  <2>1. ~UNCHANGED secrets
    OBVIOUS
  <2> QED
    BY <2>1 DEF UserStep, Mirror!mirrorVars, Mirror!UsersChangeFleet, Mirror!Begin, Mirror!Read, Mirror!End
<1>2. ~\E n \in SecretNames : Mirror!UserWrites(n)
  <2>1. changes' = changes /\ changes \in Nat
    BY DEF UserStep, MirrorInv
  <2> QED BY <2>1 DEF Mirror!UserWrites
<1>3. Phase = "writing" => /\ ClusterSecretNames(steady \cap Memberships) \subseteq Mirror!Wanted
                           /\ Mirror!Wanted \subseteq ClusterSecretNames(window \cap Memberships)
  BY SameData DEF MirrorInv, Mirror!Wanted, ClusterSecretNames
<1>4. ASSUME NEW n \in SecretNames, Mirror!Put(n)
      PROVE  k = n /\ secrets'[k] # NoSecret /\ k \in Mirror!Wanted /\ Phase = "writing"
  BY <1>4, SameData, Manifests, SecretAssumption DEF MirrorInv, Mirror!Put, Mirror!WriteSecret
<1>5. ASSUME NEW n \in SecretNames, Mirror!Remove(n)
      PROVE  k = n /\ secrets'[k] = NoSecret /\ k \notin Mirror!Wanted /\ Phase = "writing"
  BY <1>5 DEF MirrorInv, Mirror!Remove, Mirror!WriteSecret
<1> QED BY <1>1, <1>2, <1>3, <1>4, <1>5, SameData DEF Mirror!Next

(***************************************************************************)
(* What FleetMirror says is enough, without anything of how the plugin     *)
(* does it: no secret is taken from a cluster that stayed registered since *)
(* the refresh began, and none given to one that never was.                *)
(***************************************************************************)
THEOREM MirrorSuffices == ImplementsMirror => ClusterKeepsItsSecret /\ OnlyMembersGetSecrets
<1>1. Mirror!Init => MirrorInv
  BY SameData DEF Mirror!Init, MirrorInv
<1>2. MirrorInv /\ [Mirror!Next]_(Mirror!mirrorVars) => MirrorInv'
  BY MirrorInvStep
<1>3. ASSUME MirrorInv, [Mirror!Next]_(Mirror!mirrorVars)
      PROVE  \A m \in steady \cap Memberships :
               secrets[SecretName(m)] # NoSecret /\ secrets'[SecretName(m)] = NoSecret => UserStep
  <2>1. \A m \in steady \cap Memberships :
          SecretName(m) \in SecretNames /\ SecretName(m) \in ClusterSecretNames(steady \cap Memberships)
    BY Names DEF ClusterSecretNames
  <2> QED BY <1>3, <2>1, MirrorStep
<1>4. ASSUME MirrorInv, [Mirror!Next]_(Mirror!mirrorVars)
      PROVE  \A n \in SecretNames :
               secrets'[n] # secrets[n] /\ secrets'[n] # NoSecret
                 => UserStep \/ n \in ClusterSecretNames(window \cap Memberships)
  BY <1>4, MirrorStep
<1> QED
  BY <1>1, <1>2, <1>3, <1>4, PTL
     DEF ImplementsMirror, Mirror!Spec, ClusterKeepsItsSecret, OnlyMembersGetSecrets
=============================================================================
