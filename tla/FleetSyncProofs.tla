--------------------------- MODULE FleetSyncProofs ---------------------------
(***************************************************************************)
(* Proofs about the refresh goroutine, for every fleet, every number of    *)
(* memberships and scopes, and every number of changes and faults.         *)
(***************************************************************************)
EXTENDS FleetSync, TLAPS

USE DEF fleet, lists, caches, loop, history

(* What the names and the map-building functions return.                   *)
LEMMA Names ==
  ASSUME NEW m \in Memberships
  PROVE  /\ SecretName(m) \in SecretNames
         /\ Manifest(SecretName(m)) \in Secret
  BY MembershipAssumption DEF SecretName, SecretNames, Manifest, Secret, ServerURLs, ConnectGatewayURL

LEMMA Manifests == ASSUME NEW n \in SecretNames PROVE Manifest(n) \in Secret
  BY Names DEF SecretNames

LEMMA MapTypes ==
  ASSUME NEW ms \in SUBSET Memberships, NEW ss \in SUBSET Scopes, NEW bs \in SUBSET Bindings
  PROVE  /\ \E S \in SUBSET Memberships : MembershipTenancyMap(ms, bs) \in [S -> SUBSET ScopeKeys]
         /\ \E K \in SUBSET ScopeKeys : ScopeTenancyMap(ss, bs) \in [K -> SUBSET Memberships]
<1>1. \A b \in bs : b.membership \in Memberships /\ b.scope \in Scopes /\ ShortID(b.scope) \in ScopeKeys
  BY DEF Bindings, ShortID, ScopeKeys
<1>2. \A s \in ss : FullName(s) \in ScopeKeys
  BY DEF FullName, ScopeKeys
<1>3. ms \cup {b.membership : b \in bs} \in SUBSET Memberships
  BY <1>1
<1>4. {FullName(s) : s \in ss} \cup {ShortID(b.scope) : b \in bs} \in SUBSET ScopeKeys
  BY <1>1, <1>2
<1>5. MembershipTenancyMap(ms, bs) \in [ms \cup {b.membership : b \in bs} -> SUBSET ScopeKeys]
  BY <1>1 DEF MembershipTenancyMap
<1>6. ScopeTenancyMap(ss, bs) \in [{FullName(s) : s \in ss} \cup {ShortID(b.scope) : b \in bs} -> SUBSET Memberships]
  BY <1>1 DEF ScopeTenancyMap
<1> QED BY <1>3, <1>4, <1>5, <1>6

(***************************************************************************)
(* Types, and which caches exist where: the reconciliation reads the maps, *)
(* so TypeOK alone is not inductive.                                       *)
(***************************************************************************)
CachesReady ==
  /\ pc \in {"publishScopes"} \cup Reconcile => memCache # Nil
  /\ pc \in Reconcile => scopeCache # Nil
  /\ ServesWithTopology
  /\ pc = "update" => target \in SecretNames

Typed == TypeOK /\ CachesReady

LEMMA TypedInit == Init => Typed
<1> SUFFICES ASSUME Init PROVE Typed
  OBVIOUS
<1>1. bindings \in SUBSET Bindings
  BY DEF Init, Bindings
<1>2. changes \in 0..MaxChanges /\ faults \in 0..MaxFaults
  BY BoundsAssumption DEF Init
<1>3. TypeOK
  BY <1>1, <1>2 DEF Init, TypeOK, PC
<1> QED
  BY <1>3 DEF Init, Typed, CachesReady, ServesWithTopology, Reconcile, Applying

(* Leaving a refresh by an error keeps the types.                          *)
LEMMA ErrorTyped ==
  ASSUME Typed, RefreshError \/ Exit, UNCHANGED <<fleet, changes, history>>,
         secrets' \in [SecretNames -> Secret \cup {NoSecret}], faults' \in 0..MaxFaults
  PROVE  Typed'
  BY DEF Typed, TypeOK, CachesReady, ServesWithTopology, RefreshError, Exit, DropLocals,
         PC, Listing, Publish, Reconcile, Applying

(* The step lemma, used by everything below: no step breaks the types.     *)
LEMMA TypedStep == Typed /\ [Next]_vars => Typed'
<1> SUFFICES ASSUME Typed, [Next]_vars PROVE Typed'
  OBVIOUS
<1> USE SecretAssumption, BoundsAssumption
<1> USE DEF Typed, TypeOK, CachesReady, ServesWithTopology, PC, Listing, Publish, Reconcile, Applying
<1>1. CASE Environment
  <2>1. ASSUME NEW m \in Memberships, Register(m) \/ Unregister(m) PROVE Typed'
    BY <2>1 DEF Register, Unregister, Change, FleetChange
  <2>2. ASSUME NEW s \in Scopes, CreateScope(s) \/ DeleteScope(s) PROVE Typed'
    BY <2>2 DEF CreateScope, DeleteScope, Change, FleetChange
  <2>3. ASSUME NEW b \in Bindings, Bind(b) \/ Unbind(b) PROVE Typed'
    BY <2>3 DEF Bind, Unbind, Change, FleetChange
  <2>4. ASSUME NEW n \in SecretNames, UserWrites(n) PROVE Typed'
    BY <2>4 DEF UserWrites, Change
  <2> QED BY <1>1, <2>1, <2>2, <2>3, <2>4 DEF Environment
<1>2. CASE Start \/ Wake
  BY <1>2 DEF Start, Wake, BeginRefresh
<1>3. ASSUME NEW page \in SUBSET unread,
             ListMemberships(page) \/ ListScopes(page) \/ ListMembershipBindings(page)
      PROVE  Typed'
  BY <1>3 DEF ListMemberships, ListScopes, ListMembershipBindings, NextPage
<1>4. CASE PublishMemberships
  <2>1. /\ \E S \in SUBSET Memberships : memCache' \in [S -> SUBSET ScopeKeys]
        /\ memCache' # Nil
    <3>1. memCache' = MembershipTenancyMap(mems, mbs)
      BY <1>4 DEF PublishMemberships
    <3>2. \E S \in SUBSET Memberships : MembershipTenancyMap(mems, mbs) \in [S -> SUBSET ScopeKeys]
      BY MapTypes
    <3> QED BY <3>1, <3>2, NilAssumption
  <2> QED BY <1>4, <2>1 DEF PublishMemberships
<1>5. CASE PublishScopes
  <2>1. /\ \E K \in SUBSET ScopeKeys : scopeCache' \in [K -> SUBSET Memberships]
        /\ scopeCache' # Nil
    <3>1. scopeCache' = ScopeTenancyMap(scs, mbs)
      BY <1>5 DEF PublishScopes
    <3>2. \E K \in SUBSET ScopeKeys : ScopeTenancyMap(scs, mbs) \in [K -> SUBSET Memberships]
      BY MapTypes
    <3> QED BY <3>1, <3>2, NilAssumption
  <2> QED BY <1>5, <2>1 DEF PublishScopes
<1>6. CASE ReconcileClusterSecrets
  <2>1. DOMAIN memCache \subseteq Memberships
    BY <1>6 DEF ReconcileClusterSecrets
  <2> QED BY <1>6, <2>1 DEF ReconcileClusterSecrets, ClusterSecrets, ClusterSecretNames, SecretNames
<1>7. ASSUME NEW n \in SecretNames, ApplyCreate(n) \/ ApplyAlreadyExists(n) PROVE Typed'
  BY <1>7, Manifests DEF ApplyCreate, ApplyAlreadyExists, SecretWritten
<1>8. CASE ApplyUpdate
  <2>1. target \in SecretNames
    BY <1>8 DEF ApplyUpdate
  <2> QED BY <1>8, <2>1, Manifests DEF ApplyUpdate, SecretWritten
<1>9. CASE ApplyDone \/ PruneList \/ RefreshDone
  BY <1>9 DEF ApplyDone, PruneList, RefreshDone
<1>10. ASSUME NEW n \in SecretNames, PruneDelete(n) PROVE Typed'
  BY <1>10 DEF PruneDelete
<1>11. CASE UpdateRejected \/ \E n \in SecretNames : DeleteNotFound(n)
  BY <1>11, ErrorTyped DEF UpdateRejected, DeleteNotFound
<1>12. CASE CallFails
  BY <1>12, ErrorTyped DEF CallFails, Fault
<1>13. CASE Crash
  BY <1>13, ErrorTyped DEF Crash, Fault
<1>14. ASSUME NEW n \in SecretNames, AnswerLost(n) PROVE Typed'
  <2>1. secrets' \in [SecretNames -> Secret \cup {NoSecret}]
    BY <1>14, Manifests DEF AnswerLost
  <2> QED BY <1>14, <2>1, ErrorTyped DEF AnswerLost, Fault
<1>15. CASE UNCHANGED vars
  BY <1>15 DEF vars
<1> QED
  BY <1>1, <1>2, <1>3, <1>4, <1>5, <1>6, <1>7, <1>8, <1>9, <1>10, <1>11, <1>12, <1>13, <1>14, <1>15
  DEF Next, Refresh, Faulty

(***************************************************************************)
(* The state keeps its types, and a process that serves has both maps.     *)
(***************************************************************************)
THEOREM Typing == Spec => [](TypeOK /\ ServesWithTopology)
<1>1. Typed => TypeOK /\ ServesWithTopology
  BY DEF Typed, CachesReady
<1> QED BY <1>1, TypedInit, TypedStep, PTL DEF Spec

(***************************************************************************)
(* "Build the initial fleet topology before handling RPCs": whatever       *)
(* refreshes fail later, a process that answers requests has both maps.    *)
(***************************************************************************)
THEOREM ServesTopology == Spec => []ServesWithTopology
BY Typing, PTL
-----------------------------------------------------------------------------
(***************************************************************************)
(* The inductive invariant.  WindowInv says what the two history sets are; *)
(* ListingInv that a listing, page by page, collects all that has been     *)
(* there all the time and nothing that never was; TopologyInv carries that *)
(* over into the maps; LoopInv says what the two loops over the secrets    *)
(* have done and have still to do.                                         *)
(***************************************************************************)
Refreshing == pc \notin {"down", "idle"}

WindowInv ==
  /\ FleetOK
  /\ steady \subseteq members \cup bindings
  /\ Refreshing => members \cup bindings \subseteq window
  /\ \A b \in window \cap Bindings : b.membership \in window

ListingInv ==
  /\ mems \subseteq window /\ mbs \subseteq window
  /\ ~Refreshing => mems = {} /\ mbs = {}
  /\ pc = "listMemberships" => steady \cap Memberships \subseteq mems \cup unread
  /\ pc \in {"listScopes", "listBindings"} \cup Publish => steady \cap Memberships \subseteq mems
  /\ pc = "listBindings" => steady \cap Bindings \subseteq mbs \cup unread
  /\ pc \in Publish => steady \cap Bindings \subseteq mbs
  /\ pc \in Reconcile => mems = {} /\ mbs = {}

TopologyInv ==
  /\ pc = "publishScopes" => memCache = MembershipTenancyMap(mems, mbs)
  /\ TenancyMapsAgree
  /\ TopologyIsCurrent

Applied(rest) == \A n \in ClusterSecrets \ (rest \cup tampered) : secrets[n] = Manifest(n)
LoopInv ==
  /\ pc \in Applying => todo \subseteq ClusterSecrets /\ Applied(todo)
  /\ pc = "update" => target \in todo
  /\ pc \in {"listSecrets", "prune"} => Applied({})
  /\ pc = "prune" =>
       /\ todo \cap ClusterSecrets = {}
       /\ \A n \in SecretNames \ (ClusterSecrets \cup tampered) :
            IsPluginSecret(secrets[n]) <=> n \in todo

IInv == Typed /\ WindowInv /\ ListingInv /\ TopologyInv /\ LoopInv

(* A membership and a binding are different things.                        *)
LEMMA Disjoint == Memberships \cap Bindings = {}
  BY MembershipAssumption DEF Bindings

(***************************************************************************)
(* The kinds of step, told apart by what they leave alone.                 *)
(***************************************************************************)
FleetStep == FleetChange /\ (FleetOK => FleetOK')
WriteStep == \E n \in SecretNames : UserWrites(n)
BeginStep == BeginRefresh /\ ~Refreshing
ListStep  == \E page \in SUBSET unread :
               ListMemberships(page) \/ ListScopes(page) \/ ListMembershipBindings(page)
LoopStep  == \/ \E n \in SecretNames : ApplyCreate(n) \/ ApplyAlreadyExists(n) \/ PruneDelete(n)
             \/ ReconcileClusterSecrets \/ ApplyUpdate \/ ApplyDone \/ PruneList \/ RefreshDone
ErrorStep == /\ UNCHANGED <<fleet, history>>
             /\ Exit \/ (RefreshError /\ pc \notin Publish)

LEMMA StepKinds ==
  ASSUME [Next]_vars
  PROVE  \/ FleetStep \/ WriteStep \/ BeginStep \/ ListStep
         \/ PublishMemberships \/ PublishScopes \/ LoopStep \/ ErrorStep
         \/ UNCHANGED vars
<1> USE DEF Refreshing
<1>1. CASE Environment
  <2>1. ASSUME NEW m \in Memberships, Register(m) \/ Unregister(m) PROVE FleetStep
    BY <2>1 DEF FleetStep, FleetOK, Register, Unregister
  <2>2. ASSUME NEW s \in Scopes, CreateScope(s) \/ DeleteScope(s) PROVE FleetStep
    BY <2>2 DEF FleetStep, FleetOK, CreateScope, DeleteScope
  <2>3. ASSUME NEW b \in Bindings, Bind(b) \/ Unbind(b) PROVE FleetStep
    BY <2>3 DEF FleetStep, FleetOK, Bind, Unbind
  <2> QED BY <1>1, <2>1, <2>2, <2>3 DEF Environment, WriteStep
<1>2. CASE Start \/ Wake
  BY <1>2 DEF Start, Wake, BeginStep
<1>3. ASSUME NEW n \in SecretNames, DeleteNotFound(n) \/ AnswerLost(n) PROVE ErrorStep
  BY <1>3 DEF ErrorStep, DeleteNotFound, AnswerLost, Publish
<1>4. CASE UpdateRejected \/ CallFails \/ Crash
  BY <1>4 DEF ErrorStep, UpdateRejected, CallFails, Crash, Publish, Listing
<1> QED
  BY <1>1, <1>2, <1>3, <1>4 DEF Next, Refresh, Faulty, ListStep, LoopStep

LEMMA LoopFrame ==
  ASSUME LoopStep
  PROVE  /\ UNCHANGED <<fleet, lists, caches, history>>
         /\ pc \in Reconcile /\ pc' \in Reconcile \cup {"idle"}
  BY DEF LoopStep, ReconcileClusterSecrets, ApplyCreate, ApplyAlreadyExists, ApplyUpdate, ApplyDone,
         PruneList, PruneDelete, RefreshDone, SecretWritten, Reconcile, Applying

LEMMA WindowStep == Typed /\ Typed' /\ WindowInv /\ [Next]_vars => WindowInv'
<1> SUFFICES ASSUME Typed, Typed', WindowInv, [Next]_vars PROVE WindowInv'
  OBVIOUS
<1> USE DEF WindowInv, Refreshing
<1>1. CASE FleetStep
  <2>1. FleetOK'
    BY <1>1 DEF FleetStep
  <2>2. ASSUME NEW b \in window' \cap Bindings PROVE b.membership \in window'
    <3>1. b \in window \/ b \in bindings'
      BY <1>1, <2>2, Disjoint DEF FleetStep, FleetChange, Typed, TypeOK
    <3> QED BY <1>1, <2>1, <3>1 DEF FleetStep, FleetChange, FleetOK
  <2> QED BY <1>1, <2>1, <2>2 DEF FleetStep, FleetChange
<1>2. CASE WriteStep
  BY <1>2 DEF WriteStep, UserWrites, FleetOK
<1>3. CASE BeginStep
  <2>1. FleetOK' /\ window' = members' \cup bindings' /\ steady' = window'
    BY <1>3 DEF BeginStep, BeginRefresh, FleetOK
  <2>2. ASSUME NEW b \in window' \cap Bindings PROVE b.membership \in window'
    <3>1. b \in bindings'
      BY <2>1, <2>2, Disjoint DEF Typed, TypeOK
    <3> QED BY <2>1, <3>1 DEF FleetOK
  <2> QED BY <2>1, <2>2
<1>4. CASE ListStep \/ PublishMemberships \/ PublishScopes \/ LoopStep
  BY <1>4, LoopFrame DEF ListStep, ListMemberships, ListScopes, ListMembershipBindings, NextPage,
              PublishMemberships, PublishScopes, FleetOK, Reconcile, Applying
<1>5. CASE ErrorStep
  BY <1>5 DEF ErrorStep, RefreshError, Exit, FleetOK
<1>6. CASE UNCHANGED vars
  BY <1>6 DEF vars, FleetOK
<1> QED BY <1>1, <1>2, <1>3, <1>4, <1>5, <1>6, StepKinds

LEMMA ListingStep == Typed /\ Typed' /\ WindowInv /\ ListingInv /\ [Next]_vars => ListingInv'
<1> SUFFICES ASSUME Typed, Typed', WindowInv, ListingInv, [Next]_vars PROVE ListingInv'
  OBVIOUS
<1> USE DEF ListingInv, Refreshing, Publish, Reconcile, Applying
<1>1. CASE FleetStep
  BY <1>1 DEF FleetStep, FleetChange
<1>2. CASE WriteStep
  BY <1>2 DEF WriteStep, UserWrites
<1>3. CASE BeginStep
  BY <1>3 DEF BeginStep, BeginRefresh, Typed, TypeOK
<1>4. ASSUME NEW page \in SUBSET unread, ListMemberships(page) PROVE ListingInv'
  <2>1. page \cap members \subseteq window /\ steady \cap Memberships \subseteq members
    BY <1>4, Disjoint DEF ListMemberships, WindowInv, Typed, TypeOK
  <2>2. steady' \cap Memberships \subseteq mems' \cup (unread \ page)
    BY <1>4, <2>1 DEF ListMemberships
  <2> QED BY <1>4, <2>1, <2>2 DEF ListMemberships, NextPage
<1>5. ASSUME NEW page \in SUBSET unread, ListScopes(page) PROVE ListingInv'
  BY <1>5 DEF ListScopes, NextPage
<1>6. ASSUME NEW page \in SUBSET unread, ListMembershipBindings(page) PROVE ListingInv'
  <2>1. page \cap bindings \subseteq window /\ steady \cap Bindings \subseteq bindings
    BY <1>6, Disjoint DEF ListMembershipBindings, WindowInv, Typed, TypeOK
  <2>2. steady' \cap Bindings \subseteq mbs' \cup (unread \ page)
    BY <1>6, <2>1 DEF ListMembershipBindings
  <2> QED BY <1>6, <2>1, <2>2 DEF ListMembershipBindings, NextPage
<1>7. CASE PublishMemberships \/ PublishScopes \/ LoopStep
  BY <1>7, LoopFrame DEF PublishMemberships, PublishScopes
<1>8. CASE ErrorStep
  BY <1>8 DEF ErrorStep, RefreshError, Exit, DropLocals
<1>9. CASE UNCHANGED vars
  BY <1>9 DEF vars
<1> QED BY <1>1, <1>2, <1>3, <1>4, <1>5, <1>6, <1>7, <1>8, <1>9, StepKinds DEF ListStep

(***************************************************************************)
(* The two maps built from one listing: inverse to each other, and exactly *)
(* as wide as the listing.                                                 *)
(***************************************************************************)
LEMMA MapsInverse ==
  ASSUME NEW ms, NEW ss, NEW bs
  PROVE  MapsAgree(MembershipTenancyMap(ms, bs), ScopeTenancyMap(ss, bs))
<1> DEFINE mc == MembershipTenancyMap(ms, bs)
           sc == ScopeTenancyMap(ss, bs)
<1> SUFFICES ASSUME NEW m \in Memberships, NEW k \in ScopeKeys
             PROVE  (m \in DOMAIN mc /\ k \in mc[m]) <=> (k \in DOMAIN sc /\ m \in sc[k])
  BY DEF MapsAgree
<1>1. (m \in DOMAIN mc /\ k \in mc[m]) <=> \E c \in bs : c.membership = m /\ ShortID(c.scope) = k
  BY DEF MembershipTenancyMap
<1>2. (k \in DOMAIN sc /\ m \in sc[k]) <=> \E c \in bs : c.membership = m /\ ShortID(c.scope) = k
  BY DEF ScopeTenancyMap
<1> QED BY <1>1, <1>2

LEMMA MapDomain ==
  ASSUME NEW ms, NEW bs
  PROVE  DOMAIN MembershipTenancyMap(ms, bs) = ms \cup {b.membership : b \in bs}
  BY DEF MembershipTenancyMap

(* A cluster is in a scope's list exactly if a listed binding says so.     *)
LEMMA ScopeEntry ==
  ASSUME NEW ss, NEW bs \in SUBSET Bindings, NEW b \in Bindings
  PROVE  (/\ ShortID(b.scope) \in DOMAIN ScopeTenancyMap(ss, bs)
          /\ b.membership \in ScopeTenancyMap(ss, bs)[ShortID(b.scope)]) <=> b \in bs
<1> DEFINE sc == ScopeTenancyMap(ss, bs)
           k  == ShortID(b.scope)
<1>1. (k \in DOMAIN sc /\ b.membership \in sc[k])
        <=> \E c \in bs : c.membership = b.membership /\ ShortID(c.scope) = k
  BY DEF ScopeTenancyMap
<1>2. ASSUME NEW c \in bs, c.membership = b.membership, ShortID(c.scope) = k PROVE c = b
  BY <1>2 DEF ShortID, Bindings
<1> QED BY <1>1, <1>2

LEMMA TopologyStep ==
  Typed /\ Typed' /\ WindowInv /\ ListingInv /\ TopologyInv /\ [Next]_vars => TopologyInv'
<1> SUFFICES ASSUME Typed, Typed', WindowInv, ListingInv, TopologyInv, [Next]_vars PROVE TopologyInv'
  OBVIOUS
<1> USE DEF TopologyInv
<1>1. CASE UNCHANGED <<pc, lists, caches>> /\ window \subseteq window' /\ steady' \subseteq steady
  BY <1>1 DEF TenancyMapsAgree, TopologyIsCurrent
<1>2. CASE FleetStep \/ WriteStep \/ UNCHANGED vars
  BY <1>1, <1>2 DEF FleetStep, FleetChange, WriteStep, UserWrites, vars
<1>3. CASE BeginStep
  BY <1>3 DEF BeginStep, BeginRefresh, Refreshing, TenancyMapsAgree, TopologyIsCurrent, Reconcile, Applying
<1>4. CASE ListStep
  BY <1>4 DEF ListStep, ListMemberships, ListScopes, ListMembershipBindings, NextPage,
              TenancyMapsAgree, TopologyIsCurrent, Reconcile, Applying
<1>5. CASE PublishMemberships
  BY <1>5 DEF PublishMemberships, TenancyMapsAgree, TopologyIsCurrent, Reconcile, Applying
<1>6. CASE PublishScopes
  <2>1. /\ memCache' = MembershipTenancyMap(mems, mbs) /\ scopeCache' = ScopeTenancyMap(scs, mbs)
        /\ UNCHANGED <<window, steady>> /\ pc' = "reconcile"
    BY <1>6 DEF PublishScopes
  <2>2. TenancyMapsAgree'
    BY <2>1, MapsInverse DEF TenancyMapsAgree, MapsAgree, Typed, CachesReady, Reconcile
  <2>3. mbs \in SUBSET Bindings
    BY DEF Typed, TypeOK
  <2>4. /\ steady \cap Memberships \subseteq mems /\ steady \cap Bindings \subseteq mbs
        /\ mems \subseteq window /\ mbs \subseteq window
    BY <1>6 DEF PublishScopes, ListingInv, Publish
  <2>5. \A b \in mbs : b.membership \in window
    BY <2>3, <2>4 DEF WindowInv
  <2>6. TopologyIsCurrent'
    <3>1. steady' \cap Memberships \subseteq DOMAIN memCache' /\ DOMAIN memCache' \subseteq window'
      <4>1. steady' \cap Memberships \subseteq mems /\ mems \subseteq window'
            /\ window' = window
        BY <2>1, <2>4
      <4>2. DOMAIN memCache' = mems \cup {b.membership : b \in mbs}
        BY <2>1, MapDomain
      <4> QED BY <4>1, <4>2, <2>5
    <3>2. \A b \in Bindings :
             (/\ ShortID(b.scope) \in DOMAIN scopeCache'
              /\ b.membership \in scopeCache'[ShortID(b.scope)]) <=> b \in mbs
      BY <2>1, <2>3, ScopeEntry
    <3> QED BY <2>1, <2>4, <3>1, <3>2 DEF TopologyIsCurrent
  <2> QED BY <2>1, <2>2, <2>6
<1>7. CASE LoopStep
  BY <1>7, LoopFrame DEF TenancyMapsAgree, TopologyIsCurrent, Reconcile, Applying
<1>8. CASE ErrorStep
  BY <1>8 DEF ErrorStep, RefreshError, Exit, Publish, TenancyMapsAgree, TopologyIsCurrent, Reconcile, Applying
<1> QED BY <1>2, <1>3, <1>4, <1>5, <1>6, <1>7, <1>8, StepKinds

LEMMA LoopInvStep == Typed /\ Typed' /\ LoopInv /\ [Next]_vars => LoopInv'
<1> SUFFICES ASSUME Typed, Typed', LoopInv, [Next]_vars PROVE LoopInv'
  OBVIOUS
<1> USE DEF LoopInv, Applied, ClusterSecrets, Applying
<1>1. CASE FleetStep \/ UNCHANGED vars
  BY <1>1 DEF FleetStep, FleetChange, vars
<1>2. CASE WriteStep
  BY <1>2 DEF WriteStep, UserWrites, Typed, TypeOK
<1>3. CASE BeginStep \/ ListStep \/ PublishMemberships \/ PublishScopes
  BY <1>3 DEF BeginStep, BeginRefresh, ListStep, ListMemberships, ListScopes, ListMembershipBindings,
              NextPage, PublishMemberships, PublishScopes
<1>4. CASE ErrorStep
  BY <1>4 DEF ErrorStep, RefreshError, Exit
<1>5. CASE LoopStep
  <2>1. UNCHANGED <<memCache, tampered>>
    BY <1>5, LoopFrame
  <2>2. CASE ReconcileClusterSecrets \/ ApplyDone \/ RefreshDone
    BY <2>1, <2>2 DEF ReconcileClusterSecrets, ApplyDone, RefreshDone
  <2>3. ASSUME NEW n \in SecretNames, pc \in Applying, n \in todo, SecretWritten(n) PROVE LoopInv'
    BY <2>1, <2>3 DEF SecretWritten, Typed, TypeOK
  <2>4. CASE ApplyUpdate
    BY <2>3, <2>4 DEF ApplyUpdate, Typed, TypeOK
  <2>5. ASSUME NEW n \in SecretNames, ApplyCreate(n) \/ ApplyAlreadyExists(n) PROVE LoopInv'
    BY <2>1, <2>3, <2>5 DEF ApplyCreate, ApplyAlreadyExists
  <2>6. CASE PruneList
    BY <2>1, <2>6 DEF PruneList
  <2>7. ASSUME NEW n \in SecretNames, PruneDelete(n) PROVE LoopInv'
    BY <2>1, <2>7 DEF PruneDelete, IsPluginSecret, Typed, TypeOK
  <2> QED BY <1>5, <2>2, <2>4, <2>5, <2>6, <2>7 DEF LoopStep
<1> QED BY <1>1, <1>2, <1>3, <1>4, <1>5, StepKinds

LEMMA IInvInit == Init => IInv
  BY TypedInit DEF Init, IInv, WindowInv, FleetOK, ListingInv, TopologyInv, TenancyMapsAgree,
     TopologyIsCurrent, LoopInv, Refreshing, Publish, Reconcile, Applying

LEMMA IInvStep == IInv /\ [Next]_vars => IInv'
  BY TypedStep, WindowStep, ListingStep, TopologyStep, LoopInvStep DEF IInv

THEOREM Invariance == Spec => []IInv
BY IInvInit, IInvStep, PTL DEF Spec

(* Only users change the fleet, and the count of the changes.              *)
LEMMA ProcessFrame ==
  ASSUME Refresh \/ Faulty
  PROVE  UNCHANGED <<fleet, changes>>
<1>1. CASE Start \/ Wake
  BY <1>1 DEF Start, Wake, BeginRefresh
<1>2. ASSUME NEW n \in SecretNames,
             ApplyCreate(n) \/ ApplyAlreadyExists(n) \/ PruneDelete(n) \/ DeleteNotFound(n) \/ AnswerLost(n)
      PROVE  UNCHANGED <<fleet, changes>>
  BY <1>2 DEF ApplyCreate, ApplyAlreadyExists, PruneDelete, DeleteNotFound, AnswerLost, SecretWritten
<1>3. CASE ListStep
  BY <1>3 DEF ListStep, ListMemberships, ListScopes, ListMembershipBindings
<1>4. CASE PublishMemberships \/ PublishScopes \/ ReconcileClusterSecrets \/ ApplyUpdate \/ ApplyDone
  BY <1>4 DEF PublishMemberships, PublishScopes, ReconcileClusterSecrets, ApplyUpdate, ApplyDone, SecretWritten
<1>5. CASE UpdateRejected \/ PruneList \/ RefreshDone \/ CallFails \/ Crash
  BY <1>5 DEF UpdateRejected, PruneList, RefreshDone, CallFails, Crash
<1> QED BY <1>1, <1>2, <1>3, <1>4, <1>5 DEF Refresh, Faulty, ListStep

(***************************************************************************)
(* What the invariant stands besides the steps of Next: somebody else may  *)
(* write any secret, provided it is one more that is tampered with, and    *)
(* the process may be stopped wherever it is.                              *)
(***************************************************************************)
LEMMA ForeignStep ==
  ASSUME IInv,
         UNCHANGED <<fleet, pc, serving, lists, caches, loop, changes, window, steady>>,
         faults' \in 0..MaxFaults, secrets' \in [SecretNames -> Secret \cup {NoSecret}],
         tampered' = tampered \cup {n \in SecretNames : secrets'[n] # secrets[n]}
  PROVE  IInv'
<1>1. Typed'
  BY DEF IInv, Typed, TypeOK, CachesReady, ServesWithTopology
<1>2. WindowInv' /\ ListingInv' /\ TopologyInv'
  BY DEF IInv, WindowInv, FleetOK, Refreshing, ListingInv, TopologyInv, TenancyMapsAgree, TopologyIsCurrent
<1>3. LoopInv'
  <2>1. ClusterSecrets' = ClusterSecrets
    BY DEF ClusterSecrets
  <2>2. \A n \in SecretNames \ tampered' : secrets'[n] = secrets[n]
    OBVIOUS
  <2>3. pc \in Reconcile => ClusterSecrets \subseteq SecretNames
    BY DEF IInv, Typed, TypeOK, CachesReady, ClusterSecrets, ClusterSecretNames, SecretNames
  <2>4. \A rest : pc \in Reconcile /\ Applied(rest) => Applied(rest)'
    BY <2>1, <2>2, <2>3 DEF Applied
  <2> QED BY <2>1, <2>2, <2>4 DEF IInv, LoopInv, Reconcile, Applying
<1> QED BY <1>1, <1>2, <1>3 DEF IInv

LEMMA ExitStep ==
  ASSUME IInv, Exit, UNCHANGED <<fleet, secrets, changes, faults, history>>
  PROVE  IInv'
<1>1. Typed'
  BY ErrorTyped DEF IInv, Typed, TypeOK
<1> QED
  BY <1>1 DEF IInv, Exit, DropLocals, WindowInv, FleetOK, Refreshing, ListingInv, TopologyInv,
     TenancyMapsAgree, TopologyIsCurrent, LoopInv, Publish, Reconcile, Applying
-----------------------------------------------------------------------------
(***************************************************************************)
(* The invariants that the runs check.                                     *)
(***************************************************************************)

(* When a refresh returns nil, the secrets are those of its topology.      *)
THEOREM MirrorsFleet == Spec => []RefreshMirrorsFleet
<1>1. IInv => RefreshMirrorsFleet
  BY DEF IInv, LoopInv, Applied, RefreshMirrorsFleet, Mirrored
<1> QED BY <1>1, Invariance, PTL

(* The maps that PluginResults reads are always inverse to each other.     *)
THEOREM MapsAlwaysAgree == Spec => []TenancyMapsAgree
<1>1. IInv => TenancyMapsAgree
  BY DEF IInv, TopologyInv
<1> QED BY <1>1, Invariance, PTL

(* What a refresh publishes was true while it listed.                      *)
THEOREM TopologyAlwaysCurrent == Spec => []TopologyIsCurrent
<1>1. IInv => TopologyIsCurrent
  BY DEF IInv, TopologyInv
<1> QED BY <1>1, Invariance, PTL

(***************************************************************************)
(* The action properties: who changes a secret, and which one.             *)
(***************************************************************************)
Writes(n)  == pc \in Applying /\ secrets' = [secrets EXCEPT ![n] = Manifest(n)]
Deletes(n) == pc = "prune" /\ secrets' = [secrets EXCEPT ![n] = NoSecret]
AtTarget(n) == pc = "update" /\ n = target

LEMMA WhoWrites ==
  ASSUME Typed, [Next]_vars
  PROVE  \/ UserStep
         \/ secrets' = secrets
         \/ \E n \in SecretNames : (n \in todo \/ AtTarget(n)) /\ Writes(n)
         \/ \E n \in todo : Deletes(n)
<1> USE DEF Applying, Writes, Deletes, AtTarget
<1>1. CASE Environment
  <2>1. changes \in Nat
    BY BoundsAssumption DEF Typed, TypeOK
  <2> QED
    BY <1>1, <2>1 DEF Environment, UserStep, Change, Register, Unregister, CreateScope, DeleteScope,
                      Bind, Unbind, UserWrites
<1>2. ASSUME NEW n \in SecretNames,
             ApplyCreate(n) \/ ApplyAlreadyExists(n) \/ PruneDelete(n) \/ DeleteNotFound(n) \/ AnswerLost(n)
      PROVE  \/ secrets' = secrets
             \/ (n \in todo \/ AtTarget(n)) /\ Writes(n)
             \/ n \in todo /\ Deletes(n)
  BY <1>2 DEF ApplyCreate, ApplyAlreadyExists, PruneDelete, DeleteNotFound, AnswerLost, SecretWritten
<1>3. CASE ApplyUpdate
  BY <1>3 DEF ApplyUpdate, SecretWritten, Typed, CachesReady
<1>4. CASE \/ Start \/ Wake \/ PublishMemberships \/ PublishScopes \/ ReconcileClusterSecrets
           \/ UpdateRejected \/ ApplyDone \/ PruneList \/ RefreshDone \/ CallFails \/ Crash
           \/ UNCHANGED vars \/ ListStep
  BY <1>4 DEF Start, Wake, BeginRefresh, PublishMemberships, PublishScopes, ReconcileClusterSecrets,
              UpdateRejected, ApplyDone, PruneList, RefreshDone, CallFails, Crash, vars,
              ListStep, ListMemberships, ListScopes, ListMembershipBindings
<1> QED BY <1>1, <1>2, <1>3, <1>4 DEF Next, Refresh, Faulty, ListStep

(* No step of the plugin takes the secret of a steady cluster away.        *)
LEMMA KeepsStep ==
  ASSUME IInv, [Next]_vars
  PROVE  \A m \in steady \cap Memberships :
           secrets[SecretName(m)] # NoSecret /\ secrets'[SecretName(m)] = NoSecret => UserStep
<1> SUFFICES ASSUME NEW m \in steady \cap Memberships,
                    secrets[SecretName(m)] # NoSecret, secrets'[SecretName(m)] = NoSecret, ~UserStep
             PROVE  FALSE
  OBVIOUS
<1>1. SecretName(m) \in SecretNames /\ Manifest(SecretName(m)) # NoSecret
  BY Names, SecretAssumption
<1>2. secrets \in [SecretNames -> Secret \cup {NoSecret}]
  BY DEF IInv, Typed, TypeOK
<1>3. ~\E n \in SecretNames : Writes(n)
  BY <1>1, <1>2 DEF Writes
<1>4. PICK n \in todo : Deletes(n)
  BY <1>3, WhoWrites DEF IInv
<1>5. n = SecretName(m)
  BY <1>1, <1>2, <1>4 DEF Deletes
<1>6. m \in DOMAIN memCache
  BY <1>4 DEF IInv, TopologyInv, TopologyIsCurrent, Deletes, Reconcile
<1>7. SecretName(m) \in ClusterSecrets
  BY <1>6 DEF ClusterSecrets, ClusterSecretNames
<1> QED BY <1>4, <1>5, <1>7 DEF IInv, LoopInv, Deletes

(* A cluster keeps its secret, whatever comes between the calls.           *)
THEOREM KeepsItsSecret == Spec => ClusterKeepsItsSecret
BY KeepsStep, Invariance, PTL DEF Spec, ClusterKeepsItsSecret

(* A secret is only ever written for a cluster of the refresh's window.    *)
THEOREM OnlyMembers == Spec => OnlyMembersGetSecrets
<1>1. ASSUME IInv, [Next]_vars
      PROVE  \A n \in SecretNames :
               secrets'[n] # secrets[n] /\ secrets'[n] # NoSecret
                 => UserStep \/ n \in ClusterSecretNames(window \cap Memberships)
  <2> SUFFICES ASSUME NEW n \in SecretNames, secrets'[n] # secrets[n], secrets'[n] # NoSecret, ~UserStep
               PROVE  n \in ClusterSecretNames(window \cap Memberships)
    OBVIOUS
  <2>1. secrets \in [SecretNames -> Secret \cup {NoSecret}] /\ todo \subseteq SecretNames
    BY <1>1 DEF IInv, Typed, TypeOK
  <2>2. ~\E k \in todo : Deletes(k)
    BY <2>1 DEF Deletes
  <2>3. PICK k \in SecretNames : (k \in todo \/ AtTarget(k)) /\ Writes(k)
    BY <1>1, <2>2, WhoWrites DEF IInv
  <2>4. k = n
    BY <2>1, <2>3 DEF Writes
  <2>5. n \in ClusterSecrets
    BY <1>1, <2>3, <2>4 DEF IInv, LoopInv, Writes, Applying, AtTarget
  <2>6. DOMAIN memCache \subseteq window \cap Memberships
    <3>1. pc \in Reconcile
      BY <2>3 DEF Writes, Reconcile
    <3>2. DOMAIN memCache \subseteq Memberships
      BY <1>1, <3>1 DEF IInv, Typed, TypeOK, CachesReady
    <3> QED BY <1>1, <3>1, <3>2 DEF IInv, TopologyInv, TopologyIsCurrent
  <2> QED BY <2>5, <2>6 DEF ClusterSecrets, ClusterSecretNames
<1> QED BY <1>1, Invariance, PTL DEF Spec, OnlyMembersGetSecrets

(* pruneSecrets deletes what was the plugin's when the refresh began.      *)
THEOREM PrunesItsOwn == Spec => PruneTakesItsOwn
<1>1. ASSUME IInv, [Next]_vars
      PROVE  \A n \in SecretNames \ tampered :
               secrets[n] # NoSecret /\ ~IsPluginSecret(secrets[n]) /\ secrets'[n] = NoSecret
                 => UserStep
  <2> SUFFICES ASSUME NEW n \in SecretNames \ tampered, secrets[n] # NoSecret,
                      ~IsPluginSecret(secrets[n]), secrets'[n] = NoSecret, ~UserStep
               PROVE  FALSE
    OBVIOUS
  <2>1. secrets \in [SecretNames -> Secret \cup {NoSecret}] /\ todo \subseteq SecretNames
    BY <1>1 DEF IInv, Typed, TypeOK
  <2>2. ~\E k \in SecretNames : Writes(k)
    BY <2>1, Manifests, SecretAssumption DEF Writes
  <2>3. PICK k \in todo : Deletes(k)
    BY <1>1, <2>2, WhoWrites DEF IInv
  <2>4. k = n
    BY <2>1, <2>3 DEF Deletes
  <2> QED BY <1>1, <2>3, <2>4 DEF IInv, LoopInv, Deletes
<1> QED BY <1>1, Invariance, PTL DEF Spec, PruneTakesItsOwn
=============================================================================
