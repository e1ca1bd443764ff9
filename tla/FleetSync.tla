------------------------------ MODULE FleetSync ------------------------------
(***************************************************************************)
(* The refresh goroutine of the fleet plugin (FleetSync in                 *)
(* fleet-argocd-plugin/fleetclient/fleetclient.go) and the three things it *)
(* works between: the GKE Fleet API it polls, the two tenancy maps it      *)
(* caches for the HTTP handler, and the Secrets of the argocd namespace.   *)
(*                                                                         *)
(* Every call to the Fleet or Kubernetes API is a step, so the fleet, the  *)
(* users of the argocd namespace and the readers of the cache may move     *)
(* between any two of them.  A call may fail, a write may be applied and   *)
(* its answer lost, and the process may die at any step and be restarted.  *)
(***************************************************************************)
EXTENDS FleetTopology

CONSTANTS UserSecrets,  \* what other users of the namespace may write
          NoSecret,     \* no Secret of that name
          Nil,          \* a Go nil
          MaxChanges,   \* bound: changes made by the users of fleet and namespace
          MaxFaults     \* bound: failed calls, lost answers and crashes

ASSUME SecretAssumption == UserSecrets \subseteq Secret /\ NoSecret \notin Secret
ASSUME NilAssumption ==
  /\ \A S \in SUBSET Memberships : Nil \notin [S -> SUBSET ScopeKeys]
  /\ \A K \in SUBSET ScopeKeys : Nil \notin [K -> SUBSET Memberships]
ASSUME BoundsAssumption == MaxChanges \in Nat /\ MaxFaults \in Nat

VARIABLES
  members, scopes, bindings,  \* the fleet, as the Fleet API holds it
  secrets,                    \* the Secrets of the argocd namespace, by name
  pc,                         \* where the refresh goroutine is
  serving,                    \* NewFleetSync has returned: requests are answered
  unread,                     \* what the listing in progress has not looked at
  mems, scs, mbs,             \* locals of Refresh: the three listings
  memCache, scopeCache,       \* MembershipTenancyMapCache, ScopeTenancyMapCache
  todo, target,               \* names a loop has still to handle; the one in hand
  changes, faults,            \* how much of the two bounds is used up
  \* History of the refresh in progress, which no action reads:
  window,                     \* memberships and bindings there at some time during it
  steady,                     \* memberships and bindings there all the time
  tampered                    \* secrets another user has written during it

fleet   == <<members, scopes, bindings>>
lists   == <<unread, mems, scs, mbs>>
caches  == <<memCache, scopeCache>>
loop    == <<todo, target>>
history == <<window, steady, tampered>>
vars == <<fleet, secrets, pc, serving, lists, caches, loop, changes, faults, history>>

(* The API calls of Refresh, in order, and the two states between refreshes. *)
Listing   == {"listMemberships", "listScopes", "listBindings"}
Publish   == {"publishMemberships", "publishScopes"}
Applying  == {"apply", "update"}
Reconcile == {"reconcile"} \cup Applying \cup {"listSecrets", "prune"}
PC == {"down", "idle"} \cup Listing \cup Publish \cup Reconcile

(* A cluster Secret that pruneSecrets takes to be its own.                 *)
IsPluginSecret(s) == s # NoSecret /\ s.cluster /\ s.managed

TypeOK ==
  /\ members \subseteq Memberships /\ scopes \subseteq Scopes
  /\ bindings \subseteq Bindings
  /\ secrets \in [SecretNames -> Secret \cup {NoSecret}]
  /\ pc \in PC /\ serving \in BOOLEAN
  /\ mems \subseteq Memberships /\ scs \subseteq Scopes /\ mbs \subseteq Bindings
  /\ unread \subseteq Memberships \cup Scopes \cup Bindings
  /\ \/ memCache = Nil
     \/ \E S \in SUBSET Memberships : memCache \in [S -> SUBSET ScopeKeys]
  /\ \/ scopeCache = Nil
     \/ \E K \in SUBSET ScopeKeys : scopeCache \in [K -> SUBSET Memberships]
  /\ todo \subseteq SecretNames /\ target \in SecretNames \cup {Nil}
  /\ changes \in 0..MaxChanges /\ faults \in 0..MaxFaults
  /\ window \subseteq Memberships \cup Bindings
  /\ steady \subseteq Memberships \cup Bindings
  /\ tampered \subseteq SecretNames

(***************************************************************************)
(* The plugin may be installed next to any fleet, and in a namespace that  *)
(* holds what users and an earlier plugin process left there.              *)
(***************************************************************************)
Init ==
  /\ members \in SUBSET Memberships /\ scopes \in SUBSET Scopes
  /\ bindings \in SUBSET [membership : members, scope : scopes]
  /\ secrets \in [SecretNames -> Secret \cup {NoSecret}]
  /\ \A n \in SecretNames : secrets[n] \in {NoSecret, Manifest(n)} \cup UserSecrets
  /\ pc = "down" /\ serving = FALSE
  /\ unread = {} /\ mems = {} /\ scs = {} /\ mbs = {}
  /\ memCache = Nil /\ scopeCache = Nil
  /\ todo = {} /\ target = Nil
  /\ changes = 0 /\ faults = 0
  /\ window = {} /\ steady = {} /\ tampered = {}
-----------------------------------------------------------------------------
(***************************************************************************)
(* The environment: the fleet's administrators and the other users of the  *)
(* argocd namespace.  The Fleet API keeps a binding only as long as both   *)
(* its membership and its scope exist.                                     *)
(***************************************************************************)
Change == changes < MaxChanges /\ changes' = changes + 1
FleetChange ==
  /\ window' = window \cup members' \cup bindings'
  /\ steady' = steady \cap (members' \cup bindings')
  /\ UNCHANGED <<secrets, pc, serving, lists, caches, loop, faults, tampered>>

Register(m) ==
  /\ Change
  /\ m \notin members
  /\ members' = members \cup {m}
  /\ UNCHANGED <<scopes, bindings>>
  /\ FleetChange

Unregister(m) ==
  /\ Change
  /\ m \in members
  /\ members' = members \ {m}
  /\ bindings' = {b \in bindings : b.membership # m}
  /\ UNCHANGED scopes
  /\ FleetChange

CreateScope(s) ==
  /\ Change
  /\ s \notin scopes
  /\ scopes' = scopes \cup {s}
  /\ UNCHANGED <<members, bindings>>
  /\ FleetChange

DeleteScope(s) ==
  /\ Change
  /\ s \in scopes
  /\ scopes' = scopes \ {s}
  /\ bindings' = {b \in bindings : b.scope # s}
  /\ UNCHANGED members
  /\ FleetChange

Bind(b) ==
  /\ Change
  /\ b \notin bindings /\ b.membership \in members /\ b.scope \in scopes
  /\ bindings' = bindings \cup {b}
  /\ UNCHANGED <<members, scopes>>
  /\ FleetChange

Unbind(b) ==
  /\ Change
  /\ b \in bindings
  /\ bindings' = bindings \ {b}
  /\ UNCHANGED <<members, scopes>>
  /\ FleetChange

UserWrites(n) ==
  /\ Change
  /\ \E s \in UserSecrets \cup {NoSecret} :
       /\ s # secrets[n]
       /\ secrets' = [secrets EXCEPT ![n] = s]
  /\ tampered' = tampered \cup {n}
  /\ UNCHANGED <<fleet, pc, serving, lists, caches, loop, faults, window, steady>>

Environment ==
  \/ \E m \in Memberships : Register(m) \/ Unregister(m)
  \/ \E s \in Scopes : CreateScope(s) \/ DeleteScope(s)
  \/ \E b \in Bindings : Bind(b) \/ Unbind(b)
  \/ \E n \in SecretNames : UserWrites(n)
-----------------------------------------------------------------------------
(***************************************************************************)
(* The start of a refresh: by NewFleetSync in a fresh process, and by the  *)
(* goroutine of startReconcile whenever it wakes up.                       *)
(***************************************************************************)
BeginRefresh ==
  /\ pc' = "listMemberships"
  /\ unread' = Memberships
  /\ window' = members \cup bindings /\ steady' = members \cup bindings
  /\ tampered' = {}
  /\ UNCHANGED <<fleet, secrets, serving, mems, scs, mbs, caches, loop, changes, faults>>

Start == pc = "down" /\ BeginRefresh
Wake  == pc = "idle" /\ BeginRefresh

(***************************************************************************)
(* One page of a listing.  The pages of one listing are separate calls, so *)
(* a listing is no snapshot: each resource is looked at when its page is.  *)
(***************************************************************************)
Page(page) == page \subseteq unread /\ (page = {} => unread = {})

(* Mutant: only the first page of a listing is read.                       *)
FirstPageOnly(page, after, unreadAfter) == pc' = after /\ unread' = unreadAfter

NextPage(page, after, unreadAfter) ==
  IF page = unread THEN pc' = after /\ unread' = unreadAfter
                   ELSE pc' = pc /\ unread' = unread \ page

ListMemberships(page) ==
  /\ pc = "listMemberships" /\ Page(page)
  /\ mems' = mems \cup (page \cap members)
  /\ NextPage(page, "listScopes", Scopes)
  /\ UNCHANGED <<fleet, secrets, serving, scs, mbs, caches, loop, changes, faults, history>>

ListScopes(page) ==
  /\ pc = "listScopes" /\ Page(page)
  /\ scs' = scs \cup (page \cap scopes)
  /\ NextPage(page, "listBindings", Bindings)
  /\ UNCHANGED <<fleet, secrets, serving, mems, mbs, caches, loop, changes, faults, history>>

ListMembershipBindings(page) ==
  /\ pc = "listBindings" /\ Page(page)
  /\ mbs' = mbs \cup (page \cap bindings)
  /\ NextPage(page, "publishMemberships", {})
  /\ UNCHANGED <<fleet, secrets, serving, mems, scs, caches, loop, changes, faults, history>>

(***************************************************************************)
(* "Refresh cache": two assignments that no lock joins.                    *)
(***************************************************************************)
PublishMemberships ==
  /\ pc = "publishMemberships"
  /\ memCache' = MembershipTenancyMap(mems, mbs)
  /\ pc' = "publishScopes"
  /\ UNCHANGED <<fleet, secrets, serving, lists, scopeCache, loop, changes, faults, history>>

(* Mutant: the listings are kept, and the next refresh appends to them.    *)
PublishAndKeepListings ==
  /\ pc = "publishScopes"
  /\ scopeCache' = ScopeTenancyMap(scs, mbs)
  /\ pc' = "reconcile"
  /\ UNCHANGED <<fleet, secrets, serving, lists, memCache, loop, changes, faults, history>>

PublishScopes ==
  /\ pc = "publishScopes"
  /\ scopeCache' = ScopeTenancyMap(scs, mbs)
  /\ mems' = {} /\ scs' = {} /\ mbs' = {}
  /\ pc' = "reconcile"
  /\ UNCHANGED <<fleet, secrets, serving, unread, memCache, loop, changes, faults, history>>

(* The map of manifests that applySecrets and pruneSecrets are given.      *)
ClusterSecrets == ClusterSecretNames(DOMAIN memCache)

ReconcileClusterSecrets ==
  /\ pc = "reconcile"
  /\ todo' = ClusterSecrets
  /\ pc' = "apply"
  /\ UNCHANGED <<fleet, secrets, serving, lists, caches, target, changes, faults, history>>

(***************************************************************************)
(* applySecrets: in no particular order, create each secret; if there is   *)
(* one of that name, whoever wrote it, overwrite it.                       *)
(***************************************************************************)
SecretWritten(n) ==
  /\ secrets' = [secrets EXCEPT ![n] = Manifest(n)]
  /\ pc' = "apply" /\ todo' = todo \ {n} /\ target' = Nil
  /\ UNCHANGED <<fleet, serving, lists, caches, changes, faults, history>>

ApplyCreate(n) ==
  /\ pc = "apply" /\ n \in todo
  /\ secrets[n] = NoSecret
  /\ SecretWritten(n)

(* Mutant: a secret that is there is taken to be the right one.            *)
KeepExisting(n) ==
  /\ pc = "apply" /\ n \in todo
  /\ secrets[n] # NoSecret
  /\ todo' = todo \ {n}
  /\ UNCHANGED <<fleet, secrets, pc, serving, lists, caches, target, changes, faults, history>>

ApplyAlreadyExists(n) ==
  /\ pc = "apply" /\ n \in todo
  /\ secrets[n] # NoSecret
  /\ pc' = "update" /\ target' = n
  /\ UNCHANGED <<fleet, secrets, serving, lists, caches, todo, changes, faults, history>>

Updatable(n) == secrets[n] # NoSecret /\ ~secrets[n].locked

ApplyUpdate ==
  /\ pc = "update" /\ Updatable(target)
  /\ SecretWritten(target)

(* Mutant: an error ends the loop, and is not returned.                    *)
ApplyBreaks ==
  /\ pc = "apply"
  /\ pc' = "listSecrets"
  /\ UNCHANGED <<fleet, secrets, serving, lists, caches, loop, changes, faults, history>>

ApplyDone ==
  /\ pc = "apply" /\ todo = {}
  /\ pc' = "listSecrets"
  /\ UNCHANGED <<fleet, secrets, serving, lists, caches, loop, changes, faults, history>>

(***************************************************************************)
(* pruneSecrets: one List, then one Delete by name for each listed secret  *)
(* that was the plugin's and is not in the map.  A refresh that gets to    *)
(* the end returns nil: from then on the process serves.                   *)
(***************************************************************************)
(* Mutant: the annotation is not looked at.                                *)
PruneListAll ==
  /\ pc = "listSecrets"
  /\ todo' = {n \in SecretNames \ ClusterSecrets : secrets[n] # NoSecret /\ secrets[n].cluster}
  /\ pc' = "prune"
  /\ UNCHANGED <<fleet, secrets, serving, lists, caches, target, changes, faults, history>>

PruneList ==
  /\ pc = "listSecrets"
  /\ todo' = {n \in SecretNames \ ClusterSecrets : IsPluginSecret(secrets[n])}
  /\ pc' = "prune"
  /\ UNCHANGED <<fleet, secrets, serving, lists, caches, target, changes, faults, history>>

PruneDelete(n) ==
  /\ pc = "prune" /\ n \in todo
  /\ secrets[n] # NoSecret
  /\ secrets' = [secrets EXCEPT ![n] = NoSecret]
  /\ todo' = todo \ {n}
  /\ UNCHANGED <<fleet, pc, serving, lists, caches, target, changes, faults, history>>

RefreshDone ==
  /\ pc = "prune" /\ todo = {}
  /\ pc' = "idle" /\ serving' = TRUE
  /\ UNCHANGED <<fleet, secrets, lists, caches, loop, changes, faults, history>>
-----------------------------------------------------------------------------
(***************************************************************************)
(* Refresh returns an error.  The first refresh of a process takes the     *)
(* process down with it (log.Fatal in main); a later one is only logged,   *)
(* and its cache, published or not, stays.                                 *)
(***************************************************************************)
DropLocals ==
  /\ unread' = {} /\ mems' = {} /\ scs' = {} /\ mbs' = {}
  /\ todo' = {} /\ target' = Nil

Exit ==
  /\ pc' = "down" /\ serving' = FALSE
  /\ memCache' = Nil /\ scopeCache' = Nil
  /\ DropLocals

(* Mutant: a refresh that fails takes the cached topology with it.         *)
ForgetOnError ==
  IF serving
    THEN pc' = "idle" /\ DropLocals /\ memCache' = Nil /\ scopeCache' = Nil /\ UNCHANGED serving
    ELSE Exit

RefreshError ==
  IF serving
    THEN pc' = "idle" /\ DropLocals /\ UNCHANGED <<serving, caches>>
    ELSE Exit

(* The API refuses an update of a secret that has gone, or of a locked one. *)
UpdateRejected ==
  /\ pc = "update" /\ ~Updatable(target)
  /\ RefreshError
  /\ UNCHANGED <<fleet, secrets, changes, faults, history>>

(* Mutant: a Delete that fails is repeated until it does not.              *)
DeleteRetried(n) ==
  /\ pc = "prune" /\ n \in todo
  /\ secrets[n] = NoSecret
  /\ UNCHANGED vars

(* Somebody else deleted a listed secret first: Delete answers NotFound.   *)
DeleteNotFound(n) ==
  /\ pc = "prune" /\ n \in todo
  /\ secrets[n] = NoSecret
  /\ RefreshError
  /\ UNCHANGED <<fleet, secrets, changes, faults, history>>

Fault == faults < MaxFaults /\ faults' = faults + 1

(* A call fails, or its client cannot be set up; nothing is written.       *)
CallFails ==
  /\ Fault
  /\ pc \in Listing \cup {"reconcile", "update", "listSecrets"} \/ (pc \in {"apply", "prune"} /\ todo # {})
  /\ RefreshError
  /\ UNCHANGED <<fleet, secrets, changes, history>>

(* The write takes effect in the cluster but its answer is lost.           *)
AnswerLost(n) ==
  /\ Fault
  /\ \/ /\ pc = "apply" /\ n \in todo /\ secrets[n] = NoSecret
        /\ secrets' = [secrets EXCEPT ![n] = Manifest(n)]
     \/ /\ pc = "update" /\ n = target /\ Updatable(n)
        /\ secrets' = [secrets EXCEPT ![n] = Manifest(n)]
     \/ /\ pc = "prune" /\ n \in todo /\ secrets[n] # NoSecret
        /\ secrets' = [secrets EXCEPT ![n] = NoSecret]
  /\ RefreshError
  /\ UNCHANGED <<fleet, changes, history>>

(* The container dies; Kubernetes starts it again.                         *)
Crash ==
  /\ Fault
  /\ pc # "down"
  /\ Exit
  /\ UNCHANGED <<fleet, secrets, changes, history>>

Faulty == CallFails \/ Crash \/ \E n \in SecretNames : AnswerLost(n)

(* What the goroutine does when the APIs answer.                           *)
Refresh ==
  \/ Start \/ Wake
  \/ \E page \in SUBSET unread :
       ListMemberships(page) \/ ListScopes(page) \/ ListMembershipBindings(page)
  \/ PublishMemberships \/ PublishScopes \/ ReconcileClusterSecrets
  \/ \E n \in SecretNames : ApplyCreate(n) \/ ApplyAlreadyExists(n)
  \/ ApplyUpdate \/ UpdateRejected \/ ApplyDone
  \/ PruneList
  \/ \E n \in SecretNames : PruneDelete(n) \/ DeleteNotFound(n)
  \/ RefreshDone

Next == Environment \/ Refresh \/ Faulty

Spec == Init /\ [][Next]_vars

(***************************************************************************)
(* The goroutine loops for ever and Kubernetes restarts its container, so  *)
(* an enabled step of it is eventually taken.  Nothing is asked of the     *)
(* environment, whose changes and faults the two bounds make finite.       *)
(***************************************************************************)
FairSpec == Spec /\ WF_vars(Refresh)
-----------------------------------------------------------------------------
(***************************************************************************)
(* Properties.  An entry of the two bounds tells whose step a step is.     *)
(***************************************************************************)
UserStep == changes' # changes

(* The API deletes a binding with its membership and with its scope.       *)
FleetOK == \A b \in bindings : b.membership \in members /\ b.scope \in scopes

(***************************************************************************)
(* Whatever comes between the pages of the three listings, the listing and *)
(* the loops, or makes a call fail, the plugin never takes away the secret *)
(* of a cluster that has been registered since the refresh began: Argo CD  *)
(* would take the applications of that cluster with it.                    *)
(***************************************************************************)
ClusterKeepsItsSecret ==
  [][\A m \in steady \cap Memberships :
       secrets[SecretName(m)] # NoSecret /\ secrets'[SecretName(m)] = NoSecret
         => UserStep]_vars

(***************************************************************************)
(* applySecrets gives no secret, and so no Argo CD access, to a cluster    *)
(* that was not registered at any time during the refresh: neither a       *)
(* binding nor an earlier cache brings a departed cluster back.            *)
(***************************************************************************)
OnlyMembersGetSecrets ==
  [][\A n \in SecretNames :
       secrets'[n] # secrets[n] /\ secrets'[n] # NoSecret
         => UserStep \/ n \in ClusterSecretNames(window \cap Memberships)]_vars

(***************************************************************************)
(* When a refresh is about to return nil, every secret that no other user  *)
(* wrote in the meantime is what the published topology asks for: each     *)
(* member's secret points at its own gateway, and no cluster secret of the *)
(* plugin is left over.                                                    *)
(***************************************************************************)
Mirrored(n) ==
  IF n \in ClusterSecrets THEN secrets[n] = Manifest(n)
                          ELSE ~IsPluginSecret(secrets[n])
RefreshMirrorsFleet ==
  pc = "prune" /\ todo = {} => \A n \in SecretNames \ tampered : Mirrored(n)

(***************************************************************************)
(* pruneSecrets removes nothing but its own: a secret that is not the      *)
(* plugin's is deleted only if a user put it there after the refresh       *)
(* began, under a name the plugin had listed.                              *)
(***************************************************************************)
PruneTakesItsOwn ==
  [][\A n \in SecretNames \ tampered :
       secrets[n] # NoSecret /\ ~IsPluginSecret(secrets[n]) /\ secrets'[n] = NoSecret
         => UserStep]_vars

(***************************************************************************)
(* The two maps are inverse to each other except between the two           *)
(* assignments, also after a refresh that failed half way: the clusters a  *)
(* scope's generator sees are those that carry the scope.                  *)
(***************************************************************************)
MapsAgree(mc, sc) ==
  \A m \in Memberships, k \in ScopeKeys :
    (m \in DOMAIN mc /\ k \in mc[m]) <=> (k \in DOMAIN sc /\ m \in sc[k])
TenancyMapsAgree ==
  pc # "publishScopes" /\ memCache # Nil => scopeCache # Nil /\ MapsAgree(memCache, scopeCache)

(***************************************************************************)
(* The published topology lies between what was in the fleet all the time  *)
(* of the refresh and what was there at some time: no change between the   *)
(* calls drops a cluster from the fleet or from its scope, or shows a      *)
(* scope a cluster that had left it before.                                *)
(***************************************************************************)
TopologyIsCurrent ==
  pc \in Reconcile =>
    /\ steady \cap Memberships \subseteq DOMAIN memCache
    /\ DOMAIN memCache \subseteq window
    /\ \A b \in steady \cap Bindings : /\ ShortID(b.scope) \in DOMAIN scopeCache
                                       /\ b.membership \in scopeCache[ShortID(b.scope)]
    /\ \A b \in Bindings : /\ ShortID(b.scope) \in DOMAIN scopeCache
                           /\ b.membership \in scopeCache[ShortID(b.scope)]
                           => b \in window

(***************************************************************************)
(* "Build the initial fleet topology before handling RPCs": a process that *)
(* answers requests has both maps, whatever happened to later refreshes,   *)
(* and one that does not serve and is not refreshing is no process.        *)
(***************************************************************************)
ServesWithTopology ==
  /\ serving => memCache # Nil /\ scopeCache # Nil
  /\ pc = "idle" => serving

(***************************************************************************)
(* Once fleet and namespace are left alone and the calls stop failing, the *)
(* caches and the secrets come to mirror the fleet and stay that way; but  *)
(* one secret under a member's name that Kubernetes refuses to update      *)
(* stops every refresh before pruneSecrets.                                *)
(***************************************************************************)
Blocked == \E m \in members : LET s == secrets[SecretName(m)] IN s # NoSecret /\ s.locked
TopologyInStep ==
  /\ memCache = MembershipTenancyMap(members, bindings)
  /\ scopeCache = ScopeTenancyMap(scopes, bindings)
InStep == serving /\ TopologyInStep /\ \A n \in SecretNames : Mirrored(n)
Converges == <>[](InStep \/ Blocked)

(***************************************************************************)
(* What a process that serves answers from follows the fleet even so:      *)
(* although that secret makes every one of its refreshes fail, each has    *)
(* published by then what it listed, and a failure takes nothing back.     *)
(***************************************************************************)
TopologyConverges == <>[](serving => TopologyInStep)
=============================================================================
