# Specifications of gke-fleet-management

TLA+ models of the programs of this repository that keep Argo CD in step with
a GKE fleet, and of the client library it offers for its own API: what they do
between the API calls they make, what they promise whatever happens in between,
and where they do not keep what their comments say. TLC checks small instances, TLAPS proves the main results for all of them.

All paths below are relative to `src/`.

## 1. Inventory

### The programs

| Component | State it keeps | Operations |
|---|---|---|
| **Fleet plugin, refresh goroutine** (`fleet-argocd-plugin/fleetclient`, started by `main.go`) | two maps in memory (memberships to scopes, scopes to memberships); the Secrets of the `argocd` namespace that carry its annotation | every 10 s: list memberships, scopes and bindings page by page, publish the maps, create or update one Secret per membership, delete those of its Secrets that have no membership |
| **Fleet plugin, HTTP generator** (`fleet-argocd-plugin/main.go`, `PluginResults`) | none of its own, reads the two maps | answer a request of Argo CD's ApplicationSet controller with all clusters, or those of one scope |
| **ClusterProfile syncer** (`argocd-clusterprofile-syncer`) | informer caches, work queue; the Secrets it annotates | reconcile one ClusterProfile: create or update its Secret, or delete it when the profile is gone |
| **Membership script** (`fleet-clusterprofile-syncer`) | ClusterProfiles with the label `run_uuid` | every 180 s: list memberships, apply a ClusterProfile for each, delete those of other runs |
| `install.sh` of the script | `result`, the last failure | create what does not exist, deploy |
| **Informer factory** of the multi-cluster-orchestrator client (`pkg/client/informers/externalversions/factory.go`) | informers by type, those started, a `WaitGroup`, `shuttingDown`, all under one lock; one goroutine per started informer | ask for an informer by type or by resource, start, wait for the caches, shut down |
| **Informers, listers, clients** of that library | a cache per informer, filled by list and watch; the fake clientset's tracker | options to list and watch functions, reads through listers and typed clients |
| **API types** of that library (`api/v1alpha1`) | none | the generated deep copies |
| `gcp-auth-plugin` | none | print one token |
| `docker-credential-gcr`, Helm charts, samples, `multikueue-clusterprofile` | none | packaging and examples |

### How they interact

The refresh goroutine and the HTTP handlers share the two maps without a lock.
The plugin and the users of the `argocd` namespace (and Argo CD itself) share
Secrets, by name, through the Kubernetes API. The script writes
ClusterProfiles, which the ClusterProfile syncer watches; it writes Secrets
that Argo CD reads. Nothing else is shared: the plugin and the syncer are two
ways to the same end and name their Secrets apart
(`<id>.<region>.<project>` and `<namespace>.<profile>`). The plugin's Deployment has
one replica and the default strategy, so that during every update of it two
processes share the namespace. The client library is used by programs that are
not in this repository; its factory is shared by all goroutines of such a
program, its caches by all that read through listers.

### What is hard

* **The refresh is no transaction.** Three paged listings, two assignments and
  one call per Secret; the fleet and the Secrets change anywhere in between,
  any call may fail or be applied without an answer, and the process may die.
  It must never take a Secret from a cluster that is still in the fleet, since
  Argo CD would drop that cluster's applications.
* **Readers without locks.** A request reads the maps several times.
* **Deletion by name.** Both programs decide on a copy of a Secret and delete
  whatever has its name later.
* **Caches that lag.** The syncer reads informer caches and writes to the API
  server. Conflicts, stale copies and lost watch events have to be made good
  by the queue, which only profile events feed.
* **Failures that nobody looks at.** The script goes on after any of its calls
  has failed, and ends each run by deleting what that run did not label.
* **Two processes for a while.** A rolling update runs two refreshes that know
  nothing of each other over one fleet and one namespace.
* **Start, stop and wait, from anywhere.** Informers are asked for, started,
  waited for and shut down by any goroutine in any order, with a stop channel
  per call of `Start`; a `WaitGroup` must neither go below zero nor be waited
  for in vain.
* **List and then watch.** What is written between the two, a watch that breaks,
  labels that change so that an object leaves the selection.
* **Copies that are not.** A field that a generated deep copy overlooks lets an
  edit reach the cache that all goroutines read.
* **Failure for ever.** A Secret that cannot be updated, a profile that cannot
  be reconciled.

### What makes each component correct

* Refresh: a registered cluster keeps its Secret; only members get one; only
  the plugin's own are pruned; what is published is current and consistent;
  it converges once left alone.
* Generator: every answer is one the plugin could have given at one moment,
  and names what was in the fleet; once it serves it never says that the fleet
  is empty.
* Syncer: no update is lost, only managed Secrets are deleted, a deletion that
  races with a new profile is repaired, live profiles are followed and dead
  ones cleaned up.
* Script: a run whose calls work ends with the profiles of the fleet and
  deletes no other; nobody else's profile is deleted; whatever failed, a later
  run puts it right.

* Rolling update: a cluster that both processes could see keeps its Secret, and
  the new process ends up alone with Secrets that mirror the fleet.
* Factory: an informer is started once and stopped once; a shutdown that has
  returned is final; waits tell the truth and end.
* Informer: the cache is what the API held at one moment, filtered by the
  options; it catches up; copies are deep.

`PROJECT.json` lists every hazard at its line with the properties that cover
it.

## 2. The modules

```
FleetTopology            names, manifests, the two maps as functions of a listing
  └─ FleetSync           the refresh goroutine with fleet, namespace and faults
       ├─ FleetPlugin    + the HTTP handler reading the maps
       ├─ FleetRollout   + a second process (an INSTANCE) during a rolling update
       ├─ FleetSyncRefinement      maps FleetSync onto FleetMirror (an INSTANCE)
       └─ FleetSyncProofs
            ├─ FleetMirrorProofs   (also extends FleetSyncRefinement)
            ├─ FleetPluginProofs   (also extends FleetPlugin)
            └─ FleetRolloutProofs  (also extends FleetRollout)
FleetMirror              abstract: what the refresh promises; on FleetTopology
ClusterProfileSync       the controller, its caches and its queue
  └─ ClusterProfileSyncProofs
MembershipScript         the script, one step per request
  └─ MembershipScriptProofs
InformerLifecycle        abstract: the life of each informer of a factory
SharedInformerFactory    the factory under its lock; refines InformerLifecycle
  ├─ DocumentedUse       + the program that the factory's comment shows
  └─ SharedInformerFactoryProofs
ApiTypes                 references in the API types, and what copies share
  └─ InformerCache       one informer: options, list, watch, cache, reads
       └─ InformerCacheProofs
MCFleetSync, MCFleetPlugin, MCFleetRollout, MCClusterProfileSync,
MCMembershipScript, MCSharedInformerFactory, MCInformerCache
                         the instances for TLC
```

### FleetTopology

The pure part of `fleetclient.go`. A membership is the pair of location and ID
that the code cuts out of its resource name; the project is fixed, as one
plugin serves one. A membership's ID is unique per location only, and the
instances use two memberships of one ID. A scope has two names,
`FullName` (what `listScopes` returns and `Refresh` enters) and `ShortID`
(what a binding is cut down to and a request carries); the model keeps them
apart because the code does not treat them alike. The lists in the maps are
sets: their order shows nowhere but in the order of the answer. A binding is its
pair of membership and scope; two binding resources of one pair would only list
the cluster twice in an answer.

### FleetSync

One action per API call, in the order of the code; `pc` says where the
goroutine is. The correspondence:

| Code | Actions |
|---|---|
| `NewFleetSync` in a fresh process; `startReconcile` | `Start`; `Wake` |
| `listMemberships`, `listScopes`, `listMembershipBindings` | `ListMemberships`, ... one step per page, `page` being any part of what is still unread |
| "Refresh cache" | `PublishMemberships`, `PublishScopes` |
| `reconcileClusterSecrets` | `ReconcileClusterSecrets`, `ApplyDone` |
| `applySecrets` | `ApplyCreate`; `ApplyAlreadyExists` then `ApplyUpdate` or `UpdateRejected` |
| `pruneSecrets` | `PruneList`, `PruneDelete`, `DeleteNotFound` |
| `return nil` | `RefreshDone` |
| `return err` | `RefreshError` inside `CallFails`, `UpdateRejected`, `DeleteNotFound`, `AnswerLost`: the first refresh of a process ends it (`log.Fatal`), a later one is dropped |

`secrets` holds what the plugin can tell apart in a Secret: whether it has the
cluster label and the plugin's annotation, its server, and `locked` for one
that Kubernetes will not update. `Environment` is everybody else: the fleet's
administrators (the Fleet API removes a binding with its membership or scope)
and users who write Secrets. `window`, `steady` and `tampered` are history, for
the properties only.

### FleetMirror, FleetSyncRefinement

`FleetMirror` is what the users of the namespace may rely on, with no pages, loops, calls
or failures: a refresh begins (`Begin`), reads the fleet in one step (`Read`: what was
there all the time, nothing that never was), then only puts the Secret of a
cluster it read in place (`Put`) or, once those are all in place, removes a
Secret of its own that no cluster asks for (`Remove`), and may end at any time.
`FleetSyncRefinement` maps the refresh goroutine onto it: what it has read
is what it has published, from the moment on that both maps are there, and the
assignment of the second map is the `Read`. The listings are
stutters, as are `ApplyAlreadyExists`, `PruneList` and what fails before the
maps are there; a call whose answer is lost is its write and the end in one.

### FleetPlugin

Extends `FleetSync` with one request in hand, `at`: every read of a field of
`FleetSync` is a step. A map that has been published is never written again,
so a `range` over it is one step. Concurrent requests write nothing, hence one
stands for all. The two fields are pointers read and written by plain loads and
stores. Go's memory model calls this a data race. The build's outcomes that are
modelled are those of a machine where each such access is atomic and a map is
complete when its pointer is seen; the order in which the two stores are seen
is not assumed to matter, for no handler reads the contents of both. `possible`
is history: the answers an atomic handler could have given so far. A request
whose process dies gets no answer.

### FleetRollout

`fleet-sync-install.yaml` runs one replica with the default strategy and no
readiness probe. `FleetRollout` extends `FleetSync`, which is the new process,
and instantiates it a second time as `Old`, with variables of its own for the
inside of the old process and the same ones for fleet, Secrets and bounds.
Every step of a process is the step of its `FleetSync`; what one of them writes
to a Secret is for the other one what a user would write, which is all that
`tampered` records. `StartNew` and `StopOld` are Kubernetes; `StopOld` may come
anywhere in the refreshes of both. The two HTTP handlers are left out: each
reads the maps of its own process only, which is what `FleetPlugin` has.

### ClusterProfileSync

`Reconcile` is cut at its reads and writes, per key: the profile read
(`Reconcile`), the Secret read of either branch (`GetForUpsert`,
`GetForCleanup`) and the write (`Write`, or `WriteRejected`, `WriteFails`,
`AnswerLost`). What controller-runtime does is modelled from how `main` and
`SetupWithManager` use it: the caches (`seenProfile`, `seenSecret`) and what the
watches have still to deliver (a watch that breaks lists again, so events may be
skipped, never reordered); the queue with its dirty set, at most one reconcile
per key and `MaxConcurrentReconciles` at a time; a failed reconcile queues its
key again; `Resync`, the periodic resync. A delayed retry is in the queue at
once, which only allows more. `Owns(Secret)` maps a Secret to its
owner reference; `mutateSecret` sets none, so events of Secrets fill the cache
and queue nothing.

Only `Update` carries a resource version; `job[p].fresh` says whether it is
still the latest. `missed` is history: profiles whose Secret was changed by a
user, or judged by an old copy, or left over from before the start.

### MembershipScript

The loop of `membership-to-clusterprofile.sh`: `StartRun` (`uuidgen`), `List`
and `WriteFolder` (the `while read` loop over the pages of `gcloud`), `Apply`
per file, `GetObsolete`, `Delete` per line, `RunDone`. A profile is known by
whose label it carries: this run's, an earlier run's, or none (`foreign`), so
that `StartRun` turns `current` into `old`. The label is all the script ever
reads back of a profile. `ProfileOf` is `$shortName-$location`; it need not be
injective, as every membership without a monitored cluster is written to
`null-null.yaml`. The endpoint asked of the Connect gateway is data of the
profile and left out.

No exit status is looked at, so a failed call is a step that only does not do
its work: `ListFails` goes on with no files, `CallFails` with the next file or
name, `GetFails` with no names. A call that worked but whose answer is lost is
the same as one that worked. `Crash` is the pod killed (`Recreate`, no grace
period), hence one loop at a time. `window`, `steady`, `tampered` and `flawed`
are history.

### SharedInformerFactory, InformerLifecycle, DocumentedUse

What `factory.go` does under `f.lock` is one step, so `InformerFor` (with
`Informer` and `ForResource`, which reach it), `Start`, the first half of
`Shutdown` and the snapshot that `WaitForCacheSync` takes are one action each.
Outside of the lock run the goroutines of the informers (`RunBegins`, `Sync`,
`RunEnds`, the last with its `wg.Done`), the end of a `Shutdown`
(`ShutdownReturns`, the `wg.Wait`) and the waits, informer by informer
(`WaitNext`, `PollSynced`, `PollStopped`, `WaitReturns`): `cache.WaitForCacheSync`
looks once before it waits, and its poll may see either of two reasons to end.
What `Run` and `HasSynced` do inside is client-go's, modelled from the use of
them here. A goroutine that finds its channel closed runs nothing and still
calls `wg.Done`. Resync periods and transforms are handed on to client-go, and
nothing in the factory depends on them.

`InformerLifecycle` is what a program may rely on: every informer is requested,
active and stopped once in its life, and a factory that is over has no active one.
`RefinesLifecycle` maps the factory onto it through `life`, which is read off
`informers`, `startedInformers` and `run`.

`DocumentedUse` is the program in the comment of the interface
(`factory.go:204-224`), with the factory's actions in its order: the deferred
calls run last in, first out.

### ApiTypes, InformerCache

`ApiTypes` has the references (pointers, slices, maps) of the API types, struct
by struct, and what each generated `DeepCopyInto` allocates and calls;
`SharedBy` follows the calls from an object or a list and gives the references
that a copy still shares with its original. `CopiedStructs` follows them four
calls deep, which is from a list to an `AutoscaleForCapacity` and the deepest there is.

`InformerCache` is one informer of one factory. `log` is the history of the API,
a version per write. The options of the factory are applied one after the other,
by a recursive function, as in `NewSharedInformerFactoryWithOptions`, and handed down the accessors
(`Api`, `V1alpha1`, `BindingInformer`, `PlacementInformer`) to `ListFunc` and
`WatchFunc`. The reflector's `List`, `Watch`, `Deliver` and `WatchBreaks` are
client-go's, as the functions here drive it. `Backends` tells a server, which
resumes a watch at a version and applies the selector to it, from the fake
clientset, whose tracker does neither. A program takes an object from the lister
and copies it (`CopyFromLister`), or from a typed client (`FetchFromClient`), and
edits the copy (`Edit`); `scribbled` is the history of edits that reached the
original.

### Mutants

Each module also has a few definitions commented "Mutant": a plausible bug in
the code next to the definition it would replace (`FirstPageOnly` for
`NextPage`, `GetForCleanupUnchecked` for `GetForCleanup`). No specification
uses them; putting one in the place of its neighbour makes the run named with
it in `PROJECT.json` fail, which shows that the property can see the bug.

## 3. The runs

Run any of them with `tlc -config X.cfg M`. On two workers
`ClusterProfileSync.cfg` takes about three minutes, `FleetSync.cfg` about one and a
half, and every other one a minute or less.

| Configuration (module) | What it shows | Bounds |
|---|---|---|
| `FleetSync.cfg` (`MCFleetSync`) | types; a steady cluster keeps its Secret; only members get one; only own Secrets are pruned; a refresh that ends well leaves the Secrets as published; convergence, of the maps also while a locked Secret makes every refresh fail; the refinement of `FleetMirror` | 2 memberships, 1 scope, 3 kinds of user Secrets, 2 changes, 1 fault, about 625 000 states |
| `FleetPlugin.cfg` (`MCFleetPlugin`) | the maps agree and are current, a serving process always has them; answers are atomic but for one exception, follow the fleet, and are never "fleet is empty" | 2 memberships, 1 scope, 2 changes, 1 fault, about 930 000 states |
| `FleetRollout.cfg` (`MCFleetRollout`) | two processes at once: a cluster steady for both keeps its Secret; the update ends with one process in step with the fleet | 1 membership, 2 changes, 1 fault, about 176 000 states |
| `ClusterProfileSync.cfg` (`MCClusterProfileSync`) | no lost update, deletions, live profiles followed, dead ones cleaned, two keys on one worker | 2 profiles, 1 endpoint, 2 kinds of user Secrets and their deletion, 2 changes, 1 fault, about 307 000 states |
| `MembershipScript.cfg` (`MCMembershipScript`) | a run whose calls worked mirrors the fleet, deletes no live and no foreign profile; the loop converges, whatever failed before | 3 memberships, 2 of them of one name, 3 names, 2 changes, 2 faults, about 430 000 states |
| `SharedInformerFactory.cfg` (`MCSharedInformerFactory`) | the refinement of `InformerLifecycle`; a shutdown is final and ends; waits tell the truth and end; what is started syncs | 2 types and a resource the group has not, 2 channels, 2 callers of `Shutdown`, 1 waiter, about 72 000 states |
| `InformerCache.cfg` (`MCInformerCache`) | the cache is a snapshot, filtered as the options say; it catches up; copies are deep | 2 namespaces, 3 writes, 3 lists of options, both kinds, server and fake, about 85 000 states |
| `FleetPluginScope.cfg` (`MCFleetPlugin`), `ScriptFailedCall.cfg` (`MCMembershipScript`), `DocumentedUse.cfg` (`DocumentedUse`) | one counterexample each, see 4 | the smallest instance that has it |
| `ClusterProfileOrphan.cfg`, `ClusterProfileStale.cfg` (`MCClusterProfileSync`) | one counterexample each, see 4 | 1 profile; `FreshSpec`: no Secret is there before the start; no user writes; no fault, so no restart |

Why the bounds are enough. Two memberships of one ID in two locations, one of
them `global`, show every way to confuse names or addresses, and give a loop a
second iteration to fail in. The scope has two keys, its full name and its ID,
of which only one may have members.
`Init` ranges over all fleets and namespaces an earlier process may have left,
so one change already starts anywhere; two allow a change and its reversal,
or one of the fleet and one by a user, within one refresh. A fault may be at any call, and the
safety results do not need the bounds at all: they are proved without them
(5). In `FleetRollout` the processes meet at one Secret at a time, so one cluster
is enough; two changes let it leave and come back between the two listings, and
the fault may hit either process. In `ClusterProfileSync` keys only meet in the
queue, so two profiles on one worker show starvation; two changes are a deletion
and a new profile, or a deletion and a user's write, during one reconcile; with
one endpoint, a wrong address is the one in a user's Secret.
In `MembershipScript`
one fault cuts a run off and the second one fails a call of the run that finds
what the first left behind. In the factory two channels tell the one an informer
was started with from the one a waiter waits on; one waiter writes nothing that
another call reads. Three writes let an object come, change its labels and go
while a listing, a watch and a break lie in between, and the other namespace has an
object of the same name.

The next-state relations of the ClusterProfile runs and of `InformerCache` may
stop when no change or write is left and everything is delivered, and the program
of `DocumentedUse` ends, so deadlock is not checked there. The refresh
goroutine and the script never stop, and a factory can always be asked again;
their runs check deadlock.

### Fairness

`FleetSync!FairSpec` is weak fairness of the goroutine: it is an endless loop,
and Kubernetes restarts its container. `ClusterProfileSync!FairSpec` is weak
fairness of the start (Kubernetes restarts the pod), of each watch, of the
resync of each profile (`SyncPeriod`, ten hours by default), of the workers
taking the head of the queue, and of each reconcile running on. `MembershipScript!FairSpec` is weak fairness of the loop (`while true`, and its
pod is restarted). `FleetRollout!RolloutFairSpec` is that of both processes, and of
Kubernetes, which starts the new pod and stops the old one.
`SharedInformerFactory!FairSpec` is weak fairness of the goroutines the factory
and its callers run in, and of the sync of an informer while its channel is
open; nobody has to call anything or close a channel. `InformerCache!FairSpec`
is weak fairness of listing and watching, which the reflector repeats with
backoff, and strong fairness of the delivery of events: however often the watch
breaks, now and then an event gets through. No fairness is
asked of users, of the CRD being installed, or of faults, which the bounds
limit: convergence is claimed for when faults have stopped. Where a Secret
refuses updates for ever the code does not converge, and the properties say so
(`Blocked`, `Locked`).

### Invariants worth reading twice

* `ClusterKeepsItsSecret`, `OnlyMembersGetSecrets` and `TopologyIsCurrent` speak of what was in the fleet
  *all the time* (`steady`) and *at some time* (`window`) of the
  refresh: a listing that is no snapshot can promise nothing sharper.
* `RefreshMirrorsFleet` and `PruneTakesItsOwn` exclude the names that users
  wrote during the refresh: `pruneSecrets` deletes by name what it judged by its
  listing, so a Secret of another origin put there in between goes too.
  `PruneTakesItsOwn` says that there is no other way to lose one. In the same
  manner `DeletesItsOwn` allows the syncer just the deletion that was judged by
  a copy older than a user's write, and `ForeignProfilesStay` the script a
  profile that a user put under a selected name. These properties bound what the
  three races can do; they do not say that the races are not there.
* `TopologyConverges` does not have the exception `Blocked` of `Converges`: the
  maps are published before the Secrets are written, so a Secret that makes
  every refresh fail does not make the answers old.
* `ClusterKeepsItsSecretInRollout` asks that a cluster be steady for *both*
  refreshes: one that came after the old process listed is pruned by it, although
  the new one has just made its Secret, and comes back with the next refresh
  (`RolloutConverges`).
* `RepliesAreAtomic` has one exception, the empty list of
  `UnknownScopeRefused`.
* `RunMirrorsFleet` and `LiveProfilesStay` are about runs none of whose calls
  failed (`flawed`), also after runs that were cut off or failed; what a failed
  call does is the finding of `OnlyObsoleteDeleted`, and `Converges` that a
  later run repairs it.
* `CacheIsASnapshot` leaves out two things of the fake clientset, whose tracker
  keeps no versions and whose watch has no selector: a test that writes between
  the list and the watch of its informer does not see that write.
* `WaitEnds` and `ShutdownEnds` name the only ways to wait for ever: for an
  informer whose own channel was closed before it synced, and for one whose
  channel nobody closes.
* `NoLostUpdate` names in `missed` the three ways in which the controller can
  know of nothing to do; `DeadProfilesCleaned` shows that those are the only
  Secrets that stay.

## 4. Where code and text disagree

| Run | What happens |
|---|---|
| `FleetPluginScope.cfg` | `fleetclient.go:126-129` reads the map twice: a scope that disappears in between yields status 200 and no clusters, in place of the error "unknown scope ID". |
| `ClusterProfileOrphan.cfg` | `cmd/main.go:102` "removes the associated secret if it exists": it asks the cache. The profile is deleted while its first reconcile is about to create the Secret; the cleanup runs before the watch has delivered that Secret, finds nothing, and the Secret stays for ever. |
| `ClusterProfileStale.cfg` | README of the syncer, "updates the Argo CD cluster secrets accordingly": the endpoint goes from A to B and back to A; the reconcile of B has written the Secret, that of A compares with the cached copy from before, finds it right, and the Secret stays at B until the resync. |
| `ScriptFailedCall.cfg` | `membership-to-clusterprofile.sh:78` "now delete obsolete memberships (run_uuid not updated)": one failed listing or apply, and the profile of a cluster that never left the fleet is deleted, for at least the 180 s to the next run. |
| `DocumentedUse.cfg` | `factory.go:204-224` "It is typically used like this": the deferred `WaitForStop` (in the code `Shutdown`) runs before the deferred `cancel`, and waits for informers whose context nobody will ever cancel. "Returns immediately if nothing was started" is right, but something was. |

Two remarks without a run. The three deletions by name (`fleetclient.go:312`,
`cmd/main.go:123`, `membership-to-clusterprofile.sh:80`) take what has the name by
then, also if a user has just put it there, while the comments at
`fleetclient.go:306` and `cmd/main.go:102` speak of managed Secrets only. `Refresh` enters listed scopes into
`ScopeTenancyMapCache` under their full resource names and bindings under short IDs, so a
scope without clusters is unknown under its ID, and the entries under
full names stay empty (`MapShape` in `FleetPluginProofs`).

## 5. What is proved

`tlapm` on `FleetSyncProofs.tla`, `FleetMirrorProofs.tla`, `FleetPluginProofs.tla`,
`FleetRolloutProofs.tla`, `ClusterProfileSyncProofs.tla`, `MembershipScriptProofs.tla`,
`SharedInformerFactoryProofs.tla` and `InformerCacheProofs.tla`. The
theorems hold for any sets of memberships, scopes, profiles, endpoints, object
types, objects, lists of options, stop channels and callers, any
number of workers, and any bounds on changes, writes and faults; the assumptions are the ones the modules state
on their constants (`MembershipAssumption`, `SecretAssumption`,
`NilAssumption`, `BoundsAssumption`, `ProfileAssumption`, `ScriptAssumption`,
`FactoryAssumption`, `CacheAssumption`): that the sentinels
are no ordinary values, that bounds are numbers, that there are finitely
many profiles and types, and that options are the two there are.

**FleetSync.** `Typing`, `ServesTopology`, `MirrorsFleet`, `MapsAlwaysAgree`,
`TopologyAlwaysCurrent`, `KeepsItsSecret`, `OnlyMembers`, `PrunesItsOwn`. The
properties are not inductive by themselves, because what a step may do depends
on what the listing had already seen. The invariant `IInv` adds: what a listing has read so far
lies within `window`, and all that is `steady` and no
longer unread has been read; between the two assignments the new scope map is
the one that goes with the published one; in the loops every name no longer in
`todo` is mirrored unless tampered with, and a name still to delete is neither
in the map nor, unless tampered with, anybody else's. `Invariance` shows that
it holds, one step per action; the action properties then follow from a lemma
that says which steps write and which delete a Secret.

**FleetMirror.** `FleetSyncImplementsMirror`: every behaviour of `FleetSync`, faults
and crashes included, is one of `FleetMirror`. With `IInv` at hand it takes one lemma per
kind of step: a write in the apply loop is a `Put`, for what is left in `todo` is a
published cluster's (`IsPut`); a deletion is a `Remove`, since the loop before it has left
every wanted Secret in place unless a user wrote it (`IsRemove`); the second
assignment is the `Read`, by the bounds `steady` and `window` that `IInv` gives
the listings; what is left shows nothing. `MirrorSuffices` shows that the abstraction has
not lost the point: `FleetMirror` alone implies `ClusterKeepsItsSecret` and
`OnlyMembersGetSecrets`, because whatever was registered all the time is in the view, what
the view asks for is never removed, and nothing else is ever put in place.

**FleetRollout.** `RolloutInvariance`, `UndisturbedInRollout`,
`KeepsItsSecretInRollout`. The invariant is `IInv` of both processes, with `FleetSyncProofs`
instantiated a second time for the old one. What one process writes is to the
other a user's writing: the fleet and all that is inside of the other one stays, and
the written name joins its `tampered`, which is what `IInv` needs (`ForeignStep`);
`StopOld` is a death of the process, which may come anywhere (`ExitStep`). Hence everything proved of
one process holds of each of the two, and a deletion by either spares
what is steady for it (`KeepsStep`).

**FleetPlugin.** `HandlerTyping`, `AtomicReplies`, `NeverEmpty`,
`AnswersFollow`. Every step of the composition is one of the goroutine or
leaves it alone (`GoroutineInvariance`), so `IInv` is at hand. `HandlerInv` adds
what the handler knows at each of its reads: while a request is in hand the
process serves, hence has both maps, and the answer that an atomic handler would give
now is among the possible ones; once the scope was found, so is an answer with
its clusters, which is why the only surprise left is the emptied scope.
`AnswersFollow` reads `TopologyIsCurrent` through the answer: different clusters
have different entries, and the entries under full names are empty.

**ClusterProfileSync.** `Typing`, `NothingLost`, `DeletesOwn`,
`DeletionRepaired`. `NoLostUpdate` needs three facts beside itself. `ViewInv`:
a cache is behind the API server by exactly the events not yet delivered, so
a key without events is judged by the current profile. `JobInv`: what a
reconcile set out to do is still right, unless its key is dirty or has events
ahead. `OwnerInv`: a Secret of somebody else is known as such, unless it is in
`missed`. `DeletesOwn` needs one more for the Secrets in `missed`: `FreshInv`, that a
deletion judged by the latest copy is about a managed Secret, which rests on
`SeenInv`, the same for Secrets as `ViewInv` is for profiles. The lemma `WorkMirrors` says that a step that ends all work on a
key leaves its Secret what its profile asks for.

**MembershipScript.** `Typing`, `MirrorsFleet`, `LiveStay`, `ForeignStay`, for
any naming of the memberships. The invariant goes by the place of the loop: the
listing has read all that is `steady` and lies within `window`; in the apply
loop the profile of a steady cluster is still to apply or no longer an old one;
in the delete loop what is left to delete is old, or taken over by a user, and
while no call has failed it is all that is old, so that when nothing is left
no profile of an earlier run is.

**SharedInformerFactory.** `TypeCorrect`, `ShutdownFinal`, `WaitTrue`,
`ImplementsLifecycle`. The invariant says that the `WaitGroup` counts the living
goroutines and that exactly the started informers have had one (`CountInv`, which
needs the cardinality of what one `Start` adds and one `Done` takes away); that a
returned `Shutdown` saw the flag set and the count at zero, and that neither
comes back (`DownInv`); and that what a waiter has collected stays true
(`WaitInv`). The refinement has a step per action: `Start` maps to `Activate`, the
end of a goroutine to `Stop`, everything about waiting to a stutter.

**InformerCache.** `TypeCorrect`, `CacheIsAlwaysASnapshot`, `CopiesAreAlwaysDeep`. Two things
are about data. That the options, in whatever order and however often given, leave
the informer with the namespace and the tweak they ask for (`OptionsApplied`)
is an induction over the list; it is proved by the least index at which the
recursive function would differ, which exists because the numbers are
well-founded (`LeastOne`). And no reference of any type is left out by the deep copies
(`NothingShared`): every struct with one is reached by the calls, and its own
copy makes all of them anew. On top of that the snapshot: a lemma for each way in
which the version of an object after `n` writes changes or does not with another write
(`VersionOfNextWrite`, `VersionUnlessWritten`, `VersionUnderWrite`), and in the
invariant that nothing outside of the informer's namespace is in the cache
(`PlaceInv`), without which an event that the watch does not send could leave
an object behind, and that no copy shares anything (`CopyInv`).

**Only model-checked**: the liveness properties (`Converges`, `TopologyConverges`, `RolloutConverges`,
`LiveProfilesFollowed`, `DeadProfilesCleaned`, `WaitEnds`, `ShutdownEnds`,
`StartedSyncs`, `CacheCatchesUp`), since the prover has no rule
for fairness and none for `ENABLED` here, and the counterexamples. Every other property of every run has its theorem.

## 6. What is not modelled

Wire formats, names that are not of the shape the APIs produce (the "invalid
name" branches), log output, and rendering errors of the fixed template.

* `install.sh` of the script: run once, by hand, in a straight line.
* The script together with the ClusterProfile syncer: the annotation that one
  writes (`endpoint`) is not the one that the other reads
  (`gateway.gke.io/endpoint`, `cmd/main.go:41`), so the two have no step in common.
* Of the client library: the construction of REST clients and schemes
  (`clientset.go`, `api_client.go`), which has no state after it is done; what
  the write methods of the typed clients send; resync periods and transforms.
* Values and validation of the API types: the orchestrator that acts on them is
  not in the repository.
* `gcp-auth-plugin` (one request, one line of output), the image of
  `docker-credential-gcr`, charts, samples and setups.

## 7. Plan

Done, most important first: `FleetTopology`, `FleetSync`, `FleetPlugin`,
`ClusterProfileSync`, `MembershipScript`, `SharedInformerFactory` with
`InformerLifecycle`, `FleetRollout`, `InformerCache` with `ApiTypes`, `FleetMirror`; proofs
of all safety properties, and of both refinements.

Next, in this order:

1. A reconciled store as the abstract specification of `ClusterProfileSync`,
   refined by it outside of `missed`, in `ClusterProfileSyncProofs`.
2. The same for a run of the script none of whose calls failed, in
   `MembershipScriptProofs`.
3. What liveness rests on, as far as it is safety: that within a loop
   `todo` only shrinks, and that no name comes back to it before the next refresh.
