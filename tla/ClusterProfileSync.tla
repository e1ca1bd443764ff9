-------------------------- MODULE ClusterProfileSync --------------------------
(***************************************************************************)
(* The ClusterProfile syncer (argocd-clusterprofile-syncer/cmd/main.go): a *)
(* controller that keeps one Secret in the argocd namespace for each       *)
(* ClusterProfile, <namespace>.<name>, so that Argo CD can reach the       *)
(* cluster at the endpoint the profile is annotated with.                  *)
(*                                                                         *)
(* The reconciler is run by controller-runtime.  What that library does    *)
(* around it is modelled from how main sets it up: two informers, each a   *)
(* cache that lags behind the API server by the watch events not yet       *)
(* delivered; a work queue of keys, one reconcile per key at a time and    *)
(* maxConcurrentReconciles at once; a failed reconcile puts its key back.  *)
(* Reads go to the caches, writes to the API server.  The secret of one    *)
(* profile is known by that profile throughout.                            *)
(***************************************************************************)
EXTENDS Integers, FiniteSets, SequencesExt

CONSTANTS Profiles,     \* every namespace/name a ClusterProfile can have
          Endpoints,    \* the addresses it can be annotated with
          OtherServer,  \* contents that mutateSecret writes for no endpoint
          UserSecrets,  \* what other users may make of a secret, Absent to delete it
          NoEndpoint,   \* a profile without the endpoint annotation
          Absent,       \* no such object
          Nil,
          MaxConcurrentReconciles,
          MaxChanges,   \* bound: changes by the users of profiles and secrets
          MaxFaults     \* bound: failed calls, lost answers and crashes

(***************************************************************************)
(* A Secret as isSecretManaged and CreateOrUpdate tell it apart: the       *)
(* profile its annotations name as owner, if they do; the endpoint whose   *)
(* label, type and data it carries; and whether Kubernetes would refuse an *)
(* update (an immutable secret, or one of another type).                   *)
(***************************************************************************)
Secret == [owner : Profiles \cup {Nil}, server : Endpoints \cup {OtherServer}, locked : BOOLEAN]

ASSUME ProfileAssumption ==
  /\ MaxConcurrentReconciles \in Nat \ {0} /\ MaxChanges \in Nat /\ MaxFaults \in Nat
  /\ NoEndpoint \notin Endpoints /\ Absent \notin Endpoints \cup {NoEndpoint}
  /\ Absent \notin Secret /\ UserSecrets \subseteq Secret \cup {Absent}
  /\ Nil \notin Profiles /\ IsFiniteSet(Profiles)

VARIABLES
  profile, secret,              \* the API server
  established,                  \* the ClusterProfile CRD is there
  up,                           \* the manager runs, its caches have synced
  seenProfile, seenSecret,      \* the caches
  profileEvents, secretEvents,  \* what the watches have still to deliver
  queue, dirty,                 \* the work queue: keys in order, keys to do
  job,                          \* the reconcile in progress for each key
  changes, faults,              \* how much of the two bounds is used up
  missed                        \* history, which no action reads: secrets that were
                                \* changed, or misjudged, behind the controller's back

api    == <<profile, secret, established>>
cached == <<seenProfile, seenSecret>>
events == <<profileEvents, secretEvents>>
work   == <<queue, dirty, job>>
vars   == <<api, up, cached, events, work, changes, faults, missed>>

ProfileState == Endpoints \cup {NoEndpoint, Absent}
SecretState  == Secret \cup {Absent}

(* mutateSecret, and the two tests of a secret.                            *)
Desired(p, e) == [owner |-> p, server |-> e, locked |-> FALSE]
UpToDate(p, s, e) == s # Absent /\ s.owner = p /\ s.server = e
IsSecretManaged(p, s) == s # Absent /\ s.owner = p

(* "fresh": the copy of the secret that the job works on is the latest.    *)
Job  == [at : {"idle", "upsert", "cleanup", "create", "update", "delete"},
         want : Endpoints \cup {Nil}, fresh : BOOLEAN]
Idle == [at |-> "idle", want |-> Nil, fresh |-> FALSE]
Busy == {p \in Profiles : job[p] # Idle}

TypeOK ==
  /\ profile \in [Profiles -> ProfileState] /\ secret \in [Profiles -> SecretState]
  /\ established \in BOOLEAN /\ up \in BOOLEAN
  /\ seenProfile \in [Profiles -> ProfileState] /\ seenSecret \in [Profiles -> SecretState]
  /\ profileEvents \in [Profiles -> Seq(ProfileState)]
  /\ secretEvents \in [Profiles -> Seq(SecretState)]
  /\ queue \in Seq(Profiles) /\ dirty \subseteq Profiles /\ job \in [Profiles -> Job]
  /\ changes \in 0..MaxChanges /\ faults \in 0..MaxFaults
  /\ missed \subseteq Profiles

(* What an earlier process and the users of the namespace may have left.   *)
Init ==
  /\ established \in BOOLEAN
  /\ profile \in [Profiles -> IF established THEN ProfileState ELSE {Absent}]
  /\ secret \in [Profiles -> SecretState]
  /\ \A p \in Profiles : secret[p] \in {Absent} \cup UserSecrets \cup {Desired(p, e) : e \in Endpoints}
  /\ up = FALSE
  /\ seenProfile = [p \in Profiles |-> Absent] /\ seenSecret = [p \in Profiles |-> Absent]
  /\ profileEvents = [p \in Profiles |-> <<>>] /\ secretEvents = [p \in Profiles |-> <<>>]
  /\ queue = <<>> /\ dirty = {} /\ job = [p \in Profiles |-> Idle]
  /\ changes = 0 /\ faults = 0 /\ missed = {}
-----------------------------------------------------------------------------
(***************************************************************************)
(* The API server: every write becomes an event of the watch, if there is  *)
(* one, and makes the copy a job may hold an old one.                      *)
(***************************************************************************)
ProfileBecomes(p, x) ==
  /\ profile' = [profile EXCEPT ![p] = x]
  /\ profileEvents' = IF up THEN [profileEvents EXCEPT ![p] = Append(@, x)] ELSE profileEvents

SecretBecomes(p, s) ==
  /\ secret' = [secret EXCEPT ![p] = s]
  /\ secretEvents' = IF up THEN [secretEvents EXCEPT ![p] = Append(@, s)] ELSE secretEvents

(* The environment: the owners of the profiles, and users who edit secrets. *)
Change == changes < MaxChanges /\ changes' = changes + 1

EstablishCRD ==
  /\ ~established
  /\ established' = TRUE
  /\ UNCHANGED <<profile, secret, up, cached, events, work, changes, faults, missed>>

(* Create, annotate, re-annotate or delete a profile.                      *)
ChangeProfile(p, x) ==
  /\ Change
  /\ established /\ x # profile[p]
  /\ ProfileBecomes(p, x)
  /\ UNCHANGED <<secret, secretEvents, established, up, cached, work, faults, missed>>

UserWrites(p, s) ==
  /\ Change
  /\ s # secret[p]
  /\ SecretBecomes(p, s)
  /\ job' = [job EXCEPT ![p].fresh = FALSE]
  /\ missed' = missed \cup {p}
  /\ UNCHANGED <<profile, profileEvents, established, up, cached, queue, dirty, faults>>

Environment ==
  \/ EstablishCRD
  \/ \E p \in Profiles : \/ \E x \in ProfileState : ChangeProfile(p, x)
                         \/ \E s \in UserSecrets : UserWrites(p, s)
-----------------------------------------------------------------------------
(***************************************************************************)
(* The work queue: a key is queued once however often it is added, and one *)
(* that is being reconciled is queued again when the reconcile ends.       *)
(***************************************************************************)
Enqueue(p) ==
  /\ dirty' = dirty \cup {p}
  /\ queue' = IF p \in dirty \cup Busy THEN queue ELSE Append(queue, p)
  /\ UNCHANGED job

Finish(p, again) ==
  /\ job' = [job EXCEPT ![p] = Idle]
  /\ dirty' = IF again THEN dirty \cup {p} ELSE dirty
  /\ queue' = IF again \/ p \in dirty THEN Append(queue, p) ELSE queue

GoOn(p, at, want, fresh) ==
  /\ job' = [job EXCEPT ![p] = [at |-> at, want |-> want, fresh |-> fresh]]
  /\ UNCHANGED <<queue, dirty>>

(***************************************************************************)
(* main: wait for the CRD, fill both caches from a list, and queue every   *)
(* profile of the list.  A secret whose profile went away before is in the *)
(* list of secrets only, for which nothing is queued.                      *)
(***************************************************************************)
Start ==
  /\ ~up /\ established
  /\ up' = TRUE
  /\ seenProfile' = profile /\ seenSecret' = secret
  /\ dirty' = {p \in Profiles : profile[p] # Absent}
  /\ queue' \in SetToSeqs(dirty')
  /\ missed' = missed \cup {p \in Profiles : profile[p] = Absent /\ IsSecretManaged(p, secret[p])}
  /\ UNCHANGED <<api, events, job, changes, faults>>

(***************************************************************************)
(* The informers.  An event of a profile queues its key.  Events of        *)
(* secrets queue nothing: Owns maps a secret to its owner reference, and   *)
(* mutateSecret sets none.  A watch that breaks lists again, which skips   *)
(* events.  Every profile in the cache is queued again when the cache is   *)
(* resynced, by default every ten hours.                                   *)
(***************************************************************************)
DeliverProfile(p) ==
  /\ up
  /\ \E i \in 1..Len(profileEvents[p]) :
       /\ seenProfile' = [seenProfile EXCEPT ![p] = profileEvents[p][i]]
       /\ profileEvents' = [profileEvents EXCEPT ![p] = SubSeq(@, i + 1, Len(@))]
  /\ Enqueue(p)
  /\ UNCHANGED <<api, up, seenSecret, secretEvents, changes, faults, missed>>

DeliverSecret(p) ==
  /\ up
  /\ \E i \in 1..Len(secretEvents[p]) :
       /\ seenSecret' = [seenSecret EXCEPT ![p] = secretEvents[p][i]]
       /\ secretEvents' = [secretEvents EXCEPT ![p] = SubSeq(@, i + 1, Len(@))]
  /\ UNCHANGED <<api, up, seenProfile, profileEvents, work, changes, faults, missed>>

Resync(p) ==
  /\ up /\ seenProfile[p] # Absent /\ p \notin dirty
  /\ Enqueue(p)
  /\ UNCHANGED <<api, up, cached, events, changes, faults, missed>>
-----------------------------------------------------------------------------
(* Mutants of Reconcile: an endpoint that is missing is written all the    *)
(* same, or taken for a missing profile; a profile that is not found is    *)
(* nothing to do.                                                          *)
Take(p, at, want) ==
  /\ up /\ queue # <<>> /\ p = Head(queue)
  /\ Cardinality(Busy) < MaxConcurrentReconciles
  /\ queue' = Tail(queue) /\ dirty' = dirty \ {p}
  /\ job' = [job EXCEPT ![p] = [at |-> at, want |-> want, fresh |-> FALSE]]
  /\ UNCHANGED <<api, up, cached, events, changes, faults, missed>>
ReconcileUnchecked(p) ==
  IF seenProfile[p] = Absent THEN Take(p, "cleanup", Nil) ELSE Take(p, "upsert", seenProfile[p])
ReconcileUnannotated(p) ==
  IF seenProfile[p] \in Endpoints THEN Take(p, "upsert", seenProfile[p]) ELSE Take(p, "cleanup", Nil)
ReconcileNotFound(p) ==
  IF seenProfile[p] \in Endpoints THEN Take(p, "upsert", seenProfile[p]) ELSE Take(p, "idle", Nil)

(***************************************************************************)
(* Reconcile, the profile read: a profile that is not in the cache has its *)
(* secret cleaned up; one without the annotation fails, and is retried.    *)
(***************************************************************************)
Reconcile(p) ==
  /\ up /\ queue # <<>> /\ p = Head(queue)
  /\ Cardinality(Busy) < MaxConcurrentReconciles
  /\ IF seenProfile[p] = NoEndpoint
       THEN queue' = Append(Tail(queue), p) /\ UNCHANGED <<dirty, job>>
       ELSE /\ queue' = Tail(queue) /\ dirty' = dirty \ {p}
            /\ job' = [job EXCEPT ![p] =
                 IF seenProfile[p] = Absent
                   THEN [at |-> "cleanup", want |-> Nil, fresh |-> FALSE]
                   ELSE [at |-> "upsert", want |-> seenProfile[p], fresh |-> FALSE]]
  /\ UNCHANGED <<api, up, cached, events, changes, faults, missed>>

(* The cache has all there is of the secret of p.                          *)
Fresh(p) == secretEvents[p] = <<>>

GetForCreate(p) ==  \* mutant: a secret that is there is taken to be right
  /\ job[p].at = "upsert"
  /\ IF seenSecret[p] = Absent THEN GoOn(p, "create", job[p].want, FALSE) ELSE Finish(p, FALSE)
  /\ UNCHANGED <<api, up, cached, events, changes, faults, missed>>

(* CreateOrUpdate: get the secret, from the cache; nothing to do if it is  *)
(* what mutateSecret makes of it.                                          *)
GetForUpsert(p) ==
  /\ job[p].at = "upsert"
  /\ LET s == seenSecret[p]  e == job[p].want IN
     IF s = Absent THEN GoOn(p, "create", e, FALSE) /\ UNCHANGED missed
     ELSE IF ~UpToDate(p, s, e) THEN GoOn(p, "update", e, Fresh(p)) /\ UNCHANGED missed
     ELSE /\ Finish(p, FALSE)
          /\ missed' = IF UpToDate(p, secret[p], e) THEN missed ELSE missed \cup {p}
  /\ UNCHANGED <<api, up, cached, events, changes, faults>>

GetForCleanupUnchecked(p) ==  \* mutant: isSecretManaged is not asked
  /\ job[p].at = "cleanup"
  /\ IF seenSecret[p] # Absent THEN GoOn(p, "delete", Nil, Fresh(p)) ELSE Finish(p, FALSE)
  /\ UNCHANGED <<api, up, cached, events, changes, faults, missed>>

(* deleteClusterSecret: a secret that is not there, or not the             *)
(* controller's own, stays.                                                *)
GetForCleanup(p) ==
  /\ job[p].at = "cleanup"
  /\ IF IsSecretManaged(p, seenSecret[p])
       THEN GoOn(p, "delete", Nil, Fresh(p)) /\ UNCHANGED missed
       ELSE /\ Finish(p, FALSE)
            /\ missed' = IF IsSecretManaged(p, secret[p]) THEN missed \cup {p} ELSE missed
  /\ UNCHANGED <<api, up, cached, events, changes, faults>>

(* The three writes.  Only an update carries the version it was made from; *)
(* Delete takes whatever has the name.                                     *)
Accepted(p) ==
  \/ job[p].at = "create" /\ secret[p] = Absent
  \/ job[p].at = "update" /\ job[p].fresh /\ ~secret[p].locked
  \/ job[p].at = "delete" /\ secret[p] # Absent

Written(p) ==
  SecretBecomes(p, IF job[p].at = "delete" THEN Absent ELSE Desired(p, job[p].want))

Write(p) ==
  /\ Accepted(p)
  /\ Written(p) /\ Finish(p, FALSE)
  /\ missed' = missed \ {p}
  /\ UNCHANGED <<profile, established, up, cached, profileEvents, changes, faults>>

RejectionIgnored(p) ==  \* mutant: the error is logged and nil returned
  /\ job[p].at \in {"create", "update", "delete"} /\ ~Accepted(p)
  /\ Finish(p, FALSE)
  /\ UNCHANGED <<api, up, cached, events, changes, faults, missed>>

(* AlreadyExists, Conflict, NotFound or Invalid: the reconcile fails and   *)
(* its key is queued again.                                                *)
WriteRejected(p) ==
  /\ job[p].at \in {"create", "update", "delete"} /\ ~Accepted(p)
  /\ Finish(p, TRUE)
  /\ UNCHANGED <<api, up, cached, events, changes, faults, missed>>
-----------------------------------------------------------------------------
Fault == faults < MaxFaults /\ faults' = faults + 1

WriteFails(p) ==
  /\ Fault
  /\ job[p].at \in {"create", "update", "delete"}
  /\ Finish(p, TRUE)
  /\ UNCHANGED <<api, up, cached, events, changes, missed>>

AnswerLost(p) ==
  /\ Fault
  /\ Accepted(p)
  /\ Written(p) /\ Finish(p, TRUE)
  /\ missed' = missed \ {p}
  /\ UNCHANGED <<profile, established, up, cached, profileEvents, changes>>

Crash ==
  /\ Fault
  /\ up /\ up' = FALSE
  /\ seenProfile' = [p \in Profiles |-> Absent] /\ seenSecret' = [p \in Profiles |-> Absent]
  /\ profileEvents' = [p \in Profiles |-> <<>>] /\ secretEvents' = [p \in Profiles |-> <<>>]
  /\ queue' = <<>> /\ dirty' = {} /\ job' = [p \in Profiles |-> Idle]
  /\ UNCHANGED <<api, changes, missed>>

Work(p)   == GetForUpsert(p) \/ GetForCleanup(p) \/ Write(p) \/ WriteRejected(p)
Faulty    == Crash \/ \E p \in Profiles : WriteFails(p) \/ AnswerLost(p)
Next ==
  \/ Environment \/ Start
  \/ \E p \in Profiles : DeliverProfile(p) \/ DeliverSecret(p) \/ Resync(p) \/ Reconcile(p) \/ Work(p)
  \/ Faulty

Spec == Init /\ [][Next]_vars

(***************************************************************************)
(* Kubernetes restarts the process, watches deliver, the cache is          *)
(* resynced, workers take keys and a reconcile runs on.  Nothing is asked  *)
(* of the environment.                                                     *)
(***************************************************************************)
FairSpec ==
  /\ Spec
  /\ WF_vars(Start) /\ WF_vars(\E p \in Profiles : Reconcile(p))
  /\ \A p \in Profiles : /\ WF_vars(DeliverProfile(p)) /\ WF_vars(DeliverSecret(p))
                         /\ WF_vars(Resync(p)) /\ WF_vars(Work(p))
-----------------------------------------------------------------------------
(***************************************************************************)
(* Properties.                                                             *)
(***************************************************************************)
UserStep == changes' # changes

(* What the secret of a profile has to be, given the profile.              *)
Mirrors(p) ==
  CASE profile[p] = Absent -> ~IsSecretManaged(p, secret[p])
    [] profile[p] = NoEndpoint -> TRUE
    [] OTHER -> UpToDate(p, secret[p], profile[p])

Pending(p) == profileEvents[p] # <<>> \/ p \in dirty \/ job[p] # Idle

(***************************************************************************)
(* No update of a profile is lost: through conflicts, failed and repeated  *)
(* calls and restarts, a secret that does not mirror its profile has an    *)
(* event, a queued key or a reconcile ahead of it, unless the secret was   *)
(* changed by a user, was judged by an old copy in the cache, or lost its  *)
(* profile while the process was down.                                     *)
(***************************************************************************)
NoLostUpdate == up => \A p \in Profiles \ missed : Pending(p) \/ Mirrors(p)

(***************************************************************************)
(* The controller deletes no secret but its own, and the one exception is  *)
(* narrow: a user put another in the place of its own after the copy that  *)
(* the cleanup judges was taken.                                           *)
(***************************************************************************)
DeletesItsOwn ==
  [][\A p \in Profiles :
       secret[p] # Absent /\ secret'[p] = Absent /\ ~IsSecretManaged(p, secret[p])
         => UserStep \/ (p \in missed /\ ~job[p].fresh)]_vars

(***************************************************************************)
(* A profile that is deleted and comes back while its cleanup runs may     *)
(* have its secret deleted under it; when that happens the event of the    *)
(* new profile, or its queued key, is still ahead.                         *)
(***************************************************************************)
DeletionIsRepaired ==
  [][\A p \in Profiles :
       /\ secret[p] # Absent /\ secret'[p] = Absent /\ ~UserStep
       /\ profile[p] # Absent
       => Pending(p)']_vars

(***************************************************************************)
(* A profile that stays gets its secret, and the secret keeps following    *)
(* it, also after a user changed or removed the secret, and also when      *)
(* other profiles fail for ever; only a secret that Kubernetes refuses to  *)
(* update is in the way.                                                   *)
(***************************************************************************)
Locked(p) == secret[p] # Absent /\ secret[p].locked
LiveProfilesFollowed ==
  established ~> [](\A p \in Profiles : profile[p] = Absent \/ Locked(p) \/ Mirrors(p))

(***************************************************************************)
(* A profile that is gone loses its secret, unless the deletion was missed *)
(* in one of the ways NoLostUpdate names: those secrets stay for ever.     *)
(***************************************************************************)
DeadProfilesCleaned ==
  \A p \in Profiles :
    established ~> (profile[p] # Absent \/ p \in missed \/ ~IsSecretManaged(p, secret[p]))

(***************************************************************************)
(* What comments and documents say and the code does not always do.        *)
(***************************************************************************)
Settled(p) == up /\ ~Pending(p) /\ secretEvents[p] = <<>>

(* "removes the associated secret if it exists and is managed by this      *)
(* controller": it asks the cache whether it exists.                       *)
DeletedProfileLosesSecret ==
  \A p \in Profiles : Settled(p) /\ profile[p] = Absent => ~IsSecretManaged(p, secret[p])

(* "watches for changes in the cluster inventory and updates the Argo CD   *)
(* cluster secrets accordingly": whether the secret that is there has to   *)
(* be updated is decided by the cache.                                     *)
SettledMeansUpdated ==
  \A p \in Profiles : Settled(p) /\ profile[p] \in Endpoints /\ secret[p] # Absent => Mirrors(p)
=============================================================================
