--------------------------- MODULE MembershipScript ---------------------------
(***************************************************************************)
(* membership-to-clusterprofile.sh: a loop that lists the memberships of   *)
(* the fleet, applies a ClusterProfile for each, labelled with the UUID of *)
(* the run, and deletes the profiles that carry another run's label.       *)
(*                                                                         *)
(* The script is not run with "set -e" and looks at no exit status: a call *)
(* that fails is one that did nothing, and the next command follows.  Its  *)
(* one pod is replaced by Recreate and killed without grace, so there is   *)
(* one loop at a time, which may be cut off anywhere.                      *)
(***************************************************************************)
EXTENDS Integers

CONSTANTS Memberships,  \* every membership that can ever be registered
          Names,        \* every name a ClusterProfile can have
          ProfileOf,    \* $shortName-$location of a membership; those that
                        \* report no cluster are all called null-null
          NoProfile,
          MaxChanges,   \* bound: changes by the users of fleet and namespace
          MaxFaults     \* bound: failed calls and crashes

ASSUME ScriptAssumption ==
  /\ ProfileOf \in [Memberships -> Names]
  /\ NoProfile \notin {"foreign", "old", "current"}
  /\ MaxChanges \in Nat /\ MaxFaults \in Nat

VARIABLES
  members,          \* the fleet
  profile,          \* the namespace: whose label, if any, a profile carries
  pc,               \* where the loop is
  unread, listed,   \* the listing: not looked at yet, seen
  todo,             \* files of the folder to apply, then names to delete
  changes, faults,  \* how much of the two bounds is used up
  \* History of the run, which no action reads:
  window, steady,   \* memberships there at some time, all the time of it
  tampered,         \* profiles that users wrote during it
  flawed            \* one of its calls failed

locals  == <<unread, listed, todo>>
history == <<window, steady, tampered, flawed>>
vars == <<members, profile, pc, locals, changes, faults, history>>

(* "old" and "current" carry the label run_uuid, the latter this run's.    *)
Label == {NoProfile, "foreign", "old", "current"}

TypeOK ==
  /\ members \subseteq Memberships /\ profile \in [Names -> Label]
  /\ pc \in {"sleep", "list", "apply", "get", "delete"}
  /\ unread \subseteq Memberships /\ listed \subseteq Memberships /\ todo \subseteq Names
  /\ changes \in 0..MaxChanges /\ faults \in 0..MaxFaults
  /\ window \subseteq Memberships /\ steady \subseteq Memberships
  /\ tampered \subseteq Names /\ flawed \in BOOLEAN

Init ==
  /\ members \in SUBSET Memberships
  /\ profile \in [Names -> {NoProfile, "foreign", "old"}]
  /\ pc = "sleep" /\ unread = {} /\ listed = {} /\ todo = {}
  /\ changes = 0 /\ faults = 0
  /\ window = {} /\ steady = {} /\ tampered = {} /\ flawed = FALSE
-----------------------------------------------------------------------------
(* The environment.                                                        *)
Change == changes < MaxChanges /\ changes' = changes + 1

FleetBecomes(ms) ==
  /\ Change
  /\ members' = ms
  /\ window' = window \cup ms /\ steady' = steady \cap ms
  /\ UNCHANGED <<profile, pc, locals, faults, tampered, flawed>>

Register(m)   == m \notin members /\ FleetBecomes(members \cup {m})
Unregister(m) == m \in members /\ FleetBecomes(members \ {m})

UserWrites(n) ==
  /\ Change
  /\ \E l \in {NoProfile, "foreign"} : l # profile[n] /\ profile' = [profile EXCEPT ![n] = l]
  /\ tampered' = tampered \cup {n}
  /\ UNCHANGED <<members, pc, locals, faults, window, steady, flawed>>

Environment == \/ \E m \in Memberships : Register(m) \/ Unregister(m)
               \/ \E n \in Names : UserWrites(n)
-----------------------------------------------------------------------------
(* A run begins: the labels of all earlier runs are now another run's.     *)
SameRun ==  \* mutant: the UUID is made once, outside of the loop
  /\ pc = "sleep" /\ pc' = "list"
  /\ unread' = Memberships /\ listed' = {} /\ todo' = {}
  /\ window' = members /\ steady' = members /\ tampered' = {} /\ flawed' = FALSE
  /\ UNCHANGED <<members, profile, changes, faults>>

StartRun ==
  /\ pc = "sleep" /\ pc' = "list"
  /\ profile' = [n \in Names |-> IF profile[n] = "current" THEN "old" ELSE profile[n]]
  /\ unread' = Memberships /\ listed' = {} /\ todo' = {}
  /\ window' = members /\ steady' = members /\ tampered' = {} /\ flawed' = FALSE
  /\ UNCHANGED <<members, changes, faults>>

(* gcloud lists in pages; jq prints one line for each membership when all  *)
(* are there, and each becomes a file of the folder.                       *)
List(page) ==
  /\ pc = "list" /\ unread # {} /\ page \subseteq unread /\ page # {}
  /\ listed' = listed \cup (page \cap members)
  /\ unread' = unread \ page
  /\ UNCHANGED <<members, profile, pc, todo, changes, faults, history>>

FolderOfMemberships ==  \* mutant: the files are named after the membership
  /\ pc = "list" /\ unread = {}
  /\ pc' = "apply" /\ todo' = listed
  /\ UNCHANGED <<members, profile, unread, listed, changes, faults, history>>

WriteFolder ==
  /\ pc = "list" /\ unread = {}
  /\ pc' = "apply" /\ todo' = {ProfileOf[m] : m \in listed}
  /\ UNCHANGED <<members, profile, unread, listed, changes, faults, history>>

(* kubectl apply -f: one request for each file, whatever comes of it.      *)
Create(n) ==  \* mutant: kubectl create
  /\ pc = "apply" /\ n \in todo
  /\ profile' = IF profile[n] = NoProfile THEN [profile EXCEPT ![n] = "current"] ELSE profile
  /\ todo' = todo \ {n}
  /\ UNCHANGED <<members, pc, unread, listed, changes, faults, history>>

Apply(n) ==
  /\ pc = "apply" /\ n \in todo
  /\ profile' = [profile EXCEPT ![n] = "current"]
  /\ todo' = todo \ {n}
  /\ UNCHANGED <<members, pc, unread, listed, changes, faults, history>>

ApplyDone ==
  /\ pc = "apply" /\ todo = {} /\ pc' = "get"
  /\ UNCHANGED <<members, profile, locals, changes, faults, history>>

(* kubectl get -l "run_uuid,run_uuid notin ($run_uuid)".                   *)
Select(obsolete) ==
  /\ pc = "get" /\ pc' = "delete" /\ todo' = obsolete
  /\ UNCHANGED <<members, profile, unread, listed, changes, faults, history>>

GetLabelled   == Select({n \in Names : profile[n] \in {"old", "current"}})    \* mutant: -l run_uuid
GetNotCurrent == Select({n \in Names : profile[n] \in {"old", "foreign"}})    \* mutant: notin alone
GetObsolete   == Select({n \in Names : profile[n] = "old"})

(* kubectl delete clusterprofile $name: by name, there or not.             *)
Delete(n) ==
  /\ pc = "delete" /\ n \in todo
  /\ profile' = [profile EXCEPT ![n] = NoProfile]
  /\ todo' = todo \ {n}
  /\ UNCHANGED <<members, pc, unread, listed, changes, faults, history>>

RunDone ==
  /\ pc = "delete" /\ todo = {} /\ pc' = "sleep"
  /\ UNCHANGED <<members, profile, locals, changes, faults, history>>
-----------------------------------------------------------------------------
(***************************************************************************)
(* Failures: an empty listing (jq prints nothing of half an answer), a     *)
(* file that is not applied, an empty selection, a profile not deleted.  A *)
(* call whose answer is lost is one that worked, since none is looked at.  *)
(***************************************************************************)
Fault == faults < MaxFaults /\ faults' = faults + 1
Flaw  == flawed' = TRUE /\ UNCHANGED <<members, profile, changes, window, steady, tampered>>

ListFails ==
  /\ Fault /\ pc = "list" /\ pc' = "apply"
  /\ unread' = {} /\ listed' = {} /\ todo' = {}
  /\ Flaw

GetFails ==
  /\ Fault /\ pc = "get" /\ pc' = "delete"
  /\ Flaw /\ UNCHANGED locals

CallFails(n) ==
  /\ Fault /\ pc \in {"apply", "delete"} /\ n \in todo
  /\ todo' = todo \ {n}
  /\ Flaw /\ UNCHANGED <<pc, unread, listed>>

Crash ==
  /\ Fault /\ pc # "sleep" /\ pc' = "sleep"
  /\ unread' = {} /\ listed' = {} /\ todo' = {}
  /\ Flaw

Faulty == ListFails \/ GetFails \/ Crash \/ \E n \in Names : CallFails(n)

SyncClusterProfiles ==
  \/ StartRun \/ \E page \in SUBSET unread : List(page)
  \/ WriteFolder \/ ApplyDone \/ GetObsolete \/ RunDone
  \/ \E n \in Names : Apply(n) \/ Delete(n)

Next == Environment \/ SyncClusterProfiles \/ Faulty

Spec == Init /\ [][Next]_vars

(* "while true": the loop goes on, and its pod is started again.           *)
FairSpec == Spec /\ WF_vars(SyncClusterProfiles)
-----------------------------------------------------------------------------
(***************************************************************************)
(* Properties.                                                             *)
(***************************************************************************)
UserStep == changes' # changes
Deleted(n) == profile[n] # NoProfile /\ profile'[n] = NoProfile /\ ~UserStep

(***************************************************************************)
(* A run all of whose calls worked deletes no profile of a cluster that    *)
(* was in the fleet all the time of it, also where two clusters share one  *)
(* name, and whatever an earlier run left half done.                       *)
(***************************************************************************)
LiveProfilesStay ==
  [][\A m \in steady : Deleted(ProfileOf[m]) => flawed]_vars

(***************************************************************************)
(* The script deletes no profile it did not label, except one that took    *)
(* the name of its own after the run began.                                *)
(***************************************************************************)
ForeignProfilesStay ==
  [][\A n \in Names \ tampered : profile[n] = "foreign" => ~Deleted(n)]_vars

(***************************************************************************)
(* When a run all of whose calls worked is about to end, the labelled      *)
(* profiles are those of the clusters: all that stayed have one, and each  *)
(* belongs to a cluster that was there, except where users wrote.          *)
(***************************************************************************)
RunMirrorsFleet ==
  pc = "delete" /\ todo = {} /\ ~flawed =>
    \A n \in Names \ tampered :
      /\ (\E m \in steady : ProfileOf[m] = n) => profile[n] = "current"
      /\ profile[n] \in {"old", "current"} => \E m \in window : ProfileOf[m] = n

(***************************************************************************)
(* Left alone, the namespace comes to have a profile for each cluster and  *)
(* no labelled one besides, and keeps it from then on.                     *)
(***************************************************************************)
InStep ==
  \A n \in Names :
    IF \E m \in members : ProfileOf[m] = n THEN profile[n] # NoProfile
                                           ELSE profile[n] \in {NoProfile, "foreign"}
Converges == <>[]InStep

(***************************************************************************)
(* "now delete obsolete memberships (run_uuid not updated)": a profile not *)
(* updated, because a call failed, need not be obsolete.                   *)
(***************************************************************************)
OnlyObsoleteDeleted ==
  [][\A m \in steady : ~Deleted(ProfileOf[m])]_vars
=============================================================================
