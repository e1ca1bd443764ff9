---------------------------- MODULE FleetRollout ----------------------------
(***************************************************************************)
(* The rolling update of the fleet plugin.  Its Deployment                 *)
(* (fleet-argocd-plugin/fleet-sync-install.yaml) has one replica, the      *)
(* default strategy and no readiness probe: the new process is started     *)
(* beside the old one, and the old one is stopped at some time after that, *)
(* wherever the two of them are in their refreshes.  Both read the same    *)
(* fleet and write the same Secrets, and know nothing of each other.       *)
(*                                                                         *)
(* The new process is the one of the FleetSync extended here, the old one  *)
(* an instance with variables of its own for all that is inside of it.     *)
(***************************************************************************)
EXTENDS FleetSync

VARIABLES
  rollout,  \* "before", "both", "after": which of the processes there are
  oldPc, oldServing, oldUnread, oldMems, oldScs, oldMbs, oldMemCache, oldScopeCache,
  oldTodo, oldTarget, oldWindow, oldSteady, oldTampered

Old == INSTANCE FleetSync WITH
         pc <- oldPc, serving <- oldServing,
         unread <- oldUnread, mems <- oldMems, scs <- oldScs, mbs <- oldMbs,
         memCache <- oldMemCache, scopeCache <- oldScopeCache,
         todo <- oldTodo, target <- oldTarget,
         window <- oldWindow, steady <- oldSteady, tampered <- oldTampered

newProcess == <<pc, serving, lists, caches, loop, window, steady>>
oldProcess == <<oldPc, oldServing, oldUnread, oldMems, oldScs, oldMbs, oldMemCache, oldScopeCache,
                oldTodo, oldTarget, oldWindow, oldSteady>>
shared == <<fleet, secrets, changes, faults>>
rolloutVars == <<shared, rollout, newProcess, tampered, oldProcess, oldTampered>>

RolloutInit == Init /\ Old!Init /\ rollout = "before"
-----------------------------------------------------------------------------
(* To each process the other one is a user of the namespace.               *)
Written == {n \in SecretNames : secrets'[n] # secrets[n]}

NewRefresh ==
  /\ rollout # "before" /\ Refresh
  /\ oldTampered' = oldTampered \cup Written
  /\ UNCHANGED <<rollout, oldProcess>>

NewFaulty ==
  /\ rollout # "before" /\ Faulty
  /\ oldTampered' = oldTampered \cup Written
  /\ UNCHANGED <<rollout, oldProcess>>

OldRefresh ==
  /\ rollout # "after" /\ Old!Refresh
  /\ tampered' = tampered \cup Written
  /\ UNCHANGED <<rollout, newProcess>>

OldFaulty ==
  /\ rollout # "after" /\ Old!Faulty
  /\ tampered' = tampered \cup Written
  /\ UNCHANGED <<rollout, newProcess>>

Users == Environment /\ Old!Environment /\ UNCHANGED rollout

(* Kubernetes starts the new pod, and stops the old one as soon as the     *)
(* container of the new one runs.                                          *)
StartNew ==
  /\ rollout = "before" /\ rollout' = "both"
  /\ UNCHANGED <<shared, newProcess, tampered, oldProcess, oldTampered>>

StopOld ==
  /\ rollout = "both" /\ rollout' = "after"
  /\ Old!Exit
  /\ UNCHANGED <<shared, newProcess, tampered, oldWindow, oldSteady, oldTampered>>

RolloutNext ==
  NewRefresh \/ NewFaulty \/ OldRefresh \/ OldFaulty \/ Users \/ StartNew \/ StopOld

RolloutSpec == RolloutInit /\ [][RolloutNext]_rolloutVars

RolloutFairSpec ==
  /\ RolloutSpec
  /\ WF_rolloutVars(NewRefresh) /\ WF_rolloutVars(OldRefresh)
  /\ WF_rolloutVars(StartNew) /\ WF_rolloutVars(StopOld)
-----------------------------------------------------------------------------
(***************************************************************************)
(* During the update too, a cluster that has been registered since the     *)
(* refreshes of both processes began keeps its secret.  Since the refresh  *)
(* of one of them is not enough: the other may have listed the fleet       *)
(* before the cluster came, and prunes by that listing.                    *)
(***************************************************************************)
ClusterKeepsItsSecretInRollout ==
  [][\A m \in steady \cap oldSteady \cap Memberships :
       secrets[SecretName(m)] # NoSecret /\ secrets'[SecretName(m)] = NoSecret
         => UserStep]_rolloutVars

(***************************************************************************)
(* The update comes to its end: whatever the two processes did to each     *)
(* other's secrets, to their calls or to each other's refreshes, the new   *)
(* one serves and the secrets come to mirror the fleet, for good.          *)
(***************************************************************************)
RolloutConverges == <>[](rollout = "after" /\ (InStep \/ Blocked))
=============================================================================
