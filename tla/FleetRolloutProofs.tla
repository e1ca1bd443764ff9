------------------------- MODULE FleetRolloutProofs -------------------------
(***************************************************************************)
(* Proofs about the rolling update of the fleet plugin, for every fleet    *)
(* and any number of changes and faults.  What FleetSyncProofs says of a   *)
(* process is used twice: of the new one, and, with its variables, of the  *)
(* old one.                                                                *)
(***************************************************************************)
EXTENDS FleetRollout, FleetSyncProofs

OldProofs == INSTANCE FleetSyncProofs WITH
               pc <- oldPc, serving <- oldServing,
               unread <- oldUnread, mems <- oldMems, scs <- oldScs, mbs <- oldMbs,
               memCache <- oldMemCache, scopeCache <- oldScopeCache,
               todo <- oldTodo, target <- oldTarget,
               window <- oldWindow, steady <- oldSteady, tampered <- oldTampered


-----------------------------------------------------------------------------
(* The constant definitions are the same for both processes, and so are    *)
(* the assumptions.                                                        *)
LEMMA SameData ==
  /\ OldProofs!SecretNames = SecretNames /\ OldProofs!Secret = Secret
  /\ OldProofs!ScopeKeys = ScopeKeys /\ OldProofs!Bindings = Bindings
  BY DEF OldProofs!SecretNames, SecretNames, OldProofs!SecretName, SecretName,
         OldProofs!Secret, Secret, OldProofs!ServerURLs, ServerURLs,
         OldProofs!ConnectGatewayURL, ConnectGatewayURL,
         OldProofs!ScopeKeys, ScopeKeys, OldProofs!Bindings, Bindings

LEMMA SameAssumptions ==
  /\ Memberships \subseteq [region : Regions, id : IDs]
  /\ UserSecrets \subseteq OldProofs!Secret /\ NoSecret \notin OldProofs!Secret
  /\ \A S \in SUBSET Memberships : Nil \notin [S -> SUBSET OldProofs!ScopeKeys]
  /\ \A K \in SUBSET OldProofs!ScopeKeys : Nil \notin [K -> SUBSET Memberships]
  /\ MaxChanges \in Nat /\ MaxFaults \in Nat
  BY SameData, MembershipAssumption, SecretAssumption, NilAssumption, BoundsAssumption

(* The old process of FleetRollout is the one of OldProofs: the two are    *)
(* instances of the same definitions.                                      *)
LEMMA SameInit == Old!Init => OldProofs!Init
  BY Zenon
     DEF Old!Init, OldProofs!Init, Old!SecretNames, OldProofs!SecretNames, Old!SecretName,
         OldProofs!SecretName, Old!Secret, OldProofs!Secret, Old!ServerURLs, OldProofs!ServerURLs,
         Old!ConnectGatewayURL, OldProofs!ConnectGatewayURL, Old!Manifest, OldProofs!Manifest

LEMMA SameExit == Old!Exit => OldProofs!Exit
  BY Zenon DEF Old!Exit, OldProofs!Exit, Old!DropLocals, OldProofs!DropLocals

LEMMA SameRefresh == Old!Refresh => OldProofs!Refresh
  BY Zenon
     DEF Old!Refresh, OldProofs!Refresh, Old!Start, OldProofs!Start, Old!Wake, OldProofs!Wake,
         Old!BeginRefresh, OldProofs!BeginRefresh, Old!ListMemberships, OldProofs!ListMemberships,
         Old!ListScopes, OldProofs!ListScopes, Old!ListMembershipBindings,
         OldProofs!ListMembershipBindings, Old!Page, OldProofs!Page, Old!NextPage,
         OldProofs!NextPage, Old!PublishMemberships, OldProofs!PublishMemberships,
         Old!PublishScopes, OldProofs!PublishScopes, Old!ReconcileClusterSecrets,
         OldProofs!ReconcileClusterSecrets, Old!ApplyCreate, OldProofs!ApplyCreate,
         Old!ApplyAlreadyExists, OldProofs!ApplyAlreadyExists, Old!ApplyUpdate,
         OldProofs!ApplyUpdate, Old!UpdateRejected, OldProofs!UpdateRejected, Old!ApplyDone,
         OldProofs!ApplyDone, Old!PruneList, OldProofs!PruneList, Old!PruneDelete,
         OldProofs!PruneDelete, Old!DeleteNotFound, OldProofs!DeleteNotFound, Old!RefreshDone,
         OldProofs!RefreshDone, Old!SecretWritten, OldProofs!SecretWritten, Old!Updatable,
         OldProofs!Updatable, Old!ClusterSecrets, OldProofs!ClusterSecrets, Old!ClusterSecretNames,
         OldProofs!ClusterSecretNames, Old!SecretName, OldProofs!SecretName, Old!SecretNames,
         OldProofs!SecretNames, Old!Manifest, OldProofs!Manifest, Old!ConnectGatewayURL,
         OldProofs!ConnectGatewayURL, Old!MembershipTenancyMap, OldProofs!MembershipTenancyMap,
         Old!ScopeTenancyMap, OldProofs!ScopeTenancyMap, Old!ShortID, OldProofs!ShortID,
         Old!Bindings, OldProofs!Bindings, Old!FullName, OldProofs!FullName, Old!IsPluginSecret,
         OldProofs!IsPluginSecret, Old!RefreshError, OldProofs!RefreshError, Old!Exit,
         OldProofs!Exit, Old!DropLocals, OldProofs!DropLocals, Old!fleet, OldProofs!fleet,
         Old!lists, OldProofs!lists, Old!caches, OldProofs!caches, Old!loop, OldProofs!loop,
         Old!history, OldProofs!history

LEMMA SameFaulty == Old!Faulty => OldProofs!Faulty
  BY Zenon
     DEF Old!Faulty, OldProofs!Faulty, Old!CallFails, OldProofs!CallFails, Old!Crash,
         OldProofs!Crash, Old!AnswerLost, OldProofs!AnswerLost, Old!Fault, OldProofs!Fault,
         Old!Listing, OldProofs!Listing, Old!Updatable, OldProofs!Updatable, Old!SecretName,
         OldProofs!SecretName, Old!SecretNames, OldProofs!SecretNames, Old!Manifest,
         OldProofs!Manifest, Old!ConnectGatewayURL, OldProofs!ConnectGatewayURL, Old!RefreshError,
         OldProofs!RefreshError, Old!Exit, OldProofs!Exit, Old!DropLocals, OldProofs!DropLocals,
         Old!fleet, OldProofs!fleet, Old!lists, OldProofs!lists, Old!caches, OldProofs!caches,
         Old!loop, OldProofs!loop, Old!history, OldProofs!history

LEMMA SameEnvironment == Old!Environment => OldProofs!Environment
  BY Zenon
     DEF Old!Environment, OldProofs!Environment, Old!Register, OldProofs!Register, Old!Unregister,
         OldProofs!Unregister, Old!CreateScope, OldProofs!CreateScope, Old!DeleteScope,
         OldProofs!DeleteScope, Old!Bind, OldProofs!Bind, Old!Unbind, OldProofs!Unbind,
         Old!UserWrites, OldProofs!UserWrites, Old!Change, OldProofs!Change, Old!FleetChange,
         OldProofs!FleetChange, Old!Bindings, OldProofs!Bindings, Old!SecretName,
         OldProofs!SecretName, Old!SecretNames, OldProofs!SecretNames, Old!fleet, OldProofs!fleet,
         Old!lists, OldProofs!lists, Old!caches, OldProofs!caches, Old!loop, OldProofs!loop,
         Old!history, OldProofs!history
-----------------------------------------------------------------------------
(* What is proved of a process, said of the old one.                       *)
LEMMA OldInit == OldProofs!Init => OldProofs!IInv
  BY OldProofs!IInvInit, SameAssumptions
LEMMA OldStep == OldProofs!IInv /\ [OldProofs!Next]_(OldProofs!vars) => OldProofs!IInv'
  BY OldProofs!IInvStep, SameAssumptions
LEMMA OldForeign ==
  ASSUME OldProofs!IInv,
         UNCHANGED <<fleet, oldProcess, changes>>,
         faults' \in 0..MaxFaults, secrets' \in [SecretNames -> Secret \cup {NoSecret}],
         oldTampered' = oldTampered \cup Written
  PROVE  OldProofs!IInv'
  BY OldProofs!ForeignStep, SameAssumptions, SameData
     DEF fleet, oldProcess, Written, OldProofs!fleet, OldProofs!lists, OldProofs!caches, OldProofs!loop

LEMMA OldExit ==
  ASSUME OldProofs!IInv, OldProofs!Exit, UNCHANGED <<shared, oldWindow, oldSteady, oldTampered>>
  PROVE  OldProofs!IInv'
  BY OldProofs!ExitStep, SameAssumptions
     DEF shared, fleet, OldProofs!fleet, OldProofs!history

LEMMA OldFrame == OldProofs!Refresh \/ OldProofs!Faulty => UNCHANGED <<fleet, changes>>
  BY OldProofs!ProcessFrame, SameAssumptions DEF fleet, OldProofs!fleet

LEMMA OldKeeps ==
  ASSUME OldProofs!IInv, [OldProofs!Next]_(OldProofs!vars)
  PROVE  \A m \in oldSteady \cap Memberships :
           secrets[SecretName(m)] # NoSecret /\ secrets'[SecretName(m)] = NoSecret => UserStep
  BY OldProofs!KeepsStep, SameAssumptions DEF OldProofs!SecretName, SecretName, OldProofs!UserStep, UserStep
-----------------------------------------------------------------------------
(***************************************************************************)
(* Both processes keep the invariant of one process: whatever the other    *)
(* one writes is to it a user's writing, from which its reading of the     *)
(* fleet, its maps and its loops do not suffer.                            *)
(***************************************************************************)
RolloutInv == IInv /\ OldProofs!IInv

(* The kinds of step: of one process, of the users, or of Kubernetes.      *)
NewMoves == (Refresh \/ Faulty) /\ oldTampered' = oldTampered \cup Written /\ UNCHANGED oldProcess
OldMoves == /\ OldProofs!Refresh \/ OldProofs!Faulty
            /\ tampered' = tampered \cup Written /\ UNCHANGED newProcess
UsersMove == Environment /\ OldProofs!Environment
OldStops == OldProofs!Exit /\ UNCHANGED <<shared, newProcess, tampered, oldWindow, oldSteady, oldTampered>>

LEMMA RolloutSteps ==
  ASSUME [RolloutNext]_rolloutVars
  PROVE  \/ NewMoves \/ OldMoves \/ UsersMove \/ OldStops
         \/ UNCHANGED <<shared, newProcess, tampered, oldProcess, oldTampered>>
<1>1. CASE NewRefresh \/ NewFaulty
  BY <1>1 DEF NewRefresh, NewFaulty, NewMoves
<1>2. CASE OldRefresh \/ OldFaulty
  BY <1>2, SameRefresh, SameFaulty DEF OldRefresh, OldFaulty, OldMoves
<1>3. CASE Users
  BY <1>3, SameEnvironment DEF Users, UsersMove
<1>4. CASE StartNew \/ StopOld
  BY <1>4, SameExit DEF StartNew, StopOld, OldStops
<1>5. CASE UNCHANGED rolloutVars
  BY <1>5 DEF rolloutVars
<1> QED BY <1>1, <1>2, <1>3, <1>4, <1>5 DEF RolloutNext

LEMMA NewStays ==
  UNCHANGED <<shared, newProcess, tampered>> => UNCHANGED vars
  BY DEF shared, newProcess, vars, fleet, lists, caches, loop, history
LEMMA OldStays ==
  UNCHANGED <<shared, oldProcess, oldTampered>> => UNCHANGED OldProofs!vars
  BY DEF shared, oldProcess, fleet, OldProofs!vars, OldProofs!fleet, OldProofs!lists, OldProofs!caches,
         OldProofs!loop, OldProofs!history

LEMMA RolloutInvStep == RolloutInv /\ [RolloutNext]_rolloutVars => RolloutInv'
<1> SUFFICES ASSUME RolloutInv, [RolloutNext]_rolloutVars PROVE IInv' /\ OldProofs!IInv'
  BY DEF RolloutInv
<1> USE DEF RolloutInv
<1>1. CASE NewMoves
  <2>1. IInv'
    BY <1>1, IInvStep DEF NewMoves, Next
  <2>2. secrets' \in [SecretNames -> Secret \cup {NoSecret}] /\ faults' \in 0..MaxFaults
    BY <2>1 DEF IInv, Typed, TypeOK
  <2> QED BY <1>1, <2>1, <2>2, ProcessFrame, OldForeign DEF NewMoves
<1>2. CASE OldMoves
  <2>1. OldProofs!IInv'
    BY <1>2, OldStep DEF OldMoves, OldProofs!Next
  <2>2. secrets' \in [SecretNames -> Secret \cup {NoSecret}] /\ faults' \in 0..MaxFaults
    BY <2>1, SameData DEF OldProofs!IInv, OldProofs!Typed, OldProofs!TypeOK
  <2>3. UNCHANGED <<fleet, changes>>
    BY <1>2, OldFrame DEF OldMoves
  <2>4. IInv'
    BY <1>2, <2>2, <2>3, ForeignStep DEF OldMoves, newProcess, Written
  <2> QED BY <2>1, <2>4
<1>3. CASE UsersMove
  BY <1>3, IInvStep, OldStep DEF UsersMove, Next, OldProofs!Next
<1>4. CASE OldStops
  <2>1. UNCHANGED vars
    BY <1>4, NewStays DEF OldStops
  <2> QED BY <1>4, <2>1, IInvStep, OldExit DEF OldStops
<1>5. CASE UNCHANGED <<shared, newProcess, tampered, oldProcess, oldTampered>>
  BY <1>5, NewStays, OldStays, IInvStep, OldStep
<1> QED BY <1>1, <1>2, <1>3, <1>4, <1>5, RolloutSteps

(* RolloutInv is an invariant of the rolling update.                       *)
THEOREM RolloutInvariance == RolloutSpec => []RolloutInv
<1>1. RolloutInit => RolloutInv
  BY IInvInit, SameInit, OldInit DEF RolloutInit, RolloutInv
<1> QED BY <1>1, RolloutInvStep, PTL DEF RolloutSpec

(***************************************************************************)
(* What a refresh promises on its own it keeps beside another one, be it   *)
(* the new process's or the old one's: the topology it publishes was true  *)
(* while it listed, the two maps agree, and when it returns nil the        *)
(* secrets that nobody else wrote are those of its topology.               *)
(***************************************************************************)
THEOREM UndisturbedInRollout ==
  RolloutSpec =>
    [](/\ TopologyIsCurrent /\ OldProofs!TopologyIsCurrent
       /\ TenancyMapsAgree /\ OldProofs!TenancyMapsAgree
       /\ RefreshMirrorsFleet /\ OldProofs!RefreshMirrorsFleet)
<1>1. IInv => TopologyIsCurrent /\ TenancyMapsAgree /\ RefreshMirrorsFleet
  BY DEF IInv, TopologyInv, LoopInv, Applied, RefreshMirrorsFleet, Mirrored
<1>2. OldProofs!IInv => OldProofs!TopologyIsCurrent /\ OldProofs!TenancyMapsAgree
  BY DEF OldProofs!IInv, OldProofs!TopologyInv
<1>3. OldProofs!IInv => OldProofs!RefreshMirrorsFleet
  BY DEF OldProofs!IInv, OldProofs!LoopInv, OldProofs!Applied, OldProofs!RefreshMirrorsFleet, OldProofs!Mirrored
<1> QED BY <1>1, <1>2, <1>3, RolloutInvariance, PTL DEF RolloutInv

(***************************************************************************)
(* During the update too, no step of either process takes away the secret  *)
(* of a cluster that has been registered since both refreshes began.       *)
(***************************************************************************)
THEOREM KeepsItsSecretInRollout == RolloutSpec => ClusterKeepsItsSecretInRollout
<1>1. ASSUME RolloutInv, [RolloutNext]_rolloutVars
      PROVE  \A m \in steady \cap oldSteady \cap Memberships :
               secrets[SecretName(m)] # NoSecret /\ secrets'[SecretName(m)] = NoSecret => UserStep
  <2>1. CASE NewMoves \/ UsersMove
    BY <1>1, <2>1, KeepsStep DEF RolloutInv, NewMoves, UsersMove, Next
  <2>2. CASE OldMoves
    BY <1>1, <2>2, OldKeeps DEF RolloutInv, OldMoves, OldProofs!Next
  <2>3. CASE OldStops \/ UNCHANGED <<shared, newProcess, tampered, oldProcess, oldTampered>>
    BY <2>3 DEF OldStops, shared
  <2> QED BY <1>1, <2>1, <2>2, <2>3, RolloutSteps
<1> QED BY <1>1, RolloutInvariance, PTL DEF RolloutSpec, ClusterKeepsItsSecretInRollout
=============================================================================
