------------------------------ MODULE ApiTypes ------------------------------
(***************************************************************************)
(* The types of the multi-cluster-orchestrator API (api/v1alpha1) as far   *)
(* as copies of them are concerned: which of their fields are references   *)
(* (a pointer, a slice or a map), and what the generated DeepCopyInto      *)
(* functions do with each.  A field is named by its struct and its name;   *)
(* every struct occurs at one place only, so that is its path too.         *)
(*                                                                         *)
(* External: ObjectMeta and ListMeta of apimachinery are each one          *)
(* reference with a DeepCopyInto of its own; a metav1.Time never changes.  *)
(***************************************************************************)
Kinds == {"Binding", "Placement"}
ListOf == [Binding |-> "BindingList", Placement |-> "PlacementList"]

BindingReferences == {<<"Binding", "metadata">>, <<"BindingList", "metadata">>, <<"BindingList", "items">>}

SpecReferences ==
  {<<"PlacementSpec", "clusterSelectorRules">>, <<"Scaling", "autoscaleForCapacity">>,
   <<"AutoscaleForCapacity", "workloadDetails">>}

StatusReferences ==
  {<<"PlacementStatus", "clusters">>, <<"PlacementCluster", "atCapacityCeiling">>,
   <<"PlacementCluster", "draining">>}

PlacementReferences ==
  {<<"Placement", "metadata">>, <<"PlacementList", "metadata">>, <<"PlacementList", "items">>,
   <<"PlacementClusterSelectorRule", "arguments">>}

References == [Binding   |-> BindingReferences,
               Placement |-> PlacementReferences \cup SpecReferences \cup StatusReferences]
-----------------------------------------------------------------------------
(* DeepCopyInto of a struct: the references it allocates anew, and the     *)
(* structs, held or referred to, whose DeepCopyInto it calls.  What it     *)
(* does not mention it has copied with *out = *in: a reference then leads  *)
(* to the same memory as the original's.                                   *)
Copies(fresh, calls) == [fresh |-> fresh, calls |-> calls]

CapacityCopies == [AutoscaleForCapacity |-> Copies({"workloadDetails"}, {})]

BindingCopies ==
  [GroupVersionKind |-> Copies({}, {}),
   Binding          |-> Copies({"metadata"}, {}),
   BindingList      |-> Copies({"metadata", "items"}, {"Binding"}),
   BindingSpec      |-> Copies({}, {}),
   BindingStatus    |-> Copies({}, {})]

PlacementCopies ==
  [Placement       |-> Copies({"metadata"}, {"PlacementSpec", "PlacementStatus"}),
   PlacementList   |-> Copies({"metadata", "items"}, {"Placement"}),
   PlacementSpec   |-> Copies({"clusterSelectorRules"}, {"PlacementClusterSelectorRule", "Scaling"}),
   PlacementStatus |-> Copies({"clusters"}, {"PlacementCluster"})]

(* Mutant: the generator was not run after the field draining was added.   *)
ClusterCopiesStale ==
  [PlacementCluster             |-> Copies({"atCapacityCeiling"}, {}),
   PlacementClusterDraining     |-> Copies({}, {}),
   PlacementClusterSelectorRule |-> Copies({"arguments"}, {}),
   PlacementRef                 |-> Copies({}, {})]

ClusterCopies ==
  [PlacementCluster             |-> Copies({"atCapacityCeiling", "draining"}, {"PlacementClusterDraining"}),
   PlacementClusterDraining     |-> Copies({}, {}),
   PlacementClusterSelectorRule |-> Copies({"arguments"}, {}),
   PlacementRef                 |-> Copies({}, {})]

ScalingCopies ==
  [Scaling         |-> Copies({"autoscaleForCapacity"}, {"AutoscaleForCapacity"}),
   SourceRef       |-> Copies({}, {}),
   WorkloadDetails |-> Copies({}, {})]

DeepCopyInto(s) ==
  IF s \in DOMAIN CapacityCopies THEN CapacityCopies[s]
  ELSE IF s \in DOMAIN BindingCopies THEN BindingCopies[s]
  ELSE IF s \in DOMAIN PlacementCopies THEN PlacementCopies[s]
  ELSE IF s \in DOMAIN ClusterCopies THEN ClusterCopies[s]
  ELSE ScalingCopies[s]

(* The structs that a DeepCopy of a value of type root gets to: no calls   *)
(* go deeper than from a list to an AutoscaleForCapacity, four in all.     *)
WithCalled(S) == S \cup UNION {DeepCopyInto(s).calls : s \in S}
CopiedStructs(root) == WithCalled(WithCalled(WithCalled(WithCalled({root}))))

(* The references that a copy of an object still has in common with the    *)
(* original, when the object, or the list it is an item of, was copied.    *)
SharedBy(kind, root) ==
  {r \in References[kind] : root = kind => r[1] # ListOf[kind]}
    \ {r \in References[kind] : r[1] \in CopiedStructs(root) /\ r[2] \in DeepCopyInto(r[1]).fresh}

Shared == [kind \in Kinds |-> [root \in {kind, ListOf[kind]} |-> SharedBy(kind, root)]]
=============================================================================
