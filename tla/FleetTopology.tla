---------------------------- MODULE FleetTopology ----------------------------
(***************************************************************************)
(* The names and the pure functions of the fleet plugin                    *)
(* (fleet-argocd-plugin/fleetclient): how a membership, a scope and a      *)
(* cluster secret are named, and how one listing of the GKE Fleet API is   *)
(* turned into the two tenancy maps that the plugin caches.                *)
(*                                                                         *)
(* A membership is the pair of path segments the code splits out of its    *)
(* resource name, projects/P/locations/<region>/memberships/<id>; the      *)
(* project is the one the plugin was started for.  A binding is the pair   *)
(* its resource name and its scope field denote.  The API only returns     *)
(* names of that shape, so the "invalid name" branches are not modelled,   *)
(* and the lists kept in the maps are sets: nobody reads their order.      *)
(***************************************************************************)
EXTENDS Integers

CONSTANTS Memberships,  \* every membership that can ever be registered
          Regions,      \* locations; "global" is one of them, maybe
          IDs,          \* membership IDs, unique per region only
          Scopes,       \* every fleet scope (team) that can ever exist
          OtherServer   \* any cluster address that is not a Connect Gateway URL

ASSUME MembershipAssumption == Memberships \subseteq [region : Regions, id : IDs]

Bindings == [membership : Memberships, scope : Scopes]

(***************************************************************************)
(* A scope appears under two names: the API lists scopes by full resource  *)
(* name, while a binding's scope is cut down to its last path segment and  *)
(* a plugin request carries that short ID.                                 *)
(***************************************************************************)
FullName(s) == [form |-> "name", scope |-> s]
ShortID(s)  == [form |-> "id", scope |-> s]
ScopeKeys   == [form : {"name", "id"}, scope : Scopes]

(* {{.MembershipID}}.{{.Region}}.{{.ProjectNum}}, the project being fixed. *)
SecretName(m) == <<m.id, m.region>>
SecretNames   == {SecretName(m) : m \in Memberships}

ConnectGatewayURL(region, id) ==
  [host |-> IF region = "global" THEN "connectgateway" ELSE region,
   location |-> region, id |-> id]
ServerURLs == {ConnectGatewayURL(m.region, m.id) : m \in Memberships}

(***************************************************************************)
(* What the plugin can tell apart in a Secret of the argocd namespace:     *)
(* the label that makes it an Argo CD cluster, the plugin's annotation,    *)
(* whether Kubernetes refuses to change it (immutable, or another type),   *)
(* and the cluster it points at.                                           *)
(***************************************************************************)
Secret == [cluster : BOOLEAN, managed : BOOLEAN, locked : BOOLEAN,
           server : ServerURLs \cup {OtherServer}]

(* clusterSecretTemplate rendered for the membership that n names.         *)
Manifest(n) == [cluster |-> TRUE, managed |-> TRUE, locked |-> FALSE,
                server |-> ConnectGatewayURL(n[2], n[1])]

(* One entry of the generator's answer.                                    *)
ResultFromMembership(m) == [server |-> ConnectGatewayURL(m.region, m.id),
                            name |-> SecretName(m), nameShort |-> m.id]

(***************************************************************************)
(* The maps Refresh builds from one listing.  Memberships start with no    *)
(* scope and a binding appends to the entry of its membership, creating    *)
(* the entry if the listing had none; scopes start, under the name they    *)
(* were listed with, with no membership, and a binding appends to the      *)
(* entry of its scope's short ID.                                          *)
(***************************************************************************)
(* Mutant: only memberships that some binding mentions are entered.        *)
BoundTenancyMap(mems, mbs) ==
  [m \in {b.membership : b \in mbs} |->
     {ShortID(b.scope) : b \in {c \in mbs : c.membership = m}}]

MembershipTenancyMap(mems, mbs) ==
  [m \in mems \cup {b.membership : b \in mbs} |->
     {ShortID(b.scope) : b \in {c \in mbs : c.membership = m}}]

(* Mutants: bindings to scopes that were not listed are skipped; the name  *)
(* of the binding is appended instead of the membership's.                 *)
ListedTenancyMap(scs, mbs) ==
  [k \in {ShortID(s) : s \in scs} |-> {b.membership : b \in {c \in mbs : ShortID(c.scope) = k}}]

BindingTenancyMap(scs, mbs) ==
  [k \in {FullName(s) : s \in scs} \cup {ShortID(b.scope) : b \in mbs} |->
     {b \in mbs : ShortID(b.scope) = k}]

ScopeTenancyMap(scs, mbs) ==
  [k \in {FullName(s) : s \in scs} \cup {ShortID(b.scope) : b \in mbs} |->
     {b.membership : b \in {c \in mbs : ShortID(c.scope) = k}}]

(* The names of the cluster secrets that belong to a set of memberships.   *)
ClusterSecretNames(mems) == {SecretName(m) : m \in mems}
=============================================================================
