------------------------ MODULE MCClusterProfileSync ------------------------
(***************************************************************************)
(* ClusterProfileSync for TLC.  Users may put a secret of their own in     *)
(* place, or one that Kubernetes will not let anybody update, or delete    *)
(* one.  (Edited, a secret of the controller's is to CreateOrUpdate what   *)
(* OwnSecret is, and to the cleanup what it was before.)                   *)
(***************************************************************************)
EXTENDS ClusterProfileSync

OwnSecret == [owner |-> Nil, server |-> OtherServer, locked |-> FALSE]
Immutable == [owner |-> Nil, server |-> OtherServer, locked |-> TRUE]

MCUserSecrets == {OwnSecret, Immutable, Absent}

(***************************************************************************)
(* A fresh installation: no secrets are left from an earlier process.      *)
(***************************************************************************)
FreshInit == Init /\ \A p \in Profiles : secret[p] = Absent
FreshSpec == FreshInit /\ [][Next]_vars
=============================================================================
