---------------------------- MODULE MCFleetSync ----------------------------
(***************************************************************************)
(* FleetSync for TLC: two memberships with one ID in two locations, one of *)
(* them "global", so that a name or an address that forgets the location   *)
(* shows, and three kinds of secret a user may put under their names.      *)
(***************************************************************************)
EXTENDS FleetSyncRefinement

MCRegions == {"global", "us-east1"}
MCIDs == {"a"}
MCMemberships == [region : MCRegions, id : MCIDs]

(* A cluster the user added to Argo CD, an edited secret of the plugin,    *)
(* and a secret that Kubernetes will not let anybody update.               *)
OwnCluster == [cluster |-> TRUE, managed |-> FALSE, locked |-> FALSE, server |-> OtherServer]
Edited     == [cluster |-> TRUE, managed |-> TRUE, locked |-> FALSE, server |-> OtherServer]
Immutable  == [cluster |-> FALSE, managed |-> FALSE, locked |-> TRUE, server |-> OtherServer]

MCUserSecrets == {OwnCluster, Edited, Immutable}
=============================================================================
