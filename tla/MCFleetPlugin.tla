---------------------------- MODULE MCFleetPlugin ----------------------------
(***************************************************************************)
(* FleetPlugin for TLC: two clusters with one ID in two locations.  No     *)
(* user writes secrets here (FleetSync's own runs have that); the changes  *)
(* are those of the fleet that the handler can see.                        *)
(***************************************************************************)
EXTENDS FleetPlugin

MCRegions == {"global", "us-east1"}
MCIDs == {"a"}
MCMemberships == [region : MCRegions, id : MCIDs]
OneMembership == {[region |-> "us-east1", id |-> "a"]}
=============================================================================
