--------------------------- MODULE MCFleetRollout ---------------------------
(***************************************************************************)
(* FleetRollout for TLC: one cluster that comes and goes, and no scope.    *)
(***************************************************************************)
EXTENDS FleetRollout

MCMemberships == {[region |-> "us-east1", id |-> "a"]}
=============================================================================
