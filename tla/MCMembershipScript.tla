------------------------- MODULE MCMembershipScript -------------------------
(***************************************************************************)
(* MembershipScript for TLC: two memberships that share a name, one with a *)
(* name of its own, and a name that no membership has.                     *)
(***************************************************************************)
EXTENDS MembershipScript

MCMemberships == {"m1", "m2", "m3"}
MCNames == {"null-null", "m3-us-east1", "unused"}
MCProfileOf == [m \in MCMemberships |-> IF m = "m3" THEN "m3-us-east1" ELSE "null-null"]
=============================================================================
