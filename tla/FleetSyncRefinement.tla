------------------------- MODULE FleetSyncRefinement -------------------------
(***************************************************************************)
(* The refresh goroutine does what FleetMirror promises.  What a refresh   *)
(* has read is what it has published, from the moment on that both maps    *)
(* are there: the clusters of the one, and the bindings that the other     *)
(* stands for.                                                             *)
(***************************************************************************)
EXTENDS FleetSync

Published ==
  DOMAIN memCache \cup
    {b \in Bindings : ShortID(b.scope) \in DOMAIN scopeCache /\ b.membership \in scopeCache[ShortID(b.scope)]}

Phase == IF pc \in Reconcile THEN "writing" ELSE "reading"
View == IF pc \in Reconcile THEN Published ELSE {}

Mirror == INSTANCE FleetMirror WITH
            registered <- members \cup bindings,
            phase <- Phase, view <- View,
            always <- steady, ever <- window, edited <- tampered, userSteps <- changes

(***************************************************************************)
(* From the outside a refresh looks as if it had read the fleet at one     *)
(* moment and worked from that reading to its end, secrets of clusters     *)
(* first and removals after them, whatever happens between its calls, to   *)
(* them or to the process.                                                 *)
(***************************************************************************)
ImplementsMirror == Mirror!Spec
=============================================================================
