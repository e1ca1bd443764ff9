----------------------- MODULE MCSharedInformerFactory -----------------------
(***************************************************************************)
(* SharedInformerFactory for TLC: the two types the group has, a third     *)
(* resource it does not have, two stop channels, two callers of Shutdown   *)
(* and one of WaitForCacheSync, which writes nothing another call reads:   *)
(* one waiter stands for any number of them.                               *)
(***************************************************************************)
EXTENDS SharedInformerFactory
=============================================================================
