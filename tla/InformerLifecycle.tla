-------------------------- MODULE InformerLifecycle --------------------------
(***************************************************************************)
(* What a SharedInformerFactory promises (the comments of the interface,   *)
(* factory.go:204-246), without locks, goroutines and counters: every      *)
(* informer is requested, active and stopped once in its life; a start     *)
(* activates all that are requested; when the factory is over nothing is   *)
(* active, and nothing will be.                                            *)
(***************************************************************************)
CONSTANT Types

VARIABLES life,     \* of each type's informer
          closing,  \* Shutdown has been called
          over      \* Shutdown has returned

lifecycleVars == <<life, closing, over>>

Init == life = [t \in Types |-> "unknown"] /\ closing = FALSE /\ over = FALSE

Request(t) ==
  /\ life[t] = "unknown"
  /\ life' = [life EXCEPT ![t] = "requested"]
  /\ UNCHANGED <<closing, over>>

Activate ==
  /\ ~closing
  /\ life' = [t \in Types |-> IF life[t] = "requested" THEN "active" ELSE life[t]]
  /\ UNCHANGED <<closing, over>>

Stop(t) ==
  /\ life[t] = "active"
  /\ life' = [life EXCEPT ![t] = "stopped"]
  /\ UNCHANGED <<closing, over>>

Close == closing' = TRUE /\ UNCHANGED <<life, over>>

Finish ==
  /\ closing /\ \A t \in Types : life[t] # "active"
  /\ over' = TRUE
  /\ UNCHANGED <<life, closing>>

Next == (\E t \in Types : Request(t) \/ Stop(t)) \/ Activate \/ Close \/ Finish

Spec == Init /\ [][Next]_lifecycleVars
=============================================================================
