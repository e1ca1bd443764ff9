---------------------------- MODULE DocumentedUse ----------------------------
(***************************************************************************)
(* The program that the comment of SharedInformerFactory shows ("It is     *)
(* typically used like this", factory.go:204-224), run on the factory of   *)
(* SharedInformerFactory: one goroutine, one context.  The deferred calls  *)
(* run last in, first out: the wait for the informers, which the comment   *)
(* calls WaitForStop and the code Shutdown, and then cancel.               *)
(***************************************************************************)
EXTENDS SharedInformerFactory

CONSTANTS Main,  \* its goroutine, the only one of Waiters and of Closers
          Done   \* the channel of its context, the only one of Channels

VARIABLE at  \* where the program is
useVars == <<vars, at>>

UseInit == Init /\ at = "ask"

GoTo(from, to) == at = from /\ at' = to

(* The informers it needs, the first Start, and the wait for them.         *)
Ask == \E t \in Types : Informer(t) /\ \E to \in {"ask", "start"} : GoTo("ask", to)
StartAsked == Start(Done) /\ GoTo("start", "wait")
Wait == WaitForCacheSync(Main, Done) /\ GoTo("wait", "waiting")

(* An informer that failed to sync ends the program; otherwise it asks for *)
(* another one, starts it, and does its work, which ends some time.        *)
Check ==
  WaitReturns(Main) /\ GoTo("waiting", IF call[Main].failed = {} THEN "another" ELSE "defers")
Another == \E r \in Resources : ForResource(r) /\ GoTo("another", "again")
StartAgain == Start(Done) /\ GoTo("again", "work")
WorkEnds == GoTo("work", "defers") /\ UNCHANGED vars

WaitForStop == Shutdown(Main) /\ GoTo("defers", "stopping")
Stopped == ShutdownReturns(Main) /\ GoTo("stopping", "cancel")
Cancel == CloseChannel(Done) /\ GoTo("cancel", "ended")

Program ==
  \/ Ask \/ StartAsked \/ Wait \/ Check \/ Another \/ StartAgain \/ WorkEnds
  \/ WaitForStop \/ Stopped \/ Cancel
  \/ (Polling(Main) /\ UNCHANGED at)

UseNext == Program \/ \E t \in Types : Goroutine(t) /\ UNCHANGED at

UseSpec ==
  /\ UseInit /\ [][UseNext]_useVars
  /\ WF_useVars(Program)
  /\ \A t \in Types : WF_useVars(Goroutine(t) /\ UNCHANGED at)

(***************************************************************************)
(* The program of the comment comes to its end, once its work is done.     *)
(***************************************************************************)
TypicalUseEnds == at = "defers" ~> at = "ended"
=============================================================================
