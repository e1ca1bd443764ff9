------------------------ MODULE SharedInformerFactory ------------------------
(***************************************************************************)
(* The shared informer factory of the multi-cluster-orchestrator client    *)
(* (pkg/client/informers/externalversions/factory.go): informers are       *)
(* created on request, started in goroutines that end when their stop      *)
(* channel is closed, waited for, and shut down, by any number of          *)
(* goroutines of the program.                                              *)
(*                                                                         *)
(* What the code does under f.lock is one step.  The goroutines of the     *)
(* informers, and the calls that wait (Shutdown on the WaitGroup,          *)
(* WaitForCacheSync on the informers) run outside of it.                   *)
(***************************************************************************)
EXTENDS Integers, FiniteSets

CONSTANTS Types,      \* the object types that have an informer
          Resources,  \* the resources a program asks for by name
          Channels,   \* the stop channels of the program
          Waiters,    \* the goroutines that call WaitForCacheSync
          Closers,    \* the goroutines that call Shutdown
          None        \* no channel, no informer

ASSUME FactoryAssumption ==
  /\ IsFiniteSet(Types) /\ Types \subseteq Resources
  /\ None \notin Types \cup Channels

VARIABLES
  informers,         \* f.informers: the types that have been asked for
  startedInformers,  \* f.startedInformers
  wg,                \* f.wg: goroutines started and not yet done
  shuttingDown,      \* f.shuttingDown
  run,               \* the goroutine of each informer
  stopOf,            \* the channel it was started with
  synced,            \* the informers whose HasSynced is true
  closed,            \* the channels that are closed
  blocked,           \* the closers that are in a call of Shutdown
  call,              \* the call of WaitForCacheSync each waiter is in
  down               \* history: a Shutdown has returned

factory == <<informers, startedInformers, shuttingDown>>
goroutines == <<wg, run, stopOf, synced>>
vars == <<factory, goroutines, closed, blocked, call, down>>

(* A call of WaitForCacheSync: the informers it has still to look at, the  *)
(* one it polls, the two halves of its result, and, as history, those that *)
(* had synced when it began.                                               *)
NoCall == [waiting |-> FALSE, stop |-> None, pending |-> {}, polling |-> None,
           ok |-> {}, failed |-> {}, ready |-> {}]
Call == [waiting : BOOLEAN, stop : Channels \cup {None},
         pending : SUBSET Types, polling : Types \cup {None},
         ok : SUBSET Types, failed : SUBSET Types, ready : SUBSET Types]

Alive == {"spawned", "running", "ending"}
Live  == {t \in Types : run[t] \in Alive}

TypeOK ==
  /\ informers \subseteq Types /\ startedInformers \subseteq informers
  /\ wg \in Nat
  /\ shuttingDown \in BOOLEAN
  /\ run \in [Types -> Alive \cup {"none", "done"}]
  /\ stopOf \in [Types -> Channels \cup {None}]
  /\ synced \subseteq startedInformers
  /\ closed \subseteq Channels
  /\ blocked \subseteq Closers
  /\ call \in [Waiters -> Call]
  /\ down \in BOOLEAN

Init ==
  /\ informers = {} /\ startedInformers = {} /\ wg = 0 /\ shuttingDown = FALSE
  /\ run = [t \in Types |-> "none"] /\ stopOf = [t \in Types |-> None]
  /\ synced = {} /\ closed = {} /\ blocked = {}
  /\ call = [w \in Waiters |-> NoCall]
  /\ down = FALSE
-----------------------------------------------------------------------------
(* The informer of a type, created by whoever asks first.                  *)
InformerFor(t) ==
  /\ informers' = informers \cup {t}
  /\ UNCHANGED <<startedInformers, shuttingDown, goroutines, closed, blocked, call, down>>

(* Informer and Lister of the typed accessors.                             *)
Informer(t) == InformerFor(t)

(* Access by name: a resource the group does not have is an error.         *)
ForResource(r) == r \in Types /\ Informer(r)

(* Mutant: all the goroutines run the loop variable, that is one informer. *)
SpawnLoopVariable(S, ch) ==
  /\ wg' = wg + Cardinality(S)
  /\ run' = [t \in Types |-> IF S # {} /\ t = CHOOSE last \in S : TRUE THEN "spawned" ELSE run[t]]
  /\ stopOf' = [t \in Types |-> IF t \in S THEN ch ELSE stopOf[t]]
  /\ startedInformers' = startedInformers \cup S
  /\ UNCHANGED <<informers, shuttingDown, synced, closed, blocked, call, down>>

(* Every informer that is known and not started gets a goroutine.          *)
Spawn(S, ch) ==
  /\ wg' = wg + Cardinality(S)
  /\ run' = [t \in Types |-> IF t \in S THEN "spawned" ELSE run[t]]
  /\ stopOf' = [t \in Types |-> IF t \in S THEN ch ELSE stopOf[t]]
  /\ startedInformers' = startedInformers \cup S
  /\ UNCHANGED <<informers, shuttingDown, synced, closed, blocked, call, down>>

(* Mutants: the flag of Shutdown is not looked at; an informer that has    *)
(* ended counts as not started.                                            *)
StartInShutdown(ch) == Spawn(informers \ startedInformers, ch)
StartEnded(ch) == ~shuttingDown /\ Spawn(informers \ Live, ch)

Start(ch) == ~shuttingDown /\ Spawn(informers \ startedInformers, ch)

Shutdown(c) ==
  /\ c \notin blocked
  /\ shuttingDown' = TRUE
  /\ blocked' = blocked \cup {c}
  /\ UNCHANGED <<informers, startedInformers, goroutines, closed, call, down>>

ShutdownReturns(c) ==
  /\ c \in blocked /\ wg = 0
  /\ blocked' = blocked \ {c}
  /\ down' = TRUE
  /\ UNCHANGED <<factory, goroutines, closed, call>>

(* The snapshot of the started informers, and then one informer after the  *)
(* other: polled until it has synced or the caller's channel is closed.    *)
WaitStep(w, next) ==
  /\ call' = [call EXCEPT ![w] = next]
  /\ UNCHANGED <<factory, goroutines, closed, blocked, down>>

(* Mutant: the snapshot takes the informers that were never started too.   *)
WaitForAll(w, ch) ==
  /\ ~call[w].waiting
  /\ WaitStep(w, [NoCall EXCEPT !.waiting = TRUE, !.stop = ch, !.ready = synced,
                                !.pending = informers])

WaitForCacheSync(w, ch) ==
  /\ ~call[w].waiting
  /\ WaitStep(w, [NoCall EXCEPT !.waiting = TRUE, !.stop = ch, !.ready = synced,
                                !.pending = startedInformers \cap informers])

(* Mutant: the first look at the informer comes after the first interval.  *)
WaitNextLater(w, t) ==
  /\ call[w].polling = None /\ t \in call[w].pending
  /\ WaitStep(w, [call[w] EXCEPT !.pending = @ \ {t}, !.polling = t])

WaitNext(w, t) ==
  /\ call[w].polling = None /\ t \in call[w].pending
  /\ LET rest == [call[w] EXCEPT !.pending = @ \ {t}] IN
       WaitStep(w, IF t \in synced THEN [rest EXCEPT !.ok = @ \cup {t}]
                   ELSE [rest EXCEPT !.polling = t])

PollSynced(w) ==
  /\ call[w].polling \in synced
  /\ WaitStep(w, [call[w] EXCEPT !.ok = @ \cup {call[w].polling}, !.polling = None])

PollStopped(w) ==
  /\ call[w].polling # None /\ call[w].stop \in closed
  /\ WaitStep(w, [call[w] EXCEPT !.failed = @ \cup {call[w].polling}, !.polling = None])

WaitReturns(w) ==
  /\ call[w].waiting /\ call[w].pending = {} /\ call[w].polling = None
  /\ WaitStep(w, NoCall)

(* The goroutine of an informer: Run, which does nothing when its channel  *)
(* is closed already, and then wg.Done.                                    *)
(* Mutants: the goroutine that finds its channel closed returns without    *)
(* wg.Done; it calls wg.Done once more.                                    *)
RunBeginsNoDone(t) ==
  /\ run[t] = "spawned"
  /\ run' = [run EXCEPT ![t] = IF stopOf[t] \in closed THEN "done" ELSE "running"]
  /\ UNCHANGED <<factory, wg, stopOf, synced, closed, blocked, call, down>>
RunBeginsDone(t) ==
  /\ run[t] = "spawned"
  /\ run' = [run EXCEPT ![t] = IF stopOf[t] \in closed THEN "ending" ELSE "running"]
  /\ wg' = IF stopOf[t] \in closed THEN wg - 1 ELSE wg
  /\ UNCHANGED <<factory, stopOf, synced, closed, blocked, call, down>>

RunBegins(t) ==
  /\ run[t] = "spawned"
  /\ run' = [run EXCEPT ![t] = IF stopOf[t] \in closed THEN "ending" ELSE "running"]
  /\ UNCHANGED <<factory, wg, stopOf, synced, closed, blocked, call, down>>

Sync(t) ==
  /\ run[t] = "running" /\ t \notin synced
  /\ synced' = synced \cup {t}
  /\ UNCHANGED <<factory, wg, run, stopOf, closed, blocked, call, down>>

RunEnds(t) ==
  /\ run[t] \in {"running", "ending"} /\ stopOf[t] \in closed
  /\ run' = [run EXCEPT ![t] = "done"]
  /\ wg' = wg - 1
  /\ UNCHANGED <<factory, stopOf, synced, closed, blocked, call, down>>

(* The program closes a stop channel (cancels its context).                *)
CloseChannel(ch) ==
  /\ ch \notin closed
  /\ closed' = closed \cup {ch}
  /\ UNCHANGED <<factory, goroutines, blocked, call, down>>

Goroutine(t) == RunBegins(t) \/ Sync(t) \/ RunEnds(t)
Polling(w) == (\E t \in Types : WaitNext(w, t)) \/ PollSynced(w) \/ PollStopped(w)
Waiting(w) == Polling(w) \/ WaitReturns(w)

Next ==
  \/ \E t \in Types : InformerFor(t) \/ Goroutine(t)
  \/ \E r \in Resources : ForResource(r)
  \/ \E ch \in Channels : Start(ch) \/ CloseChannel(ch)
  \/ \E c \in Closers : Shutdown(c) \/ ShutdownReturns(c)
  \/ \E w \in Waiters : Waiting(w) \/ \E ch \in Channels : WaitForCacheSync(w, ch)

Spec == Init /\ [][Next]_vars

(* Goroutines that can run do run, and an informer whose channel is open   *)
(* lists and syncs in the end.  Nobody has to close a channel, or to call. *)
Fairness ==
  /\ \A t \in Types : /\ WF_vars(RunBegins(t)) /\ WF_vars(RunEnds(t))
                      /\ WF_vars(stopOf[t] \notin closed /\ Sync(t))
  /\ \A c \in Closers : WF_vars(ShutdownReturns(c))
  /\ \A w \in Waiters : WF_vars(Waiting(w))

FairSpec == Spec /\ Fairness
-----------------------------------------------------------------------------
(* What the program sees of the factory: the life of each informer.        *)
life == [t \in Types |->
           IF t \notin informers THEN "unknown"
           ELSE IF t \notin startedInformers THEN "requested"
           ELSE IF run[t] \in Alive THEN "active" ELSE "stopped"]

Lifecycle == INSTANCE InformerLifecycle WITH closing <- shuttingDown, over <- down
RefinesLifecycle == Lifecycle!Spec

(***************************************************************************)
(* Shutdown is final: once a call of it has returned, whatever other calls *)
(* of Start and Shutdown were going on, no goroutine of an informer is     *)
(* left and none will be started.                                          *)
(***************************************************************************)
ShutdownIsFinal == down => Live = {}

(***************************************************************************)
(* What WaitForCacheSync returns is true: true for informers that have     *)
(* synced, among them all that had when it was called, even if their       *)
(* channel is closed since; false only when its own channel is closed.     *)
(***************************************************************************)
WaitSpeaksTrue ==
  [][\A w \in Waiters : call[w].waiting /\ ~call'[w].waiting =>
       /\ call[w].ready \subseteq call[w].ok /\ call[w].ok \subseteq synced
       /\ call[w].failed # {} => call[w].stop \in closed]_vars

(***************************************************************************)
(* "WaitForCacheSync blocks until all started informers' caches were       *)
(* synced or the stop channel gets closed", and no longer: it returns      *)
(* unless an informer it waits for has been stopped, over a channel of its *)
(* own, before it synced.                                                  *)
(***************************************************************************)
WaitsInVain(w) == /\ call[w].stop \notin closed
                  /\ \E t \in (call[w].pending \cup {call[w].polling}) \ synced :
                       t # None /\ stopOf[t] \in closed
WaitEnds == \A w \in Waiters : call[w].waiting ~> (~call[w].waiting \/ WaitsInVain(w))

(***************************************************************************)
(* "Shutdown blocks until all goroutines have terminated": it returns, to  *)
(* every caller, unless a channel that an informer was started with stays  *)
(* open.                                                                   *)
(***************************************************************************)
ShutdownEnds ==
  \A c \in Closers : c \in blocked ~> (c \notin blocked \/ \E t \in Live : stopOf[t] \notin closed)

(***************************************************************************)
(* Every informer that one of several calls of Start has started syncs,    *)
(* unless its channel is closed.                                           *)
(***************************************************************************)
StartedSyncs ==
  \A t \in Types : t \in startedInformers ~> (t \in synced \/ stopOf[t] \in closed)
=============================================================================
