--------------------- MODULE SharedInformerFactoryProofs ---------------------
(***************************************************************************)
(* Proofs about the shared informer factory, for any number of types,      *)
(* stop channels and callers.                                              *)
(***************************************************************************)
EXTENDS SharedInformerFactory, FiniteSetTheorems, TLAPS

USE DEF factory, goroutines

(***************************************************************************)
(* The inductive invariant.  CountInv: the WaitGroup counts the goroutines *)
(* that are alive, and exactly the started informers have had one.         *)
(* DownInv: a Shutdown that has returned saw the flag set and the count at *)
(* zero, and neither comes back.  WaitInv: what a waiter has found out so  *)
(* far is true, and of what had synced when it began nothing is polled.    *)
(***************************************************************************)
CountInv ==
  /\ wg = Cardinality(Live)
  /\ \A t \in Types : run[t] = "none" <=> t \notin startedInformers

DownInv == /\ blocked # {} => shuttingDown
           /\ down => shuttingDown /\ Live = {}

WaitInv ==
  \A w \in Waiters :
    /\ call[w].ready \subseteq synced /\ call[w].ok \subseteq synced
    /\ call[w].ready \subseteq call[w].pending \cup call[w].ok
    /\ call[w].failed # {} => call[w].stop \in closed

IInv == TypeOK /\ CountInv /\ DownInv /\ WaitInv

LEMMA TypesFinite == \A S \in SUBSET Types : IsFiniteSet(S) /\ Cardinality(S) \in Nat
  BY FactoryAssumption, FS_Subset, FS_CardinalityType

LEMMA NoCallType ==
  /\ NoCall \in Call
  /\ NoCall.ready = {} /\ NoCall.ok = {} /\ NoCall.failed = {} /\ NoCall.pending = {}
  BY DEF NoCall, Call

(* A call of WaitForCacheSync writes nothing but its own record.           *)
LEMMA WaiterStep ==
  ASSUME NEW w \in Waiters, Waiting(w) \/ \E ch \in Channels : WaitForCacheSync(w, ch)
  PROVE  UNCHANGED <<factory, goroutines, closed, blocked, down>>
  BY DEF Waiting, Polling, WaitForCacheSync, WaitNext, PollSynced, PollStopped, WaitReturns, WaitStep

LEMMA LiveSame == run' = run => Live' = Live
  BY DEF Live

LEMMA InitInv == Init => IInv
<1> SUFFICES ASSUME Init PROVE IInv
  OBVIOUS
<1>1. TypeOK
  BY NoCallType DEF Init, TypeOK
<1>2. Live = {}
  BY DEF Init, Live, Alive
<1>3. CountInv
  BY <1>2, FS_EmptySet DEF Init, CountInv
<1>4. DownInv /\ WaitInv
  BY NoCallType DEF Init, DownInv, WaitInv
<1> QED BY <1>1, <1>3, <1>4 DEF IInv

(***************************************************************************)
(* The steps that change goroutines: what they do to those alive.          *)
(***************************************************************************)
LEMMA StartLive ==
  ASSUME IInv, NEW ch \in Channels, Start(ch)
  PROVE  LET S == informers \ startedInformers IN
         /\ S \subseteq Types /\ Live' = Live \cup S /\ Live \cap S = {}
         /\ Cardinality(Live') = Cardinality(Live) + Cardinality(S)
<1> DEFINE S == informers \ startedInformers
<1>1. S \subseteq Types /\ Live \subseteq Types
  BY DEF IInv, TypeOK, Live
<1>2. \A t \in S : run[t] = "none"
  BY <1>1 DEF IInv, CountInv
<1>3. Live \cap S = {}
  BY <1>2 DEF Live, Alive
<1>4. run' = [t \in Types |-> IF t \in S THEN "spawned" ELSE run[t]]
  BY DEF Start, Spawn
<1>5. Live' = Live \cup S
  BY <1>1, <1>4 DEF Live, Alive, IInv, TypeOK
<1>6. IsFiniteSet(Live) /\ IsFiniteSet(S) /\ Cardinality(Live) \in Nat /\ Cardinality(S) \in Nat
  BY <1>1, TypesFinite
<1>7. Cardinality(Live \cup S) = Cardinality(Live) + Cardinality(S) - Cardinality(Live \cap S)
  BY <1>6, FS_Union
<1>8. Cardinality(Live \cap S) = 0
  BY <1>3, FS_EmptySet
<1> HIDE DEF S
<1>9. Cardinality(Live') = Cardinality(Live) + Cardinality(S)
  BY <1>5, <1>6, <1>7, <1>8
<1> QED BY <1>1, <1>3, <1>5, <1>9 DEF S

LEMMA BeginLive ==
  ASSUME IInv, NEW t \in Types, RunBegins(t) \/ Sync(t)
  PROVE  Live' = Live
  BY DEF IInv, TypeOK, RunBegins, Sync, Live, Alive

LEMMA EndLive ==
  ASSUME IInv, NEW t \in Types, RunEnds(t)
  PROVE  /\ Live' = Live \ {t} /\ t \in Live
         /\ wg \in Nat \ {0} /\ Cardinality(Live') = Cardinality(Live) - 1
<1>1. Live' = Live \ {t} /\ t \in Live
  BY DEF IInv, TypeOK, RunEnds, Live, Alive
<1>2. IsFiniteSet(Live)
  BY TypesFinite DEF Live
<1>3. Cardinality(Live') = Cardinality(Live) - 1
  BY <1>1, <1>2, FS_RemoveElement
<1>4. Cardinality(Live) # 0
  BY <1>1, <1>2, FS_EmptySet
<1>5. wg \in Nat \ {0}
  BY <1>4 DEF IInv, TypeOK, CountInv
<1> QED BY <1>1, <1>3, <1>5

LEMMA TypeStep == IInv /\ [Next]_vars => TypeOK'
<1> SUFFICES ASSUME IInv, [Next]_vars PROVE TypeOK'
  OBVIOUS
<1> USE DEF IInv
<1>1. ASSUME NEW t \in Types, InformerFor(t) PROVE TypeOK'
  BY <1>1 DEF InformerFor, TypeOK
<1>2. ASSUME NEW ch \in Channels, Start(ch) PROVE TypeOK'
  <2> DEFINE S == informers \ startedInformers
  <2>1. S \subseteq Types /\ Cardinality(S) \in Nat
    BY <1>2, StartLive, TypesFinite
  <2>2. wg' = wg + Cardinality(S) /\ startedInformers' = startedInformers \cup S
    BY <1>2 DEF Start, Spawn
  <2>3. wg' \in Nat
    BY <2>1, <2>2 DEF TypeOK
  <2>4. startedInformers' \subseteq informers' /\ synced' \subseteq startedInformers'
    BY <1>2, <2>2 DEF Start, Spawn, TypeOK
  <2>5. run' \in [Types -> Alive \cup {"none", "done"}] /\ stopOf' \in [Types -> Channels \cup {None}]
    BY <1>2 DEF Start, Spawn, TypeOK, Alive
  <2> QED BY <1>2, <2>3, <2>4, <2>5 DEF Start, Spawn, TypeOK
<1>3. ASSUME NEW c \in Closers, Shutdown(c) \/ ShutdownReturns(c) PROVE TypeOK'
  BY <1>3 DEF Shutdown, ShutdownReturns, TypeOK
<1>4. ASSUME NEW w \in Waiters, Waiting(w) \/ \E ch \in Channels : WaitForCacheSync(w, ch) PROVE TypeOK'
  <2>1. call[w] \in Call /\ startedInformers \cap informers \subseteq Types /\ synced \subseteq Types
    BY DEF TypeOK
  <2>2. \E next \in Call : call' = [call EXCEPT ![w] = next]
    <3>1. CASE \E ch \in Channels : WaitForCacheSync(w, ch)
      BY <3>1, <2>1 DEF WaitForCacheSync, WaitStep, NoCall, Call
    <3>2. CASE \E t \in Types : WaitNext(w, t)
      BY <3>2, <2>1 DEF WaitNext, WaitStep, Call
    <3>3. CASE PollSynced(w)
      BY <3>3, <2>1 DEF PollSynced, WaitStep, Call
    <3>4. CASE PollStopped(w)
      BY <3>4, <2>1, FactoryAssumption DEF PollStopped, WaitStep, Call
    <3>5. CASE WaitReturns(w)
      BY <3>5, NoCallType DEF WaitReturns, WaitStep
    <3> QED BY <1>4, <3>1, <3>2, <3>3, <3>4, <3>5 DEF Waiting, Polling
  <2> QED BY <1>4, <2>2, WaiterStep DEF TypeOK
<1>5. ASSUME NEW t \in Types, RunBegins(t) PROVE TypeOK'
  BY <1>5 DEF RunBegins, TypeOK, Alive
<1>6. ASSUME NEW t \in Types, Sync(t) PROVE TypeOK'
  BY <1>6 DEF Sync, TypeOK, CountInv, Alive
<1>7. ASSUME NEW t \in Types, RunEnds(t) PROVE TypeOK'
  <2>1. wg' \in Nat
    <3>1. wg \in Nat \ {0}
      BY <1>7, EndLive
    <3>2. wg' = wg - 1
      BY <1>7 DEF RunEnds
    <3> QED BY <3>1, <3>2
  <2> QED BY <1>7, <2>1 DEF RunEnds, TypeOK, Alive
<1>8. ASSUME NEW ch \in Channels, CloseChannel(ch) PROVE TypeOK'
  BY <1>8 DEF CloseChannel, TypeOK
<1>9. CASE UNCHANGED vars
  BY <1>9 DEF vars, TypeOK
<1> QED BY <1>1, <1>2, <1>3, <1>4, <1>5, <1>6, <1>7, <1>8, <1>9 DEF Next, Goroutine, ForResource, Informer

LEMMA CountStep == IInv /\ [Next]_vars => CountInv'
<1> SUFFICES ASSUME IInv, [Next]_vars PROVE CountInv'
  OBVIOUS
<1> USE DEF CountInv
<1>1. ASSUME NEW ch \in Channels, Start(ch) PROVE CountInv'
  <2>1. wg' = Cardinality(Live')
    BY <1>1, StartLive DEF Start, Spawn, IInv
  <2>2. \A t \in Types : (run[t] = "none" <=> t \notin startedInformers)'
    BY <1>1 DEF Start, Spawn, IInv, TypeOK
  <2> QED BY <2>1, <2>2
<1>2. ASSUME NEW t \in Types, RunBegins(t) \/ Sync(t) PROVE CountInv'
  <2>1. Live' = Live
    BY <1>2, BeginLive
  <2> QED BY <1>2, <2>1 DEF RunBegins, Sync, IInv, TypeOK
<1>3. ASSUME NEW t \in Types, RunEnds(t) PROVE CountInv'
  <2>1. wg' = Cardinality(Live')
    BY <1>3, EndLive DEF RunEnds, IInv
  <2> QED BY <1>3, <2>1 DEF RunEnds, IInv, TypeOK
<1>4. ASSUME UNCHANGED <<wg, run, startedInformers>> PROVE CountInv'
  BY <1>4, LiveSame DEF IInv
<1>5. ASSUME NEW w \in Waiters, Waiting(w) \/ \E ch \in Channels : WaitForCacheSync(w, ch) PROVE CountInv'
  BY <1>4, <1>5, WaiterStep
<1>6. ASSUME NEW c \in Closers, Shutdown(c) \/ ShutdownReturns(c) PROVE CountInv'
  BY <1>4, <1>6 DEF Shutdown, ShutdownReturns
<1>7. ASSUME NEW t \in Types, InformerFor(t) PROVE CountInv'
  BY <1>4, <1>7 DEF InformerFor
<1>8. ASSUME NEW ch \in Channels, CloseChannel(ch) PROVE CountInv'
  BY <1>4, <1>8 DEF CloseChannel
<1>9. CASE UNCHANGED vars
  BY <1>4, <1>9 DEF vars
<1> QED BY <1>1, <1>2, <1>3, <1>5, <1>6, <1>7, <1>8, <1>9 DEF Next, Goroutine, ForResource, Informer

LEMMA DownStep == IInv /\ [Next]_vars => DownInv'
<1> SUFFICES ASSUME IInv, [Next]_vars PROVE DownInv'
  OBVIOUS
<1> USE DEF DownInv
<1>1. ASSUME NEW ch \in Channels, Start(ch) PROVE DownInv'
  BY <1>1 DEF Start, Spawn, IInv
<1>2. ASSUME NEW t \in Types, RunBegins(t) \/ Sync(t) PROVE DownInv'
  <2>1. Live' = Live
    BY <1>2, BeginLive
  <2> QED BY <1>2, <2>1 DEF RunBegins, Sync, IInv
<1>3. ASSUME NEW t \in Types, RunEnds(t) PROVE DownInv'
  BY <1>3, EndLive DEF RunEnds, IInv
<1>4. ASSUME NEW c \in Closers, ShutdownReturns(c) PROVE DownInv'
  <2>1. Cardinality(Live) = 0 /\ shuttingDown
    BY <1>4 DEF ShutdownReturns, IInv, CountInv
  <2>2. Live = {}
    <3>1. IsFiniteSet(Live)
      BY TypesFinite DEF Live
    <3> QED BY <2>1, <3>1, FS_EmptySet
  <2> QED BY <1>4, <2>1, <2>2, LiveSame DEF ShutdownReturns
<1>5. ASSUME NEW c \in Closers, Shutdown(c) PROVE DownInv'
  BY <1>5, LiveSame DEF Shutdown, IInv
<1>6. ASSUME UNCHANGED <<run, shuttingDown, blocked, down>> PROVE DownInv'
  BY <1>6, LiveSame DEF IInv
<1>7. ASSUME NEW w \in Waiters, Waiting(w) \/ \E ch \in Channels : WaitForCacheSync(w, ch) PROVE DownInv'
  BY <1>6, <1>7, WaiterStep
<1>8. ASSUME NEW t \in Types, InformerFor(t) PROVE DownInv'
  BY <1>6, <1>8 DEF InformerFor
<1>9. ASSUME NEW ch \in Channels, CloseChannel(ch) PROVE DownInv'
  BY <1>6, <1>9 DEF CloseChannel
<1>10. CASE UNCHANGED vars
  BY <1>6, <1>10 DEF vars
<1> QED BY <1>1, <1>2, <1>3, <1>4, <1>5, <1>7, <1>8, <1>9, <1>10 DEF Next, Goroutine, ForResource, Informer

LEMMA WaitInvStep == IInv /\ [Next]_vars => WaitInv'
<1> SUFFICES ASSUME IInv, [Next]_vars PROVE WaitInv'
  OBVIOUS
<1> USE DEF WaitInv
<1>1. ASSUME NEW w \in Waiters, Waiting(w) \/ \E ch \in Channels : WaitForCacheSync(w, ch) PROVE WaitInv'
  <2> SUFFICES ASSUME NEW v \in Waiters
               PROVE  /\ call'[v].ready \subseteq synced /\ call'[v].ok \subseteq synced
                      /\ call'[v].ready \subseteq call'[v].pending \cup call'[v].ok
                      /\ call'[v].failed # {} => call'[v].stop \in closed
    BY <1>1, WaiterStep
  <2>1. call \in [Waiters -> Call] /\ call[w] \in Call /\ synced \subseteq startedInformers \cap informers
    BY DEF IInv, TypeOK
  <2>2. CASE v # w
    <3>1. call'[v] = call[v]
      BY <1>1, <2>1, <2>2 DEF Waiting, Polling, WaitForCacheSync, WaitNext, PollSynced, PollStopped,
                              WaitReturns, WaitStep
    <3> QED BY <3>1 DEF IInv
  <2>3. CASE v = w
    <3> USE <2>1, <2>3 DEF IInv, Call
    <3>1. CASE \E ch \in Channels : WaitForCacheSync(w, ch)
      BY <3>1 DEF WaitForCacheSync, WaitStep, NoCall
    <3>2. CASE \E t \in Types : WaitNext(w, t)
      BY <3>2 DEF WaitNext, WaitStep
    <3>3. CASE PollSynced(w)
      BY <3>3 DEF PollSynced, WaitStep
    <3>4. CASE PollStopped(w)
      BY <3>4 DEF PollStopped, WaitStep
    <3>5. CASE WaitReturns(w)
      BY <3>5, NoCallType DEF WaitReturns, WaitStep
    <3> QED BY <1>1, <3>1, <3>2, <3>3, <3>4, <3>5 DEF Waiting, Polling
  <2> QED BY <2>2, <2>3
<1>2. ASSUME call' = call, synced \subseteq synced', closed \subseteq closed' PROVE WaitInv'
  BY <1>2 DEF IInv
<1>3. ASSUME NEW t \in Types, InformerFor(t) \/ Goroutine(t) PROVE WaitInv'
  BY <1>2, <1>3 DEF InformerFor, Goroutine, RunBegins, Sync, RunEnds
<1>4. ASSUME NEW ch \in Channels, Start(ch) \/ CloseChannel(ch) PROVE WaitInv'
  BY <1>2, <1>4 DEF Start, Spawn, CloseChannel
<1>5. ASSUME NEW c \in Closers, Shutdown(c) \/ ShutdownReturns(c) PROVE WaitInv'
  BY <1>2, <1>5 DEF Shutdown, ShutdownReturns
<1>6. CASE UNCHANGED vars
  BY <1>2, <1>6 DEF vars
<1> QED BY <1>1, <1>3, <1>4, <1>5, <1>6 DEF Next, ForResource, Informer

LEMMA Inductive == Spec => []IInv
<1>1. IInv /\ [Next]_vars => IInv'
  BY TypeStep, CountStep, DownStep, WaitInvStep DEF IInv
<1> QED BY InitInv, <1>1, PTL DEF Spec

(***************************************************************************)
(* Type correctness; that wg stays a natural number says that no goroutine *)
(* calls wg.Done once too often, which would panic.                        *)
(***************************************************************************)
THEOREM TypeCorrect == Spec => []TypeOK
<1>1. IInv => TypeOK
  BY DEF IInv
<1> QED BY Inductive, <1>1, PTL

(***************************************************************************)
(* Once a Shutdown has returned, nothing is running.                       *)
(***************************************************************************)
THEOREM ShutdownFinal == Spec => []ShutdownIsFinal
<1>1. IInv => ShutdownIsFinal
  BY DEF IInv, DownInv, ShutdownIsFinal
<1> QED BY Inductive, <1>1, PTL

(***************************************************************************)
(* What WaitForCacheSync returns is true.                                  *)
(***************************************************************************)
THEOREM WaitTrue == Spec => WaitSpeaksTrue
<1> DEFINE Returns(w) ==
      call[w].waiting /\ ~call'[w].waiting =>
        /\ call[w].ready \subseteq call[w].ok /\ call[w].ok \subseteq synced
        /\ call[w].failed # {} => call[w].stop \in closed
<1>1. IInv /\ [Next]_vars => \A w \in Waiters : Returns(w)
  <2> SUFFICES ASSUME IInv, [Next]_vars, NEW w \in Waiters, call[w].waiting, ~call'[w].waiting
               PROVE  /\ call[w].ready \subseteq call[w].ok /\ call[w].ok \subseteq synced
                      /\ call[w].failed # {} => call[w].stop \in closed
    OBVIOUS
  <2>1. call \in [Waiters -> Call] /\ call[w] \in Call
    BY DEF IInv, TypeOK
  <2>2. WaitReturns(w)
    <3>1. call' # call
      OBVIOUS
    <3>2. PICK v \in Waiters : Waiting(v) \/ \E ch \in Channels : WaitForCacheSync(v, ch)
      BY <3>1 DEF Next, vars, ForResource, Informer, InformerFor, Goroutine, RunBegins, Sync, RunEnds,
                  Start, Spawn, CloseChannel, Shutdown, ShutdownReturns
    <3>3. v = w
      BY <2>1, <3>2 DEF Waiting, Polling, WaitForCacheSync, WaitNext, PollSynced, PollStopped,
                        WaitReturns, WaitStep
    <3>4. ~\E ch \in Channels : WaitForCacheSync(w, ch)
      BY DEF WaitForCacheSync
    <3>5. ~Polling(w)
      <4>1. ~\E t \in Types : WaitNext(w, t)
        <5> SUFFICES ASSUME NEW t \in Types, WaitNext(w, t) PROVE FALSE
          OBVIOUS
        <5> DEFINE rest == [call[w] EXCEPT !.pending = @ \ {t}]
        <5>1. rest \in Call /\ rest.waiting
          BY <2>1 DEF Call
        <5>2. call'[w] = IF t \in synced THEN [rest EXCEPT !.ok = @ \cup {t}] ELSE [rest EXCEPT !.polling = t]
          BY <2>1 DEF WaitNext, WaitStep
        <5> HIDE DEF rest
        <5>3. call'[w].waiting
          BY <5>1, <5>2 DEF Call
        <5> QED BY <5>3
      <4>2. ~PollSynced(w)
        BY <2>1 DEF PollSynced, WaitStep, Call
      <4>3. ~PollStopped(w)
        BY <2>1 DEF PollStopped, WaitStep, Call
      <4> QED BY <4>1, <4>2, <4>3 DEF Polling
    <3> QED BY <3>2, <3>3, <3>4, <3>5 DEF Waiting
  <2> QED BY <2>2 DEF WaitReturns, IInv, WaitInv
<1>2. IInv /\ [Next]_vars => [\A w \in Waiters : Returns(w)]_vars
  BY <1>1
<1>3. Spec => [][\A w \in Waiters : Returns(w)]_vars
  BY Inductive, <1>2, PTL DEF Spec
<1> QED BY <1>3 DEF WaitSpeaksTrue

(***************************************************************************)
(* The factory implements the life cycle that its interface promises:      *)
(* every step is a step of InformerLifecycle or changes nothing there.     *)
(***************************************************************************)
LEMMA LifeInit == Init => Lifecycle!Init
  BY DEF Init, Lifecycle!Init, life

LEMMA LifeStep ==
  ASSUME IInv, [Next]_vars
  PROVE  [Lifecycle!Next]_(Lifecycle!lifecycleVars)
<1> USE DEF Lifecycle!lifecycleVars
<1>0. /\ run \in [Types -> Alive \cup {"none", "done"}] /\ startedInformers \subseteq informers
      /\ \A t \in Types : run[t] = "none" <=> t \notin startedInformers
  BY DEF IInv, TypeOK, CountInv
<1>1. ASSUME UNCHANGED <<informers, startedInformers, run>> PROVE life' = life
  BY <1>1 DEF life
<1>2. ASSUME NEW t \in Types, InformerFor(t) PROVE [Lifecycle!Next]_(Lifecycle!lifecycleVars)
  <2>1. CASE t \in informers
    <3>1. informers' = informers
      BY <1>2, <2>1 DEF InformerFor
    <3> QED BY <1>1, <1>2, <3>1 DEF InformerFor
  <2>2. CASE t \notin informers
    <3>1. Lifecycle!Request(t)
      BY <1>0, <1>2, <2>2 DEF InformerFor, Lifecycle!Request, life
    <3> QED BY <3>1 DEF Lifecycle!Next
  <2> QED BY <2>1, <2>2
<1>3. ASSUME NEW ch \in Channels, Start(ch) PROVE [Lifecycle!Next]_(Lifecycle!lifecycleVars)
  <2>1. life' = [t \in Types |-> IF life[t] = "requested" THEN "active" ELSE life[t]]
    BY <1>0, <1>3 DEF Start, Spawn, life, Alive
  <2>2. Lifecycle!Activate
    BY <1>3, <2>1 DEF Start, Spawn, Lifecycle!Activate
  <2> QED BY <2>2 DEF Lifecycle!Next
<1>4. ASSUME NEW t \in Types, RunBegins(t) \/ Sync(t) PROVE [Lifecycle!Next]_(Lifecycle!lifecycleVars)
  <2>1. life' = life
    BY <1>0, <1>4 DEF RunBegins, Sync, life, Alive
  <2> QED BY <1>4, <2>1 DEF RunBegins, Sync
<1>5. ASSUME NEW t \in Types, RunEnds(t) PROVE [Lifecycle!Next]_(Lifecycle!lifecycleVars)
  <2>1. Lifecycle!Stop(t)
    BY <1>0, <1>5 DEF RunEnds, life, Alive, Lifecycle!Stop
  <2> QED BY <2>1 DEF Lifecycle!Next
<1>6. ASSUME NEW c \in Closers, Shutdown(c) PROVE [Lifecycle!Next]_(Lifecycle!lifecycleVars)
  <2>1. Lifecycle!Close
    BY <1>1, <1>6 DEF Shutdown, Lifecycle!Close
  <2> QED BY <2>1 DEF Lifecycle!Next
<1>7. ASSUME NEW c \in Closers, ShutdownReturns(c) PROVE [Lifecycle!Next]_(Lifecycle!lifecycleVars)
  <2>1. Cardinality(Live) = 0 /\ shuttingDown
    BY <1>7 DEF ShutdownReturns, IInv, CountInv, DownInv
  <2>2. Live = {}
    <3>1. IsFiniteSet(Live)
      BY TypesFinite DEF Live
    <3> QED BY <2>1, <3>1, FS_EmptySet
  <2>3. \A t \in Types : life[t] # "active"
    BY <2>2 DEF Live, life
  <2>4. Lifecycle!Finish
    BY <1>1, <1>7, <2>1, <2>3 DEF ShutdownReturns, Lifecycle!Finish
  <2> QED BY <2>4 DEF Lifecycle!Next
<1>8. ASSUME NEW w \in Waiters, Waiting(w) \/ \E ch \in Channels : WaitForCacheSync(w, ch)
      PROVE [Lifecycle!Next]_(Lifecycle!lifecycleVars)
  BY <1>1, <1>8, WaiterStep
<1>9. ASSUME NEW ch \in Channels, CloseChannel(ch) PROVE [Lifecycle!Next]_(Lifecycle!lifecycleVars)
  BY <1>1, <1>9 DEF CloseChannel
<1>10. CASE UNCHANGED vars
  BY <1>1, <1>10 DEF vars
<1> QED BY <1>2, <1>3, <1>4, <1>5, <1>6, <1>7, <1>8, <1>9, <1>10 DEF Next, Goroutine, ForResource, Informer

THEOREM ImplementsLifecycle == Spec => RefinesLifecycle
<1>1. IInv /\ [Next]_vars => [Lifecycle!Next]_(Lifecycle!lifecycleVars)
  BY LifeStep
<1> QED BY Inductive, LifeInit, <1>1, PTL DEF Spec, RefinesLifecycle, Lifecycle!Spec
=============================================================================
