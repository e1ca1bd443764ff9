-------------------------- MODULE FleetPluginProofs --------------------------
(***************************************************************************)
(* Proofs about the HTTP handler beside the refresh goroutine, for every   *)
(* fleet, any number of changes and faults, and any request.               *)
(***************************************************************************)
EXTENDS FleetPlugin, FleetSyncProofs

USE DEF handler, fleet, loop, lists, caches, history

(***************************************************************************)
(* Every step of the composition is a step of the goroutine or leaves it   *)
(* alone, so its invariant holds here too.                                 *)
(***************************************************************************)
THEOREM GoroutineInvariance == PluginSpec => []IInv
<1>1. PluginInit => Init
  BY DEF PluginInit
<1>2. [PluginNext]_pluginVars => [Next]_vars
  BY DEF PluginNext, RejectRequest, AcceptRequest, Handle, CheckFleet, LookupScope, RangeScope,
         RangeFleet, Answer, GoOn, pluginVars
<1>3. PluginSpec => Spec
  BY <1>1, <1>2, PTL DEF PluginSpec, Spec
<1> QED BY <1>3, Invariance, PTL
-----------------------------------------------------------------------------
(***************************************************************************)
(* What the handler knows where it is.  While a request is in hand the     *)
(* process serves, and what an atomic handler would reply now is possible; *)
(* once the scope was found, so is a reply with its clusters.              *)
(***************************************************************************)
Found200 == \E ok \in possible : ok.status = 200
HandlerInv ==
  /\ at # "none" => /\ serving /\ reply = Nil
                    /\ AtomicReply(memCache, scopeCache, scopeID) \in possible
  /\ at \in {"lookup", "range"} => scopeID # NoScope
  /\ at = "all" => scopeID = NoScope
  /\ at = "range" => Found200

PInv == PluginTypeOK /\ HandlerInv /\ RepliesAreAtomic /\ FleetNeverEmpty

(* The results of any clusters make a reply.                               *)
LEMMA FoundReply ==
  ASSUME NEW S \in SUBSET Memberships
  PROVE  Found(S) \in Reply /\ Found(S).status = 200
  BY DEF Found, Reply, Results

LEMMA OtherReplies == /\ Failed \in Reply /\ Failed.status = 500
                      /\ BadRequest \in Reply /\ BadRequest.status = 400
  BY DEF Failed, BadRequest, Reply, Results

(* The maps, when they are there, hold memberships.                        *)
MapsTyped(mc, sc) ==
  /\ mc # Nil => DOMAIN mc \in SUBSET Memberships
  /\ sc # Nil => \A k : ClustersOf(sc, k) \in SUBSET Memberships

LEMMA MapContents == /\ Typed => MapsTyped(memCache, scopeCache)
                     /\ Typed' => MapsTyped(memCache', scopeCache')
  BY DEF Typed, TypeOK, ClustersOf, MapsTyped

LEMMA AtomicReplyType ==
  ASSUME NEW mc, NEW sc, NEW k, MapsTyped(mc, sc)
  PROVE  AtomicReply(mc, sc, k) \in Reply
<1>1. CASE mc = Nil \/ sc = Nil
  BY <1>1, OtherReplies DEF AtomicReply
<1>2. CASE mc # Nil /\ sc # Nil /\ k = NoScope
  <2>1. AtomicReply(mc, sc, k) = Found(DOMAIN mc)
    BY <1>2 DEF AtomicReply
  <2> QED BY <1>2, <2>1, FoundReply DEF MapsTyped
<1>3. CASE mc # Nil /\ sc # Nil /\ k # NoScope /\ k \in DOMAIN sc
  <2>1. AtomicReply(mc, sc, k) = Found(ClustersOf(sc, k))
    BY <1>3 DEF AtomicReply, ClustersOf
  <2> QED BY <1>3, <2>1, FoundReply DEF MapsTyped
<1>4. CASE mc # Nil /\ sc # Nil /\ k # NoScope /\ k \notin DOMAIN sc
  BY <1>4, OtherReplies DEF AtomicReply
<1> QED BY <1>1, <1>2, <1>3, <1>4

LEMMA PInvInit == PluginInit => PInv
  BY DEF PluginInit, PInv, PluginTypeOK, HandlerInv, RepliesAreAtomic, FleetNeverEmpty, ScopeIDs

(* A step of the goroutine, or the end of its process.                     *)
LEMMA ProcessStep == PInv /\ Typed /\ Typed' /\ Next /\ FollowProcess => PInv'
<1> SUFFICES ASSUME PInv, Typed, Typed', Next, FollowProcess PROVE PInv'
  OBVIOUS
<1> DEFINE now == AtomicReply(memCache', scopeCache', scopeID)
<1>1. CASE serving /\ ~serving'
  BY <1>1 DEF FollowProcess, PInv, PluginTypeOK, HandlerInv, RepliesAreAtomic, FleetNeverEmpty, ScopeIDs
<1>2. CASE ~(serving /\ ~serving') /\ at = "none"
  <2>1. UNCHANGED <<at, scopeID, reply, possible>>
    BY <1>2 DEF FollowProcess
  <2> QED BY <1>2, <2>1 DEF PInv, PluginTypeOK, HandlerInv, RepliesAreAtomic, FleetNeverEmpty,
                           ScopeWasEmptied
<1>3. CASE ~(serving /\ ~serving') /\ at # "none"
  <2>1. UNCHANGED <<at, scopeID, reply>> /\ possible' = possible \cup {now}
    BY <1>3 DEF FollowProcess
  <2>2. now \in Reply
    BY MapContents, AtomicReplyType
  <2>3. PluginTypeOK' /\ FleetNeverEmpty' /\ RepliesAreAtomic'
    BY <1>3, <2>1, <2>2 DEF PInv, PluginTypeOK, HandlerInv, FleetNeverEmpty, RepliesAreAtomic
  <2>4. HandlerInv'
    BY <1>3, <2>1 DEF PInv, HandlerInv, Found200
  <2> QED BY <2>3, <2>4 DEF PInv
<1> QED BY <1>1, <1>2, <1>3

(* A step of the handler, under maps that stay as they are.                *)
LEMMA HandlerStep ==
  ASSUME PInv, Typed, RejectRequest \/ (\E k \in ScopeIDs : AcceptRequest(k)) \/ Handle
  PROVE  PInv'
<1> DEFINE now == AtomicReply(memCache, scopeCache, scopeID)
<1> USE DEF PInv, PluginTypeOK, HandlerInv, RepliesAreAtomic, FleetNeverEmpty
<1>0. serving => memCache # Nil /\ scopeCache # Nil
  BY DEF Typed, CachesReady, ServesWithTopology
<1>1. CASE RejectRequest
  BY <1>1, OtherReplies DEF RejectRequest, vars
<1>2. ASSUME NEW k \in ScopeIDs, AcceptRequest(k) PROVE PInv'
  <2>1. AtomicReply(memCache, scopeCache, k) \in Reply
    BY MapContents, AtomicReplyType
  <2> QED BY <1>2, <2>1 DEF AcceptRequest, vars
<1>3. CASE CheckFleet
  <2>1. GoOn(IF scopeID = NoScope THEN "all" ELSE "lookup")
    BY <1>0, <1>3 DEF CheckFleet
  <2> QED BY <1>3, <2>1 DEF CheckFleet, GoOn, vars
<1>4. CASE LookupScope /\ scopeID \notin DOMAIN scopeCache
  <2>1. Answer(Failed) /\ now = Failed
    BY <1>0, <1>4 DEF LookupScope, AtomicReply
  <2> QED BY <1>4, <2>1, OtherReplies DEF LookupScope, Answer, vars
<1>5. CASE LookupScope /\ scopeID \in DOMAIN scopeCache
  <2>1. GoOn("range") /\ now = Found(scopeCache[scopeID])
    BY <1>0, <1>5 DEF LookupScope, AtomicReply
  <2>2. now.status = 200
    BY <2>1 DEF Found
  <2> QED BY <1>5, <2>1, <2>2 DEF LookupScope, GoOn, Found200, vars
<1>6. CASE RangeScope
  <2>1. Answer(Found(ClustersOf(scopeCache, scopeID)))
    BY <1>6 DEF RangeScope
  <2>2. Found(ClustersOf(scopeCache, scopeID)) \in Reply /\ Found(ClustersOf(scopeCache, scopeID)).status = 200
    BY <1>0, <1>6, MapContents, FoundReply DEF RangeScope, MapsTyped
  <2>3. CASE scopeID \in DOMAIN scopeCache
    <3>1. now = Found(ClustersOf(scopeCache, scopeID))
      BY <1>0, <1>6, <2>3 DEF RangeScope, AtomicReply, ClustersOf
    <3> QED BY <1>6, <2>1, <2>2, <3>1 DEF RangeScope, Answer, vars
  <2>4. CASE scopeID \notin DOMAIN scopeCache
    <3>1. now = Failed /\ ClustersOf(scopeCache, scopeID) = {}
      BY <1>0, <1>6, <2>4 DEF RangeScope, AtomicReply, ClustersOf
    <3>2. ScopeWasEmptied
      BY <1>6, <3>1 DEF RangeScope, ScopeWasEmptied, Found200
    <3> QED BY <1>6, <2>1, <2>2, <3>1, <3>2 DEF RangeScope, Answer, ScopeWasEmptied, vars
  <2> QED BY <2>3, <2>4
<1>7. CASE RangeFleet
  <2>1. Answer(Found(DOMAIN memCache)) /\ now = Found(DOMAIN memCache)
    BY <1>0, <1>7 DEF RangeFleet, AtomicReply
  <2>2. Found(DOMAIN memCache) \in Reply /\ Found(DOMAIN memCache).status = 200
    BY <1>0, <1>7, MapContents, FoundReply DEF RangeFleet, MapsTyped
  <2> QED BY <1>7, <2>1, <2>2 DEF RangeFleet, Answer, vars
<1> QED BY <1>1, <1>2, <1>3, <1>4, <1>5, <1>6, <1>7 DEF Handle

THEOREM HandlerInvariance == PluginSpec => []PInv
<1>1. PInv /\ IInv /\ IInv' /\ [PluginNext]_pluginVars => PInv'
  <2> SUFFICES ASSUME PInv, IInv, IInv', [PluginNext]_pluginVars PROVE PInv'
    OBVIOUS
  <2>1. Typed /\ Typed'
    BY DEF IInv
  <2>2. CASE Next /\ FollowProcess
    BY <2>1, <2>2, ProcessStep
  <2>3. CASE RejectRequest \/ (\E k \in ScopeIDs : AcceptRequest(k)) \/ Handle
    BY <2>1, <2>3, HandlerStep
  <2>4. CASE UNCHANGED pluginVars
    BY <2>4 DEF pluginVars, vars, PInv, PluginTypeOK, HandlerInv, Found200, RepliesAreAtomic,
                ScopeWasEmptied, FleetNeverEmpty
  <2> QED BY <2>2, <2>3, <2>4 DEF PluginNext
<1> QED BY <1>1, PInvInit, GoroutineInvariance, PTL DEF PluginSpec

(* The types of the handler: every reply is one of the three it can write. *)
THEOREM HandlerTyping == PluginSpec => []PluginTypeOK
<1>1. PInv => PluginTypeOK
  BY DEF PInv
<1> QED BY <1>1, HandlerInvariance, PTL

(* A reply is what an atomic handler could have given, but for the empty   *)
(* list of a scope that lost its last cluster during the request.          *)
THEOREM AtomicReplies == PluginSpec => []RepliesAreAtomic
<1>1. PInv => RepliesAreAtomic
  BY DEF PInv
<1> QED BY <1>1, HandlerInvariance, PTL

(* "fleet is empty" is never the answer of a process that serves.          *)
THEOREM NeverEmpty == PluginSpec => []FleetNeverEmpty
<1>1. PInv => FleetNeverEmpty
  BY DEF PInv
<1> QED BY <1>1, HandlerInvariance, PTL
-----------------------------------------------------------------------------
(***************************************************************************)
(* An answer is read off the maps, so it says of a cluster what they say;  *)
(* the entries of the scopes that the listing put there under their full   *)
(* names stay empty, for bindings are entered under short IDs.             *)
(***************************************************************************)
MapShape ==
  scopeCache # Nil => \A k \in DOMAIN scopeCache : k.form = "name" => scopeCache[k] = {}

LEMMA MapShapeStep == MapShape /\ [Next]_vars => MapShape'
<1> SUFFICES ASSUME MapShape, [Next]_vars PROVE MapShape'
  OBVIOUS
<1> USE DEF MapShape
<1>1. CASE UNCHANGED scopeCache \/ scopeCache' = Nil
  BY <1>1
<1>2. CASE PublishScopes
  <2>1. scopeCache' = ScopeTenancyMap(scs, mbs)
    BY <1>2 DEF PublishScopes
  <2>2. ASSUME NEW k \in DOMAIN scopeCache', k.form = "name" PROVE scopeCache'[k] = {}
    BY <2>1, <2>2 DEF ScopeTenancyMap, ShortID
  <2> QED BY <2>2
<1>3. CASE FleetStep \/ WriteStep \/ BeginStep \/ ListStep \/ PublishMemberships \/ UNCHANGED vars
  BY <1>1, <1>3 DEF FleetStep, FleetChange, WriteStep, UserWrites, BeginStep, BeginRefresh, ListStep,
        ListMemberships, ListScopes, ListMembershipBindings, PublishMemberships, vars
<1>4. CASE LoopStep
  BY <1>1, <1>4, LoopFrame
<1>5. CASE ErrorStep
  BY <1>1, <1>5 DEF ErrorStep, Exit, RefreshError
<1> QED BY <1>2, <1>3, <1>4, <1>5, StepKinds

(* The clusters an answer lists are the ones it was made of.               *)
LEMMA ListedClusters ==
  ASSUME NEW S \in SUBSET Memberships, NEW m \in Memberships
  PROVE  Listed(m, Found(S)) <=> m \in S
<1>1. Manifest(SecretName(m)).server = ConnectGatewayURL(m.region, m.id)
  BY DEF Manifest, SecretName
<1>2. Listed(m, Found(S)) <=> ResultFromMembership(m) \in {ResultFromMembership(x) : x \in S}
  BY <1>1 DEF Listed, Found, ResultFromMembership
<1>3. ASSUME NEW x \in S, ResultFromMembership(m) = ResultFromMembership(x) PROVE m = x
  <2>1. SecretName(m) = SecretName(x)
    BY <1>3 DEF ResultFromMembership
  <2>2. m.id = x.id /\ m.region = x.region
    BY <2>1 DEF SecretName
  <2> QED BY <2>2, MembershipAssumption
<1> QED BY <1>2, <1>3

(* Only the two ranges give an answer with clusters, out of maps they      *)
(* leave alone.                                                            *)
LEMMA AnswersRange ==
  ASSUME [PluginNext]_pluginVars, reply' # reply, reply' # Nil, reply'.status = 200
  PROVE  RangeScope \/ RangeFleet
<1>1. ~(Next /\ FollowProcess) /\ ~UNCHANGED pluginVars
  BY DEF FollowProcess, pluginVars
<1>2. ~RejectRequest
  BY DEF RejectRequest, BadRequest
<1>3. ~(\E k \in ScopeIDs : AcceptRequest(k))
  BY DEF AcceptRequest
<1>4. ~CheckFleet /\ ~LookupScope
  BY DEF CheckFleet, LookupScope, Answer, GoOn, Failed
<1> QED BY <1>1, <1>2, <1>3, <1>4 DEF PluginNext, Handle

(***************************************************************************)
(* A generator's answer drawn from the maps of the refresh in progress has *)
(* what was in the fleet all the time of it and nothing that never was.    *)
(***************************************************************************)
THEOREM AnswersFollow == PluginSpec => AnswersFollowTheFleet
<1> DEFINE Follows == reply' # reply /\ reply' # Nil /\ reply'.status = 200 /\ pc \in Reconcile =>
                        \A m \in Memberships : /\ Asked(m, steady) => Listed(m, reply')
                                               /\ Listed(m, reply') => Asked(m, window)
<1>1. IInv /\ PInv /\ MapShape /\ [PluginNext]_pluginVars => [Follows]_pluginVars
  <2> SUFFICES ASSUME IInv, PInv, MapShape, [PluginNext]_pluginVars,
                      reply' # reply, reply' # Nil, reply'.status = 200, pc \in Reconcile,
                      NEW m \in Memberships
               PROVE  /\ Asked(m, steady) => Listed(m, reply')
                      /\ Listed(m, reply') => Asked(m, window)
    BY Zenon
  <2>1. Typed /\ TopologyIsCurrent
    BY DEF IInv, TopologyInv
  <2>2. serving /\ at # "none"
    BY AnswersRange DEF RangeScope, RangeFleet, PInv, HandlerInv
  <2>3. memCache # Nil /\ scopeCache # Nil
    BY <2>1, <2>2 DEF Typed, CachesReady, ServesWithTopology
  <2>4. CASE RangeFleet
    <3>1. reply' = Found(DOMAIN memCache) /\ scopeID = NoScope
      BY <2>4 DEF RangeFleet, Answer, PInv, HandlerInv
    <3>2. Listed(m, reply') <=> m \in DOMAIN memCache
      BY <2>1, <2>3, <3>1, MapContents, ListedClusters DEF MapsTyped
    <3> QED BY <2>1, <3>1, <3>2 DEF Asked, TopologyIsCurrent
  <2>5. CASE RangeScope
    <3> DEFINE C == ClustersOf(scopeCache, scopeID)
    <3>1. reply' = Found(C) /\ scopeID \in ScopeKeys
      BY <2>5 DEF RangeScope, Answer, PInv, PluginTypeOK, HandlerInv, ScopeIDs
    <3>2. scopeID # NoScope
      BY <2>5 DEF RangeScope, PInv, HandlerInv
    <3>3. Listed(m, reply') <=> m \in C
      BY <2>1, <2>3, <3>1, MapContents, ListedClusters DEF MapsTyped
    <3>4. CASE scopeID.form = "name"
      <4>1. C = {}
        BY <2>3, <3>4 DEF ClustersOf, MapShape
      <4> QED BY <3>2, <3>3, <3>4, <4>1 DEF Asked
    <3>5. CASE scopeID.form = "id"
      <4> DEFINE b == [membership |-> m, scope |-> scopeID.scope]
      <4>1. b \in Bindings /\ b.membership = m /\ ShortID(b.scope) = scopeID
        BY <3>1, <3>5 DEF Bindings, ShortID, ScopeKeys
      <4>2. m \in C <=> scopeID \in DOMAIN scopeCache /\ m \in scopeCache[scopeID]
        BY DEF ClustersOf
      <4>3. (b \in steady => m \in C) /\ (m \in C => b \in window)
        BY <2>1, <4>1, <4>2 DEF TopologyIsCurrent
      <4> QED BY <3>2, <3>3, <3>5, <4>3 DEF Asked
    <3> QED BY <3>1, <3>4, <3>5 DEF ScopeKeys
  <2> QED BY <2>4, <2>5, AnswersRange
<1>2. PluginInit => MapShape
  BY DEF PluginInit, Init, MapShape
<1>3. MapShape /\ [PluginNext]_pluginVars => MapShape'
  <2>1. [PluginNext]_pluginVars => [Next]_vars
    BY DEF PluginNext, RejectRequest, AcceptRequest, Handle, CheckFleet, LookupScope, RangeScope,
           RangeFleet, Answer, GoOn, pluginVars
  <2> QED BY <2>1, MapShapeStep
<1> QED BY <1>1, <1>2, <1>3, GoroutineInvariance, HandlerInvariance, PTL
        DEF PluginSpec, AnswersFollowTheFleet
=============================================================================
