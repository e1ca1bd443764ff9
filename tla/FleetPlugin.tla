----------------------------- MODULE FleetPlugin -----------------------------
(***************************************************************************)
(* The generator plugin that Argo CD's ApplicationSet controller calls:    *)
(* the HTTP handler Reply (fleet-argocd-plugin/main.go) and PluginResults  *)
(* (fleetclient.go), running next to the refresh goroutine of FleetSync.   *)
(*                                                                         *)
(* The handler reads the two tenancy maps without a lock, field by field,  *)
(* so each read of a field is a step and the goroutine may publish new     *)
(* maps between two of them.  A published map never changes, so one range  *)
(* over a map is one step.  Handlers write nothing that another one reads: *)
(* one request at a time stands for any number of them.                    *)
(***************************************************************************)
EXTENDS FleetSync

CONSTANT NoScope  \* the request has no scopeID: all clusters of the fleet

VARIABLES at,       \* where the handler is
          scopeID,  \* the scopeID of the request in hand, or of the last one
          reply,    \* the reply to it, Nil as long as there is none
          possible  \* history: what an atomic handler could have replied to it

handler == <<at, scopeID, reply, possible>>
pluginVars == <<vars, handler>>

(* The reply as the client sees it: the status, whether an error text was  *)
(* written, and the parameters of the JSON that was written (the empty set *)
(* for null), Nil if none was.                                             *)
ScopeIDs == ScopeKeys \cup {NoScope}
Results  == {ResultFromMembership(m) : m \in Memberships}
Reply    == [status : {200, 400, 500}, error : BOOLEAN, json : (SUBSET Results) \cup {Nil}]

BadRequest == [status |-> 400, error |-> TRUE, json |-> Nil]
(* Reply has no return after the 500: the JSON of no result follows it.    *)
Failed     == [status |-> 500, error |-> TRUE, json |-> {}]
(* Mutant: the bare names of the clusters are returned.                    *)
FoundNames(clusters) == [status |-> 200, error |-> FALSE, json |-> {SecretName(m) : m \in clusters}]

Found(clusters) == [status |-> 200, error |-> FALSE,
                 json |-> {ResultFromMembership(m) : m \in clusters}]

ClustersOf(sc, k) == IF k \in DOMAIN sc THEN sc[k] ELSE {}

PluginTypeOK ==
  /\ at \in {"none", "check", "lookup", "range", "all"}
  /\ scopeID \in ScopeIDs
  /\ reply \in Reply \cup {Nil}
  /\ possible \subseteq Reply

PluginInit ==
  /\ Init
  /\ at = "none" /\ scopeID = NoScope /\ reply = Nil /\ possible = {}

(* What PluginResults would return from one look at the two maps.          *)
AtomicReply(mc, sc, k) ==
  IF mc = Nil \/ sc = Nil THEN Failed
  ELSE IF k = NoScope THEN Found(DOMAIN mc)
  ELSE IF k \in DOMAIN sc THEN Found(sc[k])
  ELSE Failed
-----------------------------------------------------------------------------
(* A request that is no JSON, names no fleet project or names another one. *)
RejectRequest ==
  /\ serving /\ at = "none"
  /\ reply' = BadRequest
  /\ possible' = {BadRequest}
  /\ UNCHANGED <<vars, at, scopeID>>

AcceptRequest(k) ==
  /\ serving /\ at = "none"
  /\ at' = "check" /\ scopeID' = k /\ reply' = Nil
  /\ possible' = {AtomicReply(memCache, scopeCache, k)}
  /\ UNCHANGED vars

Answer(answer) ==
  /\ at' = "none" /\ reply' = answer
  /\ UNCHANGED <<vars, scopeID, possible>>

GoOn(to) == at' = to /\ UNCHANGED <<vars, scopeID, reply, possible>>

(* The two fields are nil until the first refresh and never again while    *)
(* the process lives, so the two reads of this check are one step.         *)
CheckFleet ==
  /\ at = "check"
  /\ IF memCache = Nil \/ scopeCache = Nil
       THEN Answer(Failed)
       ELSE GoOn(IF scopeID = NoScope THEN "all" ELSE "lookup")

(* The entry of the scope is looked up twice, here and in the range.       *)
LookupScope ==
  /\ at = "lookup"
  /\ IF scopeID \notin DOMAIN scopeCache THEN Answer(Failed) ELSE GoOn("range")

(* Mutants: the scope is looked for in the other map; clusters without a   *)
(* scope are left out.                                                     *)
RangeScopeByMembers ==
  /\ at = "range"
  /\ Answer(Found({m \in DOMAIN memCache : scopeID \in memCache[m]}))
RangeBoundFleet ==
  at = "all" /\ Answer(Found({m \in DOMAIN memCache : memCache[m] # {}}))

RangeScope == at = "range" /\ Answer(Found(ClustersOf(scopeCache, scopeID)))
RangeFleet == at = "all" /\ Answer(Found(DOMAIN memCache))

(* The handler dies with its process; otherwise it sees the new caches.    *)
FollowProcess ==
  IF serving /\ ~serving'
    THEN at' = "none" /\ scopeID' = NoScope /\ reply' = Nil /\ possible' = {}
    ELSE /\ possible' = IF at = "none" THEN possible
                        ELSE possible \cup {AtomicReply(memCache', scopeCache', scopeID)}
         /\ UNCHANGED <<at, scopeID, reply>>

Handle == CheckFleet \/ LookupScope \/ RangeScope \/ RangeFleet

PluginNext ==
  \/ Next /\ FollowProcess
  \/ RejectRequest
  \/ \E k \in ScopeIDs : AcceptRequest(k)
  \/ Handle

PluginSpec == PluginInit /\ [][PluginNext]_pluginVars
-----------------------------------------------------------------------------
(***************************************************************************)
(* Every reply is the one an atomic PluginResults would have given at some *)
(* moment of the request, with one exception: when the last cluster leaves *)
(* the scope during it, neither the clusters nor the error but an empty    *)
(* list may come back.                                                     *)
(***************************************************************************)
ScopeWasEmptied == Failed \in possible /\ \E ok \in possible : ok.status = 200
RepliesAreAtomic ==
  reply # Nil => reply \in possible \/ (reply = Found({}) /\ ScopeWasEmptied)

(***************************************************************************)
(* From end to end: a generator's answer drawn from the maps of the        *)
(* refresh in progress has every cluster that was registered (and bound to *)
(* the scope) all the time of that refresh, at the address of its own      *)
(* secret, and no cluster that was not there at any time of it.            *)
(***************************************************************************)
Asked(m, there) ==
  IF scopeID = NoScope THEN m \in there
  ELSE scopeID.form = "id" /\ [membership |-> m, scope |-> scopeID.scope] \in there
Listed(m, answer) ==
  [server |-> Manifest(SecretName(m)).server, name |-> SecretName(m), nameShort |-> m.id]
    \in answer.json
AnswersFollowTheFleet ==
  [][reply' # reply /\ reply' # Nil /\ reply'.status = 200 /\ pc \in Reconcile =>
       \A m \in Memberships : /\ Asked(m, steady) => Listed(m, reply')
                              /\ Listed(m, reply') => Asked(m, window)]_pluginVars

(***************************************************************************)
(* A process that serves never answers "fleet is empty": only an unknown   *)
(* scope makes it fail, also when refreshes fail and processes restart.    *)
(***************************************************************************)
FleetNeverEmpty ==
  reply # Nil /\ reply.status = 500 => scopeID # NoScope

(***************************************************************************)
(* "unknown scope ID to the Fleet plugin": a scope ID the plugin does not  *)
(* know, none of whose bindings is left, is an error and not an empty list *)
(* (which makes the controller remove the applications of the scope).      *)
(***************************************************************************)
UnknownScopeRefused ==
  reply # Nil /\ reply.status = 200 /\ scopeID \in ScopeKeys /\ scopeID.form = "id"
    => reply.json # {}
=============================================================================
