----------------------------- MODULE FleetMirror -----------------------------
(***************************************************************************)
(* What the fleet plugin promises to the users of the argocd namespace,    *)
(* without the pages of the listings, the loops, the calls and their       *)
(* failures.  A refresh reads the fleet, at one moment as it seems: what   *)
(* it has read is what was registered all the time, and nothing that       *)
(* never was.  It goes by that, and by nothing else, for as long as it     *)
(* lasts: first the secret of each cluster it read is put in place, then   *)
(* the cluster secrets of the plugin that no cluster asks for are removed. *)
(* It may end at any time.                                                 *)
(***************************************************************************)
EXTENDS FleetTopology

CONSTANT NoSecret

VARIABLES
  registered,    \* the memberships and bindings of the fleet
  secrets,       \* the Secrets of the argocd namespace, by name
  phase,         \* "writing" if a refresh has read the fleet, else "reading"
  view,          \* what it has read, {} before that
  always, ever,  \* registered all the time, and at some time, since it began
  edited,        \* names of the secrets that users have written since it began
  userSteps      \* how often users have changed fleet or secrets

mirrorVars == <<registered, secrets, phase, view, always, ever, edited, userSteps>>

Init ==
  /\ registered \subseteq Memberships \cup Bindings
  /\ secrets \in [SecretNames -> Secret \cup {NoSecret}]
  /\ phase = "reading" /\ view = {}
  /\ always = {} /\ ever = {} /\ edited = {} /\ userSteps = 0

UsersChangeFleet ==
  /\ registered' \subseteq Memberships \cup Bindings
  /\ always' = always \cap registered' /\ ever' = ever \cup registered'
  /\ userSteps' = userSteps + 1
  /\ UNCHANGED <<secrets, phase, view, edited>>

UserWrites(n) ==
  /\ \E s \in Secret \cup {NoSecret} : secrets' = [secrets EXCEPT ![n] = s]
  /\ edited' = edited \cup {n}
  /\ userSteps' = userSteps + 1
  /\ UNCHANGED <<registered, phase, view, always, ever>>

Begin ==
  /\ phase = "reading"
  /\ always' = registered /\ ever' = registered /\ edited' = {}
  /\ UNCHANGED <<registered, secrets, phase, view, userSteps>>

(* A cluster with a binding is read even if it was not listed itself.      *)
Read ==
  /\ phase = "reading" /\ phase' = "writing"
  /\ always \subseteq view' /\ view' \subseteq ever
  /\ \A b \in view' \cap Bindings : b.membership \in view'
  /\ UNCHANGED <<registered, secrets, always, ever, edited, userSteps>>

Wanted == {SecretName(m) : m \in view \cap Memberships}
Over == phase' = "reading" /\ view' = {}

(* The answer to a write may be lost, and the refresh be over with it.     *)
WriteSecret(n, s) ==
  /\ phase = "writing"
  /\ secrets' = [secrets EXCEPT ![n] = s]
  /\ Over \/ UNCHANGED <<phase, view>>
  /\ UNCHANGED <<registered, always, ever, edited, userSteps>>

Put(n) == n \in Wanted /\ WriteSecret(n, Manifest(n))

Remove(n) ==
  /\ n \notin Wanted
  /\ \A k \in Wanted \ edited : secrets[k] = Manifest(k)
  /\ secrets[n] # NoSecret
  /\ n \in edited \/ (secrets[n].cluster /\ secrets[n].managed)
  /\ WriteSecret(n, NoSecret)

End ==
  /\ phase = "writing" /\ Over
  /\ UNCHANGED <<registered, secrets, always, ever, edited, userSteps>>

Next ==
  \/ UsersChangeFleet \/ Begin \/ Read \/ End
  \/ \E n \in SecretNames : UserWrites(n) \/ Put(n) \/ Remove(n)

Spec == Init /\ [][Next]_mirrorVars
=============================================================================
