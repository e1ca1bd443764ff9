------------------------ MODULE MembershipScriptProofs ------------------------
(***************************************************************************)
(* Proofs about the membership script, for any memberships and names and   *)
(* any number of changes and faults.                                       *)
(***************************************************************************)
EXTENDS MembershipScript, TLAPS

USE DEF locals, history

(***************************************************************************)
(* The inductive invariant, by the place of the loop.  The fleet of the    *)
(* run lies between steady and window, and so does the listing; only       *)
(* profiles of the listing become current; as long as no call failed, a    *)
(* steady cluster's profile is still to apply, or no longer an old one;    *)
(* and what is to be deleted is old, and all that is old.                  *)
(***************************************************************************)
Belongs(n) == \E m \in window : ProfileOf[m] = n

FleetInv   == pc # "sleep" => steady \subseteq members /\ members \subseteq window
ListInv    == pc = "list" => listed \subseteq window /\ steady \subseteq listed \cup unread
CurrentInv == pc # "sleep" => \A n \in Names : profile[n] = "current" => Belongs(n)
ApplyInv   ==
  /\ pc = "apply" => \A n \in todo : Belongs(n)
  /\ pc = "get" => todo = {}
Safe(n)    == profile[n] = "current" \/ (n \in tampered /\ profile[n] # "old")
SteadyInv  ==
  ~flawed => \A m \in steady :
    /\ pc = "apply" => ProfileOf[m] \in todo \/ Safe(ProfileOf[m])
    /\ pc \in {"get", "delete"} => Safe(ProfileOf[m])
DeleteInv ==
  pc = "delete" =>
    /\ \A n \in todo : n \in tampered \/ profile[n] = "old"
    /\ ~flawed => \A n \in Names : profile[n] = "old" => n \in todo
    /\ ~flawed => \A m \in steady : ProfileOf[m] \notin todo

IInv == TypeOK /\ FleetInv /\ ListInv /\ CurrentInv /\ ApplyInv /\ SteadyInv /\ DeleteInv

LEMMA TypeStep == TypeOK /\ [Next]_vars => TypeOK'
<1> SUFFICES ASSUME TypeOK, [Next]_vars PROVE TypeOK'
  OBVIOUS
<1> USE ScriptAssumption DEF TypeOK, Label
<1>1. ASSUME NEW ms \in SUBSET Memberships, FleetBecomes(ms) PROVE TypeOK'
  BY <1>1 DEF FleetBecomes, Change
<1>2. ASSUME NEW m \in Memberships, Register(m) \/ Unregister(m) PROVE TypeOK'
  BY <1>1, <1>2 DEF Register, Unregister
<1>3. ASSUME NEW n \in Names, UserWrites(n) PROVE TypeOK'
  BY <1>3 DEF UserWrites, Change
<1>4. CASE StartRun
  BY <1>4 DEF StartRun
<1>5. ASSUME NEW page \in SUBSET unread, List(page) PROVE TypeOK'
  BY <1>5 DEF List
<1>6. CASE WriteFolder
  BY <1>6 DEF WriteFolder
<1>7. CASE ApplyDone \/ RunDone
  BY <1>7 DEF ApplyDone, RunDone
<1>8. CASE GetObsolete
  BY <1>8 DEF GetObsolete, Select
<1>9. ASSUME NEW n \in Names, Apply(n) \/ Delete(n) PROVE TypeOK'
  BY <1>9 DEF Apply, Delete
<1>10. CASE Faulty
  <2>1. faults' \in 0..MaxFaults
    BY <1>10 DEF Faulty, ListFails, GetFails, CallFails, Crash, Fault
  <2>2. flawed' = TRUE /\ UNCHANGED <<members, profile, changes, window, steady, tampered>>
    BY <1>10 DEF Faulty, ListFails, GetFails, CallFails, Crash, Flaw
  <2>3. /\ pc' \in {"sleep", "list", "apply", "get", "delete"}
        /\ unread' \subseteq unread /\ listed' \subseteq listed /\ todo' \subseteq todo
    BY <1>10 DEF Faulty, ListFails, GetFails, CallFails, Crash
  <2>4. flawed' \in BOOLEAN
    BY <2>2
  <2> QED BY <2>1, <2>2, <2>3, <2>4
<1>11. CASE UNCHANGED vars
  BY <1>11 DEF vars
<1> QED
  BY <1>2, <1>3, <1>4, <1>5, <1>6, <1>7, <1>8, <1>9, <1>10, <1>11 DEF Next, Environment, SyncClusterProfiles

LEMMA InvStep == IInv /\ [Next]_vars => IInv'
<1> SUFFICES ASSUME IInv, [Next]_vars PROVE IInv'
  OBVIOUS
<1>0. TypeOK /\ TypeOK'
  BY TypeStep DEF IInv
<1> DEFINE Rest == FleetInv /\ ListInv /\ CurrentInv /\ ApplyInv /\ SteadyInv /\ DeleteInv
<1> SUFFICES Rest'
  BY <1>0 DEF IInv
<1>z. Rest
  BY DEF IInv
<1> USE <1>0, <1>z, ScriptAssumption
        DEF TypeOK, FleetInv, ListInv, CurrentInv, ApplyInv, SteadyInv, DeleteInv, Belongs, Safe
<1>1. ASSUME NEW ms \in SUBSET Memberships, FleetBecomes(ms) PROVE Rest'
  BY <1>1 DEF FleetBecomes
<1>2. ASSUME NEW m \in Memberships, Register(m) \/ Unregister(m) PROVE Rest'
  <2>1. PICK ms \in SUBSET Memberships : FleetBecomes(ms)
    BY <1>2 DEF Register, Unregister
  <2> QED BY <1>1, <2>1
<1>3. ASSUME NEW n \in Names, UserWrites(n) PROVE Rest'
  <2>1. PICK l \in {NoProfile, "foreign"} : profile' = [profile EXCEPT ![n] = l]
    BY <1>3 DEF UserWrites
  <2>2. l # "old" /\ l # "current"
    OBVIOUS
  <2>3. \A k \in Names : profile'[k] = IF k = n THEN l ELSE profile[k]
    BY <2>1
  <2>4. /\ UNCHANGED <<members, pc, locals, window, steady, flawed>>
        /\ tampered' = tampered \cup {n}
    BY <1>3 DEF UserWrites
  <2> QED BY <2>2, <2>3, <2>4
<1>4. CASE StartRun
  BY <1>4 DEF StartRun
<1>5. ASSUME NEW page \in SUBSET unread, List(page) PROVE Rest'
  BY <1>5 DEF List
<1>6. CASE WriteFolder
  BY <1>6 DEF WriteFolder
<1>7. CASE ApplyDone \/ RunDone
  BY <1>7 DEF ApplyDone, RunDone
<1>8. CASE GetObsolete
  BY <1>8 DEF GetObsolete, Select
<1>9. ASSUME NEW n \in Names, Apply(n) PROVE Rest'
  BY <1>9 DEF Apply
<1>10. ASSUME NEW n \in Names, Delete(n) PROVE Rest'
  BY <1>10 DEF Delete
<1>11. CASE Faulty
  <2>1. flawed' /\ UNCHANGED <<members, profile, window, steady, tampered>>
    BY <1>11 DEF Faulty, ListFails, GetFails, CallFails, Crash, Flaw
  <2>2. CASE ListFails \/ Crash
    BY <2>1, <2>2 DEF ListFails, Crash
  <2>3. CASE GetFails
    BY <2>1, <2>3 DEF GetFails
  <2>4. ASSUME NEW n \in Names, CallFails(n) PROVE Rest'
    BY <2>1, <2>4 DEF CallFails
  <2> QED BY <1>11, <2>2, <2>3, <2>4 DEF Faulty
<1>12. CASE UNCHANGED vars
  BY <1>12 DEF vars
<1> QED
  BY <1>2, <1>3, <1>4, <1>5, <1>6, <1>7, <1>8, <1>9, <1>10, <1>11, <1>12
  DEF Next, Environment, SyncClusterProfiles

(* The invariant holds in every reachable state.                           *)
THEOREM Invariance == Spec => []IInv
<1>1. Init => IInv
  <2> SUFFICES ASSUME Init PROVE IInv
    OBVIOUS
  <2>1. flawed \in BOOLEAN
    BY DEF Init
  <2>2. TypeOK
    BY <2>1, ScriptAssumption DEF Init, TypeOK, Label
  <2>3. FleetInv /\ ListInv /\ CurrentInv /\ ApplyInv /\ SteadyInv /\ DeleteInv
    BY DEF Init, FleetInv, ListInv, CurrentInv, ApplyInv, SteadyInv, DeleteInv
  <2> QED BY <2>2, <2>3 DEF IInv
<1> QED BY <1>1, InvStep, PTL DEF Spec

(* The variables keep their types through every step.                      *)
THEOREM Typing == Spec => []TypeOK
<1>1. IInv => TypeOK
  BY DEF IInv
<1> QED BY Invariance, <1>1, PTL

(* A run all of whose calls worked ends with the profiles of its clusters. *)
THEOREM MirrorsFleet == Spec => []RunMirrorsFleet
<1>1. IInv => RunMirrorsFleet
  BY ScriptAssumption
  DEF IInv, TypeOK, RunMirrorsFleet, CurrentInv, SteadyInv, DeleteInv, Belongs, Safe
<1> QED BY Invariance, <1>1, PTL

(* Only the last loop of a run deletes, and only what it selected.         *)
LEMMA WhoDeletes ==
  ASSUME TypeOK, [Next]_vars, NEW n \in Names, Deleted(n)
  PROVE  pc = "delete" /\ n \in todo
<1> USE ScriptAssumption DEF TypeOK, Deleted, UserStep, Label
<1>1. ~Environment
  BY DEF Environment, Register, Unregister, FleetBecomes, UserWrites, Change
<1>2. ~Faulty /\ ~UNCHANGED vars
  BY DEF Faulty, ListFails, GetFails, CallFails, Crash, Flaw, vars
<1>3. ~StartRun
  BY DEF StartRun
<1>4. \A page \in SUBSET unread : ~List(page)
  BY DEF List
<1>5. ~(WriteFolder \/ ApplyDone \/ GetObsolete \/ RunDone)
  BY DEF WriteFolder, ApplyDone, GetObsolete, Select, RunDone
<1>6. PICK k \in Names : Apply(k) \/ Delete(k)
  BY <1>1, <1>2, <1>3, <1>4, <1>5 DEF Next, SyncClusterProfiles
<1> QED BY <1>6 DEF Apply, Delete

(* A run whose calls all work deletes no profile of a cluster that stayed. *)
THEOREM LiveStay == Spec => LiveProfilesStay
<1>1. ASSUME IInv, [Next]_vars
      PROVE  \A m \in steady : Deleted(ProfileOf[m]) => flawed
  <2> SUFFICES ASSUME NEW m \in steady, Deleted(ProfileOf[m]), ~flawed PROVE FALSE
    OBVIOUS
  <2>1. ProfileOf[m] \in Names
    BY <1>1, ScriptAssumption DEF IInv, TypeOK
  <2>2. pc = "delete" /\ ProfileOf[m] \in todo
    BY <1>1, <2>1, WhoDeletes DEF IInv
  <2> QED BY <1>1, <2>2 DEF IInv, DeleteInv
<1> QED BY Invariance, <1>1, PTL DEF LiveProfilesStay, Spec

(* What is deleted was labelled, or took the place of what was.            *)
THEOREM ForeignStay == Spec => ForeignProfilesStay
<1>1. ASSUME IInv, [Next]_vars
      PROVE  \A n \in Names \ tampered : profile[n] = "foreign" => ~Deleted(n)
  <2> SUFFICES ASSUME NEW n \in Names \ tampered, profile[n] = "foreign", Deleted(n) PROVE FALSE
    OBVIOUS
  <2>1. pc = "delete" /\ n \in todo
    BY <1>1, WhoDeletes DEF IInv
  <2> QED BY <1>1, <2>1 DEF IInv, DeleteInv
<1> QED BY Invariance, <1>1, PTL DEF ForeignProfilesStay, Spec
=============================================================================
