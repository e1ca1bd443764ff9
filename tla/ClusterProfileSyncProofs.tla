----------------------- MODULE ClusterProfileSyncProofs -----------------------
(***************************************************************************)
(* Proofs about the ClusterProfile syncer, for any number of profiles,     *)
(* endpoints, workers, changes and faults.                                 *)
(***************************************************************************)
EXTENDS ClusterProfileSync, FiniteSetTheorems, SequenceTheorems, TLAPS

USE DEF api, cached, events, work

(***************************************************************************)
(* The inductive invariant.  ViewInv: a cache is behind the API server by  *)
(* just the events still to be delivered.  JobInv: what a reconcile set    *)
(* out to do is still right, or its key has more work ahead.  OwnerInv: a  *)
(* secret of somebody else that the controller was not told about too late *)
(* is one that it has always seen as such.  FreshInv: a deletion that was  *)
(* judged by the latest copy of a secret is about one of its own.          *)
(***************************************************************************)
Foreign(p, s) == s # Absent /\ ~IsSecretManaged(p, s)

ViewInv ==
  /\ up => \A p \in Profiles :
             IF profileEvents[p] = <<>> THEN seenProfile[p] = profile[p]
             ELSE Last(profileEvents[p]) = profile[p]
  /\ ~up => \A p \in Profiles : profileEvents[p] = <<>> /\ secretEvents[p] = <<>>

SeenInv ==
  up => \A p \in Profiles : IF secretEvents[p] = <<>> THEN seenSecret[p] = secret[p]
                            ELSE Last(secretEvents[p]) = secret[p]

JobInv ==
  \A p \in Profiles :
    job[p] # Idle =>
      /\ up
      /\ job[p].at \in {"upsert", "create", "update"} => job[p].want \in Endpoints
      /\ profileEvents[p] = <<>> /\ p \notin dirty =>
           profile[p] = IF job[p].at \in {"cleanup", "delete"} THEN Absent ELSE job[p].want

OwnerInv ==
  \A p \in Profiles \ missed :
    Foreign(p, secret[p]) =>
      /\ ~IsSecretManaged(p, seenSecret[p])
      /\ secretEvents[p] = <<>>
      /\ job[p].at # "delete"

FreshInv == \A p \in Profiles : job[p].at = "delete" /\ job[p].fresh => IsSecretManaged(p, secret[p])

IInv == TypeOK /\ ViewInv /\ SeenInv /\ JobInv /\ OwnerInv /\ FreshInv /\ NoLostUpdate

LEMMA SetToSeqsType == ASSUME NEW S, IsFiniteSet(S) PROVE SetToSeqs(S) \subseteq Seq(S)
<1>1. Cardinality(S) \in Nat
  BY FS_CardinalityType
<1> QED BY <1>1 DEF SetToSeqs

LEMMA EmptyIsSeq == ASSUME NEW S PROVE <<>> \in Seq(S)
  OBVIOUS

LEMMA DesiredType == \A p \in Profiles, e \in Endpoints : Desired(p, e) \in Secret /\ Desired(p, e) # Absent
<1>1. \A p \in Profiles, e \in Endpoints : Desired(p, e) \in Secret
  BY DEF Desired, Secret
<1> QED BY <1>1, ProfileAssumption

(* The lemmas about the queue: what ends or queues a reconcile keeps types. *)
LEMMA EnqueueType ==
  ASSUME TypeOK, NEW p \in Profiles, Enqueue(p)
  PROVE  queue' \in Seq(Profiles) /\ dirty' \subseteq Profiles /\ job' = job /\ p \in dirty' /\ dirty \subseteq dirty'
  BY DEF Enqueue, TypeOK

LEMMA FinishType ==
  ASSUME TypeOK, NEW p \in Profiles, NEW again \in BOOLEAN, Finish(p, again)
  PROVE  /\ queue' \in Seq(Profiles) /\ dirty' \subseteq Profiles /\ job' \in [Profiles -> Job]
         /\ job' = [job EXCEPT ![p] = Idle]
         /\ dirty' = IF again THEN dirty \cup {p} ELSE dirty
<1>1. Idle \in Job
  BY DEF Idle, Job
<1>2. Append(queue, p) \in Seq(Profiles)
  BY DEF TypeOK
<1> QED BY <1>1, <1>2 DEF Finish, TypeOK

LEMMA GoOnType ==
  ASSUME TypeOK, NEW p \in Profiles, NEW at, NEW want, NEW fresh, GoOn(p, at, want, fresh),
         [at |-> at, want |-> want, fresh |-> fresh] \in Job
  PROVE  UNCHANGED <<queue, dirty>> /\ job' \in [Profiles -> Job]
  BY DEF GoOn, TypeOK

(* A write leaves the secret what the job set out to make it.              *)
LEMMA WrittenType ==
  ASSUME TypeOK, JobInv, NEW p \in Profiles, Accepted(p), Written(p)
  PROVE  /\ secret' \in [Profiles -> SecretState] /\ secretEvents' \in [Profiles -> Seq(SecretState)]
         /\ secret' = [secret EXCEPT ![p] = IF job[p].at = "delete" THEN Absent ELSE Desired(p, job[p].want)]
         /\ \A q \in Profiles : q # p => secretEvents'[q] = secretEvents[q]
         /\ job[p] # Idle
         /\ job[p].at \in {"create", "update"} => job[p].want \in Endpoints
<1>1. job[p] # Idle
  BY DEF Accepted, Idle
<1>2. job[p].at \in {"create", "update"} => job[p].want \in Endpoints
  BY <1>1 DEF JobInv
<1>3. (IF job[p].at = "delete" THEN Absent ELSE Desired(p, job[p].want)) \in SecretState
  BY <1>2, DesiredType DEF Accepted, SecretState
<1> QED BY <1>1, <1>2, <1>3 DEF Written, SecretBecomes, TypeOK

LEMMA TypeStep == TypeOK /\ JobInv /\ [Next]_vars => TypeOK'
<1> SUFFICES ASSUME TypeOK, JobInv, [Next]_vars PROVE TypeOK'
  OBVIOUS
<1> USE ProfileAssumption DEF TypeOK
<1>1. CASE EstablishCRD
  BY <1>1 DEF EstablishCRD
<1>2. ASSUME NEW p \in Profiles, NEW x \in ProfileState, ChangeProfile(p, x) PROVE TypeOK'
  BY <1>2 DEF ChangeProfile, Change, ProfileBecomes
<1>3. ASSUME NEW p \in Profiles, NEW s \in UserSecrets, UserWrites(p, s) PROVE TypeOK'
  <2>1. s \in SecretState
    BY DEF SecretState
  <2>2. secret' \in [Profiles -> SecretState] /\ secretEvents' \in [Profiles -> Seq(SecretState)]
    BY <1>3, <2>1 DEF UserWrites, SecretBecomes
  <2>3. job' \in [Profiles -> Job]
    <3>1. [job[p] EXCEPT !.fresh = FALSE] \in Job
      BY DEF Job
    <3> QED BY <1>3, <3>1 DEF UserWrites
  <2> QED BY <1>3, <2>2, <2>3 DEF UserWrites, Change
<1>4. CASE Start
  <2>1. dirty' \subseteq Profiles /\ queue' \in SetToSeqs(dirty')
    BY <1>4 DEF Start
  <2>2. queue' \in Seq(Profiles)
    <3>1. IsFiniteSet(dirty')
      BY <2>1, FS_Subset
    <3>2. queue' \in Seq(dirty')
      BY <2>1, <3>1, SetToSeqsType
    <3> QED BY <2>1, <3>2
  <2> QED BY <1>4, <2>1, <2>2 DEF Start
<1>5. ASSUME NEW p \in Profiles, DeliverProfile(p) PROVE TypeOK'
  BY <1>5, EnqueueType DEF DeliverProfile
<1>6. ASSUME NEW p \in Profiles, DeliverSecret(p) PROVE TypeOK'
  BY <1>6 DEF DeliverSecret
<1>7. ASSUME NEW p \in Profiles, Resync(p) PROVE TypeOK'
  BY <1>7, EnqueueType DEF Resync
<1>8. ASSUME NEW p \in Profiles, Reconcile(p) PROVE TypeOK'
  <2>1. CASE seenProfile[p] = NoEndpoint
    <3>1. Append(Tail(queue), p) \in Seq(Profiles)
      BY <1>8 DEF Reconcile
    <3> QED BY <1>8, <2>1, <3>1 DEF Reconcile
  <2>2. CASE seenProfile[p] # NoEndpoint
    <3>1. [at |-> "cleanup", want |-> Nil, fresh |-> FALSE] \in Job
      BY DEF Job
    <3>2. seenProfile[p] # Absent => [at |-> "upsert", want |-> seenProfile[p], fresh |-> FALSE] \in Job
      BY <2>2 DEF Job, ProfileState
    <3>3. job' \in [Profiles -> Job] /\ dirty' \subseteq Profiles
      <4>1. PICK j \in Job : job' = [job EXCEPT ![p] = j]
        BY <1>8, <2>2, <3>1, <3>2 DEF Reconcile
      <4> QED BY <1>8, <2>2, <4>1 DEF Reconcile
    <3>4. queue' \in Seq(Profiles)
      <4>1. queue # <<>> /\ queue' = Tail(queue) /\ queue \in Seq(Profiles)
        BY <1>8, <2>2 DEF Reconcile
      <4> QED BY <4>1
    <3> QED BY <1>8, <3>3, <3>4 DEF Reconcile
  <2> QED BY <2>1, <2>2
<1>9. ASSUME NEW p \in Profiles, GetForUpsert(p) PROVE TypeOK'
  <2>1. job[p].want \in Endpoints
    BY <1>9 DEF GetForUpsert, JobInv, Idle
  <2>2. \A at \in {"create", "update"}, fresh \in BOOLEAN :
           [at |-> at, want |-> job[p].want, fresh |-> fresh] \in Job
    BY <2>1 DEF Job
  <2>3. queue' \in Seq(Profiles) /\ dirty' \subseteq Profiles /\ job' \in [Profiles -> Job]
    BY <1>9, <2>2, FinishType, GoOnType DEF GetForUpsert, Fresh
  <2>4. missed' \subseteq Profiles
    BY <1>9 DEF GetForUpsert
  <2> QED BY <1>9, <2>3, <2>4 DEF GetForUpsert
<1>10. ASSUME NEW p \in Profiles, GetForCleanup(p) PROVE TypeOK'
  <2>1. \A fresh \in BOOLEAN : [at |-> "delete", want |-> Nil, fresh |-> fresh] \in Job
    BY DEF Job
  <2>2. queue' \in Seq(Profiles) /\ dirty' \subseteq Profiles /\ job' \in [Profiles -> Job]
    BY <1>10, <2>1, FinishType, GoOnType DEF GetForCleanup, Fresh
  <2>3. missed' \subseteq Profiles
    BY <1>10 DEF GetForCleanup
  <2> QED BY <1>10, <2>2, <2>3 DEF GetForCleanup
<1>11. ASSUME NEW p \in Profiles, Write(p) PROVE TypeOK'
  BY <1>11, FinishType, WrittenType DEF Write
<1>12. ASSUME NEW p \in Profiles, WriteRejected(p) \/ WriteFails(p) PROVE TypeOK'
  <2>1. Finish(p, TRUE) /\ UNCHANGED <<api, up, cached, events, changes, missed>>
    BY <1>12 DEF WriteRejected, WriteFails
  <2>2. queue' \in Seq(Profiles) /\ dirty' \subseteq Profiles /\ job' \in [Profiles -> Job]
    BY <2>1, FinishType
  <2>3. faults' \in 0..MaxFaults
    <3>1. faults' = faults \/ (faults < MaxFaults /\ faults' = faults + 1)
      BY <1>12 DEF WriteRejected, WriteFails, Fault
    <3> QED BY <3>1
  <2> QED BY <2>1, <2>2, <2>3
<1>13. ASSUME NEW p \in Profiles, AnswerLost(p) PROVE TypeOK'
  <2>1. queue' \in Seq(Profiles) /\ dirty' \subseteq Profiles /\ job' \in [Profiles -> Job]
    BY <1>13, FinishType DEF AnswerLost
  <2>2. secret' \in [Profiles -> SecretState] /\ secretEvents' \in [Profiles -> Seq(SecretState)]
    BY <1>13, WrittenType DEF AnswerLost
  <2>3. faults' \in 0..MaxFaults /\ missed' \subseteq Profiles
    BY <1>13 DEF AnswerLost, Fault
  <2> QED BY <1>13, <2>1, <2>2, <2>3 DEF AnswerLost
<1>14. CASE Crash
  <2>1. Idle \in Job /\ Absent \in ProfileState \cap SecretState
    BY DEF Idle, Job, ProfileState, SecretState
  <2>2. job' \in [Profiles -> Job]
    BY <1>14, <2>1 DEF Crash
  <2>3. faults' \in 0..MaxFaults
    BY <1>14 DEF Crash, Fault
  <2>4. seenProfile' \in [Profiles -> ProfileState] /\ seenSecret' \in [Profiles -> SecretState]
    BY <1>14, <2>1 DEF Crash
  <2>5. profileEvents' \in [Profiles -> Seq(ProfileState)] /\ secretEvents' \in [Profiles -> Seq(SecretState)]
    BY <1>14 DEF Crash
  <2>6. queue' = <<>> /\ dirty' = {} /\ up' = FALSE /\ UNCHANGED <<api, changes, missed>>
    BY <1>14 DEF Crash
  <2>7. queue' \in Seq(Profiles) /\ dirty' \subseteq Profiles /\ up' \in BOOLEAN
    <3>1. up' \in BOOLEAN
      BY <2>6
    <3>2. dirty' \subseteq Profiles
      BY <2>6
    <3>3. queue' \in Seq(Profiles)
      BY <2>6, EmptyIsSeq
    <3> QED BY <3>1, <3>2, <3>3
  <2>8. /\ profile' \in [Profiles -> ProfileState] /\ secret' \in [Profiles -> SecretState]
        /\ established' \in BOOLEAN /\ changes' \in 0..MaxChanges /\ missed' \subseteq Profiles
    BY <2>6
  <2> QED BY <2>2, <2>3, <2>4, <2>5, <2>7, <2>8
<1>15. CASE UNCHANGED vars
  BY <1>15 DEF vars
<1> QED
  BY <1>1, <1>2, <1>3, <1>4, <1>5, <1>6, <1>7, <1>8, <1>9, <1>10, <1>11, <1>12, <1>13, <1>14, <1>15
  DEF Next, Environment, Work, Faulty
-----------------------------------------------------------------------------
(***************************************************************************)
(* The kinds of step, told apart by what they leave alone.                 *)
(***************************************************************************)
EnvStep(p) == \/ \E x \in ProfileState : ChangeProfile(p, x)
              \/ \E s \in UserSecrets : UserWrites(p, s)
WorkStep(p) == GetForUpsert(p) \/ GetForCleanup(p) \/ Write(p) \/ WriteRejected(p) \/ WriteFails(p) \/ AnswerLost(p)

LEMMA StepKinds ==
  ASSUME [Next]_vars
  PROVE  \/ EstablishCRD \/ Start \/ Crash \/ UNCHANGED vars
         \/ \E p \in Profiles : \/ EnvStep(p) \/ DeliverProfile(p) \/ DeliverSecret(p)
                                \/ Resync(p) \/ Reconcile(p) \/ WorkStep(p)
  BY DEF Next, Environment, Faulty, Work, EnvStep, WorkStep

LEMMA WorkFrame ==
  ASSUME NEW p \in Profiles, WorkStep(p)
  PROVE  UNCHANGED <<profile, established, up, cached, profileEvents>>
  BY DEF WorkStep, GetForUpsert, GetForCleanup, Write, WriteRejected, WriteFails, AnswerLost

LEMMA LastAppend ==
  ASSUME NEW S, NEW q \in Seq(S), NEW x \in S
  PROVE  Append(q, x) # <<>> /\ Last(Append(q, x)) = x
  BY DEF Last

LEMMA LastSubSeq ==
  ASSUME NEW S, NEW q \in Seq(S), NEW i \in 1..Len(q)
  PROVE  LET r == SubSeq(q, i + 1, Len(q))
         IN  IF r = <<>> THEN q[i] = Last(q) ELSE Last(r) = Last(q)
<1> DEFINE r == SubSeq(q, i + 1, Len(q))
<1>1. /\ r \in Seq(S) /\ Len(r) = Len(q) - i
      /\ \A j \in 1..Len(q) - i : r[j] = q[i + j]
  <2>1. /\ r \in Seq(S)
        /\ Len(r) = IF i + 1 <= Len(q) THEN Len(q) - (i + 1) + 1 ELSE 0
        /\ \A j \in 1..Len(q) - (i + 1) + 1 : r[j] = q[(i + 1) + j - 1]
    <3>1. \A j \in (i + 1)..Len(q) : q[j] \in S
      OBVIOUS
    <3> HIDE DEF r
    <3> QED BY <3>1, SubSeqProperties DEF r
  <2> HIDE DEF r
  <2> QED BY <2>1
<1> HIDE DEF r
<1>2. CASE i = Len(q)
  BY <1>1, <1>2 DEF Last
<1>3. CASE i < Len(q)
  <2>1. r # <<>> /\ r[Len(r)] = q[Len(q)]
    BY <1>1, <1>3
  <2> QED BY <2>1 DEF Last, r
<1> QED BY <1>2, <1>3 DEF r

LEMMA ViewStep == TypeOK /\ TypeOK' /\ ViewInv /\ [Next]_vars => ViewInv'
<1> SUFFICES ASSUME TypeOK, TypeOK', ViewInv, [Next]_vars PROVE ViewInv'
  OBVIOUS
<1>1. CASE UNCHANGED <<profile, up, seenProfile, profileEvents>> /\ (up \/ UNCHANGED secretEvents)
  BY <1>1 DEF ViewInv
<1>2. ASSUME NEW p \in Profiles,
             \/ DeliverSecret(p) \/ Resync(p) \/ Reconcile(p) \/ WorkStep(p)
             \/ \E s \in UserSecrets : UserWrites(p, s)
      PROVE  ViewInv'
  <2>1. up \/ UNCHANGED secretEvents
    BY <1>2 DEF DeliverSecret, Resync, Reconcile, UserWrites, SecretBecomes, WorkStep, GetForUpsert, GetForCleanup,
                Write, Written, WriteRejected, WriteFails, AnswerLost
  <2>2. UNCHANGED <<profile, up, seenProfile, profileEvents>>
    BY <1>2, WorkFrame DEF DeliverSecret, Resync, Reconcile, UserWrites
  <2> QED BY <1>1, <2>1, <2>2
<1>3. CASE EstablishCRD \/ UNCHANGED vars
  BY <1>1, <1>3 DEF EstablishCRD, vars
<1>4. ASSUME NEW p \in Profiles, NEW x \in ProfileState, ChangeProfile(p, x) PROVE ViewInv'
  <2>1. profileEvents[p] \in Seq(ProfileState)
    BY DEF TypeOK
  <2>2. Append(profileEvents[p], x) # <<>> /\ Last(Append(profileEvents[p], x)) = x
    BY <2>1, LastAppend
  <2> QED BY <1>4, <2>2 DEF ChangeProfile, ProfileBecomes, ViewInv, TypeOK
<1>5. CASE Start
  BY <1>5 DEF Start, ViewInv
<1>6. CASE Crash
  BY <1>6 DEF Crash, ViewInv
<1>7. ASSUME NEW p \in Profiles, DeliverProfile(p) PROVE ViewInv'
  <2>1. PICK i \in 1..Len(profileEvents[p]) :
          /\ seenProfile' = [seenProfile EXCEPT ![p] = profileEvents[p][i]]
          /\ profileEvents' = [profileEvents EXCEPT ![p] = SubSeq(@, i + 1, Len(@))]
    BY <1>7 DEF DeliverProfile
  <2>2. profileEvents[p] \in Seq(ProfileState)
    BY DEF TypeOK
  <2>3. profileEvents[p] # <<>>
    BY <2>1, <2>2
  <2>4. Last(profileEvents[p]) = profile[p] /\ up /\ up' = up /\ profile' = profile
    BY <1>7, <2>3 DEF DeliverProfile, ViewInv
  <2>5. IF profileEvents'[p] = <<>> THEN seenProfile'[p] = profile[p] ELSE Last(profileEvents'[p]) = profile[p]
    BY <2>1, <2>2, <2>4, LastSubSeq DEF TypeOK
  <2> QED BY <2>1, <2>4, <2>5 DEF ViewInv, TypeOK
<1> QED BY <1>2, <1>3, <1>4, <1>5, <1>6, <1>7, StepKinds DEF EnvStep

(* What a step of the reconciler leaves in job and dirty.                  *)
LEMMA WorkEnds ==
  ASSUME NEW p \in Profiles, WorkStep(p)
  PROVE  \/ \E again \in BOOLEAN : Finish(p, again)
         \/ /\ job[p].at = "upsert" /\ GetForUpsert(p)
            /\ \E at \in {"create", "update"}, fresh \in BOOLEAN : GoOn(p, at, job[p].want, fresh)
         \/ /\ job[p].at = "cleanup" /\ GetForCleanup(p)
            /\ \E fresh \in BOOLEAN : GoOn(p, "delete", Nil, fresh)
  BY DEF WorkStep, GetForUpsert, GetForCleanup, Write, WriteRejected, WriteFails, AnswerLost, Fresh

(* JobInv for one key.                                                     *)
JobOK(p) ==
  job[p] # Idle =>
    /\ up
    /\ job[p].at \in {"upsert", "create", "update"} => job[p].want \in Endpoints
    /\ profileEvents[p] = <<>> /\ p \notin dirty =>
         profile[p] = IF job[p].at \in {"cleanup", "delete"} THEN Absent ELSE job[p].want

LEMMA JobStep == TypeOK /\ TypeOK' /\ ViewInv /\ JobInv /\ [Next]_vars => JobInv'
<1> SUFFICES ASSUME TypeOK, TypeOK', ViewInv, JobInv, [Next]_vars, NEW q \in Profiles PROVE JobOK(q)'
  BY DEF JobInv, JobOK
<1>0. JobOK(q)
  BY DEF JobInv, JobOK
<1> USE DEF JobOK
<1>1. CASE UNCHANGED <<profile[q], up, profileEvents[q], job[q]>> /\ (q \in dirty => q \in dirty')
  BY <1>0, <1>1
<1>2. CASE EstablishCRD \/ UNCHANGED vars
  BY <1>1, <1>2 DEF EstablishCRD, vars
<1>3. CASE Start
  BY <1>0, <1>3 DEF Start
<1>4. CASE Crash
  BY <1>4 DEF Crash
<1>5. ASSUME NEW p \in Profiles, NEW x \in ProfileState, ChangeProfile(p, x) PROVE JobOK(q)'
  <2>1. CASE q # p
    BY <1>1, <1>5, <2>1 DEF ChangeProfile, ProfileBecomes, TypeOK
  <2>2. CASE q = p /\ up
    <3>1. profileEvents'[q] # <<>>
      <4>1. profileEvents[p] \in Seq(ProfileState)
        BY DEF TypeOK
      <4>2. Append(profileEvents[p], x) # <<>>
        BY <4>1, LastAppend
      <4> QED BY <1>5, <2>2, <4>2 DEF ChangeProfile, ProfileBecomes, TypeOK
    <3> QED BY <1>0, <1>5, <3>1 DEF ChangeProfile
  <2>3. CASE ~up
    BY <1>0, <1>5, <2>3 DEF ChangeProfile
  <2> QED BY <2>1, <2>2, <2>3
<1>6. ASSUME NEW p \in Profiles, NEW s \in UserSecrets, UserWrites(p, s) PROVE JobOK(q)'
  <2>1. job[q] \in Job
    BY DEF TypeOK
  <2>2. job[q] = Idle => job'[q] = Idle
    <3>1. [Idle EXCEPT !.fresh = FALSE] = Idle
      <4>1. Idle \in Job /\ Idle.fresh = FALSE
        BY DEF Idle, Job
      <4> HIDE DEF Idle
      <4> QED BY <4>1 DEF Job
    <3>2. job'[q] = IF q = p THEN [job[p] EXCEPT !.fresh = FALSE] ELSE job[q]
      BY <1>6 DEF UserWrites, TypeOK
    <3> QED BY <3>1, <3>2
  <2>3. job'[q].at = job[q].at /\ job'[q].want = job[q].want
    BY <1>6, <2>1 DEF UserWrites, TypeOK, Job
  <2> QED BY <1>0, <1>6, <2>2, <2>3 DEF UserWrites
<1>7. ASSUME NEW p \in Profiles, DeliverProfile(p) PROVE JobOK(q)'
  <2>1. p \in dirty' /\ dirty \subseteq dirty' /\ job' = job
    BY <1>7, EnqueueType DEF DeliverProfile
  <2>2. CASE q # p
    BY <1>1, <1>7, <2>1, <2>2 DEF DeliverProfile, TypeOK
  <2>3. CASE q = p
    BY <1>0, <1>7, <2>1, <2>3 DEF DeliverProfile
  <2> QED BY <2>2, <2>3
<1>8. ASSUME NEW p \in Profiles, DeliverSecret(p) \/ Resync(p) PROVE JobOK(q)'
  BY <1>1, <1>8, EnqueueType DEF DeliverSecret, Resync
<1>9. ASSUME NEW p \in Profiles, Reconcile(p) PROVE JobOK(q)'
  <2>1. CASE q # p
    BY <1>1, <1>9, <2>1 DEF Reconcile, TypeOK
  <2>2. CASE q = p /\ seenProfile[p] = NoEndpoint
    BY <1>1, <1>9, <2>2 DEF Reconcile
  <2>3. CASE q = p /\ seenProfile[p] = Absent
    <3>1. job'[p] = [at |-> "cleanup", want |-> Nil, fresh |-> FALSE]
      BY <1>9, <2>3, ProfileAssumption DEF Reconcile, TypeOK
    <3> QED BY <1>9, <2>3, <3>1 DEF Reconcile, ViewInv
  <2>4. CASE q = p /\ seenProfile[p] \in Endpoints
    <3>1. job'[p] = [at |-> "upsert", want |-> seenProfile[p], fresh |-> FALSE]
      BY <1>9, <2>4, ProfileAssumption DEF Reconcile, TypeOK
    <3> QED BY <1>9, <2>4, <3>1 DEF Reconcile, ViewInv
  <2> QED BY <2>1, <2>2, <2>3, <2>4 DEF TypeOK, ProfileState
<1>10. ASSUME NEW p \in Profiles, WorkStep(p) PROVE JobOK(q)'
  <2>1. UNCHANGED <<profile, up, profileEvents>>
    BY <1>10, WorkFrame
  <2>2. CASE q # p
    <3>1. job'[q] = job[q] /\ (q \in dirty <=> q \in dirty')
      <4>1. CASE \E again \in BOOLEAN : Finish(p, again)
        BY <2>2, <4>1 DEF Finish, TypeOK
      <4>2. CASE \E at, want, fresh : GoOn(p, at, want, fresh)
        BY <2>2, <4>2 DEF GoOn, TypeOK
      <4> QED BY <1>10, <4>1, <4>2, WorkEnds
    <3> QED BY <1>1, <2>1, <3>1
  <2>3. CASE q = p /\ \E again \in BOOLEAN : Finish(p, again)
    BY <2>3 DEF Finish, TypeOK
  <2>4. ASSUME q = p, job[p].at = "upsert", NEW at \in {"create", "update"}, NEW fresh \in BOOLEAN,
               GoOn(p, at, job[p].want, fresh)
        PROVE  JobOK(q)'
    <3>1. job[p] # Idle
      BY <2>4 DEF Idle
    <3>2. job'[p] = [at |-> at, want |-> job[p].want, fresh |-> fresh] /\ dirty' = dirty
      BY <2>4 DEF GoOn, TypeOK
    <3> QED BY <1>0, <2>1, <2>4, <3>1, <3>2
  <2>5. ASSUME q = p, job[p].at = "cleanup", NEW fresh \in BOOLEAN, GoOn(p, "delete", Nil, fresh)
        PROVE  JobOK(q)'
    <3>1. job[p] # Idle
      BY <2>5 DEF Idle
    <3>2. job'[p] = [at |-> "delete", want |-> Nil, fresh |-> fresh] /\ dirty' = dirty
      BY <2>5 DEF GoOn, TypeOK
    <3> QED BY <1>0, <2>1, <2>5, <3>1, <3>2
  <2> QED BY <1>10, <2>2, <2>3, <2>4, <2>5, WorkEnds
<1> QED BY <1>2, <1>3, <1>4, <1>5, <1>6, <1>7, <1>8, <1>9, <1>10, StepKinds DEF EnvStep
-----------------------------------------------------------------------------
(* OwnerInv for one key, and the steps that cannot disturb it.             *)
OwnerOK(p) ==
  p \notin missed /\ Foreign(p, secret[p]) =>
    /\ ~IsSecretManaged(p, seenSecret[p])
    /\ secretEvents[p] = <<>>
    /\ job[p].at # "delete"

LEMMA OwnerKept ==
  ASSUME NEW q \in Profiles, OwnerOK(q),
         UNCHANGED <<secret[q], seenSecret[q], secretEvents[q]>>,
         q \in missed => q \in missed',
         job'[q].at = "delete" => job[q].at = "delete"
  PROVE  OwnerOK(q)'
  BY DEF OwnerOK, Foreign, IsSecretManaged

LEMMA OwnerStep == TypeOK /\ TypeOK' /\ ViewInv /\ JobInv /\ OwnerInv /\ [Next]_vars => OwnerInv'
<1> SUFFICES ASSUME TypeOK, TypeOK', ViewInv, JobInv, OwnerInv, [Next]_vars, NEW q \in Profiles PROVE OwnerOK(q)'
  BY DEF OwnerInv, OwnerOK
<1>0. OwnerOK(q)
  BY DEF OwnerInv, OwnerOK
<1>1. CASE EstablishCRD \/ UNCHANGED vars
  BY <1>0, <1>1, OwnerKept DEF EstablishCRD, vars
<1>2. CASE Start
  <2>1. job'[q] = Idle /\ secretEvents'[q] = <<>>
    BY <1>2 DEF Start, ViewInv, JobInv
  <2>2. seenSecret' = secret /\ secret' = secret
    BY <1>2 DEF Start
  <2> QED BY <2>1, <2>2 DEF OwnerOK, Foreign, IsSecretManaged, Idle
<1>3. CASE Crash
  <2>1. job'[q] = Idle /\ secretEvents'[q] = <<>> /\ seenSecret'[q] = Absent
    BY <1>3 DEF Crash
  <2> QED BY <2>1 DEF OwnerOK, IsSecretManaged, Idle
<1>4. ASSUME NEW p \in Profiles, NEW x \in ProfileState, ChangeProfile(p, x) PROVE OwnerOK(q)'
  BY <1>0, <1>4, OwnerKept DEF ChangeProfile
<1>5. ASSUME NEW p \in Profiles, NEW s \in UserSecrets, UserWrites(p, s) PROVE OwnerOK(q)'
  <2>1. CASE q = p
    BY <1>5, <2>1 DEF UserWrites, OwnerOK
  <2>2. CASE q # p
    <3>1. UNCHANGED <<secret[q], seenSecret[q], secretEvents[q], job[q]>> /\ (q \in missed => q \in missed')
      BY <1>5, <2>2 DEF UserWrites, SecretBecomes, TypeOK
    <3> QED BY <1>0, <3>1, OwnerKept
  <2> QED BY <2>1, <2>2
<1>6. ASSUME NEW p \in Profiles, DeliverProfile(p) \/ Resync(p) PROVE OwnerOK(q)'
  BY <1>0, <1>6, OwnerKept DEF DeliverProfile, Resync, Enqueue
<1>7. ASSUME NEW p \in Profiles, DeliverSecret(p) PROVE OwnerOK(q)'
  <2>1. CASE q = p
    <3>1. secretEvents[p] # <<>> /\ secret' = secret /\ missed' = missed
      BY <1>7 DEF DeliverSecret, TypeOK
    <3> QED BY <1>0, <2>1, <3>1 DEF OwnerOK, Foreign, IsSecretManaged
  <2>2. CASE q # p
    BY <1>0, <1>7, <2>2, OwnerKept DEF DeliverSecret, TypeOK
  <2> QED BY <2>1, <2>2
<1>8. ASSUME NEW p \in Profiles, Reconcile(p) PROVE OwnerOK(q)'
  <2>1. job'[q].at = "delete" => job[q].at = "delete"
    <3>1. \/ job'[q] = job[q]
          \/ job'[q] = [at |-> "cleanup", want |-> Nil, fresh |-> FALSE]
          \/ job'[q] = [at |-> "upsert", want |-> seenProfile[p], fresh |-> FALSE]
      BY <1>8 DEF Reconcile, TypeOK
    <3> QED BY <3>1
  <2> QED BY <1>0, <1>8, <2>1, OwnerKept DEF Reconcile
<1>9. ASSUME NEW p \in Profiles, WorkStep(p) PROVE OwnerOK(q)'
  <2>1. CASE q # p
    <3>1. job'[q] = job[q]
      BY <1>9, <2>1, WorkEnds DEF Finish, GoOn, TypeOK
    <3>2. UNCHANGED <<secret[q], seenSecret[q], secretEvents[q]>>
      <4>1. seenSecret' = seenSecret
        BY <1>9, WorkFrame
      <4>2. CASE (Write(p) \/ AnswerLost(p))
        <5>1. Accepted(p) /\ Written(p)
          BY <4>2 DEF Write, AnswerLost
        <5>2. /\ secret' = [secret EXCEPT ![p] = IF job[p].at = "delete" THEN Absent ELSE Desired(p, job[p].want)]
              /\ secretEvents'[q] = secretEvents[q]
          BY <2>1, <5>1, WrittenType
        <5> QED BY <2>1, <4>1, <5>2 DEF TypeOK
      <4>3. CASE GetForUpsert(p) \/ GetForCleanup(p) \/ WriteRejected(p) \/ WriteFails(p)
        BY <4>1, <4>3 DEF GetForUpsert, GetForCleanup, WriteRejected, WriteFails
      <4> QED BY <1>9, <4>2, <4>3 DEF WorkStep
    <3>3. q \in missed => q \in missed'
      BY <1>9, <2>1 DEF WorkStep, GetForUpsert, GetForCleanup, Write, WriteRejected, WriteFails, AnswerLost
    <3> QED BY <1>0, <3>1, <3>2, <3>3, OwnerKept
  <2>2. CASE q = p /\ (Write(p) \/ AnswerLost(p))
    <3>1. secret'[p] = IF job[p].at = "delete" THEN Absent ELSE Desired(p, job[p].want)
      BY <2>2, WrittenType DEF Write, AnswerLost, TypeOK
    <3> QED BY <2>2, <3>1 DEF OwnerOK, Foreign, IsSecretManaged, Desired
  <2>3. CASE q = p /\ (GetForUpsert(p) \/ WriteRejected(p) \/ WriteFails(p))
    <3>1. UNCHANGED <<secret, seenSecret, secretEvents>> /\ (p \in missed => p \in missed')
      BY <2>3 DEF GetForUpsert, WriteRejected, WriteFails
    <3>2. job'[p].at # "delete"
      BY <2>3 DEF GetForUpsert, WriteRejected, WriteFails, Finish, GoOn, Idle, TypeOK
    <3> QED BY <1>0, <2>3, <3>1, <3>2, OwnerKept
  <2>4. CASE q = p /\ GetForCleanup(p)
    <3>1. UNCHANGED <<secret, seenSecret, secretEvents>> /\ (p \in missed => p \in missed')
      BY <2>4 DEF GetForCleanup
    <3>2. ~IsSecretManaged(p, seenSecret[p]) => job'[p].at # "delete"
      BY <2>4 DEF GetForCleanup, Finish, Idle, TypeOK
    <3> QED BY <1>0, <2>4, <3>1, <3>2 DEF OwnerOK, Foreign, IsSecretManaged
  <2> QED BY <1>9, <2>1, <2>2, <2>3, <2>4 DEF WorkStep
<1> QED BY <1>1, <1>2, <1>3, <1>4, <1>5, <1>6, <1>7, <1>8, <1>9, StepKinds DEF EnvStep
-----------------------------------------------------------------------------
(* A write changes the secret of its own key only, ends the job of that    *)
(* key, and tells the watch.                                               *)
LEMMA WriteFrame ==
  ASSUME TypeOK, JobInv, NEW p \in Profiles, Write(p) \/ AnswerLost(p)
  PROVE  /\ \A q \in Profiles : q # p => UNCHANGED <<secret[q], secretEvents[q], job[q]>>
         /\ job'[p] = Idle
         /\ up /\ up' = up /\ seenSecret' = seenSecret
         /\ secretEvents'[p] # <<>> /\ Last(secretEvents'[p]) = secret'[p]
<1>1. Accepted(p) /\ Written(p) /\ \E again \in BOOLEAN : Finish(p, again)
  BY DEF Write, AnswerLost
<1>2. /\ secret' \in [Profiles -> SecretState]
      /\ secret' = [secret EXCEPT ![p] = IF job[p].at = "delete" THEN Absent ELSE Desired(p, job[p].want)]
      /\ \A q \in Profiles : q # p => secretEvents'[q] = secretEvents[q]
      /\ job[p] # Idle
  BY <1>1, WrittenType
<1>3. job' = [job EXCEPT ![p] = Idle]
  BY <1>1 DEF Finish
<1>4. up /\ up' = up /\ seenSecret' = seenSecret
  BY <1>2, WorkFrame DEF JobInv, WorkStep
<1>5. secretEvents' = [secretEvents EXCEPT ![p] = Append(@, secret'[p])]
  BY <1>1, <1>2, <1>4 DEF Written, SecretBecomes, TypeOK
<1>6. secretEvents[p] \in Seq(SecretState) /\ secret'[p] \in SecretState
  BY <1>2 DEF TypeOK
<1>7. Append(secretEvents[p], secret'[p]) # <<>> /\ Last(Append(secretEvents[p], secret'[p])) = secret'[p]
  BY <1>6, LastAppend
<1>8. secretEvents'[p] = Append(secretEvents[p], secret'[p])
  BY <1>5 DEF TypeOK
<1> QED BY <1>2, <1>3, <1>4, <1>7, <1>8 DEF TypeOK

(* SeenInv and FreshInv for one key.                                       *)
SeenOK(p)  == up => IF secretEvents[p] = <<>> THEN seenSecret[p] = secret[p]
                    ELSE Last(secretEvents[p]) = secret[p]
FreshOK(p) == job[p].at = "delete" /\ job[p].fresh => IsSecretManaged(p, secret[p])

LEMMA SeenStep == TypeOK /\ TypeOK' /\ ViewInv /\ JobInv /\ SeenInv /\ [Next]_vars => SeenInv'
<1> SUFFICES ASSUME TypeOK, TypeOK', ViewInv, JobInv, SeenInv, [Next]_vars, NEW q \in Profiles PROVE SeenOK(q)'
  BY DEF SeenInv, SeenOK
<1>0. SeenOK(q)
  BY DEF SeenInv, SeenOK
<1>1. CASE UNCHANGED <<up, secret[q], seenSecret[q], secretEvents[q]>>
  BY <1>0, <1>1 DEF SeenOK
<1>2. CASE EstablishCRD \/ UNCHANGED vars
  BY <1>1, <1>2 DEF EstablishCRD, vars
<1>3. CASE Start
  BY <1>3 DEF Start, ViewInv, SeenOK
<1>4. CASE Crash
  BY <1>4 DEF Crash, SeenOK
<1>5. ASSUME NEW p \in Profiles, NEW x \in ProfileState, ChangeProfile(p, x) PROVE SeenOK(q)'
  BY <1>1, <1>5 DEF ChangeProfile
<1>6. ASSUME NEW p \in Profiles, NEW s \in UserSecrets, UserWrites(p, s) PROVE SeenOK(q)'
  <2>1. CASE q # p
    BY <1>1, <1>6, <2>1 DEF UserWrites, SecretBecomes, TypeOK
  <2>2. CASE q = p /\ up
    <3>1. secretEvents[p] \in Seq(SecretState) /\ s \in SecretState
      BY ProfileAssumption DEF TypeOK, SecretState
    <3>2. Append(secretEvents[p], s) # <<>> /\ Last(Append(secretEvents[p], s)) = s
      BY <3>1, LastAppend
    <3> QED BY <1>6, <2>2, <3>2 DEF UserWrites, SecretBecomes, SeenOK, TypeOK
  <2>3. CASE ~up
    BY <1>6, <2>3 DEF UserWrites, SeenOK
  <2> QED BY <2>1, <2>2, <2>3
<1>7. ASSUME NEW p \in Profiles, DeliverProfile(p) \/ Resync(p) \/ Reconcile(p) PROVE SeenOK(q)'
  BY <1>1, <1>7 DEF DeliverProfile, Resync, Reconcile
<1>8. ASSUME NEW p \in Profiles, DeliverSecret(p) PROVE SeenOK(q)'
  <2>1. PICK i \in 1..Len(secretEvents[p]) :
          /\ seenSecret' = [seenSecret EXCEPT ![p] = secretEvents[p][i]]
          /\ secretEvents' = [secretEvents EXCEPT ![p] = SubSeq(@, i + 1, Len(@))]
    BY <1>8 DEF DeliverSecret
  <2>2. secretEvents[p] \in Seq(SecretState) /\ secretEvents[p] # <<>>
    BY <2>1 DEF TypeOK
  <2>3. up /\ up' = up /\ secret' = secret
    BY <1>8 DEF DeliverSecret
  <2>4. CASE q # p
    BY <1>1, <2>1, <2>3, <2>4 DEF TypeOK
  <2>5. CASE q = p
    <3>1. Last(secretEvents[p]) = secret[p]
      BY <1>0, <2>2, <2>3, <2>5 DEF SeenOK
    <3>2. seenSecret'[p] = secretEvents[p][i] /\ secretEvents'[p] = SubSeq(secretEvents[p], i + 1, Len(secretEvents[p]))
      BY <2>1 DEF TypeOK
    <3> QED BY <2>2, <2>3, <2>5, <3>1, <3>2, LastSubSeq DEF SeenOK
  <2> QED BY <2>4, <2>5
<1>9. ASSUME NEW p \in Profiles, WorkStep(p) PROVE SeenOK(q)'
  <2>1. CASE Write(p) \/ AnswerLost(p)
    <3>1. CASE q # p
      BY <1>1, <2>1, <3>1, WriteFrame
    <3>2. CASE q = p
      BY <2>1, <3>2, WriteFrame DEF SeenOK
    <3> QED BY <3>1, <3>2
  <2>2. CASE GetForUpsert(p) \/ GetForCleanup(p) \/ WriteRejected(p) \/ WriteFails(p)
    BY <1>1, <2>2 DEF GetForUpsert, GetForCleanup, WriteRejected, WriteFails
  <2> QED BY <1>9, <2>1, <2>2 DEF WorkStep
<1> QED BY <1>2, <1>3, <1>4, <1>5, <1>6, <1>7, <1>8, <1>9, StepKinds DEF EnvStep

LEMMA FreshStep == TypeOK /\ TypeOK' /\ SeenInv /\ JobInv /\ FreshInv /\ [Next]_vars => FreshInv'
<1> SUFFICES ASSUME TypeOK, TypeOK', SeenInv, JobInv, FreshInv, [Next]_vars, NEW q \in Profiles PROVE FreshOK(q)'
  BY DEF FreshInv, FreshOK
<1>0. FreshOK(q)
  BY DEF FreshInv, FreshOK
<1>1. CASE UNCHANGED <<secret[q], job[q]>>
  BY <1>0, <1>1 DEF FreshOK, IsSecretManaged
<1>2. CASE job'[q].at # "delete"
  BY <1>2 DEF FreshOK
<1>3. CASE EstablishCRD \/ Start \/ UNCHANGED vars
  BY <1>1, <1>3 DEF EstablishCRD, Start, vars
<1>4. CASE Crash
  BY <1>2, <1>4 DEF Crash, Idle
<1>5. ASSUME NEW p \in Profiles, NEW x \in ProfileState, ChangeProfile(p, x) PROVE FreshOK(q)'
  BY <1>1, <1>5 DEF ChangeProfile
<1>6. ASSUME NEW p \in Profiles, NEW s \in UserSecrets, UserWrites(p, s) PROVE FreshOK(q)'
  <2>1. CASE q # p
    BY <1>1, <1>6, <2>1 DEF UserWrites, SecretBecomes, TypeOK
  <2>2. CASE q = p
    <3>1. job'[p].fresh = FALSE
      BY <1>6 DEF UserWrites, TypeOK, Job
    <3> QED BY <2>2, <3>1 DEF FreshOK
  <2> QED BY <2>1, <2>2
<1>7. ASSUME NEW p \in Profiles, DeliverProfile(p) \/ DeliverSecret(p) \/ Resync(p) PROVE FreshOK(q)'
  BY <1>1, <1>7 DEF DeliverProfile, DeliverSecret, Resync, Enqueue
<1>8. ASSUME NEW p \in Profiles, Reconcile(p) PROVE FreshOK(q)'
  <2>1. \/ job'[q] = job[q]
        \/ job'[q] = [at |-> "cleanup", want |-> Nil, fresh |-> FALSE]
        \/ job'[q] = [at |-> "upsert", want |-> seenProfile[p], fresh |-> FALSE]
    BY <1>8 DEF Reconcile, TypeOK
  <2>2. secret' = secret
    BY <1>8 DEF Reconcile
  <2> QED BY <1>1, <1>2, <2>1, <2>2
<1>9. ASSUME NEW p \in Profiles, WorkStep(p) PROVE FreshOK(q)'
  <2>1. CASE Write(p) \/ AnswerLost(p)
    BY <1>1, <1>2, <2>1, WriteFrame DEF Idle
  <2>2. CASE GetForUpsert(p) \/ GetForCleanup(p) \/ WriteRejected(p) \/ WriteFails(p)
    <3>1. secret' = secret
      BY <2>2 DEF GetForUpsert, GetForCleanup, WriteRejected, WriteFails
    <3>2. CASE q # p
      BY <1>1, <1>9, <3>1, <3>2, WorkEnds DEF Finish, GoOn, TypeOK
    <3>3. CASE q = p /\ GetForCleanup(p)
      <4>1. CASE IsSecretManaged(p, seenSecret[p])
        <5>1. job'[p] = [at |-> "delete", want |-> Nil, fresh |-> Fresh(p)]
          BY <3>3, <4>1 DEF GetForCleanup, GoOn, TypeOK
        <5>2. up
          BY <3>3 DEF GetForCleanup, JobInv, Idle
        <5>3. Fresh(p) => seenSecret[p] = secret[p]
          BY <5>2 DEF Fresh, SeenInv
        <5> QED BY <3>1, <3>3, <4>1, <5>1, <5>3 DEF FreshOK, IsSecretManaged
      <4>2. CASE ~IsSecretManaged(p, seenSecret[p])
        <5>1. job'[p] = Idle
          BY <3>3, <4>2 DEF GetForCleanup, Finish, TypeOK
        <5> QED BY <1>2, <3>3, <5>1 DEF Idle
      <4> QED BY <4>1, <4>2
    <3>4. CASE q = p /\ ~GetForCleanup(p)
      <4>1. job'[p].at # "delete"
        BY <2>2, <3>4 DEF GetForUpsert, WriteRejected, WriteFails, Finish, GoOn, Idle, TypeOK
      <4> QED BY <1>2, <3>4, <4>1
    <3> QED BY <3>2, <3>3, <3>4
  <2> QED BY <1>9, <2>1, <2>2 DEF WorkStep
<1> QED BY <1>3, <1>4, <1>5, <1>6, <1>7, <1>8, <1>9, StepKinds DEF EnvStep
-----------------------------------------------------------------------------
(* NoLostUpdate for one key: a step that ends the work on it leaves its    *)
(* secret what its profile asks for.                                       *)
UpdateOK(p) == up /\ p \notin missed => Pending(p) \/ Mirrors(p)

LEMMA UpdateKept ==
  ASSUME NEW q \in Profiles, UpdateOK(q), up,
         UNCHANGED <<profile[q], secret[q]>>,
         q \in missed => q \in missed',
         Pending(q) => Pending(q)'
  PROVE  UpdateOK(q)'
  BY DEF UpdateOK, Mirrors, UpToDate, IsSecretManaged

LEMMA WorkMirrors ==
  ASSUME TypeOK, JobInv, NEW p \in Profiles, WorkStep(p), ~Pending(p)', p \notin missed'
  PROVE  Mirrors(p)'
<1>1. UNCHANGED <<profile, profileEvents>> /\ profileEvents[p] = <<>>
  BY WorkFrame DEF Pending
<1>2. p \notin dirty' /\ job'[p] = Idle
  BY DEF Pending
<1>3. job[p] # Idle
  <2>1. job[p].at # "idle"
    BY DEF WorkStep, GetForUpsert, GetForCleanup, Write, WriteRejected, WriteFails, AnswerLost, Accepted
  <2> QED BY <2>1 DEF Idle
<1>0. \A want, fresh : /\ ~GoOn(p, "create", want, fresh)
                       /\ ~GoOn(p, "update", want, fresh)
                       /\ ~GoOn(p, "delete", want, fresh)
  BY <1>2 DEF GoOn, Idle, TypeOK
<1>4. Finish(p, FALSE)
  <2>1. ~Finish(p, TRUE)
    BY <1>2 DEF Finish
  <2> QED BY <1>0, <2>1 DEF WorkStep, GetForUpsert, GetForCleanup, Write, WriteRejected, WriteFails, AnswerLost
<1>5. p \notin dirty
  BY <1>2, <1>4 DEF Finish
<1>6. /\ job[p].at \in {"upsert", "create", "update"} => job[p].want \in Endpoints
      /\ profile[p] = IF job[p].at \in {"cleanup", "delete"} THEN Absent ELSE job[p].want
  BY <1>1, <1>3, <1>5 DEF JobInv
<1>7. CASE GetForUpsert(p)
  <2>1. secret' = secret /\ missed' = IF UpToDate(p, secret[p], job[p].want) THEN missed ELSE missed \cup {p}
    BY <1>7, <1>0 DEF GetForUpsert
  <2>2. UpToDate(p, secret[p], job[p].want)
    BY <2>1
  <2>3. profile[p] = job[p].want /\ job[p].want \in Endpoints
    BY <1>6, <1>7 DEF GetForUpsert
  <2> QED BY <1>1, <2>1, <2>2, <2>3, ProfileAssumption DEF Mirrors, UpToDate
<1>8. CASE GetForCleanup(p)
  <2>1. secret' = secret /\ missed' = IF IsSecretManaged(p, secret[p]) THEN missed \cup {p} ELSE missed
    BY <1>8, <1>0 DEF GetForCleanup
  <2>2. profile[p] = Absent
    BY <1>6, <1>8 DEF GetForCleanup
  <2> QED BY <1>1, <2>1, <2>2 DEF Mirrors, IsSecretManaged
<1>9. CASE Write(p)
  <2>1. /\ secret'[p] = IF job[p].at = "delete" THEN Absent ELSE Desired(p, job[p].want)
        /\ job[p].at \in {"create", "update"} => job[p].want \in Endpoints
    BY <1>9, WrittenType DEF Write, TypeOK
  <2>2. CASE job[p].at = "delete"
    BY <1>1, <1>6, <2>1, <2>2 DEF Mirrors, IsSecretManaged
  <2>3. CASE job[p].at \in {"create", "update"}
    <3>1. profile'[p] = job[p].want /\ job[p].want \in Endpoints /\ secret'[p] = Desired(p, job[p].want)
      BY <1>1, <1>6, <2>1, <2>3
    <3>2. secret'[p] # Absent
      BY <3>1, DesiredType
    <3> QED BY <3>1, <3>2, ProfileAssumption DEF Mirrors, UpToDate, Desired
  <2> QED BY <1>9, <2>2, <2>3 DEF Write, Accepted
<1>10. ~(WriteRejected(p) \/ WriteFails(p) \/ AnswerLost(p))
  BY <1>2 DEF WriteRejected, WriteFails, AnswerLost, Finish
<1> QED BY <1>7, <1>8, <1>9, <1>10 DEF WorkStep

LEMMA UpdateStep == TypeOK /\ TypeOK' /\ JobInv /\ NoLostUpdate /\ [Next]_vars => NoLostUpdate'
<1> SUFFICES ASSUME TypeOK, TypeOK', JobInv, NoLostUpdate, [Next]_vars, NEW q \in Profiles PROVE UpdateOK(q)'
  BY DEF NoLostUpdate, UpdateOK
<1>0. UpdateOK(q)
  BY DEF NoLostUpdate, UpdateOK
<1>1. CASE EstablishCRD \/ UNCHANGED vars
  BY <1>0, <1>1 DEF EstablishCRD, vars, UpdateOK, Pending, Mirrors, UpToDate, IsSecretManaged
<1>2. CASE Start
  BY <1>2 DEF Start, UpdateOK, Pending, Mirrors, IsSecretManaged
<1>3. CASE Crash
  BY <1>3 DEF Crash, UpdateOK
<1>4. ASSUME NEW p \in Profiles, NEW x \in ProfileState, ChangeProfile(p, x) PROVE UpdateOK(q)'
  <2>1. CASE q = p /\ up
    <3>1. profileEvents[p] \in Seq(ProfileState)
      BY DEF TypeOK
    <3>2. Append(profileEvents[p], x) # <<>>
      BY <3>1, LastAppend
    <3>3. profileEvents'[p] # <<>>
      BY <1>4, <2>1, <3>2 DEF ChangeProfile, ProfileBecomes, TypeOK
    <3> QED BY <2>1, <3>3 DEF UpdateOK, Pending
  <2>2. CASE q # p /\ up
    <3>1. UNCHANGED <<profile[q], secret[q], profileEvents[q], dirty, job, missed>>
      BY <1>4, <2>2 DEF ChangeProfile, ProfileBecomes, TypeOK
    <3> QED BY <1>0, <2>2, <3>1, UpdateKept DEF Pending
  <2>3. CASE ~up
    BY <1>4, <2>3 DEF ChangeProfile, UpdateOK
  <2> QED BY <2>1, <2>2, <2>3
<1>5. ASSUME NEW p \in Profiles, NEW s \in UserSecrets, UserWrites(p, s) PROVE UpdateOK(q)'
  <2>1. CASE q = p
    BY <1>5, <2>1 DEF UserWrites, UpdateOK
  <2>2. CASE q # p /\ up
    <3>1. UNCHANGED <<profile[q], secret[q], profileEvents[q], dirty, job[q]>> /\ (q \in missed => q \in missed')
      BY <1>5, <2>2 DEF UserWrites, SecretBecomes, TypeOK
    <3> QED BY <1>0, <2>2, <3>1, UpdateKept DEF Pending
  <2>3. CASE ~up
    BY <1>5, <2>3 DEF UserWrites, UpdateOK
  <2> QED BY <2>1, <2>2, <2>3
<1>6. ASSUME NEW p \in Profiles, DeliverProfile(p) PROVE UpdateOK(q)'
  <2>1. p \in dirty' /\ dirty \subseteq dirty' /\ job' = job
    BY <1>6, EnqueueType DEF DeliverProfile
  <2>2. CASE q = p
    BY <2>1, <2>2 DEF UpdateOK, Pending
  <2>3. CASE q # p
    <3>1. up /\ UNCHANGED <<profile[q], secret[q], profileEvents[q], missed>>
      BY <1>6, <2>3 DEF DeliverProfile, TypeOK
    <3> QED BY <1>0, <2>1, <3>1, UpdateKept DEF Pending
  <2> QED BY <2>2, <2>3
<1>7. ASSUME NEW p \in Profiles, DeliverSecret(p) \/ Resync(p) PROVE UpdateOK(q)'
  <2>1. up /\ UNCHANGED <<profile, secret, profileEvents, missed>>
    BY <1>7 DEF DeliverSecret, Resync
  <2>2. job' = job /\ dirty \subseteq dirty'
    BY <1>7, EnqueueType DEF DeliverSecret, Resync
  <2> QED BY <1>0, <2>1, <2>2, UpdateKept DEF Pending
<1>8. ASSUME NEW p \in Profiles, Reconcile(p) PROVE UpdateOK(q)'
  <2>1. up /\ UNCHANGED <<profile, secret, profileEvents, missed>>
    BY <1>8 DEF Reconcile
  <2>2. CASE q # p \/ seenProfile[p] = NoEndpoint
    <3>1. job'[q] = job[q] /\ (q \in dirty => q \in dirty')
      BY <1>8, <2>2 DEF Reconcile, TypeOK
    <3> QED BY <1>0, <2>1, <3>1, UpdateKept DEF Pending
  <2>3. CASE q = p /\ seenProfile[p] # NoEndpoint
    <3>1. job'[p].at \in {"cleanup", "upsert"}
      BY <1>8, <2>3 DEF Reconcile, TypeOK
    <3>2. job'[p] # Idle
      BY <3>1 DEF Idle
    <3> QED BY <2>3, <3>2 DEF UpdateOK, Pending
  <2> QED BY <2>2, <2>3
<1>9. ASSUME NEW p \in Profiles, WorkStep(p) PROVE UpdateOK(q)'
  <2>1. CASE q = p
    BY <1>9, <2>1, WorkMirrors DEF UpdateOK
  <2>2. CASE q # p
    <3>1. job'[q] = job[q] /\ (q \in dirty => q \in dirty')
      BY <1>9, <2>2, WorkEnds DEF Finish, GoOn, TypeOK
    <3>2. secret'[q] = secret[q]
      <4>1. CASE (Write(p) \/ AnswerLost(p))
        <5>1. Accepted(p) /\ Written(p)
          BY <4>1 DEF Write, AnswerLost
        <5>2. /\ secret' = [secret EXCEPT ![p] = IF job[p].at = "delete" THEN Absent ELSE Desired(p, job[p].want)]
              /\ secretEvents'[q] = secretEvents[q]
          BY <2>2, <5>1, WrittenType
        <5> QED BY <2>2, <5>2 DEF TypeOK
      <4>2. CASE GetForUpsert(p) \/ GetForCleanup(p) \/ WriteRejected(p) \/ WriteFails(p)
        BY <4>2 DEF GetForUpsert, GetForCleanup, WriteRejected, WriteFails
      <4> QED BY <1>9, <4>1, <4>2 DEF WorkStep
    <3>3. q \in missed => q \in missed'
      BY <1>9, <2>2 DEF WorkStep, GetForUpsert, GetForCleanup, Write, WriteRejected, WriteFails, AnswerLost
    <3>4. UNCHANGED <<profile, up, profileEvents>>
      BY <1>9, WorkFrame
    <3>5. CASE up
      BY <1>0, <3>1, <3>2, <3>3, <3>4, <3>5, UpdateKept DEF Pending
    <3>6. CASE ~up
      BY <3>4, <3>6 DEF UpdateOK
    <3> QED BY <3>5, <3>6
  <2> QED BY <2>1, <2>2
<1> QED BY <1>1, <1>2, <1>3, <1>4, <1>5, <1>6, <1>7, <1>8, <1>9, StepKinds DEF EnvStep
-----------------------------------------------------------------------------
(***************************************************************************)
(* The invariant, and what follows from it.                                *)
(***************************************************************************)
LEMMA Initially == Init => IInv
<1> SUFFICES ASSUME Init PROVE IInv
  OBVIOUS
<1>1. up = FALSE /\ \A p \in Profiles : profileEvents[p] = <<>> /\ secretEvents[p] = <<>> /\ job[p] = Idle
  BY DEF Init
<1>2. \A p \in Profiles : seenSecret[p] = Absent
  BY DEF Init
<1>3. TypeOK
  <2>1. Idle \in Job /\ Absent \in ProfileState
    BY DEF Idle, Job, ProfileState
  <2>2. secret \in [Profiles -> SecretState] /\ Absent \in SecretState
    BY DEF Init, SecretState
  <2>3. profile \in [Profiles -> ProfileState]
    BY <2>1 DEF Init
  <2>4. queue \in Seq(Profiles) /\ dirty \subseteq Profiles /\ missed \subseteq Profiles
    BY EmptyIsSeq DEF Init
  <2>5. /\ seenProfile \in [Profiles -> ProfileState] /\ seenSecret \in [Profiles -> SecretState]
        /\ profileEvents \in [Profiles -> Seq(ProfileState)] /\ secretEvents \in [Profiles -> Seq(SecretState)]
        /\ job \in [Profiles -> Job]
    BY <2>1, <2>2, EmptyIsSeq DEF Init
  <2>6. established \in BOOLEAN /\ up \in BOOLEAN
    BY DEF Init
  <2>7. changes \in 0..MaxChanges /\ faults \in 0..MaxFaults
    BY ProfileAssumption DEF Init
  <2> QED BY <2>2, <2>3, <2>4, <2>5, <2>6, <2>7 DEF TypeOK
<1>4. ViewInv /\ JobInv /\ NoLostUpdate
  BY <1>1 DEF ViewInv, JobInv, NoLostUpdate
<1>5. OwnerInv
  BY <1>1, <1>2 DEF OwnerInv, IsSecretManaged, Idle
<1>6. SeenInv /\ FreshInv
  BY <1>1 DEF SeenInv, FreshInv, Idle
<1> QED BY <1>3, <1>4, <1>5, <1>6 DEF IInv

(* The invariant holds in every reachable state.                           *)
THEOREM Invariance == Spec => []IInv
<1>1. IInv /\ [Next]_vars => IInv'
  BY TypeStep, ViewStep, SeenStep, JobStep, OwnerStep, FreshStep, UpdateStep DEF IInv
<1> QED BY Initially, <1>1, PTL DEF Spec

(* The variables keep their types through every step.                      *)
THEOREM Typing == Spec => []TypeOK
<1>1. IInv => TypeOK
  BY DEF IInv
<1> QED BY Invariance, <1>1, PTL

(* No update of a profile is lost: a secret that does not mirror its       *)
(* profile has work ahead of it, or is one of those that "missed" names.   *)
THEOREM NothingLost == Spec => []NoLostUpdate
<1>1. IInv => NoLostUpdate
  BY DEF IInv
<1> QED BY Invariance, <1>1, PTL

(* Who removes a secret: a user, or the deletion that a cleanup set out to *)
(* do; the latter may leave the key dirty and leaves the events alone.     *)
LEMMA WhoDeletes ==
  ASSUME TypeOK, JobInv, [Next]_vars, ~UserStep,
         NEW p \in Profiles, secret[p] # Absent, secret'[p] = Absent
  PROVE  /\ job[p].at = "delete"
         /\ UNCHANGED <<profile, profileEvents>> /\ dirty \subseteq dirty'
<1>1. CASE EstablishCRD \/ Start \/ Crash \/ UNCHANGED vars
  BY <1>1 DEF EstablishCRD, Start, Crash, vars
<1>2. ASSUME NEW q \in Profiles, DeliverProfile(q) \/ DeliverSecret(q) \/ Resync(q) \/ Reconcile(q) PROVE FALSE
  BY <1>2 DEF DeliverProfile, DeliverSecret, Resync, Reconcile
<1>3. ASSUME NEW q \in Profiles, EnvStep(q) PROVE FALSE
  BY <1>3 DEF EnvStep, ChangeProfile, UserWrites, Change, UserStep, TypeOK
<1>4. ASSUME NEW q \in Profiles, WorkStep(q) PROVE q = p /\ (Write(q) \/ AnswerLost(q))
  <2>1. Write(q) \/ AnswerLost(q)
    BY <1>4 DEF WorkStep, GetForUpsert, GetForCleanup, WriteRejected, WriteFails
  <2>2. Accepted(q) /\ Written(q)
    BY <2>1 DEF Write, AnswerLost
  <2>3. secret' = [secret EXCEPT ![q] = IF job[q].at = "delete" THEN Absent ELSE Desired(q, job[q].want)]
    BY <2>2, WrittenType
  <2> QED BY <2>1, <2>3 DEF TypeOK
<1>5. ASSUME Write(p) \/ AnswerLost(p)
      PROVE  job[p].at = "delete" /\ UNCHANGED <<profile, profileEvents>> /\ dirty \subseteq dirty'
  <2>1. Accepted(p) /\ Written(p)
    BY <1>5 DEF Write, AnswerLost
  <2>2. /\ secret' = [secret EXCEPT ![p] = IF job[p].at = "delete" THEN Absent ELSE Desired(p, job[p].want)]
        /\ job[p].at \in {"create", "update"} => job[p].want \in Endpoints
    BY <2>1, WrittenType
  <2>3. job[p].at = "delete"
    BY <2>1, <2>2, DesiredType DEF Accepted, TypeOK
  <2>4. UNCHANGED <<profile, profileEvents>> /\ dirty \subseteq dirty'
    BY <1>5 DEF Write, AnswerLost, Finish
  <2> QED BY <2>3, <2>4
<1> QED BY <1>1, <1>2, <1>3, <1>4, <1>5, StepKinds

(* The controller deletes its own secrets only, except where a user put    *)
(* another in the place of one after the copy that it judged was taken.    *)
THEOREM DeletesOwn == Spec => DeletesItsOwn
<1>1. ASSUME IInv, [Next]_vars
      PROVE  \A p \in Profiles :
               secret[p] # Absent /\ secret'[p] = Absent /\ ~IsSecretManaged(p, secret[p])
                 => UserStep \/ (p \in missed /\ ~job[p].fresh)
  <2> SUFFICES ASSUME NEW p \in Profiles, secret[p] # Absent, secret'[p] = Absent,
                      ~IsSecretManaged(p, secret[p]), ~UserStep
               PROVE  p \in missed /\ ~job[p].fresh
    OBVIOUS
  <2>1. job[p].at = "delete"
    BY <1>1, WhoDeletes DEF IInv
  <2>2. p \in missed
    BY <1>1, <2>1 DEF IInv, OwnerInv, Foreign
  <2>3. ~job[p].fresh
    BY <1>1, <2>1 DEF IInv, FreshInv
  <2> QED BY <2>2, <2>3
<1> QED BY Invariance, <1>1, PTL DEF DeletesItsOwn, Spec

(* A secret that is deleted although its profile is back has the work that *)
(* will create it again ahead of it.                                       *)
THEOREM DeletionRepaired == Spec => DeletionIsRepaired
<1>1. ASSUME IInv, [Next]_vars
      PROVE  \A p \in Profiles :
               /\ secret[p] # Absent /\ secret'[p] = Absent /\ ~UserStep
               /\ profile[p] # Absent
               => Pending(p)'
  <2> SUFFICES ASSUME NEW p \in Profiles,
                      secret[p] # Absent, secret'[p] = Absent, ~UserStep, profile[p] # Absent
               PROVE  Pending(p)'
    OBVIOUS
  <2>1. job[p].at = "delete" /\ UNCHANGED <<profile, profileEvents>> /\ dirty \subseteq dirty'
    BY <1>1, WhoDeletes DEF IInv
  <2>2. job[p] # Idle
    BY <2>1 DEF Idle
  <2>3. profileEvents[p] # <<>> \/ p \in dirty
    BY <1>1, <2>1, <2>2 DEF IInv, JobInv
  <2> QED BY <2>1, <2>3 DEF Pending
<1> QED BY Invariance, <1>1, PTL DEF DeletionIsRepaired, Spec
=============================================================================
