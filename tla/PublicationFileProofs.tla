----------------------- MODULE PublicationFileProofs -----------------------
(***************************************************************************)
(* Theorems about the files of Publication: the staged temporary files,    *)
(* the promoted artifacts and the quarantine, against the rows that name   *)
(* them by hash.                                                           *)
(*                                                                         *)
(* PublicationProofs shows what the database promises whatever fails.  The *)
(* promises about files come in two kinds.  That bytes are retained holds  *)
(* whatever fails too.  That they stay where readers and repair look for   *)
(* them holds only without some of the faults, and each such theorem names *)
(* the faults it leaves out.                                               *)
(***************************************************************************)
EXTENDS PublicationProofs

----------------------------------------------------------------------------
(* The inductive invariants.                                               *)

\* Bytes c, once at the path of version v, are still there, were moved to
\* quarantine or were destroyed by the environment.
Retained(v, c) == v \in damaged \/ dest[v] = c \/ <<v, c>> \in quarantine

\* Whoever verified an artifact publishes its manifest some steps later.
Retention ==
    /\ \A v \in Published : Retained(v, hash[v])
    /\ \A p \in Publishers : pc[p] = "verified" => Retained(job[p].ver, job[p].want)
    /\ \A r \in Reconcilers : rpc[r] = "publish" => Retained(cur[r], hash[cur[r]])

\* The payload of a manifest is at one of its two paths, and nothing else is.
Payload(v) ==
    /\ dest[v] \in {Nothing, hash[v]}
    /\ temp[v] \in {Nothing, hash[v]}
    /\ dest[v] = hash[v] \/ temp[v] = hash[v]

\* What a publisher that is never refused by the disk or by a commit knows
\* of its files.
Promoting(p) ==
    /\ pc[p] \notin {"rolled_back", "link_failed"}
    /\ (pc[p] = "staged" /\ job[p].fresh) => temp[job[p].ver] = job[p].want
    /\ pc[p] = "linked" => dest[job[p].ver] = job[p].want

Durable ==
    /\ \A v \in Versions \ Allocated : dest[v] = Nothing
    /\ \A v \in Allocated : Payload(v)
    /\ \A p \in Publishers : Promoting(p)

\* Content c is not what the newest published version carries.
Changed(c) == \A v \in Published : hash[v] = c => \E u \in Published : v < u

\* Where nobody forces a new version, one is opened for changed content only,
\* and the content stays changed until that version is decided upon.
Economy ==
    /\ NoRedundantVersion
    /\ Published \subseteq profiles
    /\ \A w \in Drafts : Changed(hash[w])
    /\ \A p \in Publishers :
        /\ ~job[p].force
        /\ (pc[p] \in InPhaseOne /\ job[p].fresh) => Changed(job[p].want)

----------------------------------------------------------------------------
(* What one step does to the artifacts.                                    *)

\* Artifacts leave their path for the quarantine or by damage only, and
\* nothing leaves the quarantine.
ArtifactsStay ==
    /\ quarantine \subseteq quarantine'
    /\ damaged \subseteq damaged'
    /\ \A v \in Versions : dest[v] # Nothing =>
          dest'[v] = dest[v] \/ <<v, dest[v]>> \in quarantine' \/ v \in damaged'

LEMMA ArtifactsUntouched ==
    ASSUME UNCHANGED <<dest, quarantine, damaged>>
    PROVE  ArtifactsStay
BY DEF ArtifactsStay

LEMMA PublisherKeepsArtifacts ==
    ASSUME TypeOK, NEW p \in Publishers, Publisher(p)
    PROVE  ArtifactsStay
<1> USE DEF TypeOK, FileTypes, files
<1>1. CASE Promote(p)
  <2>1. UNCHANGED <<quarantine, damaged>>
    BY <1>1 DEF Promote
  <2>2. \/ UNCHANGED dest
        \/ dest[job[p].ver] = Nothing /\ dest' = [dest EXCEPT ![job[p].ver] = temp[job[p].ver]]
    BY <1>1 DEF Promote, Linked, PeerPromoted, CannotLink
  <2> QED  BY <2>1, <2>2 DEF ArtifactsStay
<1>2. CASE \/ Prepare(p) \/ RepublishUnchanged(p) \/ RefusePending(p) \/ AdoptPending(p)
           \/ RefuseSupersession(p) \/ FailOnTakenSuccessor(p) \/ OpenVersion(p)
           \/ Stage(p) \/ StageTorn(p) \/ CommitPending(p)
  <2>1. UNCHANGED <<dest, quarantine, damaged>>
    BY <1>2 DEF Prepare, RepublishUnchanged, RefusePending, AdoptPending, RefuseSupersession,
                FailOnTakenSuccessor, OpenVersion, Stage, StageTorn, CommitPending
  <2> QED  BY <2>1, ArtifactsUntouched
<1>3. CASE \/ RollBackPending(p) \/ Discard(p) \/ PromoteFails(p) \/ CleanUp(p)
           \/ VerifyPromoted(p) \/ Complete(p) \/ CompletionFails(p) \/ Crash(p)
  <2>1. UNCHANGED <<dest, quarantine, damaged>>
    BY <1>3 DEF RollBackPending, Discard, PromoteFails, CleanUp, VerifyPromoted, Complete,
                CompletionFails, Crash
  <2> QED  BY <2>1, ArtifactsUntouched
<1> QED  BY <1>1, <1>2, <1>3 DEF Publisher

LEMMA ReconcilerKeepsArtifacts ==
    ASSUME TypeOK, NEW r \in Reconcilers, Reconcile(r) \/ ReconcilerCrash(r)
    PROVE  ArtifactsStay
<1> USE DEF TypeOK, FileTypes, files
<1>1. CASE InspectArtifact(r)
  <2>1. UNCHANGED damaged
    BY <1>1 DEF InspectArtifact
  <2>2. \/ UNCHANGED <<dest, quarantine>>
        \/ /\ quarantine' = quarantine \cup {<<cur[r], dest[cur[r]]>>}
           /\ dest' = [dest EXCEPT ![cur[r]] = Nothing]
    BY <1>1 DEF InspectArtifact, Quarantine
  <2> QED  BY <2>1, <2>2 DEF ArtifactsStay
<1>2. CASE PromoteStaged(r)
  <2>1. UNCHANGED <<quarantine, damaged>>
    BY <1>2 DEF PromoteStaged
  <2>2. \/ UNCHANGED dest
        \/ dest[cur[r]] = Nothing /\ dest' = [dest EXCEPT ![cur[r]] = temp[cur[r]]]
    BY <1>2 DEF PromoteStaged, Linked, PeerPromoted, CannotLink
  <2> QED  BY <2>1, <2>2 DEF ArtifactsStay
<1>3. CASE AuditUnreadable(r)
  <2>1. UNCHANGED damaged
    BY <1>3 DEF AuditUnreadable
  <2>2. PICK v \in todo[r] :
          \/ UNCHANGED <<dest, quarantine>>
          \/ /\ quarantine' = quarantine \cup {<<v, dest[v]>>}
             /\ dest' = [dest EXCEPT ![v] = Nothing]
    BY <1>3 DEF AuditUnreadable, Quarantine
  <2> QED  BY <2>1, <2>2 DEF ArtifactsStay
<1>4. CASE SweepOrphans(r)
  <2> DEFINE orphans == {v \in Versions \ known[r] : dest[v] # Nothing}
  <2>1. /\ dest' = [v \in Versions |-> IF v \in orphans THEN Nothing ELSE dest[v]]
        /\ quarantine' = quarantine \cup {<<v, dest[v]>> : v \in orphans}
        /\ UNCHANGED damaged
    BY <1>4 DEF SweepOrphans, Quarantine
  <2> HIDE DEF orphans
  <2>2. ASSUME NEW v \in Versions
        PROVE  dest'[v] = dest[v] \/ <<v, dest[v]>> \in quarantine'
    <3>1. CASE v \in orphans
      BY <2>1, <3>1
    <3>2. CASE v \notin orphans
      BY <2>1, <3>2
    <3> QED  BY <3>1, <3>2
  <2> QED  BY <2>1, <2>2 DEF ArtifactsStay
<1>5. CASE \/ ListPending(r) \/ TakePending(r) \/ InspectTemp(r) \/ CleanUpStaged(r)
           \/ VerifyStaged(r) \/ PublishPending(r) \/ WithdrawPending(r)
  <2>1. UNCHANGED <<dest, damaged>> /\ quarantine \subseteq quarantine'
    BY <1>5 DEF ListPending, TakePending, InspectTemp, CleanUpStaged, VerifyStaged,
                PublishPending, WithdrawPending, Quarantine
  <2> QED  BY <2>1 DEF ArtifactsStay
<1>6. CASE \/ ListPublished(r) \/ AuditHealthy(r) \/ ReindexDate(r) \/ RestoreProfile(r)
           \/ SweepTemps(r) \/ ReconcilerCrash(r)
  <2>1. UNCHANGED <<dest, quarantine, damaged>>
    BY <1>6 DEF ListPublished, AuditHealthy, ReindexDate, RestoreProfile, SweepTemps,
                ReconcilerCrash
  <2> QED  BY <2>1, ArtifactsUntouched
<1> QED  BY <1>1, <1>2, <1>3, <1>4, <1>5, <1>6 DEF Reconcile

LEMMA StepKeepsArtifacts ==
    ASSUME TypeOK, [Next]_vars
    PROVE  ArtifactsStay
<1>1. ASSUME NEW v \in Versions, Age(v) \/ Damage(v)
      PROVE  ArtifactsStay
  <2>1. quarantine' = quarantine /\ damaged \subseteq damaged'
    BY <1>1 DEF Age, Damage
  <2>2. UNCHANGED dest \/ (v \in damaged' /\ \E b \in {Nothing, Garbled} : dest' = [dest EXCEPT ![v] = b])
    BY <1>1 DEF Age, Damage
  <2> QED  BY <2>1, <2>2 DEF ArtifactsStay, TypeOK, FileTypes
<1>2. CASE UNCHANGED vars
  BY <1>2, ArtifactsUntouched DEF vars, files
<1> QED
  BY <1>1, <1>2, PublisherKeepsArtifacts, ReconcilerKeepsArtifacts DEF Next

\* What was retained stays retained.
LEMMA StaysRetained ==
    ASSUME ArtifactsStay, NEW v \in Versions, NEW c \in Contents, Retained(v, c)
    PROVE  Retained(v, c)'
BY PublicationAssumption DEF PublicationAssumption, ArtifactsStay, Retained

----------------------------------------------------------------------------
(* Who publishes, and what it had verified.                                *)

\* A version becomes published by the step of a publisher or reconciler
\* that has verified its artifact.
LEMMA WhoPublishes ==
    ASSUME Inductive, [Next]_vars, NEW v \in Published', v \notin Published
    PROVE  /\ v \in Drafts
           /\ hash'[v] = hash[v]
           /\ v \in profiles'
           /\ \/ \E p \in Publishers :
                    Complete(p) /\ pc[p] = "verified" /\ v = job[p].ver /\ hash[v] = job[p].want
              \/ \E r \in Reconcilers :
                    PublishPending(r) /\ rpc[r] = "publish" /\ v = cur[r]
<1> USE DEF Inductive, TypeOK, RowTypes
<1>0. v \in Versions /\ status[v] # "published" /\ status'[v] = "published"
  BY DEF Published
<1>1. ASSUME NEW p \in Publishers, Publisher(p)
      PROVE  /\ v \in Drafts /\ hash' = hash /\ v \in profiles'
             /\ Complete(p) /\ pc[p] = "verified" /\ v = job[p].ver /\ hash[v] = job[p].want
  <2>1. ~UNCHANGED status
    BY <1>0
  <2>2. ~CommitPending(p)
    BY <1>0 DEF CommitPending
  <2>3. Complete(p)
    BY <1>1, <2>1, <2>2
       DEF Publisher, Prepare, RepublishUnchanged, RefusePending, AdoptPending,
           RefuseSupersession, FailOnTakenSuccessor, OpenVersion, Stage, StageTorn,
           RollBackPending, Discard, Promote, PromoteFails, CleanUp, VerifyPromoted,
           CompletionFails, Crash, database
  <2>4. /\ status[job[p].ver] = "draft"
        /\ status' = [status EXCEPT ![job[p].ver] = "published"]
        /\ profiles' = profiles \cup {job[p].ver}
        /\ pc[p] = "verified" /\ hash' = hash
    BY <2>1, <2>3 DEF Complete
  <2>5. v = job[p].ver
    BY <1>0, <2>4
  <2> QED
    BY <1>0, <2>3, <2>4, <2>5 DEF Own, CommittedIsOwn, InPhaseTwo, Drafts
<1>2. ASSUME NEW r \in Reconcilers, Reconcile(r) \/ ReconcilerCrash(r)
      PROVE  /\ v \in Drafts /\ hash' = hash /\ v \in profiles'
             /\ PublishPending(r) /\ rpc[r] = "publish" /\ v = cur[r]
  <2>1. ~UNCHANGED status
    BY <1>0
  <2>2. ~WithdrawPending(r)
    BY <1>0 DEF WithdrawPending
  <2>3. PublishPending(r)
    BY <1>2, <2>1, <2>2
       DEF Reconcile, ReconcilerCrash, ListPending, TakePending, InspectArtifact, InspectTemp,
           PromoteStaged, CleanUpStaged, VerifyStaged, ListPublished, AuditHealthy,
           AuditUnreadable, ReindexDate, RestoreProfile, SweepOrphans, SweepTemps, database
  <2>4. /\ status' = [status EXCEPT ![cur[r]] = "published"]
        /\ profiles' = profiles \cup {cur[r]}
        /\ rpc[r] = "publish" /\ hash' = hash
    BY <2>1, <2>3 DEF PublishPending
  <2>5. cur[r] \in Drafts
    BY <2>4 DEF RepairHolds, RepairStands, InRepair
  <2>6. v = cur[r]
    BY <1>0, <2>4
  <2> QED  BY <2>3, <2>4, <2>5, <2>6
<1>3. ~UNCHANGED vars /\ \A w \in Versions : ~Age(w) /\ ~Damage(w)
  BY <1>0 DEF vars, database, Age, Damage
<1> QED  BY <1>1, <1>2, <1>3 DEF Next

\* A publisher is about to complete what it verified, just now or before.
LEMMA WhoVerified ==
    ASSUME Inductive, [Next]_vars, NEW p \in Publishers, pc'[p] = "verified"
    PROVE  /\ job'[p] = job[p]
           /\ pc[p] = "verified" \/ (dest[job[p].ver] = job[p].want /\ UNCHANGED dest)
<1> USE DEF Inductive, TypeOK, PublisherTypes, Goto, Idle, Outcomes
<1>1. ASSUME NEW q \in Publishers, Publisher(q), q # p
      PROVE  pc'[p] = pc[p] /\ job'[p] = job[p]
  BY <1>1, PublisherIsOrderly
<1>2. CASE Publisher(p)
  <2>1. VerifyPromoted(p)
    BY <1>2 DEF Publisher, Prepare, RepublishUnchanged, RefusePending, AdoptPending,
           RefuseSupersession, FailOnTakenSuccessor, OpenVersion, Stage, StageTorn,
           CommitPending, RollBackPending, Discard, Promote, PromoteFails, CleanUp,
           Complete, CompletionFails, Crash
  <2> QED  BY <2>1 DEF VerifyPromoted, files
<1>3. ASSUME UNCHANGED publisherVars
      PROVE  pc'[p] = pc[p] /\ job'[p] = job[p]
  BY <1>3 DEF publisherVars
<1>4. ASSUME NEW r \in Reconcilers, Reconcile(r) \/ ReconcilerCrash(r)
      PROVE  UNCHANGED publisherVars
  BY <1>4, ReconcilerIsOrderly
<1>5. ASSUME \/ \E v \in Versions : Age(v) \/ Damage(v)
             \/ UNCHANGED vars
      PROVE  UNCHANGED publisherVars
  BY <1>5 DEF Age, Damage, vars
<1> QED  BY <1>1, <1>2, <1>3, <1>4, <1>5 DEF Next

\* A reconciler is about to publish what it found intact, just now or before.
LEMMA WhoInspected ==
    ASSUME Inductive, [Next]_vars, NEW r \in Reconcilers, rpc'[r] = "publish"
    PROVE  /\ cur'[r] = cur[r]
           /\ \/ rpc[r] = "publish"
              \/ rpc[r] \in InRepair /\ Intact(cur[r]) /\ UNCHANGED dest
<1> USE DEF Inductive, TypeOK, ReconcilerTypes, Resume, Abort, Exit, InRepair
<1>1. ASSUME NEW q \in Reconcilers, Reconcile(q) \/ ReconcilerCrash(q), q # r
      PROVE  rpc'[r] = rpc[r] /\ cur'[r] = cur[r]
  BY <1>1, ReconcilerIsOrderly
<1>2. CASE Reconcile(r) \/ ReconcilerCrash(r)
  <2>1. InspectArtifact(r) \/ VerifyStaged(r) \/ (TakePending(r) /\ UNCHANGED <<rpc, cur>>)
    BY <1>2
       DEF Reconcile, ReconcilerCrash, ListPending, TakePending, InspectTemp,
           PromoteStaged, CleanUpStaged, PublishPending, WithdrawPending,
           ListPublished, AuditHealthy, AuditUnreadable, ReindexDate, RestoreProfile,
           SweepOrphans, SweepTemps
  <2> QED  BY <2>1 DEF InspectArtifact, VerifyStaged, files
<1>3. ASSUME UNCHANGED reconcilerVars
      PROVE  rpc'[r] = rpc[r] /\ cur'[r] = cur[r]
  BY <1>3 DEF reconcilerVars
<1>4. ASSUME NEW p \in Publishers, Publisher(p)
      PROVE  UNCHANGED reconcilerVars
  BY <1>4, PublisherIsOrderly
<1>5. ASSUME \/ \E v \in Versions : Age(v) \/ Damage(v)
             \/ UNCHANGED vars
      PROVE  UNCHANGED reconcilerVars
  BY <1>5 DEF Age, Damage, vars
<1> QED  BY <1>1, <1>2, <1>3, <1>4, <1>5 DEF Next

----------------------------------------------------------------------------
(* Retention.                                                              *)

LEMMA InitRetention == Init => Retention
<1> SUFFICES ASSUME Init PROVE Retention
  OBVIOUS
<1>1. \A v \in Published : dest[v] = hash[v]
  BY DEF Init, Published
<1> QED  BY <1>1 DEF Init, Retention, Retained

LEMMA NextRetention ==
    ASSUME Inductive, Inductive', Grows, Retention, [Next]_vars
    PROVE  Retention'
<1>0. ArtifactsStay
  BY StepKeepsArtifacts DEF Inductive
<1>1. ASSUME NEW v \in Versions, NEW c \in Contents, Retained(v, c)
      PROVE  v \in damaged' \/ dest'[v] = c \/ <<v, c>> \in quarantine'
  BY <1>0, <1>1, StaysRetained DEF Retained
<1>2. ASSUME NEW v \in Allocated
      PROVE  v \in Versions /\ hash[v] \in Contents /\ hash'[v] = hash[v]
  BY <1>2 DEF Inductive, Consistent, RowsAreWhole, Grows, Allocated
<1>3. ASSUME NEW p \in Publishers, pc[p] = "verified"
      PROVE  job[p].ver \in Allocated /\ hash[job[p].ver] = job[p].want
  BY <1>3 DEF Inductive, Own, CommittedIsOwn, InPhaseTwo
<1>4. ASSUME NEW r \in Reconcilers, rpc[r] \in InRepair
      PROVE  cur[r] \in Allocated
  BY <1>4 DEF Inductive, RepairHolds, RepairStands, Drafts, Allocated
<1>5. ASSUME NEW v \in Published'
      PROVE  Retained(v, hash[v])' 
  <2>1. CASE v \in Published
    <3>1. v \in Allocated /\ Retained(v, hash[v])
      BY <2>1 DEF Retention, Published, Allocated
    <3> QED  BY <1>1, <1>2, <3>1 DEF Retained
  <2>2. CASE v \notin Published
    <3>1. v \in Allocated /\ hash'[v] = hash[v] /\ Retained(v, hash[v])
      BY <2>2, WhoPublishes DEF Retention, Drafts, Allocated
    <3> QED  BY <1>1, <1>2, <3>1 DEF Retained
  <2> QED  BY <2>1, <2>2
<1>6. ASSUME NEW p \in Publishers, pc'[p] = "verified"
      PROVE  Retained(job[p].ver, job[p].want)'
  <2>1. /\ job'[p] = job[p]
        /\ pc[p] = "verified" \/ (dest[job[p].ver] = job[p].want /\ UNCHANGED dest)
    BY <1>6, WhoVerified
  <2>2. CASE pc[p] = "verified"
    <3>1. /\ job[p].ver \in Versions /\ job[p].want \in Contents
          /\ Retained(job[p].ver, job[p].want)
      BY <1>2, <1>3, <2>2 DEF Retention
    <3> QED  BY <1>1, <2>1, <3>1 DEF Retained
  <2>3. CASE dest[job[p].ver] = job[p].want /\ UNCHANGED dest
    BY <2>1, <2>3 DEF Retained
  <2> QED  BY <2>1, <2>2, <2>3
<1>7. ASSUME NEW r \in Reconcilers, rpc'[r] = "publish"
      PROVE  Retained(cur[r], hash[cur[r]])'
  <2>1. /\ cur'[r] = cur[r]
        /\ \/ rpc[r] = "publish"
           \/ rpc[r] \in InRepair /\ Intact(cur[r]) /\ UNCHANGED dest
    BY <1>7, WhoInspected
  <2>2. cur[r] \in Allocated
    BY <1>4, <2>1 DEF InRepair
  <2>3. CASE rpc[r] = "publish"
    <3>1. Retained(cur[r], hash[cur[r]])
      BY <2>3 DEF Retention
    <3> QED  BY <1>1, <1>2, <2>1, <2>2, <3>1 DEF Retained
  <2>4. CASE Intact(cur[r]) /\ UNCHANGED dest
    BY <1>2, <2>1, <2>2, <2>4 DEF Intact, Retained
  <2> QED  BY <2>1, <2>3, <2>4
<1> QED  BY <1>5, <1>6, <1>7 DEF Retention

----------------------------------------------------------------------------
(* No version repeats the one before it.                                   *)

LEMMA InitEconomy ==
    ASSUME Legacy \subseteq {FALSE}, Init
    PROVE  Economy
<1>1. Allocated = {}
  BY DEF Init, Allocated
<1>2. Published = {} /\ Drafts = {}
  BY <1>1 DEF Published, Drafts, Allocated
<1> QED
  BY <1>2, VersionFacts DEF Init, NoJob, InPhaseOne, Economy, NoRedundantVersion

\* A manifest becomes pending by the commit of the publisher that opened it.
LEMMA WhoOpens ==
    ASSUME Inductive, [Next]_vars, NEW v \in Drafts', v \notin Drafts
    PROVE  /\ Published' = Published
           /\ \E p \in Publishers :
                /\ pc[p] = "staged" /\ job[p].fresh
                /\ v = job[p].ver /\ hash'[v] = job[p].want
<1> USE DEF Inductive, TypeOK, RowTypes
<1>0. v \in Versions /\ status[v] # "draft" /\ status'[v] = "draft"
  BY DEF Drafts
<1>1. ASSUME NEW p \in Publishers, Publisher(p)
      PROVE  /\ Published' = Published
             /\ pc[p] = "staged" /\ job[p].fresh
             /\ v = job[p].ver /\ hash'[v] = job[p].want
  <2>1. ~UNCHANGED status
    BY <1>0
  <2>2. ~Complete(p)
    BY <1>0 DEF Complete
  <2>3. CommitPending(p)
    BY <1>1, <2>1, <2>2
       DEF Publisher, Prepare, RepublishUnchanged, RefusePending, AdoptPending,
           RefuseSupersession, FailOnTakenSuccessor, OpenVersion, Stage, StageTorn,
           RollBackPending, Discard, Promote, PromoteFails, CleanUp, VerifyPromoted,
           CompletionFails, Crash, database
  <2>4. /\ status' = [status EXCEPT ![job[p].ver] = "draft"]
        /\ hash' = [hash EXCEPT ![job[p].ver] = job[p].want]
        /\ pc[p] = "staged" /\ job[p].fresh
    BY <2>1, <2>3 DEF CommitPending
  <2>5. v = job[p].ver
    BY <1>0, <2>4
  <2>6. v \notin Allocated
    <3>1. Own(p) /\ v \in Nat
      BY <1>0, VersionFacts
    <3>2. \A w \in Allocated : w < v
      BY <2>4, <2>5, <3>1 DEF Own, InPhaseOne, DecisionStands
    <3> QED  BY <3>1, <3>2
  <2>7. Published' = Published
    BY <2>4, <2>5, <2>6 DEF Published, Allocated
  <2> QED  BY <1>0, <2>4, <2>5, <2>7
<1>2. ASSUME NEW r \in Reconcilers, Reconcile(r) \/ ReconcilerCrash(r)
      PROVE  FALSE
  <2>1. ~UNCHANGED status
    BY <1>0
  <2>2. ~WithdrawPending(r) /\ ~PublishPending(r)
    BY <1>0 DEF WithdrawPending, PublishPending
  <2> QED
    BY <1>2, <2>1, <2>2
       DEF Reconcile, ReconcilerCrash, ListPending, TakePending, InspectArtifact, InspectTemp,
           PromoteStaged, CleanUpStaged, VerifyStaged, ListPublished, AuditHealthy,
           AuditUnreadable, ReindexDate, RestoreProfile, SweepOrphans, SweepTemps, database
<1>3. ~UNCHANGED vars /\ \A w \in Versions : ~Age(w) /\ ~Damage(w)
  BY <1>0 DEF vars, database, Age, Damage
<1> QED  BY <1>1, <1>2, <1>3 DEF Next

\* While a publisher is in phase one, no row changes: it decides now or it
\* has decided before.
LEMMA WhoDecides ==
    ASSUME Inductive, [Next]_vars, NEW p \in Publishers,
           pc'[p] \in InPhaseOne, job'[p].fresh
    PROVE  /\ UNCHANGED <<status, hash>>
           /\ job'[p].want = job[p].want
           /\ job'[p].ver = job[p].ver \/ OpenVersion(p)
           /\ OpenVersion(p) \/ (pc[p] \in InPhaseOne /\ job[p].fresh)
<1> USE DEF Inductive, TypeOK, PublisherTypes, InPhaseOne
<1>1. ASSUME NEW x, Orderly(x), x # p, pc'[p] = pc[p], job'[p] = job[p]
      PROVE  UNCHANGED <<status, hash>> /\ pc[p] \in InPhaseOne /\ job[p].fresh
  BY <1>1, PublicationAssumption
     DEF PublicationAssumption, Own, DecisionStands, Orderly, database
<1>2. ASSUME NEW q \in Publishers, Publisher(q), q # p
      PROVE  /\ UNCHANGED <<status, hash>> /\ pc[p] \in InPhaseOne /\ job[p].fresh
             /\ job'[p] = job[p]
  BY <1>1, <1>2, PublisherIsOrderly
<1>3. ASSUME NEW r \in Reconcilers, Reconcile(r) \/ ReconcilerCrash(r)
      PROVE  /\ UNCHANGED <<status, hash>> /\ pc[p] \in InPhaseOne /\ job[p].fresh
             /\ job'[p] = job[p]
  BY <1>1, <1>3, ReconcilerIsOrderly, PublicationAssumption
     DEF PublicationAssumption, publisherVars
<1>4. CASE Publisher(p)
  <2>1. OpenVersion(p) \/ AdoptPending(p) \/ Stage(p)
    BY <1>4 DEF Publisher, Prepare, RepublishUnchanged, RefusePending, Goto, Idle, Outcomes,
           RefuseSupersession, FailOnTakenSuccessor, StageTorn, CommitPending,
           RollBackPending, Discard, Promote, PromoteFails, CleanUp, VerifyPromoted,
           Complete, CompletionFails, Crash
  <2>2. ~AdoptPending(p)
    BY DEF AdoptPending, Job
  <2>3. CASE OpenVersion(p)
    BY <2>3 DEF OpenVersion, Job, database
  <2>4. CASE Stage(p)
    <3>1. UNCHANGED <<status, hash>> /\ pc[p] \in InPhaseOne
      BY <2>4 DEF Stage, database
    <3>2. \/ job' = job
          \/ \E b \in BOOLEAN : job' = [job EXCEPT ![p] = [@ EXCEPT !.staged = TRUE, !.created = b]]
      BY <2>4 DEF Stage
    <3> QED  BY <3>1, <3>2 DEF Job
  <2> QED  BY <2>1, <2>2, <2>3, <2>4
<1>5. ASSUME \/ \E v \in Versions : Age(v) \/ Damage(v)
             \/ UNCHANGED vars
      PROVE  UNCHANGED <<status, hash, pc, job>>
  BY <1>5 DEF Age, Damage, vars, database, publisherVars
<1> QED  BY <1>2, <1>3, <1>4, <1>5 DEF Next

\* Only a caller that starts over sets force_new_version.
LEMMA NothingIsForced ==
    ASSUME Forces \subseteq {FALSE}, Inductive, [Next]_vars,
           NEW p \in Publishers, ~job[p].force
    PROVE  ~job'[p].force
<1>0. job \in [Publishers -> Job]
  BY DEF Inductive, TypeOK, PublisherTypes
<1>1. CASE Prepare(p)
  <2>1. PICK c \in Contents, f \in Forces, offers \in Offers, v \in 0 .. MaxVersion :
          job' = [job EXCEPT ![p] =
            [want |-> c, force |-> f,
             offer |-> IF offers THEN v ELSE 0,
             offerProfile |-> IF offers /\ v \in profiles THEN v ELSE 0,
             ver |-> 0, fresh |-> FALSE, staged |-> FALSE, created |-> FALSE]]
    BY <1>1 DEF Prepare
  <2>2. ~f
    BY <2>1
  <2> QED  BY <1>0, <2>1, <2>2 DEF Job
<1>2. CASE Crash(p)
  BY <1>0, <1>2 DEF Job, Crash, NoJob
<1>3. CASE RepublishUnchanged(p) \/ AdoptPending(p) \/ OpenVersion(p)
  <2>1. \/ job' = job
        \/ \E v \in Versions, b \in BOOLEAN :
              \/ job' = [job EXCEPT ![p] = [@ EXCEPT !.ver = v]]
              \/ job' = [job EXCEPT ![p] = [@ EXCEPT !.ver = v, !.fresh = b]]
    BY <1>3 DEF RepublishUnchanged, AdoptPending, OpenVersion, Drafts
  <2> QED  BY <1>0, <2>1 DEF Job
<1>4. CASE Stage(p)
  BY <1>0, <1>4 DEF Job, Stage
<1>5. CASE CleanUp(p)
  BY <1>0, <1>5 DEF Job, CleanUp
<1>6. CASE Publisher(p)
  <2>1. UNCHANGED job \/ Prepare(p) \/ Crash(p) \/ RepublishUnchanged(p) \/ AdoptPending(p)
          \/ OpenVersion(p) \/ Stage(p) \/ CleanUp(p)
    BY <1>6 DEF Publisher, RefusePending, RefuseSupersession, FailOnTakenSuccessor, StageTorn,
           CommitPending, RollBackPending, Discard, Promote, PromoteFails, VerifyPromoted,
           Complete, CompletionFails
  <2> QED  BY <1>1, <1>2, <1>3, <1>4, <1>5, <1>6, <2>1
<1>7. ASSUME NEW q \in Publishers, Publisher(q), q # p
      PROVE  job'[p] = job[p]
  BY <1>7, PublisherIsOrderly
<1>8. ASSUME NEW r \in Reconcilers, Reconcile(r) \/ ReconcilerCrash(r)
      PROVE  job'[p] = job[p]
  BY <1>8, ReconcilerIsOrderly DEF publisherVars
<1>9. ASSUME NEW v \in Versions, Age(v) \/ Damage(v)
      PROVE  job'[p] = job[p]
  BY <1>9 DEF Age, Damage, publisherVars
<1>10. CASE UNCHANGED vars
  BY <1>10 DEF vars, publisherVars
<1> QED  BY <1>6, <1>7, <1>8, <1>9, <1>10 DEF Next

LEMMA NextEconomy ==
    ASSUME Forces \subseteq {FALSE}, Inductive, Inductive', Grows, Economy, [Next]_vars
    PROVE  Economy'
<1>1. ASSUME NEW v \in Published
      PROVE  v \in Published' /\ v \in Allocated /\ hash'[v] = hash[v]
  BY <1>1 DEF Grows, Published, Allocated
<1>2. ASSUME NEW v \in Drafts
      PROVE  v \in Allocated /\ hash'[v] = hash[v] /\ \A w \in Allocated : w <= v
  BY <1>2 DEF Grows, Drafts, Allocated, Inductive, Consistent, PendingIsNewest
<1>3. Allocated \subseteq Nat
  BY VersionFacts DEF Allocated
<1>4. ASSUME NEW c \in Contents, Changed(c), Published' = Published
      PROVE  \A v \in Published' : hash'[v] = c => \E u \in Published' : v < u
  BY <1>1, <1>4 DEF Changed
<1>5. Published' \subseteq profiles'
  BY WhoPublishes DEF Economy, Grows
<1>6. NoRedundantVersion'
  <2>1. ASSUME NEW v \in Published', NEW w \in Published', v < w, hash'[v] = hash'[w]
        PROVE  \E u \in Published' : v < u /\ u < w
    <3>1. v \in Published
      <4>1. CASE v \in Drafts
        <5>1. w \in Allocated
          BY <1>1, <1>2, WhoPublishes
        <5>2. v \in Nat /\ w \in Nat /\ w <= v
          BY <1>2, <1>3, <4>1, <5>1
        <5> QED  BY <2>1, <5>2
      <4> QED  BY <4>1, WhoPublishes
    <3>2. CASE w \in Published
      BY <1>1, <2>1, <3>1, <3>2 DEF Economy, NoRedundantVersion
    <3>3. CASE w \notin Published
      <4>1. w \in Drafts /\ hash'[w] = hash[w]
        BY <3>3, WhoPublishes
      <4>2. PICK u \in Published : v < u
        BY <1>1, <2>1, <3>1, <4>1 DEF Economy, Changed
      <4>3. u <= w /\ u # w
        BY <1>1, <1>2, <3>3, <4>1
      <4>4. u \in Nat /\ w \in Nat
        BY <1>1, <1>2, <1>3, <4>1
      <4>5. u < w
        BY <4>3, <4>4
      <4> QED  BY <1>1, <4>2, <4>5
    <3> QED  BY <3>2, <3>3
  <2> QED  BY <2>1 DEF NoRedundantVersion
<1>7. ASSUME NEW w \in Drafts'
      PROVE  Changed(hash[w])'
  <2>1. CASE w \notin Drafts
    <3>1. PICK p \in Publishers :
            /\ pc[p] = "staged" /\ job[p].fresh
            /\ w = job[p].ver /\ hash'[w] = job[p].want
      BY <2>1, WhoOpens
    <3>2. Changed(job[p].want) /\ job[p].want \in Contents
      BY <3>1 DEF Economy, InPhaseOne, Inductive, Own, OfferStands
    <3>3. Published' = Published
      BY <2>1, WhoOpens
    <3> QED  BY <1>4, <3>1, <3>2, <3>3 DEF Changed
  <2>2. CASE w \in Drafts
    <3>1. Published' = Published
      <4>1. ASSUME NEW v \in Published', v \notin Published
            PROVE  FALSE
        <5>1. v \in Drafts
          BY <4>1, WhoPublishes
        <5>2. v = w
          BY <1>2, <1>3, <2>2, <5>1
        <5> QED  BY <1>7, <4>1, <5>2 DEF Drafts, Published
      <4> QED  BY <1>1, <4>1
    <3>2. Changed(hash[w]) /\ hash[w] \in Contents /\ hash'[w] = hash[w]
      BY <1>2, <2>2 DEF Economy, Inductive, Consistent, RowsAreWhole
    <3> QED  BY <1>4, <3>1, <3>2 DEF Changed
  <2> QED  BY <2>1, <2>2
<1>8. ASSUME NEW p \in Publishers
      PROVE  ~job'[p].force
  BY NothingIsForced DEF Economy
<1>9. ASSUME NEW p \in Publishers, pc'[p] \in InPhaseOne, job'[p].fresh
      PROVE  Changed(job[p].want)'
  <2>1. /\ UNCHANGED <<status, hash>>
        /\ job'[p].want = job[p].want
        /\ OpenVersion(p) \/ (pc[p] \in InPhaseOne /\ job[p].fresh)
    BY <1>9, WhoDecides
  <2>2. Published' = Published
    BY <2>1 DEF Published
  <2>3. job[p].want \in Contents
    BY <1>9, <2>1 DEF Inductive, Own, OfferStands
  <2>4. Changed(job[p].want)
    <3>1. CASE OpenVersion(p)
      <4>1. \A v \in Versions : ~Unchanged(p, v)
        BY <3>1 DEF OpenVersion, MustPublish
      <4>2. ASSUME NEW v \in Published, hash[v] = job[p].want
            PROVE  \E u \in Published : v < u
        <5>1. v \in Versions /\ v # 0 /\ v \in profiles /\ ~job[p].force
          BY VersionFacts DEF Economy, Published
        <5>2. ~IsNewest(v, Published)
          BY <4>1, <4>2, <5>1 DEF Unchanged
        <5>3. PICK u \in Published : ~(u <= v)
          BY <5>2 DEF IsNewest
        <5>4. u \in Nat /\ v \in Nat
          BY <1>1, <1>3
        <5> QED  BY <5>3, <5>4
      <4> QED  BY <4>2 DEF Changed
    <3>2. CASE pc[p] \in InPhaseOne /\ job[p].fresh
      BY <3>2 DEF Economy
    <3> QED  BY <2>1, <3>1, <3>2
  <2> QED  BY <1>4, <2>1, <2>2, <2>3, <2>4 DEF Changed
<1> QED  BY <1>5, <1>6, <1>7, <1>8, <1>9 DEF Economy

----------------------------------------------------------------------------
(* The payload of a pending manifest survives interrupted publishers.      *)

\* The faults that can cost a pending manifest its payload.
Losses == {"torn_write", "commit_failure", "link_failure", "damage"}

LEMMA InitDurable == Init => Durable
<1> SUFFICES ASSUME Init PROVE Durable
  OBVIOUS
<1>1. /\ \A v \in Versions \ Allocated : dest[v] = Nothing
      /\ \A v \in Allocated : dest[v] = hash[v] /\ temp[v] = Nothing
  BY DEF Init, Allocated
<1> QED  BY <1>1 DEF Init, Durable, Payload, Promoting

\* A step that moves no payload of a committed manifest.
LEMMA RowsDurable ==
    ASSUME Durable, Grows, Allocated' = Allocated, UNCHANGED <<temp, dest>>
    PROVE  /\ \A v \in Versions \ Allocated' : dest'[v] = Nothing
           /\ \A v \in Allocated' : Payload(v)'
BY DEF Durable, Payload, Grows

LEMMA PublisherKeepsPayloads ==
    ASSUME Faults \cap Losses = {}, Inductive, Grows, Durable,
           NEW p \in Publishers, Publisher(p)
    PROVE  /\ \A v \in Versions \ Allocated' : dest'[v] = Nothing
           /\ \A v \in Allocated' : Payload(v)'
           /\ Promoting(p)'
<1> USE DEF Goto
<1>0. /\ temp \in [Versions -> Blobs] /\ dest \in [Versions -> Blobs]
      /\ status \in [Versions -> {"unused", "draft", "published", "withdrawn"}]
      /\ hash \in [Versions -> Contents \cup {Nothing}]
      /\ pc \in [Publishers -> PublisherSteps]
      /\ job \in [Publishers -> Job]
      /\ Nothing \notin Contents
      /\ \A v \in Versions : v \in Nat
  BY VersionFacts, PublicationAssumption
     DEF PublicationAssumption, Inductive, TypeOK, RowTypes, FileTypes, PublisherTypes
<1>1. /\ Promoting(p) /\ Own(p)
      /\ \A v \in Allocated : Payload(v) /\ hash[v] \in Contents
      /\ \A v \in Versions \ Allocated : dest[v] = Nothing
  BY DEF Durable, Inductive, Consistent, RowsAreWhole
<1>2. ~StageTorn(p) /\ ~RollBackPending(p) /\ ~PromoteFails(p) /\ ~CompletionFails(p) /\ ~Discard(p)
  BY <1>1 DEF StageTorn, RollBackPending, PromoteFails, CompletionFails, Discard, Promoting, Losses
<1>3. CASE Stage(p)
  <2> DEFINE v == job[p].ver
  <2>1. /\ pc[p] = "staging" /\ v \in Versions /\ job[p].want \in Contents
        /\ IF job[p].fresh THEN v \notin Allocated ELSE v \in Allocated /\ hash[v] = job[p].want
    <3>1. /\ pc[p] = "staging" /\ DecisionStands(p)
          /\ v \in Versions /\ job[p].want \in Contents
      BY <1>1, <1>3 DEF Stage, Own, OfferStands, InPhaseOne
    <3>2. v \in Nat
      BY <1>0, <3>1
    <3> QED  BY <3>1, <3>2 DEF DecisionStands, Drafts, Allocated
  <2>2. UNCHANGED <<status, hash, dest>>
    BY <1>3 DEF Stage, database
  <2>3. CASE /\ dest[v] = Nothing
             /\ temp' = [temp EXCEPT ![v] = job[p].want]
             /\ \E b \in BOOLEAN : job' = [job EXCEPT ![p] = [@ EXCEPT !.staged = TRUE, !.created = b]]
             /\ pc' = [pc EXCEPT ![p] = "staged"]
    <3>1. job'[p].ver = v /\ job'[p].want = job[p].want /\ pc'[p] = "staged"
      BY <1>0, <2>3 DEF Job
    <3>2. temp'[v] = job[p].want /\ \A w \in Versions : w # v => temp'[w] = temp[w]
      BY <1>0, <2>1, <2>3
    <3>3. Promoting(p)'
      BY <3>1, <3>2 DEF Promoting
    <3>4. Allocated' = Allocated /\ Allocated \subseteq Versions
      BY <2>2 DEF Allocated
    <3>5. ASSUME NEW w \in Allocated
          PROVE  Payload(w)'
      <4>1. CASE w = v
        BY <1>1, <2>1, <2>2, <2>3, <3>2, <4>1 DEF Payload
      <4>2. CASE w # v
        BY <1>1, <2>2, <3>2, <3>4, <4>2 DEF Payload
      <4> QED  BY <4>1, <4>2
    <3> QED  BY <1>1, <2>2, <3>3, <3>4, <3>5
  <2>4. CASE dest[v] # Nothing /\ UNCHANGED <<temp, job>> /\ pc'[p] \in {"staged", "failed"}
    <3>1. ~job[p].fresh
      BY <1>1, <2>1, <2>4
    <3>2. Promoting(p)'
      BY <2>4, <3>1 DEF Promoting
    <3> QED  BY <2>2, <2>4, <3>2, RowsDurable DEF Allocated
  <2> QED  BY <1>0, <1>3, <2>1, <2>3, <2>4 DEF Stage
<1>4. CASE CommitPending(p)
  <2> DEFINE v == job[p].ver
  <2>0. pc[p] = "staged" /\ pc'[p] = "committed" /\ UNCHANGED <<temp, dest>>
    BY <1>0, <1>4 DEF CommitPending, files
  <2>1. Promoting(p)'
    BY <2>0 DEF Promoting
  <2>2. CASE ~job[p].fresh
    <3>1. UNCHANGED status
      BY <1>4, <2>2 DEF CommitPending
    <3> QED  BY <2>0, <2>1, <3>1, RowsDurable DEF Allocated
  <2>3. CASE job[p].fresh
    <3>1. v \in Versions /\ job[p].want \in Contents /\ DecisionStands(p)
      BY <1>1, <2>0 DEF Own, OfferStands, InPhaseOne
    <3>2. v \notin Allocated
      BY <1>0, <2>3, <3>1 DEF DecisionStands
    <3>3. /\ status' = [status EXCEPT ![v] = "draft"]
          /\ hash' = [hash EXCEPT ![v] = job[p].want]
      BY <1>4, <2>3 DEF CommitPending
    <3>4. Allocated' = Allocated \cup {v}
      BY <1>0, <3>1, <3>3 DEF Allocated
    <3>5. hash'[v] = job[p].want /\ \A w \in Allocated : hash'[w] = hash[w]
      BY <1>0, <3>1, <3>2, <3>3 DEF Allocated
    <3>6. temp[v] = job[p].want /\ dest[v] = Nothing
      BY <1>1, <2>0, <2>3, <3>1, <3>2 DEF Promoting
    <3>7. \A w \in Allocated' : Payload(w)'
      BY <1>1, <2>0, <3>4, <3>5, <3>6 DEF Payload
    <3> QED  BY <1>1, <2>0, <2>1, <3>4, <3>7
  <2> QED  BY <2>2, <2>3
<1>5. CASE Promote(p)
  <2> DEFINE v == job[p].ver
  <2>1. /\ pc[p] = "committed" /\ v \in Allocated /\ v \in Versions /\ hash[v] = job[p].want
        /\ Payload(v) /\ job[p].want \in Contents
    BY <1>1, <1>5 DEF Promote, Own, CommittedIsOwn, InPhaseTwo, Allocated
  <2>2. UNCHANGED <<status, hash, temp, job>>
    BY <1>5 DEF Promote, database
  <2>3. ~CannotLink(v, job[p].want)
    BY <2>1 DEF CannotLink, Payload
  <2>4. CASE UNCHANGED dest /\ pc'[p] = "promoted"
    BY <2>2, <2>4, RowsDurable DEF Allocated, Promoting
  <2>5. CASE UNCHANGED dest /\ dest[v] = job[p].want /\ pc'[p] = "linked"
    BY <2>2, <2>5, RowsDurable DEF Allocated, Promoting
  <2>6. CASE Linked(v) /\ pc'[p] = "linked"
    <3>1. temp[v] = hash[v]
      BY <2>1, <2>6 DEF Linked, Payload
    <3>2. dest' = [dest EXCEPT ![v] = hash[v]]
      BY <2>6, <3>1 DEF Linked
    <3>3. Allocated' = Allocated /\ Allocated \subseteq Versions
      BY <2>2 DEF Allocated
    <3>4. dest'[v] = hash[v] /\ \A w \in Versions : w # v => dest'[w] = dest[w]
      BY <1>0, <2>1, <3>2
    <3>5. Promoting(p)'
      BY <2>1, <2>2, <2>6, <3>4 DEF Promoting
    <3>6. ASSUME NEW w \in Allocated
          PROVE  Payload(w)'
      <4>1. CASE w = v
        BY <2>1, <2>2, <3>1, <3>4, <4>1 DEF Payload
      <4>2. CASE w # v
        BY <1>1, <2>2, <3>3, <3>4, <4>2 DEF Payload
      <4> QED  BY <4>1, <4>2
    <3> HIDE DEF v
    <3> QED  BY <1>1, <2>1, <3>3, <3>4, <3>5, <3>6
  <2> QED  BY <1>0, <1>5, <2>3, <2>4, <2>5, <2>6 DEF Promote, PeerPromoted
<1>6. CASE CleanUp(p)
  <2> DEFINE v == job[p].ver
  <2>1. /\ pc[p] = "linked" /\ v \in Allocated /\ hash[v] = job[p].want
        /\ dest[v] = hash[v]
    BY <1>1, <1>6 DEF CleanUp, Own, CommittedIsOwn, InPhaseTwo, Promoting
  <2>2. UNCHANGED <<status, hash, dest>> /\ temp' = [temp EXCEPT ![v] = Nothing]
    BY <1>6 DEF CleanUp, database
  <2>3. pc'[p] = "promoted"
    BY <1>0, <1>6, <2>1 DEF CleanUp
  <2>4. Promoting(p)'
    BY <2>3 DEF Promoting
  <2>5. Allocated' = Allocated /\ Allocated \subseteq Versions
    BY <2>2 DEF Allocated
  <2>6. ASSUME NEW w \in Allocated
        PROVE  Payload(w)'
    BY <1>0, <1>1, <2>1, <2>2, <2>5 DEF Payload
  <2> QED  BY <1>1, <2>2, <2>4, <2>5, <2>6
<1>7. CASE Complete(p)
  <2>1. UNCHANGED <<temp, dest>> /\ pc'[p] \in {"done", "failed", "already_final"}
    BY <1>0, <1>7 DEF Complete, files
  <2>2. Allocated' = Allocated
    BY <1>0, <1>7 DEF Complete, Allocated
  <2> QED  BY <2>1, <2>2, RowsDurable DEF Promoting
<1>8. CASE \/ Prepare(p) \/ RepublishUnchanged(p) \/ RefusePending(p) \/ AdoptPending(p)
           \/ RefuseSupersession(p) \/ FailOnTakenSuccessor(p) \/ OpenVersion(p)
           \/ VerifyPromoted(p) \/ Crash(p)
  <2>1. UNCHANGED <<status, temp, dest>>
    BY <1>8 DEF Prepare, RepublishUnchanged, RefusePending, AdoptPending, RefuseSupersession,
                FailOnTakenSuccessor, OpenVersion, VerifyPromoted, Crash, database, files
  <2>2. pc'[p] \notin {"rolled_back", "link_failed", "staged", "linked"}
    BY <1>0, <1>8 DEF Prepare, RepublishUnchanged, RefusePending, AdoptPending,
                RefuseSupersession, FailOnTakenSuccessor, OpenVersion, VerifyPromoted, Crash
  <2> QED  BY <2>1, <2>2, RowsDurable DEF Promoting, Allocated
<1> QED
  BY <1>2, <1>3, <1>4, <1>5, <1>6, <1>7, <1>8 DEF Publisher

\* A peer neither overwrites what a publisher staged for a version it opens
\* nor takes away what it linked.
LEMMA PeersKeepPromoting ==
    ASSUME Inductive, Durable, NEW p \in Publishers, Publisher(p),
           NEW q \in Publishers, q # p
    PROVE  Promoting(q)'
<1>0. /\ temp \in [Versions -> Blobs] /\ dest \in [Versions -> Blobs]
      /\ pc'[q] = pc[q] /\ job'[q] = job[q]
      /\ Promoting(q) /\ Own(q)
  BY PublisherIsOrderly DEF Inductive, TypeOK, FileTypes, Durable
<1>1. ASSUME pc[q] = "staged", job[q].fresh
      PROVE  temp'[job[q].ver] = job[q].want
  <2>1. lock = q /\ temp[job[q].ver] = job[q].want
    BY <1>0, <1>1 DEF Own, InPhaseOne, DecisionStands, Promoting
  <2>2. ~Stage(p) /\ ~StageTorn(p)
    BY <2>1 DEF Stage, StageTorn, Inductive, Own, InPhaseOne, DecisionStands
  <2>3. \A w \in Allocated : w # job[q].ver
    <3>1. DecisionStands(q) /\ job[q].ver \in Versions
      BY <1>0, <1>1 DEF Own, OfferStands, InPhaseOne
    <3>2. \A w \in Allocated : w < job[q].ver
      BY <1>1, <3>1 DEF DecisionStands
    <3>3. job[q].ver \in Nat
      BY <3>1, VersionFacts
    <3> QED  BY <3>2, <3>3
  <2>4. CASE CleanUp(p)
    <3>1. job[p].ver \in Allocated
      BY <2>4 DEF CleanUp, Inductive, Own, CommittedIsOwn, InPhaseTwo
    <3>2. temp' = [temp EXCEPT ![job[p].ver] = Nothing]
      BY <2>4 DEF CleanUp
    <3> QED  BY <1>0, <2>1, <2>3, <3>1, <3>2
  <2>5. ~Discard(p)
    BY DEF Discard, Durable, Promoting
  <2>6. CASE UNCHANGED temp
    BY <2>1, <2>6
  <2>7. CleanUp(p) \/ UNCHANGED temp
    BY <2>2, <2>5
       DEF Publisher, Prepare, RepublishUnchanged, RefusePending, AdoptPending,
           RefuseSupersession, FailOnTakenSuccessor, OpenVersion, CommitPending,
           RollBackPending, Promote, PromoteFails, VerifyPromoted, Complete,
           CompletionFails, Crash, files
  <2> QED  BY <2>4, <2>6, <2>7
<1>2. ASSUME pc[q] = "linked"
      PROVE  dest'[job[q].ver] = job[q].want
  <2>1. dest[job[q].ver] = job[q].want /\ job[q].ver \in Versions /\ job[q].want # Nothing
    BY <1>0, <1>2, PublicationAssumption
       DEF PublicationAssumption, Promoting, Own, CommittedIsOwn, InPhaseTwo, Inductive,
           Consistent, RowsAreWhole, Allocated
  <2>2. \/ UNCHANGED dest
        \/ dest[job[p].ver] = Nothing /\ dest' = [dest EXCEPT ![job[p].ver] = temp[job[p].ver]]
    BY DEF Publisher, Prepare, RepublishUnchanged, RefusePending, AdoptPending,
           RefuseSupersession, FailOnTakenSuccessor, OpenVersion, Stage, StageTorn,
           CommitPending, RollBackPending, Discard, Promote, Linked, PeerPromoted, CannotLink,
           PromoteFails, CleanUp, VerifyPromoted, Complete, CompletionFails, Crash, files
  <2> QED  BY <1>0, <2>1, <2>2
<1> QED  BY <1>0, <1>1, <1>2 DEF Promoting

LEMMA NextDurable ==
    ASSUME Reconcilers = {}, Faults \cap Losses = {}, Inductive, Grows, Durable, [Next]_vars
    PROVE  Durable'
<1>1. ASSUME NEW p \in Publishers, Publisher(p)
      PROVE  Durable'
  <2>1. /\ \A v \in Versions \ Allocated' : dest'[v] = Nothing
        /\ \A v \in Allocated' : Payload(v)'
        /\ Promoting(p)'
    BY <1>1, PublisherKeepsPayloads
  <2>2. \A q \in Publishers : q # p => Promoting(q)'
    BY <1>1, PeersKeepPromoting
  <2> QED  BY <2>1, <2>2 DEF Durable
<1>2. ASSUME UNCHANGED <<status, hash, temp, dest, pc, job>>
      PROVE  Durable'
  BY <1>2 DEF Durable, Payload, Promoting, Allocated
<1>3. ASSUME NEW v \in Versions, Age(v) \/ Damage(v)
      PROVE  UNCHANGED <<status, hash, temp, dest, pc, job>>
  BY <1>3 DEF Age, Damage, Losses, database, publisherVars
<1>4. CASE UNCHANGED vars
  BY <1>2, <1>4 DEF vars, database, files, publisherVars
<1> QED  BY <1>1, <1>2, <1>3, <1>4 DEF Next

----------------------------------------------------------------------------
(* Theorems.                                                               *)

\* No step of publisher or reconciler deletes or overwrites an artifact: it
\* stays at its path until it is moved to quarantine ("quarantined, never
\* silently deleted") or the environment destroys it, and what is in
\* quarantine stays there.
THEOREM ArtifactsNeverOverwritten == Spec => [][ArtifactsStay]_vars
<1>1. Inductive /\ [Next]_vars => [ArtifactsStay]_vars
  BY StepKeepsArtifacts DEF Inductive
<1> QED
  BY <1>1, InductiveInvariant, PTL DEF Spec

\* Published bytes survive every combination of faults, however publishers
\* and reconcilers interleave between verifying an artifact and publishing
\* its manifest.
THEOREM PublishedIsRetained == Spec => []PublishedRetained
<1>1. Inductive /\ Retention /\ [Next]_vars => Retention'
  BY NextInductive, NextRetention
<1>2. Retention => PublishedRetained
  BY DEF Retention, Retained, PublishedRetained, Intact
<1> QED
  BY <1>1, <1>2, InitRetention, InductiveInvariant, PTL DEF Spec

\* Publishers alone, however they crash and whatever fails under them, never
\* publish a version that cannot be read back: only damage and the sweep of
\* a reconciler take an artifact from its path.
THEOREM PublishedIsServable ==
    ASSUME Reconcilers = {}, "damage" \notin Faults
    PROVE  Spec => []PublishedServable
<1> DEFINE Undisturbed == quarantine = {} /\ damaged = {}
<1>1. Init => Undisturbed
  BY DEF Init
<1>2. Undisturbed /\ [Next]_vars => Undisturbed'
  <2> SUFFICES ASSUME Undisturbed, [Next]_vars
               PROVE  UNCHANGED <<quarantine, damaged>>
    OBVIOUS
  <2>1. ASSUME NEW p \in Publishers, Publisher(p)
        PROVE  UNCHANGED <<quarantine, damaged>>
    BY <2>1
       DEF Publisher, Prepare, RepublishUnchanged, RefusePending, AdoptPending,
           RefuseSupersession, FailOnTakenSuccessor, OpenVersion, Stage, StageTorn,
           CommitPending, RollBackPending, Discard, Promote, PromoteFails, CleanUp,
           VerifyPromoted, Complete, CompletionFails, Crash, files
  <2>2. ASSUME NEW v \in Versions, Age(v) \/ Damage(v)
        PROVE  UNCHANGED <<quarantine, damaged>>
    BY <2>2 DEF Age, Damage
  <2>3. CASE UNCHANGED vars
    BY <2>3 DEF vars, files
  <2> QED  BY <2>1, <2>2, <2>3 DEF Next
<1>3. Undisturbed /\ PublishedRetained => PublishedServable
  BY DEF PublishedRetained, PublishedServable
<1> QED
  BY <1>1, <1>2, <1>3, PublishedIsRetained, PTL DEF Spec

\* Concurrent publishers that crash or stall at any point leave the payload
\* of a pending manifest at its temporary or its final path.
THEOREM PendingIsRecoverable ==
    ASSUME Reconcilers = {}, Faults \cap Losses = {}
    PROVE  Spec => []PendingRecoverable
<1>1. Inductive /\ Durable /\ [Next]_vars => Durable'
  BY NextInductive, NextDurable
<1>2. Durable => PendingRecoverable
  BY DEF Durable, Payload, PendingRecoverable, Drafts, Allocated
<1> QED
  BY <1>1, <1>2, InitDurable, InductiveInvariant, PTL DEF Spec

\* "Identical already-published content is an idempotent no-op unless
\* force_new_version", whatever fails and whoever repairs it, where every
\* published manifest has its day profile from the start.
THEOREM NoVersionIsRedundant ==
    ASSUME Forces \subseteq {FALSE}, Legacy \subseteq {FALSE}
    PROVE  Spec => []NoRedundantVersion
<1>1. Inductive /\ Economy /\ [Next]_vars => Economy'
  BY NextInductive, NextEconomy
<1>2. Economy => NoRedundantVersion
  BY DEF Economy
<1>3. Init => Economy
  BY InitEconomy
<1> QED
  BY <1>1, <1>2, <1>3, InductiveInvariant, PTL DEF Spec

====
