------------------------- MODULE PublicationProofs -------------------------
(***************************************************************************)
(* Theorems about Publication, for every set of processes, every set of    *)
(* payloads, every bound on versions and every combination of faults.      *)
(*                                                                         *)
(* No property of the database is inductive alone: a publisher commits a   *)
(* decision it took several steps earlier, and a reconciler acts on a row  *)
(* it read before it touched the files.  The inductive invariant Inductive *)
(* below says what each of them still knows at the moment it writes.       *)
(***************************************************************************)
EXTENDS Publication, TLAPS

----------------------------------------------------------------------------
(* The inductive invariant.                                                *)

InPhaseTwo == {"committed", "linked", "link_failed", "promoted", "verified", "done"}
\* Rows that were ever committed carry a payload, and only published
\* versions have a day profile.
RowsAreWhole ==
    /\ \A v \in Allocated : hash[v] \in Contents
    /\ profiles \subseteq Published

\* The predecessor a publisher offers keeps its day profile, and while the
\* publisher prepares its commit no other manifest takes it.
OfferStands(p) ==
    /\ pc[p] \in InPhaseOne \cup {"prepared"} =>
          /\ job[p].want \in Contents
          /\ job[p].offerProfile \in profiles \cup {0}
    /\ pc[p] \in InPhaseOne =>
          /\ job[p].ver \in Versions
          /\ (job[p].fresh /\ job[p].offer # 0) =>
                /\ job[p].offer \in Published \cap profiles
                /\ \A w \in Allocated : pred[w] # job[p].offer

\* A publisher that committed or adopted a version finds its own content
\* under that version for ever after.
CommittedIsOwn(p) ==
    pc[p] \in InPhaseTwo =>
        /\ job[p].ver \in Allocated
        /\ hash[job[p].ver] = job[p].want

\* What the database alone promises.
Consistent ==
    /\ PendingIsNewest
    /\ SupersessionIsLinear
    /\ RowsAreWhole
    /\ IndexFollowsServed

\* All that a publisher relies on.
Own(p) ==
    /\ pc[p] \in InPhaseOne => DecisionStands(p)
    /\ OfferStands(p)
    /\ CommittedIsOwn(p)
    /\ pc[p] = "done" => /\ job[p].ver \in Published \cap profiles
                         /\ hash[job[p].ver] = job[p].want

\* The second pass works through manifests that were published when it began.
Listed(r) == rpc[r] \in {"published", "reindex"} => todo[r] \subseteq Published

Inductive ==
    /\ TypeOK
    /\ Consistent
    /\ \A p \in Publishers : Own(p)
    /\ RepairHolds
    /\ \A r \in Reconcilers : Listed(r)

----------------------------------------------------------------------------
(* Types.                                                                  *)

LEMMA VersionFacts ==
    /\ MaxVersion \in Nat
    /\ Versions \subseteq 0 .. MaxVersion
    /\ Versions \subseteq Nat
    /\ 0 \in 0 .. MaxVersion
    /\ 0 \notin Versions
    /\ \A v \in 0 .. MaxVersion : v = 0 \/ v \in Versions
BY PublicationAssumption DEF PublicationAssumption, Versions

\* A job stays a job when a step notes a version or a staged file in it.
LEMMA JobUpdates ==
    ASSUME NEW j \in Job, NEW v \in 0 .. MaxVersion, NEW b \in BOOLEAN, NEW c \in BOOLEAN
    PROVE  /\ [j EXCEPT !.ver = v] \in Job
           /\ [j EXCEPT !.ver = v, !.fresh = b] \in Job
           /\ [j EXCEPT !.staged = b] \in Job
           /\ [j EXCEPT !.staged = b, !.created = c] \in Job
           /\ NoJob \in Job
BY VersionFacts DEF Job, NoJob

LEMMA InitType == Init => TypeOK
BY PublicationAssumption
   DEF PublicationAssumption, Init, TypeOK, RowTypes, FileTypes, PublisherTypes,
       ReconcilerTypes, Versions, Blobs, Job, NoJob, PublisherSteps, Idle, Outcomes,
       ReconcilerSteps

\* The manifest a publisher completes is a row, not 0.
LEMMA OwnVersion ==
    ASSUME NEW p \in Publishers, CommittedIsOwn(p), pc[p] = "verified"
    PROVE  job[p].ver \in Versions
BY DEF CommittedIsOwn, InPhaseTwo, Allocated

LEMMA PublisherKeepsTypes ==
    ASSUME TypeOK, NEW p \in Publishers, CommittedIsOwn(p), Publisher(p)
    PROVE  TypeOK'
<1>1. CASE Prepare(p)
  <2>1. RowTypes' /\ FileTypes' /\ ReconcilerTypes'
    BY <1>1 DEF TypeOK, RowTypes, FileTypes, ReconcilerTypes, Prepare, database, files, reconcilerVars
  <2>2. PublisherTypes'
    <3>1. job' \in [Publishers -> Job]
      <4>1. PICK c \in Contents, f \in Forces, offers \in Offers, v \in 0 .. MaxVersion :
              job' = [job EXCEPT ![p] =
                [want |-> c, force |-> f,
                 offer |-> IF offers THEN v ELSE 0,
                 offerProfile |-> IF offers /\ v \in profiles THEN v ELSE 0,
                 ver |-> 0, fresh |-> FALSE, staged |-> FALSE, created |-> FALSE]]
        BY <1>1 DEF Prepare
      <4>2. job'[p] \in Job
        BY <4>1, VersionFacts, PublicationAssumption
           DEF PublicationAssumption, Job, TypeOK, PublisherTypes
      <4> QED  BY <4>1, <4>2 DEF TypeOK, PublisherTypes
    <3>2. pc' \in [Publishers -> PublisherSteps]
      BY <1>1 DEF TypeOK, PublisherTypes, Prepare, PublisherSteps, Idle, Outcomes, Goto
    <3> QED  BY <3>1, <3>2 DEF PublisherTypes
  <2> QED  BY <2>1, <2>2 DEF TypeOK
<1>2. CASE RepublishUnchanged(p)
  <2>1. FileTypes' /\ ReconcilerTypes'
    BY <1>2 DEF TypeOK, FileTypes, ReconcilerTypes, RepublishUnchanged, files, reconcilerVars
  <2>2. RowTypes'
    BY <1>2, VersionFacts DEF TypeOK, RowTypes, RepublishUnchanged, Index, database
  <2>3. PublisherTypes'
    <3>1. job' \in [Publishers -> Job]
      <4>1. PICK v \in Versions : job' \in {job, [job EXCEPT ![p] = [@ EXCEPT !.ver = v]]}
        BY <1>2 DEF RepublishUnchanged
      <4>2. [job[p] EXCEPT !.ver = v] \in Job
        BY VersionFacts, JobUpdates DEF TypeOK, PublisherTypes
      <4> QED  BY <4>1, <4>2 DEF TypeOK, PublisherTypes
    <3>2. pc' \in [Publishers -> PublisherSteps]
      BY <1>2 DEF TypeOK, PublisherTypes, RepublishUnchanged, PublisherSteps, Idle, Outcomes, Goto
    <3> QED  BY <3>1, <3>2 DEF PublisherTypes
  <2> QED  BY <2>1, <2>2, <2>3 DEF TypeOK
<1>3. CASE RefusePending(p)
  <2>1. RowTypes' /\ FileTypes' /\ ReconcilerTypes'
    BY <1>3 DEF TypeOK, RowTypes, FileTypes, ReconcilerTypes, RefusePending, database, files, reconcilerVars
  <2>2. PublisherTypes'
    BY <1>3 DEF TypeOK, PublisherTypes, RefusePending, PublisherSteps, Idle, Outcomes, Goto
  <2> QED  BY <2>1, <2>2 DEF TypeOK
<1>4. CASE AdoptPending(p)
  <2>1. FileTypes' /\ ReconcilerTypes'
    BY <1>4 DEF TypeOK, FileTypes, ReconcilerTypes, AdoptPending, files, reconcilerVars
  <2>2. RowTypes'
    BY <1>4 DEF TypeOK, RowTypes, AdoptPending, database
  <2>3. PublisherTypes'
    <3>1. job' \in [Publishers -> Job]
      <4>1. PICK v \in Versions : job' \in {job, [job EXCEPT ![p] = [@ EXCEPT !.ver = v, !.fresh = FALSE]]}
        BY <1>4 DEF AdoptPending, Drafts
      <4>2. [job[p] EXCEPT !.ver = v, !.fresh = FALSE] \in Job
        BY VersionFacts, JobUpdates DEF TypeOK, PublisherTypes
      <4> QED  BY <4>1, <4>2 DEF TypeOK, PublisherTypes
    <3>2. pc' \in [Publishers -> PublisherSteps]
      BY <1>4 DEF TypeOK, PublisherTypes, AdoptPending, PublisherSteps, Idle, Outcomes, Goto
    <3> QED  BY <3>1, <3>2 DEF PublisherTypes
  <2> QED  BY <2>1, <2>2, <2>3 DEF TypeOK
<1>5. CASE RefuseSupersession(p)
  <2>1. RowTypes' /\ FileTypes' /\ ReconcilerTypes'
    BY <1>5 DEF TypeOK, RowTypes, FileTypes, ReconcilerTypes, RefuseSupersession, database, files, reconcilerVars
  <2>2. PublisherTypes'
    BY <1>5 DEF TypeOK, PublisherTypes, RefuseSupersession, PublisherSteps, Idle, Outcomes, Goto
  <2> QED  BY <2>1, <2>2 DEF TypeOK
<1>6. CASE FailOnTakenSuccessor(p)
  <2>1. RowTypes' /\ FileTypes' /\ ReconcilerTypes'
    BY <1>6 DEF TypeOK, RowTypes, FileTypes, ReconcilerTypes, FailOnTakenSuccessor, database, files, reconcilerVars
  <2>2. PublisherTypes'
    BY <1>6 DEF TypeOK, PublisherTypes, FailOnTakenSuccessor, PublisherSteps, Idle, Outcomes, Goto
  <2> QED  BY <2>1, <2>2 DEF TypeOK
<1>7. CASE OpenVersion(p)
  <2>1. FileTypes' /\ ReconcilerTypes'
    BY <1>7 DEF TypeOK, FileTypes, ReconcilerTypes, OpenVersion, files, reconcilerVars
  <2>2. RowTypes'
    BY <1>7 DEF TypeOK, RowTypes, OpenVersion, database
  <2>3. PublisherTypes'
    <3>1. job' \in [Publishers -> Job]
      <4>1. PICK v \in Versions : job' \in {job, [job EXCEPT ![p] = [@ EXCEPT !.ver = v, !.fresh = TRUE]]}
        BY <1>7 DEF OpenVersion
      <4>2. [job[p] EXCEPT !.ver = v, !.fresh = TRUE] \in Job
        BY VersionFacts, JobUpdates DEF TypeOK, PublisherTypes
      <4> QED  BY <4>1, <4>2 DEF TypeOK, PublisherTypes
    <3>2. pc' \in [Publishers -> PublisherSteps]
      BY <1>7 DEF TypeOK, PublisherTypes, OpenVersion, PublisherSteps, Idle, Outcomes, Goto
    <3> QED  BY <3>1, <3>2 DEF PublisherTypes
  <2> QED  BY <2>1, <2>2, <2>3 DEF TypeOK
<1>8. CASE Stage(p)
  <2>1. ReconcilerTypes'
    BY <1>8 DEF TypeOK, ReconcilerTypes, Stage, reconcilerVars
  <2>2. RowTypes'
    BY <1>8 DEF TypeOK, RowTypes, Stage, database
  <2>3. FileTypes'
    BY <1>8 DEF TypeOK, FileTypes, Stage, Blobs, PublisherTypes, Job, files
  <2>4. PublisherTypes'
    <3>1. job' \in [Publishers -> Job]
      <4>1. PICK b \in BOOLEAN :
              job' \in {job, [job EXCEPT ![p] = [@ EXCEPT !.staged = TRUE, !.created = b]]}
        BY <1>8 DEF Stage
      <4>2. [job[p] EXCEPT !.staged = TRUE, !.created = b] \in Job
        BY VersionFacts, JobUpdates DEF TypeOK, PublisherTypes
      <4> QED  BY <4>1, <4>2 DEF TypeOK, PublisherTypes
    <3>2. pc' \in [Publishers -> PublisherSteps]
      BY <1>8 DEF TypeOK, PublisherTypes, Stage, PublisherSteps, Idle, Outcomes, Goto
    <3> QED  BY <3>1, <3>2 DEF PublisherTypes
  <2> QED  BY <2>1, <2>2, <2>3, <2>4 DEF TypeOK
<1>9. CASE StageTorn(p)
  <2>1. ReconcilerTypes'
    BY <1>9 DEF TypeOK, ReconcilerTypes, StageTorn, reconcilerVars
  <2>2. RowTypes'
    BY <1>9 DEF TypeOK, RowTypes, StageTorn, database
  <2>3. FileTypes'
    BY <1>9 DEF TypeOK, FileTypes, StageTorn, Blobs, files
  <2>4. PublisherTypes'
    BY <1>9 DEF TypeOK, PublisherTypes, StageTorn, PublisherSteps, Idle, Outcomes, Goto
  <2> QED  BY <2>1, <2>2, <2>3, <2>4 DEF TypeOK
<1>10. CASE CommitPending(p)
  <2>1. FileTypes' /\ ReconcilerTypes'
    BY <1>10 DEF TypeOK, FileTypes, ReconcilerTypes, CommitPending, files, reconcilerVars
  <2>2. RowTypes'
    BY <1>10 DEF TypeOK, RowTypes, CommitPending, PublisherTypes, Job, database
  <2>3. PublisherTypes'
    BY <1>10 DEF TypeOK, PublisherTypes, CommitPending, PublisherSteps, Idle, Outcomes, Goto
  <2> QED  BY <2>1, <2>2, <2>3 DEF TypeOK
<1>11. CASE RollBackPending(p)
  <2>1. FileTypes' /\ ReconcilerTypes'
    BY <1>11 DEF TypeOK, FileTypes, ReconcilerTypes, RollBackPending, files, reconcilerVars
  <2>2. RowTypes'
    BY <1>11 DEF TypeOK, RowTypes, RollBackPending, database
  <2>3. PublisherTypes'
    BY <1>11 DEF TypeOK, PublisherTypes, RollBackPending, PublisherSteps, Idle, Outcomes, Goto
  <2> QED  BY <2>1, <2>2, <2>3 DEF TypeOK
<1>12. CASE Discard(p)
  <2>1. RowTypes' /\ ReconcilerTypes'
    BY <1>12 DEF TypeOK, RowTypes, ReconcilerTypes, Discard, database, reconcilerVars
  <2>2. FileTypes'
    BY <1>12 DEF TypeOK, FileTypes, Discard, Blobs, files
  <2>3. PublisherTypes'
    BY <1>12 DEF TypeOK, PublisherTypes, Discard, PublisherSteps, Idle, Outcomes, Goto
  <2> QED  BY <2>1, <2>2, <2>3 DEF TypeOK
<1>13. CASE Promote(p)
  <2>1. RowTypes' /\ ReconcilerTypes'
    BY <1>13 DEF TypeOK, RowTypes, ReconcilerTypes, Promote, database, reconcilerVars
  <2>2. FileTypes'
    BY <1>13 DEF TypeOK, FileTypes, Promote, Blobs, Linked, PeerPromoted, CannotLink, files
  <2>3. PublisherTypes'
    BY <1>13 DEF TypeOK, PublisherTypes, Promote, PublisherSteps, Idle, Outcomes, Goto
  <2> QED  BY <2>1, <2>2, <2>3 DEF TypeOK
<1>14. CASE PromoteFails(p)
  <2>1. RowTypes' /\ FileTypes' /\ ReconcilerTypes'
    BY <1>14 DEF TypeOK, RowTypes, FileTypes, ReconcilerTypes, PromoteFails, database, files, reconcilerVars
  <2>2. PublisherTypes'
    BY <1>14 DEF TypeOK, PublisherTypes, PromoteFails, PublisherSteps, Idle, Outcomes, Goto
  <2> QED  BY <2>1, <2>2 DEF TypeOK
<1>15. CASE CleanUp(p)
  <2>1. RowTypes' /\ ReconcilerTypes'
    BY <1>15 DEF TypeOK, RowTypes, ReconcilerTypes, CleanUp, database, reconcilerVars
  <2>2. FileTypes'
    BY <1>15 DEF TypeOK, FileTypes, CleanUp, Blobs, files
  <2>3. PublisherTypes'
    BY <1>15, VersionFacts, JobUpdates DEF TypeOK, PublisherTypes, CleanUp, PublisherSteps, Idle, Outcomes, Goto
  <2> QED  BY <2>1, <2>2, <2>3 DEF TypeOK
<1>16. CASE VerifyPromoted(p)
  <2>1. RowTypes' /\ FileTypes' /\ ReconcilerTypes'
    BY <1>16 DEF TypeOK, RowTypes, FileTypes, ReconcilerTypes, VerifyPromoted, database, files, reconcilerVars
  <2>2. PublisherTypes'
    BY <1>16 DEF TypeOK, PublisherTypes, VerifyPromoted, PublisherSteps, Idle, Outcomes, Goto
  <2> QED  BY <2>1, <2>2 DEF TypeOK
<1>17. CASE Complete(p)
  <2>1. FileTypes' /\ ReconcilerTypes'
    BY <1>17 DEF TypeOK, FileTypes, ReconcilerTypes, Complete, files, reconcilerVars
  <2>2. RowTypes'
    <3>1. status' \in [Versions -> {"unused", "draft", "published", "withdrawn"}]
      BY <1>17 DEF TypeOK, RowTypes, Complete
    <3>2. \/ profiles' = profiles \cup {job[p].ver} /\ index' = job[p].ver
          \/ profiles' = profiles /\ index' = index
      BY <1>17 DEF Complete, Index
    <3>3. job[p].ver \in Versions
      BY <1>17, OwnVersion DEF Complete
    <3>4. profiles' \in SUBSET Versions /\ index' \in 0 .. MaxVersion
      BY <3>2, <3>3, VersionFacts DEF TypeOK, RowTypes
    <3> QED  BY <1>17, <3>1, <3>4 DEF TypeOK, RowTypes, Complete
  <2>3. PublisherTypes'
    BY <1>17 DEF TypeOK, PublisherTypes, Complete, PublisherSteps, Idle, Outcomes, Goto
  <2> QED  BY <2>1, <2>2, <2>3 DEF TypeOK
<1>18. CASE CompletionFails(p)
  <2>1. RowTypes' /\ FileTypes' /\ ReconcilerTypes'
    BY <1>18 DEF TypeOK, RowTypes, FileTypes, ReconcilerTypes, CompletionFails, database, files, reconcilerVars
  <2>2. PublisherTypes'
    BY <1>18 DEF TypeOK, PublisherTypes, CompletionFails, PublisherSteps, Idle, Outcomes, Goto
  <2> QED  BY <2>1, <2>2 DEF TypeOK
<1>19. CASE Crash(p)
  <2>1. FileTypes' /\ ReconcilerTypes'
    BY <1>19 DEF TypeOK, FileTypes, ReconcilerTypes, Crash, files, reconcilerVars
  <2>2. RowTypes'
    BY <1>19 DEF TypeOK, RowTypes, Crash, database
  <2>3. PublisherTypes'
    BY <1>19, VersionFacts, JobUpdates DEF TypeOK, PublisherTypes, Crash, PublisherSteps, Idle, Outcomes, Goto
  <2> QED  BY <2>1, <2>2, <2>3 DEF TypeOK
<1> QED
    BY <1>1, <1>2, <1>3, <1>4, <1>5, <1>6, <1>7, <1>8, <1>9, <1>10, <1>11, <1>12, <1>13, <1>14, <1>15, <1>16, <1>17, <1>18, <1>19 DEF Publisher

\* The manifest a reconciler repairs is a row, not 0.
LEMMA CurrentVersion ==
    ASSUME TypeOK, RepairHolds, NEW r \in Reconcilers,
           rpc[r] \in {"artifact", "temp", "publish", "withdraw"}
    PROVE  cur[r] \in Versions
BY DEF RepairHolds, RepairStands, InRepair, Drafts

LEMMA ReconcilerKeepsTypes ==
    ASSUME TypeOK, RepairHolds, NEW r \in Reconcilers,
           Reconcile(r) \/ ReconcilerCrash(r)
    PROVE  TypeOK'
<1>1. CASE ListPending(r)
  <2>1. RowTypes' /\ FileTypes' /\ PublisherTypes'
    BY <1>1 DEF TypeOK, RowTypes, FileTypes, PublisherTypes, ListPending, database, files, publisherVars
  <2>2. ReconcilerTypes'
    BY <1>1, VersionFacts DEF TypeOK, ReconcilerTypes, ListPending, Drafts, ReconcilerSteps, Resume
  <2> QED  BY <2>1, <2>2 DEF TypeOK
<1>2. CASE TakePending(r)
  <2>1. FileTypes' /\ PublisherTypes'
    BY <1>2 DEF TypeOK, FileTypes, PublisherTypes, TakePending, files, publisherVars
  <2>2. RowTypes'
    BY <1>2 DEF TypeOK, RowTypes, TakePending, database
  <2>3. ReconcilerTypes'
    BY <1>2, VersionFacts DEF TypeOK, ReconcilerTypes, TakePending, ReconcilerSteps, Resume
  <2> QED  BY <2>1, <2>2, <2>3 DEF TypeOK
<1>3. CASE InspectArtifact(r)
  <2>1. RowTypes' /\ PublisherTypes'
    BY <1>3 DEF TypeOK, RowTypes, PublisherTypes, InspectArtifact, database, publisherVars
  <2>2. FileTypes'
    BY <1>3, CurrentVersion DEF TypeOK, FileTypes, InspectArtifact, Blobs, Quarantine, files
  <2>3. ReconcilerTypes'
    BY <1>3 DEF TypeOK, ReconcilerTypes, InspectArtifact, ReconcilerSteps, Resume
  <2> QED  BY <2>1, <2>2, <2>3 DEF TypeOK
<1>4. CASE InspectTemp(r)
  <2>1. RowTypes' /\ PublisherTypes'
    BY <1>4 DEF TypeOK, RowTypes, PublisherTypes, InspectTemp, database, publisherVars
  <2>2. FileTypes'
    BY <1>4, CurrentVersion DEF TypeOK, FileTypes, InspectTemp, Blobs, Quarantine, files
  <2>3. ReconcilerTypes'
    BY <1>4 DEF TypeOK, ReconcilerTypes, InspectTemp, ReconcilerSteps, Resume
  <2> QED  BY <2>1, <2>2, <2>3 DEF TypeOK
<1>5. CASE PromoteStaged(r)
  <2>1. RowTypes' /\ PublisherTypes'
    BY <1>5 DEF TypeOK, RowTypes, PublisherTypes, PromoteStaged, database, publisherVars
  <2>2. FileTypes'
    BY <1>5 DEF TypeOK, FileTypes, PromoteStaged, Blobs, Linked, PeerPromoted, CannotLink, files
  <2>3. ReconcilerTypes'
    BY <1>5 DEF TypeOK, ReconcilerTypes, PromoteStaged, ReconcilerSteps, Resume
  <2> QED  BY <2>1, <2>2, <2>3 DEF TypeOK
<1>6. CASE CleanUpStaged(r)
  <2>1. PublisherTypes'
    BY <1>6 DEF TypeOK, PublisherTypes, CleanUpStaged, publisherVars
  <2>2. RowTypes'
    BY <1>6 DEF TypeOK, RowTypes, CleanUpStaged, Exit, Abort, database
  <2>3. FileTypes'
    BY <1>6 DEF TypeOK, FileTypes, CleanUpStaged, Blobs, files
  <2>4. ReconcilerTypes'
    BY <1>6, VersionFacts DEF TypeOK, ReconcilerTypes, CleanUpStaged, ReconcilerSteps, Resume, Exit, Abort
  <2> QED  BY <2>1, <2>2, <2>3, <2>4 DEF TypeOK
<1>7. CASE VerifyStaged(r)
  <2>1. FileTypes' /\ PublisherTypes'
    BY <1>7 DEF TypeOK, FileTypes, PublisherTypes, VerifyStaged, files, publisherVars
  <2>2. RowTypes'
    BY <1>7 DEF TypeOK, RowTypes, VerifyStaged, Exit, Abort, database
  <2>3. ReconcilerTypes'
    BY <1>7, VersionFacts DEF TypeOK, ReconcilerTypes, VerifyStaged, ReconcilerSteps, Resume, Exit, Abort
  <2> QED  BY <2>1, <2>2, <2>3 DEF TypeOK
<1>8. CASE PublishPending(r)
  <2>1. FileTypes' /\ PublisherTypes'
    BY <1>8 DEF TypeOK, FileTypes, PublisherTypes, PublishPending, files, publisherVars
  <2>2. RowTypes'
    BY <1>8, CurrentVersion DEF TypeOK, RowTypes, PublishPending, Exit, Abort, Reindexed, database
  <2>3. ReconcilerTypes'
    BY <1>8, VersionFacts DEF TypeOK, ReconcilerTypes, PublishPending, ReconcilerSteps, Resume, Exit, Abort
  <2> QED  BY <2>1, <2>2, <2>3 DEF TypeOK
<1>9. CASE WithdrawPending(r)
  <2>1. FileTypes' /\ PublisherTypes'
    BY <1>9 DEF TypeOK, FileTypes, PublisherTypes, WithdrawPending, files, publisherVars
  <2>2. RowTypes'
    BY <1>9 DEF TypeOK, RowTypes, WithdrawPending, database
  <2>3. ReconcilerTypes'
    BY <1>9 DEF TypeOK, ReconcilerTypes, WithdrawPending, ReconcilerSteps, Resume
  <2> QED  BY <2>1, <2>2, <2>3 DEF TypeOK
<1>10. CASE ListPublished(r)
  <2>1. RowTypes' /\ FileTypes' /\ PublisherTypes'
    BY <1>10 DEF TypeOK, RowTypes, FileTypes, PublisherTypes, ListPublished, database, files, publisherVars
  <2>2. ReconcilerTypes'
    BY <1>10 DEF TypeOK, ReconcilerTypes, ListPublished, Published, ReconcilerSteps, Resume
  <2> QED  BY <2>1, <2>2 DEF TypeOK
<1>11. CASE AuditHealthy(r)
  <2>1. RowTypes' /\ FileTypes' /\ PublisherTypes'
    BY <1>11 DEF TypeOK, RowTypes, FileTypes, PublisherTypes, AuditHealthy, database, files, publisherVars
  <2>2. ReconcilerTypes'
    BY <1>11 DEF TypeOK, ReconcilerTypes, AuditHealthy, ReconcilerSteps, Resume
  <2> QED  BY <2>1, <2>2 DEF TypeOK
<1>12. CASE AuditUnreadable(r)
  <2>1. RowTypes' /\ PublisherTypes'
    BY <1>12 DEF TypeOK, RowTypes, PublisherTypes, AuditUnreadable, database, publisherVars
  <2>2. FileTypes'
    BY <1>12 DEF TypeOK, FileTypes, AuditUnreadable, Blobs, Quarantine, ReconcilerTypes, files
  <2>3. ReconcilerTypes'
    BY <1>12 DEF TypeOK, ReconcilerTypes, AuditUnreadable, ReconcilerSteps, Resume
  <2> QED  BY <2>1, <2>2, <2>3 DEF TypeOK
<1>13. CASE ReindexDate(r)
  <2>1. FileTypes' /\ PublisherTypes'
    BY <1>13 DEF TypeOK, FileTypes, PublisherTypes, ReindexDate, files, publisherVars
  <2>2. RowTypes'
    BY <1>13 DEF TypeOK, RowTypes, ReindexDate, database
  <2>3. ReconcilerTypes'
    BY <1>13 DEF TypeOK, ReconcilerTypes, ReindexDate, ReconcilerSteps, Resume
  <2> QED  BY <2>1, <2>2, <2>3 DEF TypeOK
<1>14. CASE RestoreProfile(r)
  <2>1. FileTypes' /\ PublisherTypes'
    BY <1>14 DEF TypeOK, FileTypes, PublisherTypes, RestoreProfile, files, publisherVars
  <2>2. RowTypes'
    BY <1>14 DEF TypeOK, RowTypes, RestoreProfile, Exit, Abort, ReconcilerTypes, database
  <2>3. ReconcilerTypes'
    BY <1>14, VersionFacts DEF TypeOK, ReconcilerTypes, RestoreProfile, ReconcilerSteps, Resume, Exit, Abort
  <2> QED  BY <2>1, <2>2, <2>3 DEF TypeOK
<1>15. CASE SweepOrphans(r)
  <2>1. RowTypes' /\ PublisherTypes'
    BY <1>15 DEF TypeOK, RowTypes, PublisherTypes, SweepOrphans, database, publisherVars
  <2>2. FileTypes'
    BY <1>15 DEF TypeOK, FileTypes, SweepOrphans, Blobs, Quarantine, files
  <2>3. ReconcilerTypes'
    BY <1>15 DEF TypeOK, ReconcilerTypes, SweepOrphans, ReconcilerSteps, Resume
  <2> QED  BY <2>1, <2>2, <2>3 DEF TypeOK
<1>16. CASE SweepTemps(r)
  <2>1. RowTypes' /\ PublisherTypes'
    BY <1>16 DEF TypeOK, RowTypes, PublisherTypes, SweepTemps, database, publisherVars
  <2>2. FileTypes'
    BY <1>16 DEF TypeOK, FileTypes, SweepTemps, Blobs, files
  <2>3. ReconcilerTypes'
    BY <1>16, VersionFacts DEF TypeOK, ReconcilerTypes, SweepTemps, ReconcilerSteps, Resume, Exit, Abort
  <2> QED  BY <2>1, <2>2, <2>3 DEF TypeOK
<1>17. CASE ReconcilerCrash(r)
  <2>1. FileTypes' /\ PublisherTypes'
    BY <1>17 DEF TypeOK, FileTypes, PublisherTypes, ReconcilerCrash, files, publisherVars
  <2>2. RowTypes'
    BY <1>17 DEF TypeOK, RowTypes, ReconcilerCrash, Exit, Abort, database
  <2>3. ReconcilerTypes'
    BY <1>17, VersionFacts DEF TypeOK, ReconcilerTypes, ReconcilerCrash, ReconcilerSteps, Resume, Exit, Abort
  <2> QED  BY <2>1, <2>2, <2>3 DEF TypeOK
<1> QED
    BY <1>1, <1>2, <1>3, <1>4, <1>5, <1>6, <1>7, <1>8, <1>9, <1>10, <1>11, <1>12, <1>13, <1>14, <1>15, <1>16, <1>17 DEF Reconcile

----------------------------------------------------------------------------
(* What one transaction does to a consistent date.  Each lemma is about a  *)
(* change of the rows, whichever action makes it.                          *)

\* Rows only ever become final, and a row keeps its hash and predecessor.
Grows ==
    /\ Allocated \subseteq Allocated'
    /\ Published \subseteq Published'
    /\ profiles \subseteq profiles'
    /\ \A v \in Allocated : hash'[v] = hash[v] /\ pred'[v] = pred[v]

Opens ==
    \E v \in Versions, c \in Contents, o \in 0 .. MaxVersion :
        /\ Drafts = {} /\ \A w \in Allocated : w < v
        /\ o # 0 => o \in Published \cap profiles /\ \A w \in Allocated : pred[w] # o
        /\ status' = [status EXCEPT ![v] = "draft"]
        /\ hash' = [hash EXCEPT ![v] = c]
        /\ pred' = [pred EXCEPT ![v] = o]
        /\ UNCHANGED <<profiles, index>>

Publishes ==
    \E v \in Drafts :
        /\ status' = [status EXCEPT ![v] = "published"]
        /\ profiles' = profiles \cup {v}
        /\ index' \in {0, v}
        /\ UNCHANGED <<hash, pred>>

Withdraws ==
    \E v \in Drafts :
        /\ status' = [status EXCEPT ![v] = "withdrawn"]
        /\ UNCHANGED <<hash, pred, profiles, index>>

\* The entry is derived again, perhaps after a published version got the day
\* profile it lacked.
Restores ==
    /\ profiles' = profiles \/ \E v \in Published : profiles' = profiles \cup {v}
    /\ index' = 0 \/ IsNewest(index', Published \cap profiles')
    /\ UNCHANGED <<status, hash, pred>>

\* Every step is one of these transactions on the rows, or none.
Transaction == Opens \/ Publishes \/ Withdraws \/ Restores \/ UNCHANGED database

LEMMA Untouched ==
    ASSUME Consistent, UNCHANGED database
    PROVE  Consistent' /\ Grows
BY DEF Consistent, PendingIsNewest, SupersessionIsLinear, RowsAreWhole,
       IndexFollowsServed, Served, IsNewest, Allocated, Drafts, Published,
       Grows, database

\* The served version is unique.
LEMMA NewestUnique ==
    ASSUME NEW S, S \subseteq Versions, NEW v, NEW w, IsNewest(v, S), IsNewest(w, S)
    PROVE  v = w
<1>1. CASE S = {}
  BY <1>1 DEF IsNewest
<1>2. CASE S # {}
  <2>1. v \in S /\ w \in S /\ v <= w /\ w <= v
    BY <1>2 DEF IsNewest
  <2>2. v \in Nat /\ w \in Nat
    BY <2>1, VersionFacts
  <2> QED  BY <2>1, <2>2
<1> QED  BY <1>1, <1>2

LEMMA Opening ==
    ASSUME TypeOK, Consistent,
           NEW v \in Versions, NEW c \in Contents, NEW o \in 0 .. MaxVersion,
           Drafts = {}, \A w \in Allocated : w < v,
           o # 0 => o \in Published \cap profiles /\ \A w \in Allocated : pred[w] # o,
           status' = [status EXCEPT ![v] = "draft"],
           hash' = [hash EXCEPT ![v] = c],
           pred' = [pred EXCEPT ![v] = o],
           UNCHANGED <<profiles, index>>
    PROVE  Consistent' /\ Grows
<1> USE VersionFacts DEF TypeOK, RowTypes
<1>1. /\ v \notin Allocated
      /\ Allocated' = Allocated \cup {v}
      /\ Drafts' = {v}
      /\ Published' = Published
  BY DEF Allocated, Drafts, Published
<1>2. \A w \in Allocated : w # v /\ hash'[w] = hash[w] /\ pred'[w] = pred[w]
  BY <1>1 DEF Allocated
<1>3. hash'[v] = c /\ pred'[v] = o
  OBVIOUS
<1>4. PendingIsNewest'
  BY <1>1 DEF PendingIsNewest, Allocated
<1>5. SupersessionIsLinear'
  <2>1. ASSUME NEW w \in Allocated', pred'[w] # 0
        PROVE  /\ pred'[w] < w
               /\ pred'[w] \in Published \cap profiles
               /\ \A u \in Allocated' : pred'[u] = pred'[w] => u = w
    <3>1. CASE w = v
      BY <1>1, <1>2, <1>3, <2>1, <3>1 DEF Allocated, Published
    <3>2. CASE w \in Allocated
      BY <1>1, <1>2, <1>3, <2>1, <3>2 DEF Consistent, SupersessionIsLinear
    <3> QED  BY <1>1, <2>1, <3>1, <3>2
  <2> QED  BY <1>1, <2>1 DEF SupersessionIsLinear
<1>6. RowsAreWhole'
  BY <1>1, <1>2, <1>3 DEF Consistent, RowsAreWhole
<1>7. IndexFollowsServed'
  BY <1>1 DEF Consistent, IndexFollowsServed, Served
<1>8. Grows
  BY <1>1, <1>2 DEF Grows
<1> QED  BY <1>4, <1>5, <1>6, <1>7, <1>8 DEF Consistent

LEMMA Publishing ==
    ASSUME TypeOK, Consistent, NEW v \in Drafts,
           status' = [status EXCEPT ![v] = "published"],
           profiles' = profiles \cup {v},
           index' \in {0, v},
           UNCHANGED <<hash, pred>>
    PROVE  Consistent' /\ Grows
<1> USE VersionFacts DEF TypeOK, RowTypes
<1>1. /\ v \in Versions
      /\ Allocated' = Allocated
      /\ v \in Allocated
      /\ Published' = Published \cup {v}
  BY DEF Allocated, Drafts, Published
<1>2. Drafts' \subseteq Drafts
  BY DEF Drafts
<1>3. PendingIsNewest' /\ SupersessionIsLinear' /\ RowsAreWhole'
  BY <1>1, <1>2
     DEF Consistent, PendingIsNewest, SupersessionIsLinear, RowsAreWhole
<1>4. IsNewest(v, Published' \cap profiles')
  BY <1>1 DEF Consistent, PendingIsNewest, RowsAreWhole, IsNewest, Allocated, Published
<1>5. \A w : Served(w)' => w = v
  BY <1>4, NewestUnique DEF Served, Published
<1>6. IndexFollowsServed'
  BY <1>5 DEF IndexFollowsServed
<1>7. Grows
  BY <1>1 DEF Grows
<1> QED  BY <1>3, <1>6, <1>7 DEF Consistent

LEMMA Withdrawing ==
    ASSUME TypeOK, Consistent, NEW v \in Drafts,
           status' = [status EXCEPT ![v] = "withdrawn"],
           UNCHANGED <<hash, pred, profiles, index>>
    PROVE  Consistent' /\ Grows
<1> USE VersionFacts DEF TypeOK, RowTypes
<1>1. /\ Allocated' = Allocated
      /\ Published' = Published
      /\ Drafts' \subseteq Drafts
  BY DEF Allocated, Drafts, Published
<1>2. PendingIsNewest' /\ SupersessionIsLinear' /\ RowsAreWhole' /\ IndexFollowsServed'
  BY <1>1 DEF Consistent, PendingIsNewest, SupersessionIsLinear, RowsAreWhole,
              IndexFollowsServed, Served
<1>3. Grows
  BY <1>1 DEF Grows
<1> QED  BY <1>2, <1>3 DEF Consistent

LEMMA Restoring ==
    ASSUME TypeOK, Consistent, Restores
    PROVE  Consistent' /\ Grows
<1> USE VersionFacts DEF TypeOK, RowTypes, Restores
<1>1. Allocated' = Allocated /\ Published' = Published /\ Drafts' = Drafts
  BY DEF Allocated, Drafts, Published
<1>2. PendingIsNewest' /\ SupersessionIsLinear' /\ RowsAreWhole'
  BY <1>1 DEF Consistent, PendingIsNewest, SupersessionIsLinear, RowsAreWhole
<1>3. IndexFollowsServed'
  <2>1. Published \subseteq Versions
    BY DEF Published
  <2> QED  BY <1>1, <2>1, NewestUnique DEF IndexFollowsServed, Served
<1>4. Grows
  BY <1>1 DEF Grows
<1> QED  BY <1>2, <1>3, <1>4 DEF Consistent

LEMMA TransactionKeepsConsistency ==
    ASSUME TypeOK, Consistent, Transaction
    PROVE  Consistent' /\ Grows
<1>1. CASE Opens
  BY <1>1, Opening DEF Opens
<1>2. CASE Publishes
  BY <1>2, Publishing DEF Publishes
<1>3. CASE Withdraws
  BY <1>3, Withdrawing DEF Withdraws
<1>4. CASE Restores
  BY <1>4, Restoring
<1>5. CASE UNCHANGED database
  BY <1>5, Untouched
<1> QED  BY <1>1, <1>2, <1>3, <1>4, <1>5 DEF Transaction

----------------------------------------------------------------------------
(* What one step of a publisher does.                                      *)

\* A process changes the rows or the lock only while the lock is free or its own.
Orderly(x) == lock \in {Free, x} \/ UNCHANGED <<database, lock>>

LEMMA PublisherIsOrderly ==
    ASSUME Inductive, NEW p \in Publishers, Publisher(p)
    PROVE  /\ Orderly(p)
           /\ UNCHANGED reconcilerVars
           /\ \A q \in Publishers \ {p} : pc'[q] = pc[q] /\ job'[q] = job[q]
<1> USE DEF Inductive, TypeOK, PublisherTypes, Orderly, database, reconcilerVars, Goto,
            AtLock, MustPublish
<1>1. CASE Prepare(p) \/ RefusePending(p) \/ RefuseSupersession(p) \/ FailOnTakenSuccessor(p) \/ Discard(p) \/ Promote(p) \/ PromoteFails(p) \/ CleanUp(p) \/ VerifyPromoted(p)
  BY <1>1 DEF Prepare, RefusePending, RefuseSupersession, FailOnTakenSuccessor, Discard, Promote, PromoteFails, CleanUp, VerifyPromoted
<1>2. CASE RepublishUnchanged(p) \/ AdoptPending(p) \/ OpenVersion(p) \/ Complete(p) \/ CompletionFails(p)
  BY <1>2 DEF RepublishUnchanged, AdoptPending, OpenVersion, Complete, CompletionFails
<1>3. CASE Stage(p) \/ StageTorn(p) \/ CommitPending(p) \/ RollBackPending(p)
  BY <1>3 DEF Stage, StageTorn, CommitPending, RollBackPending, Own, InPhaseOne, DecisionStands
<1>4. CASE Crash(p)
  BY <1>4 DEF Crash
<1> QED
  BY <1>1, <1>2, <1>3, <1>4 DEF Publisher

LEMMA PublisherTransacts ==
    ASSUME Inductive, NEW p \in Publishers, Publisher(p)
    PROVE  Transaction
<1> USE VersionFacts
<1>1. CASE RepublishUnchanged(p)
  <2>1. PICK v \in Versions :
          Unchanged(p, v) /\ index' \in {index, v} /\ UNCHANGED <<status, hash, pred, profiles>>
    BY <1>1 DEF RepublishUnchanged, Index
  <2>2. CASE index' = v
    <3>1. IsNewest(v, Published \cap profiles)
      BY <2>1 DEF Unchanged, IsNewest
    <3> QED  BY <2>1, <2>2, <3>1 DEF Transaction, Restores
  <2>3. CASE index' = index
    BY <2>1, <2>3 DEF Transaction, database
  <2> QED  BY <2>1, <2>2, <2>3
<1>2. CASE CommitPending(p)
  <2>1. CASE job[p].fresh
    <3> DEFINE v == job[p].ver
               o == job[p].offer
    <3>1. /\ DecisionStands(p) /\ OfferStands(p) /\ CommittedIsOwn(p)
          /\ pc[p] = "staged"
      BY <1>2 DEF CommitPending, Inductive, Own, InPhaseOne
    <3>2. /\ v \in Versions
          /\ job[p].want \in Contents
          /\ Drafts = {} /\ \A w \in Allocated : w < v
          /\ o # 0 => o \in Published \cap profiles /\ \A w \in Allocated : pred[w] # o
      BY <2>1, <3>1 DEF DecisionStands, OfferStands, InPhaseOne
    <3>3. o \in 0 .. MaxVersion
      BY DEF Inductive, TypeOK, PublisherTypes, Job
    <3>4. /\ status' = [status EXCEPT ![v] = "draft"]
          /\ hash' = [hash EXCEPT ![v] = job[p].want]
          /\ pred' = [pred EXCEPT ![v] = o]
          /\ UNCHANGED <<profiles, index>>
      BY <1>2, <2>1 DEF CommitPending
    <3> HIDE DEF v, o
    <3> QED  BY <3>2, <3>3, <3>4 DEF Transaction, Opens
  <2>2. CASE ~job[p].fresh
    BY <1>2, <2>2 DEF CommitPending, Transaction, database
  <2> QED  BY <2>1, <2>2
<1>3. CASE Complete(p)
  <2> DEFINE v == job[p].ver
  <2>1. v \in Versions
    BY <1>3, OwnVersion DEF Inductive, Own, Complete
  <2>2. CASE UNCHANGED <<status, profiles, index>>
    BY <1>3, <2>2 DEF Complete, Transaction, database
  <2>3. CASE /\ status[v] = "draft"
             /\ status' = [status EXCEPT ![v] = "published"]
             /\ profiles' = profiles \cup {v}
             /\ index' = v
    <3>1. v \in Drafts
      BY <2>1, <2>3 DEF Drafts
    <3>2. UNCHANGED <<hash, pred>>
      BY <1>3 DEF Complete
    <3> HIDE DEF v
    <3> QED  BY <2>3, <3>1, <3>2 DEF Transaction, Publishes
  <2> QED  BY <1>3, <2>2, <2>3 DEF Complete, Index
<1>4. CASE UNCHANGED database
  BY <1>4 DEF Transaction
<1>5. CASE \/ Prepare(p) \/ RefusePending(p) \/ AdoptPending(p)
           \/ RefuseSupersession(p) \/ FailOnTakenSuccessor(p) \/ OpenVersion(p)
           \/ Stage(p) \/ StageTorn(p) \/ RollBackPending(p) \/ Discard(p)
           \/ Promote(p) \/ PromoteFails(p) \/ CleanUp(p) \/ VerifyPromoted(p)
           \/ CompletionFails(p) \/ Crash(p)
  <2>1. UNCHANGED database
    BY <1>5 DEF Prepare, RefusePending, AdoptPending, RefuseSupersession,
                FailOnTakenSuccessor, OpenVersion, Stage, StageTorn, RollBackPending,
                Discard, Promote, PromoteFails, CleanUp, VerifyPromoted,
                CompletionFails, Crash
  <2> QED  BY <2>1, <1>4
<1> QED
  BY <1>1, <1>2, <1>3, <1>5 DEF Publisher

LEMMA PublisherKeepsOwn ==
    ASSUME Inductive, NEW p \in Publishers, Publisher(p)
    PROVE  Own(p)'
<1> USE DEF Own, InPhaseOne, InPhaseTwo, Goto
<1>0. /\ pc \in [Publishers -> PublisherSteps]
      /\ job \in [Publishers -> Job]
      /\ job[p] \in Job
      /\ Own(p)
  BY DEF Inductive, TypeOK, PublisherTypes
<1>1. CASE Prepare(p)
  <2>1. PICK c \in Contents, f \in Forces, offers \in Offers, v \in 0 .. MaxVersion :
          job' = [job EXCEPT ![p] =
            [want |-> c, force |-> f,
             offer |-> IF offers THEN v ELSE 0,
             offerProfile |-> IF offers /\ v \in profiles THEN v ELSE 0,
             ver |-> 0, fresh |-> FALSE, staged |-> FALSE, created |-> FALSE]]
    BY <1>1 DEF Prepare
  <2>2. job'[p].want \in Contents /\ job'[p].offerProfile \in profiles \cup {0}
    BY <1>0, <2>1
  <2>3. pc'[p] = "prepared" /\ UNCHANGED profiles
    BY <1>0, <1>1 DEF Prepare, database
  <2> QED  BY <2>2, <2>3 DEF OfferStands, CommittedIsOwn
<1>2. CASE RepublishUnchanged(p)
  <2>1. CASE pc'[p] = "failed"
    BY <2>1 DEF OfferStands, CommittedIsOwn
  <2>2. CASE pc'[p] # "failed"
    <3>1. PICK v \in Versions :
            /\ Unchanged(p, v)
            /\ job' = [job EXCEPT ![p] = [@ EXCEPT !.ver = v]]
            /\ pc'[p] = "done"
      BY <1>0, <1>2, <2>2 DEF RepublishUnchanged
    <3>2. job'[p].ver = v /\ job'[p].want = job[p].want
      BY <1>0, <3>1 DEF Job
    <3>3. v \in Published /\ v \in profiles /\ hash[v] = job[p].want /\ v \in Allocated
      BY <3>1 DEF Unchanged, IsNewest, Published, Allocated
    <3>4. UNCHANGED <<status, hash, profiles>>
      BY <1>2 DEF RepublishUnchanged
    <3> QED
      BY <3>1, <3>2, <3>3, <3>4 DEF OfferStands, CommittedIsOwn, Published, Allocated
  <2> QED  BY <2>1, <2>2
<1>3. CASE AdoptPending(p)
  <2>1. PICK v \in Drafts :
          /\ hash[v] = job[p].want
          /\ job' = [job EXCEPT ![p] = [@ EXCEPT !.ver = v, !.fresh = FALSE]]
    BY <1>3 DEF AdoptPending
  <2>2. /\ job'[p].ver = v /\ job'[p].want = job[p].want /\ ~job'[p].fresh
        /\ job'[p].offerProfile = job[p].offerProfile
    BY <1>0, <2>1 DEF Job
  <2>3. pc[p] = "prepared" /\ pc'[p] = "staging" /\ lock' = p /\ UNCHANGED database
    BY <1>0, <1>3 DEF AdoptPending, MustPublish, AtLock
  <2>4. v \in Versions
    BY DEF Drafts
  <2> QED  BY <1>0, <2>1, <2>2, <2>3, <2>4
              DEF OfferStands, CommittedIsOwn, DecisionStands, Drafts, database
<1>4. CASE OpenVersion(p)
  <2>1. PICK v \in Versions :
          /\ NextVersion(v)
          /\ job' = [job EXCEPT ![p] = [@ EXCEPT !.ver = v, !.fresh = TRUE]]
    BY <1>4 DEF OpenVersion
  <2>2. /\ job'[p].ver = v /\ job'[p].want = job[p].want /\ job'[p].fresh
        /\ job'[p].offer = job[p].offer
        /\ job'[p].offerProfile = job[p].offerProfile
    BY <1>0, <2>1 DEF Job
  <2>3. pc[p] = "prepared" /\ pc'[p] = "staging" /\ lock' = p /\ UNCHANGED database
    BY <1>0, <1>4 DEF OpenVersion, MustPublish, AtLock
  <2>4. Drafts = {} /\ \A w \in Allocated : w < v
    BY <1>4, <2>1 DEF OpenVersion, NonePending, NextVersion
  <2>5. DecisionStands(p)'
    BY <2>2, <2>3, <2>4 DEF DecisionStands, Drafts, Allocated, database
  <2>6. job[p].offer # 0 => /\ job[p].offer \in Published \cap profiles
                            /\ \A w \in Allocated : pred[w] # job[p].offer
    BY <1>0, <1>4, <2>3 DEF OpenVersion, ValidOffer, SuccessorTaken, OfferStands
  <2>7. OfferStands(p)'
    BY <1>0, <2>2, <2>3, <2>6 DEF OfferStands, Published, Allocated, database
  <2> QED  BY <2>3, <2>5, <2>7 DEF CommittedIsOwn
<1>5. CASE Stage(p)
  <2>1. CASE pc'[p] = "failed"
    BY <2>1 DEF OfferStands, CommittedIsOwn
  <2>2. CASE pc'[p] # "failed"
    <3>1. /\ job'[p].ver = job[p].ver /\ job'[p].want = job[p].want
          /\ job'[p].fresh = job[p].fresh /\ job'[p].offer = job[p].offer
          /\ job'[p].offerProfile = job[p].offerProfile
      <4>1. PICK b \in BOOLEAN :
              job' \in {job, [job EXCEPT ![p] = [@ EXCEPT !.staged = TRUE, !.created = b]]}
        BY <1>5 DEF Stage
      <4> QED  BY <1>0, <4>1 DEF Job
    <3>2. pc[p] = "staging" /\ pc'[p] = "staged" /\ UNCHANGED <<database, lock>>
      BY <1>0, <1>5, <2>2 DEF Stage
    <3>3. DecisionStands(p)'
      BY <1>0, <3>1, <3>2 DEF DecisionStands, Drafts, Allocated, database
    <3>4. OfferStands(p)'
      BY <1>0, <3>1, <3>2 DEF OfferStands, Published, Allocated, database
    <3> QED  BY <3>2, <3>3, <3>4 DEF CommittedIsOwn
  <2> QED  BY <2>1, <2>2
<1>6. CASE CommitPending(p)
  <2>1. pc[p] = "staged" /\ pc'[p] = "committed" /\ UNCHANGED job
    BY <1>0, <1>6 DEF CommitPending
  <2>2. job[p].ver \in Allocated' /\ hash'[job[p].ver] = job[p].want
    <3>1. CASE job[p].fresh
      BY <1>0, <1>6, <2>1, <3>1
         DEF CommitPending, OfferStands, Allocated, Inductive, TypeOK, RowTypes
    <3>2. CASE ~job[p].fresh
      BY <1>0, <1>6, <2>1, <3>2 DEF CommitPending, DecisionStands, Drafts, Allocated
    <3> QED  BY <3>1, <3>2
  <2> QED  BY <2>1, <2>2 DEF OfferStands, CommittedIsOwn
<1>7. CASE Promote(p) \/ PromoteFails(p) \/ CleanUp(p) \/ VerifyPromoted(p)
  <2>1. job'[p].ver = job[p].ver /\ job'[p].want = job[p].want
    BY <1>0, <1>7 DEF Promote, PromoteFails, CleanUp, VerifyPromoted, Job
  <2>2. /\ pc[p] \in InPhaseTwo
        /\ pc'[p] \in {"linked", "link_failed", "promoted", "verified", "failed"}
        /\ UNCHANGED database
    BY <1>0, <1>7 DEF Promote, PromoteFails, CleanUp, VerifyPromoted
  <2> QED  BY <1>0, <2>1, <2>2 DEF OfferStands, CommittedIsOwn, Allocated, database
<1>8. CASE Complete(p)
  <2>1. CASE pc'[p] = "done"
    <3>1. /\ pc[p] = "verified" /\ UNCHANGED <<job, hash>>
          /\ status' = [status EXCEPT ![job[p].ver] = "published"]
          /\ profiles' = profiles \cup {job[p].ver}
      BY <1>0, <1>8, <2>1 DEF Complete
    <3>2. job[p].ver \in Versions /\ hash[job[p].ver] = job[p].want
      BY <1>0, <3>1 DEF CommittedIsOwn, Allocated
    <3>3. status'[job[p].ver] = "published"
      BY <3>1, <3>2 DEF Inductive, TypeOK, RowTypes
    <3> QED  BY <2>1, <3>1, <3>2, <3>3 DEF OfferStands, CommittedIsOwn, Allocated, Published
  <2>2. CASE pc'[p] # "done"
    <3>1. pc'[p] \in {"failed", "already_final"}
      BY <1>0, <1>8, <2>2 DEF Complete
    <3> QED  BY <3>1 DEF OfferStands, CommittedIsOwn
  <2> QED  BY <2>1, <2>2
<1>9. CASE \/ RefusePending(p) \/ RefuseSupersession(p) \/ FailOnTakenSuccessor(p)
           \/ StageTorn(p) \/ RollBackPending(p) \/ Discard(p)
           \/ CompletionFails(p) \/ Crash(p)
  <2>1. pc'[p] \in Idle \cup {"rolled_back"} /\ pc'[p] # "done"
    BY <1>0, <1>9 DEF RefusePending, RefuseSupersession, FailOnTakenSuccessor, StageTorn,
       RollBackPending, Discard, CompletionFails, Crash, Idle, Outcomes
  <2> QED  BY <2>1 DEF OfferStands, CommittedIsOwn, Idle, Outcomes
<1> QED
  BY <1>1, <1>2, <1>3, <1>4, <1>5, <1>6, <1>7, <1>8, <1>9 DEF Publisher

----------------------------------------------------------------------------
(* What one step of a reconciler does.                                     *)

LEMMA ReconcilerIsOrderly ==
    ASSUME Inductive, NEW r \in Reconcilers, Reconcile(r) \/ ReconcilerCrash(r)
    PROVE  /\ Orderly(r)
           /\ UNCHANGED publisherVars
           /\ \A q \in Reconcilers \ {r} : /\ rpc'[q] = rpc[q]
                                           /\ cur'[q] = cur[q]
                                           /\ todo'[q] = todo[q]
<1> USE DEF Inductive, TypeOK, ReconcilerTypes, Orderly, database, publisherVars, Resume,
            Exit, Abort
<1>1. CASE ListPending(r) \/ ListPublished(r) \/ AuditHealthy(r) \/ AuditUnreadable(r)
           \/ SweepOrphans(r) \/ SweepTemps(r)
  BY <1>1 DEF ListPending, ListPublished, AuditHealthy, AuditUnreadable, SweepOrphans,
              SweepTemps
<1>2. CASE TakePending(r) \/ ReindexDate(r) \/ RestoreProfile(r)
  BY <1>2 DEF TakePending, ReindexDate, RestoreProfile
<1>3. CASE InspectArtifact(r) \/ InspectTemp(r) \/ PromoteStaged(r) \/ CleanUpStaged(r)
           \/ VerifyStaged(r)
  BY <1>3 DEF InspectArtifact, InspectTemp, PromoteStaged, CleanUpStaged, VerifyStaged
<1>4. CASE PublishPending(r) \/ WithdrawPending(r)
  BY <1>4 DEF PublishPending, WithdrawPending, RepairHolds, RepairStands, InRepair
<1>5. CASE ReconcilerCrash(r)
  BY <1>5 DEF ReconcilerCrash
<1> QED
  BY <1>1, <1>2, <1>3, <1>4, <1>5 DEF Reconcile

LEMMA ReconcilerTransacts ==
    ASSUME Inductive, NEW r \in Reconcilers, Reconcile(r) \/ ReconcilerCrash(r)
    PROVE  Transaction
<1> USE VersionFacts
<1> DEFINE v == cur[r]
<1>0. rpc[r] \in InRepair => v \in Drafts /\ v \in Versions
  BY DEF Inductive, RepairHolds, RepairStands, Drafts
<1>1. CASE PublishPending(r)
  <2>1. v \in Drafts /\ UNCHANGED <<hash, pred>>
    BY <1>0, <1>1 DEF PublishPending, InRepair
  <2>2. CASE /\ status' = [status EXCEPT ![v] = "published"]
             /\ profiles' = profiles \cup {v}
             /\ Reindexed(index', (Published \cap profiles) \cup {v})
    <3>1. IsNewest(v, (Published \cap profiles) \cup {v})
      BY <2>1 DEF Inductive, Consistent, PendingIsNewest, IsNewest, Allocated, Published
    <3>2. \A w : IsNewest(w, (Published \cap profiles) \cup {v}) => w = v
      BY <1>0, <2>1, <3>1, NewestUnique DEF Published, Drafts
    <3>3. index' \in {0, v}
      BY <2>2, <3>2 DEF Reindexed
    <3> HIDE DEF v
    <3> QED  BY <2>1, <2>2, <3>3 DEF Transaction, Publishes
  <2>3. CASE UNCHANGED <<status, profiles, index>>
    BY <2>1, <2>3 DEF Transaction, database
  <2> QED  BY <1>1, <2>2, <2>3 DEF PublishPending
<1>2. CASE WithdrawPending(r)
  <2>1. /\ v \in Drafts
        /\ status' = [status EXCEPT ![v] = "withdrawn"]
        /\ UNCHANGED <<hash, pred, profiles, index>>
    BY <1>0, <1>2 DEF WithdrawPending, InRepair
  <2> HIDE DEF v
  <2> QED  BY <2>1 DEF Transaction, Withdraws
<1>3. CASE ReindexDate(r)
  <2>1. /\ Reindexed(index', Published \cap profiles)
        /\ UNCHANGED <<status, hash, pred, profiles>>
    BY <1>3 DEF ReindexDate
  <2>2. index' = 0 \/ IsNewest(index', Published \cap profiles)
    BY <2>1 DEF Reindexed
  <2> QED  BY <2>1, <2>2 DEF Transaction, Restores
<1>4. CASE RestoreProfile(r)
  <2>1. CASE UNCHANGED <<profiles, index>>
    BY <1>4, <2>1 DEF RestoreProfile, Transaction, database
  <2>2. CASE ~UNCHANGED <<profiles, index>>
    <3>1. PICK w \in todo[r] :
            /\ profiles' = profiles \cup {w}
            /\ Reindexed(index', (Published \cap profiles) \cup {w})
      BY <1>4, <2>2 DEF RestoreProfile
    <3>2. w \in Published
      BY <1>4 DEF RestoreProfile, Inductive, Listed
    <3>3. (Published \cap profiles) \cup {w} = Published \cap profiles'
      BY <3>1, <3>2
    <3>4. index' = 0 \/ IsNewest(index', Published \cap profiles')
      BY <3>1, <3>3 DEF Reindexed
    <3>5. UNCHANGED <<status, hash, pred>>
      BY <1>4 DEF RestoreProfile
    <3> QED  BY <3>1, <3>2, <3>4, <3>5 DEF Transaction, Restores
  <2> QED  BY <2>1, <2>2
<1>5. CASE \/ ListPending(r) \/ TakePending(r) \/ InspectArtifact(r) \/ InspectTemp(r)
           \/ PromoteStaged(r) \/ CleanUpStaged(r) \/ VerifyStaged(r)
           \/ ListPublished(r) \/ AuditHealthy(r) \/ AuditUnreadable(r)
           \/ SweepOrphans(r) \/ SweepTemps(r) \/ ReconcilerCrash(r)
  <2>1. UNCHANGED database
    BY <1>5 DEF ListPending, TakePending, InspectArtifact, InspectTemp, PromoteStaged,
                CleanUpStaged, VerifyStaged, ListPublished, AuditHealthy,
                AuditUnreadable, SweepOrphans, SweepTemps, ReconcilerCrash
  <2> QED  BY <2>1 DEF Transaction
<1> QED
  BY <1>1, <1>2, <1>3, <1>4, <1>5 DEF Reconcile

LEMMA ReconcilerKeepsRepair ==
    ASSUME Inductive, NEW r \in Reconcilers, Reconcile(r) \/ ReconcilerCrash(r)
    PROVE  /\ rpc'[r] \in InRepair => RepairStands(r)'
           /\ Listed(r)'
<1> USE DEF InRepair, Resume, Exit, Abort
<1>0. /\ rpc \in [Reconcilers -> ReconcilerSteps]
      /\ cur \in [Reconcilers -> 0 .. MaxVersion]
      /\ todo \in [Reconcilers -> SUBSET Versions]
      /\ rpc[r] \in InRepair => RepairStands(r)
      /\ Listed(r)
  BY DEF Inductive, TypeOK, ReconcilerTypes, RepairHolds
<1>1. CASE TakePending(r)
  <2>1. CASE rpc' = rpc
    BY <1>0, <1>1, <2>1 DEF TakePending, Listed
  <2>2. CASE rpc' # rpc
    <3>1. PICK v \in todo[r] : /\ status[v] = "draft"
                               /\ lock' = r
                               /\ cur' = [cur EXCEPT ![r] = v]
      BY <1>1, <2>2 DEF TakePending, StillPending
    <3>2. v \in Drafts /\ v \in Allocated /\ cur'[r] = v
      BY <1>0, <3>1, VersionFacts DEF Drafts, Allocated
    <3>3. PredecessorProfiled(v)
      BY <3>2 DEF PredecessorProfiled, Inductive, Consistent, SupersessionIsLinear
    <3>4. rpc'[r] = "artifact" /\ UNCHANGED database
      BY <1>0, <1>1, <2>2 DEF TakePending
    <3> QED  BY <3>1, <3>2, <3>3, <3>4
                DEF RepairStands, PredecessorProfiled, Drafts, Listed, database
  <2> QED  BY <2>1, <2>2
<1>2. CASE InspectArtifact(r) \/ InspectTemp(r) \/ PromoteStaged(r)
  <2>1. /\ rpc[r] \in InRepair
        /\ rpc'[r] \in InRepair
        /\ UNCHANGED <<database, lock, cur>>
    BY <1>0, <1>2 DEF InspectArtifact, InspectTemp, PromoteStaged
  <2> QED  BY <1>0, <2>1 DEF RepairStands, PredecessorProfiled, Drafts, Listed, database
<1>3. CASE CleanUpStaged(r) \/ VerifyStaged(r)
  <2>1. CASE rpc'[r] = "idle"
    BY <2>1 DEF Listed
  <2>2. CASE rpc'[r] # "idle"
    <3>1. /\ rpc[r] \in InRepair
          /\ rpc'[r] \in InRepair
          /\ UNCHANGED <<database, lock, cur>>
      BY <1>0, <1>3, <2>2 DEF CleanUpStaged, VerifyStaged
    <3> QED  BY <1>0, <3>1 DEF RepairStands, PredecessorProfiled, Drafts, Listed, database
  <2> QED  BY <2>1, <2>2
<1>4. CASE ListPublished(r)
  <2>1. rpc'[r] = "published" /\ todo'[r] = Published /\ UNCHANGED status
    BY <1>0, <1>4 DEF ListPublished, database
  <2> QED  BY <2>1 DEF Listed, Published
<1>5. CASE AuditHealthy(r) \/ AuditUnreadable(r) \/ ReindexDate(r)
  <2>1. /\ rpc[r] \in {"published", "reindex"}
        /\ rpc'[r] \in {"published", "reindex"}
        /\ todo'[r] \subseteq todo[r]
        /\ UNCHANGED status
    BY <1>0, <1>5 DEF AuditHealthy, AuditUnreadable, ReindexDate, database
  <2> QED  BY <1>0, <2>1 DEF Listed, Published
<1>6. CASE RestoreProfile(r)
  <2>1. CASE rpc'[r] = "idle"
    BY <2>1 DEF Listed
  <2>2. CASE rpc'[r] # "idle"
    <3>1. /\ rpc[r] = "published"
          /\ rpc'[r] = "published"
          /\ todo'[r] \subseteq todo[r]
          /\ UNCHANGED status
      BY <1>0, <1>6, <2>2 DEF RestoreProfile
    <3> QED  BY <1>0, <3>1 DEF Listed, Published
  <2> QED  BY <2>1, <2>2
<1>7. CASE \/ ListPending(r) \/ PublishPending(r) \/ WithdrawPending(r)
           \/ SweepOrphans(r) \/ SweepTemps(r) \/ ReconcilerCrash(r)
  <2>1. rpc'[r] \in {"idle", "pending", "temps"}
    BY <1>0, <1>7 DEF ListPending, PublishPending, WithdrawPending, SweepOrphans,
                      SweepTemps, ReconcilerCrash
  <2> QED  BY <2>1 DEF Listed
<1> QED
  BY <1>1, <1>2, <1>3, <1>4, <1>5, <1>6, <1>7 DEF Reconcile

----------------------------------------------------------------------------
(* What the step of one process leaves to the others.                      *)

LEMMA OthersKeepOwn ==
    ASSUME Inductive, NEW x, Orderly(x), Grows,
           NEW q \in Publishers, x # q, pc'[q] = pc[q], job'[q] = job[q]
    PROVE  Own(q)'
<1>1. Own(q)
  BY DEF Inductive
<1>2. pc[q] \in InPhaseOne => lock = q /\ UNCHANGED <<database, lock>>
  BY <1>1, PublicationAssumption DEF PublicationAssumption, Own, DecisionStands, Orderly
<1>3. pc'[q] \in InPhaseOne => DecisionStands(q)'
  BY <1>1, <1>2 DEF Own, DecisionStands, Drafts, Allocated, database
<1>4. OfferStands(q)'
  BY <1>1, <1>2 DEF Own, OfferStands, Published, Allocated, Grows, database
<1>5. CommittedIsOwn(q)'
  BY <1>1 DEF Own, CommittedIsOwn, Grows
<1>6. pc'[q] = "done" => /\ job'[q].ver \in Published' \cap profiles'
                         /\ hash'[job'[q].ver] = job'[q].want
  BY <1>1 DEF Own, CommittedIsOwn, InPhaseTwo, Grows
<1> QED  BY <1>3, <1>4, <1>5, <1>6 DEF Own

LEMMA OthersKeepRepair ==
    ASSUME Inductive, NEW x, Orderly(x), Grows,
           NEW q \in Reconcilers, x # q, rpc'[q] = rpc[q], cur'[q] = cur[q],
           todo'[q] = todo[q]
    PROVE  /\ rpc'[q] \in InRepair => RepairStands(q)'
           /\ Listed(q)'
<1>1. (rpc[q] \in InRepair => RepairStands(q)) /\ Listed(q)
  BY DEF Inductive, RepairHolds
<1>2. rpc[q] \in InRepair => lock = q /\ UNCHANGED <<database, lock>>
  BY <1>1, PublicationAssumption DEF PublicationAssumption, RepairStands, Orderly
<1>3. rpc'[q] \in InRepair => RepairStands(q)'
  BY <1>1, <1>2 DEF RepairStands, PredecessorProfiled, Drafts, database
<1>4. Listed(q)'
  BY <1>1 DEF Listed, Grows
<1> QED  BY <1>3, <1>4

----------------------------------------------------------------------------
(* Inductiveness.                                                          *)

LEMMA InitInductive == Init => Inductive
<1> SUFFICES ASSUME Init PROVE Inductive
  OBVIOUS
<1>1. TypeOK
  BY InitType
<1>2. Consistent
  <2>1. PICK c \in Contents :
          /\ hash \in [Versions -> {c, Nothing}]
          /\ \A v \in Allocated : v = 1 /\ status[v] = "published" /\ hash[v] = c
    BY DEF Init, Allocated
  <2>2. Drafts = {} /\ profiles = {} /\ index = 0 /\ \A v \in Allocated : pred[v] = 0
    BY DEF Init, Drafts, Allocated
  <2> QED
    BY <2>1, <2>2 DEF Consistent, PendingIsNewest, SupersessionIsLinear, RowsAreWhole,
                      IndexFollowsServed
<1>3. \A p \in Publishers : Own(p)
  BY DEF Init, Own, InPhaseOne, OfferStands, CommittedIsOwn, InPhaseTwo
<1>4. RepairHolds /\ \A r \in Reconcilers : Listed(r)
  BY DEF Init, RepairHolds, InRepair, Listed
<1> QED  BY <1>1, <1>2, <1>3, <1>4 DEF Inductive

LEMMA NextInductive ==
    ASSUME Inductive, [Next]_vars
    PROVE  Inductive' /\ Grows
<1>1. ASSUME NEW p \in Publishers, Publisher(p)
      PROVE  Inductive' /\ Grows
  <2>1. Consistent' /\ Grows
    BY <1>1, PublisherTransacts, TransactionKeepsConsistency DEF Inductive
  <2>2. TypeOK'
    BY <1>1, PublisherKeepsTypes DEF Inductive, Own
  <2>3. /\ Orderly(p)
        /\ UNCHANGED reconcilerVars
        /\ \A q \in Publishers \ {p} : pc'[q] = pc[q] /\ job'[q] = job[q]
    BY <1>1, PublisherIsOrderly
  <2>4. ASSUME NEW q \in Publishers
        PROVE  Own(q)'
    <3>1. CASE q = p
      BY <1>1, <3>1, PublisherKeepsOwn
    <3>2. CASE q # p
      BY <2>1, <2>3, <3>2, OthersKeepOwn
    <3> QED  BY <3>1, <3>2
  <2>5. ASSUME NEW q \in Reconcilers
        PROVE  (rpc'[q] \in InRepair => RepairStands(q)') /\ Listed(q)'
    <3>1. p # q
      BY PublicationAssumption DEF PublicationAssumption
    <3> QED  BY <2>1, <2>3, <3>1, OthersKeepRepair DEF reconcilerVars
  <2> QED  BY <2>1, <2>2, <2>4, <2>5 DEF Inductive, RepairHolds
<1>2. ASSUME NEW r \in Reconcilers, Reconcile(r) \/ ReconcilerCrash(r)
      PROVE  Inductive' /\ Grows
  <2>1. Consistent' /\ Grows
    BY <1>2, ReconcilerTransacts, TransactionKeepsConsistency DEF Inductive
  <2>2. TypeOK'
    BY <1>2, ReconcilerKeepsTypes DEF Inductive
  <2>3. /\ Orderly(r)
        /\ UNCHANGED publisherVars
        /\ \A q \in Reconcilers \ {r} : /\ rpc'[q] = rpc[q]
                                        /\ cur'[q] = cur[q]
                                        /\ todo'[q] = todo[q]
    BY <1>2, ReconcilerIsOrderly
  <2>4. ASSUME NEW q \in Publishers
        PROVE  Own(q)'
    <3>1. r # q
      BY PublicationAssumption DEF PublicationAssumption
    <3> QED  BY <2>1, <2>3, <3>1, OthersKeepOwn DEF publisherVars
  <2>5. ASSUME NEW q \in Reconcilers
        PROVE  (rpc'[q] \in InRepair => RepairStands(q)') /\ Listed(q)'
    <3>1. CASE q = r
      BY <1>2, <3>1, ReconcilerKeepsRepair
    <3>2. CASE q # r
      BY <2>1, <2>3, <3>2, OthersKeepRepair
    <3> QED  BY <3>1, <3>2
  <2> QED  BY <2>1, <2>2, <2>4, <2>5 DEF Inductive, RepairHolds
<1>3. ASSUME UNCHANGED <<database, lock, publisherVars, reconcilerVars>>, FileTypes'
      PROVE  Inductive' /\ Grows
  <2>1. Consistent' /\ Grows
    BY <1>3, Untouched DEF Inductive
  <2>2. TypeOK'
    BY <1>3 DEF Inductive, TypeOK, RowTypes, PublisherTypes, ReconcilerTypes, database,
                publisherVars, reconcilerVars
  <2>3. \A x : Orderly(x)
    BY <1>3 DEF Orderly
  <2>4. \A q \in Publishers : Own(q)'
    BY <1>3, <2>1, <2>3, OthersKeepOwn, PublicationAssumption
       DEF publisherVars, PublicationAssumption
  <2>5. \A q \in Reconcilers : (rpc'[q] \in InRepair => RepairStands(q)') /\ Listed(q)'
    BY <1>3, <2>1, <2>3, OthersKeepRepair, PublicationAssumption
       DEF reconcilerVars, PublicationAssumption
  <2> QED  BY <2>1, <2>2, <2>4, <2>5 DEF Inductive, RepairHolds
<1>4. ASSUME NEW v \in Versions, Age(v) \/ Damage(v)
      PROVE  Inductive' /\ Grows
  <2>1. FileTypes'
    BY <1>4 DEF Age, Damage, Inductive, TypeOK, FileTypes, Blobs
  <2> QED  BY <1>3, <1>4, <2>1 DEF Age, Damage
<1>5. CASE UNCHANGED vars
  <2>1. FileTypes'
    BY <1>5 DEF vars, files, Inductive, TypeOK, FileTypes
  <2> QED  BY <1>3, <1>5, <2>1 DEF vars
<1> QED
  BY <1>1, <1>2, <1>4, <1>5 DEF Next

----------------------------------------------------------------------------
(* Theorems.                                                               *)

\* The inductive invariant holds in every reachable state.
THEOREM InductiveInvariant == Spec => []Inductive
<1>1. Inductive /\ [Next]_vars => Inductive'
  BY NextInductive
<1> QED
  BY <1>1, InitInductive, PTL DEF Spec

\* Every variable keeps its type: publication and repair read and write
\* rows, files and notes of the kinds the code declares.
THEOREM TypeCorrect == Spec => []TypeOK
<1>1. Inductive => TypeOK
  BY DEF Inductive
<1> QED
  BY <1>1, InductiveInvariant, PTL

\* A manifest that publish_day_profile leaves pending is the newest of its
\* date until it is published or withdrawn.
THEOREM PendingStaysNewest == Spec => []PendingIsNewest
<1>1. Inductive => PendingIsNewest
  BY DEF Inductive, Consistent
<1> QED
  BY <1>1, InductiveInvariant, PTL

\* The advisory lock of publish_day_profile's first phase does protect what
\* it decides, against every publisher, reconciler and crash.
THEOREM DecisionsHold == Spec => []PhaseOneHolds
<1>1. Inductive => PhaseOneHolds
  BY DEF Inductive, Own, PhaseOneHolds
<1> QED
  BY <1>1, InductiveInvariant, PTL

\* reconcile_publications never writes a manifest that ceased to be pending,
\* and never meets a correction whose predecessor lacks its day profile.
THEOREM RepairsHold == Spec => []RepairHolds
<1>1. Inductive => RepairHolds
  BY DEF Inductive
<1> QED
  BY <1>1, InductiveInvariant, PTL

\* The manifests of a date form chains of corrections without branches.
THEOREM CorrectionsAreLinear == Spec => []SupersessionIsLinear
<1>1. Inductive => SupersessionIsLinear
  BY DEF Inductive, Consistent
<1> QED
  BY <1>1, InductiveInvariant, PTL

\* Coverage never advertises a version the day endpoint does not serve.
THEOREM IndexIsServed == Spec => []IndexFollowsServed
<1>1. Inductive => IndexFollowsServed
  BY DEF Inductive, Consistent
<1> QED
  BY <1>1, InductiveInvariant, PTL

\* What publish_day_profile returns is the caller's own publication.
THEOREM SuccessIsOwn == Spec => []SuccessIsPublished
<1>1. Inductive => SuccessIsPublished
  BY DEF Inductive, Own, SuccessIsPublished
<1> QED
  BY <1>1, InductiveInvariant, PTL

\* No step of publisher, reconciler or environment takes back a published
\* version, a day profile, or the hash and predecessor of a manifest.
THEOREM NothingIsRewritten == Spec => [][Grows]_vars
<1>1. Inductive /\ [Next]_vars => [Grows]_vars
  BY NextInductive
<1> QED
  BY <1>1, InductiveInvariant, PTL DEF Spec

----------------------------------------------------------------------------
(* Refinement of Archive.                                                  *)

LEMMA EnteredIsPublished ==
    ASSUME TypeOK, Consistent
    PROVE  A!Entered = Published /\ A!Slots = Versions
BY PublicationAssumption
   DEF PublicationAssumption, TypeOK, RowTypes, Consistent, RowsAreWhole, A!Entered,
       A!Slots, Versions, Ledger, Published, Allocated

LEMMA RefineInit == Init => A!Init
<1> SUFFICES ASSUME Init PROVE A!Init
  OBVIOUS
<1>1. PICK legacy \in Legacy, c \in Contents :
        /\ status = [v \in Versions |-> IF legacy /\ v = 1 THEN "published" ELSE "unused"]
        /\ hash = [v \in Versions |-> IF legacy /\ v = 1 THEN c ELSE Nothing]
  BY DEF Init
<1>2. CASE legacy
  <2>1. Ledger = [v \in Versions |-> IF v = 1 THEN c ELSE Nothing]
    BY <1>1, <1>2 DEF Ledger
  <2> QED  BY <2>1 DEF Init, A!Init, A!Slots, Versions
<1>3. CASE ~legacy
  <2>1. Ledger = [v \in Versions |-> IF v = 1 THEN Nothing ELSE Nothing]
    BY <1>1, <1>3 DEF Ledger
  <2> QED  BY <2>1 DEF Init, A!Init, A!Slots, Versions
<1> QED  BY <1>2, <1>3

LEMMA RefineTransaction ==
    ASSUME TypeOK, Consistent, Transaction
    PROVE  A!Next \/ UNCHANGED A!archive
<1> USE VersionFacts, EnteredIsPublished DEF TypeOK, RowTypes
<1>0. profiles \subseteq Published /\ Published \subseteq Allocated
  BY DEF Consistent, RowsAreWhole, Published, Allocated
<1>1. CASE Opens
  <2>1. PICK v \in Versions, c \in Contents :
          /\ \A w \in Allocated : w < v
          /\ status' = [status EXCEPT ![v] = "draft"]
          /\ hash' = [hash EXCEPT ![v] = c]
          /\ UNCHANGED <<profiles, index>>
    BY <1>1 DEF Opens
  <2>2. v \notin Allocated
    BY <2>1
  <2>3. Ledger' = Ledger
    BY <2>1, <2>2 DEF Ledger, Allocated
  <2> QED  BY <2>1, <2>3 DEF A!archive
<1>2. CASE Publishes
  <2>1. PICK v \in Drafts :
          /\ status' = [status EXCEPT ![v] = "published"]
          /\ profiles' = profiles \cup {v}
          /\ index' \in {0, v}
          /\ UNCHANGED hash
    BY <1>2 DEF Publishes
  <2>2. v \in Versions /\ v \in Allocated /\ v \notin Published /\ hash[v] \in Contents
    BY DEF Drafts, Allocated, Published, Consistent, RowsAreWhole
  <2>3. \A w \in Published : w < v
    BY <1>0, <2>2 DEF Consistent, PendingIsNewest
  <2>4. Ledger' = [Ledger EXCEPT ![v] = hash[v]]
    BY <2>1, <2>2 DEF Ledger
  <2>5. A!Shows(index', profiles')
    BY <1>0, <2>1, <2>2, <2>3 DEF A!Shows
  <2>6. A!Publish
    BY <2>1, <2>2, <2>3, <2>4, <2>5 DEF A!Publish
  <2> QED  BY <2>6 DEF A!Next
<1>3. CASE Withdraws
  <2>1. Ledger' = Ledger /\ UNCHANGED <<profiles, index>>
    BY <1>3 DEF Withdraws, Ledger, Drafts
  <2> QED  BY <2>1 DEF A!archive
<1>4. CASE Restores
  <2>1. A!Shows(index', profiles') /\ Ledger' = Ledger
    BY <1>0, <1>4 DEF Restores, A!Shows, IsNewest, Ledger
  <2>2. CASE profiles' = profiles
    BY <2>1, <2>2 DEF A!Next, A!Reindex
  <2>3. CASE profiles' # profiles
    <3>1. PICK v \in Published : profiles' = profiles \cup {v}
      BY <1>4, <2>3 DEF Restores
    <3> QED  BY <2>1, <2>3, <3>1 DEF A!Next, A!Restore
  <2> QED  BY <2>2, <2>3
<1>5. CASE UNCHANGED database
  BY <1>5 DEF A!archive, Ledger, database
<1> QED  BY <1>1, <1>2, <1>3, <1>4, <1>5 DEF Transaction

\* Publishers, reconcilers and failures implement the append-only archive:
\* the ledger only grows upwards, nothing published is taken back or buried,
\* and the coverage entry names the newest readable version or nothing.
THEOREM PublicationRefinesArchive == Spec => ImplementsArchive
<1>1. Init => A!Init
  BY RefineInit
<1>2. Inductive /\ [Next]_vars => [A!Next]_A!archive
  <2> SUFFICES ASSUME Inductive, [Next]_vars
               PROVE  A!Next \/ UNCHANGED A!archive
    OBVIOUS
  <2>1. Transaction
    BY PublisherTransacts, ReconcilerTransacts
       DEF Next, vars, Transaction, Age, Damage, database
  <2> QED  BY <2>1, RefineTransaction DEF Inductive
<1> QED
  BY <1>1, <1>2, InductiveInvariant, PTL DEF Spec, ImplementsArchive, A!Spec

====
