---------------------------- MODULE Publication ----------------------------
(***************************************************************************)
(* Two-phase publication of one calendar date, and the reconciliation that *)
(* repairs what an interrupted publication leaves behind                   *)
(* (services/api/app/services.py).  Every lock, version number and path    *)
(* belongs to one (profile_date, profile_type), so one date is modelled.   *)
(*                                                                         *)
(* A publisher runs publish_day_profile.  Phase one holds the advisory     *)
(* lock, writes the payload to a deterministic temporary file and commits  *)
(* a DRAFT manifest.  Phase two promotes the file WITHOUT the lock, then   *)
(* retakes it to mark the manifest published and insert the day profile.   *)
(* A reconciler runs reconcile_publications(repair=True).                  *)
(***************************************************************************)
EXTENDS Naturals

CONSTANTS
    Publishers,   \* concurrent calls of publish_day_profile
    Reconcilers,  \* concurrent runs of reconcile_publications
    Contents,     \* payloads, told apart by their content hash
    MaxVersion,   \* bound on the manifests ever opened for the date
    Faults,       \* the failures the environment may inject
    Forces,       \* values callers pass as force_new_version
    Offers,       \* whether a caller offers a predecessor: event publishers
                  \* always do, the annual-context publisher never does
    Legacy,       \* TRUE: the archive may start with a manifest lacking its profile
    Nothing,      \* no file, no content
    Garbled,      \* bytes that match no manifest hash
    Free          \* the advisory lock is not held

FaultKinds == {"crash", "reconciler_crash", "torn_write", "commit_failure",
               "link_failure", "damage", "stall"}

ASSUME PublicationAssumption ==
    /\ MaxVersion \in Nat \ {0}
    /\ Faults \subseteq FaultKinds
    /\ Forces \subseteq BOOLEAN
    /\ Offers \subseteq BOOLEAN
    /\ Legacy \subseteq BOOLEAN
    /\ Nothing \notin Contents
    /\ Garbled \notin Contents
    /\ Nothing # Garbled
    /\ Free \notin Publishers \cup Reconcilers
    /\ Publishers \cap Reconcilers = {}

Versions == 1 .. MaxVersion
Blobs == Contents \cup {Nothing, Garbled}

VARIABLES
    status,      \* publication_manifests.status by version, as committed
    hash,        \* publication_manifests.content_hash
    pred,        \* publication_manifests.supersedes_manifest_id, 0 for NULL
    profiles,    \* versions whose day_profiles row exists
    index,       \* coverage_entries.publication_manifest_id, 0 for no row
    lock,        \* holder of the date's advisory transaction lock
    temp,        \* profile-v{n}.json.tmp
    dest,        \* profile-v{n}.json
    quarantine,  \* files moved aside, never overwritten
    aged,        \* temporary files older than the sweep threshold
    damaged,     \* history: artifacts the environment destroyed or altered
    pc, job,     \* publishers
    rpc, todo, known, cur  \* reconcilers

database == <<status, hash, pred, profiles, index>>
files == <<temp, dest, quarantine, aged>>
publisherVars == <<pc, job>>
reconcilerVars == <<rpc, todo, known, cur>>
vars == <<database, lock, files, damaged, publisherVars, reconcilerVars>>

Outcomes == {"done", "failed", "refused_pending", "refused_supersession",
             "successor_taken", "already_final"}
Idle == Outcomes \cup {"idle"}
PublisherSteps == Idle \cup
    {"prepared", "staging", "staged", "rolled_back", "committed", "linked",
     "link_failed", "promoted", "verified"}
ReconcilerSteps ==
    {"idle", "pending", "artifact", "temp", "promote", "linked", "link_failed",
     "promoted", "publish", "withdraw", "published", "reindex", "temps"}

Job == [want : Contents \cup {Nothing},
        offer : 0 .. MaxVersion,         \* supersedes_manifest_id, 0 for None
        offerProfile : 0 .. MaxVersion,  \* supersedes_day_profile_id
        force : BOOLEAN,
        ver : 0 .. MaxVersion,
        fresh : BOOLEAN,                 \* opens a version, does not adopt one
        staged : BOOLEAN,                \* StagedProfileWrite.temporary_path is set
        created : BOOLEAN]               \* StagedProfileWrite.created_temporary

NoJob == [want |-> Nothing, offer |-> 0, offerProfile |-> 0, force |-> FALSE,
          ver |-> 0, fresh |-> FALSE, staged |-> FALSE, created |-> FALSE]

RowTypes ==
    /\ status \in [Versions -> {"unused", "draft", "published", "withdrawn"}]
    /\ hash \in [Versions -> Contents \cup {Nothing}]
    /\ pred \in [Versions -> 0 .. MaxVersion]
    /\ profiles \in SUBSET Versions
    /\ index \in 0 .. MaxVersion
    /\ lock \in Publishers \cup Reconcilers \cup {Free}

FileTypes ==
    /\ temp \in [Versions -> Blobs]
    /\ dest \in [Versions -> Blobs]
    /\ quarantine \in SUBSET (Versions \X Blobs)
    /\ aged \in SUBSET Versions
    /\ damaged \in SUBSET Versions

PublisherTypes ==
    /\ pc \in [Publishers -> PublisherSteps]
    /\ job \in [Publishers -> Job]

ReconcilerTypes ==
    /\ rpc \in [Reconcilers -> ReconcilerSteps]
    /\ todo \in [Reconcilers -> SUBSET Versions]
    /\ known \in [Reconcilers -> SUBSET Versions]
    /\ cur \in [Reconcilers -> 0 .. MaxVersion]

TypeOK == RowTypes /\ FileTypes /\ PublisherTypes /\ ReconcilerTypes

----------------------------------------------------------------------------
(* What a transaction reads.                                               *)

Allocated == {v \in Versions : status[v] # "unused"}
Drafts == {v \in Versions : status[v] = "draft"}
Published == {v \in Versions : status[v] = "published"}

\* Mutant: ORDER BY version without DESC.
IsNewestAscending(v, S) == IF S = {} THEN v = 0 ELSE v \in S /\ \A w \in S : v <= w

\* ORDER BY version DESC LIMIT 1 over a set of versions, 0 when it is empty.
IsNewest(v, S) == IF S = {} THEN v = 0 ELSE v \in S /\ \A w \in S : w <= v

\* store.read: the file exists and hashes to the manifest's content_hash.
Intact(v) == dest[v] = hash[v]

\* What the day endpoint and _latest_published_manifest select: the newest
\* published manifest that has a day profile.
Served(v) == IsNewest(v, Published \cap profiles)

\* Mutant: any servable version is indexed, not the one that is served.
ReindexedUnordered(i, S) == i \in S /\ Intact(i)

\* reconcile_date_coverage: the entry a date gets when its coverage is
\* derived from the published and profiled versions S.
Reindexed(i, S) ==
    \E v \in 0 .. MaxVersion :
        /\ IsNewest(v, S)
        /\ i = IF v # 0 /\ Intact(v) THEN v ELSE 0

Init ==
    \E legacy \in Legacy :
        /\ status = [v \in Versions |-> IF legacy /\ v = 1 THEN "published" ELSE "unused"]
        /\ \E c \in Contents :
            /\ hash = [v \in Versions |-> IF legacy /\ v = 1 THEN c ELSE Nothing]
            /\ dest = hash
        /\ pred = [v \in Versions |-> 0]
        /\ profiles = {}
        /\ index = 0
        /\ lock = Free
        /\ temp = [v \in Versions |-> Nothing]
        /\ quarantine = {}
        /\ aged = {}
        /\ damaged = {}
        /\ pc = [p \in Publishers |-> "idle"]
        /\ job = [p \in Publishers |-> NoJob]
        /\ rpc = [r \in Reconcilers |-> "idle"]
        /\ todo = [r \in Reconcilers |-> {}]
        /\ known = [r \in Reconcilers |-> {}]
        /\ cur = [r \in Reconcilers |-> 0]

Goto(p, step) == pc' = [pc EXCEPT ![p] = step]

----------------------------------------------------------------------------
(* Publisher, before the lock: a caller renders its payload and, when it   *)
(* publishes a correction, reads the manifest and profile it will offer as *)
(* predecessor.  Nothing holds that reading still.                         *)

Prepare(p) ==
    /\ pc[p] \in Idle
    /\ \E c \in Contents, f \in Forces, offers \in Offers, v \in 0 .. MaxVersion :
        /\ IsNewest(v, Published)
        /\ job' = [job EXCEPT ![p] =
                [want |-> c, force |-> f,
                 offer |-> IF offers THEN v ELSE 0,
                 offerProfile |-> IF offers /\ v \in profiles THEN v ELSE 0,
                 ver |-> 0, fresh |-> FALSE, staged |-> FALSE, created |-> FALSE]]
    /\ Goto(p, "prepared")
    /\ UNCHANGED <<database, lock, files, damaged, reconcilerVars>>

(* Phase one: every decision is taken right after the lock is acquired.    *)

\* Mutant: phase one decides without the advisory lock.
AtLockUnserialised(p) == pc[p] = "prepared"

AtLock(p) == pc[p] = "prepared" /\ lock = Free

\* Mutant: a rerun that offers a predecessor is never a no-op.
UnchangedUnlessOffered(p, v) ==
    /\ v # 0
    /\ IsNewest(v, Published)
    /\ hash[v] = job[p].want
    /\ ~job[p].force
    /\ v \in profiles
    /\ job[p].offer = 0

\* Mutant: the content hash is not compared.
UnchangedWhateverContent(p, v) ==
    v # 0 /\ IsNewest(v, Published) /\ ~job[p].force /\ v \in profiles

\* The newest published manifest already carries this content.
Unchanged(p, v) ==
    /\ v # 0
    /\ IsNewest(v, Published)
    /\ hash[v] = job[p].want
    /\ ~job[p].force
    /\ v \in profiles

\* _index_coverage: upsert the date's entry from this manifest.
Index(v) == index' = v

RepublishUnchanged(p) ==
    /\ AtLock(p)
    /\ \E v \in Versions :
        /\ Unchanged(p, v)
        /\ \/ /\ Intact(v)
              /\ Index(v)
              /\ Goto(p, "done")
              /\ job' = [job EXCEPT ![p] = [@ EXCEPT !.ver = v]]
           \/ /\ ~Intact(v)
              /\ Goto(p, "failed")
              /\ UNCHANGED <<index, job>>
    /\ UNCHANGED <<status, hash, pred, profiles, lock, files, damaged, reconcilerVars>>

MustPublish(p) == AtLock(p) /\ \A v \in Versions : ~Unchanged(p, v)

\* PendingPublicationError: a pending manifest with other content.
RefusePending(p) ==
    /\ MustPublish(p)
    /\ \E v \in Drafts : IsNewest(v, Drafts) /\ hash[v] # job[p].want
    /\ Goto(p, "refused_pending")
    /\ UNCHANGED <<database, lock, files, damaged, job, reconcilerVars>>

AdoptPending(p) ==
    /\ MustPublish(p)
    /\ \E v \in Drafts :
        /\ IsNewest(v, Drafts)
        /\ hash[v] = job[p].want
        /\ job' = [job EXCEPT ![p] = [@ EXCEPT !.ver = v, !.fresh = FALSE]]
    /\ lock' = p
    /\ Goto(p, "staging")
    /\ UNCHANGED <<database, files, damaged, reconcilerVars>>

\* _validate_profile_supersession: both predecessors or neither, and a
\* published one.  (A published manifest is final, so the offer stays valid.)
ValidOffer(p) ==
    \/ job[p].offer = 0 /\ job[p].offerProfile = 0
    \/ /\ job[p].offer \in Published
       /\ job[p].offerProfile = job[p].offer

\* Mutant: only a pending manifest with the same content is noticed.
NonePendingOfContent(p) == \A v \in Drafts : hash[v] # job[p].want

NonePending(p) == Drafts = {}

RefuseSupersession(p) ==
    /\ MustPublish(p)
    /\ NonePending(p)
    /\ ~ValidOffer(p)
    /\ Goto(p, "refused_supersession")
    /\ UNCHANGED <<database, lock, files, damaged, job, reconcilerVars>>

\* Mutant: no unique constraint on the predecessor.
SuccessorNeverTaken(v) == FALSE

\* UNIQUE (supersedes_manifest_id): every manifest ever committed counts.
SuccessorTaken(v) == v # 0 /\ \E w \in Allocated : pred[w] = v

FailOnTakenSuccessor(p) ==
    /\ MustPublish(p)
    /\ NonePending(p)
    /\ ValidOffer(p)
    /\ SuccessorTaken(job[p].offer)
    /\ Goto(p, "successor_taken")
    /\ UNCHANGED <<database, lock, files, damaged, job, reconcilerVars>>

\* coalesce(max(version), 0) + 1 over manifests of every status.
NextVersion(v) ==
    /\ \A w \in Allocated : w < v
    /\ v = 1 \/ v - 1 \in Allocated

OpenVersion(p) ==
    /\ MustPublish(p)
    /\ NonePending(p)
    /\ ValidOffer(p)
    /\ ~SuccessorTaken(job[p].offer)
    /\ \E v \in Versions :
        /\ NextVersion(v)
        /\ job' = [job EXCEPT ![p] = [@ EXCEPT !.ver = v, !.fresh = TRUE]]
    /\ lock' = p
    /\ Goto(p, "staging")
    /\ UNCHANGED <<database, files, damaged, reconcilerVars>>

\* store.stage_versioned, still under the lock.  An existing artifact is
\* verified, never replaced; otherwise the temporary file is overwritten,
\* whoever wrote it.
Stage(p) ==
    /\ pc[p] = "staging"
    /\ LET v == job[p].ver IN
        \/ /\ dest[v] = Nothing
           /\ temp' = [temp EXCEPT ![v] = job[p].want]
           /\ aged' = aged \ {v}
           /\ job' = [job EXCEPT ![p] = [@ EXCEPT !.staged = TRUE, !.created = (temp[v] = Nothing)]]
           /\ Goto(p, "staged")
           /\ UNCHANGED lock
        \/ /\ dest[v] = job[p].want
           /\ Goto(p, "staged")
           /\ UNCHANGED <<temp, aged, job, lock>>
        \/ /\ dest[v] \notin {Nothing, job[p].want}
           /\ Goto(p, "failed")
           /\ lock' = Free
           /\ UNCHANGED <<temp, aged, job>>
    /\ UNCHANGED <<database, dest, quarantine, damaged, reconcilerVars>>

\* open(temporary_path, "wb") truncated the file and the write did not
\* finish: the disk filled or the process died.  No StagedProfileWrite
\* exists yet, so nothing is discarded.
StageTorn(p) ==
    /\ "torn_write" \in Faults
    /\ pc[p] = "staging"
    /\ dest[job[p].ver] = Nothing
    /\ temp' = [temp EXCEPT ![job[p].ver] = Garbled]
    /\ aged' = aged \ {job[p].ver}
    /\ lock' = Free
    /\ Goto(p, "failed")
    /\ UNCHANGED <<database, dest, quarantine, damaged, job, reconcilerVars>>

\* The DRAFT manifest becomes visible and the transaction's lock is gone.
CommitPending(p) ==
    /\ pc[p] = "staged"
    /\ IF job[p].fresh
       THEN /\ status' = [status EXCEPT ![job[p].ver] = "draft"]
            /\ hash' = [hash EXCEPT ![job[p].ver] = job[p].want]
            /\ pred' = [pred EXCEPT ![job[p].ver] = job[p].offer]
       ELSE UNCHANGED <<status, hash, pred>>
    /\ lock' = Free
    /\ Goto(p, "committed")
    /\ UNCHANGED <<profiles, index, files, damaged, job, reconcilerVars>>

\* The commit raised: session.rollback() releases the lock first ...
RollBackPending(p) ==
    /\ "commit_failure" \in Faults
    /\ pc[p] = "staged"
    /\ lock' = Free
    /\ Goto(p, "rolled_back")
    /\ UNCHANGED <<database, files, damaged, job, reconcilerVars>>

\* ... and staged.discard() runs after it, without the lock.
Discard(p) ==
    /\ pc[p] = "rolled_back"
    /\ temp' = IF job[p].staged /\ job[p].created
               THEN [temp EXCEPT ![job[p].ver] = Nothing] ELSE temp
    /\ Goto(p, "failed")
    /\ UNCHANGED <<database, lock, dest, quarantine, aged, damaged, job, reconcilerVars>>

(* Phase two: the file operations of finalize() hold no lock.              *)

\* Mutant: success is reported without linking.
LinkedNothing(v) == temp[v] # Nothing /\ dest[v] = Nothing /\ UNCHANGED dest

\* os.link(temporary, destination) for version v, which never overwrites.
Linked(v) ==
    /\ temp[v] # Nothing
    /\ dest[v] = Nothing
    /\ dest' = [dest EXCEPT ![v] = temp[v]]

\* The link found the destination present, or the temporary file swept by a
\* peer that promoted first: fine when the destination holds the payload.
PeerPromoted(v, content) == dest[v] = content /\ UNCHANGED dest

CannotLink(v, content) ==
    /\ dest[v] # content
    /\ dest[v] # Nothing \/ temp[v] = Nothing
    /\ UNCHANGED dest

Promote(p) ==
    /\ pc[p] = "committed"
    /\ LET v == job[p].ver IN
        \/ ~job[p].staged /\ Goto(p, "promoted") /\ UNCHANGED dest
        \/ job[p].staged /\ Linked(v) /\ Goto(p, "linked")
        \/ job[p].staged /\ PeerPromoted(v, job[p].want) /\ Goto(p, "linked")
        \/ job[p].staged /\ CannotLink(v, job[p].want) /\ Goto(p, "link_failed")
    /\ UNCHANGED <<database, lock, temp, quarantine, aged, damaged, job, reconcilerVars>>

\* os.link failed for a reason of its own: no space, an I/O error, no links.
PromoteFails(p) ==
    /\ "link_failure" \in Faults
    /\ pc[p] = "committed"
    /\ job[p].staged
    /\ Goto(p, "link_failed")
    /\ UNCHANGED <<database, lock, files, damaged, job, reconcilerVars>>

\* Mutant: the clean-up takes the destination for the temporary file.
CleanUpDestination(p) ==
    /\ pc[p] \in {"linked", "link_failed"}
    /\ dest' = [dest EXCEPT ![job[p].ver] = Nothing]
    /\ job' = [job EXCEPT ![p] = [@ EXCEPT !.staged = FALSE]]
    /\ Goto(p, IF pc[p] = "linked" THEN "promoted" ELSE "failed")
    /\ UNCHANGED <<database, lock, temp, quarantine, aged, damaged, reconcilerVars>>

\* The finally clause unlinks the temporary file whether or not the
\* promotion succeeded.
CleanUp(p) ==
    /\ pc[p] \in {"linked", "link_failed"}
    /\ temp' = [temp EXCEPT ![job[p].ver] = Nothing]
    /\ job' = [job EXCEPT ![p] = [@ EXCEPT !.staged = FALSE]]
    /\ Goto(p, IF pc[p] = "linked" THEN "promoted" ELSE "failed")
    /\ UNCHANGED <<database, lock, dest, quarantine, aged, damaged, reconcilerVars>>

VerifyPromoted(p) ==
    /\ pc[p] = "promoted"
    /\ Goto(p, IF dest[job[p].ver] = job[p].want THEN "verified" ELSE "failed")
    /\ UNCHANGED <<database, lock, files, damaged, job, reconcilerVars>>

\* The second transaction, one atomic step because the lock is held from its
\* start to its commit.  session.get returns the instance loaded in phase one
\* (expire_on_commit is off), still DRAFT in memory, so the UPDATE is always
\* sent and the immutability trigger rejects it on a final row.
Complete(p) ==
    /\ pc[p] = "verified"
    /\ lock = Free
    /\ LET v == job[p].ver IN
        \/ /\ status[v] = "draft"
           /\ job[p].offerProfile = pred[v]
           /\ status' = [status EXCEPT ![v] = "published"]
           /\ profiles' = profiles \cup {v}
           /\ Index(v)
           /\ Goto(p, "done")
        \/ /\ status[v] = "draft"
           /\ job[p].offerProfile # pred[v]
           /\ Goto(p, "failed")
           /\ UNCHANGED <<status, profiles, index>>
        \/ /\ status[v] # "draft"
           /\ Goto(p, "already_final")
           /\ UNCHANGED <<status, profiles, index>>
    /\ UNCHANGED <<hash, pred, lock, files, damaged, job, reconcilerVars>>

\* The second transaction did not commit.
CompletionFails(p) ==
    /\ "commit_failure" \in Faults
    /\ pc[p] = "verified"
    /\ lock = Free
    /\ Goto(p, "failed")
    /\ UNCHANGED <<database, lock, files, damaged, job, reconcilerVars>>

\* The process dies: PostgreSQL rolls back and releases the lock.
Crash(p) ==
    /\ "crash" \in Faults
    /\ pc[p] \notin Idle
    /\ lock' = IF lock = p THEN Free ELSE lock
    /\ job' = [job EXCEPT ![p] = NoJob]
    /\ Goto(p, "idle")
    /\ UNCHANGED <<database, files, damaged, reconcilerVars>>

Publisher(p) ==
    \/ Prepare(p)
    \/ RepublishUnchanged(p) \/ RefusePending(p) \/ AdoptPending(p)
    \/ RefuseSupersession(p) \/ FailOnTakenSuccessor(p) \/ OpenVersion(p)
    \/ Stage(p) \/ StageTorn(p)
    \/ CommitPending(p) \/ RollBackPending(p) \/ Discard(p)
    \/ Promote(p) \/ PromoteFails(p) \/ CleanUp(p) \/ VerifyPromoted(p)
    \/ Complete(p) \/ CompletionFails(p) \/ Crash(p)

----------------------------------------------------------------------------
(* Reconciler.  First pass: the manifests that were pending when it        *)
(* started, each under the date's lock.                                    *)

Resume(r, step) == rpc' = [rpc EXCEPT ![r] = step]

\* Mutant: the file is unlinked.
QuarantineDeletes(moved) == UNCHANGED quarantine

\* Mutant: source and target of the move are swapped.
QuarantineSwapped(moved) == quarantine' = quarantine \cup {<<m[2], m[1]>> : m \in moved}

\* Files are moved to quarantine/ under names that collide with no other.
Quarantine(moved) == quarantine' = quarantine \cup moved

\* Mutant: manifests without a recorded path are listed, instead of the others.
ListPendingNone(r) ==
    /\ rpc[r] = "idle"
    /\ Resume(r, "pending")
    /\ UNCHANGED <<database, lock, files, damaged, todo, known, cur, publisherVars>>

ListPending(r) ==
    /\ rpc[r] = "idle"
    /\ todo' = [todo EXCEPT ![r] = Drafts]
    /\ known' = [known EXCEPT ![r] = Drafts]
    /\ cur' = [cur EXCEPT ![r] = 0]
    /\ Resume(r, "pending")
    /\ UNCHANGED <<database, lock, files, damaged, publisherVars>>

\* Mutant: the row is not refreshed under the lock.
AssumedPending(v) == TRUE

\* session.refresh under the lock, then status is compared with DRAFT.
StillPending(v) == status[v] = "draft"

\* Lock the date and refresh the row; a manifest that is no longer pending
\* is skipped and the lock released by the commit.
TakePending(r) ==
    /\ rpc[r] = "pending"
    /\ lock = Free
    /\ \E v \in todo[r] :
        /\ todo' = [todo EXCEPT ![r] = @ \ {v}]
        /\ IF StillPending(v)
           THEN /\ lock' = r
                /\ cur' = [cur EXCEPT ![r] = v]
                /\ Resume(r, "artifact")
           ELSE UNCHANGED <<lock, cur, rpc>>
    /\ UNCHANGED <<database, files, damaged, known, publisherVars>>

\* destination.exists(), then store.read or quarantine.
InspectArtifact(r) ==
    /\ rpc[r] = "artifact"
    /\ LET v == cur[r] IN
        \/ Intact(v) /\ Resume(r, "publish") /\ UNCHANGED <<dest, quarantine>>
        \/ dest[v] = Nothing /\ Resume(r, "temp") /\ UNCHANGED <<dest, quarantine>>
        \/ /\ ~Intact(v) /\ dest[v] # Nothing
           /\ Quarantine({<<v, dest[v]>>})
           /\ dest' = [dest EXCEPT ![v] = Nothing]
           /\ Resume(r, "temp")
    /\ UNCHANGED <<database, lock, temp, aged, damaged, todo, known, cur, publisherVars>>

\* temp.exists(), then its hash or quarantine.
InspectTemp(r) ==
    /\ rpc[r] = "temp"
    /\ LET v == cur[r] IN
        \/ temp[v] = hash[v] /\ Resume(r, "promote") /\ UNCHANGED <<temp, quarantine>>
        \/ temp[v] = Nothing /\ Resume(r, "withdraw") /\ UNCHANGED <<temp, quarantine>>
        \/ /\ temp[v] \notin {Nothing, hash[v]}
           /\ Quarantine({<<v, temp[v]>>})
           /\ temp' = [temp EXCEPT ![v] = Nothing]
           /\ Resume(r, "withdraw")
    /\ UNCHANGED <<database, lock, dest, aged, damaged, todo, known, cur, publisherVars>>

\* The reconciler's own finalize().
PromoteStaged(r) ==
    /\ rpc[r] = "promote"
    /\ LET v == cur[r] IN
        \/ Linked(v) /\ Resume(r, "linked")
        \/ PeerPromoted(v, hash[v]) /\ Resume(r, "linked")
        \/ CannotLink(v, hash[v]) /\ Resume(r, "link_failed")
        \/ "link_failure" \in Faults /\ Resume(r, "link_failed") /\ UNCHANGED dest
    /\ UNCHANGED <<database, lock, temp, quarantine, aged, damaged, todo, known, cur,
                   publisherVars>>

\* An exception leaves reconcile_publications and the process: the session
\* closes and the lock is released.
Exit(r) ==
    /\ Resume(r, "idle")
    /\ todo' = [todo EXCEPT ![r] = {}]
    /\ known' = [known EXCEPT ![r] = {}]
    /\ cur' = [cur EXCEPT ![r] = 0]

Abort(r) == Exit(r) /\ lock' = IF lock = r THEN Free ELSE lock

CleanUpStaged(r) ==
    /\ rpc[r] \in {"linked", "link_failed"}
    /\ temp' = [temp EXCEPT ![cur[r]] = Nothing]
    /\ IF rpc[r] = "linked"
       THEN Resume(r, "promoted") /\ UNCHANGED <<lock, todo, known, cur>>
       ELSE Abort(r)
    /\ UNCHANGED <<database, dest, quarantine, aged, damaged, publisherVars>>

VerifyStaged(r) ==
    /\ rpc[r] = "promoted"
    /\ IF Intact(cur[r])
       THEN Resume(r, "publish") /\ UNCHANGED <<lock, todo, known, cur>>
       ELSE Abort(r)
    /\ UNCHANGED <<database, files, damaged, publisherVars>>

\* _ensure_day_profile can name the profile of v's predecessor.
PredecessorProfiled(v) == pred[v] = 0 \/ pred[v] \in profiles

\* Mark published, insert the profile, re-derive the coverage, commit.
PublishPending(r) ==
    /\ rpc[r] = "publish"
    /\ LET v == cur[r] IN
        IF PredecessorProfiled(v)
        THEN /\ status' = [status EXCEPT ![v] = "published"]
             /\ profiles' = profiles \cup {v}
             /\ \E i \in 0 .. MaxVersion :
                  /\ Reindexed(i, (Published \cap profiles) \cup {v})
                  /\ index' = i
             /\ lock' = Free
             /\ Resume(r, "pending")
             /\ UNCHANGED <<todo, known, cur>>
        ELSE Abort(r) /\ UNCHANGED <<status, profiles, index>>
    /\ UNCHANGED <<hash, pred, files, damaged, publisherVars>>

WithdrawPending(r) ==
    /\ rpc[r] = "withdraw"
    /\ status' = [status EXCEPT ![cur[r]] = "withdrawn"]
    /\ lock' = Free
    /\ Resume(r, "pending")
    /\ UNCHANGED <<hash, pred, profiles, index, files, damaged, todo, known, cur, publisherVars>>

(* Second pass: every published manifest is verified, without the lock.    *)

ListPublished(r) ==
    /\ rpc[r] = "pending"
    /\ todo[r] = {}
    /\ todo' = [todo EXCEPT ![r] = Published]
    /\ known' = [known EXCEPT ![r] = @ \cup Published]
    /\ Resume(r, "published")
    /\ UNCHANGED <<database, lock, files, damaged, cur, publisherVars>>

AuditHealthy(r) ==
    /\ rpc[r] = "published"
    /\ \E v \in todo[r] :
        /\ Intact(v)
        /\ v \in profiles
        /\ todo' = [todo EXCEPT ![r] = @ \ {v}]
    /\ UNCHANGED <<database, lock, files, damaged, rpc, known, cur, publisherVars>>

\* The artifact is bad or missing: what is there goes to quarantine, and the
\* date's coverage is then derived again in a transaction of its own.
AuditUnreadable(r) ==
    /\ rpc[r] = "published"
    /\ \E v \in todo[r] :
        /\ ~Intact(v)
        /\ todo' = [todo EXCEPT ![r] = @ \ {v}]
        /\ IF dest[v] = Nothing THEN UNCHANGED <<dest, quarantine>>
           ELSE /\ Quarantine({<<v, dest[v]>>})
                /\ dest' = [dest EXCEPT ![v] = Nothing]
    /\ Resume(r, "reindex")
    /\ UNCHANGED <<database, lock, temp, aged, damaged, known, cur, publisherVars>>

ReindexDate(r) ==
    /\ rpc[r] = "reindex"
    /\ lock = Free
    /\ \E i \in 0 .. MaxVersion : Reindexed(i, Published \cap profiles) /\ index' = i
    /\ Resume(r, "published")
    /\ UNCHANGED <<status, hash, pred, profiles, lock, files, damaged, todo, known, cur,
                   publisherVars>>

\* A published manifest without a day profile gets one, under the lock.
RestoreProfile(r) ==
    /\ rpc[r] = "published"
    /\ lock = Free
    /\ \E v \in todo[r] :
        /\ Intact(v)
        /\ v \notin profiles
        /\ IF PredecessorProfiled(v)
           THEN /\ profiles' = profiles \cup {v}
                /\ \E i \in 0 .. MaxVersion :
                    Reindexed(i, (Published \cap profiles) \cup {v}) /\ index' = i
                /\ todo' = [todo EXCEPT ![r] = @ \ {v}]
                /\ UNCHANGED <<rpc, known, cur, lock>>
           ELSE Abort(r) /\ UNCHANGED <<profiles, index>>
    /\ UNCHANGED <<status, hash, pred, files, damaged, publisherVars>>

(* Third pass: files no manifest of the two earlier listings accounts for. *)

SweepOrphans(r) ==
    /\ rpc[r] = "published"
    /\ todo[r] = {}
    /\ LET orphans == {v \in Versions \ known[r] : dest[v] # Nothing} IN
        /\ dest' = [v \in Versions |-> IF v \in orphans THEN Nothing ELSE dest[v]]
        /\ Quarantine({<<v, dest[v]>> : v \in orphans})
    /\ Resume(r, "temps")
    /\ UNCHANGED <<database, lock, temp, aged, damaged, todo, known, cur, publisherVars>>

SweepTemps(r) ==
    /\ rpc[r] = "temps"
    /\ temp' = [v \in Versions |-> IF v \in aged THEN Nothing ELSE temp[v]]
    /\ aged' = {}
    /\ Exit(r)
    /\ UNCHANGED <<database, lock, dest, quarantine, damaged, publisherVars>>

ReconcilerCrash(r) ==
    /\ "reconciler_crash" \in Faults
    /\ rpc[r] # "idle"
    /\ Abort(r)
    /\ UNCHANGED <<database, files, damaged, publisherVars>>

Reconcile(r) ==
    \/ ListPending(r) \/ TakePending(r)
    \/ InspectArtifact(r) \/ InspectTemp(r)
    \/ PromoteStaged(r) \/ CleanUpStaged(r) \/ VerifyStaged(r)
    \/ PublishPending(r) \/ WithdrawPending(r)
    \/ ListPublished(r) \/ AuditHealthy(r) \/ AuditUnreadable(r)
    \/ ReindexDate(r) \/ RestoreProfile(r)
    \/ SweepOrphans(r) \/ SweepTemps(r)

----------------------------------------------------------------------------
(* Environment.                                                            *)

\* The sweep threshold (an hour) passes over a temporary file.  Unless a
\* process may stall for that long, nothing is running by then.
Age(v) ==
    /\ temp[v] # Nothing
    /\ \/ "stall" \in Faults
       \/ /\ \A p \in Publishers : pc[p] \in Idle
          /\ \A r \in Reconcilers : rpc[r] = "idle"
    /\ aged' = aged \cup {v}
    /\ UNCHANGED <<database, lock, temp, dest, quarantine, damaged, publisherVars, reconcilerVars>>

\* An artifact is altered or lost on disk.
Damage(v) ==
    /\ "damage" \in Faults
    /\ dest[v] # Nothing
    /\ \E blob \in {Nothing, Garbled} : dest' = [dest EXCEPT ![v] = blob]
    /\ damaged' = damaged \cup {v}
    /\ UNCHANGED <<database, lock, temp, quarantine, aged, publisherVars, reconcilerVars>>

Next ==
    \/ \E p \in Publishers : Publisher(p)
    \/ \E r \in Reconcilers : Reconcile(r) \/ ReconcilerCrash(r)
    \/ \E v \in Versions : Age(v) \/ Damage(v)

Spec == Init /\ [][Next]_vars

----------------------------------------------------------------------------
(* Safety.                                                                 *)

InPhaseOne == {"staging", "staged"}
InRepair == {"artifact", "temp", "promote", "linked", "link_failed",
             "promoted", "publish", "withdraw"}

\* A pending manifest is the newest manifest of its date, so there is at
\* most one, and completing it late cannot bury a newer publication: the
\* promise of "a durable pending state under a per-(date, type) advisory
\* lock" and of PendingPublicationError.
PendingIsNewest == \A v \in Drafts : \A w \in Allocated : w <= v

\* What a publisher decided at the lock: a version it opens is still unused
\* with no pending rival, a version it adopts is still pending.
DecisionStands(p) ==
    /\ lock = p
    /\ IF job[p].fresh
       THEN Drafts = {} /\ \A w \in Allocated : w < job[p].ver
       ELSE job[p].ver \in Drafts /\ hash[job[p].ver] = job[p].want

\* While a publisher is in phase one the date's lock is its own, and what it
\* decided at the lock still holds when it commits.
PhaseOneHolds ==
    \A p \in Publishers : pc[p] \in InPhaseOne => DecisionStands(p)

\* What a reconciler needs in order to publish or withdraw its manifest.
RepairStands(r) ==
    /\ lock = r
    /\ cur[r] \in Drafts
    /\ PredecessorProfiled(cur[r])

\* A reconciler that publishes or withdraws a manifest holds the lock and
\* finds it still pending, with a predecessor whose day profile exists: the
\* UPDATE is never rejected and _ensure_day_profile never raises.
RepairHolds ==
    \A r \in Reconcilers : rpc[r] \in InRepair => RepairStands(r)

\* The coverage entry never points anywhere but at the version the day
\* endpoint serves, whoever wrote it last: publisher, idempotent rerun or
\* reconciler.
IndexFollowsServed == \A v \in 0 .. MaxVersion : Served(v) => index \in {0, v}

\* Corrections form a chain: a manifest supersedes an older published one
\* that has a day profile, and no two manifests supersede the same one.
SupersessionIsLinear ==
    \A v \in Allocated : pred[v] # 0 =>
        /\ pred[v] < v
        /\ pred[v] \in Published \cap profiles
        /\ \A w \in Allocated : pred[w] = pred[v] => w = v

\* Published bytes are never lost to the program: an artifact nothing
\* damaged is at its path or in quarantine ("quarantined, never silently
\* deleted").
PublishedRetained ==
    \A v \in Published \ damaged : Intact(v) \/ <<v, hash[v]>> \in quarantine

\* A call that returns a profile returns the caller's own content,
\* published and readable through its day profile.
SuccessIsPublished ==
    \A p \in Publishers : pc[p] = "done" =>
        /\ job[p].ver \in Published \cap profiles
        /\ hash[job[p].ver] = job[p].want

\* "Identical already-published content is an idempotent no-op unless
\* force_new_version": no version repeats the content published just before
\* it.  Meaningful where Forces = {FALSE} and every profile exists.
NoRedundantVersion ==
    \A v, w \in Published : (v < w /\ hash[v] = hash[w]) =>
        \E u \in Published : v < u /\ u < w

\* A committed pending manifest can be completed: its payload survives as
\* the staged temporary file or the promoted artifact.
PendingRecoverable ==
    \A v \in Drafts : dest[v] = hash[v] \/ temp[v] = hash[v]

\* Every published version can be read back and verified.
PublishedServable == \A v \in Published : Intact(v)

\* A manifest withdrawn as unrecoverable had no payload to promote.
WithdrawnHadNoPayload ==
    \A v \in Versions : status[v] = "withdrawn" => ~Intact(v)

\* Only a live manifest occupies its predecessor's successor slot, so an
\* abandoned correction does not block the next one.
AbandonedFreesPredecessor ==
    \A p \in Publishers : pc[p] = "successor_taken" =>
        \E w \in Drafts \cup Published : pred[w] = job[p].offer

\* Of two publishers of identical content, the one that finds its peer has
\* finished does not fail.
PeerCompletionIsSuccess ==
    \A p \in Publishers : pc[p] = "already_final" =>
        status[job[p].ver] # "published"

(* Progress, where reconciliation is run again and again.                  *)

\* A process holding the lock runs on or dies; a reconciler that is started
\* runs on; and the lock, which PostgreSQL grants in request order, is not
\* withheld from it for ever.
Fairness ==
    /\ \A p \in Publishers :
        WF_vars(Stage(p) \/ CommitPending(p) \/ RollBackPending(p) \/ Crash(p))
    /\ \A r \in Reconcilers :
        /\ WF_vars(Reconcile(r))
        /\ SF_vars(TakePending(r) \/ ReindexDate(r) \/ RestoreProfile(r))

FairSpec == Spec /\ Fairness

\* "A crash between phases leaves state that reconcile_publications() can
\* always finish or safely abandon."
PendingResolved ==
    \A v \in Versions : status[v] = "draft" ~> status[v] \in {"published", "withdrawn"}

----------------------------------------------------------------------------
(* What the date promises its readers, see Archive.                        *)

Ledger == [v \in Versions |-> IF status[v] = "published" THEN hash[v] ELSE Nothing]

A == INSTANCE Archive WITH ledger <- Ledger, readable <- profiles, shown <- index

\* Every step of publishers and reconcilers is a step of the append-only
\* archive, or no step of it at all.
ImplementsArchive == A!Spec
====
