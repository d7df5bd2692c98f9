# Verification of day-perspective

day-perspective publishes one page per calendar date: what is known to have
happened on it, what a day in that year was like, and on which evidence each
statement rests.  The promise behind the product is editorial: what was
published can be read back byte for byte, is corrected only by a new version,
and is never claimed when it is not there.  This directory models the code that
keeps that promise, checks the models with TLC and proves the central results
with TLAPS.

Paths below are relative to `services/api/app/` unless they start with another
directory of the repository.

## The system

PostgreSQL rows, a directory of JSON artifacts, command-line processes that
write both, and an HTTP API that reads them.  Processes meet only through the
database (READ COMMITTED transactions, advisory locks, unique constraints,
triggers) and the directory (create, link, unlink, rename).  Nothing is queued
and nothing calls back.

| Component | State it keeps | Operations | Hard behaviour | What makes it correct |
|---|---|---|---|---|
| Publication and reconciliation (`services.py`) | `publication_manifests`, `day_profiles`, the advisory lock of a (date, type) | `publish_day_profile`, `reconcile_publications`, `record_correction` | crash between phases, two publishers, repair racing publication, failed commits | nothing published is lost or rewritten; a pending manifest is finished or withdrawn; reruns are no-ops |
| Published profile store (`services.py`) | `profile-v{n}.json`, its `.tmp`, `quarantine/` | stage, finalize, discard, read, quarantine | half-written, adopted, swept and shared files | the bytes under a published manifest match its hash |
| Coverage index (`coverage.py`) | `coverage_entries` | upsert, reconcile a date, rebuild, refresh, neighbour queries | derived from a snapshot while publication goes on | names exactly what the day endpoint serves |
| Batch publication (`batch_publication.py`, `publish_cli.py`) | `publication_batch_runs`, `publication_batch_entries` | start, resume, retry, publish archive, canary | killed runs, releases that move, several operators | every run is finished on one set of releases and its ledger is true |
| Claims and resolution (`services.py`, `usgs.py`) | claims, resolved claims, derived values, reviews | register, supersede, resolve, review | supersession chains, stale resolutions | only accepted evidence reaches a page |
| Governance (`governance.py`) | editorial selections, featured events, identity adjudications, merge reviews, quality and health checks | append-only decisions, eligibility gates, resolution of a date's group | decisions racing publication, superseding decisions | the latest human decision decides, defaults never pass as one |
| Event publishers (`usgs.py`, `wikidata.py`, `un_wpp.py`) | none of their own | select, merge, carry forward, call `publish_day_profile` | stale predecessor, richer profile, several events on a date | no event that was admitted disappears |
| Source ingestion (`usgs.py`, `ucdp.py`, `un_wpp.py`, `wikidata.py`, `adapters/`) | sources, releases, records, events, metrics | fetch, parse, upsert | re-ingestion of an unchanged or changed release | a release is ingested once and never edited |
| Profile metadata (`profile_metadata.py`) | none | derive review status and quality floor | | the weakest evidence decides |
| Conflict comparison (`conflict_comparison.py`), temporal resolution (`temporal.py`) | none | percentile rank, median; instant to calendar day | ties, small cohorts, edges of a day | the arithmetic they document |
| Golden canary and golden set, timezone boundaries, command lines, configuration | files | validate, download, parse | | left to tests |
| HTTP API (`main.py`) | none | day, coverage, candidates | | serves the newest published version that has a profile |
| Web application (`apps/web`), contracts (`packages/contracts`) | browser state | travel between dates | overlapping travels | presentation |

How they interact: ingestion writes releases; claims are derived from them,
reviewed and resolved; governance decides what may be shown; an event publisher
or the context publisher renders a payload from all of that and calls
`publish_day_profile`, which writes the manifest, the artifact, the profile and
the coverage entry; batch runs call the context publisher date by date;
reconciliation repairs what any of them left behind; the API and the web
application read profiles and the coverage index.

## Modules

| Module | What it is |
|---|---|
| `Publication` | publication and reconciliation of one date, step by step: transactions, lock, files, crashes, failures |
| `Archive` | what those promise a reader: an append-only ledger of versions, a set of readable versions, an index entry |
| `PublicationProofs` | the inductive invariant of `Publication`, its safety theorems and the refinement of `Archive` |
| `PublicationFileProofs` | invariants over the files of `Publication` and its theorems about artifacts, payloads and reruns |
| `Batch` | batch runs, their ledger and their resumption over many dates; publication of a date is a few atomic steps |
| `BatchProofs` | the inductive invariant of `Batch` and its safety theorems |
| `Coverage` | the coverage index of several dates, statement by statement: publications, rebuild, reconciliation of a date, unlocked refreshes, row locks and deadlocks |
| `EventDay` | the recorded events of one date: collision, carrying forward, headline, binding, re-resolution, and the human decisions they rest on |
| `Ingestion` | five adapters turning documents into releases with claims, and the reviews of those claims |
| `IngestionProofs` | the inductive invariant of `Ingestion` and its safety theorems |
| `EvidenceProofs` | the inductive invariant of `Evidence`, its safety theorems, and what percentages and medians of a cohort say |
| `CoverageProofs` | the inductive invariant of `Coverage` and its theorems about the index and rebuilds |
| `EventDayProofs` | the inductive invariant of `EventDay` and its theorems about the headline, the chain of manifests and who is admitted beside whom |
| `NumberLemmas` | what the proofs use about the smallest and largest of a set of numbers |
| `Evidence` | from claims to a context page: review sweeps, resolution chains, derived values, comparisons, selections, publication |
| `MCPublication`, `MCBatch`, `MCCoverage`, `MCEventDay`, `MCIngestion`, `MCEvidence` | symmetry sets and the data of the instances, for TLC |

No module composes others by `INSTANCE` except `PublicationProofs` and
`MCPublication`, which instantiate `Archive`.  The modules meet at what one
assumes and another shows: `Batch`, `EventDay` and `Evidence` take a
publication as two atomic phases, which `PhaseOneHolds` and
`SuccessIsPublished` say of `Publication`; `EventDay` lets the index lag behind
(`IndexLag`), which is what `Coverage` shows a refresh without the lock can do;
`Evidence` starts from whole releases, which is `ReleaseIsWhole` of `Ingestion`.

### Publication

One calendar date, because every lock, version number and path belongs to one
(`profile_date`, `profile_type`).  The variables are the committed rows
(`status`, `hash`, `pred`, `profiles`, `index`), the advisory lock, the files
by version (`temp`, `dest`, `quarantine`), and where each process is.  Content
is a model value: the code compares payloads by hash only, so equal hashes are
equal contents.  `Garbled` stands for any bytes that match no manifest.

A publisher:

| Action | Code |
|---|---|
| `Prepare` | an event publisher reads the newest published manifest and its profile, which it will offer as predecessor, before any lock (`usgs.py` 1446-1488) |
| `RepublishUnchanged`, `RefusePending`, `AdoptPending`, `RefuseSupersession`, `FailOnTakenSuccessor`, `OpenVersion` | the branches of phase one, right after the lock (`services.py` 1564-1681) |
| `Stage`, `StageTorn` | `stage_versioned`, finished or cut short |
| `CommitPending`, `RollBackPending`, `Discard` | the commit of the DRAFT manifest, or its failure and the removal of the temporary file after the lock is gone |
| `Promote`, `PromoteFails`, `CleanUp`, `VerifyPromoted` | `finalize()`, without the lock: `os.link`, its `except`, its `finally`, then `store.read` |
| `Complete`, `CompletionFails` | the second transaction: publish the manifest, insert the profile, index the date |
| `Crash` | the process dies; PostgreSQL rolls back and drops the lock |

A reconciler runs three passes: pending manifests under the lock
(`TakePending` to `PublishPending` or `WithdrawPending`), an audit of published
manifests without it (`AuditHealthy`, `AuditUnreadable` with `ReindexDate`,
`RestoreProfile`), and the sweep of orphans and aged temporary files.  What it
knows of the manifests is the pair of listings it started its passes with
(`todo`, `known`).

A transaction is one step where the lock is held from its first read to its
commit and nothing it touches can be reached without the lock; file operations
are always steps of their own.

Not modelled: that a linked artifact shares its inode with a temporary file a
peer may still be writing, evidence snapshots and their validation, and
reconciliation in report-only mode.

### Batch

Dates, runs in order of `started_at`, and operators.  A run records its plan,
its flags and the release of each source (`NewRun`); `0` is a recorded null, and
a ledger from before pinning has `DOMAIN pins = {}` and `Nothing` for its flags,
which a resume then takes from its own command line (`AsRecorded`).  Manifests of a
date carry what they rest on: the releases current when they were rendered, or
`Richer` for an event profile.

| Action | Code |
|---|---|
| `Start`, `Resume` | `publish-context` and `publish-archive`, `--resume` and `--retry-failed` (`publish_cli.py` 172-258) with `batch_run_is_resumable`, `recoverable_batch_run`, `outstanding_dates` |
| `SkipDate`, `TakeDate` | the loop head of `run_context_batch`: dry run, richer profile, newest manifest before the attempt |
| `Render` | `publish_context_profile` up to its call of `publish_day_profile` |
| `Publish`, `Complete`, `AttemptFails` | the two phases, each under the date's lock, or an exception |
| `LookUpEntry`, `CommitEntry` | `_record_entry`: select, then insert or update and commit |
| `Finish` | completed or interrupted, from the whole ledgered plan |
| `Ingest`, `PublishEvent`, `Reconcile`, `Crash` | what goes on around it |

That the two phases may be taken as atomic steps is what `PhaseOneHolds` and
`SuccessIsPublished` say of `Publication`.  A run's dates are taken in any
order; the code takes them in plan order, which is one of them.

### Coverage

Several dates, because a rebuild walks them.  A writer of `coverage_entries` is
taken apart into what PostgreSQL and SQLAlchemy see: read the served manifest,
load the entry, flush (which takes the row lock and sends only the columns that
differ from what was loaded), commit.

| Action | Code |
|---|---|
| `BeginEdit`, `ReadServed`, `CommitReview` | `record_editorial_selection` with `_refresh_indexed_metadata` and `refresh_coverage_metadata`, without the publication lock |
| `CommitPending`, `RefusePending`, `LockToComplete`, `CommitPublished` | the same session going on to publish: phase one, then completion under the lock with `upsert_coverage_entry` |
| `LoadEntry`, `Flush`, `FlushFails` | the statements of an upsert or delete, and the `IntegrityError` or `StaleDataError` they can end in |
| `StartRebuild`, `TakeDate`, `SkipDate`, `CommitEntry`, `SettleAbsent`, `ListStale`, `Finish` | `rebuild_coverage_index` and `_drop_stale_entries`: snapshot, one locked transaction per date, second pass over what the first did not settle |
| `StartReconcile` | `reconcile_date_coverage` |
| `BreakDeadlock` | PostgreSQL aborting a publisher's refresh or the lock holder waiting for its row |
| `Disturb` | an artifact that becomes unreadable or readable again |

`Derived` is the entry's columns; the history variables `stale` and `raced` mark
the dates an unlocked refresh can spoil, and nothing else is excused.  One
writer is missing here: a republication without changes also upserts the entry
(`services.py` 1596).  It holds the publication lock and is a step of
`RepublishUnchanged` in `Publication`; how it meets an unlocked refresh is not
modelled.

### EventDay

One date and the events on it, in the order of the standing rule's hash.
`Golden` is the event `publish_golden_profile` publishes, which does not look
for a collision; the others go through `publish_wikidata_event`.

| Action | Code |
|---|---|
| `Begin`, `Guard`, `CommitTask` | `published_recorded_event_on`, `_collision_outcome_if_blocked`, `_ensure_merge_review_task` |
| `Carry`, `CarryGolden` | the newest published manifest, `events_behind_manifest`, the second collision guard and the surviving evidence of every other event |
| `Evaluate` | `evaluate_featured_event` under the date's featured-event lock |
| `Unchanged`, `Adopt`, `StartVersion`, `RefuseVersion`, `Complete`, `Crash` | `publish_day_profile` as far as events, headline and binding tell payloads apart |
| `FlipSelection`, `ChooseHeadline`, `RuleOnCollision` | a person's `record_editorial_selection`, `record_featured_event_selection`, `resolve_merge_review` with `record_identity_adjudication` |
| `Reresolve` | `accept_and_resolve_release` for a newer USGS release: the event points at new roots, manifests keep the old ones |
| `ReconcileDraft`, `IndexLag` | what `Publication` and `Coverage` do to a date, as far as an event publisher notices |

`RuleOnCollision` is one step.  The code reads the collision, the events and the
tasks (`wikidata.py` 1796-1824) before it takes the pair's lock
(`governance.py` 860); under the lock the ruling is appended to whatever is
recorded by then, as in the model, but the task it answers may have been
answered by somebody else in between.  No property speaks of tasks.

### Ingestion

Each adapter is a record of which step it takes when (`Usgs`, `Wikidata`,
`Pinned`, `Annual`, `Ged`, `Wpp`; `Pinned` is the Wikidata entity of the
fixture, read before there is a run): before its pipeline run exists, after that
but before the checksum is looked up, when the document is known, when it is
new, and in a dry run.  An attempt is a transaction of four steps (`Begin`,
`Look`, `Insert`, `Commit`): its rows are visible only at the commit, the raw
store's files before.  The commit happens for a failed attempt as well, so that
the failed run is on record.  `SourceOf` is the row of `sources` an adapter
works under: the two UCDP adapters share one, and so do the two ways into
Wikidata.  `SourceHeld` and `KeyHeld` are the waits on unique keys. `Load` and
`Decide` are the review endpoint with `record_claim_review`. `Damage`, `Reseed`
and `Retermed` are what happens around the commands.

### Evidence

Claims of one release about one year form a block, reviewed and resolved
together; a source and a year have one chain of resolutions.  A derived value
records the version it rests on, the release its number comes from and, for
`created_at`, how many releases had arrived when its command began (`Value`).
The two need not agree: a demographic review reads the newest resolution of a
key again after resolving (`Rests`, `un_wpp.py` 924-931) and calculates with
its own release's number, so it can put that number on a resolution another
review made for another release.  A page states the number created last of
those on its version (`Number`); `created_at` is the start of the transaction,
one statement before a review command chooses its release, so the order of the
releases is its order.

| Action | Code |
|---|---|
| `StartSweep`, `LoadYears`, `SaveYears`, `EndSweep` | `review-ucdp-annual` and the demographic review (`context_cli.py`): claims and latest resolution are read first and written later, per year for conflict, once for demography; `ReviewSelects`: the selections for the golden date, and for January 1 by the conflict review |
| `Compare` | `derive_release_comparisons` with `derive_conflict_comparison`, `reference_cohort`, `percentile_rank` and `discrete_median` |
| `Reject`, `Decline` | a person's claim review and editorial selection |
| `Assemble`, `ApplyRule`, `Publish` | `publish_context_profile`: what it reads, the standing rule's look-up before the lock, the gate and the commit |
| `Ingest`, `Crash` | a release arriving, a sweep dying after some years |

`Publish` is one step: the gate of the code reads (`un_wpp.py` 1641-1660) just
before `publish_day_profile` takes its lock, so a person can decline a root in
between.  No property here depends on that; the wider window, from the look-up
of `ApplyRule` on, is the one `BugRuleOverrules` shows.

## Runs

| Run | Instance | Question and result |
|---|---|---|
| `PublicationConcurrent` | 2 publishers, 1 reconciler, 2 contents, 2 versions; failed commits, dying reconciler | `PendingIsNewest`, `PhaseOneHolds`: phase one is serialised; `SuccessIsPublished`: success means published; `ImplementsArchive`: every step is one of `Archive` or none |
| `PublicationRepair` | 1 publisher, 2 reconcilers, 1 content, 2 versions; crash, a stall longer than the sweep's threshold, torn write, failed link, damaged artifacts, a first version without profile | `RepairHolds`: repairs act on fresh rows; `PublishedRetained`: they lose no bytes; `IndexFollowsServed`: they index only what is served |
| `PublicationDurable` | 2 publishers, 2 contents, 3 versions; crash | `PendingRecoverable`, `PublishedServable`: payloads survive; `NoRedundantVersion`: reruns are no-ops; `SupersessionIsLinear`: corrections are a chain |
| `PublicationLiveness` | 1 publisher, 1 reconciler, 2 versions, crash; fair | `PendingResolved`: every pending manifest is finished or withdrawn |
| `BatchConcurrent` | 2 operators, 1 run, 2 dates, 2 versions; crash, lost payload, event profiles, a UCDP release arriving | `OneReleasePerRun`, `DryRunPublishesNothing`, `LedgerNamesPublished` |
| `BatchLiveness` | 1 operator, 2 runs, 2 dates, 3 versions; two crashes or failures anywhere, dry or not, with and without pins and flags; fair | `DrainedByResume`: repeated `--resume` drains what may be resumed; `CompletedOwesNothing` |
| `CoverageIndex` | 2 editors, 1 walker, 2 dates (one published before the index existed), 2 editorial transactions, 1 damaged or restored artifact | `IndexExact`, `ServedIsIndexed`: the index says what is served; `NoServedDropped`: no rebuild drops a date that was republished meanwhile; `RebuildHeals`: a rebuild puts right what nobody touched |
| `EventDayGovernance` | 2 publishers, 2 events, 3 attempts, 2 rulings, and one headline choice, withdrawn predicate, newer release and mishap each | `AdmittedEventsKept`: no admitted event disappears; `EveryPairRuledDistinct`, `AdmissionWasPermitted`: none is admitted without a ruling; `OneHeadline`, `BindingHonest`, `HumanChoiceStands`: the headline is one, bound to its decision, and a person's |
| `IngestionPipeline` | 2 operators, 2 reviewers, 7 documents of all adapters (the pinned and the live Wikidata entity under one label, three under the one UCDP source row, one malformed), 3 attempts, 2 reviews, 1 fault | `ReleaseIsWhole`, `RetryIsAccepted`, `OneTerminalDecision` |
| `EvidenceReview` | 2 sweepers, 1 publisher, 4 releases (two of each source), 3 years (two of them in a cohort with a tie), 3 sweeps, 1 attempt, 1 rejection, declined root or crash | `PagesRestOnReview`: a page's numbers come from the release its evidence rests on, whose claims were accepted and never rejected; `ResolutionsAreLinear`: racing sweeps never fork a chain; `ComparisonsAreWhole`: a cohort is complete and the arithmetic true; `ContextIsNotDropped`: evidence that is not ready stops a page instead of vanishing |
| `BugForgottenEvent`, `BugRuleOverrules` | the smallest instances | the findings below, each a counterexample |

`PublicationRepair`, `BatchConcurrent`, `CoverageIndex`, `EventDayGovernance` and
`IngestionPipeline` also check the type invariant of their module, in the
instance that reaches most of its actions.  The eight configurations without a
row here reproduce disagreements, see Reproductions.

### Bounds

Processes are two where they race and one where they do not: a third publisher
meets the lock exactly as the second does, and what two reconcilers can do to
each other needs no third.  Two contents distinguish "the same" from "another".
Two versions are enough for a published predecessor and a pending correction;
three, in `PublicationDurable` and `BugAbandonedCorrection`, for a correction
of a correction and for a version that repeats an older one.  `MaxVersion`
disables `OpenVersion` when it is used up; the process then waits, which hides
no safety violation below the bound.  `MaxTrouble` bounds crashes and failed
attempts of a batch: a resume after each of them takes the run through every
interrupted state the safety properties speak of.  Runs are unforced in both
batch instances: a forced one opens a version at every resume, so it exhausts
any `MaxVersion` and the bound, not the code, would stop it; the theorems about
`Batch` hold for forced runs as well.  Deadlock is checked for
`Publication` and `Coverage`.  It is not for the others: in `Batch`, when every
run was started and a release has moved, no run may be resumed and operators
really have nothing to do; `EventDay`, `Ingestion` and `Evidence` consist of
commands that end, and stop when their number is used up.

`CoverageIndex`: a lost update needs two writers of a row, a deadlock a third
that holds the publication lock; two editors and a walker are that.  Two dates
let a walk have one behind it and one ahead.  A walker runs again and again
without a bound. `EventDayGovernance`: two events, because "a date with more
than two admitted events ... is not reachable through any real publisher in this
codebase today" (`wikidata.py` 2582); nothing refuses a third, and
`BugBlanketPermission` shows what happens then; three attempts admit the second
event, republish, and race; two rulings are a permission and its reversal.
`IngestionPipeline`: two attempts race for a key and a third retries after them;
every adapter has a document, and the two of Wikidata, one by each way, share a
label so that a unique key other than the checksum decides.  The UCDP documents
belong to two adapters and race for one source row. `EvidenceReview`: the two
conflict releases differ in the years they cover, the cohort of the larger has a
tie, the two demographic ones let a review come upon another's resolution, three
sweeps are two that race and one that repairs.  One attempt is enough: a page is
judged by what was reviewed, not by the page before it.  `January` is the year
whose date is not the golden one.  `MaxVersion` 2 disables a third resolution of
a year, which is the same step as the second.

The five faults of `Publication` that a run leaves out are the ones it would
only be slower with, with three exceptions.  `PendingRecoverable` does *not*
hold with failed commits, failed links or torn writes, so `PublicationDurable`
checks it for crashes:

* failed commit: the rollback releases the lock, a second publisher with the
  same content opens the same version number and stages over the same temporary
  file, sees it commit, and the first one's `discard()` removes that file
  (`services.py` 1684-1689);
* failed link: `finalize()` removes the temporary file in `finally` although
  `os.link` failed, and the committed manifest has no payload left
  (`services.py` 126);
* torn write: a retry adopts the pending manifest and truncates its only
  payload before it has written its own copy (`services.py` 194-201).

In each case the manifest can still be withdrawn by reconciliation: a
publication is lost, the archive is not.  Similarly `OneReleasePerRun` does not
hold if a release is ingested while a run is publishing (`live_ingest`), which
the code accepts: pins are compared on resume only.

### Fairness

`PublicationLiveness`: a publisher inside its locked transaction runs on or
dies (weak fairness of its steps together with `Crash`); reconciliation is run
again and again and an invocation runs to its end (weak fairness of
`Reconcile`); and it is not locked out for ever, because PostgreSQL grants
advisory locks in request order (strong fairness of the steps that take the
lock).  Publishers owe nothing else: they may stop anywhere outside the lock.
`BatchLiveness` and `BugBatchStarved`: a command that runs is carried on,
`--resume` is repeated among whatever else the operator starts, and pending
manifests are reconciled.

The other runs check safety only.

## Proofs

TLAPS proves for every set of processes and contents, every `MaxVersion`, every
combination of faults and any initial archive the model admits, from
`PublicationAssumption` alone (sentinels differ from contents and processes,
publishers are not reconcilers, parameters have their types):

* `TypeCorrect`, `PendingStaysNewest`, `DecisionsHold`, `RepairsHold`,
  `CorrectionsAreLinear`, `IndexIsServed`, `SuccessIsOwn`: the invariants of the
  runs of the same content;
* `NothingIsRewritten`: no step unpublishes a version, removes a day profile or
  changes the hash or predecessor of a manifest;
* `PublicationRefinesArchive`: `Publication` implements `Archive`, with the
  ledger read off the published rows.

The safety invariants are not inductive.  That a pending manifest is the newest
one survives the commit of another only because the committing publisher still
holds the lock under which it saw no pending manifest; that a repair publishes
a pending row survives because it holds the same lock.  `Inductive` therefore
joins the types, the facts about the rows (`Consistent`), what every publisher
knows at each of its steps (`Own`), what every reconciler knows while it holds
the lock (`RepairHolds`) and that what it listed exists (`Listed`).  The
argument has three layers: (1) `Orderly`: a step that changes rows is taken by
the lock's holder or while the lock is free, and a step that keeps the rows only
acquires a free lock or releases its own; (2) `Transaction`: every step of the
first kind opens a version, publishes one, withdraws one, restores a profile or
re-indexes, and each of these five preserves `Consistent`; (3) so what a process
knows is disturbed by nobody else's steps (`OthersKeepOwn`,
`OthersKeepRepair`) and re-established by its own.

`PublicationFileProofs` adds the files.  Two theorems need no hypothesis:

* `ArtifactsNeverOverwritten`: no step of a publisher or reconciler overwrites
  or deletes a promoted artifact; it can only move to quarantine, and stays
  there (the environment may damage it);
* `PublishedIsRetained`: `PublishedRetained` for all faults.  An artifact is
  verified steps before its manifest is published, so `Retention` says of every
  process in between that the bytes it saw are still at their path, in
  quarantine, or destroyed by the environment; the first theorem carries that
  over everybody else's steps.

The other three hold without some of the faults, and each hypothesis leaves out
exactly what takes the promise away:

* `PublishedIsServable` assumes no reconciler and no disk damage: the sweep of a
  reconciler can quarantine an artifact published after it listed the manifests
  (`BugOrphanSweep`).  What remains retained was then never moved;
* `PendingIsRecoverable` assumes no reconciler, for the same reason, no disk
  damage and none of the three faults under Bounds that lose a payload.  `Durable`: every allocated version has its payload
  at its temporary or its final path and nothing else is at either; a publisher
  that staged it still finds it there, because all who use the path carry the
  same content;
* `NoVersionIsRedundant` assumes that nobody forces a version and that every
  published manifest starts with its profile (a manifest without one makes the
  code open a version for the same content).  It holds with reconcilers and
  under all faults.  `Economy` says that the content of a pending version, and
  of one about to be opened, differs from what the newest published version
  carries; the lock keeps it so between the look and the commit.

For `Batch` (`BatchProofs`), from `BatchAssumption` (parameters have their types)
and for every set of operators, dates, plans, flags and disturbances:

* `BatchTypeCorrect`, `DryRunsPublishNothing`, `LedgersNamePublished`: the
  invariants of `BatchConcurrent`;
* `RunsKeepOneRelease`: `OneReleasePerRun`, assuming that nothing is ingested
  while a command runs; without that assumption it is false, see Bounds;
* `CompletedRunsOweNothing`: `CompletedOwesNothing`, assuming one operator
  (`Alone`).  The run an operator works on is then always recorded as running
  (`OpenAtWork`), so nothing is ledgered in a run after it was closed, and it is
  closed by its whole plan.  With two operators the property is false, see Known
  windows.

`BatchInv` is the strengthening.  A ledger entry is written three steps after
the manifest it names was published and longer after the releases were read, so
the invariant says what an operator knows of its run and its date in between
(`Knows`) and what every entry rests on (`Evidence`).  Three facts about a step
carry it: allocated manifests keep their content and published ones stay
published (`ArchiveKept`), a run keeps what it recorded about its request
(`RunsKept`), and releases stand still while a command runs (`ReleaseStill`).

For `Ingestion` (`IngestionProofs`), from `IngestionAssumption` alone (every
document has an adapter and a label, documents yield claims, sentinels differ
from documents, operators and outcomes), for every number of operators,
reviewers, documents and attempts:

* `IngestionTypeCorrect`, `IngestionInvariant`;
* `ReleasesAreWhole`, `RetriesAreAccepted`, `ClaimsAreDecidedOnce`: the
  invariants of `IngestionPipeline`.

What a release or a run says was established steps before the commit that
writes it: the checksum was new when it was looked up, the key was free when
the rows were inserted, the bytes were stored before that.  `IngestionInv`
therefore adds to the types and the three invariants what an operator knows at
each step (`Knows`), that staged and committed keys are different (`KeysApart`),
that a reviewer's claim exists (`Seated`) and that a release names a run
(`RunsNamed`).  The argument: frame lemmas say what every step keeps of runs,
releases and files (`StepKeeps`, `StoredStays`, `KnownStays`), so nobody
disturbs what another operator knows (`OthersKnow`); each step re-establishes
its own (`BeginKnows`, `LookKnows`, `InsertKnows`, `KeysApartStep`); a commit
turns it into a run and a release (`CommitRuns`, `CommitReleases`).  A decision
is sound because it reads the claim's status again under its lock
(`DecidedSound`).

For `Evidence` (`EvidenceProofs`), from `EvidenceAssumption` (parameters have
their types, years are finitely many) and `SessionAssumption` (a session sweeps
or publishes), for every set of releases and years, any coverage and every
number of sessions:

* `EvidenceInvariant`;
* `PagesStateWhatWasReviewed`, `ChainsStayLinear`, `CountsAreNotDropped`: the
  properties `PagesRestOnReview`, `ResolutionsAreLinear` and
  `ContextIsNotDropped` of `EvidenceReview`;
* `ComparisonsTellTheTruth`: its property `ComparisonsAreWhole`.

A page is assembled steps before it is published, so `EvidenceInv` adds to the
types what a publisher knows of its draft (`Drafting`): that it is `Honest`,
which also says why a count is missing from it and that its numbers come from
the release its versions rest on.  Releases are listed under their source and
were there before a sweep of them began (`Listed`, `Sweeping`); a block a sweep
read as accepted still is (`Reading`), and rejections are final (`Rejections`).
`Numbered` carries the numbers: every resolution has a value with the number of
its own release, and every value was created by a review of the release that was
the newest then.  A publisher builds on the newest release of all, so no value
on its version was created later than that release's own.  The argument: no step
takes back what makes a page honest (`Kept`), so drafts and pages stay honest
under everybody's steps (`HonestStays`); assembling establishes it
(`AssembledIsHonest`), which needs that a year with a supported version has a
largest one (`LargestExists` of `NumberLemmas`, from the well-foundedness of the
natural numbers); and a chain grows only by the version after its last one,
since a sweep that read an older version loses to the unique version when it
saves (`ResolvingKeeps`, `SaveYearsKeeps`).

Comparisons have an invariant of their own, `ComparingInv`.  A sweep that lost no
year has left every year it covers, and does not still have to do, with a count
of its release (`Attends`), which nobody takes back (`CountsStay`); and only
covered years are resolved (`CoveredOnly`).  So the cohort of a comparison, made
when nothing is left to do and nothing was lost, is every year the release
covers.  That the arithmetic is right for every cohort needs no induction:
`PercentageIsTight` is division with remainder, and `MedianIsCentral` takes the
smallest recorded count that more than half of the years do not exceed, which
exists because the largest one (`LargestValue`) is such a count.

For `EventDay` (`EventDayProofs`), from `EventDayAssumption` (parameters have
their types, events are finitely many, sentinels differ) and `BindingAssumption`
(no binding is `None`), for every number of events, publishers and people:

* `EventDayInvariant`, `EventDayTypeCorrect`;
* `OneEventIsFeatured`, `BindingsAreHonest`, `PeopleHaveTheLastWord`: the
  properties `OneHeadline`, `BindingHonest` and `HumanChoiceStands` of
  `EventDayGovernance`.

A headline is decided at one step and recorded at a later one.  `EventDayInv`
says what a publisher with undelivered rows knows (`Founded`): it holds the
date's featured-event lock, the rows are the ones the rule adds where no person
has chosen (`Due`), and its payload is honest about the log they make.  The
argument: a call that no person's choice overrules leaves exactly one root
selected (`CallSelectsOne`); logs only grow, so a binding once honest stays so
(`HonestStays`); nobody records anything while a publisher holds a decision,
because the lock is the transaction's (`RecordsDecides`, `KnowledgeStays`).

Two more sections concern what a version carries:

* `ManifestsFormAChain`, `AdmittedEventsStay` (`AdmittedEventsKept`): for any
  number of events and publishers.  A publisher reads the manifest it builds on
  long before it opens the next version.  What saves an event admitted in
  between is that a manifest is superseded only once: by induction over the
  versions, as long as every version named a predecessor, the one it names is
  the one published right before it, so its payload, which was made from that
  manifest (`Builds`), has its events;
* `PairsAreRuledDistinct`, `AdmissionsArePermitted` (`EveryPairRuledDistinct`,
  `AdmissionWasPermitted`): for any number of events and publishers under
  `SettledOrPair`, that the golden event is never resolved anew or has only one
  other beside it.  `Admitted` says that all pairs on every manifest, and on
  every payload being made, were ruled distinct, and that an attempt remembers
  every permission there was during it.  A publisher asks for a ruling on the
  events behind the manifest and carries the events in it: the hypothesis makes
  the two the same set, or the event alone on its date.  Without it both are
  false, see `BugBlanketPermission`.

For `Coverage` (`CoverageProofs`), from `CoverageAssumption` (parameters have
their types, editors are not walkers, sentinels differ) and `EntryAssumption`
(no entry is `None`), for every number of dates, editors and walkers:

* `CoverageInvariant`, `CoverageTypeCorrect`;
* `EntriesAreExact`, `ServedDatesAreIndexed`, `ServedEntriesAreKept`: the
  properties `IndexExact`, `ServedIsIndexed` and `NoServedDropped` of
  `CoverageIndex`.

What a transaction writes was derived statements earlier.  `CoverageInv` says
what every process knows in between: `Knows` whatever the others do (which locks
it holds, that a deletion is of a date that cannot be served, that a row it
loaded is there unless it was deleted since), `Fresh` unless a commit has
overtaken it (what it is about to write is what the archive supports).  The
argument: a step that commits nothing disturbs nobody (`QuietKeeps`); of two
transactions on one date of which neither is an unlocked refresh both hold the
publication lock, so they are one (`OthersAreOvertaken`), and a commit leaves
everybody it does not overtake fresh (`CommitOthersFresh`, `CommitKeeps`).

`RebuildsHeal` proves `RebuildHeals`.  The second pass of a rebuild looks only at
what the first did not settle, so `WalkSound` says of every other date, unless
somebody else has changed it since, that its entry is what the archive supports,
and of the date in hand that what was read and loaded is still so.  Everybody
else's step leaves a walk `Aside`: it changes no date the walk does not then
count as touched.

Every safety property a passing run checks is stated by one of these theorems.  Only
model-checked are the two liveness properties, `PendingResolved` and
`DrainedByResume`: fairness and ENABLED are outside the prover's reach.  Where a
theorem has a hypothesis the property is false without it.  The reproductions
and the paragraphs under Bounds and Known windows say how, except where the code
promises nothing of the kind: `PublishedServable` on a damaged disk, and
`NoVersionIsRedundant` for forced versions or manifests without a profile.

## Findings

Each is a run TLC refutes, with the line of the repository it contradicts in
`PROJECT.json`.

1. `BugForgottenEvent`: after a newer USGS release is resolved,
   `events_behind_manifest` no longer finds the event behind the manifest that
   carries it, because the event has moved to new roots.  The next event
   published on that date replaces the section and the admitted event is gone.
2. `BugRuleOverrules`: the standing rule looks for an earlier decision before it
   takes the lock its own decision is recorded under; a rejection a person
   commits in between is followed, and so overruled, by the rule's selection.

### Reproductions

These configurations, each with a smallest instance, reproduce disagreements
between the code and its own comments that are not among the listed runs;
`tlc -config <name>.cfg <module>` shows the trace.

| Configuration | Module | What it shows |
|---|---|---|
| `BugHalfObserved` | `MCPublication` | reconciliation withdraws a manifest whose artifact is in place: its lock does not exclude `finalize()`, so it can see neither the artifact (too early) nor the temporary file (too late) |
| `BugOrphanSweep` | `MCPublication` | an artifact published after the reconciler listed the manifests is quarantined as an orphan; the date answers 503 |
| `BugAbandonedCorrection` | `MCPublication` | a withdrawn correction keeps its predecessor's only successor slot; no later correction of that date can be opened |
| `BugPeerCompletion` | `MCPublication` | of two publishers of the same content the slower one fails with a trigger error, because it completes a stale in-memory row |
| `BugBatchStarved` | `MCBatch` | a date that cannot be published keeps its run the oldest that owes dates, and `--resume` never reaches a newer interrupted run |
| `BugBatchUnchanged` | `MCBatch` | a resumed attempt that publishes a pending manifest is ledgered as `unchanged` |
| `BugStaleBinding` | `MCEventDay` | an attempt whose headline binding changed adopts a pending manifest with equal bytes and the old binding, and publishes it (`services.py` 1608-1618 against the comment at `wikidata.py` 2676-2682) |
| `BugBlanketPermission` | `MCEventDay` | with a third event: after a newer USGS release the guard no longer sees the USGS event behind the manifest, but its old statement is carried when another event survives, so a third one that was ruled distinct from that other alone is published next to both ("a decision about one pair never becomes blanket permission for the date", `wikidata.py` 1670) |

### Known windows and disagreements without a run

The properties name these as excuses, or they were read while modelling:

* An editorial decision refreshes the index without the publication lock: it
  can write the entry of an older manifest, or merge columns of two versions
  (`raced` in `Coverage`).  A publisher that refreshed its date holds the row
  and then waits for the publication lock, whose holder waits for the row:
  PostgreSQL aborts one (`BreakDeadlock`).
* A publication can slip in between an event publisher's reading of the
  previous manifest and the publication lock; `docs/DECISIONS.md:1499` records
  this.  `AdmittedEventsKept` excuses the dates where it happened (`Blind`).
* Two publishers that meet the same collision open two merge-review tasks.  A
  pair that was admitted and is later ruled "merge" blocks every further
  publication of its date.
* USGS derives the local day before it looks the checksum up, so a retry after
  the boundary table changed fails, which `wikidata.py` 580-585 says a retry
  must not; and a failed fetch of USGS or UCDP leaves no run, unlike Wikidata's
  (434-438).  `RetryIsAccepted` excuses the first.
* Two documents with one Wikidata revision label collide on the release label;
  of two concurrent first ingests of a source, also by the two UCDP adapters,
  the second fails on `sources.slug`.
* A demographic review can put its release's number on a resolution that rests
  on another release's claims (`un_wpp.py` 924-931).  What saves the pages is
  that the publisher builds on the newest release and takes the value created
  last, see `Numbered` under Proofs.  Releases are taken to differ in their
  numbers; equal ones would make the mix-up invisible.
* A page can state a comparison of another release than its count
  (`PairedAlike` in `Evidence` does not hold), although `un_wpp.py` 1634-1637
  says this is "asserted here rather than assumed".  Rerunning
  `review-ucdp-annual` selects again what a person declined for the golden
  date.  Ingesting the single-year fixture makes it the newest release, and the
  conflict context of every other year silently stays away from new pages.
* Nothing in the ledger says that somebody still works on a run.  Two operators
  resuming the same one can ledger a failure in it after the other has recorded
  it as completed, although "completion is a property of the whole ledgered
  plan" (`batch_publication.py`); `BatchLiveness` and `CompletedRunsOweNothing`
  are about one operator.
* `OneReleasePerRun` assumes that nothing is ingested while a run publishes,
  see Bounds (`golden_canary.py` 160).
* The docstring of `publish_day_profile` says identical content is a no-op
  "unless force_new_version or supersession is requested", while the code, and
  the comment in it, make it one also when a predecessor is offered.

## Not modelled

* Parsing of source formats, text rendering, wording, licences' texts, argument
  handling, configuration and seed data: no state that interacts.  What parsing
  accepts is a property of a document (`Malformed`), what a step needs is in the
  adapter's record.
* The geometry of time zones, answered by PostGIS; whether a place is covered is
  `boundary`.  The edges of a calendar day in `temporal.py` are a pure
  conversion with its own tests.
* Golden canary and golden set: they validate files and count; the one thing
  that interacts, a release ingested while a run is publishing, is in `Batch`
  (`live_ingest`).
* The neighbour, random-date and summary queries of `coverage.py`, which read the
  index once and write nothing; and how the upsert of a republication without
  changes meets an unlocked refresh (`services.py` 1596).
* Hardlinks: a linked artifact shares its inode with a temporary file a peer may
  still be writing.  `EvidenceSnapshot` and its validation.  Reconciliation in
  report-only mode, which writes nothing.
* The succeeded fetch run a live Wikidata ingest records before its own.
* The web application's travel between dates and the contracts package:
  presentation and type declarations outside the service.
