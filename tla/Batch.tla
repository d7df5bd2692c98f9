------------------------------- MODULE Batch -------------------------------
(***************************************************************************)
(* Resumable batch publication of annual context                           *)
(* (services/api/app/batch_publication.py, driven by publish_cli.py).      *)
(*                                                                         *)
(* An operator starts a run over a plan of dates, or resumes the oldest    *)
(* run that still owes dates.  Every date is published in transactions of  *)
(* its own and its outcome is committed to the run's ledger in another     *)
(* one, so a process may die between the two.  Source releases, richer     *)
(* profiles and reconciliation move on underneath.                         *)
(*                                                                         *)
(* What publish_day_profile does to one date under its lock is one step    *)
(* here; module Publication has its files, locks and failures.             *)
(***************************************************************************)
EXTENDS Naturals, Sequences

CONSTANTS
    Operators,      \* processes running the publication command line
    Dates,
    Unpublishable,  \* dates whose evidence never clears the gates
    MaxRuns,        \* bound on the runs ever started
    MaxVersion,     \* bound on the manifests of one date
    MaxTrouble,     \* bound on the crashes and failed attempts
    MaxRelease,     \* bound on the releases ingested from one source
    Plans,          \* sets of dates operators ask for
    Disturbances,   \* what may happen to a run besides its own steps
    DryRuns, Forces,  \* values operators pass as --dry-run, --force-new-version
    Legacy,         \* TRUE: a run that recorded neither releases nor flags may exist
    Richer,         \* content of an event profile
    Nothing         \* no content, no date, no flag

Kinds == {"crash", "failure", "lost_payload", "live_ingest", "event"}

ASSUME BatchAssumption ==
    /\ Unpublishable \subseteq Dates
    /\ MaxRuns \in Nat \ {0}
    /\ MaxVersion \in Nat \ {0}
    /\ MaxRelease \in Nat \ {0}
    /\ MaxTrouble \in Nat
    /\ Disturbances \subseteq Kinds
    /\ Plans \subseteq (SUBSET Dates) \ {{}}
    /\ DryRuns \subseteq BOOLEAN
    /\ Forces \subseteq BOOLEAN
    /\ Legacy \subseteq BOOLEAN

\* RELEASE_LEDGER_KEYS: the sources annual context rests on.
Sources == {"un_wpp", "ucdp"}
Releases == [Sources -> 0 .. MaxRelease]   \* 0: the source was never ingested
Versions == 1 .. MaxVersion

VARIABLES
    release,  \* the newest release of each source
    status,   \* publication_manifests.status by date and version
    content,  \* what each manifest publishes: the releases it rests on, or Richer
    runs,     \* publication_batch_runs with their entries, in order of started_at
    trouble,  \* crashes and failed attempts so far
    pc, job   \* operators

archive == <<status, content>>
vars == <<release, archive, runs, trouble, pc, job>>

Outcomes == {"none", "published", "unchanged", "failed", "skipped"}
Entry == [outcome : Outcomes, manifest : 0 .. MaxVersion]
NoEntry == [outcome |-> "none", manifest |-> 0]

\* Recorded releases: a source is missing where the run predates pinning.
Pins == UNION {[S -> 0 .. MaxRelease] : S \in SUBSET Sources}

Run == [dates : SUBSET Dates,
        pins : Pins,
        dry : BOOLEAN \cup {Nothing},    \* Nothing: the flag was not recorded
        force : BOOLEAN \cup {Nothing},
        status : {"running", "completed", "interrupted"},
        ledger : [Dates -> Entry]]

Job == [run : 0 .. MaxRuns,
        todo : SUBSET Dates,
        dry : BOOLEAN,
        force : BOOLEAN,
        date : Dates \cup {Nothing},
        previous : 0 .. MaxVersion,    \* newest manifest before publishing
        want : Releases \cup {Nothing},
        manifest : 0 .. MaxVersion,
        outcome : Outcomes,
        existing : BOOLEAN,            \* _record_entry found an entry
        promoted : BOOLEAN]            \* history: this attempt published

NoJob == [run |-> 0, todo |-> {}, dry |-> FALSE, force |-> FALSE, date |-> Nothing,
          previous |-> 0, want |-> Nothing, manifest |-> 0, outcome |-> "none",
          existing |-> FALSE, promoted |-> FALSE]

TypeOK ==
    /\ release \in Releases
    /\ status \in [Dates -> [Versions -> {"unused", "draft", "published", "withdrawn"}]]
    /\ content \in [Dates -> [Versions -> Releases \cup {Richer, Nothing}]]
    /\ runs \in Seq(Run) /\ Len(runs) <= MaxRuns
    /\ trouble \in 0 .. MaxTrouble
    /\ pc \in [Operators -> {"idle", "next", "render", "publish", "complete",
                             "record", "commit"}]
    /\ job \in [Operators -> Job]

----------------------------------------------------------------------------
(* What the processes read.                                                *)

IsNewest(v, S) == IF S = {} THEN v = 0 ELSE v \in S /\ \A w \in S : w <= v

Having(d, statuses) == {v \in Versions : status[d][v] \in statuses}
Allocated(d) == Having(d, {"draft", "published", "withdrawn"})

\* richer_published_profile: the newest published manifest is above context.
ServesRicher(d) ==
    \E v \in Versions : IsNewest(v, Having(d, {"published"})) /\ content[d][v] = Richer

Outcome(i, d) == runs[i].ledger[d].outcome

\* outstanding_dates: never attempted or failed, for --retry-failed failed.
Outstanding(i, onlyFailed) ==
    {d \in runs[i].dates :
        Outcome(i, d) \in IF onlyFailed THEN {"failed"} ELSE {"none", "failed"}}

\* Mutant: a release recorded as null constrains nothing.
ResumableNullFree(i) ==
    \A s \in DOMAIN runs[i].pins : runs[i].pins[s] \in {0, release[s]}

\* batch_run_is_resumable for a context run: every recorded release, a null
\* one included, is still the current one.
Resumable(i) == \A s \in DOMAIN runs[i].pins : runs[i].pins[s] = release[s]

\* Mutant: the newest run that owes dates is chosen, or the newest run.
RecoverableNewest(i, onlyFailed) ==
    /\ Resumable(i)
    /\ \A j \in DOMAIN runs : Resumable(j) => j <= i

\* recoverable_batch_run: the oldest resumable run that owes dates, else the
\* newest resumable one.
Recoverable(i, onlyFailed) ==
    LET candidates == {j \in DOMAIN runs : Resumable(j)}
        owing == {j \in candidates : Outstanding(j, onlyFailed) # {}}
    IN IF owing # {} THEN i \in owing /\ \A j \in owing : i <= j
       ELSE IsNewest(i, candidates) /\ i # 0

\* What a run records about how it was requested, and its empty ledger.
NewRun(dates, pins, dry, force) ==
    [dates |-> dates, pins |-> pins, dry |-> dry, force |-> force,
     status |-> "running", ledger |-> [d \in Dates |-> NoEntry]]

\* UN WPP is ingested, UCDP may not be; the oldest run may have been recorded
\* before releases and flags were, its keys absent rather than null.
Init ==
    /\ release \in [Sources -> {0, 1}]
    /\ release["un_wpp"] = 1
    /\ status = [d \in Dates |-> [v \in Versions |-> "unused"]]
    /\ content = [d \in Dates |-> [v \in Versions |-> Nothing]]
    /\ \E legacy \in Legacy :
        runs = IF legacy THEN <<NewRun(Dates, [s \in {} |-> 0], Nothing, Nothing)>> ELSE << >>
    /\ trouble = 0
    /\ pc = [o \in Operators |-> "idle"]
    /\ job = [o \in Operators |-> NoJob]

Goto(o, step) == pc' = [pc EXCEPT ![o] = step]

----------------------------------------------------------------------------
(* Starting and resuming.                                                  *)

\* context_batch_request and start_batch_run: the plan, the flags and the
\* releases of the moment are recorded before anything is published.
Start(o) ==
    /\ pc[o] = "idle"
    /\ Len(runs) < MaxRuns
    /\ \E dates \in Plans, dry \in DryRuns, force \in Forces :
        /\ runs' = Append(runs, NewRun(dates, release, dry, force))
        /\ job' = [job EXCEPT ![o] = [NoJob EXCEPT
                !.run = Len(runs) + 1, !.todo = dates, !.dry = dry, !.force = force]]
    /\ Goto(o, "next")
    /\ UNCHANGED <<release, archive, trouble>>

\* Mutant: the flags of the resuming command line count.
AsCommanded(i, dry, force) == [dry |-> dry, force |-> force]

\* A run is resumed as it was requested, whatever the resuming command says,
\* which only counts for a flag the run did not record.
AsRecorded(i, dry, force) ==
    [dry |-> IF runs[i].dry \in BOOLEAN THEN runs[i].dry ELSE dry,
     force |-> IF runs[i].force \in BOOLEAN THEN runs[i].force ELSE force]

\* --resume, or --retry-failed.  Nothing tells whether another process is
\* still working on the run.
Resume(o, onlyFailed) ==
    /\ pc[o] = "idle"
    /\ \E i \in DOMAIN runs, dry \in DryRuns, force \in Forces :
        /\ Recoverable(i, onlyFailed)
        /\ runs' = [runs EXCEPT ![i] = [@ EXCEPT !.status = "running"]]
        /\ LET flags == AsRecorded(i, dry, force) IN
            job' = [job EXCEPT ![o] = [NoJob EXCEPT
                !.run = i, !.todo = Outstanding(i, onlyFailed),
                !.dry = flags.dry, !.force = flags.force]]
    /\ Goto(o, "next")
    /\ UNCHANGED <<release, archive, trouble>>

----------------------------------------------------------------------------
(* One date.                                                               *)

\* The outcome to be ledgered for this attempt.
Settle(o, d, outcome, manifest, promoted) ==
    /\ job' = [job EXCEPT ![o] = [@ EXCEPT
            !.date = d, !.outcome = outcome, !.manifest = manifest, !.promoted = promoted]]
    /\ Goto(o, "record")

\* publish_context_profile returned a profile: it is called unchanged when
\* its manifest was the date's newest before the attempt.
Return(o, v, promoted) ==
    Settle(o, job[o].date, IF v = job[o].previous THEN "unchanged" ELSE "published", v, promoted)

SkipDate(o) ==
    /\ pc[o] = "next"
    /\ \E d \in job[o].todo :
        \/ job[o].dry /\ Settle(o, d, "skipped", 0, FALSE)
        \/ /\ ~job[o].dry
           /\ ServesRicher(d)
           /\ \E v \in Versions :
                IsNewest(v, Having(d, {"published"})) /\ Settle(o, d, "skipped", v, FALSE)
    /\ UNCHANGED <<release, archive, runs, trouble>>

TakeDate(o) ==
    /\ pc[o] = "next"
    /\ ~job[o].dry
    /\ \E d \in job[o].todo, previous \in 0 .. MaxVersion :
        /\ ~ServesRicher(d)
        /\ IsNewest(previous, Allocated(d))
        /\ job' = [job EXCEPT ![o] = [@ EXCEPT !.date = d, !.previous = previous]]
    /\ Goto(o, "render")
    /\ UNCHANGED <<release, archive, runs, trouble>>

\* Look for a richer profile again, then build the payload from the releases
\* that are current now, whatever the run has pinned.
Render(o) ==
    /\ pc[o] = "render"
    /\ LET d == job[o].date IN
        \/ /\ ServesRicher(d)
           /\ \E v \in Versions :
                IsNewest(v, Having(d, {"published"})) /\ Return(o, v, FALSE)
        \/ /\ ~ServesRicher(d)
           /\ d \notin Unpublishable
           /\ job' = [job EXCEPT ![o] = [@ EXCEPT !.want = release]]
           /\ Goto(o, "publish")
        \/ ~ServesRicher(d) /\ d \in Unpublishable /\ Settle(o, d, "failed", 0, FALSE)
    /\ UNCHANGED <<release, archive, runs, trouble>>

\* Phase one of publish_day_profile under the date's lock.
Publish(o) ==
    /\ pc[o] = "publish"
    /\ LET d == job[o].date
           want == job[o].want
           Republished(v) ==
               IsNewest(v, Having(d, {"published"})) /\ content[d][v] = want /\ ~job[o].force
       IN
        \/ \E v \in Versions : Republished(v) /\ Return(o, v, FALSE) /\ UNCHANGED archive
        \/ /\ \A v \in Versions : ~Republished(v)
           /\ \E v \in Having(d, {"draft"}) :
                IF content[d][v] = want
                THEN /\ job' = [job EXCEPT ![o] = [@ EXCEPT !.manifest = v]]
                     /\ Goto(o, "complete")
                ELSE Settle(o, d, "failed", 0, FALSE)
           /\ UNCHANGED archive
        \/ /\ \A v \in Versions : ~Republished(v)
           /\ Having(d, {"draft"}) = {}
           /\ \E v \in Versions :
                /\ IsNewest(v - 1, Allocated(d))
                /\ status' = [status EXCEPT ![d] = [@ EXCEPT ![v] = "draft"]]
                /\ content' = [content EXCEPT ![d] = [@ EXCEPT ![v] = want]]
                /\ job' = [job EXCEPT ![o] = [@ EXCEPT !.manifest = v]]
           /\ Goto(o, "complete")
    /\ UNCHANGED <<release, runs, trouble>>

\* Mutant: a manifest somebody else finished counts as completed.
CompleteWhateverFinal(o) ==
    /\ pc[o] = "complete"
    /\ LET d == job[o].date
           v == job[o].manifest
       IN
        \/ /\ status[d][v] = "draft"
           /\ status' = [status EXCEPT ![d] = [@ EXCEPT ![v] = "published"]]
           /\ Return(o, v, TRUE)
        \/ status[d][v] # "draft" /\ Return(o, v, FALSE) /\ UNCHANGED status
    /\ UNCHANGED <<release, content, runs, trouble>>

\* Phase two.  A manifest somebody else finished makes the call fail.
Complete(o) ==
    /\ pc[o] = "complete"
    /\ LET d == job[o].date
           v == job[o].manifest
       IN
        \/ /\ status[d][v] = "draft"
           /\ status' = [status EXCEPT ![d] = [@ EXCEPT ![v] = "published"]]
           /\ Return(o, v, TRUE)
        \/ status[d][v] # "draft" /\ Settle(o, d, "failed", 0, FALSE) /\ UNCHANGED status
    /\ UNCHANGED <<release, content, runs, trouble>>

\* The database or the disk fails the attempt; a pending manifest stays.
AttemptFails(o) ==
    /\ "failure" \in Disturbances
    /\ trouble < MaxTrouble
    /\ trouble' = trouble + 1
    /\ pc[o] \in {"render", "publish", "complete"}
    /\ Settle(o, job[o].date, "failed", 0, FALSE)
    /\ UNCHANGED <<release, archive, runs>>

\* _record_entry, first half: is there an entry for the date already?
LookUpEntry(o) ==
    /\ pc[o] = "record"
    /\ job' = [job EXCEPT ![o] = [@ EXCEPT
            !.existing = (Outcome(job[o].run, job[o].date) # "none")]]
    /\ Goto(o, "commit")
    /\ UNCHANGED <<release, archive, runs, trouble>>

Exit(o) == Goto(o, "idle") /\ job' = [job EXCEPT ![o] = NoJob]

\* A run with the entry of a date inserted or updated.
Ledgered(i, d, entry) == [runs[i] EXCEPT !.ledger = [@ EXCEPT ![d] = entry]]

\* Second half: insert or update it, in a transaction of its own.  A second
\* insert violates publication_batch_entries_unique and ends the process.
CommitEntry(o) ==
    /\ pc[o] = "commit"
    /\ LET i == job[o].run
           d == job[o].date
       IN
        IF ~job[o].existing /\ Outcome(i, d) # "none"
        THEN Exit(o) /\ UNCHANGED runs
        ELSE /\ runs' = [runs EXCEPT ![i] = Ledgered(i, d,
                    [outcome |-> job[o].outcome, manifest |-> job[o].manifest])]
             /\ job' = [job EXCEPT ![o] = [NoJob EXCEPT
                    !.run = i, !.todo = job[o].todo \ {d},
                    !.dry = job[o].dry, !.force = job[o].force]]
             /\ Goto(o, "next")
    /\ UNCHANGED <<release, archive, trouble>>

\* Mutant: a run that owes dates takes the status of an entry.
ClosedAsEntry(i) == IF Outstanding(i, FALSE) = {} THEN "completed" ELSE "failed"

\* Mutant: the run is closed once this invocation's dates are done.
ClosedByInvocation(i) == "completed"

\* Completion is a property of the whole ledgered plan.
Closed(i) == IF Outstanding(i, FALSE) = {} THEN "completed" ELSE "interrupted"

Finish(o) ==
    /\ pc[o] = "next"
    /\ job[o].todo = {}
    /\ runs' = [runs EXCEPT ![job[o].run] = [@ EXCEPT !.status = Closed(job[o].run)]]
    /\ Exit(o)
    /\ UNCHANGED <<release, archive, trouble>>

Crash(o) ==
    /\ "crash" \in Disturbances
    /\ trouble < MaxTrouble
    /\ trouble' = trouble + 1
    /\ pc[o] # "idle"
    /\ Exit(o)
    /\ UNCHANGED <<release, archive, runs>>

----------------------------------------------------------------------------
(* Everybody else.                                                         *)

\* A source release is ingested.
Ingest(s) ==
    /\ release[s] < MaxRelease
    /\ "live_ingest" \in Disturbances \/ \A o \in Operators : pc[o] = "idle"
    /\ release' = [release EXCEPT ![s] = @ + 1]
    /\ UNCHANGED <<archive, runs, trouble, pc, job>>

\* An event publisher gives the date a richer profile.
PublishEvent(d) ==
    /\ "event" \in Disturbances
    /\ Having(d, {"draft"}) = {}
    /\ ~ServesRicher(d)
    /\ \E v \in Versions :
        /\ IsNewest(v - 1, Allocated(d))
        /\ status' = [status EXCEPT ![d] = [@ EXCEPT ![v] = "published"]]
        /\ content' = [content EXCEPT ![d] = [@ EXCEPT ![v] = Richer]]
    /\ UNCHANGED <<release, runs, trouble, pc, job>>

\* reconcile_publications completes a pending manifest, or withdraws it when
\* its payload is lost.
Reconcile(d) ==
    /\ \E v \in Having(d, {"draft"}), final \in {"published", "withdrawn"} :
        /\ final = "withdrawn" => "lost_payload" \in Disturbances
        /\ status' = [status EXCEPT ![d] = [@ EXCEPT ![v] = final]]
    /\ UNCHANGED <<release, content, runs, trouble, pc, job>>

Work(o) ==
    \/ SkipDate(o) \/ TakeDate(o) \/ Render(o) \/ Publish(o) \/ Complete(o)
    \/ LookUpEntry(o) \/ CommitEntry(o) \/ Finish(o)

Next ==
    \/ \E o \in Operators :
        \/ Start(o) \/ Work(o) \/ AttemptFails(o) \/ Crash(o)
        \/ \E onlyFailed \in BOOLEAN : Resume(o, onlyFailed)
    \/ \E s \in Sources : Ingest(s)
    \/ \E d \in Dates : PublishEvent(d) \/ Reconcile(d)

Spec == Init /\ [][Next]_vars

----------------------------------------------------------------------------
(* Safety.                                                                 *)

Done == {"published", "unchanged"}

\* "Such a run is skipped rather than resumed": however often a run is
\* interrupted and resumed, the context it published rests on the releases
\* it recorded, a source that was missing then included.  (A richer profile
\* that an attempt met on its way rests on sources of its own.)
OneReleasePerRun ==
    \A i \in DOMAIN runs : \A d \in runs[i].dates :
        LET entry == runs[i].ledger[d] IN
        (entry.outcome \in Done /\ content[d][entry.manifest] # Richer) =>
            \A s \in DOMAIN runs[i].pins :
                content[d][entry.manifest][s] = runs[i].pins[s]

\* "A killed dry run must not become a real publication": whatever flags a
\* resuming command carries, a recorded dry run ledgers nothing but intent.
DryRunPublishesNothing ==
    \A i \in DOMAIN runs : runs[i].dry = TRUE =>
        \A d \in Dates : Outcome(i, d) \in {"none", "skipped"}

\* "The ledger can lag a crash by one entry but never overstate progress":
\* a date is ledgered as done only with a manifest that is published.
LedgerNamesPublished ==
    \A i \in DOMAIN runs : \A d \in Dates :
        LET entry == runs[i].ledger[d] IN
        entry.outcome \in Done => status[d][entry.manifest] = "published"

\* "Completion is a property of the whole ledgered plan": with one operator
\* a completed run owes no date, also after --retry-failed.
CompletedOwesNothing ==
    \A i \in DOMAIN runs :
        runs[i].status = "completed" => Outstanding(i, FALSE) = {}

\* "`unchanged` marks a rerun-safe no-op": an attempt that published the
\* date is not about to be ledgered as unchanged.
UnchangedIsNoOp ==
    \A o \in Operators :
        pc[o] = "commit" /\ job[o].outcome = "unchanged" => ~job[o].promoted

(* Progress, for operators who let a command run to its end and repeat      *)
(* --resume, whatever else they start in between.                           *)

Fairness ==
    /\ \A o \in Operators : WF_vars(Work(o)) /\ SF_vars(Resume(o, FALSE))
    /\ \A d \in Dates : WF_vars(Reconcile(d))

FairSpec == Spec /\ Fairness

\* "Repeated --resume finishes every outstanding run rather than looking
\* only at the last": in the end no run that may be resumed owes a date.
DrainedByResume ==
    \A i \in 1 .. MaxRuns :
        <>[](i \in DOMAIN runs /\ Resumable(i) => Outstanding(i, FALSE) = {})

\* "One unpublishable date must never cost the rest of the archive": in the
\* end every date of a run that may be resumed has been attempted.
EveryDateAttempted ==
    \A i \in 1 .. MaxRuns :
        <>[](i \in DOMAIN runs /\ Resumable(i) =>
                \A d \in runs[i].dates : Outcome(i, d) # "none")
====
