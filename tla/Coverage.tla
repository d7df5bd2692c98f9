------------------------------ MODULE Coverage ------------------------------
(***************************************************************************)
(* The coverage index of several dates (services/api/app/coverage.py) and  *)
(* everything that writes it: publications, the archive-wide rebuild,      *)
(* reconciliation of one date, and editorial decisions, which refresh the  *)
(* entry of their date WITHOUT the publication lock                        *)
(* (governance.py, _refresh_indexed_metadata).                             *)
(*                                                                         *)
(* A writer's transaction is taken apart into its statements: it reads the *)
(* manifest a reader is served, loads the entry, flushes the row, which    *)
(* waits for the row lock, and commits.  Statements of other transactions  *)
(* come in between.  PostgreSQL's READ COMMITTED and SQLAlchemy's unit of  *)
(* work are modelled as the code relies on them: each statement sees what  *)
(* is committed, an UPDATE sends the columns that changed since the load.  *)
(*                                                                         *)
(* The files of a publication are Publication's business: here a version   *)
(* is pending, published, and readable or not.                             *)
(***************************************************************************)
EXTENDS Naturals, Sequences, FiniteSets, Functions

CONSTANTS
    Dates,      \* the supported dates, as numbers in calendar order
    Contents,   \* profiles, told apart by the root they publish
    Eventful,   \* the contents with a statement in recorded_on_this_date
    Editors,    \* sessions that record selections, and may then publish
    Walkers,    \* rebuild_coverage_index and reconcile_date_coverage runs
    Legacy,     \* dates published before there was an index
    MaxJobs,    \* bound on the editors' transactions
    MaxFaults,  \* bound on artifacts damaged or restored
    None        \* no entry, nothing pending, lock not held

ASSUME CoverageAssumption ==
    /\ Dates \subseteq Nat
    /\ Eventful \subseteq Contents
    /\ Legacy \subseteq Dates
    /\ MaxJobs \in Nat
    /\ MaxFaults \in Nat
    /\ Editors \cap Walkers = {}
    /\ None \notin Editors \cup Walkers \cup Contents \cup Nat

Processes == Editors \cup Walkers

VARIABLES
    versions,    \* published manifests with a day profile, oldest first
    pending,     \* the DRAFT manifest of a date
    readable,    \* dates whose newest artifact passes store.read
    approved,    \* committed human selections, <<date, root>>
    index,       \* coverage_entries by date
    gone,        \* processes whose loaded row has been deleted since
    pubLock,     \* holder of the date's publication lock
    rowLock,     \* holder of an uncommitted write of the date's entry
    pc, txn,     \* control and open transaction of every process
    job,         \* editors: what the session is for
    pass, todo, live, unreadable,  \* walkers: phase, dates left, indexed, reported
    jobs, faults,            \* bounded counters
    stale,       \* history: processes overtaken by a commit on their date
    raced,       \* history: dates last written from an overtaken reading
    unindexed,   \* history: dates damaged, or whose entry was lost before
    touched      \* history: dates others changed since a walk looked at them

archive == <<versions, pending, approved>>
locks == <<pubLock, rowLock>>
walk == <<pass, todo, live, unreadable>>
counters == <<jobs, faults>>
history == <<stale, raced, unindexed, touched>>
vars == <<archive, readable, index, gone, locks, pc, txn, job, walk, counters,
          history>>

Entry == [version : Nat \ {0}, tier : {"context_only", "enriched"},
          event : BOOLEAN, review : {"automated_only", "human_reviewed"}]
ASSUME EntryAssumption == None \notin Entry

Txn == [date : Dates \cup {None},
        loaded : Entry \cup {None},     \* the entry as loaded
        value : Entry \cup {None},      \* the values to be written, None to delete
        write : Entry \cup {None}]      \* the row as flushed
NoTxn == [date |-> None, loaded |-> None, value |-> None, write |-> None]
Job == [date : Dates \cup {None},
        root : Contents \cup {None},    \* what is selected, and published
        publishes : BOOLEAN]            \* TRUE: a standing rule selects for a publisher,
                                        \* FALSE: a reviewer's own transaction
NoJob == [date |-> None, root |-> None, publishes |-> FALSE]

EditorSteps == {"idle", "decided", "seen", "loaded", "refreshed", "promoted",
                "completing", "found", "indexed"}
WalkerSteps == {"idle", "first", "second", "seen", "loaded", "flushed", "done"}

TypeOK ==
    /\ versions \in [Dates -> Seq(Contents)]
    /\ pending \in [Dates -> Contents \cup {None}]
    /\ approved \in SUBSET (Dates \X Contents)
    /\ readable \in SUBSET Dates
    /\ index \in [Dates -> Entry \cup {None}]
    /\ gone \in SUBSET Processes
    /\ pubLock \in [Dates -> Processes \cup {None}]
    /\ rowLock \in [Dates -> Processes \cup {None}]
    /\ pc \in [Processes -> EditorSteps \cup WalkerSteps]
    /\ txn \in [Processes -> Txn]
    /\ job \in [Editors -> Job]
    /\ pass \in [Walkers -> {"first", "second", "single"}]
    /\ todo \in [Walkers -> SUBSET Dates]
    /\ live \in [Walkers -> SUBSET Dates]
    /\ unreadable \in [Walkers -> SUBSET Dates]
    /\ jobs \in 0 .. MaxJobs
    /\ faults \in 0 .. MaxFaults
    /\ stale \in SUBSET Processes
    /\ raced \in SUBSET Dates
    /\ unindexed \in SUBSET Dates
    /\ touched \in [Walkers -> SUBSET Dates]

----------------------------------------------------------------------------
(* What is derived from the archive.                                       *)

\* _latest_published_manifest: the version a reader is served, 0 for none.
Served(d) == Len(versions[d])

\* _artifact_servable.
Servable(d) == Served(d) # 0 /\ d \in readable

\* Mutant: the tier value that migration 0016 retired.
RichnessRetired(c) == IF c \in Eventful THEN "reviewed_enriched" ELSE "context_only"

\* derive_publication_tier.
Richness(c) == IF c \in Eventful THEN "enriched" ELSE "context_only"

\* derive_review_status over the human selections a transaction sees.
Review(d, c, seen) == IF <<d, c>> \in seen THEN "human_reviewed" ELSE "automated_only"

\* upsert_coverage_entry: every value derived from one manifest.
Derived(d, v, c, seen) ==
    [version |-> v, tier |-> Richness(c), event |-> c \in Eventful,
     review |-> Review(d, c, seen)]

\* The entry the archive supports, from the newest servable version.
Exact(d) == Derived(d, Served(d), versions[d][Served(d)], approved)

\* Selections that x has inserted but not committed are visible to x alone.
Own(x) == IF x \in Editors /\ ~job[x].publishes THEN {<<job[x].date, job[x].root>>} ELSE {}

Goto(x, step) == pc' = [pc EXCEPT ![x] = step]
Release(x) == rowLock' = [d \in Dates |-> IF rowLock[d] = x THEN None ELSE rowLock[d]]
Unlock(x) == pubLock' = [d \in Dates |-> IF pubLock[d] = x THEN None ELSE pubLock[d]]

\* A refresh runs in the editor's transaction, without the publication lock.
Unlocked(x) == x \in Editors /\ pc[x] \in {"decided", "seen", "loaded", "refreshed"}

\* The history variables after a commit of x that changes date d.  Two
\* transactions under the publication lock are never excused.
Overtaken(x, d) ==
    {y \in Processes \ {x} : txn[y].date = d /\ (Unlocked(x) \/ Unlocked(y))}

TouchedBy(x, d) ==
    [w \in Walkers |-> IF w = x \/ pc[w] = "idle" THEN touched[w] ELSE touched[w] \cup {d}]

Committed(x, d, writes) ==
    /\ stale' = (stale \ {x}) \cup Overtaken(x, d)
    /\ raced' = IF x \in stale THEN raced \cup {d}
                ELSE IF writes THEN raced \ {d} ELSE raced
    /\ touched' = TouchedBy(x, d)

\* Dates published before there was an index have the entry the migration gave
\* them, or lost it to a rebuild that could not read their artifact.
Init ==
    /\ versions \in [Dates -> {<<>>} \cup {<<c>> : c \in Contents \ Eventful}]
    /\ \A d \in Dates : versions[d] # <<>> <=> d \in Legacy
    /\ pending = [d \in Dates |-> None]
    /\ approved = {}
    /\ readable \in {Dates, Dates \ Legacy}
    /\ \E indexed \in {{}, Legacy} :
        /\ index = [d \in Dates |-> IF d \in indexed THEN Exact(d) ELSE None]
        /\ unindexed = Legacy \ (indexed \cap readable)
    /\ gone = {}
    /\ pubLock = [d \in Dates |-> None]
    /\ rowLock = [d \in Dates |-> None]
    /\ pc = [x \in Processes |-> "idle"]
    /\ txn = [x \in Processes |-> NoTxn]
    /\ job = [x \in Editors |-> NoJob]
    /\ pass = [w \in Walkers |-> "single"]
    /\ todo = [w \in Walkers |-> {}]
    /\ live = [w \in Walkers |-> {}]
    /\ unreadable = [w \in Walkers |-> {}]
    /\ jobs = 0
    /\ faults = 0
    /\ stale = {}
    /\ raced = {}
    /\ touched = [w \in Walkers |-> {}]

----------------------------------------------------------------------------
(* upsert_coverage_entry and session.delete, statement by statement.       *)

\* select(CoverageEntry): the row as committed.
LoadEntry(x) ==
    /\ pc[x] \in {"seen", "found"}
    /\ txn' = [txn EXCEPT ![x].loaded = index[txn[x].date]]
    /\ Goto(x, IF pc[x] = "seen" THEN "loaded" ELSE "indexed")
    /\ gone' = gone \ {x}
    /\ UNCHANGED <<archive, readable, index, locks, job, walk, counters, history>>

\* The unit of work sends the columns that differ from what was loaded.
Merged(loaded, current, value) ==
    [f \in DOMAIN value |-> IF value[f] = loaded[f] THEN current[f] ELSE value[f]]

\* An INSERT meets a row, or an UPDATE none: IntegrityError, StaleDataError.
\* A DELETE of nothing only warns.
Conflicts(x) ==
    LET t == txn[x] IN
    /\ t.value # None
    /\ IF t.loaded = None THEN index[t.date] # None ELSE x \in gone

\* session.flush: waits for whoever has an uncommitted write of the row.
Flush(x) ==
    LET t == txn[x]
        d == txn[x].date
    IN
    /\ pc[x] \in {"loaded", "indexed"}
    /\ rowLock[d] = None
    /\ ~Conflicts(x)
    /\ rowLock' = [rowLock EXCEPT ![d] = x]
    /\ txn' = [txn EXCEPT ![x].write =
            IF t.value = None \/ t.loaded = None THEN t.value
            ELSE Merged(t.loaded, index[d], t.value)]
    /\ Goto(x, CASE pc[x] = "indexed" -> "completing"
                 [] x \in Editors /\ pc[x] = "loaded" -> "refreshed"
                 [] OTHER -> "flushed")
    /\ UNCHANGED <<archive, readable, index, gone, pubLock, job, walk, counters, history>>

\* The row as x commits it, and who has lost the row it loaded.
Written(x, d) ==
    IF rowLock[d] = x
    THEN /\ index' = [index EXCEPT ![d] = txn[x].write]
         /\ gone' = IF txn[x].write # None THEN gone \ {x}
                    ELSE (gone \cup {y \in Processes : txn[y].date = d /\ txn[y].loaded # None})
                         \ {x}
    ELSE index' = index /\ gone' = gone \ {x}

\* The transaction is rolled back and its locks are released.
RolledBack(x) ==
    /\ txn' = [txn EXCEPT ![x] = NoTxn]
    /\ gone' = gone \ {x}
    /\ stale' = stale \ {x}
    /\ Release(x)
    /\ Unlock(x)
    /\ UNCHANGED <<archive, readable, index, counters, raced, unindexed>>

\* The locals of a walk end with it.
Forget(x) ==
    LET Cleared(f) == [w \in Walkers |-> IF w = x THEN {} ELSE f[w]] IN
    /\ pass' = [w \in Walkers |-> IF w = x THEN "single" ELSE pass[w]]
    /\ todo' = Cleared(todo)
    /\ live' = Cleared(live)
    /\ unreadable' = Cleared(unreadable)
    /\ touched' = Cleared(touched)

\* An exception leaves the call: a rebuild ends, a pending publication is
\* completed by a later attempt, a reviewer sees an error.
Fails(x) ==
    /\ RolledBack(x)
    /\ Forget(x)
    /\ IF pc[x] = "indexed"
       THEN Goto(x, "promoted") /\ UNCHANGED job
       ELSE Goto(x, "idle") /\ job' = [e \in Editors |-> IF e = x THEN NoJob ELSE job[e]]

FlushFails(x) ==
    /\ pc[x] \in {"loaded", "indexed"}
    /\ rowLock[txn[x].date] = None
    /\ Conflicts(x)
    /\ Fails(x)

\* A publisher that refreshed its date holds the row and waits for the
\* publication lock; the holder of that lock waits for the row.
Deadlocked(e, y) ==
    /\ pc[e] = "refreshed"
    /\ job[e].publishes
    /\ e # y
    /\ rowLock[job[e].date] = e
    /\ pubLock[job[e].date] = y
    /\ pc[y] \in {"loaded", "indexed"}

\* PostgreSQL aborts one of the two.
BreakDeadlock(x) ==
    /\ \E y \in Processes :
        \/ x \in Editors /\ Deadlocked(x, y)
        \/ y \in Editors /\ Deadlocked(y, x)
    /\ Fails(x)

----------------------------------------------------------------------------
(* Editors: a reviewer's selection, or the selections of a publisher whose *)
(* transaction goes on to phase one of publish_day_profile.                *)

\* record_editorial_selection inserts a decision.  A standing rule whose
\* selection exists already records nothing and refreshes nothing.
BeginEdit(e) ==
    /\ pc[e] = "idle"
    /\ jobs < MaxJobs
    /\ jobs' = jobs + 1
    /\ \E d \in Dates, c \in Contents, publishes \in BOOLEAN :
        /\ publishes \/ <<d, c>> \notin approved
        /\ job' = [job EXCEPT ![e] = [date |-> d, root |-> c, publishes |-> publishes]]
        /\ txn' = [txn EXCEPT ![e].date = d]
        /\ \/ Goto(e, "decided")
           \/ publishes /\ Goto(e, "refreshed")
    /\ UNCHANGED <<archive, readable, index, gone, locks, walk, faults, history>>

\* refresh_coverage_metadata: False when the date serves nothing.
ReadServed(e) ==
    LET d == job[e].date
        v == Served(job[e].date)
    IN
    /\ pc[e] = "decided"
    /\ IF v = 0 THEN Goto(e, "refreshed") /\ UNCHANGED txn
       ELSE /\ Goto(e, "seen")
            /\ txn' = [txn EXCEPT ![e].value =
                    Derived(d, v, versions[d][v], approved \cup Own(e))]
    /\ UNCHANGED <<archive, readable, index, gone, locks, job, walk, counters, history>>

\* The decision and the refreshed entry are committed together.
CommitDecision(e) ==
    /\ pc[e] = "refreshed"
    /\ approved' = approved \cup Own(e)
    /\ Written(e, job[e].date)
    /\ Committed(e, job[e].date, rowLock[job[e].date] = e)
    /\ txn' = [txn EXCEPT ![e] = NoTxn]
    /\ Release(e)
    /\ UNCHANGED <<versions, readable, pubLock, walk, counters, unindexed>>

CommitReview(e) ==
    /\ ~job[e].publishes
    /\ CommitDecision(e)
    /\ Goto(e, "idle")
    /\ job' = [job EXCEPT ![e] = NoJob]
    /\ UNCHANGED pending

\* Phase one commits the pending manifest with the publisher's decisions.
CommitPending(e) ==
    LET d == job[e].date IN
    /\ job[e].publishes
    /\ pubLock[d] = None
    /\ pending[d] = None
    /\ CommitDecision(e)
    /\ pending' = [pending EXCEPT ![d] = job[e].root]
    /\ Goto(e, "promoted")
    /\ UNCHANGED job

\* PendingPublicationError.
RefusePending(e) ==
    LET d == job[e].date IN
    /\ pc[e] = "refreshed"
    /\ job[e].publishes
    /\ pubLock[d] = None
    /\ pending[d] # None
    /\ Fails(e)

\* Mutant: a publication is completed without the publication lock.
AtLockUnserialised(d) == d \in Dates

AtLock(d) == pubLock[d] = None

\* Phase three derives the entry of the version it is about to publish.
LockToComplete(e) ==
    LET d == job[e].date IN
    /\ pc[e] = "promoted"
    /\ AtLock(d)
    /\ pubLock' = [pubLock EXCEPT ![d] = e]
    /\ txn' = [txn EXCEPT ![e] =
            [NoTxn EXCEPT !.date = d,
                          !.value = Derived(d, Served(d) + 1, job[e].root, approved)]]
    /\ Goto(e, "found")
    /\ UNCHANGED <<archive, readable, index, gone, rowLock, job, walk, counters, history>>

CommitPublished(e) ==
    LET d == job[e].date IN
    /\ pc[e] = "completing"
    /\ versions' = [versions EXCEPT ![d] = Append(@, job[e].root)]
    /\ pending' = [pending EXCEPT ![d] = None]
    /\ readable' = readable \cup {d}
    /\ Written(e, d)
    /\ Committed(e, d, TRUE)
    /\ unindexed' = unindexed \ {d}
    /\ txn' = [txn EXCEPT ![e] = NoTxn]
    /\ job' = [job EXCEPT ![e] = NoJob]
    /\ Goto(e, "idle")
    /\ Release(e)
    /\ Unlock(e)
    /\ UNCHANGED <<approved, walk, counters>>

----------------------------------------------------------------------------
(* Walkers.                                                                *)

\* rebuild_coverage_index: the snapshot the first pass walks.
StartRebuild(w) ==
    /\ pc[w] = "idle"
    /\ pass' = [pass EXCEPT ![w] = "first"]
    /\ todo' = [todo EXCEPT ![w] = {d \in Dates : Served(d) # 0}]
    /\ Goto(w, "first")
    /\ UNCHANGED <<archive, readable, index, gone, locks, txn, job, live, unreadable,
                   counters, history>>

\* reconcile_date_coverage: the step a rebuild takes for a date it rechecks.
StartReconcile(w) ==
    /\ pc[w] = "idle"
    /\ \E d \in Dates : todo' = [todo EXCEPT ![w] = {d}]
    /\ Goto(w, "second")
    /\ UNCHANGED <<archive, readable, index, gone, locks, txn, job, pass, live,
                   unreadable, counters, history>>

\* Mutant: the walk does not take the date's publication lock.
NextDateUnlocked(w, d) ==
    /\ pc[w] \in {"first", "second"}
    /\ d \in todo[w]
    /\ \A other \in todo[w] : d <= other
    /\ todo' = [todo EXCEPT ![w] = @ \ {d}]

\* _date_transaction: dates are taken in calendar order.
NextDate(w, d) ==
    /\ pc[w] \in {"first", "second"}
    /\ d \in todo[w]
    /\ \A other \in todo[w] : d <= other
    /\ pubLock[d] = None
    /\ todo' = [todo EXCEPT ![w] = @ \ {d}]

\* Mutant: a pending correction makes its date unservable.
FoundUnlessPending(d) == IF Servable(d) /\ pending[d] = None THEN Exact(d) ELSE None

\* What is to become of the entry: None deletes it.
Found(d) == IF Servable(d) THEN Exact(d) ELSE None

\* The artifact is read under the date's lock.
TakeDate(w) ==
    \E d \in Dates :
        /\ NextDate(w, d)
        /\ pc[w] = "second" \/ Servable(d)
        /\ pubLock' = [pubLock EXCEPT ![d] = w]
        /\ txn' = [txn EXCEPT ![w] = [NoTxn EXCEPT !.date = d, !.value = Found(d)]]
        /\ Goto(w, "seen")
        /\ UNCHANGED <<archive, readable, index, gone, rowLock, job, pass, live,
                       unreadable, counters, history>>

\* The first pass reports a date it cannot serve, and leaves its entry alone.
SkipDate(w) ==
    \E d \in Dates :
        /\ NextDate(w, d)
        /\ pc[w] = "first"
        /\ ~Servable(d)
        /\ unreadable' = [unreadable EXCEPT ![w] =
                IF Served(d) # 0 THEN @ \cup {d} ELSE @]
        /\ UNCHANGED <<archive, readable, index, gone, locks, pc, txn, job, pass,
                       live, counters, history>>

Resume(w) == Goto(w, IF pass[w] = "first" THEN "first" ELSE "second")

\* Nothing to delete.
SettleAbsent(w) ==
    /\ w \in Walkers
    /\ pc[w] = "loaded"
    /\ txn[w].value = None
    /\ txn[w].loaded = None
    /\ txn' = [txn EXCEPT ![w] = NoTxn]
    /\ stale' = stale \ {w}
    /\ Resume(w)
    /\ Unlock(w)
    /\ UNCHANGED <<archive, readable, index, gone, rowLock, job, walk, counters,
                   raced, unindexed, touched>>

Reported(w, d, indexed) == IF indexed THEN unreadable[w] \ {d} ELSE unreadable[w]

CommitEntry(w) ==
    LET d == txn[w].date
        indexed == txn[w].write # None
    IN
    /\ pc[w] = "flushed"
    /\ Written(w, d)
    /\ live' = [live EXCEPT ![w] = IF indexed THEN @ \cup {d} ELSE @]
    /\ unreadable' = [unreadable EXCEPT ![w] = Reported(w, d, indexed)]
    /\ Committed(w, d, TRUE)
    /\ unindexed' = IF indexed THEN unindexed \ {d} ELSE unindexed
    /\ txn' = [txn EXCEPT ![w] = NoTxn]
    /\ Resume(w)
    /\ Release(w)
    /\ Unlock(w)
    /\ UNCHANGED <<archive, readable, job, pass, todo, counters>>

\* Mutant: only entries that did not survive the first pass are rechecked.
UnsettledIndexed(w) == {d \in Dates : index[d] # None} \ live[w]

\* _drop_stale_entries: every date the first pass did not settle.
Unsettled(w) == ({d \in Dates : index[d] # None} \ live[w]) \cup unreadable[w]

\* The dates a walk has seen nothing of at its second pass.
Unseen(w) == {d \in Dates : index[d] = None} \ unreadable[w]

ListStale(w) ==
    /\ pc[w] = "first"
    /\ todo[w] = {}
    /\ todo' = [todo EXCEPT ![w] = Unsettled(w)]
    /\ pass' = [pass EXCEPT ![w] = "second"]
    /\ Goto(w, "second")
    /\ touched' = [touched EXCEPT ![w] = @ \cap (live[w] \cup Unseen(w))]
    /\ UNCHANGED <<archive, readable, index, gone, locks, txn, job, live, unreadable,
                   counters, stale, raced, unindexed>>

Finish(w) ==
    /\ pc[w] = "second"
    /\ todo[w] = {}
    /\ Goto(w, "done")
    /\ UNCHANGED <<archive, readable, index, gone, locks, txn, job, walk, counters, history>>

Report(w) ==
    /\ pc[w] = "done"
    /\ Goto(w, "idle")
    /\ Forget(w)
    /\ UNCHANGED <<archive, readable, index, gone, locks, txn, job, counters,
                   stale, raced, unindexed>>

\* The disk: an artifact is damaged, unreadable for a while, or restored.
\* Inside a locked transaction it is read once, so a change after that read
\* is the same as one right after the transaction.
Disturb(d) ==
    /\ pubLock[d] = None
    /\ faults < MaxFaults
    /\ faults' = faults + 1
    /\ Served(d) # 0
    /\ readable' = IF d \in readable THEN readable \ {d} ELSE readable \cup {d}
    /\ unindexed' = unindexed \cup {d}
    /\ touched' = TouchedBy(None, d)
    /\ UNCHANGED <<archive, index, gone, locks, pc, txn, job, walk, jobs, stale, raced>>

EditorStep(e) ==
    \/ ReadServed(e) \/ CommitReview(e) \/ CommitPending(e) \/ RefusePending(e)
    \/ LockToComplete(e) \/ CommitPublished(e)
RebuildStep(w) ==
    \/ StartRebuild(w) \/ TakeDate(w) \/ SkipDate(w) \/ SettleAbsent(w)
    \/ CommitEntry(w) \/ ListStale(w) \/ Finish(w) \/ Report(w)
Statement(x) == LoadEntry(x) \/ Flush(x) \/ FlushFails(x) \/ BreakDeadlock(x)

Next ==
    \/ \E e \in Editors : BeginEdit(e) \/ EditorStep(e)
    \/ \E w \in Walkers : StartReconcile(w) \/ RebuildStep(w)
    \/ \E x \in Processes : Statement(x)
    \/ \E d \in Dates : Disturb(d)

Spec == Init /\ [][Next]_vars

----------------------------------------------------------------------------
(* Properties.                                                             *)

\* The entry of a date is the one the served version, its evidence and the
\* recorded decisions support, after any interleaving of publications,
\* rebuilds, reconciliations, failures and deadlocks: unless it was written
\* by, or from a reading overtaken by, a refresh without the lock.
IndexExact ==
    \A d \in Dates \ raced : index[d] # None => index[d] = Exact(d)

\* A served date is in the index, unless its artifact was damaged, its entry
\* was lost before, or a refresh raced.
ServedIsIndexed ==
    \A d \in Dates \ (raced \cup unindexed) : Served(d) # 0 => index[d] # None

\* No step drops the entry of a date the day endpoint can serve, however long
\* ago the rebuild decided to look at it ("a skipped date can be republished
\* healthy while the rebuild is still running").
NoServedDropped ==
    [][\A d \in Dates : index[d] # None /\ index'[d] = None => ~Servable(d)]_vars

\* A rebuild that finishes has put right every date nobody else changed since
\* its last look at it, also one that was unreadable at the first: exact
\* entries for what can be served, none for what cannot.
RebuildHeals ==
    \A w \in Walkers : pc[w] = "done" /\ pass[w] # "single" =>
        \A d \in Dates \ touched[w] : index[d] = Found(d)
====
