----------------------------- MODULE Ingestion -----------------------------
(***************************************************************************)
(* Source ingestion: how an operator's command turns a document into a     *)
(* release with candidate claims (usgs.py, wikidata.py, ucdp.py,           *)
(* un_wpp.py), and how reviewers then decide those claims                  *)
(* (governance.py).                                                        *)
(*                                                                         *)
(* The adapters do the same things in different orders, and the order      *)
(* is what matters: a step taken before the pipeline run is opened leaves  *)
(* no trace when it fails, one taken before the look-up of the checksum    *)
(* can refuse a document the archive already holds.  Each adapter is the   *)
(* record of which step it takes when.                                     *)
(*                                                                         *)
(* An attempt is one transaction: it opens its run, looks its checksum up, *)
(* and, when the document is new, writes the raw store and inserts the     *)
(* release inside a savepoint.  Its rows are seen by others only when the  *)
(* command commits, which it does for a failed attempt too, so that the    *)
(* failed run survives; the raw store is a file system and keeps what was  *)
(* written either way.  The unique keys of source_releases and sources     *)
(* make a second writer wait for the first and fail if the first commits.  *)
(*                                                                         *)
(* Documents, sources and claims are model values; what parsing accepts is *)
(* a property of the document (Malformed).  The succeeded fetch run a live *)
(* Wikidata ingest records before its own is left out.                     *)
(***************************************************************************)
EXTENDS Naturals, Sequences, FiniteSets

CONSTANTS
    Operators,   \* sessions of the ingest commands
    Reviewers,   \* requests of the review endpoint and sweeps
    Payloads,    \* documents, told apart by their checksum
    AdapterOf,   \* the adapter of every document
    LabelOf,     \* the release label of every document
    Malformed,   \* documents the adapter's validation refuses
    Placed,      \* documents whose day is derived from a timezone boundary
    Predicates,  \* claims a document yields
    MaxRuns,     \* bound on attempts
    MaxReviews,  \* bound on review requests
    MaxTrouble,  \* bound on faults and on changes of the surroundings
    None

\* "pinned" is the offline fixture of the Wikidata adapter.
Adapters == {"usgs", "wikidata", "pinned", "annual", "ged", "wpp"}
Sources == {"usgs", "wikidata", "ucdp", "wpp"}

ASSUME IngestionAssumption ==
    /\ AdapterOf \in [Payloads -> Adapters]
    /\ LabelOf \in [Payloads -> Payloads]
    /\ Malformed \subseteq Payloads
    /\ Placed \subseteq Payloads
    /\ Predicates # {}
    /\ {MaxRuns, MaxReviews, MaxTrouble} \subseteq Nat
    /\ None \notin Payloads \cup Operators \cup {"succeeded", "failed"}

VARIABLES
    runs,       \* pipeline_runs with their quality checks, in the order committed
    releases,   \* source_releases with their claims, in the order committed
    sources,    \* sources rows committed
    stored,     \* the raw store's file of every document
    boundary,   \* whether the boundary table covers the documents' places
    terms,      \* version of the licence terms the adapters register
    pc, job,    \* operators: control and transaction
    desk,       \* reviewers: the claim loaded and its status then
    used        \* bounded counters

vars == <<runs, releases, sources, stored, boundary, terms, pc, job, desk, used>>

Statuses == {"candidate", "in_review", "accepted", "rejected"}
Decisions == {"accepted", "rejected", "deferred"}
Claim == [status : Statuses, task : {"open", "resolved", "dismissed"},
          log : Seq(Decisions)]
Run == [payload : Payloads, dry : BOOLEAN,
        status : {"succeeded", "failed"}, checks : SUBSET {"passed", "failed"},
        known : BOOLEAN,      \* history: a release of the document existed when the run began
        excused : BOOLEAN]    \* history: the attempt met a fault or a changed surrounding
Release == [payload : Payloads, run : Nat, terms : Nat, claims : [Predicates -> Claim]]
Job == [payload : Payloads \cup {None}, dry : BOOLEAN, faults : SUBSET {"fetch", "disk", "insert"},
        sees : BOOLEAN,       \* the source row was found
        result : {None, "succeeded", "failed"},
        staged : BOOLEAN,     \* the release and its rows are inserted, not committed
        check : SUBSET {"passed", "failed"},
        known : BOOLEAN, excused : BOOLEAN]
NoJob == [payload |-> None, dry |-> FALSE, faults |-> {}, sees |-> FALSE,
          result |-> None, staged |-> FALSE, check |-> {}, known |-> FALSE, excused |-> FALSE]
Seat == [release : Nat, predicate : Predicates, status : Statuses] \cup {None}

TypeOK ==
    /\ runs \in Seq(Run)
    /\ releases \in Seq(Release)
    /\ sources \subseteq Sources
    /\ stored \in [Payloads -> {"absent", "intact", "damaged"}]
    /\ boundary \in BOOLEAN
    /\ terms \in 0 .. MaxTrouble
    /\ pc \in [Operators -> {"idle", "looking", "inserting", "closing"}]
    /\ job \in [Operators -> Job]
    /\ desk \in [Reviewers -> Seat]
    /\ used \in [runs : 0 .. MaxRuns, reviews : 0 .. MaxReviews, trouble : 0 .. MaxTrouble]

----------------------------------------------------------------------------
(* The adapters: what is done before the run row exists, after it but      *)
(* before the checksum is looked up, when the document is known, and when  *)
(* it is new; and the steps of a dry run, {} where there is none.          *)

Usgs == [unrecorded |-> {"fetch"}, before |-> {"parse", "place"}, known |-> {"licence"},
         new |-> {"store"}, dry |-> {"parse", "place"}]

\* Mutant of Wikidata: the occurrence is derived before the look-up.
WikidataPlacedFirst ==
    [unrecorded |-> {}, before |-> {"fetch", "parse", "place"}, known |-> {"licence"},
     new |-> {"store"}, dry |-> {"fetch", "parse", "place"}]

\* A retry must not depend on the boundary table: the place comes last.
Wikidata == [unrecorded |-> {}, before |-> {"fetch", "parse"}, known |-> {"licence"},
             new |-> {"place", "store"}, dry |-> {"fetch", "parse", "place"}]

\* The pinned entity is read from its file before any run row exists.
Pinned == [Wikidata EXCEPT !.unrecorded = {"fetch"}, !.before = {"parse"},
                           !.dry = {"parse", "place"}]

Annual == [unrecorded |-> {"fetch"}, before |-> {"parse"}, known |-> {"licence"},
           new |-> {"store"}, dry |-> {}]

Ged == [unrecorded |-> {"fetch"}, before |-> {"parse"}, known |-> {"licence"},
        new |-> {"store"}, dry |-> {}]

\* The one adapter that reads the stored document again on a retry.
Wpp == [unrecorded |-> {}, before |-> {"fetch", "parse"}, known |-> {"stored", "licence"},
        new |-> {"store"}, dry |-> {"fetch", "parse"}]

Adapter(p) == [usgs |-> Usgs, wikidata |-> Wikidata, pinned |-> Pinned, annual |-> Annual,
               ged |-> Ged, wpp |-> Wpp][AdapterOf[p]]

\* Both UCDP adapters keep their releases under one source row, and so do
\* the two ways into the Wikidata one.
SourceOf(p) == CASE AdapterOf[p] \in {"annual", "ged"} -> "ucdp"
                 [] AdapterOf[p] \in {"wikidata", "pinned"} -> "wikidata"
                 [] OTHER -> AdapterOf[p]

ReleasesOf(p) == {r \in DOMAIN releases : releases[r].payload = p}

\* The raw store verifies a file it would otherwise write, and every file
\* it reads.
Writable(p, faults) == "disk" \notin faults /\ stored[p] # "damaged"
Readable(p) == stored[p] = "intact"

\* A licence snapshot is immutable: other terms for a known release are refused.
Licensed(p) == \A r \in ReleasesOf(p) : releases[r].terms = terms

Fetched(faults) == "fetch" \notin faults
Valid(p) == p \notin Malformed

\* The day of a local occurrence is the one of the boundary around its place.
Located(p) == p \in Placed => boundary

Goes(step, p, faults) ==
    CASE step = "fetch" -> Fetched(faults)
      [] step = "parse" -> Valid(p)
      [] step = "place" -> Located(p)
      [] step = "licence" -> Licensed(p)
      [] step = "stored" -> Readable(p)
      [] step = "store" -> Writable(p, faults)

AllGo(steps, p, faults) == \A step \in steps : Goes(step, p, faults)

----------------------------------------------------------------------------
(* Unique keys: the rows other transactions have inserted, not committed.  *)

SameKey(p, q) == SourceOf(p) = SourceOf(q) /\ (p = q \/ LabelOf[p] = LabelOf[q])

\* Another transaction holds the key of p's release.
KeyHeld(o, p) == \E u \in Operators \ {o} : job[u].staged /\ SameKey(p, job[u].payload)

\* A committed release has the key of p's.
KeyTaken(p) == \E r \in DOMAIN releases : SameKey(p, releases[r].payload)

\* Another transaction has inserted the source row of p.
SourceHeld(o, p) ==
    \E u \in Operators \ {o} :
        /\ pc[u] \in {"inserting", "closing"} /\ ~job[u].sees /\ job[u].result # "failed"
        /\ ~job[u].dry /\ SourceOf(job[u].payload) = SourceOf(p)

----------------------------------------------------------------------------
Init ==
    /\ runs = <<>>
    /\ releases = <<>>
    /\ sources = {}
    /\ stored = [p \in Payloads |-> "absent"]
    /\ boundary = TRUE
    /\ terms = 0
    /\ pc = [o \in Operators |-> "idle"]
    /\ job = [o \in Operators |-> NoJob]
    /\ desk = [v \in Reviewers |-> None]
    /\ used = [runs |-> 0, reviews |-> 0, trouble |-> 0]

\* The run ends: its outcome and its quality check.
Ended(j, result, check) == [j EXCEPT !.result = result, !.check = check, !.staged = FALSE]
FailedRun(j) == Ended(j, "failed", {"failed"})

\* The transaction of an attempt whose run row exists.
Opened(p, dry, faults) ==
    [payload |-> p, dry |-> dry, faults |-> faults, sees |-> SourceOf(p) \in sources,
     result |-> None, staged |-> FALSE, check |-> {}, known |-> ReleasesOf(p) # {},
     excused |-> faults # {} \/ (~boundary /\ Adapter(p) = Usgs)]

\* An attempt begins.  A failure before the run row exists leaves nothing;
\* a dry run ends here.
Begin(o) ==
    /\ pc[o] = "idle"
    /\ used.runs < MaxRuns
    /\ \E p \in Payloads, dry \in BOOLEAN, faults \in SUBSET {"fetch", "disk", "insert"} :
         LET a == Adapter(p)
             j == Opened(p, dry, faults)
         IN /\ dry => a.dry # {}
            /\ used.trouble + Cardinality(faults) <= MaxTrouble
            /\ used' = [used EXCEPT !.runs = @ + 1, !.trouble = @ + Cardinality(faults)]
            /\ IF ~AllGo(a.unrecorded, p, faults)
               THEN UNCHANGED <<pc, job>>
               ELSE IF dry
               THEN /\ pc' = [pc EXCEPT ![o] = "closing"]
                    /\ job' = [job EXCEPT ![o] = IF AllGo(a.dry, p, faults)
                                                 THEN Ended(j, "succeeded", {"passed"})
                                                 ELSE FailedRun(j)]
               ELSE IF AllGo(a.before, p, faults)
               THEN /\ pc' = [pc EXCEPT ![o] = "looking"]
                    /\ job' = [job EXCEPT ![o] = j]
               ELSE /\ pc' = [pc EXCEPT ![o] = "closing"]
                    /\ job' = [job EXCEPT ![o] = FailedRun(j)]
    /\ UNCHANGED <<runs, releases, sources, stored, boundary, terms, desk>>

\* The source row is inserted if it was not found, then the checksum is
\* looked up.  A known document ends the run, without a new check.
Look(o) ==
    LET j == job[o]
        p == j.payload
    IN
    /\ pc[o] = "looking"
    /\ j.sees \/ ~SourceHeld(o, p)
    /\ IF ~j.sees /\ SourceOf(p) \in sources
       THEN /\ job' = [job EXCEPT ![o] = [FailedRun(j) EXCEPT !.excused = TRUE]]
            /\ pc' = [pc EXCEPT ![o] = "closing"]
       ELSE IF ReleasesOf(p) = {}
       THEN /\ pc' = [pc EXCEPT ![o] = "inserting"]
            /\ UNCHANGED job
       ELSE /\ pc' = [pc EXCEPT ![o] = "closing"]
            /\ job' = [job EXCEPT ![o] =
                 [(IF AllGo(Adapter(p).known, p, j.faults) THEN Ended(j, "succeeded", {})
                                                           ELSE FailedRun(j))
                  EXCEPT !.excused = @ \/ ~(Licensed(p) /\ Readable(p))]]
    /\ UNCHANGED <<runs, releases, sources, stored, boundary, terms, desk, used>>

\* Mutant of Undone: the failed attempt's rows stay behind.
UndoneRunOnly(j) == [j EXCEPT !.result = "failed", !.check = {"failed"}, !.staged = TRUE]

\* A failure inside the savepoint undoes every row staged in it.
Undone(j) == FailedRun(j)

\* A new document: its day is derived where it has to be, its bytes are
\* written, then the release, its licence, its records, claims and tasks
\* and the passed check are inserted.
Insert(o) ==
    LET j == job[o]
        p == j.payload
    IN
    /\ pc[o] = "inserting"
    /\ ~KeyHeld(o, p)
    /\ pc' = [pc EXCEPT ![o] = "closing"]
    /\ stored' = IF AllGo(Adapter(p).new, p, j.faults)
                 THEN [stored EXCEPT ![p] = "intact"] ELSE stored
    /\ job' = [job EXCEPT ![o] =
         IF ~AllGo(Adapter(p).new, p, j.faults)
         THEN FailedRun(j)
         ELSE IF KeyTaken(p) \/ "insert" \in j.faults
         THEN Undone(j)
         ELSE [j EXCEPT !.result = "succeeded", !.check = {"passed"}, !.staged = TRUE]]
    /\ UNCHANGED <<runs, releases, sources, boundary, terms, desk, used>>

\* What the transaction leaves, in runs and in releases.
Recorded(j) ==
    Append(runs, [payload |-> j.payload, dry |-> j.dry, status |-> j.result,
                  checks |-> j.check, known |-> j.known, excused |-> j.excused])

Candidate == [status |-> "candidate", task |-> "open", log |-> <<>>]

\* Every claim a document yields is inserted as a candidate with an open task.
Imported(j) ==
    IF j.staged
    THEN Append(releases, [payload |-> j.payload, run |-> Len(runs) + 1, terms |-> terms,
                           claims |-> [q \in Predicates |-> Candidate]])
    ELSE releases

\* The command commits, for a failed attempt as well.
Commit(o) ==
    LET j == job[o] IN
    /\ pc[o] = "closing"
    /\ runs' = Recorded(j)
    /\ releases' = Imported(j)
    /\ sources' = IF j.result = "succeeded" /\ ~j.dry
                  THEN sources \cup {SourceOf(j.payload)} ELSE sources
    /\ pc' = [pc EXCEPT ![o] = "idle"]
    /\ job' = [job EXCEPT ![o] = NoJob]
    /\ UNCHANGED <<stored, boundary, terms, desk, used>>

\* The process dies: the transaction is rolled back, the files stay.
Crash(o) ==
    /\ pc[o] # "idle"
    /\ used.trouble < MaxTrouble
    /\ used' = [used EXCEPT !.trouble = @ + 1]
    /\ pc' = [pc EXCEPT ![o] = "idle"]
    /\ job' = [job EXCEPT ![o] = NoJob]
    /\ UNCHANGED <<runs, releases, sources, stored, boundary, terms, desk>>

----------------------------------------------------------------------------
(* The surroundings change: a stored file is damaged, the boundary table   *)
(* is reseeded, a deployment brings other licence terms.                   *)

Damage(p) ==
    /\ stored[p] = "intact"
    /\ stored' = [stored EXCEPT ![p] = "damaged"]
    /\ UNCHANGED <<boundary, terms>>

Reseed ==
    /\ boundary' = ~boundary
    /\ UNCHANGED <<stored, terms>>

Retermed ==
    /\ terms < MaxTrouble
    /\ \A o \in Operators : pc[o] = "idle"
    /\ terms' = terms + 1
    /\ UNCHANGED <<stored, boundary>>

Surroundings ==
    /\ used.trouble < MaxTrouble
    /\ used' = [used EXCEPT !.trouble = @ + 1]
    /\ (\E p \in Payloads : Damage(p)) \/ Reseed \/ Retermed
    /\ UNCHANGED <<runs, releases, sources, pc, job, desk>>

----------------------------------------------------------------------------
(* Review.                                                                 *)

\* A reviewer's request loads the claim.
Load(v) ==
    /\ desk[v] = None
    /\ used.reviews < MaxReviews
    /\ \E r \in DOMAIN releases, q \in Predicates :
         desk' = [desk EXCEPT ![v] = [release |-> r, predicate |-> q,
                                      status |-> releases[r].claims[q].status]]
    /\ used' = [used EXCEPT !.reviews = @ + 1]
    /\ UNCHANGED <<runs, releases, sources, stored, boundary, terms, pc, job>>

\* Mutant of CurrentStatus: the status the reviewer's request loaded.
CurrentStatusLoaded(v) == desk[v].status

\* The status a decision is taken on: read again under the claim's lock.
CurrentStatus(v) == releases[desk[v].release].claims[desk[v].predicate].status

\* Mutant of Resulting: a deferral becomes the claim's status.
ResultingDeferred(decision) == decision

Resulting(decision) ==
    [accepted |-> "accepted", rejected |-> "rejected", deferred |-> "in_review"][decision]

Decided(claim, decision) ==
    [status |-> Resulting(decision),
     task |-> IF decision = "deferred" \/ claim.task # "open" THEN claim.task
              ELSE IF decision = "rejected" THEN "dismissed" ELSE "resolved",
     log |-> Append(claim.log, decision)]

\* The claim's row, its task and its review are written together.
Reviewed(release, q, decision) == [release EXCEPT !.claims[q] = Decided(@, decision)]

\* The lock is held to the commit, so a decision is one step.
Decide(v) ==
    LET seat == desk[v] IN
    /\ seat # None
    /\ \E decision \in Decisions :
         releases' = IF CurrentStatus(v) \in {"candidate", "in_review"}
                     THEN [releases EXCEPT ![seat.release] = Reviewed(@, seat.predicate, decision)]
                     ELSE releases
    /\ desk' = [desk EXCEPT ![v] = None]
    /\ UNCHANGED <<runs, sources, stored, boundary, terms, pc, job, used>>

Next ==
    \/ \E o \in Operators : Begin(o) \/ Look(o) \/ Insert(o) \/ Commit(o) \/ Crash(o)
    \/ \E v \in Reviewers : Load(v) \/ Decide(v)
    \/ Surroundings

Spec == Init /\ [][Next]_vars

----------------------------------------------------------------------------
(* Properties.                                                             *)

\* A release the archive holds is whole and was imported once: its run
\* succeeded with nothing but the passed check, whatever later attempts on
\* the same document met; its bytes are in the raw store (possibly damaged
\* since); and no other release has its checksum.  Half an ingestion would
\* put unverified records behind published statements.
ReleaseIsWhole ==
    \A r \in DOMAIN releases :
        /\ ReleasesOf(releases[r].payload) = {r}
        /\ releases[r].payload \notin Malformed
        /\ runs[releases[r].run].payload = releases[r].payload
        /\ runs[releases[r].run].status = "succeeded"
        /\ runs[releases[r].run].checks = {"passed"}
        /\ stored[releases[r].payload] # "absent"

\* Ingesting a document the archive already holds succeeds and changes
\* nothing, even after the boundary table was reseeded, unless the attempt
\* met a fault, a damaged copy, other terms or a race for the source row.
\* (USGS is excused while the table does not cover its place: it derives
\* the day before it looks the checksum up.)
RetryIsAccepted ==
    \A n \in DOMAIN runs :
        runs[n].known /\ ~runs[n].dry /\ ~runs[n].excused =>
            runs[n].status = "succeeded" /\ runs[n].checks = {}

Terminal(log) == {n \in DOMAIN log : log[n] # "deferred"}

\* However reviewers race for a claim, it gets at most one terminal
\* decision, nothing after it, and its status and its task say what was
\* decided last (record_claim_review re-reads the claim under its lock).
OneTerminalDecision ==
    \A r \in DOMAIN releases : \A q \in Predicates :
        LET claim == releases[r].claims[q]
            last == Len(claim.log)
        IN /\ Terminal(claim.log) \subseteq {last}
           /\ claim.status = IF last = 0 THEN "candidate" ELSE Resulting(claim.log[last])
           /\ claim.task = IF Terminal(claim.log) = {} THEN "open"
                           ELSE IF claim.log[last] = "rejected" THEN "dismissed" ELSE "resolved"

=============================================================================
