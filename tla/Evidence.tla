------------------------------ MODULE Evidence ------------------------------
(***************************************************************************)
(* From claims to a context page: the review sweeps that accept and        *)
(* resolve a release's claims and derive a year's values from them         *)
(* (ucdp.py, un_wpp.py, services.py), the comparison of a year's conflict  *)
(* count with the others (conflict_comparison.py), the reviewers who       *)
(* reject claims or decline content for a date (governance.py), and the    *)
(* publisher that puts a year's reviewed context on a date (un_wpp.py).    *)
(*                                                                         *)
(* Two sources are modelled: "wpp", the demographic context every page     *)
(* needs, and "ucdp", the conflict context a page may do without.  The     *)
(* claims one release makes about one year form a block, reviewed and      *)
(* resolved together; the resolutions of a block's canonical keys form one *)
(* chain of versions per source and year.  A derived value is told apart   *)
(* by the version it rests on and the release its number comes from, which *)
(* need not be the version's.  Every year has one date.                    *)
(*                                                                         *)
(* A sweep commits per year for "ucdp" and once for "wpp"; it reads the    *)
(* claims and the latest resolution first and writes later, so another     *)
(* sweep or a reviewer can come in between.  A publisher assembles its     *)
(* page from what it reads and commits it in a last step, the gate         *)
(* included, which the code reads just before.  created_at is the start of *)
(* the transaction, at which a command also picks its release.  Licences,  *)
(* runs and quality checks are Ingestion's and hold for every release      *)
(* here; the dates have no recorded event (Batch models richer profiles).  *)
(***************************************************************************)
EXTENDS Integers, Sequences, FiniteSets

CONSTANTS
    Releases,      \* releases of both sources
    SourceOf,      \* "wpp" or "ucdp", of every release
    Records,       \* number of records of every release about every year, 0: not covered
    Years,
    Golden,        \* the year whose date is the one both reviews select content for
    January,       \* the years whose date is January 1: the conflict review selects there
    MinReference,  \* MINIMUM_REFERENCE_YEARS
    Sweepers,      \* sessions of the review commands
    Publishers,    \* publisher sessions
    MaxVersion,    \* bound on resolution versions, comparisons and decisions
    MaxSweeps,     \* bound on review commands
    MaxAttempts,   \* bound on publication attempts
    MaxTrouble,    \* bound on rejected blocks, declined roots and crashes, together
    None

ASSUME EvidenceAssumption ==
    /\ SourceOf \in [Releases -> {"wpp", "ucdp"}]
    /\ Records \in [Releases -> [Years -> Nat]]
    /\ Years \subseteq Nat /\ IsFiniteSet(Years)
    /\ Golden \in Years /\ January \subseteq Years
    /\ {MinReference, MaxVersion, MaxSweeps, MaxAttempts, MaxTrouble} \subseteq Nat
    /\ None \notin Releases

VARIABLES
    ingested,    \* the releases of every source, newest last
    block,       \* assertion status of every release's claims about every year
    resolved,    \* resolved_claims of every source and year, by version
    rejected,    \* history: the blocks a reviewer ever rejected
    derived,     \* derived values of every source and year
    comparisons, \* percentile comparisons of every year, newest last
    selections,  \* editorial_selections of every root, by decision_version
    pages,       \* published context pages of every date
    pc, job,     \* sessions: control and what they read
    used         \* bounded counters

vars == <<ingested, block, rejected, resolved, derived, comparisons, selections, pages, pc, job, used>>

Sources == {"wpp", "ucdp"}
Versions == 1 .. MaxVersion

\* Evidence roots of the date of year y: what rests on a version by that
\* version, comparisons by their number.
Roots == (Sources \cup {"comparison"}) \X Years \X Versions

\* A derived value: the version it rests on, the release of its number, and
\* created_at, told by how many releases had arrived.
Value == [on : Versions, from : Releases, at : Nat]

Resolution == [release : Releases, supersedes : 0 .. MaxVersion]
Decision == [status : {"selected", "rejected"}, by : {"review", "standing_rule", "human"}]
Page == [wpp : Versions, daily : Releases,             \* release of the daily number
         count : 0 .. MaxVersion, tally : Releases \cup {None},  \* release of the count
         comparison : 0 .. MaxVersion,
         newest : Releases \cup {None}]   \* history: the conflict release it was built on

Sessions == Sweepers \cup Publishers
Steps == {"idle", "loading", "saving", "comparing", "ruling", "publishing"}
NoSweep == [release |-> None, began |-> 0, todo |-> {}, partial |-> FALSE, batch |-> {},
            status |-> [y \in Years |-> "absent"], latest |-> [y \in Years |-> 0]]
NoDraft == [year |-> 0, page |-> None, fresh |-> {}]

ASSUME SessionAssumption == Sweepers \cap Publishers = {}

TypeOK ==
    /\ ingested \in [Sources -> Seq(Releases)]
    /\ block \in [Releases -> [Years -> {"absent", "candidate", "accepted", "rejected"}]]
    /\ resolved \in [Sources -> [Years -> Seq(Resolution)]]
    /\ rejected \subseteq Releases \X Years
    /\ derived \in [Sources -> [Years -> Seq(Value)]]
    /\ \A y \in Years : \A n \in DOMAIN comparisons[y] :
         LET c == comparisons[y][n] IN
         /\ c.release \in Releases
         /\ DOMAIN c.cohort \subseteq Years /\ c.cohort \in [DOMAIN c.cohort -> Nat]
         /\ c.rank \in 0 .. 100 /\ c.median \in Nat
    /\ selections \in [Roots -> Seq(Decision)]
    /\ pages \in [Years -> Seq(Page)]
    /\ pc \in [Sessions -> Steps]
    /\ used \in [sweeps : 0 .. MaxSweeps, attempts : 0 .. MaxAttempts,
                 trouble : 0 .. MaxTrouble]

----------------------------------------------------------------------------
(* What is read from the tables.                                           *)

Latest(s) == s[Len(s)]

\* The newest release of a source, whatever it covers.
NewestRelease(source) ==
    IF ingested[source] = <<>> THEN None ELSE Latest(ingested[source])

Covered(r) == {y \in Years : Records[r][y] > 0}

Biggest(S) == CHOOSE v \in S : \A u \in S : u <= v
Smallest(S) == CHOOSE v \in S : \A u \in S : v <= u

\* The resolutions a release's claims about a year support.
SupportedBy(r, y) ==
    {v \in DOMAIN resolved[SourceOf[r]][y] : resolved[SourceOf[r]][y][v].release = r}

\* The versions something is derived from.
DerivedOn(source, y) == {derived[source][y][n].on : n \in DOMAIN derived[source][y]}

\* The year's content from a release, ready to publish: accepted, resolved,
\* and derived from the newest resolution its claims support.
Ready(r, y) ==
    /\ block[r][y] = "accepted"
    /\ SupportedBy(r, y) # {}
    /\ Biggest(SupportedBy(r, y)) \in DerivedOn(SourceOf[r], y)

Built(r, y) == Biggest(SupportedBy(r, y))

\* Mutant of Number: that of the value stored last.
NumberStoredLast(source, y, v) ==
    LET values == derived[source][y]
        rows == {n \in DOMAIN values : values[n].on = v}
    IN values[CHOOSE n \in rows : \A m \in rows : m <= n].from

\* The release whose number a page states for a version: that of the value
\* created last, of those that rest on it.
Number(source, y, v) ==
    LET values == derived[source][y]
        rows == {n \in DOMAIN values : values[n].on = v}
    IN values[CHOOSE n \in rows : \A m \in rows : values[m].at <= values[n].at].from

\* The newest decision on a root is not a selection.
Declined(root) == selections[root] # <<>> /\ Latest(selections[root]).status # "selected"

----------------------------------------------------------------------------
(* The comparison.                                                         *)

StrictlyLower(value, cohort) == {y \in DOMAIN cohort : cohort[y] < value}

Rank(value, cohort) ==
    (Cardinality(StrictlyLower(value, cohort)) * 100) \div Cardinality(DOMAIN cohort)

\* The lower of the two central values of an even cohort.
Median(cohort) ==
    LET half == (Cardinality(DOMAIN cohort) - 1) \div 2
        below(v) == Cardinality({y \in DOMAIN cohort : cohort[y] < v})
        upto(v) == Cardinality({y \in DOMAIN cohort : cohort[y] <= v})
    IN CHOOSE v \in {cohort[y] : y \in DOMAIN cohort} : below(v) <= half /\ half < upto(v)

\* Years with a count that rests on the release's claims.
CountedYears(r) == {y \in Years : SupportedBy(r, y) \cap DerivedOn("ucdp", y) # {}}
Cohort(r) == [y \in CountedYears(r) |-> Records[r][y]]

Compared(r, y) == [release |-> r, cohort |-> Cohort(r), rank |-> Rank(Records[r][y], Cohort(r)),
                   median |-> Median(Cohort(r))]

\* The newest comparison is reused when its cohort is the same.
AlreadyCompared(r, y) ==
    comparisons[y] # <<>> /\ Latest(comparisons[y]).cohort = Cohort(r)

----------------------------------------------------------------------------
Init ==
    /\ ingested = [source \in Sources |-> <<>>]
    /\ block = [r \in Releases |-> [y \in Years |-> "absent"]]
    /\ resolved = [source \in Sources |-> [y \in Years |-> <<>>]]
    /\ rejected = {}
    /\ derived = [source \in Sources |-> [y \in Years |-> <<>>]]
    /\ comparisons = [y \in Years |-> <<>>]
    /\ selections = [root \in Roots |-> <<>>]
    /\ pages = [y \in Years |-> <<>>]
    /\ pc = [s \in Sessions |-> "idle"]
    /\ job = [s \in Sessions |-> IF s \in Sweepers THEN NoSweep ELSE NoDraft]
    /\ used = [sweeps |-> 0, attempts |-> 0, trouble |-> 0]

Counted(counter) == [used EXCEPT ![counter] = @ + 1]
To(s, step) == pc' = [pc EXCEPT ![s] = step]

\* A release is ingested: its claims are candidates.
Ingest(r) ==
    /\ \A n \in DOMAIN ingested[SourceOf[r]] : ingested[SourceOf[r]][n] # r
    /\ ingested' = [ingested EXCEPT ![SourceOf[r]] = Append(@, r)]
    /\ block' = [block EXCEPT ![r] = [y \in Years |->
                     IF y \in Covered(r) THEN "candidate" ELSE "absent"]]
    /\ UNCHANGED <<rejected, resolved, derived, comparisons, selections, pages, pc, job, used>>

----------------------------------------------------------------------------
(* Review.                                                                 *)

\* A review command: the newest release of a source, every year it covers,
\* or the golden year alone.
StartSweep(s) ==
    /\ pc[s] = "idle"
    /\ used.sweeps < MaxSweeps
    /\ \E source \in Sources, alone \in BOOLEAN :
         /\ NewestRelease(source) # None
         /\ alone => source = "ucdp" /\ Golden \in Covered(NewestRelease(source))
         /\ job' = [job EXCEPT ![s] = [NoSweep EXCEPT !.release = NewestRelease(source),
                 !.began = Len(ingested[source]),
                 !.todo = IF alone THEN {Golden} ELSE Covered(NewestRelease(source)),
                 !.partial = alone]]
    /\ To(s, "loading")
    /\ used' = Counted("sweeps")
    /\ UNCHANGED <<ingested, block, rejected, resolved, derived, comparisons, selections, pages>>

\* A year is a transaction of a conflict sweep; a demographic review is one.
NextBatch(j) == IF SourceOf[j.release] = "wpp" THEN j.todo ELSE {Smallest(j.todo)}

\* What is read of the years: where their claims stand, their last resolution.
Loaded(j, years) ==
    [j EXCEPT
       !.batch = years,
       !.status = [y \in Years |-> IF y \in years THEN block[j.release][y] ELSE "absent"],
       !.latest = [y \in Years |->
                      IF y \in years THEN Len(resolved[SourceOf[j.release]][y]) ELSE 0]]

\* The claims of the next years and their latest resolutions are read; a
\* rejected block fails the years at once.
LoadYears(s) ==
    LET j == job[s]
        years == NextBatch(j)
    IN
    /\ pc[s] = "loading"
    /\ j.todo # {}
    /\ IF \E y \in years : block[j.release][y] = "rejected"
       THEN /\ job' = [job EXCEPT ![s].todo = @ \ years, ![s].partial = TRUE]
            /\ UNCHANGED pc
       ELSE /\ job' = [job EXCEPT ![s] = Loaded(j, years)]
            /\ To(s, "saving")
    /\ UNCHANGED <<ingested, block, rejected, resolved, derived, comparisons, selections, pages, used>>

\* A block read as a candidate is accepted only if it still is one under the
\* claims' locks; one read as accepted stays accepted.
Reviewable(j, y) ==
    /\ j.status[y] \in {"candidate", "accepted"}
    /\ j.status[y] = "candidate" => block[j.release][y] = "candidate"

Chain(j, y) == resolved[SourceOf[j.release]][y]

\* Mutant of Supports: every review makes a resolution of its own.
SupportsNever(j, y) == FALSE

\* The resolution read last rests on this release's claims already.
Supports(j, y) == j.latest[y] > 0 /\ Chain(j, y)[j.latest[y]].release = j.release

\* A resolution supersedes the one read as the latest, and takes the next
\* version, which nobody else may have taken.
Resolvable(j, y) == Supports(j, y) \/ Len(Chain(j, y)) = j.latest[y]

Resolving(j, y) ==
    IF Supports(j, y) THEN Chain(j, y)
    ELSE Append(Chain(j, y), [release |-> j.release, supersedes |-> j.latest[y]])

\* The version the sweep resolved the year to.
Own(j, y) == IF Supports(j, y) THEN j.latest[y] ELSE j.latest[y] + 1

\* The version the year's value rests on: a conflict count on what the sweep
\* resolved, a daily equivalent on the newest version, which is read again.
Rests(j, y) == IF SourceOf[j.release] = "wpp" THEN Len(Resolving(j, y)) ELSE Own(j, y)

\* An equal value of the same version is not derived again.
Deriving(j, y) ==
    LET values == derived[SourceOf[j.release]][y] IN
    IF \E n \in DOMAIN values : values[n].on = Rests(j, y) /\ values[n].from = j.release
    THEN values
    ELSE Append(values, [on |-> Rests(j, y), from |-> j.release, at |-> j.began])

\* A review selects what it resolved and derived for the golden date, the
\* conflict review also for January 1; an identical newest decision is kept.
Recorded(root, decision) ==
    IF selections[root] # <<>> /\ Latest(selections[root]) = decision THEN selections[root]
    ELSE Append(selections[root], decision)

SelectedYears(source) == IF source = "ucdp" THEN {Golden} \cup January ELSE {Golden}

ReviewSelects(j) ==
    [root \in Roots |->
        IF /\ root[1] = SourceOf[j.release]
           /\ root[2] \in j.batch \cap SelectedYears(root[1])
           /\ root[3] \in {Own(j, root[2]), Rests(j, root[2])}
        THEN Recorded(root, [status |-> "selected", by |-> "review"]) ELSE selections[root]]

\* The years are accepted, resolved, derived and committed, or fail and are
\* rolled back.
SaveYears(s) ==
    LET j == job[s]
        source == SourceOf[j.release]
        good == \A y \in j.batch : Reviewable(j, y) /\ Resolvable(j, y)
    IN
    /\ pc[s] = "saving"
    /\ good => \A y \in j.batch : Rests(j, y) \in Versions
    /\ IF good
       THEN /\ block' = [block EXCEPT ![j.release] = [y \in Years |->
                             IF y \in j.batch THEN "accepted" ELSE @[y]]]
            /\ resolved' = [resolved EXCEPT ![source] = [y \in Years |->
                             IF y \in j.batch THEN Resolving(j, y) ELSE @[y]]]
            /\ derived' = [derived EXCEPT ![source] = [y \in Years |->
                             IF y \in j.batch THEN Deriving(j, y) ELSE @[y]]]
            /\ selections' = ReviewSelects(j)
       ELSE UNCHANGED <<block, resolved, derived, selections>>
    /\ job' = [job EXCEPT ![s] = [NoSweep EXCEPT !.release = j.release, !.began = j.began,
                     !.todo = j.todo \ j.batch, !.partial = j.partial \/ ~good]]
    /\ To(s, "loading")
    /\ UNCHANGED <<ingested, rejected, comparisons, pages, used>>

\* Mutant of MayCompare: comparisons are derived whatever failed.
MayCompareAlways(j) == SourceOf[j.release] = "ucdp"

\* Comparisons wait for a sweep of every year that lost none.
MayCompare(j) == SourceOf[j.release] = "ucdp" /\ ~j.partial

EndSweep(s) ==
    LET j == job[s] IN
    /\ pc[s] = "loading"
    /\ j.todo = {}
    /\ To(s, IF MayCompare(j) THEN "comparing" ELSE "idle")
    /\ job' = [job EXCEPT ![s] = IF MayCompare(j) THEN j ELSE NoSweep]
    /\ UNCHANGED <<ingested, block, rejected, resolved, derived, comparisons, selections, pages, used>>

\* Every counted year of the release is compared with its cohort, unless
\* the cohort is too small.
Compare(s) ==
    LET r == job[s].release IN
    /\ pc[s] = "comparing"
    /\ \A y \in Years : Len(comparisons[y]) < MaxVersion
    /\ comparisons' = [y \in Years |->
         IF \/ y \notin CountedYears(r)
            \/ Cardinality(CountedYears(r)) < MinReference
            \/ AlreadyCompared(r, y)
         THEN comparisons[y] ELSE Append(comparisons[y], Compared(r, y))]
    /\ To(s, "idle")
    /\ job' = [job EXCEPT ![s] = NoSweep]
    /\ UNCHANGED <<ingested, block, rejected, resolved, derived, selections, pages, used>>

\* A sweep dies; the years it committed stay.
Crash(s) ==
    /\ pc[s] # "idle"
    /\ used.trouble < MaxTrouble
    /\ used' = Counted("trouble")
    /\ To(s, "idle")
    /\ job' = [job EXCEPT ![s] = NoSweep]
    /\ UNCHANGED <<ingested, block, rejected, resolved, derived, comparisons, selections, pages>>

\* A reviewer rejects claims that are still candidates.
Reject(r, y) ==
    /\ block[r][y] = "candidate"
    /\ used.trouble < MaxTrouble
    /\ block' = [block EXCEPT ![r][y] = "rejected"]
    /\ rejected' = rejected \cup {<<r, y>>}
    /\ used' = Counted("trouble")
    /\ UNCHANGED <<ingested, resolved, derived, comparisons, selections, pages, pc, job>>

\* A reviewer declines content for the date: the newest decision on a root.
Decline(root) ==
    /\ used.trouble < MaxTrouble
    /\ IF root[1] = "comparison" THEN root[3] \in DOMAIN comparisons[root[2]]
                                 ELSE root[3] \in DerivedOn(root[1], root[2])
    /\ selections' = [selections EXCEPT ![root] =
                         Recorded(root, [status |-> "rejected", by |-> "human"])]
    /\ used' = Counted("trouble")
    /\ UNCHANGED <<ingested, block, rejected, resolved, derived, comparisons, pages, pc, job>>

----------------------------------------------------------------------------
(* Publication of a context page.                                          *)

RootsOf(y, page) ==
    {<<"wpp", y, page.wpp>>}
      \cup (IF page.count = 0 THEN {} ELSE {<<"ucdp", y, page.count>>})
      \cup (IF page.comparison = 0 THEN {} ELSE {<<"comparison", y, page.comparison>>})

\* Mutant of ContextFails: a year that is not ready is published without it.
ContextFailsNever(y) == FALSE

\* The newest conflict release covers the year and its content is not ready:
\* absence is honest, dropping reviewed evidence is not.
ContextFails(y) ==
    LET r == NewestRelease("ucdp") IN
    r # None /\ y \in Covered(r) /\ ~Ready(r, y)

\* The conflict count of the year's page, 0 for none.
CountFor(y) ==
    LET r == NewestRelease("ucdp") IN
    IF r = None \/ y \notin Covered(r) \/ ~Ready(r, y) THEN 0
    ELSE IF Declined(<<"ucdp", y, Built(r, y)>>) THEN 0 ELSE Built(r, y)

\* The newest comparison of the year, on a page that states the count.
ComparisonFor(y, count) ==
    IF count = 0 \/ comparisons[y] = <<>> THEN 0
    ELSE IF Declined(<<"comparison", y, Len(comparisons[y])>>) THEN 0 ELSE Len(comparisons[y])

Assembled(y) ==
    LET v == Built(NewestRelease("wpp"), y)
        count == CountFor(y)
    IN [wpp |-> v, daily |-> Number("wpp", y, v),
        count |-> count, tally |-> IF count = 0 THEN None ELSE Number("ucdp", y, count),
        comparison |-> ComparisonFor(y, count), newest |-> NewestRelease("ucdp")]

\* A publisher reads the year's content and leaves out what a reviewer
\* declined.  It fails when the demographic content, or conflict content it
\* must not drop, is not ready.
Assemble(p) ==
    /\ pc[p] = "idle"
    /\ used.attempts < MaxAttempts
    /\ used' = Counted("attempts")
    /\ \E y \in Years :
         IF \/ NewestRelease("wpp") = None
            \/ ~Ready(NewestRelease("wpp"), y)
            \/ ContextFails(y)
         THEN UNCHANGED <<pc, job>>
         ELSE /\ To(p, "ruling")
              /\ job' = [job EXCEPT ![p] = [NoDraft EXCEPT !.year = y, !.page = Assembled(y)]]
    /\ UNCHANGED <<ingested, block, rejected, resolved, derived, comparisons, selections, pages>>

Undecided(root) == selections[root] = <<>>

\* The standing rule is for roots nobody has decided on: they are looked up
\* before, and without, the lock their decision is recorded under.
ApplyRule(p) ==
    LET j == job[p] IN
    /\ pc[p] = "ruling"
    /\ job' = [job EXCEPT ![p].fresh = {root \in RootsOf(j.year, j.page) : Undecided(root)}]
    /\ To(p, "publishing")
    /\ UNCHANGED <<ingested, block, rejected, resolved, derived, comparisons, selections, pages, used>>

\* The standing rule selects the undecided roots.
RuleSelects(j) ==
    [root \in Roots |->
        IF root \in j.fresh THEN Recorded(root, [status |-> "selected", by |-> "standing_rule"])
                            ELSE selections[root]]

\* Every root of the page is selected for its date.
Eligible(decisions, roots) ==
    \A root \in roots : decisions[root] # <<>> /\ Latest(decisions[root]).status = "selected"

\* A page equal to the published one is not published again.
SameContent(y, page) ==
    /\ pages[y] # <<>>
    /\ [Latest(pages[y]) EXCEPT !.newest = None] = [page EXCEPT !.newest = None]

\* The rule's selections, the gate and the page, in one commit; or nothing.
Publish(p) ==
    LET j == job[p] IN
    /\ pc[p] = "publishing"
    /\ IF Eligible(RuleSelects(j), RootsOf(j.year, j.page))
       THEN /\ selections' = RuleSelects(j)
            /\ pages' = IF SameContent(j.year, j.page) THEN pages
                        ELSE [pages EXCEPT ![j.year] = Append(@, j.page)]
       ELSE UNCHANGED <<selections, pages>>
    /\ To(p, "idle")
    /\ job' = [job EXCEPT ![p] = NoDraft]
    /\ UNCHANGED <<ingested, block, rejected, resolved, derived, comparisons, used>>

Next ==
    \/ \E r \in Releases : Ingest(r) \/ \E y \in Years : Reject(r, y)
    \/ \E root \in Roots : Decline(root)
    \/ \E s \in Sweepers : \/ StartSweep(s) \/ LoadYears(s) \/ SaveYears(s)
                           \/ EndSweep(s) \/ Compare(s) \/ Crash(s)
    \/ \E p \in Publishers : Assemble(p) \/ ApplyRule(p) \/ Publish(p)

Spec == Init /\ [][Next]_vars

----------------------------------------------------------------------------
(* Properties.                                                             *)

\* What a page states was reviewed, however sweeps, rejections, releases and
\* publications interleave: its numbers come from the release whose claims
\* their evidence rests on, and these claims were accepted and never rejected.
PagesRestOnReview ==
    \A y \in Years : \A n \in DOMAIN pages[y] :
        LET page == pages[y][n]
            reviewed(source, v, r) ==
                /\ v \in DerivedOn(source, y)
                /\ resolved[source][y][v].release = r
                /\ block[r][y] = "accepted"
                /\ <<r, y>> \notin rejected
        IN /\ reviewed("wpp", page.wpp, page.daily)
           /\ page.count # 0 => /\ reviewed("ucdp", page.count, page.tally)
                                /\ page.tally = page.newest

\* Every resolution supersedes the version before it and changes what the
\* year rests on: racing sweeps never fork a chain, and a rerun adds nothing.
ResolutionsAreLinear ==
    \A source \in Sources : \A y \in Years :
        LET chain == resolved[source][y] IN
        \A v \in DOMAIN chain :
            /\ chain[v].supersedes = v - 1
            /\ v > 1 => chain[v].release # chain[v - 1].release

\* A comparison is made against every year its release covers, with that
\* release's counts, and says what is true: the year's count is higher than
\* that percentage of them, and no smaller whole percentage would do; the
\* median is a recorded count with at most half the years on either side.
ComparisonsAreWhole ==
    \A y \in Years : \A n \in DOMAIN comparisons[y] :
        LET c == comparisons[y][n]
            lower(v) == Cardinality({k \in DOMAIN c.cohort : c.cohort[k] < v})
            higher(v) == Cardinality({k \in DOMAIN c.cohort : c.cohort[k] > v})
            size == Cardinality(DOMAIN c.cohort)
        IN /\ DOMAIN c.cohort = Covered(c.release)
           /\ size >= MinReference
           /\ \A k \in DOMAIN c.cohort : c.cohort[k] = Records[c.release][k]
           /\ c.rank * size <= lower(c.cohort[y]) * 100
           /\ lower(c.cohort[y]) * 100 < (c.rank + 1) * size
           /\ 2 * lower(c.median) < size /\ 2 * higher(c.median) <= size

\* A date whose page states a conflict count keeps one, unless a reviewer
\* declined it or the newest release does not cover the year: evidence that
\* exists and is not ready stops the publication instead.
ContextIsNotDropped ==
    [][\A y \in Years :
          /\ pages'[y] # pages[y]
          /\ Latest(pages'[y]).count = 0
          => \/ Latest(pages'[y]).newest = None
             \/ y \notin Covered(Latest(pages'[y]).newest)
             \/ \E v \in Versions : \E n \in DOMAIN selections[<<"ucdp", y, v>>] :
                    selections[<<"ucdp", y, v>>][n].status = "rejected"]_vars

\* The standing rule fills gaps: it never selects what a person declined.
RuleNeverOverrules ==
    \A root \in Roots : \A n \in DOMAIN selections[root] :
        selections[root][n].by = "standing_rule" =>
            \A k \in 1 .. n - 1 : selections[root][k].by # "human"

\* The comparison on a page comes from the release its count comes from.
PairedAlike ==
    \A y \in Years : \A n \in DOMAIN pages[y] :
        pages[y][n].comparison # 0 =>
            comparisons[y][pages[y][n].comparison].release
                = resolved["ucdp"][y][pages[y][n].count].release
=============================================================================
