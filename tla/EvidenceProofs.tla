--------------------------- MODULE EvidenceProofs ---------------------------
(***************************************************************************)
(* Theorems about Evidence, for every set of releases, years and sessions, *)
(* any coverage and every bound.                                           *)
(*                                                                         *)
(* What a page states was read before it is published.  The invariant      *)
(* EvidenceInv therefore says what a publisher knows of its draft          *)
(* (Drafting): that it is Honest.  Nothing that makes a page honest is     *)
(* ever taken back (Kept), so a published page stays honest as well.       *)
(*                                                                         *)
(* A page takes the number created last of those that rest on a version.   *)
(* Every resolution has one of its own release (Numbered), and the newest  *)
(* release's is created last: the number is of the release whose claims    *)
(* were accepted.  These were not rejected meanwhile, because a sweep only *)
(* accepts what is still a candidate under its lock (Reading, Rejections). *)
(*                                                                         *)
(* What a comparison states is true of the whole release: a sweep that     *)
(* lost no year has left a count of every covered one (ComparingInv).      *)
(***************************************************************************)
EXTENDS Evidence, NumberLemmas, SequenceTheorems, FiniteSetTheorems, TLAPS

----------------------------------------------------------------------------
(* The largest version.                                                    *)

LEMMA BiggestExists ==
    ASSUME NEW n \in Nat, NEW S \in SUBSET (1 .. n), S # {}
    PROVE  /\ Biggest(S) \in S
           /\ \A u \in S : u <= Biggest(S)
  BY LargestExists DEF Biggest

----------------------------------------------------------------------------
(* The invariant.                                                          *)

Standings == {"absent", "candidate", "accepted", "rejected"}

Sweep == [release : Releases \cup {None}, began : Nat, todo : SUBSET Years, partial : BOOLEAN,
          batch : SUBSET Years, status : [Years -> Standings], latest : [Years -> Nat]]
Draft == [year : Nat, page : Page \cup {None}, fresh : SUBSET Roots]

Cohorts == UNION {[S -> Nat] : S \in SUBSET Years}
Comparison == {[release |-> r, cohort |-> f, rank |-> Rank(v, f), median |-> Median(f)] :
                    r \in Releases, f \in Cohorts, v \in Nat}

Types ==
    /\ ingested \in [Sources -> Seq(Releases)]
    /\ block \in [Releases -> [Years -> Standings]]
    /\ resolved \in [Sources -> [Years -> Seq(Resolution)]]
    /\ \A source \in Sources, y \in Years : Len(resolved[source][y]) <= MaxVersion
    /\ derived \in [Sources -> [Years -> Seq(Value)]]
    /\ comparisons \in [Years -> Seq(Comparison)]
    /\ \A y \in Years : Len(comparisons[y]) <= MaxVersion
    /\ selections \in [Roots -> Seq(Decision)]
    /\ pages \in [Years -> Seq(Page)]
    /\ pc \in [Sessions -> Steps]
    /\ job \in [Sessions -> Sweep \cup Draft]
    /\ \A s \in Sweepers : job[s] \in Sweep
    /\ \A p \in Publishers : job[p] \in Draft

\* A release is in the archive.
Arrived(r) == \E n \in DOMAIN ingested[SourceOf[r]] : ingested[SourceOf[r]][n] = r

\* Releases are listed once, under their source, and their claims with them.
Listed ==
    /\ \A source \in Sources : \A n \in DOMAIN ingested[source] :
            /\ SourceOf[ingested[source][n]] = source
            /\ \A m \in DOMAIN ingested[source] :
                    ingested[source][m] = ingested[source][n] => m = n
    /\ \A r \in Releases, y \in Years : block[r][y] # "absent" => Arrived(r)

\* A release was the newest when that many had arrived.
NewestAt(r, at) ==
    at \in DOMAIN ingested[SourceOf[r]] /\ ingested[SourceOf[r]][at] = r

\* A review command works on the release that was the newest when it began.
Sweeping ==
    \A s \in Sweepers : pc[s] # "idle" =>
        job[s].release \in Releases /\ NewestAt(job[s].release, job[s].began)

\* A block that was read as accepted is.
Reading ==
    \A s \in Sweepers : pc[s] = "saving" =>
        \A y \in Years : job[s].status[y] = "accepted" => block[job[s].release][y] = "accepted"

\* Rejections are final.
Rejections == \A r \in Releases, y \in Years : <<r, y>> \in rejected => block[r][y] = "rejected"

\* Every value was created by a review of the release that was the newest
\* then, and every resolution has one of its own release.
Numbered ==
    \A source \in Sources, y \in Years :
        /\ \A n \in DOMAIN derived[source][y] :
                /\ SourceOf[derived[source][y][n].from] = source
                /\ NewestAt(derived[source][y][n].from, derived[source][y][n].at)
        /\ \A v \in DOMAIN resolved[source][y] : \E n \in DOMAIN derived[source][y] :
                /\ derived[source][y][n].on = v
                /\ derived[source][y][n].from = resolved[source][y][v].release

\* A year's value rests on a resolution of an accepted block of the release.
Backed(source, y, v, r) ==
    /\ v \in DerivedOn(source, y)
    /\ v \in DOMAIN resolved[source][y]
    /\ resolved[source][y][v].release = r
    /\ block[r][y] = "accepted"

\* A reviewer once declined a conflict count of the year.
OnceDeclined(y) ==
    \E v \in Versions : \E n \in DOMAIN selections[<<"ucdp", y, v>>] :
        selections[<<"ucdp", y, v>>][n].status = "rejected"

\* There is a reason for a page without a conflict count.
Absence(y, page) ==
    \/ page.newest = None
    \/ y \notin Covered(page.newest)
    \/ OnceDeclined(y)

Honest(y, page) ==
    /\ Backed("wpp", y, page.wpp, page.daily)
    /\ page.count # 0 => /\ Backed("ucdp", y, page.count, page.tally)
                         /\ page.tally = page.newest
    /\ page.count = 0 => Absence(y, page)

Drafting ==
    \A p \in Publishers : pc[p] # "idle" =>
        /\ job[p].year \in Years
        /\ job[p].page \in Page
        /\ Honest(job[p].year, job[p].page)

PagesAreHonest == \A y \in Years : \A n \in DOMAIN pages[y] : Honest(y, pages[y][n])

EvidenceInv ==
    /\ Types
    /\ Listed
    /\ Sweeping
    /\ Reading
    /\ Rejections
    /\ Numbered
    /\ Drafting
    /\ PagesAreHonest
    /\ ResolutionsAreLinear

\* What no step takes back.
Kept ==
    /\ \A source \in Sources, y \in Years : \A v \in DOMAIN resolved[source][y] :
            /\ v \in DOMAIN resolved'[source][y]
            /\ resolved'[source][y][v] = resolved[source][y][v]
    /\ \A source \in Sources, y \in Years : \A n \in DOMAIN derived[source][y] :
            /\ n \in DOMAIN derived'[source][y]
            /\ derived'[source][y][n] = derived[source][y][n]
    /\ \A r \in Releases, y \in Years : block[r][y] = "accepted" => block'[r][y] = "accepted"
    /\ \A root \in Roots : \A n \in DOMAIN selections[root] :
            /\ n \in DOMAIN selections'[root]
            /\ selections'[root][n] = selections[root][n]
    /\ \A source \in Sources : \A n \in DOMAIN ingested[source] :
            /\ n \in DOMAIN ingested'[source]
            /\ ingested'[source][n] = ingested[source][n]

----------------------------------------------------------------------------
(* What is read.                                                           *)

LEMMA Bounds ==
    /\ MinReference \in Nat /\ MaxVersion \in Nat
    /\ \A r \in Releases : SourceOf[r] \in Sources
    /\ \A r \in Releases, y \in Years : Records[r][y] \in Nat
    /\ Golden \in Years /\ Years \subseteq Nat
    /\ Sweepers \subseteq Sessions /\ Publishers \subseteq Sessions
    /\ None \notin Releases
  BY EvidenceAssumption DEF Sources, Sessions

LEMMA NewestArrived ==
    ASSUME Types, Listed, NEW source \in Sources, NewestRelease(source) # None
    PROVE  /\ NewestRelease(source) \in Releases
           /\ SourceOf[NewestRelease(source)] = source
           /\ Len(ingested[source]) \in Nat
           /\ DOMAIN ingested[source] = 1 .. Len(ingested[source])
           /\ NewestAt(NewestRelease(source), Len(ingested[source]))
  <1>1. ingested[source] \in Seq(Releases) /\ ingested[source] # <<>>
    BY DEF Types, NewestRelease
  <1>2. /\ Len(ingested[source]) \in DOMAIN ingested[source]
        /\ NewestRelease(source) = ingested[source][Len(ingested[source])]
    BY <1>1, LenProperties, EmptySeq DEF NewestRelease, Latest
  <1>3. NewestRelease(source) \in Releases
    BY <1>1, <1>2, LenProperties, ElementOfSeq
  <1>4. SourceOf[NewestRelease(source)] = source
    BY <1>2 DEF Listed
  <1> QED
    BY <1>1, <1>2, <1>3, <1>4, LenProperties DEF NewestAt

\* The resolution a page rests on is one its release supports.
LEMMA BuiltIsSupported ==
    ASSUME Types, NEW r \in Releases, NEW y \in Years, SupportedBy(r, y) # {}
    PROVE  /\ Built(r, y) \in DOMAIN resolved[SourceOf[r]][y]
           /\ Built(r, y) \in Versions
           /\ resolved[SourceOf[r]][y][Built(r, y)].release = r
  <1> DEFINE chain == resolved[SourceOf[r]][y]
  <1>1. SourceOf[r] \in Sources
    BY Bounds
  <1>2. chain \in Seq(Resolution) /\ Len(chain) <= MaxVersion
    BY <1>1 DEF Types
  <1>3. Len(chain) \in Nat /\ DOMAIN chain = 1 .. Len(chain)
    BY <1>2, LenProperties
  <1>4. SupportedBy(r, y) \in SUBSET (1 .. Len(chain))
    BY <1>3 DEF SupportedBy
  <1>5. Built(r, y) \in SupportedBy(r, y)
    BY <1>3, <1>4, BiggestExists DEF Built
  <1>6. Built(r, y) \in DOMAIN chain /\ chain[Built(r, y)].release = r
    BY <1>5 DEF SupportedBy
  <1>7. Built(r, y) \in Versions
    BY <1>2, <1>3, <1>6, Bounds DEF Versions
  <1> QED
    BY <1>6, <1>7

\* The value of the newest release that rests on a version was created last.
LEMMA NumberIsOwn ==
    ASSUME Types, Listed, Numbered, NEW source \in Sources, NewestRelease(source) # None,
           NEW y \in Years, NEW v \in DOMAIN resolved[source][y],
           resolved[source][y][v].release = NewestRelease(source)
    PROVE  Number(source, y, v) = NewestRelease(source)
  <1> DEFINE r == NewestRelease(source)
             values == derived[source][y]
             rows == {n \in DOMAIN values : values[n].on = v}
             last == CHOOSE n \in rows : \A m \in rows : values[m].at <= values[n].at
             top == Len(ingested[source])
  <1>1. /\ r \in Releases /\ SourceOf[r] = source /\ top \in Nat
        /\ DOMAIN ingested[source] = 1 .. top
        /\ top \in DOMAIN ingested[source] /\ ingested[source][top] = r
    BY NewestArrived DEF NewestAt
  <1>2. \A n \in DOMAIN values : /\ values[n].at \in DOMAIN ingested[source]
                                 /\ ingested[source][values[n].at] = values[n].from
    BY DEF Numbered, NewestAt
  <1>3. PICK own \in rows : values[own].from = r
    BY DEF Numbered
  <1>4. values[own].at = top
    BY <1>1, <1>2, <1>3 DEF Listed
  <1> HIDE DEF values, top, r
  <1>5. \A m \in rows : values[m].at \in Nat /\ values[m].at <= values[own].at
    BY <1>1, <1>2, <1>4
  <1>6. last \in rows /\ \A m \in rows : values[m].at <= values[last].at
    BY <1>3, <1>5
  <1>7. values[own].at <= values[last].at /\ values[last].at <= values[own].at
    BY <1>3, <1>5, <1>6
  <1>8. values[last].at = top
    BY <1>3, <1>4, <1>5, <1>6, <1>7
  <1>9. values[last].from = r
    BY <1>1, <1>2, <1>6, <1>8
  <1> QED
    BY <1>9 DEF Number, values, r

\* A year that is ready is backed by the resolution built from it, and its
\* number is of the same release.
LEMMA ReadyIsBacked ==
    ASSUME Types, Listed, Numbered, NEW source \in Sources, NewestRelease(source) # None,
           NEW y \in Years, Ready(NewestRelease(source), y)
    PROVE  LET r == NewestRelease(source)
               v == Built(r, y)
           IN /\ Number(source, y, v) = r
              /\ Backed(source, y, v, r)
              /\ v \in Versions
  <1> DEFINE r == NewestRelease(source)
  <1>1. r \in Releases /\ SourceOf[r] = source
    BY NewestArrived
  <1>2. /\ Built(r, y) \in DOMAIN resolved[source][y]
        /\ Built(r, y) \in Versions
        /\ resolved[source][y][Built(r, y)].release = r
    BY <1>1, BuiltIsSupported DEF Ready
  <1>3. Number(source, y, Built(r, y)) = r
    BY <1>2, NumberIsOwn
  <1> QED
    BY <1>1, <1>2, <1>3 DEF Ready, Backed, Built

\* What a publisher assembles is a page, and honest.
LEMMA AssembledIsHonest ==
    ASSUME Types, Listed, Numbered, NEW y \in Years, NewestRelease("wpp") # None,
           Ready(NewestRelease("wpp"), y), ~ContextFails(y)
    PROVE  Assembled(y) \in Page /\ Honest(y, Assembled(y))
  <1> DEFINE w == NewestRelease("wpp")
             u == NewestRelease("ucdp")
             page == Assembled(y)
  <1>1. "wpp" \in Sources /\ "ucdp" \in Sources
    BY DEF Sources
  <1>2. /\ page.wpp = Built(w, y)
        /\ page.daily = Number("wpp", y, page.wpp)
        /\ page.count = CountFor(y)
        /\ page.tally = IF page.count = 0 THEN None ELSE Number("ucdp", y, page.count)
        /\ page.comparison = ComparisonFor(y, page.count)
        /\ page.newest = u
        /\ page = [wpp |-> page.wpp, daily |-> page.daily, count |-> page.count,
                   tally |-> page.tally, comparison |-> page.comparison,
                   newest |-> page.newest]
    BY DEF Assembled
  <1>3. /\ Backed("wpp", y, page.wpp, page.daily)
        /\ page.wpp \in Versions /\ page.daily \in Releases
    BY <1>1, <1>2, NewestArrived, ReadyIsBacked
  <1>4. u \in Releases \cup {None}
    BY <1>1, NewestArrived
  <1> HIDE DEF page
  <1>5. CASE u = None \/ y \notin Covered(u)
    <2>1. page.count = 0
      BY <1>2, <1>5 DEF CountFor
    <2>2. page \in Page
      BY <1>2, <1>3, <1>4, <2>1, Bounds DEF Page, ComparisonFor
    <2>3. Honest(y, page)
      BY <1>2, <1>3, <1>5, <2>1 DEF Honest, Absence
    <2> QED
      BY <2>2, <2>3 DEF page
  <1>6. CASE ~(u = None \/ y \notin Covered(u))
    <2>1. Ready(u, y)
      BY <1>6 DEF ContextFails
    <2>2. u \in Releases
      BY <1>4, <1>6
    <2>3. /\ Number("ucdp", y, Built(u, y)) = u
          /\ Backed("ucdp", y, Built(u, y), u)
          /\ Built(u, y) \in Versions
      BY <1>1, <1>6, <2>1, ReadyIsBacked
    <2>4. page.count = IF Declined(<<"ucdp", y, Built(u, y)>>) THEN 0 ELSE Built(u, y)
      BY <1>2, <1>6, <2>1 DEF CountFor
    <2>5. Declined(<<"ucdp", y, Built(u, y)>>) => OnceDeclined(y)
      <3> DEFINE log == selections[<<"ucdp", y, Built(u, y)>>]
      <3>1. log \in Seq(Decision)
        BY <2>3 DEF Types, Roots, Sources
      <3>2. log # <<>> => Len(log) \in DOMAIN log /\ log[Len(log)] \in Decision
        BY <3>1, LenProperties, EmptySeq, ElementOfSeq
      <3> QED
        BY <2>3, <3>2 DEF Declined, OnceDeclined, Latest, Decision
    <2>6. page.count # 0 => page.count = Built(u, y) /\ page.tally = u
      BY <1>2, <2>3, <2>4
    <2>7. Honest(y, page)
      BY <1>2, <1>3, <2>3, <2>4, <2>5, <2>6 DEF Honest, Absence, Versions
    <2>8. page.count \in 0 .. MaxVersion
      BY <2>3, <2>4, Bounds DEF Versions
    <2>9. page.comparison \in 0 .. MaxVersion
      <3>1. Len(comparisons[y]) \in Nat /\ Len(comparisons[y]) <= MaxVersion
        BY LenProperties DEF Types
      <3> QED
        BY <1>2, <3>1, Bounds DEF ComparisonFor
    <2>10. page.tally \in Releases \cup {None}
      BY <1>2, <2>2, <2>6
    <2>11. page \in Page
      BY <1>2, <1>3, <1>4, <2>8, <2>9, <2>10 DEF Page
    <2> QED
      BY <2>7, <2>11 DEF page
  <1> QED
    BY <1>5, <1>6

\* The comparison of a year that is compared is one.
LEMMA ComparedIsTyped ==
    ASSUME Types, NEW r \in Releases, NEW y \in Years
    PROVE  Compared(r, y) \in Comparison
  <1>1. CountedYears(r) \in SUBSET Years
    BY DEF CountedYears
  <1>2. Cohort(r) \in [CountedYears(r) -> Nat]
    BY <1>1, Bounds DEF Cohort
  <1>3. Cohort(r) \in Cohorts
    BY <1>1, <1>2 DEF Cohorts
  <1> QED
    BY <1>3, Bounds DEF Compared, Comparison

\* A decision is recorded at the end of a log, or is its end already.
LEMMA RecordedKeeps ==
    ASSUME Types, NEW root \in Roots, NEW decision \in Decision
    PROVE  /\ Recorded(root, decision) \in Seq(Decision)
           /\ \A n \in DOMAIN selections[root] :
                /\ n \in DOMAIN Recorded(root, decision)
                /\ Recorded(root, decision)[n] = selections[root][n]
  <1>1. selections[root] \in Seq(Decision)
    BY DEF Types
  <1>2. CASE Recorded(root, decision) = selections[root]
    BY <1>1, <1>2
  <1>3. CASE Recorded(root, decision) = Append(selections[root], decision)
    BY <1>1, <1>3, AppendProperties, LenProperties
  <1> QED
    BY <1>2, <1>3 DEF Recorded

\* The roots of a page that says what it rests on are roots.
LEMMA RootsAreTyped ==
    ASSUME NEW y \in Years, NEW page \in Page
    PROVE  RootsOf(y, page) \subseteq Roots
  BY Bounds DEF RootsOf, Roots, Page, Versions, Sources

\* What a review derives from a resolution it adds rests on that resolution.
LEMMA OwnIsNext ==
    ASSUME Types, NEW s \in Sweepers, job[s].release \in Releases, NEW y \in Years,
           ~Supports(job[s], y), Len(Chain(job[s], y)) = job[s].latest[y]
    PROVE  Rests(job[s], y) = Len(Chain(job[s], y)) + 1
  <1> DEFINE chain == Chain(job[s], y)
             added == [release |-> job[s].release, supersedes |-> Len(chain)]
  <1>1. SourceOf[job[s].release] \in Sources
    BY Bounds
  <1>2. chain \in Seq(Resolution) /\ Len(chain) <= MaxVersion /\ Len(chain) \in Nat
    BY <1>1, LenProperties DEF Types, Chain
  <1>3. added \in Resolution
    BY <1>2, Bounds DEF Resolution
  <1>4. Resolving(job[s], y) = Append(chain, added)
    BY DEF Resolving
  <1>5. Len(Append(chain, added)) = Len(chain) + 1
    BY <1>2, <1>3, AppendProperties
  <1> QED
    BY <1>4, <1>5 DEF Rests, Own

\* A resolution that is added is the next of its chain.
LEMMA ResolvingKeeps ==
    ASSUME Types, NEW s \in Sweepers, job[s].release \in Releases, NEW y \in Years,
           Resolvable(job[s], y), Rests(job[s], y) \in Versions
    PROVE  LET chain == Chain(job[s], y)
               new == Resolving(job[s], y)
           IN /\ new \in Seq(Resolution)
              /\ Len(new) <= MaxVersion
              /\ \A v \in DOMAIN chain : v \in DOMAIN new /\ new[v] = chain[v]
              /\ new # chain => /\ DOMAIN new = 1 .. Len(chain) + 1
                                /\ new[Len(chain) + 1] = [release |-> job[s].release,
                                                          supersedes |-> Len(chain)]
                                /\ Len(chain) > 0 =>
                                     chain[Len(chain)].release # job[s].release
  <1> DEFINE chain == Chain(job[s], y)
             new == Resolving(job[s], y)
             added == [release |-> job[s].release, supersedes |-> Len(chain)]
  <1>1. SourceOf[job[s].release] \in Sources
    BY Bounds
  <1>2. chain \in Seq(Resolution) /\ Len(chain) <= MaxVersion
    BY <1>1 DEF Types, Chain
  <1>3. Len(chain) \in Nat /\ DOMAIN chain = 1 .. Len(chain)
    BY <1>2, LenProperties
  <1>4. job[s].latest[y] \in Nat
    BY DEF Types, Sweep
  <1>5. CASE Supports(job[s], y)
    BY <1>2, <1>5 DEF Resolving
  <1>6. CASE ~Supports(job[s], y)
    <2>1. Len(chain) = job[s].latest[y]
      BY <1>6 DEF Resolvable
    <2>2. Len(chain) + 1 <= MaxVersion
      <3>1. Rests(job[s], y) = Len(chain) + 1
        BY <1>2, <1>3, <1>6, <2>1, OwnIsNext
      <3> QED
        BY <1>3, <3>1, Bounds DEF Versions
    <2>3. added \in Resolution
      BY <1>3, <2>2, Bounds DEF Resolution
    <2>4. new = Append(chain, added)
      BY <1>6, <2>1 DEF Resolving
    <2>5. /\ new \in Seq(Resolution)
          /\ Len(new) = Len(chain) + 1
          /\ \A v \in 1 .. Len(chain) : new[v] = chain[v]
          /\ new[Len(chain) + 1] = added
          /\ DOMAIN new = 1 .. Len(chain) + 1
      BY <1>2, <2>3, <2>4, AppendProperties, LenProperties
    <2>6. Len(chain) > 0 => chain[Len(chain)].release # job[s].release
      BY <1>3, <1>6, <2>1 DEF Supports
    <2> QED
      BY <1>3, <2>2, <2>5, <2>6
  <1> QED
    BY <1>5, <1>6

----------------------------------------------------------------------------
(* Types.                                                                  *)

LEMMA InitTypes == Init => Types
  <1> SUFFICES ASSUME Init PROVE Types
    OBVIOUS
  <1>1. <<>> \in Seq(Releases) /\ <<>> \in Seq(Resolution) /\ <<>> \in Seq(Comparison)
        /\ <<>> \in Seq(Decision) /\ <<>> \in Seq(Page) /\ <<>> \in Seq(Value) /\ Len(<<>>) = 0
    OBVIOUS
  <1>2. NoSweep \in Sweep
    BY DEF NoSweep, Sweep, Standings
  <1>3. NoDraft \in Draft
    BY DEF NoDraft, Draft
  <1>4. job \in [Sessions -> Sweep \cup Draft]
        /\ (\A s \in Sweepers : job[s] \in Sweep) /\ (\A p \in Publishers : job[p] \in Draft)
    BY <1>2, <1>3, SessionAssumption DEF Init, Sessions
  <1>5. /\ resolved \in [Sources -> [Years -> Seq(Resolution)]]
        /\ \A source \in Sources, y \in Years : Len(resolved[source][y]) <= MaxVersion
    BY <1>1, Bounds DEF Init
  <1>6. /\ comparisons \in [Years -> Seq(Comparison)]
        /\ \A y \in Years : Len(comparisons[y]) <= MaxVersion
    BY <1>1, Bounds DEF Init
  <1> QED
    BY <1>1, <1>4, <1>5, <1>6 DEF Init, Types, Standings, Steps

\* The session of a step gets a job of its kind.
LEMMA JobIsTyped ==
    ASSUME Types, NEW s \in Sessions, NEW next,
           s \in Sweepers => next \in Sweep, s \in Publishers => next \in Draft,
           job' = [job EXCEPT ![s] = next]
    PROVE  /\ job' \in [Sessions -> Sweep \cup Draft]
           /\ \A u \in Sweepers : job'[u] \in Sweep
           /\ \A p \in Publishers : job'[p] \in Draft
  BY DEF Types, Sessions

LEMMA StartSweepTypes ==
    ASSUME EvidenceInv, NEW s \in Sweepers, StartSweep(s)
    PROVE  Types'
  <1>1. PICK source \in Sources, alone \in BOOLEAN :
          /\ NewestRelease(source) # None
          /\ job' = [job EXCEPT ![s] = [NoSweep EXCEPT !.release = NewestRelease(source),
                 !.began = Len(ingested[source]),
                 !.todo = IF alone THEN {Golden} ELSE Covered(NewestRelease(source)),
                 !.partial = alone]]
    BY DEF StartSweep
  <1> DEFINE next == [NoSweep EXCEPT !.release = NewestRelease(source),
                 !.began = Len(ingested[source]),
                 !.todo = IF alone THEN {Golden} ELSE Covered(NewestRelease(source)),
                 !.partial = alone]
  <1>2. Covered(NewestRelease(source)) \subseteq Years
    BY DEF Covered
  <1>3. NewestRelease(source) \in Releases /\ Len(ingested[source]) \in Nat
    BY <1>1, NewestArrived DEF EvidenceInv
  <1>4. next \in Sweep
    BY <1>2, <1>3, Bounds DEF NoSweep, Sweep, Standings
  <1>5. s \in Sessions /\ s \notin Publishers
    BY SessionAssumption DEF Sessions
  <1>6. job' = [job EXCEPT ![s] = next]
    BY <1>1
  <1> HIDE DEF next
  <1>7. /\ job' \in [Sessions -> Sweep \cup Draft]
        /\ \A u \in Sweepers : job'[u] \in Sweep
        /\ \A p \in Publishers : job'[p] \in Draft
    BY <1>4, <1>5, <1>6, JobIsTyped DEF EvidenceInv
  <1> QED
    BY <1>5, <1>7 DEF EvidenceInv, Types, StartSweep, To, Steps

LEMMA LoadYearsTypes ==
    ASSUME EvidenceInv, NEW s \in Sweepers, LoadYears(s)
    PROVE  Types'
  <1> DEFINE j == job[s]
             years == NextBatch(job[s])
             failed == [job[s] EXCEPT !.todo = @ \ years, !.partial = TRUE]
             status == [y \in Years |-> IF y \in years THEN block[j.release][y] ELSE "absent"]
             latest == [y \in Years |->
                            IF y \in years THEN Len(resolved[SourceOf[j.release]][y]) ELSE 0]
             loaded == Loaded(j, years)
  <1>1. j \in Sweep /\ j.release \in Releases /\ j.todo # {}
    BY DEF EvidenceInv, Types, Sweeping, LoadYears
  <1>2. years \subseteq Years
    <2>1. j.todo \in SUBSET Nat
      BY <1>1, Bounds DEF Sweep
    <2>2. Smallest(j.todo) \in j.todo
      BY <1>1, <2>1, SmallestExists DEF Smallest
    <2> QED
      BY <1>1, <2>2 DEF NextBatch, Sweep
  <1>3. failed \in Sweep
    BY <1>1 DEF Sweep
  <1>4. status \in [Years -> Standings]
    BY <1>1 DEF EvidenceInv, Types, Standings
  <1>5. latest \in [Years -> Nat]
    <2>1. SourceOf[j.release] \in Sources
      BY <1>1, Bounds
    <2>2. \A y \in Years : Len(resolved[SourceOf[j.release]][y]) \in Nat
      BY <2>1, LenProperties DEF EvidenceInv, Types
    <2> QED
      BY <2>2
  <1>6. loaded \in Sweep
    BY <1>1, <1>2, <1>4, <1>5 DEF Sweep, Loaded
  <1>7. s \in Sessions /\ s \notin Publishers
    BY SessionAssumption DEF Sessions
  <1>8. job \in [Sessions -> Sweep \cup Draft]
    BY DEF EvidenceInv, Types
  <1>9. \/ job' = [job EXCEPT ![s] = failed]
        \/ job' = [job EXCEPT ![s] = loaded]
    <2>1. CASE \E y \in years : block[j.release][y] = "rejected"
      BY <1>1, <1>7, <1>8, <2>1 DEF LoadYears, Sweep
    <2>2. CASE ~(\E y \in years : block[j.release][y] = "rejected")
      BY <1>1, <1>7, <1>8, <2>2 DEF LoadYears, Sweep
    <2> QED
      BY <2>1, <2>2
  <1> HIDE DEF failed, loaded
  <1>10. /\ job' \in [Sessions -> Sweep \cup Draft]
         /\ \A u \in Sweepers : job'[u] \in Sweep
         /\ \A p \in Publishers : job'[p] \in Draft
    <2>1. Types
      BY DEF EvidenceInv
    <2>2. CASE job' = [job EXCEPT ![s] = failed]
      BY <1>3, <1>7, <2>1, <2>2, JobIsTyped
    <2>3. CASE job' = [job EXCEPT ![s] = loaded]
      BY <1>6, <1>7, <2>1, <2>3, JobIsTyped
    <2> QED
      BY <1>9, <2>2, <2>3
  <1>11. pc' \in [Sessions -> Steps]
    BY <1>7 DEF EvidenceInv, Types, LoadYears, To, Steps
  <1> QED
    BY <1>10, <1>11 DEF EvidenceInv, Types, LoadYears

\* The resolutions of a saved year.
LEMMA SavedChains ==
    ASSUME EvidenceInv, NEW s \in Sweepers, SaveYears(s)
    PROVE  LET source == SourceOf[job[s].release] IN
           /\ source \in Sources
           /\ job[s].release \in Releases
           /\ UNCHANGED <<ingested, rejected>>
           /\ \/ UNCHANGED <<block, resolved, derived, selections>>
              \/ /\ \A y \in Years \cap job[s].batch : /\ Reviewable(job[s], y)
                                                      /\ Resolvable(job[s], y)
                                                      /\ Rests(job[s], y) \in Versions
                 /\ block' = [block EXCEPT ![job[s].release] = [y \in Years |->
                                 IF y \in job[s].batch THEN "accepted" ELSE @[y]]]
                 /\ resolved' = [resolved EXCEPT ![source] = [y \in Years |->
                                 IF y \in job[s].batch THEN Resolving(job[s], y) ELSE @[y]]]
                 /\ derived' = [derived EXCEPT ![source] = [y \in Years |->
                                 IF y \in job[s].batch THEN Deriving(job[s], y) ELSE @[y]]]
                 /\ selections' = ReviewSelects(job[s])
  <1>1. job[s].release \in Releases
    BY DEF EvidenceInv, Sweeping, SaveYears
  <1>2. SourceOf[job[s].release] \in Sources
    BY <1>1, Bounds
  <1>3. CASE \A y \in job[s].batch : Reviewable(job[s], y) /\ Resolvable(job[s], y)
    BY <1>1, <1>2, <1>3 DEF SaveYears
  <1>4. CASE ~(\A y \in job[s].batch : Reviewable(job[s], y) /\ Resolvable(job[s], y))
    BY <1>1, <1>2, <1>4 DEF SaveYears
  <1> QED
    BY <1>3, <1>4

\* The values of a saved year: the old ones and one on what it rests on.
LEMMA DerivingKeeps ==
    ASSUME Types, NEW s \in Sweepers, job[s].release \in Releases, NEW y \in Years,
           Rests(job[s], y) \in Versions
    PROVE  LET old == derived[SourceOf[job[s].release]][y]
               new == Deriving(job[s], y)
           IN /\ new \in Seq(Value)
              /\ \A n \in DOMAIN old : n \in DOMAIN new /\ new[n] = old[n]
              /\ \A n \in DOMAIN new : \/ n \in DOMAIN old
                                      \/ new[n] = [on |-> Rests(job[s], y),
                                                   from |-> job[s].release,
                                                   at |-> job[s].began]
              /\ \E n \in DOMAIN new : /\ new[n].on = Rests(job[s], y)
                                      /\ new[n].from = job[s].release
  <1> DEFINE old == derived[SourceOf[job[s].release]][y]
             new == Deriving(job[s], y)
             row == [on |-> Rests(job[s], y), from |-> job[s].release, at |-> job[s].began]
  <1>1. old \in Seq(Value)
    BY Bounds DEF Types
  <1>2. Len(old) \in Nat /\ DOMAIN old = 1 .. Len(old)
    BY <1>1, LenProperties
  <1>3. job[s].began \in Nat
    BY DEF Types, Sweep
  <1>4. row \in Value
    BY <1>3 DEF Value
  <1>5. CASE \E n \in DOMAIN old : old[n].on = Rests(job[s], y) /\ old[n].from = job[s].release
    <2>1. new = old
      BY <1>5 DEF Deriving
    <2> HIDE DEF old, new
    <2>2. /\ new \in Seq(Value)
          /\ \A n \in DOMAIN old : n \in DOMAIN new /\ new[n] = old[n]
          /\ \A n \in DOMAIN new : n \in DOMAIN old \/ new[n] = row
          /\ \E n \in DOMAIN new : /\ new[n].on = Rests(job[s], y)
                                  /\ new[n].from = job[s].release
      BY <1>1, <1>5, <2>1
    <2> QED
      BY <2>2 DEF old, new
  <1>6. CASE ~(\E n \in DOMAIN old : old[n].on = Rests(job[s], y)
                                  /\ old[n].from = job[s].release)
    <2>1. new = Append(old, row)
      BY <1>6 DEF Deriving
    <2>2. row.on = Rests(job[s], y) /\ row.from = job[s].release
      OBVIOUS
    <2> HIDE DEF old, row, new
    <2>3. /\ new \in Seq(Value)
          /\ DOMAIN new = 1 .. Len(old) + 1
          /\ new[Len(old) + 1] = row
          /\ \A n \in 1 .. Len(old) : new[n] = old[n]
      BY <1>1, <1>4, <2>1, AppendProperties, LenProperties
    <2>4. \A n \in DOMAIN new : n \in DOMAIN old \/ n = Len(old) + 1
      BY <1>2, <2>3
    <2>5. Len(old) + 1 \in DOMAIN new /\ \A n \in DOMAIN old : n \in DOMAIN new
      BY <1>2, <2>3
    <2>6. /\ new \in Seq(Value)
          /\ \A n \in DOMAIN old : n \in DOMAIN new /\ new[n] = old[n]
          /\ \A n \in DOMAIN new : n \in DOMAIN old \/ new[n] = row
          /\ \E n \in DOMAIN new : /\ new[n].on = Rests(job[s], y)
                                  /\ new[n].from = job[s].release
      BY <1>2, <2>2, <2>3, <2>4, <2>5
    <2> QED
      BY <2>6 DEF old, row, new
  <1> QED
    BY <1>5, <1>6

\* What a review selects for the dates is recorded.
LEMMA ReviewSelectsKeeps ==
    ASSUME Types, NEW s \in Sweepers
    PROVE  /\ ReviewSelects(job[s]) \in [Roots -> Seq(Decision)]
           /\ \A root \in Roots : \A n \in DOMAIN selections[root] :
                /\ n \in DOMAIN ReviewSelects(job[s])[root]
                /\ ReviewSelects(job[s])[root][n] = selections[root][n]
  <1> DEFINE decision == [status |-> "selected", by |-> "review"]
  <1>1. decision \in Decision
    BY DEF Decision
  <1>2. \A root \in Roots : \/ ReviewSelects(job[s])[root] = Recorded(root, decision)
                            \/ ReviewSelects(job[s])[root] = selections[root]
    BY DEF ReviewSelects
  <1>3. ASSUME NEW root \in Roots
        PROVE  /\ ReviewSelects(job[s])[root] \in Seq(Decision)
               /\ \A n \in DOMAIN selections[root] :
                    /\ n \in DOMAIN ReviewSelects(job[s])[root]
                    /\ ReviewSelects(job[s])[root][n] = selections[root][n]
    <2>1. selections[root] \in Seq(Decision)
      BY DEF Types
    <2> QED
      BY <1>1, <1>2, <2>1, RecordedKeeps
  <1>4. ReviewSelects(job[s]) \in [Roots -> Seq(Decision)]
    <2>1. ReviewSelects(job[s]) = [root \in Roots |-> ReviewSelects(job[s])[root]]
      BY DEF ReviewSelects
    <2> QED
      BY <1>3, <2>1
  <1> QED
    BY <1>3, <1>4

LEMMA SaveYearsJob ==
    ASSUME EvidenceInv, NEW s \in Sweepers, SaveYears(s)
    PROVE  /\ job' \in [Sessions -> Sweep \cup Draft]
           /\ \A u \in Sweepers : job'[u] \in Sweep
           /\ \A p \in Publishers : job'[p] \in Draft
           /\ job'[s].release = job[s].release
           /\ job'[s].began = job[s].began
           /\ \A u \in Sessions \ {s} : job'[u] = job[u]
  <1>1. job[s] \in Sweep /\ job \in [Sessions -> Sweep \cup Draft]
    BY DEF EvidenceInv, Types
  <1>2. PICK partial \in BOOLEAN :
          job' = [job EXCEPT ![s] = [NoSweep EXCEPT !.release = job[s].release,
                     !.began = job[s].began,
                     !.todo = job[s].todo \ job[s].batch, !.partial = partial]]
    <2> DEFINE good == \A y \in job[s].batch : Reviewable(job[s], y) /\ Resolvable(job[s], y)
    <2>1. job' = [job EXCEPT ![s] = [NoSweep EXCEPT !.release = job[s].release,
                     !.began = job[s].began,
                     !.todo = job[s].todo \ job[s].batch, !.partial = job[s].partial \/ ~good]]
      BY DEF SaveYears
    <2>2. (job[s].partial \/ ~good) \in BOOLEAN
      OBVIOUS
    <2> QED
      BY <2>1, <2>2, Zenon
  <1> DEFINE next == [NoSweep EXCEPT !.release = job[s].release, !.began = job[s].began,
                     !.todo = job[s].todo \ job[s].batch, !.partial = partial]
  <1>3. next \in Sweep /\ next.release = job[s].release /\ next.began = job[s].began
    BY <1>1 DEF NoSweep, Sweep, Standings
  <1>4. s \in Sessions /\ s \notin Publishers
    BY SessionAssumption DEF Sessions
  <1>5. job' = [job EXCEPT ![s] = next]
    BY <1>2
  <1> HIDE DEF next
  <1>6. /\ job' \in [Sessions -> Sweep \cup Draft]
        /\ \A u \in Sweepers : job'[u] \in Sweep
        /\ \A p \in Publishers : job'[p] \in Draft
    BY <1>3, <1>4, <1>5, JobIsTyped DEF EvidenceInv
  <1> QED
    BY <1>1, <1>3, <1>4, <1>5, <1>6

\* Saved years: chains grow by their next version, nothing is taken back.
LEMMA SaveYearsKeeps ==
    ASSUME EvidenceInv, NEW s \in Sweepers, SaveYears(s)
    PROVE  Types' /\ Kept /\ ResolutionsAreLinear'
  <1> DEFINE j == job[s]
             source == SourceOf[job[s].release]
  <1>1. Types /\ ResolutionsAreLinear
    BY DEF EvidenceInv
  <1>2. source \in Sources /\ j.release \in Releases
    BY SavedChains
  <1>3. s \in Sessions
    BY DEF Sessions
  <1>4. /\ job' \in [Sessions -> Sweep \cup Draft]
        /\ \A u \in Sweepers : job'[u] \in Sweep
        /\ \A p \in Publishers : job'[p] \in Draft
        /\ pc' \in [Sessions -> Steps]
    BY <1>1, <1>3, SaveYearsJob DEF Types, SaveYears, To, Steps
  <1>5. UNCHANGED <<ingested, comparisons, pages>>
    BY DEF SaveYears
  <1>6. CASE UNCHANGED <<block, resolved, derived, selections>>
    <2>1. Types'
      BY <1>1, <1>4, <1>5, <1>6 DEF Types
    <2>2. Kept
      BY <1>1, <1>5, <1>6 DEF Types, Kept, Arrived
    <2>3. ResolutionsAreLinear'
      BY <1>1, <1>6 DEF ResolutionsAreLinear
    <2> QED
      BY <2>1, <2>2, <2>3
  <1>7. CASE /\ \A y \in Years \cap j.batch : /\ Reviewable(j, y) /\ Resolvable(j, y)
                                             /\ Rests(j, y) \in Versions
             /\ block' = [block EXCEPT ![j.release] = [y \in Years |->
                             IF y \in j.batch THEN "accepted" ELSE @[y]]]
             /\ resolved' = [resolved EXCEPT ![source] = [y \in Years |->
                             IF y \in j.batch THEN Resolving(j, y) ELSE @[y]]]
             /\ derived' = [derived EXCEPT ![source] = [y \in Years |->
                             IF y \in j.batch THEN Deriving(j, y) ELSE @[y]]]
             /\ selections' = ReviewSelects(j)
    <2>1. /\ block' \in [Releases -> [Years -> Standings]]
          /\ \A r \in Releases, y \in Years :
                block[r][y] = "accepted" => block'[r][y] = "accepted"
      BY <1>1, <1>2, <1>7 DEF Types, Standings
    <2>2. /\ derived' \in [Sources -> [Years -> Seq(Value)]]
          /\ \A a \in Sources, y \in Years : \A n \in DOMAIN derived[a][y] :
                n \in DOMAIN derived'[a][y] /\ derived'[a][y][n] = derived[a][y][n]
      <3>1. \A y \in Years \cap j.batch :
              /\ Deriving(j, y) \in Seq(Value)
              /\ \A n \in DOMAIN derived[source][y] :
                   /\ n \in DOMAIN Deriving(j, y)
                   /\ Deriving(j, y)[n] = derived[source][y][n]
        BY <1>1, <1>2, <1>7, DerivingKeeps
      <3>2. derived \in [Sources -> [Years -> Seq(Value)]]
        BY <1>1 DEF Types
      <3>3. \A a \in Sources, y \in Years :
              derived'[a][y] = IF a = source /\ y \in j.batch THEN Deriving(j, y)
                               ELSE derived[a][y]
        BY <1>2, <1>7, <3>2
      <3>4. \A a \in Sources, y \in Years :
              /\ derived'[a][y] \in Seq(Value)
              /\ \A n \in DOMAIN derived[a][y] :
                   n \in DOMAIN derived'[a][y] /\ derived'[a][y][n] = derived[a][y][n]
        BY <3>1, <3>2, <3>3
      <3>5. derived' = [a \in Sources |-> derived'[a]]
        BY <1>7, <3>2
      <3>6. \A a \in Sources : derived'[a] = [y \in Years |-> derived'[a][y]]
        BY <1>2, <1>7, <3>2
      <3>7. \A a \in Sources : derived'[a] \in [Years -> Seq(Value)]
        BY <3>4, <3>6
      <3> QED
        BY <3>4, <3>5, <3>7
    <2>3. /\ selections' \in [Roots -> Seq(Decision)]
          /\ \A root \in Roots : \A n \in DOMAIN selections[root] :
                n \in DOMAIN selections'[root] /\ selections'[root][n] = selections[root][n]
      BY <1>1, <1>7, ReviewSelectsKeeps
    <2>4. ASSUME NEW y \in Years, y \in j.batch
          PROVE  LET chain == resolved[source][y]
                     new == Resolving(j, y)
                 IN /\ new \in Seq(Resolution)
                    /\ Len(new) <= MaxVersion
                    /\ \A v \in DOMAIN chain : v \in DOMAIN new /\ new[v] = chain[v]
                    /\ new # chain => /\ DOMAIN new = 1 .. Len(chain) + 1
                                      /\ new[Len(chain) + 1] = [release |-> j.release,
                                                                supersedes |-> Len(chain)]
                                      /\ Len(chain) > 0 => chain[Len(chain)].release # j.release
      BY <1>1, <1>2, <1>7, <2>4, ResolvingKeeps DEF Chain
    <2>5. \A a \in Sources, y \in Years :
            resolved'[a][y] = IF a = source /\ y \in j.batch THEN Resolving(j, y)
                              ELSE resolved[a][y]
      BY <1>1, <1>2, <1>7 DEF Types
    <2>6. ASSUME NEW a \in Sources, NEW y \in Years
          PROVE  /\ resolved'[a][y] \in Seq(Resolution)
                 /\ Len(resolved'[a][y]) <= MaxVersion
                 /\ \A v \in DOMAIN resolved[a][y] :
                      v \in DOMAIN resolved'[a][y] /\ resolved'[a][y][v] = resolved[a][y][v]
      <3>1. CASE a = source /\ y \in j.batch
        <4>1. resolved'[a][y] = Resolving(j, y) /\ a = source
          BY <2>5, <3>1
        <4>2. /\ Resolving(j, y) \in Seq(Resolution)
              /\ Len(Resolving(j, y)) <= MaxVersion
              /\ \A v \in DOMAIN resolved[source][y] :
                    /\ v \in DOMAIN Resolving(j, y)
                    /\ Resolving(j, y)[v] = resolved[source][y][v]
          BY <2>4, <3>1
        <4> QED
          BY <4>1, <4>2
      <3>2. CASE ~(a = source /\ y \in j.batch)
        BY <1>1, <2>5, <3>2 DEF Types
      <3> QED
        BY <3>1, <3>2
    <2>7. resolved' \in [Sources -> [Years -> Seq(Resolution)]]
      <3>1. resolved' = [a \in Sources |-> resolved'[a]]
        BY <1>1, <1>7 DEF Types
      <3>2. \A a \in Sources : resolved'[a] = [y \in Years |-> resolved'[a][y]]
        BY <1>1, <1>2, <1>7 DEF Types
      <3>3. \A a \in Sources : resolved'[a] \in [Years -> Seq(Resolution)]
        BY <2>6, <3>2
      <3> QED
        BY <3>1, <3>3
    <2>8. Types'
      BY <1>1, <1>4, <1>5, <2>1, <2>2, <2>3, <2>6, <2>7 DEF Types
    <2>9. Kept
      BY <1>1, <1>5, <2>1, <2>2, <2>3, <2>6 DEF Kept, Arrived
    <2>10. ASSUME NEW a \in Sources, NEW y \in Years, NEW v \in DOMAIN resolved'[a][y]
           PROVE  /\ resolved'[a][y][v].supersedes = v - 1
                  /\ v > 1 => resolved'[a][y][v].release # resolved'[a][y][v - 1].release
      <3> DEFINE chain == resolved[a][y]
      <3>1. \A u \in DOMAIN chain : /\ chain[u].supersedes = u - 1
                                    /\ u > 1 => chain[u].release # chain[u - 1].release
        BY <1>1 DEF ResolutionsAreLinear
      <3>2. CASE resolved'[a][y] = chain
        BY <3>1, <3>2
      <3>3. CASE resolved'[a][y] # chain
        <4>1. a = source /\ y \in j.batch
          BY <2>5, <3>3
        <4>2. chain \in Seq(Resolution)
          BY <1>1 DEF Types
        <4>3. Len(chain) \in Nat /\ DOMAIN chain = 1 .. Len(chain)
          BY <4>2, LenProperties
        <4>4. /\ DOMAIN resolved'[a][y] = 1 .. Len(chain) + 1
              /\ resolved'[a][y][Len(chain) + 1] = [release |-> j.release,
                                                    supersedes |-> Len(chain)]
              /\ Len(chain) > 0 => chain[Len(chain)].release # j.release
              /\ \A u \in DOMAIN chain : resolved'[a][y][u] = chain[u]
          <5> DEFINE new == Resolving(j, y)
          <5>1. resolved'[a][y] = new /\ a = source /\ new # chain
            BY <2>5, <3>3, <4>1
          <5>2. new # resolved[source][y] =>
                  /\ DOMAIN new = 1 .. Len(resolved[source][y]) + 1
                  /\ new[Len(resolved[source][y]) + 1] =
                        [release |-> j.release, supersedes |-> Len(resolved[source][y])]
                  /\ Len(resolved[source][y]) > 0 =>
                        resolved[source][y][Len(resolved[source][y])].release # j.release
            BY <2>4, <4>1
          <5>3. \A u \in DOMAIN resolved[source][y] : new[u] = resolved[source][y][u]
            BY <2>4, <4>1
          <5> HIDE DEF new
          <5> QED
            BY <5>1, <5>2, <5>3
        <4>5. CASE v = Len(chain) + 1
          BY <4>3, <4>4, <4>5
        <4>6. CASE v # Len(chain) + 1
          <5>1. v \in DOMAIN chain /\ (v > 1 => v - 1 \in DOMAIN chain)
            BY <4>3, <4>4, <4>6
          <5> QED
            BY <3>1, <4>4, <5>1
        <4> QED
          BY <4>5, <4>6
      <3> QED
        BY <3>2, <3>3
    <2>11. ResolutionsAreLinear'
      BY <2>10 DEF ResolutionsAreLinear
    <2> QED
      BY <2>8, <2>9, <2>11
  <1> QED
    BY <1>6, <1>7, SavedChains

LEMMA SavingSweepTypes ==
    ASSUME EvidenceInv, NEW s \in Sweepers, EndSweep(s) \/ Compare(s) \/ Crash(s)
    PROVE  Types'
  <1>1. s \in Sessions /\ s \notin Publishers
    BY SessionAssumption DEF Sessions
  <1>2. NoSweep \in Sweep
    BY DEF NoSweep, Sweep, Standings
  <1>3. job[s] \in Sweep /\ Types
    BY DEF EvidenceInv, Types
  <1>4. job' = [job EXCEPT ![s] = job[s]] \/ job' = [job EXCEPT ![s] = NoSweep]
    BY DEF EndSweep, Compare, Crash
  <1>5. /\ job' \in [Sessions -> Sweep \cup Draft]
        /\ \A u \in Sweepers : job'[u] \in Sweep
        /\ \A p \in Publishers : job'[p] \in Draft
    <2>1. CASE job' = [job EXCEPT ![s] = job[s]]
      BY <1>1, <1>3, <2>1, JobIsTyped
    <2>2. CASE job' = [job EXCEPT ![s] = NoSweep]
      BY <1>1, <1>2, <1>3, <2>2, JobIsTyped
    <2> QED
      BY <1>4, <2>1, <2>2
  <1>6. pc' \in [Sessions -> Steps]
    BY <1>1, <1>3 DEF Types, EndSweep, Compare, Crash, To, Steps
  <1>7. comparisons' \in [Years -> Seq(Comparison)]
        /\ \A y \in Years : Len(comparisons'[y]) <= MaxVersion
    <2>1. CASE Compare(s)
      <3> DEFINE r == job[s].release
      <3>1. r \in Releases /\ \A y \in Years : Len(comparisons[y]) < MaxVersion
        BY <2>1 DEF EvidenceInv, Sweeping, Compare
      <3>2. ASSUME NEW y \in Years
            PROVE  /\ Append(comparisons[y], Compared(r, y)) \in Seq(Comparison)
                   /\ Len(Append(comparisons[y], Compared(r, y))) = Len(comparisons[y]) + 1
                   /\ comparisons[y] \in Seq(Comparison)
                   /\ Len(comparisons[y]) \in Nat
        BY <1>3, <3>1, ComparedIsTyped, AppendProperties, LenProperties DEF Types
      <3>3. \A y \in Years : \/ comparisons'[y] = comparisons[y]
                             \/ comparisons'[y] = Append(comparisons[y], Compared(r, y))
        BY <2>1 DEF Compare
      <3>4. ASSUME NEW y \in Years
            PROVE  comparisons'[y] \in Seq(Comparison) /\ Len(comparisons'[y]) <= MaxVersion
        <4>1. CASE comparisons'[y] = comparisons[y]
          BY <3>1, <3>2, <4>1, Bounds
        <4>2. CASE comparisons'[y] = Append(comparisons[y], Compared(r, y))
          <5> DEFINE n == Len(comparisons[y])
          <5>1. n \in Nat /\ n < MaxVersion /\ Len(comparisons'[y]) = n + 1
            BY <3>1, <3>2, <4>2
          <5>2. n + 1 <= MaxVersion
            BY <5>1, Bounds
          <5> QED
            BY <3>2, <4>2, <5>1, <5>2
        <4> QED
          BY <3>3, <4>1, <4>2
      <3>5. comparisons' = [y \in Years |-> comparisons'[y]]
        BY <2>1 DEF Compare
      <3> QED
        BY <3>4, <3>5
    <2>2. CASE EndSweep(s) \/ Crash(s)
      BY <1>3, <2>2 DEF Types, EndSweep, Crash
    <2> QED
      BY <2>1, <2>2
  <1>8. UNCHANGED <<ingested, block, rejected, resolved, derived, selections, pages>>
    BY DEF EndSweep, Compare, Crash
  <1> QED
    BY <1>3, <1>5, <1>6, <1>7, <1>8 DEF Types

LEMMA ReviewerTypes ==
    ASSUME EvidenceInv,
           \/ \E r \in Releases : Ingest(r) \/ \E y \in Years : Reject(r, y)
           \/ \E root \in Roots : Decline(root)
    PROVE  Types'
  <1>1. Types
    BY DEF EvidenceInv
  <1>2. ASSUME NEW r \in Releases, Ingest(r) PROVE Types'
    <2>1. SourceOf[r] \in Sources
      BY Bounds
    <2>2. Append(ingested[SourceOf[r]], r) \in Seq(Releases)
      BY <1>1, <2>1, AppendProperties DEF Types
    <2>3. ingested' \in [Sources -> Seq(Releases)]
      BY <1>1, <1>2, <2>1, <2>2 DEF Types, Ingest
    <2>4. block' \in [Releases -> [Years -> Standings]]
      BY <1>1, <1>2 DEF Types, Ingest, Standings
    <2> QED
      BY <1>1, <1>2, <2>3, <2>4 DEF Types, Ingest
  <1>3. ASSUME NEW r \in Releases, NEW y \in Years, Reject(r, y) PROVE Types'
    BY <1>1, <1>3 DEF Types, Reject, Standings
  <1>4. ASSUME NEW root \in Roots, Decline(root) PROVE Types'
    <2>1. [status |-> "rejected", by |-> "human"] \in Decision
      BY DEF Decision
    <2>2. selections' \in [Roots -> Seq(Decision)]
      BY <1>1, <1>4, <2>1, RecordedKeeps DEF Types, Decline
    <2> QED
      BY <1>1, <1>4, <2>2 DEF Types, Decline
  <1> QED
    BY <1>2, <1>3, <1>4

\* The logs after a publication.
LEMMA RuleSelectsKeeps ==
    ASSUME Types, NEW p \in Publishers
    PROVE  /\ RuleSelects(job[p]) \in [Roots -> Seq(Decision)]
           /\ \A root \in Roots : \A n \in DOMAIN selections[root] :
                /\ n \in DOMAIN RuleSelects(job[p])[root]
                /\ RuleSelects(job[p])[root][n] = selections[root][n]
  <1> DEFINE decision == [status |-> "selected", by |-> "standing_rule"]
  <1>1. decision \in Decision
    BY DEF Decision
  <1>2. \A root \in Roots : \/ RuleSelects(job[p])[root] = Recorded(root, decision)
                            \/ RuleSelects(job[p])[root] = selections[root]
    BY DEF RuleSelects
  <1>3. ASSUME NEW root \in Roots
        PROVE  /\ RuleSelects(job[p])[root] \in Seq(Decision)
               /\ \A n \in DOMAIN selections[root] :
                    /\ n \in DOMAIN RuleSelects(job[p])[root]
                    /\ RuleSelects(job[p])[root][n] = selections[root][n]
    <2>1. selections[root] \in Seq(Decision)
      BY DEF Types
    <2> QED
      BY <1>1, <1>2, <2>1, RecordedKeeps
  <1>4. RuleSelects(job[p]) \in [Roots -> Seq(Decision)]
    <2>1. RuleSelects(job[p]) = [root \in Roots |-> RuleSelects(job[p])[root]]
      BY DEF RuleSelects
    <2> QED
      BY <1>3, <2>1
  <1> QED
    BY <1>3, <1>4

\* What a publisher's step does to its draft and to the pages.
LEMMA PublisherSteps ==
    ASSUME EvidenceInv, NEW p \in Publishers, Assemble(p) \/ ApplyRule(p) \/ Publish(p)
    PROVE  /\ Types'
           /\ \A u \in Sessions \ {p} : job'[u] = job[u] /\ pc'[u] = pc[u]
           /\ UNCHANGED <<ingested, block, rejected, resolved, derived>>
           /\ pc'[p] # "idle" =>
                /\ job'[p].year \in Years
                /\ job'[p].page \in Page
                /\ UNCHANGED selections
                /\ Honest(job'[p].year, job'[p].page)
           /\ \/ UNCHANGED pages
              \/ /\ pc[p] # "idle"
                 /\ pages' = [pages EXCEPT ![job[p].year] = Append(@, job[p].page)]
           /\ UNCHANGED selections \/ selections' = RuleSelects(job[p])
  <1>1. Types /\ Listed /\ Numbered /\ Drafting
    BY DEF EvidenceInv
  <1>2. p \in Sessions /\ p \notin Sweepers
    BY SessionAssumption DEF Sessions
  <1>3. job \in [Sessions -> Sweep \cup Draft] /\ job[p] \in Draft /\ pc \in [Sessions -> Steps]
    BY <1>1 DEF Types
  <1>4. CASE Assemble(p)
    <2>1. PICK y \in Years :
             IF \/ NewestRelease("wpp") = None
                \/ ~Ready(NewestRelease("wpp"), y)
                \/ ContextFails(y)
             THEN UNCHANGED <<pc, job>>
             ELSE /\ To(p, "ruling")
                  /\ job' = [job EXCEPT ![p] = [NoDraft EXCEPT !.year = y, !.page = Assembled(y)]]
      BY <1>4 DEF Assemble
    <2>2. UNCHANGED <<ingested, block, rejected, resolved, derived, comparisons, selections, pages>>
      BY <1>4 DEF Assemble
    <2>3. CASE UNCHANGED <<pc, job>>
      <3>1. Types'
        BY <1>1, <2>2, <2>3 DEF Types
      <3>2. pc[p] = "idle"
        BY <1>4 DEF Assemble
      <3> QED
        BY <2>2, <2>3, <3>1, <3>2
    <2>4. CASE ~(UNCHANGED <<pc, job>>)
      <3> DEFINE next == [NoDraft EXCEPT !.year = y, !.page = Assembled(y)]
      <3>1. Assembled(y) \in Page /\ Honest(y, Assembled(y))
        BY <1>1, <2>1, <2>4, AssembledIsHonest
      <3>2. next \in Draft /\ next.year = y /\ next.page = Assembled(y)
        BY <3>1, Bounds DEF NoDraft, Draft
      <3>3. job' = [job EXCEPT ![p] = next] /\ pc' = [pc EXCEPT ![p] = "ruling"]
        BY <2>1, <2>4 DEF To
      <3> HIDE DEF next
      <3>4. /\ job' \in [Sessions -> Sweep \cup Draft]
            /\ \A u \in Sweepers : job'[u] \in Sweep
            /\ \A v \in Publishers : job'[v] \in Draft
        BY <1>1, <1>2, <3>2, <3>3, JobIsTyped
      <3>5. Types'
        BY <1>1, <1>3, <2>2, <3>3, <3>4 DEF Types, Steps
      <3>6. \A u \in Sessions \ {p} : job'[u] = job[u] /\ pc'[u] = pc[u]
        BY <1>3, <3>3
      <3>7. job'[p] = next
        BY <1>2, <1>3, <3>3
      <3> QED
        BY <2>2, <3>1, <3>2, <3>5, <3>6, <3>7
    <2> QED
      BY <2>3, <2>4
  <1>5. CASE ApplyRule(p)
    <2> DEFINE fresh == {root \in RootsOf(job[p].year, job[p].page) : Undecided(root)}
    <2>1. /\ job[p].year \in Years /\ job[p].page \in Page
          /\ Honest(job[p].year, job[p].page)
      BY <1>1, <1>5 DEF Drafting, ApplyRule
    <2>2. fresh \subseteq Roots
      BY <2>1, RootsAreTyped
    <2>3. job' = [job EXCEPT ![p] = [job[p] EXCEPT !.fresh = fresh]]
      BY <1>2, <1>3, <1>5 DEF ApplyRule
    <2> DEFINE next == [job[p] EXCEPT !.fresh = fresh]
    <2>4. next \in Draft /\ next.year = job[p].year /\ next.page = job[p].page
      BY <1>3, <2>2 DEF Draft
    <2> HIDE DEF fresh, next
    <2>5. job' = [job EXCEPT ![p] = next]
      BY <2>3 DEF next
    <2>6. /\ job' \in [Sessions -> Sweep \cup Draft]
          /\ \A u \in Sweepers : job'[u] \in Sweep
          /\ \A v \in Publishers : job'[v] \in Draft
      BY <1>1, <1>2, <2>4, <2>5, JobIsTyped
    <2>7. /\ UNCHANGED <<ingested, block, rejected, resolved, derived, comparisons, selections, pages>>
          /\ pc' = [pc EXCEPT ![p] = "publishing"]
      BY <1>5 DEF ApplyRule, To
    <2>8. Types'
      BY <1>1, <1>3, <2>6, <2>7 DEF Types, Steps
    <2>9. \A u \in Sessions \ {p} : job'[u] = job[u] /\ pc'[u] = pc[u]
      BY <1>3, <2>5, <2>7
    <2>10. job'[p] = next
      BY <1>2, <1>3, <2>5
    <2> QED
      BY <2>1, <2>4, <2>7, <2>8, <2>9, <2>10
  <1>6. CASE Publish(p)
    <2>1. /\ job[p].year \in Years /\ job[p].page \in Page
          /\ pc[p] # "idle"
      BY <1>1, <1>6 DEF Drafting, Publish
    <2>2. /\ UNCHANGED <<ingested, block, rejected, resolved, derived, comparisons>>
          /\ pc' = [pc EXCEPT ![p] = "idle"]
          /\ job' = [job EXCEPT ![p] = NoDraft]
      BY <1>6 DEF Publish, To
    <2>3. NoDraft \in Draft
      BY DEF NoDraft, Draft
    <2>4. /\ job' \in [Sessions -> Sweep \cup Draft]
          /\ \A u \in Sweepers : job'[u] \in Sweep
          /\ \A v \in Publishers : job'[v] \in Draft
      BY <1>1, <1>2, <2>2, <2>3, JobIsTyped
    <2>5. UNCHANGED selections \/ selections' = RuleSelects(job[p])
      BY <1>6 DEF Publish
    <2>6. selections' \in [Roots -> Seq(Decision)]
      BY <1>1, <2>5, RuleSelectsKeeps DEF Types
    <2>7. \/ UNCHANGED pages
          \/ pages' = [pages EXCEPT ![job[p].year] = Append(@, job[p].page)]
      BY <1>6 DEF Publish
    <2>8. pages' \in [Years -> Seq(Page)]
      <3>1. Append(pages[job[p].year], job[p].page) \in Seq(Page)
        BY <1>1, <2>1, AppendProperties DEF Types
      <3>2. pages \in [Years -> Seq(Page)]
        BY <1>1 DEF Types
      <3> QED
        BY <2>1, <2>7, <3>1, <3>2
    <2>9. Types'
      BY <1>1, <1>3, <2>2, <2>4, <2>6, <2>8 DEF Types, Steps
    <2>10. \A u \in Sessions \ {p} : job'[u] = job[u] /\ pc'[u] = pc[u]
      BY <1>3, <2>2
    <2>11. pc'[p] = "idle"
      BY <1>2, <1>3, <2>2
    <2> QED
      BY <2>1, <2>2, <2>5, <2>7, <2>9, <2>10, <2>11
  <1> QED
    BY <1>4, <1>5, <1>6

----------------------------------------------------------------------------
(* Preservation.                                                           *)

\* The steps of Next, and stuttering.
LEMMA StepCases ==
    ASSUME [Next]_vars
    PROVE  \/ \E r \in Releases : Ingest(r)
           \/ \E r \in Releases, y \in Years : Reject(r, y)
           \/ \E root \in Roots : Decline(root)
           \/ \E s \in Sweepers : \/ StartSweep(s) \/ LoadYears(s) \/ SaveYears(s)
                                  \/ EndSweep(s) \/ Compare(s) \/ Crash(s)
           \/ \E p \in Publishers : Assemble(p) \/ ApplyRule(p) \/ Publish(p)
           \/ UNCHANGED vars
  BY DEF Next

\* A new release goes to the end of its source's list.
LEMMA IngestAppends ==
    ASSUME Types, NEW r \in Releases, Ingest(r), NEW a \in Sources
    PROVE  /\ Len(ingested[a]) \in Nat
           /\ DOMAIN ingested[a] = 1 .. Len(ingested[a])
           /\ \A n \in DOMAIN ingested[a] :
                n \in DOMAIN ingested'[a] /\ ingested'[a][n] = ingested[a][n]
           /\ a # SourceOf[r] => ingested'[a] = ingested[a]
           /\ a = SourceOf[r] => /\ DOMAIN ingested'[a] = 1 .. Len(ingested[a]) + 1
                                 /\ ingested'[a][Len(ingested[a]) + 1] = r
                                 /\ \A n \in DOMAIN ingested[a] : ingested[a][n] # r
  <1>1. ingested[a] \in Seq(Releases) /\ ingested \in [Sources -> Seq(Releases)]
    BY DEF Types
  <1>2. Len(ingested[a]) \in Nat /\ DOMAIN ingested[a] = 1 .. Len(ingested[a])
    BY <1>1, LenProperties
  <1>3. CASE a # SourceOf[r]
    BY <1>1, <1>2, <1>3 DEF Ingest
  <1>4. CASE a = SourceOf[r]
    <2>1. ingested'[a] = Append(ingested[a], r)
      BY <1>1, <1>4 DEF Ingest
    <2>2. /\ DOMAIN ingested'[a] = 1 .. Len(ingested[a]) + 1
          /\ ingested'[a][Len(ingested[a]) + 1] = r
          /\ \A n \in 1 .. Len(ingested[a]) : ingested'[a][n] = ingested[a][n]
      BY <1>1, <2>1, AppendProperties, LenProperties
    <2> QED
      BY <1>2, <1>4, <2>2 DEF Ingest
  <1> QED
    BY <1>3, <1>4

\* Each step keeps the types, and takes nothing back.
LEMMA StepKeeps ==
    ASSUME EvidenceInv, [Next]_vars
    PROVE  Types' /\ Kept /\ ResolutionsAreLinear'
  <1>1. Types /\ Listed /\ ResolutionsAreLinear
    BY DEF EvidenceInv
  <1>2. ASSUME NEW r \in Releases, Ingest(r)
        PROVE  Types' /\ Kept /\ ResolutionsAreLinear'
    <2>1. Types'
      BY <1>2, ReviewerTypes
    <2>2. ~Arrived(r) /\ \A y \in Years : block[r][y] # "accepted"
      BY <1>1, <1>2 DEF Listed, Arrived, Ingest
    <2>3. \A q \in Releases, y \in Years : block[q][y] = "accepted" => block'[q][y] = "accepted"
      BY <1>1, <1>2, <2>2 DEF Types, Ingest
    <2>4. \A a \in Sources : \A n \in DOMAIN ingested[a] :
            n \in DOMAIN ingested'[a] /\ ingested'[a][n] = ingested[a][n]
      BY <1>1, <1>2, IngestAppends
    <2> QED
      BY <1>1, <1>2, <2>1, <2>3, <2>4 DEF Kept, Ingest, ResolutionsAreLinear
  <1>3. ASSUME NEW r \in Releases, NEW y \in Years, Reject(r, y)
        PROVE  Types' /\ Kept /\ ResolutionsAreLinear'
    <2>1. Types'
      BY <1>3, ReviewerTypes
    <2>2. \A q \in Releases, u \in Years : block[q][u] = "accepted" => block'[q][u] = "accepted"
      BY <1>1, <1>3 DEF Types, Reject
    <2> QED
      BY <1>1, <1>3, <2>1, <2>2 DEF Kept, Reject, Arrived, ResolutionsAreLinear
  <1>4. ASSUME NEW root \in Roots, Decline(root)
        PROVE  Types' /\ Kept /\ ResolutionsAreLinear'
    <2>1. Types'
      BY <1>4, ReviewerTypes
    <2>2. [status |-> "rejected", by |-> "human"] \in Decision
      BY DEF Decision
    <2>3. ASSUME NEW other \in Roots, NEW n \in DOMAIN selections[other]
          PROVE  n \in DOMAIN selections'[other] /\ selections'[other][n] = selections[other][n]
      BY <1>1, <1>4, <2>2, RecordedKeeps DEF Types, Decline
    <2> QED
      BY <1>1, <1>4, <2>1, <2>3 DEF Kept, Decline, Arrived, ResolutionsAreLinear
  <1>5. ASSUME NEW s \in Sweepers,
               StartSweep(s) \/ LoadYears(s) \/ EndSweep(s) \/ Compare(s) \/ Crash(s)
        PROVE  Types' /\ Kept /\ ResolutionsAreLinear'
    <2>1. Types'
      BY <1>5, StartSweepTypes, LoadYearsTypes, SavingSweepTypes
    <2>2. UNCHANGED <<ingested, block, rejected, resolved, derived, selections>>
      BY <1>5 DEF StartSweep, LoadYears, EndSweep, Compare, Crash
    <2> QED
      BY <1>1, <2>1, <2>2 DEF Kept, Arrived, ResolutionsAreLinear
  <1>6. ASSUME NEW s \in Sweepers, SaveYears(s)
        PROVE  Types' /\ Kept /\ ResolutionsAreLinear'
    BY <1>6, SaveYearsKeeps
  <1>7. ASSUME NEW p \in Publishers, Assemble(p) \/ ApplyRule(p) \/ Publish(p)
        PROVE  Types' /\ Kept /\ ResolutionsAreLinear'
    <2>1. /\ Types'
          /\ UNCHANGED <<ingested, block, rejected, resolved, derived>>
          /\ UNCHANGED selections \/ selections' = RuleSelects(job[p])
      BY <1>7, PublisherSteps
    <2>2. \A root \in Roots : \A n \in DOMAIN selections[root] :
            n \in DOMAIN selections'[root] /\ selections'[root][n] = selections[root][n]
      BY <1>1, <2>1, RuleSelectsKeeps
    <2> QED
      BY <1>1, <2>1, <2>2 DEF Kept, Arrived, ResolutionsAreLinear
  <1>8. CASE UNCHANGED vars
    BY <1>1, <1>8 DEF vars, Types, Kept, Arrived, ResolutionsAreLinear
  <1> QED
    BY <1>2, <1>3, <1>4, <1>5, <1>6, <1>7, <1>8, StepCases

\* What makes a page honest is never taken back.
LEMMA HonestStays ==
    ASSUME Types, Kept, NEW y \in Years, NEW page, Honest(y, page)
    PROVE  Honest(y, page)'
  <1>1. ASSUME NEW source \in Sources, NEW v, NEW r, Backed(source, y, v, r)
        PROVE  Backed(source, y, v, r)'
    <2>1. resolved[source][y] \in Seq(Resolution) /\ v \in DOMAIN resolved[source][y]
      BY <1>1 DEF Types, Backed
    <2>2. resolved[source][y][v] \in Resolution
      BY <2>1, LenProperties, ElementOfSeq
    <2>3. r \in Releases
      BY <1>1, <2>2 DEF Resolution, Backed
    <2>4. PICK n \in DOMAIN derived[source][y] : derived[source][y][n].on = v
      BY <1>1 DEF Backed, DerivedOn
    <2>5. n \in DOMAIN derived'[source][y] /\ derived'[source][y][n].on = v
      BY <2>4 DEF Kept
    <2>6. v \in DerivedOn(source, y)'
      BY <2>5 DEF DerivedOn
    <2> QED
      BY <1>1, <2>1, <2>3, <2>6 DEF Backed, Kept
  <1>2. "wpp" \in Sources /\ "ucdp" \in Sources
    BY DEF Sources
  <1>3. OnceDeclined(y) => OnceDeclined(y)'
    <2>1. \A v \in Versions : <<"ucdp", y, v>> \in Roots
      BY <1>2 DEF Roots
    <2> QED
      BY <2>1 DEF OnceDeclined, Kept
  <1>4. Absence(y, page) => Absence(y, page)'
    BY <1>3 DEF Absence, Covered
  <1> QED
    BY <1>1, <1>2, <1>4 DEF Honest

\* What was the newest release at some time was so for good.
LEMMA NewestAtStays ==
    ASSUME Kept, NEW r \in Releases, NEW at, NewestAt(r, at)
    PROVE  NewestAt(r, at)'
  BY Bounds DEF Kept, NewestAt

LEMMA ListedStep ==
    ASSUME EvidenceInv, [Next]_vars
    PROVE  Listed'
  <1>1. Types /\ Listed /\ Kept
    BY StepKeeps DEF EvidenceInv
  <1>2. ASSUME NEW q \in Releases, Arrived(q) PROVE Arrived(q)'
    BY <1>1, <1>2, Bounds DEF Kept, Arrived
  <1>3. ASSUME NEW r \in Releases, Ingest(r) PROVE Listed'
    <2>1. SourceOf[r] \in Sources
      BY Bounds
    <2>2. ASSUME NEW a \in Sources, NEW n \in DOMAIN ingested'[a]
          PROVE  /\ SourceOf[ingested'[a][n]] = a
                 /\ \A m \in DOMAIN ingested'[a] :
                        ingested'[a][m] = ingested'[a][n] => m = n
      <3>1. CASE a = SourceOf[r]
        <4> DEFINE last == Len(ingested[a]) + 1
        <4>1. /\ DOMAIN ingested[a] = 1 .. Len(ingested[a]) /\ Len(ingested[a]) \in Nat
              /\ DOMAIN ingested'[a] = 1 .. last
              /\ ingested'[a][last] = r
              /\ \A k \in DOMAIN ingested[a] : ingested'[a][k] = ingested[a][k]
              /\ \A k \in DOMAIN ingested[a] : ingested[a][k] # r
          BY <1>1, <1>3, <3>1, IngestAppends
        <4>2. \A k \in DOMAIN ingested'[a] : k = last \/ k \in DOMAIN ingested[a]
          BY <4>1
        <4> HIDE DEF last
        <4>3. \A k, m \in DOMAIN ingested[a] : ingested[a][m] = ingested[a][k] => m = k
          BY <1>1 DEF Listed
        <4>4. \A k \in DOMAIN ingested[a] : SourceOf[ingested[a][k]] = a
          BY <1>1 DEF Listed
        <4> QED
          BY <3>1, <4>1, <4>2, <4>3, <4>4
      <3>2. CASE a # SourceOf[r]
        <4>1. ingested'[a] = ingested[a]
          BY <1>1, <1>3, <3>2, IngestAppends
        <4> QED
          BY <1>1, <4>1 DEF Listed
      <3> QED
        BY <3>1, <3>2
    <2>3. ASSUME NEW q \in Releases, NEW y \in Years, block'[q][y] # "absent"
          PROVE  Arrived(q)'
      <3>1. CASE q = r
        <4>1. \E n \in DOMAIN ingested'[SourceOf[r]] : ingested'[SourceOf[r]][n] = r
          BY <1>1, <1>3, <2>1, IngestAppends
        <4> QED
          BY <3>1, <4>1 DEF Arrived
      <3>2. CASE q # r
        <4>1. block[q][y] # "absent"
          BY <1>1, <1>3, <2>3, <3>2 DEF Types, Ingest
        <4> QED
          BY <1>1, <1>2, <4>1 DEF Listed
      <3> QED
        BY <3>1, <3>2
    <2> QED
      BY <2>2, <2>3 DEF Listed
  <1>4. ASSUME UNCHANGED ingested,
               \A q \in Releases, y \in Years : block'[q][y] # "absent" =>
                  block[q][y] # "absent" \/ Arrived(q)
        PROVE  Listed'
    BY <1>1, <1>2, <1>4 DEF Listed
  <1>5. ASSUME NEW s \in Sweepers, SaveYears(s) PROVE Listed'
    <2>1. UNCHANGED ingested
      BY <1>5 DEF SaveYears
    <2>2. Arrived(job[s].release)
      BY <1>5 DEF EvidenceInv, Sweeping, NewestAt, Arrived, SaveYears
    <2>3. ASSUME NEW q \in Releases, NEW y \in Years, block'[q][y] # "absent"
          PROVE  block[q][y] # "absent" \/ Arrived(q)
      <3>1. q = job[s].release \/ block'[q][y] = block[q][y]
        <4>1. \/ UNCHANGED block
              \/ block' = [block EXCEPT ![job[s].release] = [y0 \in Years |->
                                IF y0 \in job[s].batch THEN "accepted" ELSE @[y0]]]
          BY <1>5, SavedChains
        <4> QED
          BY <1>1, <4>1 DEF Types
      <3> QED
        BY <2>2, <2>3, <3>1
    <2> QED
      BY <1>4, <2>1, <2>3
  <1>6. ASSUME NEW r \in Releases, NEW u \in Years, Reject(r, u) PROVE Listed'
    <2>1. \A q \in Releases, y \in Years : block'[q][y] # "absent" => block[q][y] # "absent"
      BY <1>1, <1>6 DEF Types, Reject
    <2> QED
      BY <1>4, <1>6, <2>1 DEF Reject
  <1>7. CASE UNCHANGED <<ingested, block>>
    BY <1>4, <1>7
  <1> QED
    BY <1>3, <1>5, <1>6, <1>7, StepCases
       DEF vars, Decline, StartSweep, LoadYears, EndSweep, Compare, Crash, Assemble, ApplyRule,
           Publish

\* Nobody else touches what a sweep has read.
LEMMA SweepersApart ==
    ASSUME EvidenceInv, [Next]_vars, NEW u \in Sweepers
    PROVE  \/ StartSweep(u) \/ LoadYears(u) \/ SaveYears(u)
           \/ EndSweep(u) \/ Compare(u) \/ Crash(u)
           \/ job'[u] = job[u] /\ pc'[u] = pc[u]
  <1>1. job \in [Sessions -> Sweep \cup Draft] /\ pc \in [Sessions -> Steps]
    BY DEF EvidenceInv, Types
  <1>2. u \in Sessions /\ u \notin Publishers
    BY SessionAssumption DEF Sessions
  <1>3. ASSUME NEW s \in Sweepers, u # s,
               \/ StartSweep(s) \/ LoadYears(s) \/ SaveYears(s)
               \/ EndSweep(s) \/ Compare(s) \/ Crash(s)
        PROVE  job'[u] = job[u] /\ pc'[u] = pc[u]
    <2>1. s \in Sessions
      BY DEF Sessions
    <2>2. pc'[u] = pc[u]
      BY <1>1, <1>2, <1>3, <2>1
         DEF StartSweep, LoadYears, SaveYears, EndSweep, Compare, Crash, To
    <2>3. CASE SaveYears(s)
      BY <1>2, <1>3, <2>2, <2>3, SaveYearsJob
    <2>4. CASE LoadYears(s)
      BY <1>1, <1>2, <1>3, <2>1, <2>2, <2>4 DEF LoadYears
    <2>5. CASE StartSweep(s) \/ EndSweep(s) \/ Compare(s) \/ Crash(s)
      BY <1>1, <1>2, <1>3, <2>1, <2>2, <2>5 DEF StartSweep, EndSweep, Compare, Crash
    <2> QED
      BY <1>3, <2>3, <2>4, <2>5
  <1>4. ASSUME NEW p \in Publishers, Assemble(p) \/ ApplyRule(p) \/ Publish(p)
        PROVE  job'[u] = job[u] /\ pc'[u] = pc[u]
    <2>1. u # p
      BY <1>2
    <2> QED
      BY <1>2, <1>4, <2>1, PublisherSteps
  <1>5. CASE UNCHANGED <<pc, job>>
    BY <1>5
  <1> QED
    BY <1>3, <1>4, <1>5, StepCases DEF vars, Ingest, Reject, Decline

\* What a sweep reads of the next years is of the release it works on.
LEMMA LoadedJob ==
    ASSUME EvidenceInv, NEW s \in Sweepers, LoadYears(s)
    PROVE  /\ job'[s].release = job[s].release
           /\ job'[s].began = job[s].began
           /\ pc'[s] = "saving" =>
                \A y \in Years : job'[s].status[y] \in {block[job[s].release][y], "absent"}
  <1> DEFINE years == NextBatch(job[s])
  <1>1. /\ job[s] \in Sweep /\ s \in Sessions
        /\ job \in [Sessions -> Sweep \cup Draft] /\ pc \in [Sessions -> Steps]
    BY DEF EvidenceInv, Types, Sessions
  <1>2. CASE job' = [job EXCEPT ![s] = Loaded(job[s], years)]
    <2>1. /\ Loaded(job[s], years).release = job[s].release
          /\ Loaded(job[s], years).began = job[s].began
          /\ \A y \in Years :
                Loaded(job[s], years).status[y] \in {block[job[s].release][y], "absent"}
      BY <1>1 DEF Loaded, Sweep
    <2> QED
      BY <1>1, <1>2, <2>1
  <1>3. CASE job' = [job EXCEPT ![s].todo = @ \ years, ![s].partial = TRUE] /\ UNCHANGED pc
    <2>1. pc'[s] = "loading"
      BY <1>3 DEF LoadYears
    <2> QED
      BY <1>1, <1>3, <2>1 DEF Sweep
  <1> QED
    BY <1>2, <1>3 DEF LoadYears

LEMMA SweepingStep ==
    ASSUME EvidenceInv, [Next]_vars
    PROVE  Sweeping'
  <1>1. Types /\ Listed /\ Kept /\ Sweeping
    BY StepKeeps DEF EvidenceInv
  <1>2. job \in [Sessions -> Sweep \cup Draft] /\ pc \in [Sessions -> Steps]
    BY <1>1 DEF Types
  <1>3. SUFFICES ASSUME NEW u \in Sweepers, pc'[u] # "idle"
                 PROVE  /\ job'[u].release \in Releases
                        /\ NewestAt(job'[u].release, job'[u].began)
    <2>1. ASSUME NEW u \in Sweepers, pc'[u] # "idle", job'[u].release \in Releases,
                 NewestAt(job'[u].release, job'[u].began)
          PROVE  NewestAt(job[u].release, job[u].began)'
      <3>1. PICK r, at : r = job'[u].release /\ at = job'[u].began
        OBVIOUS
      <3>2. NewestAt(r, at)'
        BY <1>1, <2>1, <3>1, NewestAtStays
      <3> QED
        BY <3>1, <3>2 DEF NewestAt
    <2> QED
      BY <1>3, <2>1 DEF Sweeping
  <1>4. u \in Sessions
    BY DEF Sessions
  <1>5. ASSUME job'[u].release = job[u].release, job'[u].began = job[u].began, pc[u] # "idle"
        PROVE  job'[u].release \in Releases /\ NewestAt(job'[u].release, job'[u].began)
    BY <1>1, <1>5 DEF Sweeping
  <1>6. CASE StartSweep(u)
    <2>1. PICK source \in Sources :
             /\ NewestRelease(source) # None
             /\ job'[u].release = NewestRelease(source)
             /\ job'[u].began = Len(ingested[source])
      BY <1>2, <1>4, <1>6 DEF StartSweep, NoSweep
    <2> QED
      BY <1>1, <2>1, NewestArrived
  <1>7. CASE SaveYears(u)
    BY <1>5, <1>7, SaveYearsJob DEF SaveYears
  <1>8. CASE LoadYears(u)
    BY <1>5, <1>8, LoadedJob DEF LoadYears
  <1>9. CASE EndSweep(u)
    <2>1. pc'[u] # "idle" => job'[u] = job[u]
      BY <1>2, <1>4, <1>9 DEF EndSweep, To
    <2> QED
      BY <1>3, <1>5, <1>9, <2>1 DEF EndSweep
  <1>10. CASE Compare(u) \/ Crash(u)
    <2>1. pc'[u] = "idle"
      BY <1>2, <1>4, <1>10 DEF Compare, Crash, To
    <2> QED
      BY <1>3, <2>1
  <1>11. CASE job'[u] = job[u] /\ pc'[u] = pc[u]
    BY <1>3, <1>5, <1>11
  <1> QED
    BY <1>6, <1>7, <1>8, <1>9, <1>10, <1>11, SweepersApart

\* A block read as accepted stays so.
LEMMA ReadingStep ==
    ASSUME EvidenceInv, [Next]_vars
    PROVE  Reading'
  <1>1. Types /\ Kept /\ Sweeping /\ Reading
    BY StepKeeps DEF EvidenceInv
  <1> SUFFICES ASSUME NEW u \in Sweepers, pc'[u] = "saving",
                      NEW y \in Years, job'[u].status[y] = "accepted"
               PROVE  block'[job'[u].release][y] = "accepted"
    BY DEF Reading
  <1>2. u \in Sessions /\ pc \in [Sessions -> Steps]
    BY <1>1 DEF Sessions, Types
  <1>3. CASE job'[u] = job[u] /\ pc'[u] = pc[u]
    BY <1>1, <1>3 DEF Reading, Sweeping, Kept
  <1>4. CASE LoadYears(u)
    <2>1. job[u].release \in Releases
      BY <1>1, <1>4 DEF Sweeping, LoadYears
    <2>2. job'[u].release = job[u].release /\ block[job[u].release][y] = "accepted"
      BY <1>4, LoadedJob
    <2> QED
      BY <1>1, <2>1, <2>2 DEF Kept
  <1>5. CASE StartSweep(u) \/ SaveYears(u) \/ EndSweep(u) \/ Compare(u) \/ Crash(u)
    BY <1>2, <1>5 DEF StartSweep, SaveYears, EndSweep, Compare, Crash, To
  <1> QED
    BY <1>3, <1>4, <1>5, SweepersApart

\* No review accepts what was rejected since it was read.
LEMMA RejectionsStep ==
    ASSUME EvidenceInv, [Next]_vars
    PROVE  Rejections'
  <1>1. Types /\ Listed /\ Reading /\ Rejections
    BY DEF EvidenceInv
  <1>2. block \in [Releases -> [Years -> Standings]]
    BY <1>1 DEF Types
  <1> SUFFICES ASSUME NEW r \in Releases, NEW y \in Years, <<r, y>> \in rejected'
               PROVE  block'[r][y] = "rejected"
    BY DEF Rejections
  <1>3. CASE UNCHANGED <<block, rejected>>
    BY <1>1, <1>3 DEF Rejections
  <1>4. ASSUME NEW q \in Releases, Ingest(q) PROVE block'[r][y] = "rejected"
    <2>1. block[r][y] = "rejected"
      BY <1>1, <1>4 DEF Rejections, Ingest
    <2>2. r # q
      BY <1>1, <1>4, <2>1 DEF Listed, Arrived, Ingest
    <2> QED
      BY <1>2, <1>4, <2>1, <2>2 DEF Ingest
  <1>5. ASSUME NEW q \in Releases, NEW u \in Years, Reject(q, u) PROVE block'[r][y] = "rejected"
    BY <1>1, <1>2, <1>5 DEF Rejections, Reject
  <1>6. ASSUME NEW s \in Sweepers, SaveYears(s), ~UNCHANGED block
        PROVE  block'[r][y] = "rejected"
    <2>1. /\ job[s].release \in Releases
          /\ UNCHANGED rejected
          /\ \A u \in Years \cap job[s].batch : Reviewable(job[s], u)
          /\ block' = [block EXCEPT ![job[s].release] = [u \in Years |->
                            IF u \in job[s].batch THEN "accepted" ELSE @[u]]]
      BY <1>6, SavedChains
    <2>2. block[r][y] = "rejected"
      BY <1>1, <2>1 DEF Rejections
    <2>3. ~(r = job[s].release /\ y \in job[s].batch)
      BY <1>1, <1>6, <2>1, <2>2 DEF Reviewable, Reading, SaveYears
    <2> QED
      BY <1>2, <2>1, <2>2, <2>3
  <1> QED
    BY <1>3, <1>4, <1>5, <1>6, StepCases
       DEF vars, Decline, StartSweep, LoadYears, SaveYears, EndSweep, Compare, Crash, Assemble,
           ApplyRule, Publish

\* A review that adds a resolution adds a value of its own number on it.
LEMMA NumberedStep ==
    ASSUME EvidenceInv, [Next]_vars
    PROVE  Numbered'
  <1>1. Types /\ Kept /\ Sweeping /\ Numbered
    BY StepKeeps DEF EvidenceInv
  <1>2. ASSUME NEW source \in Sources, NEW r \in Releases, NEW at,
               SourceOf[r] = source, NewestAt(r, at)
        PROVE  at \in DOMAIN ingested'[source] /\ ingested'[source][at] = r
    BY <1>1, <1>2 DEF NewestAt, Kept
  <1>3. ASSUME NEW source \in Sources, NEW y \in Years, NEW n \in DOMAIN derived[source][y]
        PROVE  LET value == derived[source][y][n]
               IN /\ SourceOf[value.from] = source
                  /\ value.at \in DOMAIN ingested'[source]
                  /\ ingested'[source][value.at] = value.from
    BY <1>1 DEF Numbered, NewestAt, Kept
  <1>4. ASSUME UNCHANGED <<resolved, derived>> PROVE Numbered'
    BY <1>1, <1>3, <1>4 DEF Numbered, NewestAt
  <1>5. ASSUME NEW s \in Sweepers, SaveYears(s), ~UNCHANGED <<resolved, derived>>
        PROVE  Numbered'
    <2> DEFINE j == job[s]
               a == SourceOf[job[s].release]
    <2>1. /\ a \in Sources /\ j.release \in Releases
          /\ \A y \in Years \cap j.batch : Resolvable(j, y) /\ Rests(j, y) \in Versions
          /\ resolved' = [resolved EXCEPT ![a] = [y \in Years |->
                             IF y \in j.batch THEN Resolving(j, y) ELSE @[y]]]
          /\ derived' = [derived EXCEPT ![a] = [y \in Years |->
                             IF y \in j.batch THEN Deriving(j, y) ELSE @[y]]]
      BY <1>5, SavedChains
    <2>2. NewestAt(j.release, j.began)
      BY <1>1, <1>5 DEF Sweeping, SaveYears
    <2>3. /\ j.began \in DOMAIN ingested'[a]
          /\ ingested'[a][j.began] = j.release
      BY <1>2, <2>1, <2>2
    <2> SUFFICES ASSUME NEW source \in Sources, NEW y \in Years
                 PROVE  /\ \A n \in DOMAIN derived'[source][y] :
                             LET value == derived'[source][y][n]
                             IN /\ SourceOf[value.from] = source
                                /\ value.at \in DOMAIN ingested'[source]
                                /\ ingested'[source][value.at] = value.from
                        /\ \A v \in DOMAIN resolved'[source][y] :
                             \E n \in DOMAIN derived'[source][y] :
                                /\ derived'[source][y][n].on = v
                                /\ derived'[source][y][n].from
                                     = resolved'[source][y][v].release
      BY DEF Numbered, NewestAt
    <2>4. /\ resolved \in [Sources -> [Years -> Seq(Resolution)]]
          /\ derived \in [Sources -> [Years -> Seq(Value)]]
      BY <1>1 DEF Types
    <2>5. \A v \in DOMAIN resolved[source][y] :
            /\ v \in DOMAIN resolved'[source][y]
            /\ \E n \in DOMAIN derived'[source][y] :
                /\ derived'[source][y][n].on = v
                /\ derived'[source][y][n].from = resolved'[source][y][v].release
      BY <1>1 DEF Numbered, Kept
    <2>6. CASE source = a /\ y \in j.batch
      <3>1. resolved'[source][y] = Resolving(j, y) /\ derived'[source][y] = Deriving(j, y)
        BY <2>1, <2>4, <2>6
      <3>2. /\ \A n \in DOMAIN Deriving(j, y) :
                  \/ n \in DOMAIN derived[a][y]
                  \/ Deriving(j, y)[n] = [on |-> Rests(j, y), from |-> j.release, at |-> j.began]
            /\ \A n \in DOMAIN derived[a][y] : Deriving(j, y)[n] = derived[a][y][n]
            /\ \E n \in DOMAIN Deriving(j, y) : /\ Deriving(j, y)[n].on = Rests(j, y)
                                               /\ Deriving(j, y)[n].from = j.release
        BY <1>1, <2>1, <2>6, DerivingKeeps
      <3>3. ASSUME NEW n \in DOMAIN derived'[source][y]
            PROVE  LET value == derived'[source][y][n]
                   IN /\ SourceOf[value.from] = source
                      /\ value.at \in DOMAIN ingested'[source]
                      /\ ingested'[source][value.at] = value.from
        <4>1. CASE n \in DOMAIN derived[source][y]
          BY <1>3, <2>6, <3>1, <3>2, <4>1
        <4>2. CASE n \notin DOMAIN derived[source][y]
          <5>1. derived'[source][y][n] = [on |-> Rests(j, y), from |-> j.release, at |-> j.began]
            BY <2>6, <3>1, <3>2, <3>3, <4>2
          <5> QED
            BY <2>3, <2>6, <5>1
        <4> QED
          BY <4>1, <4>2
      <3>4. ASSUME NEW v \in DOMAIN resolved'[source][y]
            PROVE  \E n \in DOMAIN derived'[source][y] :
                      /\ derived'[source][y][n].on = v
                      /\ derived'[source][y][n].from = resolved'[source][y][v].release
        <4> DEFINE chain == Chain(j, y)
        <4>1. CASE v \in DOMAIN resolved[source][y]
          BY <2>5, <4>1
        <4>2. CASE v \notin DOMAIN resolved[source][y]
          <5>1. chain = resolved[source][y] /\ Resolvable(j, y) /\ Rests(j, y) \in Versions
            BY <2>1, <2>6 DEF Chain
          <5>2. ~Supports(j, y) /\ Len(chain) = j.latest[y]
            BY <3>1, <4>2, <5>1 DEF Resolving, Resolvable
          <5>3. Rests(j, y) = Len(chain) + 1
            BY <1>1, <2>1, <5>2, OwnIsNext
          <5>4. Resolving(j, y) # chain
            BY <3>1, <4>2, <5>1
          <5>5. /\ DOMAIN Resolving(j, y) = 1 .. Len(chain) + 1
                /\ Resolving(j, y)[Len(chain) + 1].release = j.release
            <6>1. /\ DOMAIN Resolving(j, y) = 1 .. Len(chain) + 1
                  /\ Resolving(j, y)[Len(chain) + 1] = [release |-> j.release,
                                                        supersedes |-> Len(chain)]
              <7>1. Resolvable(job[s], y) /\ Rests(job[s], y) \in Versions
                BY <5>1
              <7>2. Resolving(job[s], y) # Chain(job[s], y)
                BY <5>4
              <7> QED
                BY <1>1, <2>1, <7>1, <7>2, ResolvingKeeps
            <6> QED
              BY <6>1
          <5>6. DOMAIN chain = 1 .. Len(chain) /\ Len(chain) \in Nat
            BY <2>4, <5>1, LenProperties
          <5>7. v = Len(chain) + 1
            BY <3>1, <4>2, <5>1, <5>5, <5>6
          <5> HIDE DEF chain
          <5> QED
            BY <3>1, <3>2, <5>3, <5>5, <5>7
        <4> QED
          BY <4>1, <4>2
      <3> QED
        BY <3>3, <3>4
    <2>7. CASE ~(source = a /\ y \in j.batch)
      <3>1. resolved'[source][y] = resolved[source][y] /\ derived'[source][y] = derived[source][y]
        BY <2>1, <2>4, <2>7
      <3> QED
        BY <1>3, <2>5, <3>1
    <2> QED
      BY <2>6, <2>7
  <1> QED
    BY <1>4, <1>5, StepCases
       DEF vars, Ingest, Reject, Decline, StartSweep, LoadYears, EndSweep, Compare, Crash,
           Assemble, ApplyRule, Publish

\* Nobody else touches a publisher's draft; its own steps make it honest.
LEMMA DraftingStep ==
    ASSUME EvidenceInv, [Next]_vars
    PROVE  Drafting'
  <1>1. Types /\ Kept /\ Drafting
    BY StepKeeps DEF EvidenceInv
  <1>2. job \in [Sessions -> Sweep \cup Draft] /\ pc \in [Sessions -> Steps]
    BY <1>1 DEF Types
  <1> SUFFICES ASSUME NEW u \in Publishers, pc'[u] # "idle"
               PROVE  /\ job'[u].year \in Years
                      /\ job'[u].page \in Page
                      /\ Honest(job[u].year, job[u].page)'
    BY DEF Drafting
  <1>3. u \in Sessions /\ u \notin Sweepers
    BY SessionAssumption DEF Sessions
  <1>4. ASSUME NEW year \in Years, NEW page \in Page, Honest(year, page),
               job'[u].year = year, job'[u].page = page
        PROVE  /\ job'[u].year \in Years
               /\ job'[u].page \in Page
               /\ Honest(job[u].year, job[u].page)'
    <2>1. Honest(year, page)'
      BY <1>1, <1>4, HonestStays
    <2> QED
      BY <1>4, <2>1 DEF Honest, Backed, DerivedOn, Absence, OnceDeclined
  <1>5. ASSUME job'[u] = job[u], pc'[u] = pc[u]
        PROVE  /\ job'[u].year \in Years
               /\ job'[u].page \in Page
               /\ Honest(job[u].year, job[u].page)'
    BY <1>1, <1>4, <1>5 DEF Drafting
  <1>6. ASSUME NEW s \in Sweepers,
               \/ StartSweep(s) \/ LoadYears(s) \/ SaveYears(s)
               \/ EndSweep(s) \/ Compare(s) \/ Crash(s)
        PROVE  job'[u] = job[u] /\ pc'[u] = pc[u]
    <2>1. s \in Sessions /\ u # s
      BY <1>3 DEF Sessions
    <2>2. pc'[u] = pc[u]
      BY <1>2, <1>3, <1>6, <2>1
         DEF StartSweep, LoadYears, SaveYears, EndSweep, Compare, Crash, To
    <2>3. CASE SaveYears(s)
      BY <1>3, <2>1, <2>2, <2>3, SaveYearsJob
    <2>4. CASE LoadYears(s)
      BY <1>2, <1>3, <2>1, <2>2, <2>4 DEF LoadYears
    <2>5. CASE StartSweep(s) \/ EndSweep(s) \/ Compare(s) \/ Crash(s)
      BY <1>2, <1>3, <2>1, <2>2, <2>5 DEF StartSweep, EndSweep, Compare, Crash
    <2> QED
      BY <1>6, <2>3, <2>4, <2>5
  <1>7. ASSUME NEW p \in Publishers, Assemble(p) \/ ApplyRule(p) \/ Publish(p)
        PROVE  /\ job'[u].year \in Years
               /\ job'[u].page \in Page
               /\ Honest(job[u].year, job[u].page)'
    <2>1. CASE u = p
      <3>1. /\ job'[u].year \in Years
            /\ job'[u].page \in Page
            /\ Honest(job'[u].year, job'[u].page)
        BY <1>7, <2>1, PublisherSteps
      <3>2. PICK year \in Years, page \in Page : year = job'[u].year /\ page = job'[u].page
        BY <3>1
      <3> QED
        BY <1>4, <3>1, <3>2
    <2>2. CASE u # p
      BY <1>3, <1>5, <1>7, <2>2, PublisherSteps
    <2> QED
      BY <2>1, <2>2
  <1>8. CASE UNCHANGED <<pc, job>>
    BY <1>5, <1>8
  <1> QED
    BY <1>5, <1>6, <1>7, <1>8, StepCases DEF vars, Ingest, Reject, Decline

\* A page is appended by a publication of an honest draft, or stays.
LEMMA PagesStep ==
    ASSUME EvidenceInv, [Next]_vars
    PROVE  PagesAreHonest'
  <1>1. Types /\ Kept /\ Drafting /\ PagesAreHonest
    BY StepKeeps DEF EvidenceInv
  <1>2. ASSUME UNCHANGED pages PROVE PagesAreHonest'
    <2> SUFFICES ASSUME NEW y \in Years, NEW n \in DOMAIN pages[y]
                 PROVE  Honest(y, pages[y][n])'
      BY <1>2 DEF PagesAreHonest
    <2>1. PICK page : page = pages[y][n]
      OBVIOUS
    <2>2. Honest(y, page)
      BY <1>1, <2>1 DEF PagesAreHonest
    <2>3. Honest(y, page)'
      BY <1>1, <2>2, HonestStays
    <2> QED
      BY <1>2, <2>1, <2>3 DEF Honest, Backed, DerivedOn, Absence, OnceDeclined
  <1>3. ASSUME NEW p \in Publishers, pc[p] # "idle",
               pages' = [pages EXCEPT ![job[p].year] = Append(@, job[p].page)]
        PROVE  PagesAreHonest'
    <2> SUFFICES ASSUME NEW y \in Years, NEW n \in DOMAIN pages'[y]
                 PROVE  Honest(y, pages[y][n])'
      BY DEF PagesAreHonest
    <2>1. /\ job[p].year \in Years /\ job[p].page \in Page
          /\ Honest(job[p].year, job[p].page)
      BY <1>1, <1>3 DEF Drafting
    <2>2. pages \in [Years -> Seq(Page)] /\ pages[y] \in Seq(Page)
      BY <1>1 DEF Types
    <2>3. Honest(y, pages'[y][n])
      <3>1. CASE y = job[p].year
        <4>1. pages'[y] = Append(pages[y], job[p].page)
          BY <1>3, <2>2, <3>1
        <4>2. /\ DOMAIN pages'[y] = 1 .. Len(pages[y]) + 1
              /\ pages'[y][Len(pages[y]) + 1] = job[p].page
              /\ \A k \in 1 .. Len(pages[y]) : pages'[y][k] = pages[y][k]
          BY <2>1, <2>2, <4>1, AppendProperties, LenProperties
        <4>3. Len(pages[y]) \in Nat /\ DOMAIN pages[y] = 1 .. Len(pages[y])
          BY <2>2, LenProperties
        <4>4. CASE n = Len(pages[y]) + 1
          BY <2>1, <3>1, <4>2, <4>4
        <4>5. CASE n # Len(pages[y]) + 1
          <5>1. n \in DOMAIN pages[y] /\ pages'[y][n] = pages[y][n]
            BY <4>2, <4>3, <4>5
          <5> QED
            BY <1>1, <5>1 DEF PagesAreHonest
        <4> QED
          BY <4>4, <4>5
      <3>2. CASE y # job[p].year
        BY <1>1, <1>3, <2>2, <3>2 DEF PagesAreHonest
      <3> QED
        BY <3>1, <3>2
    <2>4. PICK page : page = pages'[y][n]
      OBVIOUS
    <2>5. Honest(y, page)'
      BY <1>1, <2>3, <2>4, HonestStays
    <2> QED
      BY <2>4, <2>5 DEF Honest, Backed, DerivedOn, Absence, OnceDeclined
  <1>4. ASSUME NEW p \in Publishers, Assemble(p) \/ ApplyRule(p) \/ Publish(p)
        PROVE  PagesAreHonest'
    <2>1. \/ UNCHANGED pages
          \/ /\ pc[p] # "idle"
             /\ pages' = [pages EXCEPT ![job[p].year] = Append(@, job[p].page)]
      BY <1>4, PublisherSteps
    <2> QED
      BY <1>2, <1>3, <2>1
  <1> QED
    BY <1>2, <1>4, StepCases
       DEF vars, Ingest, Reject, Decline, StartSweep, LoadYears, SaveYears, EndSweep, Compare,
           Crash

LEMMA InitEstablishes == Init => EvidenceInv
  <1> SUFFICES ASSUME Init PROVE EvidenceInv
    OBVIOUS
  <1>1. Types
    BY InitTypes
  <1>2. Listed /\ Rejections /\ Numbered
    BY DEF Init, Listed, Rejections, Numbered
  <1>3. Sweeping /\ Reading /\ Drafting
    BY Bounds DEF Init, Sweeping, Reading, Drafting
  <1>4. PagesAreHonest /\ ResolutionsAreLinear
    BY DEF Init, PagesAreHonest, ResolutionsAreLinear
  <1> QED
    BY <1>1, <1>2, <1>3, <1>4 DEF EvidenceInv

LEMMA StepPreserves == EvidenceInv /\ [Next]_vars => EvidenceInv'
  BY StepKeeps, ListedStep, SweepingStep, ReadingStep, RejectionsStep, NumberedStep,
     DraftingStep, PagesStep DEF EvidenceInv

----------------------------------------------------------------------------
(* Theorems.                                                               *)

\* The invariant of Evidence: types, listed releases, what sweeps read, final
\* rejections, numbers of every resolution, honest drafts and pages, linear
\* chains.
THEOREM EvidenceInvariant == Spec => []EvidenceInv
  <1>1. Init => EvidenceInv
    BY InitEstablishes
  <1>2. EvidenceInv /\ [Next]_vars => EvidenceInv'
    BY StepPreserves
  <1> QED
    BY <1>1, <1>2, PTL DEF Spec

\* What a page states was reviewed, however sweeps, rejections, releases and
\* publications interleave: its numbers are of the release their evidence
\* rests on, whose claims were accepted and never rejected.
THEOREM PagesStateWhatWasReviewed == Spec => []PagesRestOnReview
  <1>1. EvidenceInv => PagesRestOnReview
    <2> SUFFICES ASSUME EvidenceInv PROVE PagesRestOnReview
      OBVIOUS
    <2>1. ASSUME NEW source \in Sources, NEW y \in Years, NEW v, NEW r, Backed(source, y, v, r)
          PROVE  /\ v \in DerivedOn(source, y)
                 /\ resolved[source][y][v].release = r
                 /\ block[r][y] = "accepted"
                 /\ <<r, y>> \notin rejected
      <3>1. resolved[source][y] \in Seq(Resolution) /\ v \in DOMAIN resolved[source][y]
        BY <2>1 DEF EvidenceInv, Types, Backed
      <3>2. resolved[source][y][v] \in Resolution
        BY <3>1, LenProperties, ElementOfSeq
      <3>3. r \in Releases
        BY <2>1, <3>2 DEF Backed, Resolution
      <3> QED
        BY <2>1, <3>3 DEF EvidenceInv, Rejections, Backed
    <2>2. "wpp" \in Sources /\ "ucdp" \in Sources
      BY DEF Sources
    <2> QED
      BY <2>1, <2>2 DEF EvidenceInv, PagesAreHonest, PagesRestOnReview, Honest
  <1> QED
    BY <1>1, EvidenceInvariant, PTL

\* Racing review commands never fork the resolutions of a year, and a rerun
\* adds none.
THEOREM ChainsStayLinear == Spec => []ResolutionsAreLinear
  <1>1. EvidenceInv => ResolutionsAreLinear
    BY DEF EvidenceInv
  <1> QED
    BY <1>1, EvidenceInvariant, PTL

\* A date whose page states a conflict count keeps one, unless a reviewer
\* declined it or the newest release does not cover the year.
THEOREM CountsAreNotDropped == Spec => ContextIsNotDropped
  <1> DEFINE Step == \A y \in Years :
          /\ pages'[y] # pages[y]
          /\ Latest(pages'[y]).count = 0
          => \/ Latest(pages'[y]).newest = None
             \/ y \notin Covered(Latest(pages'[y]).newest)
             \/ OnceDeclined(y)
  <1>1. EvidenceInv /\ [Next]_vars => Step
    <2> SUFFICES ASSUME EvidenceInv, [Next]_vars, NEW y \in Years,
                        pages'[y] # pages[y], Latest(pages'[y]).count = 0
                 PROVE  \/ Latest(pages'[y]).newest = None
                        \/ y \notin Covered(Latest(pages'[y]).newest)
                        \/ OnceDeclined(y)
      OBVIOUS
    <2>1. PICK p \in Publishers : Assemble(p) \/ ApplyRule(p) \/ Publish(p)
      BY StepCases
         DEF vars, Ingest, Reject, Decline, StartSweep, LoadYears, SaveYears, EndSweep, Compare,
             Crash
    <2>2. /\ pc[p] # "idle"
          /\ pages' = [pages EXCEPT ![job[p].year] = Append(@, job[p].page)]
      BY <2>1, PublisherSteps
    <2>3. /\ job[p].year \in Years /\ job[p].page \in Page
          /\ Honest(job[p].year, job[p].page)
      BY <2>2 DEF EvidenceInv, Drafting
    <2>4. pages \in [Years -> Seq(Page)] /\ pages[y] \in Seq(Page)
      BY DEF EvidenceInv, Types
    <2>5. y = job[p].year /\ pages'[y] = Append(pages[y], job[p].page)
      BY <2>2, <2>4
    <2>6. Latest(pages'[y]) = job[p].page
      BY <2>3, <2>4, <2>5, AppendProperties, LenProperties DEF Latest
    <2> QED
      BY <2>3, <2>5, <2>6 DEF Honest, Absence
  <1>2. Step <=> \A y \in Years :
          /\ pages'[y] # pages[y]
          /\ Latest(pages'[y]).count = 0
          => \/ Latest(pages'[y]).newest = None
             \/ y \notin Covered(Latest(pages'[y]).newest)
             \/ \E v \in Versions : \E n \in DOMAIN selections[<<"ucdp", y, v>>] :
                    selections[<<"ucdp", y, v>>][n].status = "rejected"
    BY DEF OnceDeclined
  <1> HIDE DEF Step
  <1>3. Spec => [][Step]_vars
    BY <1>1, EvidenceInvariant, PTL DEF Spec
  <1> QED
    BY <1>2, <1>3, PTL DEF ContextIsNotDropped

----------------------------------------------------------------------------
(* Percentiles and medians.                                                *)

\* A whole percentage is the largest that does not exceed the share.
LEMMA PercentageIsTight ==
    ASSUME NEW n \in Nat, n # 0, NEW a \in Nat
    PROVE  ((a * 100) \div n) * n <= a * 100 /\ a * 100 < ((a * 100) \div n + 1) * n
  OBVIOUS

\* Finitely many numbers have a largest: nobody has fewer above him.
LEMMA LargestValue ==
    ASSUME NEW D, IsFiniteSet(D), NEW f \in [D -> Nat], NEW E \in SUBSET D, E # {}
    PROVE  \E k \in E : \A j \in E : f[j] <= f[k]
  <1> DEFINE Above(k) == {j \in E : f[j] > f[k]}
             N == {Cardinality(Above(k)) : k \in E}
  <1>1. \A k : IsFiniteSet(Above(k)) /\ Cardinality(Above(k)) \in Nat
    BY FS_Subset, FS_CardinalityType
  <1>2. N \in SUBSET Nat /\ N # {}
    BY <1>1
  <1>3. PICK m \in N : \A x \in N : m <= x
    BY <1>2, SmallestExists
  <1>4. PICK k \in E : m = Cardinality(Above(k))
    OBVIOUS
  <1>5. ASSUME NEW j \in E, f[j] > f[k] PROVE FALSE
    <2>1. Above(j) \subseteq Above(k) /\ j \in Above(k) /\ j \notin Above(j)
      <3>1. \A i \in E : f[i] \in Nat
        OBVIOUS
      <3> QED
        BY <1>5, <3>1
    <2>2. Cardinality(Above(j)) <= Cardinality(Above(k))
          /\ Cardinality(Above(j)) # Cardinality(Above(k))
      <3>1. Above(j) \in SUBSET Above(k) /\ Above(j) # Above(k)
        BY <2>1
      <3> HIDE DEF Above
      <3> QED
        BY <1>1, <3>1, FS_Subset
    <2>3. Cardinality(Above(k)) <= Cardinality(Above(j))
      BY <1>3, <1>4
    <2>4. Cardinality(Above(j)) \in Nat /\ Cardinality(Above(k)) \in Nat
      BY <1>1
    <2> HIDE DEF Above
    <2> QED
      BY <2>2, <2>3, <2>4
  <1>6. \A j \in E : f[j] \in Nat /\ f[k] \in Nat
    OBVIOUS
  <1> QED
    BY <1>5, <1>6

\* The median is a recorded value with at most half of them on either side.
LEMMA MedianIsCentral ==
    ASSUME NEW D, IsFiniteSet(D), D # {}, NEW f \in [D -> Nat]
    PROVE  /\ Median(f) \in {f[y] : y \in D}
           /\ 2 * Cardinality({y \in D : f[y] < Median(f)}) < Cardinality(D)
           /\ 2 * Cardinality({y \in D : f[y] > Median(f)}) <= Cardinality(D)
  <1> DEFINE n == Cardinality(D)
             half == (n - 1) \div 2
             below(v) == Cardinality({y \in D : f[y] < v})
             upto(v) == Cardinality({y \in D : f[y] <= v})
             values == {f[y] : y \in D}
  <1>1. n \in Nat /\ n >= 1 /\ half \in Nat /\ 2 * half <= n - 1 /\ n - 1 <= 2 * half + 1
    <2>1. n \in Nat /\ n # 0
      BY FS_CardinalityType, FS_EmptySet
    <2> HIDE DEF n
    <2> QED
      BY <2>1
  <1>2. \A S \in SUBSET D : IsFiniteSet(S) /\ Cardinality(S) \in Nat /\ Cardinality(S) <= n
    BY FS_Subset, FS_CardinalityType
  <1>3. \A v : below(v) \in Nat /\ upto(v) \in Nat /\ upto(v) <= n
    <2>1. \A v : {y \in D : f[y] < v} \in SUBSET D /\ {y \in D : f[y] <= v} \in SUBSET D
      OBVIOUS
    <2> QED
      BY <1>2, <2>1
  <1>4. values \subseteq Nat
    OBVIOUS
  <1> DEFINE reached == {v \in values : half < upto(v)}
  <1>5. reached # {}
    <2>1. PICK k \in D : \A j \in D : f[j] <= f[k]
      BY LargestValue
    <2>2. {y \in D : f[y] <= f[k]} = D
      BY <2>1
    <2>3. upto(f[k]) = n
      BY <2>2
    <2>4. f[k] \in values
      OBVIOUS
    <2> HIDE DEF upto, n, half, values
    <2>5. half < upto(f[k])
      BY <1>1, <2>3
    <2> QED
      BY <2>4, <2>5
  <1>6. PICK v \in reached : \A w \in reached : v <= w
    <2>1. reached \in SUBSET Nat
      BY <1>4
    <2> HIDE DEF reached
    <2> QED
      BY <1>5, <2>1, SmallestExists
  <1>7. below(v) <= half
    <2>a. below(v) \in Nat /\ half \in Nat
      BY <1>1, <1>3
    <2>b. ASSUME half < below(v) PROVE below(v) # 0
      BY <2>a, <2>b
    <2> SUFFICES ASSUME half < below(v) PROVE FALSE
      <3> HIDE DEF below, half
      <3> QED
        BY <2>a
    <2> DEFINE B == {y \in D : f[y] < v}
    <2>1. Cardinality(B) # 0
      BY <2>b
    <2>2. B # {}
      BY <2>1, FS_EmptySet
    <2>3. PICK k \in B : \A j \in B : f[j] <= f[k]
      <3>1. B \in SUBSET D
        OBVIOUS
      <3> HIDE DEF B
      <3> QED
        BY <2>2, <3>1, LargestValue
    <2>4. v \in Nat /\ \A y \in D : f[y] \in Nat
      BY <1>4
    <2>5. {y \in D : f[y] <= f[k]} = B
      BY <2>3, <2>4
    <2>6. upto(f[k]) = below(v)
      BY <2>5
    <2>7. f[k] \in reached
      BY <2>6
    <2>8. v <= f[k]
      BY <1>6, <2>7
    <2> QED
      BY <2>3, <2>4, <2>8
  <1>8. \E w \in values : below(w) <= half /\ half < upto(w)
    BY <1>6, <1>7
  <1>9. Median(f) = CHOOSE w \in values : below(w) <= half /\ half < upto(w)
    <2>1. DOMAIN f = D
      OBVIOUS
    <2> QED
      BY <2>1 DEF Median
  <1> DEFINE c == Median(f)
  <1>10. c \in values /\ below(c) <= half /\ half < upto(c)
    <2> HIDE DEF values, below, upto, half
    <2> QED
      BY <1>8, <1>9
  <1> HIDE DEF c
  <1>11. Cardinality({y \in D : f[y] > c}) = n - upto(c)
    <2>1. {y \in D : f[y] > c} = D \ {y \in D : f[y] <= c}
      <3>1. c \in Nat /\ \A y \in D : f[y] \in Nat
        BY <1>4, <1>10
      <3> QED
        BY <3>1
    <2> DEFINE L == {y \in D : f[y] <= c}
    <2>2. D \cap L = L
      OBVIOUS
    <2>3. Cardinality({y \in D : f[y] > c}) = Cardinality(D \ L)
      BY <2>1
    <2>4. upto(c) = Cardinality(L)
      OBVIOUS
    <2> HIDE DEF L, upto
    <2>5. Cardinality(D \ L) = Cardinality(D) - Cardinality(D \cap L)
      BY FS_Difference
    <2> QED
      BY <2>2, <2>3, <2>4, <2>5
  <1>12. 2 * below(c) < n /\ 2 * (n - upto(c)) <= n
    <2>1. below(c) \in Nat /\ upto(c) \in Nat
      BY <1>3
    <2> HIDE DEF below, upto, n, half
    <2> QED
      BY <1>1, <1>10, <2>1
  <1> QED
    BY <1>10, <1>11, <1>12 DEF c

----------------------------------------------------------------------------
(* Comparisons.                                                            *)
(*                                                                         *)
(* A sweep that lost no year leaves every year it covers with a count of   *)
(* its release, and only a covered year has one: the cohort of the         *)
(* comparisons that follow is the whole release.                           *)

\* The year has a value that rests on the release's claims.
Counts(r, y) == SupportedBy(r, y) \cap DerivedOn(SourceOf[r], y) # {}

\* What a sweep at a step has done, and has yet to do.
Attends(step, j) ==
    /\ j.todo \subseteq Covered(j.release)
    /\ ~j.partial => \A y \in Covered(j.release) \ j.todo : Counts(j.release, y)
    /\ step = "saving" => /\ j.batch \subseteq j.todo
                          /\ \A y \in j.batch : j.latest[y] <= Len(Chain(j, y))
    /\ step = "comparing" => MayCompare(j) /\ j.todo = {}

Attending == \A s \in Sweepers : pc[s] # "idle" => Attends(pc[s], job[s])

\* Resolutions are made of years their release covers.
CoveredOnly ==
    \A source \in Sources, y \in Years : \A v \in DOMAIN resolved[source][y] :
        y \in Covered(resolved[source][y][v].release)

\* A comparison of year y covers its release and says what is true.
Whole(y, c) ==
    /\ DOMAIN c.cohort = Covered(c.release)
    /\ Cardinality(DOMAIN c.cohort) >= MinReference
    /\ \A k \in DOMAIN c.cohort : c.cohort[k] = Records[c.release][k]
    /\ c.rank * Cardinality(DOMAIN c.cohort)
         <= Cardinality({k \in DOMAIN c.cohort : c.cohort[k] < c.cohort[y]}) * 100
    /\ Cardinality({k \in DOMAIN c.cohort : c.cohort[k] < c.cohort[y]}) * 100
         < (c.rank + 1) * Cardinality(DOMAIN c.cohort)
    /\ 2 * Cardinality({k \in DOMAIN c.cohort : c.cohort[k] < c.median})
         < Cardinality(DOMAIN c.cohort)
    /\ 2 * Cardinality({k \in DOMAIN c.cohort : c.cohort[k] > c.median})
         <= Cardinality(DOMAIN c.cohort)

ComparingInv == Attending /\ CoveredOnly /\ ComparisonsAreWhole

\* The comparison with a release all of whose years are counted is whole.
LEMMA ComparedIsWhole ==
    ASSUME NEW r \in Releases, NEW y \in Years, y \in CountedYears(r),
           CountedYears(r) = Covered(r),
           ~(Cardinality(CountedYears(r)) < MinReference)
    PROVE  Whole(y, Compared(r, y))
  <1> DEFINE D == Covered(r)
             f == Cohort(r)
             n == Cardinality(D)
             a == Cardinality({k \in D : f[k] < f[y]})
             c == Compared(r, y)
  <1>1. D \subseteq Years /\ IsFiniteSet(D) /\ D # {}
    <2>1. D \in SUBSET Years
      BY DEF Covered
    <2> QED
      BY <2>1, FS_Subset, EvidenceAssumption
  <1>2. f \in [D -> Nat] /\ DOMAIN f = D /\ \A k \in D : f[k] = Records[r][k]
    BY <1>1, Bounds DEF Cohort
  <1>3. n \in Nat /\ n # 0 /\ a \in Nat
    <2>1. {k \in D : f[k] < f[y]} \in SUBSET D
      OBVIOUS
    <2> QED
      BY <1>1, <2>1, FS_Subset, FS_CardinalityType, FS_EmptySet
  <1>4. /\ c.release = r /\ c.cohort = f /\ c.median = Median(f)
        /\ c.rank = Rank(Records[r][y], f)
    BY DEF Compared
  <1>5. c.rank = (a * 100) \div n
    <2>1. f[y] = Records[r][y]
      BY <1>2
    <2> QED
      BY <1>2, <1>4, <2>1 DEF Rank, StrictlyLower
  <1>6. /\ 2 * Cardinality({k \in D : f[k] < Median(f)}) < n
        /\ 2 * Cardinality({k \in D : f[k] > Median(f)}) <= n
    <2> HIDE DEF f, D
    <2> QED
      BY <1>1, <1>2, MedianIsCentral
  <1>7. n >= MinReference
    BY <1>3, Bounds
  <1>8. c.rank * n <= a * 100 /\ a * 100 < (c.rank + 1) * n
    <2> HIDE DEF n, a, c
    <2> QED
      BY <1>3, <1>5, PercentageIsTight
  <1> HIDE DEF c, D, f
  <1>9. DOMAIN c.cohort = D
    BY <1>2, <1>4
  <1>10. D = Covered(c.release)
    BY <1>4 DEF D
  <1>11. \A k \in DOMAIN c.cohort : c.cohort[k] = Records[c.release][k]
    BY <1>2, <1>4
  <1>12. a = Cardinality({k \in DOMAIN c.cohort : c.cohort[k] < c.cohort[y]})
    BY <1>4, <1>9
  <1>13. /\ {k \in DOMAIN c.cohort : c.cohort[k] < c.median} = {k \in D : f[k] < Median(f)}
         /\ {k \in DOMAIN c.cohort : c.cohort[k] > c.median} = {k \in D : f[k] > Median(f)}
    BY <1>4, <1>9
  <1>14. n = Cardinality(DOMAIN c.cohort)
    BY <1>9
  <1> HIDE DEF n, a
  <1>15. /\ 2 * Cardinality({k \in DOMAIN c.cohort : c.cohort[k] < c.median}) < n
         /\ 2 * Cardinality({k \in DOMAIN c.cohort : c.cohort[k] > c.median}) <= n
    BY <1>6, <1>13
  <1>16. /\ DOMAIN c.cohort = Covered(c.release)
         /\ Cardinality(DOMAIN c.cohort) >= MinReference
    BY <1>7, <1>9, <1>10, <1>14
  <1>17. /\ c.rank * Cardinality(DOMAIN c.cohort) <= a * 100
         /\ a * 100 < (c.rank + 1) * Cardinality(DOMAIN c.cohort)
    BY <1>8, <1>14, Zenon
  <1>18. /\ 2 * Cardinality({k \in DOMAIN c.cohort : c.cohort[k] < c.median})
               < Cardinality(DOMAIN c.cohort)
         /\ 2 * Cardinality({k \in DOMAIN c.cohort : c.cohort[k] > c.median})
               <= Cardinality(DOMAIN c.cohort)
    BY <1>14, <1>15, Zenon
  <1>19. /\ c.rank * Cardinality(DOMAIN c.cohort)
               <= Cardinality({k \in DOMAIN c.cohort : c.cohort[k] < c.cohort[y]}) * 100
         /\ Cardinality({k \in DOMAIN c.cohort : c.cohort[k] < c.cohort[y]}) * 100
               < (c.rank + 1) * Cardinality(DOMAIN c.cohort)
    BY <1>12, <1>17, Zenon
  <1>20. Whole(y, c)
    BY <1>11, <1>16, <1>18, <1>19, Zenon DEF Whole
  <1> QED
    BY <1>20 DEF c

\* A count is never taken back.
LEMMA CountsStay ==
    ASSUME Types, Kept, NEW r \in Releases, NEW y \in Years, Counts(r, y)
    PROVE  Counts(r, y)'
  <1>1. SourceOf[r] \in Sources
    BY Bounds
  <1>2. PICK v : v \in SupportedBy(r, y) /\ v \in DerivedOn(SourceOf[r], y)
    BY DEF Counts
  <1>3. v \in DOMAIN resolved[SourceOf[r]][y] /\ resolved[SourceOf[r]][y][v].release = r
    BY <1>2 DEF SupportedBy
  <1>4. PICK n \in DOMAIN derived[SourceOf[r]][y] : derived[SourceOf[r]][y][n].on = v
    BY <1>2 DEF DerivedOn
  <1>5. /\ v \in DOMAIN resolved'[SourceOf[r]][y]
        /\ resolved'[SourceOf[r]][y][v].release = r
        /\ n \in DOMAIN derived'[SourceOf[r]][y]
        /\ derived'[SourceOf[r]][y][n].on = v
    BY <1>1, <1>3, <1>4 DEF Kept
  <1>6. v \in SupportedBy(r, y)' /\ v \in DerivedOn(SourceOf[r], y)'
    BY <1>5 DEF SupportedBy, DerivedOn
  <1> QED
    BY <1>6 DEF Counts

\* Nothing a sweep has done is undone by others.
LEMMA AttendsStays ==
    ASSUME Types, Types', Kept, NEW step, NEW j \in Sweep, j.release \in Releases,
           Attends(step, j)
    PROVE  Attends(step, j)'
  <1>1. Covered(j.release) \subseteq Years
    BY DEF Covered
  <1>2. \A y \in Covered(j.release) : Counts(j.release, y) => Counts(j.release, y)'
    BY <1>1, CountsStay
  <1>3. ASSUME NEW y \in Years PROVE Len(Chain(j, y)) <= Len(Chain(j, y))'
    <2>1. SourceOf[j.release] \in Sources
      BY Bounds
    <2>2. /\ resolved[SourceOf[j.release]][y] \in Seq(Resolution)
          /\ resolved'[SourceOf[j.release]][y] \in Seq(Resolution)
          /\ DOMAIN resolved[SourceOf[j.release]][y]
               \subseteq DOMAIN resolved'[SourceOf[j.release]][y]
      BY <2>1 DEF Types, Kept
    <2>3. \A s, t \in Seq(Resolution) : DOMAIN s \subseteq DOMAIN t => Len(s) <= Len(t)
      <3> SUFFICES ASSUME NEW s \in Seq(Resolution), NEW t \in Seq(Resolution),
                          DOMAIN s \subseteq DOMAIN t
                   PROVE  Len(s) <= Len(t)
        OBVIOUS
      <3>1. /\ Len(s) \in Nat /\ DOMAIN s = 1 .. Len(s)
            /\ Len(t) \in Nat /\ DOMAIN t = 1 .. Len(t)
        BY LenProperties
      <3>2. CASE Len(s) = 0
        BY <3>1, <3>2
      <3>3. CASE Len(s) # 0
        <4>1. Len(s) \in DOMAIN t
          BY <3>1, <3>3
        <4> QED
          BY <3>1, <4>1
      <3> QED
        BY <3>2, <3>3
    <2> QED
      BY <2>2, <2>3 DEF Chain
  <1>4. ASSUME step = "saving", NEW y \in j.batch PROVE j.latest[y] <= Len(Chain(j, y))'
    <2>1. y \in Years /\ j.latest[y] \in Nat
      BY DEF Sweep
    <2>2. SourceOf[j.release] \in Sources
      BY Bounds
    <2>3. Len(Chain(j, y)) \in Nat /\ Len(Chain(j, y))' \in Nat
      BY <2>1, <2>2, LenProperties DEF Chain, Types
    <2>4. j.latest[y] <= Len(Chain(j, y))
      BY <1>4 DEF Attends
    <2> QED
      BY <1>3, <2>1, <2>3, <2>4
  <1> QED
    BY <1>2, <1>4 DEF Attends, MayCompare

\* A session attends to a job if it is the session's job after the step.
LEMMA AttendingFrom ==
    ASSUME NEW s \in Sweepers, NEW step, NEW j, pc'[s] = step, job'[s] = j, Attends(step, j)'
    PROVE  Attends(pc[s], job[s])'
  BY DEF Attends, Counts, SupportedBy, DerivedOn, Chain, MayCompare, Covered

\* The years a sweep saves have a count of its release: one on the version
\* the sweep resolved them to.
LEMMA SavedCounts ==
    ASSUME EvidenceInv, [Next]_vars, NEW s \in Sweepers, SaveYears(s),
           Attends("saving", job[s]),
           \A y \in job[s].batch : Reviewable(job[s], y) /\ Resolvable(job[s], y),
           NEW r, r = job[s].release, NEW y \in Years, y \in job[s].batch
    PROVE  Counts(r, y)'
  <1> DEFINE a == SourceOf[r]
             chain == resolved[a][y]
  <1>1. Types /\ Numbered' /\ r \in Releases
    BY NumberedStep DEF EvidenceInv, Sweeping, SaveYears
  <1>2. a \in Sources
    BY <1>1, Bounds
  <1>3. resolved'[a][y] = Resolving(job[s], y)
    <2>1. resolved' = [resolved EXCEPT ![a] = [u \in Years |->
                             IF u \in job[s].batch THEN Resolving(job[s], u) ELSE @[u]]]
      BY DEF SaveYears
    <2>2. resolved \in [Sources -> [Years -> Seq(Resolution)]]
      BY <1>1 DEF Types
    <2> QED
      BY <1>2, <2>1, <2>2
  <1>4. chain \in Seq(Resolution) /\ chain = Chain(job[s], y)
    BY <1>1, <1>2 DEF Types, Chain
  <1>5. Len(chain) \in Nat /\ DOMAIN chain = 1 .. Len(chain)
    BY <1>4, LenProperties
  <1>6. job[s].latest[y] \in Nat /\ job[s].latest[y] <= Len(chain)
    BY <1>1, <1>4 DEF Types, Sweep, Attends
  <1>7. PICK v : v = Own(job[s], y)
    OBVIOUS
  <1>8. v \in DOMAIN resolved'[a][y] /\ resolved'[a][y][v].release = r
    <2>1. CASE Supports(job[s], y)
      <3>1. v = job[s].latest[y] /\ resolved'[a][y] = chain
        BY <1>3, <1>4, <1>7, <2>1 DEF Own, Resolving
      <3>2. v > 0 /\ chain[v].release = r
        BY <1>4, <2>1, <3>1 DEF Supports
      <3> QED
        BY <1>5, <1>6, <3>1, <3>2
    <2>2. CASE ~Supports(job[s], y)
      <3> DEFINE added == [release |-> r, supersedes |-> job[s].latest[y]]
      <3>1. resolved'[a][y] = Append(chain, added)
        BY <1>3, <1>4, <2>2 DEF Resolving
      <3>2. v = Len(chain) + 1
        BY <1>4, <1>7, <2>2 DEF Own, Resolvable
      <3>3. added.release = r
        OBVIOUS
      <3>4. added \in Resolution
        <4>1. job[s].latest[y] \in 0 .. MaxVersion
          BY <1>1, <1>2, <1>5, <1>6, Bounds DEF Types
        <4> QED
          BY <1>1, <4>1 DEF Resolution
      <3> HIDE DEF added, chain
      <3>5. /\ DOMAIN Append(chain, added) = 1 .. Len(chain) + 1
            /\ Append(chain, added)[Len(chain) + 1] = added
        BY <1>4, <3>4, AppendProperties, LenProperties
      <3> QED
        BY <1>5, <3>1, <3>2, <3>3, <3>5
    <2> QED
      BY <2>1, <2>2
  <1>9. v \in SupportedBy(r, y)'
    BY <1>8 DEF SupportedBy
  <1>10. v \in DerivedOn(SourceOf[r], y)'
    <2>1. \A source \in Sources : \A w \in DOMAIN resolved'[source][y] :
            \E n \in DOMAIN derived'[source][y] : derived'[source][y][n].on = w
      BY <1>1 DEF Numbered, NewestAt
    <2>2. PICK n \in DOMAIN derived'[a][y] : derived'[a][y][n].on = v
      BY <1>2, <1>8, <2>1
    <2> QED
      BY <2>2 DEF DerivedOn
  <1> QED
    BY <1>9, <1>10 DEF Counts

LEMMA AttendingStep ==
    ASSUME EvidenceInv, Attending, [Next]_vars
    PROVE  Attending'
  <1>1. Types /\ Types' /\ Listed /\ Kept /\ Sweeping
    BY StepKeeps DEF EvidenceInv
  <1>2. job \in [Sessions -> Sweep \cup Draft] /\ pc \in [Sessions -> Steps]
    BY <1>1 DEF Types
  <1> SUFFICES ASSUME NEW u \in Sweepers, pc'[u] # "idle"
               PROVE  Attends(pc[u], job[u])'
    BY DEF Attending
  <1>3. u \in Sessions /\ u \notin Publishers /\ job[u] \in Sweep
    BY <1>1, SessionAssumption DEF Sessions, Types
  <1>4. ASSUME NEW step, NEW j \in Sweep, j.release \in Releases, Attends(step, j),
               pc'[u] = step, job'[u] = j
        PROVE  Attends(pc[u], job[u])'
    <2>1. Attends(step, j)'
      BY <1>1, <1>4, AttendsStays
    <2> QED
      BY <1>4, <2>1, AttendingFrom
  <1>5. ASSUME pc'[u] = pc[u], job'[u] = job[u]
        PROVE  Attends(pc[u], job[u])'
    <2>1. PICK step, j : step = pc[u] /\ j = job[u]
      OBVIOUS
    <2>2. Attends(step, j) /\ j \in Sweep /\ j.release \in Releases
      BY <1>1, <1>3, <1>5, <2>1 DEF Attending, Sweeping
    <2> QED
      BY <1>4, <1>5, <2>1, <2>2
  <1>6. CASE StartSweep(u)
    <2>1. PICK source \in Sources, alone \in BOOLEAN :
            /\ NewestRelease(source) # None
            /\ alone => source = "ucdp" /\ Golden \in Covered(NewestRelease(source))
            /\ job' = [job EXCEPT ![u] = [NoSweep EXCEPT !.release = NewestRelease(source),
                 !.began = Len(ingested[source]),
                 !.todo = IF alone THEN {Golden} ELSE Covered(NewestRelease(source)),
                 !.partial = alone]]
      BY <1>6 DEF StartSweep
    <2> DEFINE todo == IF alone THEN {Golden} ELSE Covered(NewestRelease(source))
               next == [NoSweep EXCEPT !.release = NewestRelease(source),
                                       !.began = Len(ingested[source]), !.todo = todo,
                                       !.partial = alone]
    <2>2. NewestRelease(source) \in Releases /\ Len(ingested[source]) \in Nat
      BY <1>1, <2>1, NewestArrived
    <2>3. todo \subseteq Covered(NewestRelease(source)) /\ todo \subseteq Years
      BY <2>1 DEF Covered
    <2>4. job'[u] = next /\ pc'[u] = "loading"
      BY <1>2, <1>3, <1>6, <2>1 DEF StartSweep, To
    <2>5. ~alone => Covered(NewestRelease(source)) \ todo = {}
      OBVIOUS
    <2> HIDE DEF todo
    <2>6. /\ next.release = NewestRelease(source) /\ next.todo = todo /\ next.partial = alone
          /\ next \in Sweep
      BY <2>2, <2>3 DEF NoSweep, Sweep, Standings
    <2> HIDE DEF next
    <2>7. Attends("loading", next)
      BY <2>3, <2>5, <2>6 DEF Attends
    <2> QED
      BY <1>4, <2>2, <2>4, <2>6, <2>7
  <1>7. CASE LoadYears(u)
    <2> DEFINE years == NextBatch(job[u])
               failed == [job[u] EXCEPT !.todo = @ \ years, !.partial = TRUE]
               loaded == Loaded(job[u], years)
    <2>1. /\ pc[u] = "loading" /\ job[u].todo # {} /\ job[u].release \in Releases
          /\ Attends("loading", job[u])
      BY <1>1, <1>7 DEF LoadYears, Attending, Sweeping
    <2>2. years \subseteq job[u].todo
      <3>1. job[u].todo \in SUBSET Nat
        BY <1>3, Bounds DEF Sweep
      <3>2. Smallest(job[u].todo) \in job[u].todo
        BY <2>1, <3>1, SmallestExists DEF Smallest
      <3> QED
        BY <3>2 DEF NextBatch
    <2>3. CASE job' = [job EXCEPT ![u].todo = @ \ years, ![u].partial = TRUE] /\ UNCHANGED pc
      <3>1. job'[u] = failed /\ pc'[u] = "loading"
        BY <1>2, <1>3, <2>1, <2>3
      <3>2. /\ failed.release = job[u].release /\ failed.todo = job[u].todo \ years
            /\ failed.partial = TRUE /\ failed \in Sweep
        BY <1>3 DEF Sweep
      <3> HIDE DEF failed, years
      <3>3. Attends("loading", failed)
        BY <2>1, <3>2 DEF Attends
      <3> QED
        BY <1>4, <2>1, <3>1, <3>2, <3>3
    <2>4. CASE job' = [job EXCEPT ![u] = loaded] /\ To(u, "saving")
      <3>1. job'[u] = loaded /\ pc'[u] = "saving"
        BY <1>2, <1>3, <2>4 DEF To
      <3>2. loaded \in Sweep
        BY <1>1, <1>3, <3>1 DEF Types
      <3>3. /\ loaded.release = job[u].release /\ loaded.todo = job[u].todo
            /\ loaded.partial = job[u].partial /\ loaded.batch = years
            /\ \A y \in Years \cap years : loaded.latest[y] = Len(Chain(job[u], y))
        BY <1>3 DEF Loaded, Sweep, Chain
      <3>4. \A y \in Years : Chain(loaded, y) = Chain(job[u], y)
        BY <3>3 DEF Chain
      <3>5. \A y \in Years : Len(Chain(job[u], y)) \in Nat
        BY <1>1, <2>1, Bounds, LenProperties DEF Types, Chain
      <3>6. years \subseteq Years
        BY <1>3, <2>2 DEF Sweep
      <3> HIDE DEF loaded, years
      <3>7. \A y \in loaded.batch : loaded.latest[y] <= Len(Chain(loaded, y))
        BY <3>3, <3>4, <3>5, <3>6
      <3>8. Attends("saving", loaded)
        BY <2>1, <2>2, <3>3, <3>7 DEF Attends
      <3> QED
        BY <1>4, <2>1, <3>1, <3>2, <3>3, <3>8
    <2> QED
      BY <1>7, <2>3, <2>4 DEF LoadYears
  <1>8. CASE SaveYears(u)
    <2> DEFINE good == \A y \in job[u].batch : Reviewable(job[u], y) /\ Resolvable(job[u], y)
               next == [NoSweep EXCEPT !.release = job[u].release, !.began = job[u].began,
                     !.todo = job[u].todo \ job[u].batch, !.partial = job[u].partial \/ ~good]
    <2>1. /\ pc[u] = "saving" /\ job[u].release \in Releases /\ Attends("saving", job[u])
          /\ job'[u] = next /\ pc'[u] = "loading"
      BY <1>1, <1>2, <1>3, <1>8 DEF SaveYears, Attending, Sweeping, To
    <2>2. PICK r, j : r = job[u].release /\ j = next
      OBVIOUS
    <2>3. /\ j.release = r /\ j.todo = job[u].todo \ job[u].batch
          /\ ~j.partial => ~job[u].partial /\ good
      BY <2>2 DEF NoSweep
    <2>4. ASSUME ~j.partial, NEW y \in Covered(r) \ j.todo PROVE Counts(r, y)'
      <3>1. y \in Years
        BY DEF Covered
      <3>2. CASE y \in job[u].batch
        BY <1>8, <2>1, <2>2, <2>3, <2>4, <3>1, <3>2, SavedCounts
      <3>3. CASE y \notin job[u].batch
        <4>1. Counts(r, y)
          BY <2>1, <2>2, <2>3, <2>4, <3>3 DEF Attends
        <4> QED
          BY <1>1, <2>1, <2>2, <3>1, <4>1, CountsStay
      <3> QED
        BY <3>2, <3>3
    <2>5. j.todo \subseteq Covered(r)
      BY <2>1, <2>2, <2>3 DEF Attends
    <2>6. PICK step : step = "loading"
      OBVIOUS
    <2> HIDE DEF next, good
    <2>7. Attends(step, j)'
      BY <2>3, <2>4, <2>5, <2>6 DEF Attends, Covered
    <2> QED
      BY <2>1, <2>2, <2>6, <2>7, AttendingFrom
  <1>9. CASE EndSweep(u)
    <2>1. /\ pc[u] = "loading" /\ job[u].release \in Releases /\ Attends("loading", job[u])
          /\ job[u].todo = {}
      BY <1>1, <1>9 DEF EndSweep, Attending, Sweeping
    <2>2. MayCompare(job[u]) /\ job'[u] = job[u] /\ pc'[u] = "comparing"
      BY <1>2, <1>3, <1>9 DEF EndSweep, To
    <2>3. PICK j : j = job[u]
      OBVIOUS
    <2>4. Attends("comparing", j)
      BY <2>1, <2>2, <2>3 DEF Attends
    <2> QED
      BY <1>3, <1>4, <2>1, <2>2, <2>3, <2>4
  <1>10. CASE Compare(u) \/ Crash(u)
    BY <1>2, <1>3, <1>10 DEF Compare, Crash, To
  <1> QED
    BY <1>5, <1>6, <1>7, <1>8, <1>9, <1>10, SweepersApart

\* Only years of the release being swept are resolved.
LEMMA CoveredOnlyStep ==
    ASSUME EvidenceInv, Attending, CoveredOnly, [Next]_vars
    PROVE  CoveredOnly'
  <1>1. Types /\ Sweeping
    BY DEF EvidenceInv
  <1>2. ASSUME UNCHANGED resolved PROVE CoveredOnly'
    BY <1>2 DEF CoveredOnly, Covered
  <1>3. ASSUME NEW s \in Sweepers, SaveYears(s), ~UNCHANGED resolved PROVE CoveredOnly'
    <2> DEFINE r == job[s].release
               source == SourceOf[job[s].release]
    <2>1. /\ source \in Sources /\ r \in Releases
          /\ \A y \in Years \cap job[s].batch :
                Resolvable(job[s], y) /\ Rests(job[s], y) \in Versions
          /\ resolved' = [resolved EXCEPT ![source] = [y \in Years |->
                             IF y \in job[s].batch THEN Resolving(job[s], y) ELSE @[y]]]
      BY <1>3, SavedChains
    <2>2. job[s].batch \subseteq Covered(r)
      BY <1>3 DEF Attending, Attends, SaveYears
    <2> SUFFICES ASSUME NEW a \in Sources, NEW y \in Years, NEW v \in DOMAIN resolved'[a][y]
                 PROVE  y \in Covered(resolved'[a][y][v].release)
      BY DEF CoveredOnly, Covered
    <2>3. resolved \in [Sources -> [Years -> Seq(Resolution)]]
      BY <1>1 DEF Types
    <2>4. CASE resolved'[a][y] = resolved[a][y]
      BY <2>4 DEF CoveredOnly
    <2>5. CASE resolved'[a][y] # resolved[a][y]
      <3>1. a = source /\ y \in job[s].batch /\ resolved'[a][y] = Resolving(job[s], y)
        BY <2>1, <2>3, <2>5
      <3> DEFINE chain == Chain(job[s], y)
                 new == Resolving(job[s], y)
      <3>2. /\ \A k \in DOMAIN chain : k \in DOMAIN new /\ new[k] = chain[k]
            /\ new # chain => /\ DOMAIN new = 1 .. Len(chain) + 1
                              /\ new[Len(chain) + 1] = [release |-> job[s].release,
                                                        supersedes |-> Len(chain)]
        BY <1>1, <2>1, <3>1, ResolvingKeeps
      <3>3. chain = resolved[a][y]
        BY <3>1 DEF Chain
      <3>4. Len(chain) \in Nat /\ DOMAIN chain = 1 .. Len(chain)
        BY <2>3, <3>3, LenProperties
      <3>5. CASE v \in DOMAIN chain
        BY <3>1, <3>2, <3>3, <3>5 DEF CoveredOnly
      <3>6. CASE v \notin DOMAIN chain
        <4>1. DOMAIN new = 1 .. Len(chain) + 1 /\ new[Len(chain) + 1].release = r
          BY <2>5, <3>1, <3>2, <3>3
        <4>2. v = Len(chain) + 1
          BY <3>1, <3>4, <3>6, <4>1
        <4> QED
          BY <2>2, <3>1, <4>1, <4>2
      <3> QED
        BY <3>5, <3>6
    <2> QED
      BY <2>4, <2>5
  <1> QED
    BY <1>2, <1>3, StepCases
       DEF vars, Ingest, Reject, Decline, StartSweep, LoadYears, EndSweep, Compare, Crash,
           Assemble, ApplyRule, Publish

\* Comparisons are made when the whole release is counted.
LEMMA ComparingStep ==
    ASSUME EvidenceInv, ComparingInv, [Next]_vars
    PROVE  ComparisonsAreWhole'
  <1>1. Types /\ Sweeping /\ Attending /\ CoveredOnly /\ ComparisonsAreWhole
    BY DEF EvidenceInv, ComparingInv
  <1>2. ASSUME UNCHANGED comparisons PROVE ComparisonsAreWhole'
    <2>1. \A y \in Years : \A n \in DOMAIN comparisons[y] : Whole(y, comparisons[y][n])
      BY <1>1 DEF ComparisonsAreWhole, Whole
    <2>2. \A y \in Years : \A n \in DOMAIN comparisons'[y] : Whole(y, comparisons'[y][n])
      BY <1>2, <2>1
    <2> QED
      BY <2>2 DEF ComparisonsAreWhole, Whole, Covered
  <1>3. ASSUME NEW s \in Sweepers, Compare(s) PROVE ComparisonsAreWhole'
    <2> DEFINE r == job[s].release
    <2>1. r \in Releases /\ Attends("comparing", job[s])
      BY <1>1, <1>3 DEF Compare, Attending, Sweeping
    <2>2. SourceOf[r] = "ucdp" /\ \A y \in Covered(r) : Counts(r, y)
      BY <2>1 DEF Attends, MayCompare
    <2>3. CountedYears(r) = Covered(r)
      <3>1. Covered(r) \subseteq CountedYears(r)
        BY <2>2 DEF CountedYears, Counts, Covered
      <3>2. ASSUME NEW y \in CountedYears(r) PROVE y \in Covered(r)
        <4>1. PICK v : v \in SupportedBy(r, y)
          BY <3>2 DEF CountedYears
        <4>2. v \in DOMAIN resolved["ucdp"][y] /\ resolved["ucdp"][y][v].release = r
          BY <2>2, <4>1 DEF SupportedBy
        <4> QED
          BY <1>1, <4>2 DEF CoveredOnly, CountedYears, Sources
      <3> QED
        BY <3>1, <3>2
    <2>4. \A y \in Years : \A n \in DOMAIN comparisons[y] : Whole(y, comparisons[y][n])
      BY <1>1 DEF ComparisonsAreWhole, Whole
    <2>5. ASSUME NEW y \in Years, NEW n \in DOMAIN comparisons'[y]
          PROVE  Whole(y, comparisons'[y][n])
      <3>1. comparisons[y] \in Seq(Comparison)
        BY <1>1 DEF Types
      <3>2. CASE comparisons'[y] = comparisons[y]
        BY <2>5, <2>4, <3>2
      <3>3. CASE comparisons'[y] # comparisons[y]
        <4>1. /\ comparisons'[y] = Append(comparisons[y], Compared(r, y))
              /\ y \in CountedYears(r) /\ ~(Cardinality(CountedYears(r)) < MinReference)
          BY <1>3, <3>3 DEF Compare
        <4>2. Whole(y, Compared(r, y))
          BY <2>1, <2>3, <4>1, ComparedIsWhole
        <4>3. Compared(r, y) \in Comparison
          BY <1>1, <2>1, ComparedIsTyped
        <4>4. /\ DOMAIN comparisons'[y] = 1 .. Len(comparisons[y]) + 1
              /\ comparisons'[y][Len(comparisons[y]) + 1] = Compared(r, y)
              /\ \A k \in 1 .. Len(comparisons[y]) : comparisons'[y][k] = comparisons[y][k]
          BY <3>1, <4>1, <4>3, AppendProperties, LenProperties
        <4>5. Len(comparisons[y]) \in Nat /\ DOMAIN comparisons[y] = 1 .. Len(comparisons[y])
          BY <3>1, LenProperties
        <4>6. CASE n = Len(comparisons[y]) + 1
          BY <4>2, <4>4, <4>6
        <4>7. CASE n \in DOMAIN comparisons[y]
          BY <2>4, <4>4, <4>5, <4>7
        <4> QED
          BY <2>5, <4>4, <4>5, <4>6, <4>7
      <3> QED
        BY <3>2, <3>3
    <2> QED
      BY <2>5 DEF ComparisonsAreWhole, Whole, Covered
  <1> QED
    BY <1>2, <1>3, StepCases
       DEF vars, Ingest, Reject, Decline, StartSweep, LoadYears, SaveYears, EndSweep, Crash,
           Assemble, ApplyRule, Publish

\* A comparison is made against every year its release covers, and the
\* percentage and the median it states are those of that cohort, however
\* sweeps fail, crash and overlap (derive_conflict_comparisons).
THEOREM ComparisonsTellTheTruth == Spec => []ComparisonsAreWhole
  <1>1. Init => ComparingInv
    <2> SUFFICES ASSUME Init PROVE ComparingInv
      OBVIOUS
    <2>1. Attending
      BY DEF Init, Attending, Sessions
    <2>2. CoveredOnly
      BY EmptySeq DEF Init, CoveredOnly
    <2>3. ComparisonsAreWhole
      BY EmptySeq DEF Init, ComparisonsAreWhole
    <2> QED
      BY <2>1, <2>2, <2>3 DEF ComparingInv
  <1>2. EvidenceInv /\ ComparingInv /\ [Next]_vars => ComparingInv'
    BY AttendingStep, CoveredOnlyStep, ComparingStep DEF ComparingInv
  <1>3. ComparingInv => ComparisonsAreWhole
    BY DEF ComparingInv
  <1> QED
    BY <1>1, <1>2, <1>3, EvidenceInvariant, PTL DEF Spec

=============================================================================
