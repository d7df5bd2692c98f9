-------------------------- MODULE IngestionProofs --------------------------
(***************************************************************************)
(* Theorems about Ingestion, for every set of operators, reviewers and     *)
(* documents and every bound.                                              *)
(*                                                                         *)
(* What a release or a run says was established steps before it is         *)
(* committed.  The invariant IngestionInv therefore says what an operator  *)
(* knows of its document while its transaction is open (Knows), and that   *)
(* no two open transactions have inserted the same key (KeysApart).        *)
(***************************************************************************)
EXTENDS Ingestion, FiniteSetTheorems, TLAPS

----------------------------------------------------------------------------
(* The invariant.                                                          *)

\* A claim's status and task say what was decided last, and at most the last
\* decision is terminal.
Sound(claim) ==
    LET last == Len(claim.log) IN
    /\ Terminal(claim.log) \subseteq {last}
    /\ claim.status = IF last = 0 THEN "candidate" ELSE Resulting(claim.log[last])
    /\ claim.task = IF Terminal(claim.log) = {} THEN "open"
                    ELSE IF claim.log[last] = "rejected" THEN "dismissed" ELSE "resolved"

\* What the inserted rows of an open transaction rest on.
Staged(j) ==
    /\ j.result = "succeeded"
    /\ j.check = {"passed"}
    /\ ~j.dry
    /\ Valid(j.payload)
    /\ ~KeyTaken(j.payload)
    /\ stored[j.payload] # "absent"

\* What an operator knows of its document at each step.
Knows(o) ==
    LET j == job[o] IN
    /\ pc[o] # "idle" => j.payload \in Payloads
    /\ pc[o] \in {"looking", "inserting"} => Valid(j.payload) /\ ~j.dry
    /\ pc[o] = "inserting" => ~j.known
    /\ pc[o] = "closing" => j.result \in {"succeeded", "failed"}
    /\ j.staged => pc[o] = "closing" /\ Staged(j)
    /\ j.known => ReleasesOf(j.payload) # {}
    /\ pc[o] = "closing" /\ j.known /\ ~j.dry /\ ~j.excused =>
           j.result = "succeeded" /\ j.check = {}

KeysApart ==
    \A o, u \in Operators :
        o # u /\ job[o].staged /\ job[u].staged => ~SameKey(job[o].payload, job[u].payload)

\* A reviewer has loaded a claim of a release there is.
Seated == \A v \in Reviewers : desk[v] # None => desk[v].release \in DOMAIN releases

\* A release names a run there is.
RunsNamed == \A r \in DOMAIN releases : releases[r].run \in DOMAIN runs

IngestionInv ==
    /\ TypeOK
    /\ \A o \in Operators : Knows(o)
    /\ KeysApart
    /\ Seated
    /\ RunsNamed
    /\ ReleaseIsWhole
    /\ RetryIsAccepted
    /\ OneTerminalDecision

----------------------------------------------------------------------------
(* Types.                                                                  *)

\* The adapters decide on the document; every one of them parses it before it
\* looks the checksum up, and none of them locates it there but "usgs".
LEMMA AdapterSteps ==
    ASSUME NEW p \in Payloads
    PROVE  /\ "parse" \in Adapter(p).before
           /\ Adapter(p).unrecorded \subseteq {"fetch"}
           /\ Adapter(p).before \subseteq {"fetch", "parse", "place"}
           /\ "place" \in Adapter(p).before => Adapter(p) = Usgs
           /\ Adapter(p).known \subseteq {"licence", "stored"}
           /\ "store" \in Adapter(p).new
<1>1. AdapterOf[p] \in {"usgs", "wikidata", "pinned", "annual", "ged", "wpp"}
  BY IngestionAssumption DEF Adapters
<1>2. CASE AdapterOf[p] = "usgs"
  <2>1. Adapter(p) = Usgs
    BY <1>2 DEF Adapter
  <2> QED BY <2>1 DEF Usgs
<1>3. CASE AdapterOf[p] = "wikidata"
  <2>1. Adapter(p) = Wikidata
    BY <1>3 DEF Adapter
  <2> QED BY <2>1 DEF Wikidata
<1>4. CASE AdapterOf[p] = "annual"
  <2>1. Adapter(p) = Annual
    BY <1>4 DEF Adapter
  <2> QED BY <2>1 DEF Annual
<1>5. CASE AdapterOf[p] = "ged"
  <2>1. Adapter(p) = Ged
    BY <1>5 DEF Adapter
  <2> QED BY <2>1 DEF Ged
<1>6. CASE AdapterOf[p] = "wpp"
  <2>1. Adapter(p) = Wpp
    BY <1>6 DEF Adapter
  <2> QED BY <2>1 DEF Wpp
<1>7. CASE AdapterOf[p] = "pinned"
  <2>1. Adapter(p) = Pinned
    BY <1>7 DEF Adapter
  <2>2. /\ Pinned.unrecorded = {"fetch"} /\ Pinned.before = {"parse"}
        /\ Pinned.known = {"licence"} /\ Pinned.new = {"place", "store"}
    BY DEF Pinned, Wikidata
  <2> QED BY <2>1, <2>2
<1> QED BY <1>1, <1>2, <1>3, <1>4, <1>5, <1>6, <1>7

\* A transaction stays one when its run ends.
LEMMA JobTypes ==
    ASSUME NEW j \in Job
    PROVE  /\ FailedRun(j) \in Job /\ Undone(j) \in Job
           /\ \A check \in SUBSET {"passed", "failed"} :
                 /\ Ended(j, "succeeded", check) \in Job
                 /\ [j EXCEPT !.result = "succeeded", !.check = check, !.staged = TRUE] \in Job
           /\ \A b \in BOOLEAN : [j EXCEPT !.excused = b] \in Job
  BY DEF FailedRun, Undone, Ended, Job

\* What ending a run leaves alone.
LEMMA EndedFields ==
    ASSUME NEW j \in Job, NEW result \in {"succeeded", "failed"},
           NEW check \in SUBSET {"passed", "failed"}
    PROVE  /\ Ended(j, result, check).payload = j.payload
           /\ Ended(j, result, check).dry <=> j.dry
           /\ Ended(j, result, check).known <=> j.known
           /\ Ended(j, result, check).excused <=> j.excused
           /\ Ended(j, result, check).result = result
           /\ Ended(j, result, check).check = check
           /\ ~Ended(j, result, check).staged
  BY DEF Ended, Job

LEMMA NoJobType == NoJob \in Job
  BY DEF NoJob, Job

\* The faults of an attempt are finitely many.
LEMMA FaultsCount ==
    ASSUME NEW faults \in SUBSET {"fetch", "disk", "insert"}
    PROVE  /\ Cardinality(faults) \in Nat
           /\ Cardinality(faults) = 0 => faults = {}
<1>1. IsFiniteSet({"fetch"} \cup {"disk"} \cup {"insert"})
  BY FS_Singleton, FS_Union, Zenon
<1>2. {"fetch"} \cup {"disk"} \cup {"insert"} = {"fetch", "disk", "insert"}
  OBVIOUS
<1>3. IsFiniteSet(faults)
  BY <1>1, <1>2, FS_Subset, Zenon
<1> QED BY <1>3, FS_CardinalityType, FS_EmptySet

\* The transaction an attempt begins with.
LEMMA OpenedType ==
    ASSUME NEW p \in Payloads, NEW dry \in BOOLEAN,
           NEW faults \in SUBSET {"fetch", "disk", "insert"}
    PROVE  /\ Opened(p, dry, faults) \in Job
           /\ Opened(p, dry, faults).payload = p
           /\ (Opened(p, dry, faults).dry <=> dry)
           /\ ~Opened(p, dry, faults).staged
           /\ Opened(p, dry, faults).known <=> ReleasesOf(p) # {}
           /\ Opened(p, dry, faults).excused <=>
                 (faults # {} \/ (~boundary /\ Adapter(p) = Usgs))
<1> DEFINE known == ReleasesOf(p) # {}
           sees == SourceOf(p) \in sources
           excused == faults # {} \/ (~boundary /\ Adapter(p) = Usgs)
<1>1. {known, sees, excused} \subseteq BOOLEAN
  OBVIOUS
<1>2. Opened(p, dry, faults) =
        [payload |-> p, dry |-> dry, faults |-> faults, sees |-> sees, result |-> None,
         staged |-> FALSE, check |-> {}, known |-> known, excused |-> excused]
  BY DEF Opened
<1> HIDE DEF known, sees, excused
<1>3. /\ Opened(p, dry, faults) \in Job
      /\ Opened(p, dry, faults).payload = p
      /\ (Opened(p, dry, faults).dry <=> dry)
      /\ ~Opened(p, dry, faults).staged
      /\ (Opened(p, dry, faults).known <=> known)
      /\ (Opened(p, dry, faults).excused <=> excused)
  BY <1>1, <1>2 DEF Job
<1> QED BY <1>3 DEF known, excused

\* How an attempt can begin: not at all, or with its run ended, or with the
\* look-up of its checksum before it.
BeginWith(o, p, dry, faults) ==
    LET j == Opened(p, dry, faults) IN
    /\ used' = [used EXCEPT !.runs = @ + 1, !.trouble = @ + Cardinality(faults)]
    /\ used.runs < MaxRuns
    /\ used.trouble + Cardinality(faults) <= MaxTrouble
    /\ \/ UNCHANGED <<pc, job>>
       \/ /\ dry
          /\ pc' = [pc EXCEPT ![o] = "closing"]
          /\ \/ job' = [job EXCEPT ![o] = Ended(j, "succeeded", {"passed"})]
             \/ job' = [job EXCEPT ![o] = FailedRun(j)]
       \/ /\ ~dry
          /\ AllGo(Adapter(p).before, p, faults)
          /\ pc' = [pc EXCEPT ![o] = "looking"]
          /\ job' = [job EXCEPT ![o] = j]
       \/ /\ ~dry
          /\ ~AllGo(Adapter(p).before, p, faults)
          /\ AllGo(Adapter(p).unrecorded, p, faults)
          /\ pc' = [pc EXCEPT ![o] = "closing"]
          /\ job' = [job EXCEPT ![o] = FailedRun(j)]

LEMMA BeginCases ==
    ASSUME TypeOK, NEW o \in Operators, Begin(o)
    PROVE  \E p \in Payloads, dry \in BOOLEAN, faults \in SUBSET {"fetch", "disk", "insert"} :
              BeginWith(o, p, dry, faults)
<1>1. used.runs < MaxRuns
  BY DEF Begin
<1>2. PICK p \in Payloads, dry \in BOOLEAN, faults \in SUBSET {"fetch", "disk", "insert"} :
         /\ used.trouble + Cardinality(faults) <= MaxTrouble
         /\ used' = [used EXCEPT !.runs = @ + 1, !.trouble = @ + Cardinality(faults)]
         /\ IF ~AllGo(Adapter(p).unrecorded, p, faults)
            THEN UNCHANGED <<pc, job>>
            ELSE IF dry
            THEN /\ pc' = [pc EXCEPT ![o] = "closing"]
                 /\ job' = [job EXCEPT ![o] =
                       IF AllGo(Adapter(p).dry, p, faults)
                       THEN Ended(Opened(p, dry, faults), "succeeded", {"passed"})
                       ELSE FailedRun(Opened(p, dry, faults))]
            ELSE IF AllGo(Adapter(p).before, p, faults)
            THEN /\ pc' = [pc EXCEPT ![o] = "looking"]
                 /\ job' = [job EXCEPT ![o] = Opened(p, dry, faults)]
            ELSE /\ pc' = [pc EXCEPT ![o] = "closing"]
                 /\ job' = [job EXCEPT ![o] = FailedRun(Opened(p, dry, faults))]
  BY DEF Begin
<1> QED BY <1>1, <1>2, Zenon DEF BeginWith

LEMMA InitType == Init => TypeOK
<1> SUFFICES ASSUME Init PROVE TypeOK
  OBVIOUS
<1>1. job \in [Operators -> Job]
  BY NoJobType DEF Init
<1>2. used \in [runs : 0 .. MaxRuns, reviews : 0 .. MaxReviews, trouble : 0 .. MaxTrouble]
  BY IngestionAssumption DEF Init
<1>3. desk \in [Reviewers -> Seat]
  BY DEF Init, Seat
<1>4. terms \in 0 .. MaxTrouble
  BY IngestionAssumption DEF Init
<1> QED BY <1>1, <1>2, <1>3, <1>4 DEF Init, TypeOK

\* A decision on a claim of a release.
LEMMA ReviewedType ==
    ASSUME NEW release \in Release, NEW q \in Predicates, NEW decision \in Decisions
    PROVE  LET after == Reviewed(release, q, decision) IN
           /\ after \in Release
           /\ after.payload = release.payload
           /\ after.run = release.run
           /\ after.claims = [release.claims EXCEPT ![q] = Decided(release.claims[q], decision)]
<1>1. Decided(release.claims[q], decision) \in Claim
  <2>1. release.claims[q] \in Claim
    BY DEF Release
  <2>2. Resulting(decision) \in Statuses
    BY DEF Resulting, Decisions, Statuses
  <2>3. Append(release.claims[q].log, decision) \in Seq(Decisions)
    BY <2>1 DEF Claim
  <2> QED BY <2>1, <2>2, <2>3 DEF Decided, Claim
<1>2. Reviewed(release, q, decision) =
        [release EXCEPT !.claims = [release.claims EXCEPT ![q] =
                                        Decided(release.claims[q], decision)]]
  BY DEF Reviewed
<1>3. [release.claims EXCEPT ![q] = Decided(release.claims[q], decision)]
        \in [Predicates -> Claim]
  BY <1>1 DEF Release
<1> QED BY <1>2, <1>3 DEF Release

\* What a reviewer's decision does to the releases.
LEMMA DecideCases ==
    ASSUME TypeOK, Seated, NEW v \in Reviewers, Decide(v)
    PROVE  \/ releases' = releases
           \/ \E r \in DOMAIN releases, q \in Predicates, decision \in Decisions :
                 /\ releases[r].claims[q].status \in {"candidate", "in_review"}
                 /\ releases' = [releases EXCEPT ![r] = Reviewed(releases[r], q, decision)]
<1>1. desk[v] # None /\ desk[v] \in Seat
  BY DEF Decide, TypeOK
<1>2. desk[v].release \in DOMAIN releases /\ desk[v].predicate \in Predicates
  BY <1>1 DEF Seated, Seat
<1>3. PICK decision \in Decisions :
        releases' = IF CurrentStatus(v) \in {"candidate", "in_review"}
                    THEN [releases EXCEPT ![desk[v].release] =
                              Reviewed(releases[desk[v].release], desk[v].predicate, decision)]
                    ELSE releases
  BY DEF Decide
<1> QED BY <1>2, <1>3 DEF CurrentStatus

\* The counters stay within their bounds.
Counters == [runs : 0 .. MaxRuns, reviews : 0 .. MaxReviews, trouble : 0 .. MaxTrouble]

LEMMA UsedTypes ==
    ASSUME TypeOK
    PROVE  /\ used.runs < MaxRuns => \A n \in Nat : used.trouble + n <= MaxTrouble =>
                  [used EXCEPT !.runs = @ + 1, !.trouble = @ + n] \in Counters
           /\ used.trouble < MaxTrouble => [used EXCEPT !.trouble = @ + 1] \in Counters
           /\ used.reviews < MaxReviews => [used EXCEPT !.reviews = @ + 1] \in Counters
<1>1. MaxRuns \in Nat /\ MaxReviews \in Nat /\ MaxTrouble \in Nat
  BY IngestionAssumption
<1>2. used \in Counters
  BY DEF TypeOK, Counters
<1>3. \A u \in Counters, n \in 0 .. MaxRuns : [u EXCEPT !.runs = n] \in Counters
  BY DEF Counters
<1>4. \A u \in Counters, n \in 0 .. MaxTrouble : [u EXCEPT !.trouble = n] \in Counters
  BY DEF Counters
<1>5. \A u \in Counters, n \in 0 .. MaxReviews : [u EXCEPT !.reviews = n] \in Counters
  BY DEF Counters
<1>6. /\ used.runs < MaxRuns => used.runs + 1 \in 0 .. MaxRuns
      /\ used.trouble < MaxTrouble => used.trouble + 1 \in 0 .. MaxTrouble
      /\ used.reviews < MaxReviews => used.reviews + 1 \in 0 .. MaxReviews
      /\ \A n \in Nat : used.trouble + n <= MaxTrouble => used.trouble + n \in 0 .. MaxTrouble
  BY <1>1, <1>2 DEF Counters
<1> QED BY <1>2, <1>3, <1>4, <1>5, <1>6, Zenon

\* A release and its claims, one by one.
LEMMA ReleaseTypes ==
    ASSUME TypeOK, NEW r \in DOMAIN releases
    PROVE  /\ r \in Nat /\ releases[r] \in Release
           /\ \A q \in Predicates : releases[r].claims[q] \in Claim
<1>1. releases[r] \in Release /\ r \in Nat
  BY DEF TypeOK
<1> QED BY <1>1 DEF Release

LEMMA TypeStep ==
    ASSUME TypeOK, \A o \in Operators : Knows(o), Seated, Next
    PROVE  TypeOK'
<1>1. ASSUME NEW o \in Operators, Begin(o)  PROVE TypeOK'
  <2>1. PICK p \in Payloads, dry \in BOOLEAN, faults \in SUBSET {"fetch", "disk", "insert"} :
          BeginWith(o, p, dry, faults)
    BY <1>1, BeginCases
  <2> DEFINE j == Opened(p, dry, faults)
  <2>2. j \in Job /\ FailedRun(j) \in Job /\ Ended(j, "succeeded", {"passed"}) \in Job
    BY OpenedType, JobTypes
  <2> HIDE DEF j
  <2>3. \/ UNCHANGED <<pc, job>>
        \/ \E step \in {"looking", "closing"}, k \in Job :
              pc' = [pc EXCEPT ![o] = step] /\ job' = [job EXCEPT ![o] = k]
    BY <2>1, <2>2 DEF BeginWith, j
  <2>4. /\ pc' \in [Operators -> {"idle", "looking", "inserting", "closing"}]
        /\ job' \in [Operators -> Job]
    BY <2>3 DEF TypeOK
  <2>5. used' \in Counters
    BY <2>1, UsedTypes, FaultsCount DEF BeginWith
  <2> QED BY <1>1, <2>4, <2>5 DEF Begin, TypeOK, Counters
<1>2. ASSUME NEW o \in Operators, Look(o)  PROVE TypeOK'
  <2>1. job[o] \in Job
    BY DEF TypeOK
  <2>2. \E k \in Job : job' \in {job, [job EXCEPT ![o] = k]}
    <3>1. [FailedRun(job[o]) EXCEPT !.excused = TRUE] \in Job
      BY <2>1, JobTypes
    <3>2. ASSUME NEW k \in {Ended(job[o], "succeeded", {}), FailedRun(job[o])}, NEW b \in BOOLEAN
          PROVE  [k EXCEPT !.excused = @ \/ b] \in Job
      <4>1. k \in Job
        BY <2>1, JobTypes
      <4> QED BY <4>1 DEF Job
    <3> QED BY <1>2, <2>1, <3>1, <3>2 DEF Look
  <2>3. pc' \in [Operators -> {"idle", "looking", "inserting", "closing"}]
    BY <1>2 DEF Look, TypeOK
  <2> QED BY <1>2, <2>1, <2>2, <2>3 DEF Look, TypeOK
<1>3. ASSUME NEW o \in Operators, Insert(o)  PROVE TypeOK'
  <2>1. job[o] \in Job
    BY DEF TypeOK
  <2>2. \E k \in Job : job' = [job EXCEPT ![o] = k]
    BY <1>3, <2>1, JobTypes DEF Insert
  <2>3. /\ pc' \in [Operators -> {"idle", "looking", "inserting", "closing"}]
        /\ stored' \in [Payloads -> {"absent", "intact", "damaged"}]
    BY <1>3 DEF Insert, TypeOK
  <2> QED BY <1>3, <2>2, <2>3 DEF Insert, TypeOK
<1>4. ASSUME NEW o \in Operators, Commit(o)  PROVE TypeOK'
  <2>1. /\ job[o] \in Job
        /\ job[o].payload \in Payloads
        /\ job[o].result \in {"succeeded", "failed"}
    BY <1>4 DEF TypeOK, Commit, Knows
  <2>2. runs' \in Seq(Run)
    <3>1. [payload |-> job[o].payload, dry |-> job[o].dry, status |-> job[o].result,
           checks |-> job[o].check, known |-> job[o].known, excused |-> job[o].excused] \in Run
      BY <2>1 DEF Job, Run
    <3> QED BY <1>4, <3>1 DEF Commit, Recorded, TypeOK
  <2>3. releases' \in Seq(Release)
    <3>1. Candidate \in Claim
      BY DEF Candidate, Claim, Statuses
    <3>2. [payload |-> job[o].payload, run |-> Len(runs) + 1, terms |-> terms,
           claims |-> [q \in Predicates |-> Candidate]] \in Release
      BY <2>1, <3>1, IngestionAssumption DEF Release, TypeOK
    <3> QED BY <1>4, <3>2 DEF Commit, Imported, TypeOK
  <2>4. sources' \subseteq Sources
    <3>1. SourceOf(job[o].payload) \in Sources
      BY <2>1, IngestionAssumption DEF SourceOf, Sources, Adapters
    <3> QED BY <1>4, <3>1 DEF Commit, TypeOK
  <2> QED BY <1>4, <2>2, <2>3, <2>4, NoJobType DEF Commit, TypeOK
<1>5. ASSUME NEW o \in Operators, Crash(o)  PROVE TypeOK'
  <2>1. used' \in Counters
    BY <1>5, UsedTypes DEF Crash
  <2> QED BY <1>5, <2>1, NoJobType DEF Crash, TypeOK, Counters
<1>6. ASSUME NEW v \in Reviewers, Load(v)  PROVE TypeOK'
  <2>1. used' \in Counters
    BY <1>6, UsedTypes DEF Load
  <2>2. desk' \in [Reviewers -> Seat]
    <3>1. PICK r \in DOMAIN releases, q \in Predicates :
            desk' = [desk EXCEPT ![v] = [release |-> r, predicate |-> q,
                                         status |-> releases[r].claims[q].status]]
      BY <1>6 DEF Load
    <3>2. releases[r].claims[q].status \in Statuses /\ r \in Nat
      BY ReleaseTypes DEF Claim
    <3> QED BY <3>1, <3>2 DEF TypeOK, Seat
  <2> QED BY <1>6, <2>1, <2>2 DEF Load, TypeOK, Counters
<1>7. ASSUME NEW v \in Reviewers, Decide(v)  PROVE TypeOK'
  <2>1. releases' \in Seq(Release)
    <3>1. ASSUME NEW r \in DOMAIN releases, NEW release \in Release
          PROVE  [releases EXCEPT ![r] = release] \in Seq(Release)
      BY DEF TypeOK
    <3>2. ASSUME NEW r \in DOMAIN releases, NEW q \in Predicates, NEW decision \in Decisions
          PROVE  Reviewed(releases[r], q, decision) \in Release
      BY ReleaseTypes, ReviewedType
    <3>3. releases \in Seq(Release)
      BY DEF TypeOK
    <3> QED BY <1>7, <3>1, <3>2, <3>3, DecideCases, Zenon
  <2>2. desk' \in [Reviewers -> Seat]
    BY <1>7 DEF Decide, TypeOK, Seat
  <2> QED BY <1>7, <2>1, <2>2 DEF Decide, TypeOK
<1>8. ASSUME Surroundings  PROVE TypeOK'
  <2>1. used' \in Counters
    BY <1>8, UsedTypes DEF Surroundings
  <2>2. /\ stored' \in [Payloads -> {"absent", "intact", "damaged"}]
        /\ boundary' \in BOOLEAN
        /\ terms' \in 0 .. MaxTrouble
    <3>1. CASE \E p \in Payloads : Damage(p)
      BY <3>1 DEF Damage, TypeOK
    <3>2. CASE Reseed
      BY <3>2 DEF Reseed, TypeOK
    <3>3. CASE Retermed
      BY <3>3, IngestionAssumption DEF Retermed, TypeOK
    <3> QED BY <1>8, <3>1, <3>2, <3>3 DEF Surroundings
  <2> QED BY <1>8, <2>1, <2>2 DEF Surroundings, TypeOK, Counters
<1> QED BY <1>1, <1>2, <1>3, <1>4, <1>5, <1>6, <1>7, <1>8, Zenon DEF Next

----------------------------------------------------------------------------
(* How the committed rows and the files evolve.                            *)

\* No release and no run is added; a decision touches the claims only.
Kept ==
    /\ DOMAIN releases' = DOMAIN releases
    /\ \A r \in DOMAIN releases : releases'[r].payload = releases[r].payload
                                 /\ releases'[r].run = releases[r].run
    /\ runs' = runs

\* What committing adds to the runs.
LEMMA CommitRuns ==
    ASSUME TypeOK, NEW o \in Operators, Commit(o)
    PROVE  LET new == Len(runs) + 1 IN
           /\ DOMAIN runs' = DOMAIN runs \cup {new}
           /\ \A n \in DOMAIN runs : runs'[n] = runs[n]
           /\ runs'[new].payload = job[o].payload
           /\ runs'[new].status = job[o].result
           /\ runs'[new].checks = job[o].check
           /\ runs'[new].dry <=> job[o].dry
           /\ runs'[new].known <=> job[o].known
           /\ runs'[new].excused <=> job[o].excused
<1>1. PICK run : run = [payload |-> job[o].payload, dry |-> job[o].dry,
                        status |-> job[o].result, checks |-> job[o].check,
                        known |-> job[o].known, excused |-> job[o].excused]
  OBVIOUS
<1>2. runs' = Append(runs, run) /\ runs \in Seq(Run)
  BY <1>1 DEF Commit, Recorded, TypeOK
<1>3. /\ DOMAIN runs' = DOMAIN runs \cup {Len(runs) + 1}
      /\ \A n \in DOMAIN runs : runs'[n] = runs[n]
      /\ runs'[Len(runs) + 1] = run
  BY <1>2
<1> QED BY <1>1, <1>3

\* What committing adds to the releases.
LEMMA CommitReleases ==
    ASSUME TypeOK, NEW o \in Operators, Commit(o)
    PROVE  /\ ~job[o].staged => releases' = releases
           /\ job[o].staged =>
                 LET new == Len(releases) + 1 IN
                 /\ new \notin DOMAIN releases
                 /\ DOMAIN releases' = DOMAIN releases \cup {new}
                 /\ \A r \in DOMAIN releases : releases'[r] = releases[r]
                 /\ releases'[new].payload = job[o].payload
                 /\ releases'[new].run = Len(runs) + 1
                 /\ releases'[new].claims = [q \in Predicates |-> Candidate]
<1>1. PICK release : release = [payload |-> job[o].payload, run |-> Len(runs) + 1,
                                terms |-> terms, claims |-> [q \in Predicates |-> Candidate]]
  OBVIOUS
<1>2. /\ releases' = IF job[o].staged THEN Append(releases, release) ELSE releases
      /\ releases \in Seq(Release)
  BY <1>1 DEF Commit, Imported, TypeOK
<1>3. ASSUME job[o].staged
      PROVE  /\ Len(releases) + 1 \notin DOMAIN releases
             /\ DOMAIN releases' = DOMAIN releases \cup {Len(releases) + 1}
             /\ \A r \in DOMAIN releases : releases'[r] = releases[r]
             /\ releases'[Len(releases) + 1] = release
  BY <1>2, <1>3
<1> QED BY <1>1, <1>2, <1>3

LEMMA DecideKeeps ==
    ASSUME TypeOK, Seated, NEW v \in Reviewers, Decide(v)
    PROVE  Kept
<1>1. runs' = runs
  BY DEF Decide
<1>2. CASE releases' = releases
  BY <1>1, <1>2 DEF Kept
<1>3. CASE releases' # releases
  <2>1. PICK r \in DOMAIN releases, q \in Predicates, decision \in Decisions :
          releases' = [releases EXCEPT ![r] = Reviewed(releases[r], q, decision)]
    BY <1>3, DecideCases
  <2>2. /\ Reviewed(releases[r], q, decision).payload = releases[r].payload
        /\ Reviewed(releases[r], q, decision).run = releases[r].run
    BY ReleaseTypes, ReviewedType
  <2>3. releases \in Seq(Release)
    BY DEF TypeOK
  <2> QED BY <1>1, <2>1, <2>2, <2>3 DEF Kept
<1> QED BY <1>2, <1>3

\* Only a commit adds a row.
LEMMA StepKeeps ==
    ASSUME TypeOK, Seated, Next, \A o \in Operators : ~Commit(o)
    PROVE  Kept
<1>1. ASSUME NEW v \in Reviewers, Decide(v)  PROVE Kept
  BY <1>1, DecideKeeps
<1>2. CASE UNCHANGED <<runs, releases>>
  BY <1>2 DEF Kept
<1> QED BY <1>1, <1>2 DEF Next, Begin, Look, Insert, Crash, Load, Surroundings

\* A stored document stays, possibly damaged.
LEMMA StoredStays ==
    ASSUME TypeOK, Next, NEW p \in Payloads, stored[p] # "absent"
    PROVE  stored'[p] # "absent"
<1>1. CASE UNCHANGED stored
  BY <1>1
<1>2. ASSUME NEW o \in Operators, Insert(o)  PROVE stored'[p] # "absent"
  BY <1>2 DEF Insert, TypeOK
<1>3. ASSUME Surroundings  PROVE stored'[p] # "absent"
  BY <1>3 DEF Surroundings, Damage, Reseed, Retermed, TypeOK
<1> QED BY <1>1, <1>2, <1>3 DEF Next, Begin, Look, Commit, Crash, Load, Decide

\* A release is never removed, so a known document stays known.
LEMMA KnownStays ==
    ASSUME TypeOK, Seated, Next, NEW p, ReleasesOf(p) # {}
    PROVE  ReleasesOf(p)' # {}
<1>1. PICK r \in DOMAIN releases : releases[r].payload = p
  BY DEF ReleasesOf
<1>2. r \in DOMAIN releases' /\ releases'[r].payload = p
  <2>1. CASE \A o \in Operators : ~Commit(o)
    BY <1>1, <2>1, StepKeeps DEF Kept
  <2>2. ASSUME NEW o \in Operators, Commit(o)
        PROVE  r \in DOMAIN releases' /\ releases'[r].payload = p
    BY <1>1, <2>2, CommitReleases
  <2> QED BY <2>1, <2>2
<1> QED BY <1>2 DEF ReleasesOf

----------------------------------------------------------------------------
(* What an operator knows.                                                 *)

LEMMA SameKeySymmetric ==
    ASSUME NEW p, NEW q, SameKey(p, q)
    PROVE  SameKey(q, p)
  BY DEF SameKey

\* A key is taken by committing a release with that key, and in no other way.
LEMMA KeyStaysFree ==
    ASSUME TypeOK, Seated, Next, NEW p, ~KeyTaken(p),
           \A o \in Operators : Commit(o) /\ job[o].staged => ~SameKey(p, job[o].payload)
    PROVE  ~KeyTaken(p)'
<1>1. CASE \A o \in Operators : ~Commit(o)
  BY <1>1, StepKeeps DEF Kept, KeyTaken, SameKey
<1>2. ASSUME NEW o \in Operators, Commit(o)  PROVE ~KeyTaken(p)'
  <2>1. \A r \in DOMAIN releases' :
            \/ r \in DOMAIN releases /\ releases'[r].payload = releases[r].payload
            \/ job[o].staged /\ releases'[r].payload = job[o].payload
    BY <1>2, CommitReleases
  <2> QED BY <1>2, <2>1 DEF KeyTaken, SameKey
<1> QED BY <1>1, <1>2

\* An operator whose transaction a step leaves alone.
LEMMA OthersKnow ==
    ASSUME IngestionInv, Next, NEW u \in Operators, pc'[u] = pc[u], job'[u] = job[u]
    PROVE  Knows(u)'
<1>0. PICK j : j = job[u]
  OBVIOUS
<1>1. TypeOK /\ Seated /\ Knows(u) /\ KeysApart
  BY DEF IngestionInv
<1>2. j.known => ReleasesOf(j.payload)' # {}
  BY <1>0, <1>1, KnownStays DEF Knows
<1>3. j.staged => Staged(j)'
  <2> SUFFICES ASSUME j.staged  PROVE Staged(j)'
    OBVIOUS
  <2>1. Staged(j) /\ pc[u] = "closing" /\ j.payload \in Payloads
    BY <1>0, <1>1 DEF Knows
  <2>2. stored'[j.payload] # "absent"
    BY <1>1, <2>1, StoredStays DEF Staged
  <2>3. \A o \in Operators : Commit(o) /\ job[o].staged => ~SameKey(j.payload, job[o].payload)
    <3> SUFFICES ASSUME NEW o \in Operators, Commit(o), job[o].staged
                 PROVE  ~SameKey(j.payload, job[o].payload)
      OBVIOUS
    <3>1. o # u
      BY <2>1 DEF Commit, IngestionInv, TypeOK
    <3> QED BY <1>0, <1>1, <3>1 DEF KeysApart
  <2>4. ~KeyTaken(j.payload)'
    BY <1>1, <2>1, <2>3, KeyStaysFree DEF Staged
  <2> QED BY <2>1, <2>2, <2>4 DEF Staged
<1> QED BY <1>0, <1>1, <1>2, <1>3 DEF Knows

\* An operator between commands.
LEMMA IdleKnows ==
    ASSUME NEW u \in Operators, pc'[u] = "idle", job'[u] = NoJob
    PROVE  Knows(u)'
  BY DEF Knows, NoJob

\* Refusing a known document before it was looked up takes a fault, or the
\* boundary table with "usgs".
LEMMA KnownGoesThrough ==
    ASSUME ReleaseIsWhole, NEW p \in Payloads, ReleasesOf(p) # {}, boundary \/ Adapter(p) # Usgs
    PROVE  AllGo(Adapter(p).before, p, {})
<1>1. Valid(p)
  BY DEF ReleaseIsWhole, ReleasesOf, Valid
<1>2. ASSUME NEW step \in Adapter(p).before  PROVE Goes(step, p, {})
  <2>1. step \in {"fetch", "parse", "place"}
    BY <1>2, AdapterSteps
  <2>2. CASE step = "fetch"
    BY <2>2 DEF Goes, Fetched
  <2>3. CASE step = "parse"
    BY <1>1, <2>3 DEF Goes
  <2>4. CASE step = "place"
    <3>1. boundary
      BY <1>2, <2>4, AdapterSteps
    <3> QED BY <2>4, <3>1 DEF Goes, Located
  <2> QED BY <2>1, <2>2, <2>3, <2>4
<1> QED BY <1>2 DEF AllGo

LEMMA BeginKnows ==
    ASSUME IngestionInv, NEW o \in Operators, Begin(o)
    PROVE  Knows(o)' \/ UNCHANGED <<pc, job>>
<1>1. TypeOK /\ ReleaseIsWhole /\ pc \in [Operators -> {"idle", "looking", "inserting", "closing"}]
      /\ job \in [Operators -> Job]
  BY DEF IngestionInv, TypeOK
<1>2. PICK p \in Payloads, dry \in BOOLEAN, faults \in SUBSET {"fetch", "disk", "insert"} :
        BeginWith(o, p, dry, faults)
  BY <1>1, BeginCases
<1>3. PICK begun : begun = Opened(p, dry, faults)
  OBVIOUS
<1>4. /\ begun \in Job /\ begun.payload = p /\ (begun.dry <=> dry) /\ ~begun.staged
      /\ begun.known <=> ReleasesOf(p) # {}
      /\ begun.excused <=> (faults # {} \/ (~boundary /\ Adapter(p) = Usgs))
  BY <1>3, OpenedType
<1>5. begun.known => ReleasesOf(p)' # {}
  BY <1>4 DEF ReleasesOf, Begin
<1>6. CASE UNCHANGED <<pc, job>>
  BY <1>6
<1>7. CASE dry /\ pc'[o] = "closing"
           /\ job'[o] \in {Ended(begun, "succeeded", {"passed"}), FailedRun(begun)}
  <2>1. PICK result \in {"succeeded", "failed"}, check \in SUBSET {"passed", "failed"} :
          job'[o] = Ended(begun, result, check)
    BY <1>7 DEF FailedRun
  <2>2. /\ job'[o].payload = p /\ job'[o].dry /\ (job'[o].known <=> begun.known)
        /\ job'[o].result \in {"succeeded", "failed"} /\ ~job'[o].staged
    BY <1>4, <1>7, <2>1, EndedFields
  <2> QED BY <1>4, <1>5, <1>7, <2>2 DEF Knows
<1>8. CASE ~dry /\ AllGo(Adapter(p).before, p, faults) /\ pc'[o] = "looking" /\ job'[o] = begun
  <2>1. Valid(p)
    BY <1>8, AdapterSteps DEF AllGo, Goes
  <2> QED BY <1>4, <1>5, <1>8, <2>1 DEF Knows
<1>9. CASE ~dry /\ ~AllGo(Adapter(p).before, p, faults) /\ pc'[o] = "closing"
           /\ job'[o] = FailedRun(begun)
  <2>1. begun.known => begun.excused
    BY <1>1, <1>4, <1>9, KnownGoesThrough
  <2>2. /\ job'[o].payload = p /\ (job'[o].known <=> begun.known)
        /\ (job'[o].excused <=> begun.excused) /\ job'[o].result = "failed" /\ ~job'[o].staged
    BY <1>4, <1>9, EndedFields DEF FailedRun
  <2> QED BY <1>4, <1>5, <1>9, <2>1, <2>2 DEF Knows
<1> QED BY <1>1, <1>2, <1>3, <1>6, <1>7, <1>8, <1>9 DEF BeginWith

\* What excusing an ended run leaves alone.
LEMMA ExcusedFields ==
    ASSUME NEW j \in Job, NEW excused \in BOOLEAN
    PROVE  LET after == [j EXCEPT !.excused = excused] IN
           /\ after.payload = j.payload
           /\ after.dry <=> j.dry
           /\ after.known <=> j.known
           /\ after.staged <=> j.staged
           /\ after.result = j.result
           /\ after.check = j.check
           /\ after.excused <=> excused
  BY DEF Job

LEMMA LookKnows ==
    ASSUME IngestionInv, NEW o \in Operators, Look(o)
    PROVE  Knows(o)'
<1>1. /\ pc \in [Operators -> {"idle", "looking", "inserting", "closing"}]
      /\ job \in [Operators -> Job]
  BY DEF IngestionInv, TypeOK
<1>2. PICK j \in Job, p \in Payloads : j = job[o] /\ p = job[o].payload
  BY <1>1 DEF IngestionInv, Knows, Look
<1>3. /\ pc[o] = "looking" /\ Valid(p) /\ ~j.dry /\ ~j.staged
      /\ j.known => ReleasesOf(p) # {}
  BY <1>1, <1>2 DEF IngestionInv, Knows, Look
<1>4. j.known => ReleasesOf(p)' # {}
  BY <1>3 DEF Look, ReleasesOf
<1>5. CASE pc'[o] = "closing" /\ job'[o] = [FailedRun(j) EXCEPT !.excused = TRUE]
  <2>1. FailedRun(j) \in Job
    BY JobTypes
  <2>2. /\ job'[o].payload = p /\ (job'[o].known <=> j.known) /\ job'[o].excused
        /\ job'[o].result = "failed" /\ ~job'[o].staged
    BY <1>2, <1>5, <2>1, EndedFields, ExcusedFields DEF FailedRun
  <2> QED BY <1>4, <1>5, <2>2 DEF Knows
<1>6. CASE ReleasesOf(p) = {} /\ pc'[o] = "inserting" /\ job' = job
  BY <1>2, <1>3, <1>6 DEF Knows
<1>7. CASE /\ pc'[o] = "closing"
           /\ job'[o] = [(IF AllGo(Adapter(p).known, p, j.faults)
                          THEN Ended(j, "succeeded", {}) ELSE FailedRun(j))
                         EXCEPT !.excused = @ \/ ~(Licensed(p) /\ Readable(p))]
  <2>1. PICK result \in {"succeeded", "failed"}, check \in SUBSET {"passed", "failed"} :
          /\ job'[o] = [Ended(j, result, check) EXCEPT
                           !.excused = @ \/ ~(Licensed(p) /\ Readable(p))]
          /\ AllGo(Adapter(p).known, p, j.faults) => result = "succeeded" /\ check = {}
    BY <1>7 DEF FailedRun
  <2>2. Ended(j, result, check) \in Job
    BY DEF Ended, Job
  <2>3. PICK excused \in BOOLEAN :
          /\ excused <=> Ended(j, result, check).excused \/ ~(Licensed(p) /\ Readable(p))
          /\ job'[o] = [Ended(j, result, check) EXCEPT !.excused = excused]
    BY <2>1, Zenon
  <2>4. /\ job'[o].payload = p /\ (job'[o].known <=> j.known) /\ ~job'[o].staged
        /\ job'[o].result = result /\ job'[o].check = check
        /\ job'[o].excused <=> (j.excused \/ ~(Licensed(p) /\ Readable(p)))
    BY <1>2, <2>2, <2>3, EndedFields, ExcusedFields
  <2>5. Licensed(p) /\ Readable(p) => AllGo(Adapter(p).known, p, j.faults)
    BY AdapterSteps DEF AllGo, Goes
  <2> QED BY <1>4, <1>7, <2>1, <2>4, <2>5 DEF Knows
<1> QED BY <1>1, <1>2, <1>5, <1>6, <1>7 DEF Look

LEMMA InsertKnows ==
    ASSUME IngestionInv, NEW o \in Operators, Insert(o)
    PROVE  Knows(o)'
<1>1. /\ pc \in [Operators -> {"idle", "looking", "inserting", "closing"}]
      /\ job \in [Operators -> Job] /\ stored \in [Payloads -> {"absent", "intact", "damaged"}]
  BY DEF IngestionInv, TypeOK
<1>2. PICK j \in Job, p \in Payloads : j = job[o] /\ p = job[o].payload
  BY <1>1 DEF IngestionInv, Knows, Insert
<1>3. pc[o] = "inserting" /\ Valid(p) /\ ~j.dry /\ ~j.known
  BY <1>2 DEF IngestionInv, Knows, Insert
<1>4. pc'[o] = "closing"
  BY <1>1 DEF Insert
<1>5. CASE job'[o] = FailedRun(j)
  <2>1. /\ job'[o].payload = p /\ ~job'[o].known /\ ~job'[o].staged /\ job'[o].result = "failed"
    BY <1>2, <1>3, <1>5, EndedFields DEF FailedRun
  <2> QED BY <1>4, <2>1 DEF Knows
<1>6. CASE /\ AllGo(Adapter(p).new, p, j.faults) /\ ~KeyTaken(p)
           /\ job'[o] = [j EXCEPT !.result = "succeeded", !.check = {"passed"}, !.staged = TRUE]
  <2>1. /\ job'[o].payload = p /\ ~job'[o].known /\ ~job'[o].dry
        /\ job'[o].result = "succeeded" /\ job'[o].check = {"passed"}
    BY <1>2, <1>3, <1>6 DEF Job
  <2>2. stored'[p] # "absent"
    BY <1>1, <1>2, <1>6 DEF Insert
  <2>3. ~KeyTaken(p)'
    BY <1>6 DEF Insert, KeyTaken, SameKey
  <2>4. Valid(p)'
    BY <1>3 DEF Valid
  <2> QED BY <1>4, <2>1, <2>2, <2>3, <2>4 DEF Knows, Staged
<1> QED BY <1>1, <1>2, <1>5, <1>6 DEF Insert, Undone

\* An operator's step leaves the others' control and transactions alone.
LEMMA OthersAlone ==
    ASSUME TypeOK, NEW o \in Operators, NEW u \in Operators, o # u,
           Begin(o) \/ Look(o) \/ Insert(o) \/ Commit(o) \/ Crash(o)
    PROVE  pc'[u] = pc[u] /\ job'[u] = job[u]
<1>1. /\ pc \in [Operators -> {"idle", "looking", "inserting", "closing"}]
      /\ job \in [Operators -> Job]
  BY DEF TypeOK
<1>2. CASE Begin(o)
  <2>1. PICK p \in Payloads, dry \in BOOLEAN, faults \in SUBSET {"fetch", "disk", "insert"} :
          BeginWith(o, p, dry, faults)
    BY <1>2, BeginCases
  <2>2. \/ UNCHANGED <<pc, job>>
        \/ \E step, k : pc' = [pc EXCEPT ![o] = step] /\ job' = [job EXCEPT ![o] = k]
    BY <2>1 DEF BeginWith
  <2> QED BY <1>1, <2>2
<1> QED BY <1>1, <1>2 DEF Look, Insert, Commit, Crash

LEMMA KnowsStep ==
    ASSUME IngestionInv, Next, NEW u \in Operators
    PROVE  Knows(u)'
<1>1. /\ TypeOK /\ pc \in [Operators -> {"idle", "looking", "inserting", "closing"}]
      /\ job \in [Operators -> Job]
  BY DEF IngestionInv, TypeOK
<1>2. CASE pc'[u] = pc[u] /\ job'[u] = job[u]
  BY <1>2, OthersKnow
<1>3. CASE pc'[u] = "idle" /\ job'[u] = NoJob
  BY <1>3, IdleKnows
<1>4. CASE Begin(u)
  BY <1>2, <1>4, BeginKnows
<1>5. CASE Look(u)
  BY <1>5, LookKnows
<1>6. CASE Insert(u)
  BY <1>6, InsertKnows
<1>7. ASSUME NEW o \in Operators, o # u, Begin(o) \/ Look(o) \/ Insert(o) \/ Commit(o) \/ Crash(o)
      PROVE  pc'[u] = pc[u] /\ job'[u] = job[u]
  BY <1>1, <1>7, OthersAlone
<1>8. CASE Commit(u) \/ Crash(u)
  BY <1>1, <1>3, <1>8 DEF Commit, Crash
<1>9. CASE (\E v \in Reviewers : Load(v) \/ Decide(v)) \/ Surroundings
  BY <1>2, <1>9 DEF Load, Decide, Surroundings
<1> QED BY <1>2, <1>4, <1>5, <1>6, <1>7, <1>8, <1>9 DEF Next

\* Inserting is the only step after which an operator holds a key it did not hold.
LEMMA OnlyInsertStages ==
    ASSUME IngestionInv, Next, NEW u \in Operators, job'[u].staged, ~Insert(u)
    PROVE  job'[u] = job[u]
<1>1. /\ TypeOK /\ pc \in [Operators -> {"idle", "looking", "inserting", "closing"}]
      /\ job \in [Operators -> Job]
  BY DEF IngestionInv, TypeOK
<1>2. ~Commit(u) /\ ~Crash(u)
  BY <1>1 DEF Commit, Crash, NoJob
<1>3. CASE Begin(u)
  <2>1. PICK p \in Payloads, dry \in BOOLEAN, faults \in SUBSET {"fetch", "disk", "insert"} :
          BeginWith(u, p, dry, faults)
    BY <1>1, <1>3, BeginCases
  <2>2. PICK j \in Job : j = Opened(p, dry, faults) /\ ~j.staged
    BY OpenedType
  <2>3. ~FailedRun(j).staged /\ ~Ended(j, "succeeded", {"passed"}).staged
    BY EndedFields DEF FailedRun
  <2> QED BY <1>1, <2>1, <2>2, <2>3 DEF BeginWith
<1>4. CASE Look(u)
  <2>1. job[u] \in Job /\ ~job[u].staged
    BY <1>1, <1>4 DEF Look, IngestionInv, Knows
  <2>2. \A e \in BOOLEAN : \A j \in {FailedRun(job[u]), Ended(job[u], "succeeded", {})} :
            ~[j EXCEPT !.excused = e].staged
    BY <2>1 DEF FailedRun, Ended, Job
  <2>3. \/ job' = job
        \/ \E e \in BOOLEAN : \E j \in {FailedRun(job[u]), Ended(job[u], "succeeded", {})} :
              job'[u] = [j EXCEPT !.excused = e]
    <3>1. CASE job' = [job EXCEPT ![u] = [FailedRun(job[u]) EXCEPT !.excused = TRUE]]
      BY <1>1, <3>1
    <3>2. ASSUME NEW j \in {FailedRun(job[u]), Ended(job[u], "succeeded", {})},
                 job' = [job EXCEPT ![u] = [j EXCEPT !.excused =
                    @ \/ ~(Licensed(job[u].payload) /\ Readable(job[u].payload))]]
          PROVE  \E e \in BOOLEAN : job'[u] = [j EXCEPT !.excused = e]
      <4>1. (j.excused \/ ~(Licensed(job[u].payload) /\ Readable(job[u].payload))) \in BOOLEAN
        OBVIOUS
      <4> QED BY <1>1, <3>2, <4>1
    <3> QED BY <1>4, <3>1, <3>2 DEF Look
  <2> QED BY <2>2, <2>3
<1>5. ASSUME NEW o \in Operators, o # u, Begin(o) \/ Look(o) \/ Insert(o) \/ Commit(o) \/ Crash(o)
      PROVE  job'[u] = job[u]
  BY <1>1, <1>5, OthersAlone
<1>6. CASE (\E v \in Reviewers : Load(v) \/ Decide(v)) \/ Surroundings
  BY <1>6 DEF Load, Decide, Surroundings
<1> QED BY <1>2, <1>3, <1>4, <1>5, <1>6 DEF Next

LEMMA KeysApartStep ==
    ASSUME IngestionInv, Next
    PROVE  KeysApart'
<1> SUFFICES ASSUME NEW o \in Operators, NEW u \in Operators, o # u, job'[o].staged, job'[u].staged
             PROVE  ~SameKey(job'[o].payload, job'[u].payload)
  BY DEF KeysApart, SameKey
<1>1. job \in [Operators -> Job] /\ KeysApart
  BY DEF IngestionInv, TypeOK
<1>2. ASSUME NEW a \in Operators, NEW b \in Operators, a # b, Insert(a), job'[b].staged,
             job'[a].staged
      PROVE  ~SameKey(job'[a].payload, job'[b].payload)
  <2>1. job'[b] = job[b]
    BY <1>1, <1>2 DEF Insert
  <2>2. job'[a].payload = job[a].payload
    BY <1>1, <1>2 DEF Insert, FailedRun, Undone, Ended, Job
  <2> QED BY <1>2, <2>1, <2>2 DEF Insert, KeyHeld
<1>3. CASE Insert(o)
  BY <1>2, <1>3
<1>4. CASE Insert(u)
  BY <1>2, <1>4, SameKeySymmetric
<1>5. CASE ~Insert(o) /\ ~Insert(u)
  BY <1>1, <1>5, OnlyInsertStages DEF KeysApart
<1> QED BY <1>3, <1>4, <1>5

----------------------------------------------------------------------------
(* The releases, the runs and the claims.                                  *)

LEMMA SeatedStep ==
    ASSUME IngestionInv, Next
    PROVE  Seated'
<1>1. TypeOK /\ Seated
  BY DEF IngestionInv
<1>2. DOMAIN releases \subseteq DOMAIN releases'
  <2>1. CASE \A o \in Operators : ~Commit(o)
    BY <1>1, <2>1, StepKeeps DEF Kept
  <2>2. ASSUME NEW o \in Operators, Commit(o)  PROVE DOMAIN releases \subseteq DOMAIN releases'
    BY <1>1, <2>2, CommitReleases
  <2> QED BY <2>1, <2>2
<1>3. ASSUME NEW v \in Reviewers, desk'[v] # None, desk'[v] # desk[v]
      PROVE  desk'[v].release \in DOMAIN releases
  <2>1. ASSUME NEW w \in Reviewers, Load(w)  PROVE desk'[v].release \in DOMAIN releases
    BY <1>1, <1>3, <2>1 DEF Load, TypeOK
  <2>2. ASSUME NEW w \in Reviewers, Decide(w)  PROVE FALSE
    BY <1>1, <1>3, <2>2 DEF Decide, TypeOK
  <2> QED BY <1>3, <2>1, <2>2 DEF Next, Begin, Look, Insert, Commit, Crash, Surroundings
<1> QED BY <1>1, <1>2, <1>3 DEF Seated

LEMMA RunsNamedStep ==
    ASSUME IngestionInv, Next
    PROVE  RunsNamed'
<1>1. TypeOK /\ Seated /\ RunsNamed
  BY DEF IngestionInv
<1>2. CASE \A o \in Operators : ~Commit(o)
  BY <1>1, <1>2, StepKeeps DEF Kept, RunsNamed
<1>3. ASSUME NEW o \in Operators, Commit(o)  PROVE RunsNamed'
  <2>1. DOMAIN runs' = DOMAIN runs \cup {Len(runs) + 1}
    BY <1>1, <1>3, CommitRuns
  <2>2. CASE job[o].staged
    BY <1>1, <1>3, <2>1, <2>2, CommitReleases DEF RunsNamed
  <2>3. CASE ~job[o].staged
    BY <1>1, <1>3, <2>1, <2>3, CommitReleases DEF RunsNamed
  <2> QED BY <2>2, <2>3
<1> QED BY <1>2, <1>3

\* ReleaseIsWhole of one release, with the checksum's uniqueness apart.
Whole(r) ==
    /\ releases[r].payload \notin Malformed
    /\ runs[releases[r].run].payload = releases[r].payload
    /\ runs[releases[r].run].status = "succeeded"
    /\ runs[releases[r].run].checks = {"passed"}
    /\ stored[releases[r].payload] # "absent"

LEMMA WholeParts ==
    ReleaseIsWhole <=>
        /\ \A r \in DOMAIN releases : Whole(r)
        /\ \A r, s \in DOMAIN releases : releases[r].payload = releases[s].payload => r = s
  BY DEF ReleaseIsWhole, Whole, ReleasesOf

LEMMA WholeStep ==
    ASSUME IngestionInv, Next
    PROVE  ReleaseIsWhole'
<1>1. TypeOK /\ Seated /\ RunsNamed /\ ReleaseIsWhole /\ TypeOK'
  BY TypeStep DEF IngestionInv
<1>2. /\ \A r \in DOMAIN releases : Whole(r) /\ releases[r].payload \in Payloads
      /\ \A r, s \in DOMAIN releases : releases[r].payload = releases[s].payload => r = s
  BY <1>1, WholeParts, ReleaseTypes DEF Release
<1>3. CASE \A o \in Operators : ~Commit(o)
  <2>1. Kept
    BY <1>1, <1>3, StepKeeps
  <2>2. \A r \in DOMAIN releases' : Whole(r)'
    BY <1>1, <1>2, <2>1, StoredStays DEF Kept, Whole
  <2>3. \A r, s \in DOMAIN releases' : releases'[r].payload = releases'[s].payload => r = s
    BY <1>2, <2>1 DEF Kept
  <2> QED BY <2>2, <2>3 DEF ReleaseIsWhole, Whole, ReleasesOf
<1>4. ASSUME NEW o \in Operators, Commit(o)  PROVE ReleaseIsWhole'
  <2>1. stored' = stored
    BY <1>4 DEF Commit
  <2>2. \A r \in DOMAIN releases : releases'[r] = releases[r] => Whole(r)'
    <3>1. \A n \in DOMAIN runs : runs'[n] = runs[n]
      BY <1>1, <1>4, CommitRuns
    <3> QED BY <1>1, <1>2, <2>1, <3>1 DEF Whole, RunsNamed
  <2>3. CASE ~job[o].staged
    <3>1. releases' = releases
      BY <1>1, <1>4, <2>3, CommitReleases
    <3> QED BY <1>2, <2>2, <3>1 DEF ReleaseIsWhole, Whole, ReleasesOf
  <2>4. CASE job[o].staged
    <3>1. PICK new : /\ new = Len(releases) + 1
                     /\ new \notin DOMAIN releases
                     /\ DOMAIN releases' = DOMAIN releases \cup {new}
                     /\ \A r \in DOMAIN releases : releases'[r] = releases[r]
                     /\ releases'[new].payload = job[o].payload
                     /\ releases'[new].run = Len(runs) + 1
      BY <1>1, <1>4, <2>4, CommitReleases
    <3>2. Staged(job[o])
      BY <2>4 DEF IngestionInv, Knows
    <3>3. Whole(new)'
      <4>1. /\ runs'[Len(runs) + 1].payload = job[o].payload
            /\ runs'[Len(runs) + 1].status = "succeeded"
            /\ runs'[Len(runs) + 1].checks = {"passed"}
        BY <1>1, <1>4, <3>2, CommitRuns DEF Staged
      <4> QED BY <2>1, <3>1, <3>2, <4>1 DEF Whole, Staged, Valid
    <3>4. \A r \in DOMAIN releases : releases[r].payload # job[o].payload
      BY <3>2 DEF Staged, KeyTaken, SameKey
    <3>5. \A r \in DOMAIN releases' : Whole(r)'
      BY <2>2, <3>1, <3>3
    <3>6. \A r, s \in DOMAIN releases' : releases'[r].payload = releases'[s].payload => r = s
      BY <1>2, <3>1, <3>4
    <3> QED BY <3>5, <3>6 DEF ReleaseIsWhole, Whole, ReleasesOf
  <2> QED BY <2>3, <2>4
<1> QED BY <1>3, <1>4

LEMMA RetryStep ==
    ASSUME IngestionInv, Next
    PROVE  RetryIsAccepted'
<1>1. TypeOK /\ Seated /\ RetryIsAccepted
  BY DEF IngestionInv
<1>2. CASE \A o \in Operators : ~Commit(o)
  BY <1>1, <1>2, StepKeeps DEF Kept, RetryIsAccepted
<1>3. ASSUME NEW o \in Operators, Commit(o)  PROVE RetryIsAccepted'
  <2>1. job[o].known /\ ~job[o].dry /\ ~job[o].excused =>
            job[o].result = "succeeded" /\ job[o].check = {}
    BY <1>3 DEF Commit, IngestionInv, Knows
  <2>2. LET run == runs'[Len(runs) + 1] IN
        run.known /\ ~run.dry /\ ~run.excused => run.status = "succeeded" /\ run.checks = {}
    BY <1>1, <1>3, <2>1, CommitRuns
  <2>3. /\ DOMAIN runs' = DOMAIN runs \cup {Len(runs) + 1}
        /\ \A n \in DOMAIN runs : runs'[n] = runs[n]
    BY <1>1, <1>3, CommitRuns
  <2> QED BY <1>1, <2>2, <2>3 DEF RetryIsAccepted
<1> QED BY <1>2, <1>3

\* A decision on an open claim leaves a sound claim.
LEMMA DecidedSound ==
    ASSUME NEW claim \in Claim, Sound(claim), NEW decision \in Decisions,
           claim.status \in {"candidate", "in_review"}
    PROVE  Sound(Decided(claim, decision))
<1>1. PICK log \in Seq(Decisions) : log = claim.log
  BY DEF Claim
<1>2. Terminal(log) = {}
  <2>1. CASE Len(log) = 0
    BY <2>1 DEF Terminal
  <2>2. CASE Len(log) # 0
    <3>1. log[Len(log)] \in Decisions /\ Resulting(log[Len(log)]) \in {"candidate", "in_review"}
      BY <1>1, <2>2 DEF Sound
    <3>2. log[Len(log)] = "deferred"
      BY <3>1 DEF Resulting, Decisions
    <3> QED BY <1>1, <3>2 DEF Sound, Terminal
  <2> QED BY <2>1, <2>2
<1>3. claim.task = "open"
  BY <1>1, <1>2 DEF Sound
<1>4. PICK after \in Seq(Decisions) :
        /\ after = Append(log, decision)
        /\ Len(after) = Len(log) + 1 /\ after[Len(log) + 1] = decision
        /\ \A n \in DOMAIN log : after[n] = log[n]
        /\ DOMAIN after = DOMAIN log \cup {Len(after)}
  <2>1. Append(log, decision) \in Seq(Decisions)
    OBVIOUS
  <2>2. /\ Len(Append(log, decision)) = Len(log) + 1
        /\ Append(log, decision)[Len(log) + 1] = decision
        /\ \A n \in DOMAIN log : Append(log, decision)[n] = log[n]
        /\ DOMAIN Append(log, decision) = DOMAIN log \cup {Len(Append(log, decision))}
    OBVIOUS
  <2> QED BY <2>1, <2>2
<1>5. Terminal(after) = IF decision = "deferred" THEN {} ELSE {Len(after)}
  BY <1>2, <1>4 DEF Terminal
<1>6. Decided(claim, decision) =
        [status |-> Resulting(decision),
         task |-> IF decision = "deferred" THEN "open"
                  ELSE IF decision = "rejected" THEN "dismissed" ELSE "resolved",
         log |-> after]
  BY <1>1, <1>3, <1>4 DEF Decided
<1> QED BY <1>4, <1>5, <1>6 DEF Sound

LEMMA DecisionStep ==
    ASSUME IngestionInv, Next
    PROVE  OneTerminalDecision'
<1>1. /\ TypeOK /\ Seated /\ releases \in Seq(Release)
      /\ \A r \in DOMAIN releases : \A q \in Predicates : Sound(releases[r].claims[q])
  BY DEF IngestionInv, TypeOK, OneTerminalDecision, Sound
<1> SUFFICES \A r \in DOMAIN releases' : \A q \in Predicates : Sound(releases'[r].claims[q])
  BY DEF OneTerminalDecision, Sound
<1>2. CASE releases' = releases
  BY <1>1, <1>2
<1>3. ASSUME NEW o \in Operators, Commit(o), job[o].staged
      PROVE  \A r \in DOMAIN releases' : \A q \in Predicates : Sound(releases'[r].claims[q])
  <2>1. Sound(Candidate)
    BY DEF Sound, Candidate, Terminal
  <2>2. PICK new : /\ DOMAIN releases' = DOMAIN releases \cup {new}
                   /\ \A r \in DOMAIN releases : releases'[r] = releases[r]
                   /\ releases'[new].claims = [q \in Predicates |-> Candidate]
    BY <1>1, <1>3, CommitReleases
  <2> QED BY <1>1, <2>1, <2>2
<1>4. ASSUME NEW v \in Reviewers, Decide(v), releases' # releases
      PROVE  \A r \in DOMAIN releases' : \A q \in Predicates : Sound(releases'[r].claims[q])
  <2>1. PICK r \in DOMAIN releases, q \in Predicates, decision \in Decisions :
          /\ releases[r].claims[q].status \in {"candidate", "in_review"}
          /\ releases' = [releases EXCEPT ![r] = Reviewed(releases[r], q, decision)]
    BY <1>1, <1>4, DecideCases
  <2>2. PICK claims \in [Predicates -> Claim] :
          claims = releases[r].claims /\ \A s \in Predicates : Sound(claims[s])
    BY <1>1, ReleaseTypes DEF Release
  <2>3. Reviewed(releases[r], q, decision).claims =
          [claims EXCEPT ![q] = Decided(claims[q], decision)]
    BY <1>1, <2>2, ReleaseTypes, ReviewedType
  <2>4. Sound(Decided(claims[q], decision))
    BY <2>1, <2>2, DecidedSound
  <2>5. \A s \in Predicates : Sound(releases'[r].claims[s])
    BY <1>1, <2>1, <2>2, <2>3, <2>4
  <2> QED BY <1>1, <2>1, <2>5
<1>5. (\E o \in Operators : Commit(o) /\ job[o].staged)
      \/ (\E v \in Reviewers : Decide(v)) \/ releases' = releases
  BY DEF Next, Begin, Look, Insert, Commit, Imported, Crash, Load, Surroundings
<1> QED BY <1>2, <1>3, <1>4, <1>5

----------------------------------------------------------------------------
(* The theorems.                                                           *)

LEMMA IngestionInvInit == Init => IngestionInv
<1> SUFFICES ASSUME Init PROVE IngestionInv
  OBVIOUS
<1>1. TypeOK
  BY InitType
<1>2. \A o \in Operators : job[o] = NoJob /\ pc[o] = "idle"
  BY DEF Init
<1>3. \A o \in Operators : Knows(o)
  BY <1>2 DEF Knows, NoJob
<1>4. KeysApart
  BY <1>2 DEF KeysApart, NoJob
<1>5. DOMAIN releases = {} /\ DOMAIN runs = {} /\ \A v \in Reviewers : desk[v] = None
  BY DEF Init
<1>6. Seated /\ RunsNamed /\ ReleaseIsWhole /\ RetryIsAccepted /\ OneTerminalDecision
  BY <1>5 DEF Seated, RunsNamed, ReleaseIsWhole, RetryIsAccepted, OneTerminalDecision
<1> QED BY <1>1, <1>3, <1>4, <1>6 DEF IngestionInv

LEMMA IngestionInvStep == IngestionInv /\ [Next]_vars => IngestionInv'
<1>1. ASSUME IngestionInv, Next  PROVE IngestionInv'
  <2>1. TypeOK'
    BY <1>1, TypeStep DEF IngestionInv
  <2>2. \A o \in Operators : Knows(o)'
    BY <1>1, KnowsStep
  <2>3. KeysApart' /\ Seated' /\ RunsNamed'
    BY <1>1, KeysApartStep, SeatedStep, RunsNamedStep
  <2>4. ReleaseIsWhole' /\ RetryIsAccepted' /\ OneTerminalDecision'
    BY <1>1, WholeStep, RetryStep, DecisionStep
  <2> QED BY <2>1, <2>2, <2>3, <2>4 DEF IngestionInv
<1>2. ASSUME IngestionInv, UNCHANGED vars  PROVE IngestionInv'
  <2> USE <1>2 DEF vars
  <2>1. TypeOK'
    BY DEF IngestionInv, TypeOK
  <2>2. ASSUME NEW o \in Operators  PROVE Knows(o)'
    BY DEF IngestionInv, Knows, Staged, ReleasesOf, KeyTaken, SameKey, Valid
  <2>3. KeysApart' /\ Seated' /\ RunsNamed'
    BY DEF IngestionInv, KeysApart, Seated, RunsNamed, SameKey
  <2>4. ReleaseIsWhole'
    BY DEF IngestionInv, ReleaseIsWhole, ReleasesOf
  <2>5. RetryIsAccepted' /\ OneTerminalDecision'
    BY DEF IngestionInv, RetryIsAccepted, OneTerminalDecision
  <2> QED BY <2>1, <2>2, <2>3, <2>4, <2>5 DEF IngestionInv
<1> QED BY <1>1, <1>2

\* Every variable keeps its type: the pipeline runs, the releases and their
\* claims stay within the vocabulary the adapters and governance.py write.
THEOREM IngestionTypeCorrect == Spec => []TypeOK
<1>1. IngestionInv => TypeOK
  BY DEF IngestionInv
<1> QED BY <1>1, IngestionInvInit, IngestionInvStep, PTL DEF Spec

\* The strengthening behind the three theorems below is inductive.
THEOREM IngestionInvariant == Spec => []IngestionInv
  BY IngestionInvInit, IngestionInvStep, PTL DEF Spec

\* With any number of operators, faults, crashes and collisions of unique
\* keys, a release is whole and unique: its run succeeded with the passed
\* check alone, its bytes are stored, no other release has its checksum.
THEOREM ReleasesAreWhole == Spec => []ReleaseIsWhole
<1>1. IngestionInv => ReleaseIsWhole
  BY DEF IngestionInv
<1> QED BY <1>1, IngestionInvariant, PTL

\* Ingesting a known document again succeeds and records no new check, for
\* every adapter but "usgs" whatever became of the boundary table.
THEOREM RetriesAreAccepted == Spec => []RetryIsAccepted
<1>1. IngestionInv => RetryIsAccepted
  BY DEF IngestionInv
<1> QED BY <1>1, IngestionInvariant, PTL

\* However many reviewers race for a claim, at most one terminal decision is
\* recorded, nothing after it, and status and task say the last decision.
THEOREM ClaimsAreDecidedOnce == Spec => []OneTerminalDecision
<1>1. IngestionInv => OneTerminalDecision
  BY DEF IngestionInv
<1> QED BY <1>1, IngestionInvariant, PTL

=============================================================================
