---------------------------- MODULE BatchProofs ----------------------------
(***************************************************************************)
(* Theorems about Batch, for every set of operators and dates, every bound *)
(* and every combination of disturbances.                                  *)
(*                                                                         *)
(* What the ledger says is not inductive alone: an entry is committed long *)
(* after the manifest it names, and after the releases it claims were      *)
(* read.  The invariant BatchInv below says what an operator knows at each *)
(* step in between, and the lemmas that nobody else can spoil it.          *)
(***************************************************************************)
EXTENDS Batch, TLAPS

----------------------------------------------------------------------------
(* Types.                                                                  *)

\* Replacing one run by another keeps the history of runs.
LEMMA RunUpdates ==
    ASSUME TypeOK, NEW i, NEW r, i \in DOMAIN runs => r \in Run
    PROVE  /\ [runs EXCEPT ![i] = r] \in Seq(Run)
           /\ Len([runs EXCEPT ![i] = r]) = Len(runs)
           /\ DOMAIN [runs EXCEPT ![i] = r] = DOMAIN runs
<1>1. CASE i \in DOMAIN runs
  BY <1>1 DEF TypeOK
<1>2. CASE i \notin DOMAIN runs
  <2>1. runs = [j \in DOMAIN runs |-> runs[j]]
    BY DEF TypeOK
  <2>2. [runs EXCEPT ![i] = r] = [j \in DOMAIN runs |-> runs[j]]
    BY <1>2
  <2> QED BY <2>1, <2>2 DEF TypeOK
<1> QED BY <1>1, <1>2

\* A run stays a run whatever its status becomes.
LEMMA RunStatus ==
    ASSUME TypeOK, NEW i \in DOMAIN runs, NEW st \in {"running", "completed", "interrupted"}
    PROVE  [runs[i] EXCEPT !.status = st] \in Run
<1>1. runs[i] \in Run
  BY DEF TypeOK
<1> QED BY <1>1 DEF Run

\* A run stays a run with one more entry.
LEMMA RunLedger ==
    ASSUME TypeOK, NEW i \in DOMAIN runs, NEW d, NEW e \in Entry
    PROVE  Ledgered(i, d, e) \in Run
<1>1. runs[i] \in Run
  BY DEF TypeOK
<1> QED BY <1>1 DEF Run, Ledgered

\* Releases of any of the sources may be recorded.
LEMMA PinsCover ==
    ASSUME NEW S \in SUBSET Sources, NEW pins \in [S -> 0 .. MaxRelease]
    PROVE  pins \in Pins
<1>1. [S -> 0 .. MaxRelease] \in {[T -> 0 .. MaxRelease] : T \in SUBSET Sources}
  OBVIOUS
<1> QED BY <1>1 DEF Pins

\* A request becomes a run.
LEMMA NewRunType ==
    ASSUME NEW dates \in SUBSET Dates, NEW pins \in Pins,
           NEW dry \in BOOLEAN \cup {Nothing}, NEW force \in BOOLEAN \cup {Nothing}
    PROVE  NewRun(dates, pins, dry, force) \in Run
<1>1. [d \in Dates |-> NoEntry] \in [Dates -> Entry]
  BY BatchAssumption DEF NoEntry, Entry, Outcomes
<1> QED BY <1>1 DEF NewRun, Run

\* A single run is a history of runs.
LEMMA OneRun ==
    ASSUME NEW r \in Run
    PROVE  <<r>> \in Seq(Run) /\ Len(<<r>>) = 1
  OBVIOUS

\* The initial state is well typed.
LEMMA InitType == Init => TypeOK
<1> SUFFICES ASSUME Init PROVE TypeOK OBVIOUS
<1> USE BatchAssumption
<1>1. release \in Releases
  BY DEF Init, Releases
<1>2. runs \in Seq(Run) /\ Len(runs) <= MaxRuns
  <2>1. [s \in {} |-> 0] \in Pins
    <3>1. {} \in SUBSET Sources /\ [s \in {} |-> 0] \in [{} -> 0 .. MaxRelease]
      OBVIOUS
    <3> QED BY <3>1, PinsCover
  <2>2. NewRun(Dates, [s \in {} |-> 0], Nothing, Nothing) \in Run
    BY <2>1, NewRunType
  <2>3. PICK legacy \in Legacy :
            runs = IF legacy THEN <<NewRun(Dates, [s \in {} |-> 0], Nothing, Nothing)>> ELSE << >>
    BY DEF Init
  <2>4. CASE legacy
    <3>1. runs = <<NewRun(Dates, [s \in {} |-> 0], Nothing, Nothing)>>
      BY <2>3, <2>4
    <3>2. runs \in Seq(Run) /\ Len(runs) = 1
      BY <3>1, <2>2, OneRun
    <3> QED BY <3>2
  <2>5. CASE ~legacy
    <3>1. runs = << >>
      BY <2>3, <2>5
    <3> QED BY <3>1
  <2> QED BY <2>4, <2>5
<1>3. status \in [Dates -> [Versions -> {"unused", "draft", "published", "withdrawn"}]]
  BY DEF Init
<1>4. content \in [Dates -> [Versions -> Releases \cup {Richer, Nothing}]]
  BY DEF Init
<1>5. trouble \in 0 .. MaxTrouble
  BY DEF Init
<1>6. job \in [Operators -> Job]
  <2>1. NoJob \in Job
    BY DEF NoJob, Job, Outcomes
  <2> QED BY <2>1 DEF Init
<1>7. pc \in [Operators -> {"idle", "next", "render", "publish", "complete",
                             "record", "commit"}]
  BY DEF Init
<1> QED BY <1>1, <1>2, <1>3, <1>4, <1>5, <1>6, <1>7 DEF TypeOK

\* The steps an operator may be at, and the types of the control state.
Steps == {"idle", "next", "render", "publish", "complete", "record", "commit"}
OperatorsOK == pc \in [Operators -> Steps] /\ job \in [Operators -> Job]

\* The types of the fields of an operator's local state.
LEMMA JobFields ==
    ASSUME NEW j \in Job
    PROVE  /\ j.run \in 0 .. MaxRuns
           /\ j.todo \in SUBSET Dates
           /\ j.dry \in BOOLEAN /\ j.force \in BOOLEAN
           /\ j.date \in Dates \cup {Nothing}
           /\ j.previous \in 0 .. MaxVersion
           /\ j.want \in Releases \cup {Nothing}
           /\ j.manifest \in 0 .. MaxVersion
           /\ j.outcome \in Outcomes
           /\ j.existing \in BOOLEAN /\ j.promoted \in BOOLEAN
  BY DEF Job

\* Local state between two dates.
LEMMA FreshJob ==
    ASSUME NEW run \in 0 .. MaxRuns, NEW todo \in SUBSET Dates,
           NEW dry \in BOOLEAN, NEW force \in BOOLEAN
    PROVE  /\ NoJob \in Job
           /\ [NoJob EXCEPT !.run = run, !.todo = todo, !.dry = dry, !.force = force] \in Job
<1>1. NoJob \in Job
  BY BatchAssumption DEF NoJob, Job, Outcomes
<1> QED BY <1>1 DEF Job

\* One operator moving to a known step with a well typed job keeps the types.
LEMMA OperatorStep ==
    ASSUME TypeOK, NEW o \in Operators, NEW step \in Steps, NEW j \in Job,
           Goto(o, step), job' = [job EXCEPT ![o] = j]
    PROVE  OperatorsOK'
<1>1. pc' \in [Operators -> Steps]
  BY DEF TypeOK, Goto, Steps
<1>2. job' \in [Operators -> Job]
  BY DEF TypeOK
<1> QED BY <1>1, <1>2 DEF OperatorsOK

\* Settling an outcome keeps the types.
LEMMA SettleType ==
    ASSUME TypeOK, NEW o \in Operators, NEW d \in Dates \cup {Nothing},
           NEW outcome \in Outcomes, NEW manifest \in 0 .. MaxVersion,
           NEW promoted \in BOOLEAN, Settle(o, d, outcome, manifest, promoted)
    PROVE  OperatorsOK'
<1> DEFINE j == [job[o] EXCEPT !.date = d, !.outcome = outcome, !.manifest = manifest,
                               !.promoted = promoted]
<1>1. job[o] \in Job
  BY DEF TypeOK
<1>2. j \in Job
  BY <1>1 DEF Job
<1>3. Goto(o, "record") /\ job' = [job EXCEPT ![o] = j]
  BY DEF Settle
<1>4. "record" \in Steps
  BY DEF Steps
<1> HIDE DEF j
<1> QED BY <1>2, <1>3, <1>4, OperatorStep

\* Returning from publish_context_profile keeps the types.
LEMMA ReturnType ==
    ASSUME TypeOK, NEW o \in Operators, NEW v \in 0 .. MaxVersion,
           NEW promoted \in BOOLEAN, Return(o, v, promoted)
    PROVE  OperatorsOK'
<1>1. job[o].date \in Dates \cup {Nothing}
  BY DEF TypeOK, Job
<1>2. (IF v = job[o].previous THEN "unchanged" ELSE "published") \in Outcomes
  BY DEF Outcomes
<1> QED BY <1>1, <1>2, SettleType DEF Return

\* Leaving keeps the types.
LEMMA ExitType ==
    ASSUME TypeOK, NEW o \in Operators, Exit(o)
    PROVE  OperatorsOK'
<1>1. NoJob \in Job /\ "idle" \in Steps
  BY BatchAssumption DEF NoJob, Job, Outcomes, Steps
<1> QED BY <1>1, OperatorStep DEF Exit

\* Every step keeps the types.
LEMMA StepType == TypeOK /\ [Next]_vars => TypeOK'
<1> SUFFICES ASSUME TypeOK, [Next]_vars PROVE TypeOK'
  OBVIOUS
<1> USE BatchAssumption
<1> DEFINE RunsOK == runs \in Seq(Run) /\ Len(runs) <= MaxRuns
           ArchiveOK ==
               /\ status \in [Dates -> [Versions ->
                      {"unused", "draft", "published", "withdrawn"}]]
               /\ content \in [Dates -> [Versions -> Releases \cup {Richer, Nothing}]]
<1>a. RunsOK /\ ArchiveOK /\ OperatorsOK /\ release \in Releases /\ trouble \in 0 .. MaxTrouble
  BY DEF TypeOK, OperatorsOK, Steps
<1>b. ASSUME RunsOK', ArchiveOK', OperatorsOK', release' \in Releases,
             trouble' \in 0 .. MaxTrouble
      PROVE  TypeOK'
  BY <1>b DEF TypeOK, OperatorsOK, Steps
<1>c. ASSUME UNCHANGED runs PROVE RunsOK'
  BY <1>a, <1>c
<1>d. ASSUME UNCHANGED archive PROVE ArchiveOK'
  BY <1>a, <1>d DEF archive
<1>e. ASSUME UNCHANGED <<pc, job>> PROVE OperatorsOK'
  BY <1>a, <1>e DEF OperatorsOK
<1>f. \A o \in Operators : job[o] \in Job
  BY DEF TypeOK
<1>i. Versions \subseteq 0 .. MaxVersion /\ 0 \in 0 .. MaxVersion
  BY DEF Versions
<1>j. {"published", "unchanged", "failed", "skipped"} \subseteq Outcomes
  BY DEF Outcomes
<1>g. \A i \in DOMAIN runs : i \in 1 .. MaxRuns /\ runs[i] \in Run
  BY DEF TypeOK
<1>h. release \in Pins
  BY <1>a, PinsCover DEF Releases
<1> HIDE DEF RunsOK, ArchiveOK
<1>1. ASSUME NEW o \in Operators, Start(o) PROVE TypeOK'
  <2>1. PICK dates \in Plans, dry \in DryRuns, force \in Forces :
            /\ runs' = Append(runs, NewRun(dates, release, dry, force))
            /\ job' = [job EXCEPT ![o] = [NoJob EXCEPT
                    !.run = Len(runs) + 1, !.todo = dates, !.dry = dry, !.force = force]]
    BY <1>1 DEF Start
  <2>2. NewRun(dates, release, dry, force) \in Run
    BY <1>h, NewRunType
  <2>3. RunsOK'
    BY <1>1, <2>1, <2>2, <1>a DEF Start, RunsOK
  <2>4. [NoJob EXCEPT !.run = Len(runs) + 1, !.todo = dates, !.dry = dry, !.force = force] \in Job
    <3>1. Len(runs) + 1 \in 0 .. MaxRuns /\ dates \in SUBSET Dates
      BY <1>1, <1>a DEF Start, RunsOK
    <3>2. dry \in BOOLEAN /\ force \in BOOLEAN
      OBVIOUS
    <3> QED BY <3>1, <3>2, FreshJob
  <2>5. OperatorsOK'
    BY <1>1, <2>1, <2>4, OperatorStep DEF Start, Steps
  <2> QED BY <1>1, <2>3, <2>5, <1>a, <1>b, <1>d DEF Start
<1>2. ASSUME NEW o \in Operators, NEW onlyFailed \in BOOLEAN, Resume(o, onlyFailed) PROVE TypeOK'
  <2>1. PICK i \in DOMAIN runs, dry \in DryRuns, force \in Forces :
            /\ runs' = [runs EXCEPT ![i] = [@ EXCEPT !.status = "running"]]
            /\ job' = [job EXCEPT ![o] = [NoJob EXCEPT
                    !.run = i, !.todo = Outstanding(i, onlyFailed),
                    !.dry = AsRecorded(i, dry, force).dry,
                    !.force = AsRecorded(i, dry, force).force]]
    BY <1>2 DEF Resume
  <2>2. RunsOK'
    BY <2>1, <1>a, RunStatus, RunUpdates DEF RunsOK
  <2>3. [NoJob EXCEPT !.run = i, !.todo = Outstanding(i, onlyFailed),
                      !.dry = AsRecorded(i, dry, force).dry,
                      !.force = AsRecorded(i, dry, force).force] \in Job
    <3>1. runs[i] \in Run /\ i \in 0 .. MaxRuns
      BY <1>g
    <3>2. runs[i].dates \in SUBSET Dates
          /\ AsRecorded(i, dry, force).dry \in BOOLEAN
          /\ AsRecorded(i, dry, force).force \in BOOLEAN
      BY <3>1 DEF Run, AsRecorded
    <3>3. Outstanding(i, onlyFailed) \in SUBSET Dates
      BY <3>2 DEF Outstanding
    <3> QED BY <3>1, <3>2, <3>3, FreshJob DEF AsRecorded
  <2>4. OperatorsOK'
    BY <1>2, <2>1, <2>3, OperatorStep DEF Resume, Steps
  <2> QED BY <1>2, <2>2, <2>4, <1>a, <1>b, <1>d DEF Resume
<1>3. ASSUME NEW o \in Operators, SkipDate(o) PROVE TypeOK'
  <2>1. PICK d \in job[o].todo, v \in 0 .. MaxVersion : Settle(o, d, "skipped", v, FALSE)
    BY <1>3, <1>i DEF SkipDate
  <2>2. d \in Dates
    BY <1>f, JobFields
  <2>3. OperatorsOK'
    BY <2>1, <2>2, <1>j, SettleType
  <2> QED BY <1>3, <2>3, <1>a, <1>b, <1>c, <1>d DEF SkipDate
<1>4. ASSUME NEW o \in Operators, TakeDate(o) PROVE TypeOK'
  <2>1. PICK d \in job[o].todo, previous \in 0 .. MaxVersion :
            job' = [job EXCEPT ![o] = [@ EXCEPT !.date = d, !.previous = previous]]
    BY <1>4 DEF TakeDate
  <2>2. [job[o] EXCEPT !.date = d, !.previous = previous] \in Job
    <3>1. job[o] \in Job
      BY <1>f
    <3>2. d \in Dates
      BY <3>1, JobFields
    <3> QED BY <3>1, <3>2 DEF Job
  <2>3. OperatorsOK'
    BY <1>4, <2>1, <2>2, OperatorStep DEF TakeDate, Steps
  <2> QED BY <1>4, <2>3, <1>a, <1>b, <1>c, <1>d DEF TakeDate
<1>5. ASSUME NEW o \in Operators, Render(o) PROVE TypeOK'
  <2>1. CASE \E v \in Versions : Return(o, v, FALSE)
    <3>1. OperatorsOK'
      BY <2>1, ReturnType, <1>i
    <3> QED BY <1>5, <3>1, <1>a, <1>b, <1>c, <1>d DEF Render
  <2>2. CASE job' = [job EXCEPT ![o] = [@ EXCEPT !.want = release]] /\ Goto(o, "publish")
    <3>1. [job[o] EXCEPT !.want = release] \in Job
      BY <1>f, <1>a DEF Job
    <3>2. OperatorsOK'
      BY <2>2, <3>1, OperatorStep DEF Steps
    <3> QED BY <1>5, <3>2, <1>a, <1>b, <1>c, <1>d DEF Render
  <2>3. CASE Settle(o, job[o].date, "failed", 0, FALSE)
    <3>1. OperatorsOK'
      BY <2>3, <1>f, <1>i, <1>j, JobFields, SettleType
    <3> QED BY <1>5, <3>1, <1>a, <1>b, <1>c, <1>d DEF Render
  <2> QED BY <1>5, <2>1, <2>2, <2>3 DEF Render
<1>6. ASSUME NEW o \in Operators, Publish(o) PROVE TypeOK'
  <2>1. CASE \E v \in Versions : Return(o, v, FALSE) /\ UNCHANGED archive
    <3>1. OperatorsOK'
      BY <2>1, ReturnType, <1>i
    <3> QED BY <1>6, <2>1, <3>1, <1>a, <1>b, <1>c, <1>d DEF Publish
  <2>2. CASE Settle(o, job[o].date, "failed", 0, FALSE) /\ UNCHANGED archive
    <3>1. OperatorsOK'
      BY <2>2, <1>f, <1>i, <1>j, JobFields, SettleType
    <3> QED BY <1>6, <2>2, <3>1, <1>a, <1>b, <1>c, <1>d DEF Publish
  <2>3. ASSUME NEW v \in Versions, job' = [job EXCEPT ![o] = [@ EXCEPT !.manifest = v]],
               Goto(o, "complete")
        PROVE  OperatorsOK'
    <3>1. [job[o] EXCEPT !.manifest = v] \in Job
      BY <1>f DEF Job, Versions
    <3> QED BY <2>3, <3>1, OperatorStep DEF Steps
  <2>4. ASSUME NEW v \in Versions, Goto(o, "complete"), UNCHANGED archive,
               job' = [job EXCEPT ![o] = [@ EXCEPT !.manifest = v]]
        PROVE  TypeOK'
    <3>1. OperatorsOK'
      BY <2>3, <2>4
    <3> QED BY <1>6, <2>4, <3>1, <1>a, <1>b, <1>c, <1>d DEF Publish
  <2>5. ASSUME NEW v \in Versions, Goto(o, "complete"),
               status' = [status EXCEPT ![job[o].date] = [@ EXCEPT ![v] = "draft"]],
               content' = [content EXCEPT ![job[o].date] = [@ EXCEPT ![v] = job[o].want]],
               job' = [job EXCEPT ![o] = [@ EXCEPT !.manifest = v]]
        PROVE  TypeOK'
    <3>1. job[o].want \in Releases \cup {Richer, Nothing}
      BY <1>f DEF Job
    <3>2. ArchiveOK'
      BY <2>5, <1>a, <3>1 DEF ArchiveOK
    <3>3. OperatorsOK'
      BY <2>3, <2>5
    <3> QED BY <1>6, <3>2, <3>3, <1>a, <1>b, <1>c DEF Publish
  <2>6. Having(job[o].date, {"draft"}) \subseteq Versions
    BY DEF Having
  <2> QED BY <1>6, <2>1, <2>2, <2>4, <2>5, <2>6 DEF Publish
<1>7. ASSUME NEW o \in Operators, Complete(o) PROVE TypeOK'
  <2>1. CASE Return(o, job[o].manifest, TRUE) /\ UNCHANGED content /\
             status' = [status EXCEPT ![job[o].date] = [@ EXCEPT ![job[o].manifest] = "published"]]
    <3>1. OperatorsOK'
      BY <2>1, <1>f, JobFields, ReturnType
    <3>2. ArchiveOK'
      BY <2>1, <1>a DEF ArchiveOK
    <3> QED BY <1>7, <3>1, <3>2, <1>a, <1>b, <1>c DEF Complete
  <2>2. CASE Settle(o, job[o].date, "failed", 0, FALSE) /\ UNCHANGED archive
    <3>1. OperatorsOK'
      BY <2>2, <1>f, <1>i, <1>j, JobFields, SettleType
    <3> QED BY <1>7, <2>2, <3>1, <1>a, <1>b, <1>c, <1>d DEF Complete
  <2> QED BY <1>7, <2>1, <2>2 DEF Complete, archive
<1>8. ASSUME NEW o \in Operators, AttemptFails(o) PROVE TypeOK'
  <2>1. OperatorsOK'
    BY <1>8, <1>f, <1>i, <1>j, JobFields, SettleType DEF AttemptFails
  <2>2. trouble' \in 0 .. MaxTrouble
    BY <1>8, <1>a DEF AttemptFails
  <2> QED BY <1>8, <2>1, <2>2, <1>a, <1>b, <1>c, <1>d DEF AttemptFails
<1>9. ASSUME NEW o \in Operators, LookUpEntry(o) PROVE TypeOK'
  <2>1. [job[o] EXCEPT !.existing = (Outcome(job[o].run, job[o].date) # "none")] \in Job
    <3>1. job[o] \in Job
      BY <1>f
    <3> QED BY <3>1 DEF Job
  <2>2. OperatorsOK'
    BY <1>9, <2>1, OperatorStep DEF LookUpEntry, Steps
  <2> QED BY <1>9, <2>2, <1>a, <1>b, <1>c, <1>d DEF LookUpEntry
<1>10. ASSUME NEW o \in Operators, CommitEntry(o) PROVE TypeOK'
  <2> DEFINE i == job[o].run
             d == job[o].date
             e == [outcome |-> job[o].outcome, manifest |-> job[o].manifest]
  <2>1. CASE Exit(o) /\ UNCHANGED runs
    BY <1>10, <2>1, ExitType, <1>a, <1>b, <1>c, <1>d DEF CommitEntry
  <2>2. CASE /\ runs' = [runs EXCEPT ![i] = Ledgered(i, d, e)]
             /\ job' = [job EXCEPT ![o] = [NoJob EXCEPT
                    !.run = i, !.todo = job[o].todo \ {d},
                    !.dry = job[o].dry, !.force = job[o].force]]
             /\ Goto(o, "next")
    <3>1. e \in Entry
      BY <1>f DEF Job, Entry
    <3>2. RunsOK'
      <4> HIDE DEF i, d, e
      <4> QED BY <2>2, <3>1, <1>a, RunLedger, RunUpdates DEF RunsOK
    <3>3. [NoJob EXCEPT !.run = i, !.todo = job[o].todo \ {d},
                        !.dry = job[o].dry, !.force = job[o].force] \in Job
      <4>1. job[o] \in Job
        BY <1>f
      <4>2. /\ i \in 0 .. MaxRuns /\ job[o].todo \ {d} \in SUBSET Dates
            /\ job[o].dry \in BOOLEAN /\ job[o].force \in BOOLEAN
        BY <4>1, JobFields
      <4> QED BY <4>2, FreshJob
    <3>4. OperatorsOK'
      BY <2>2, <3>3, OperatorStep DEF Steps
    <3> QED BY <1>10, <3>2, <3>4, <1>a, <1>b, <1>d DEF CommitEntry
  <2> QED BY <1>10, <2>1, <2>2 DEF CommitEntry
<1>11. ASSUME NEW o \in Operators, Finish(o) PROVE TypeOK'
  <2>1. Closed(job[o].run) \in {"running", "completed", "interrupted"}
    BY DEF Closed
  <2>2. RunsOK'
    BY <1>11, <2>1, <1>a, RunStatus, RunUpdates DEF Finish, RunsOK
  <2> QED BY <1>11, <2>2, ExitType, <1>a, <1>b, <1>d DEF Finish
<1>12. ASSUME NEW o \in Operators, Crash(o) PROVE TypeOK'
  <2>1. trouble' \in 0 .. MaxTrouble
    BY <1>12, <1>a DEF Crash
  <2> QED BY <1>12, <2>1, ExitType, <1>a, <1>b, <1>c, <1>d DEF Crash
<1>13. ASSUME NEW s \in Sources, Ingest(s) PROVE TypeOK'
  <2>1. release' \in Releases
    BY <1>13, <1>a DEF Ingest, Releases
  <2> QED BY <1>13, <2>1, <1>a, <1>b, <1>c, <1>d, <1>e DEF Ingest
<1>14. ASSUME NEW d \in Dates, PublishEvent(d) PROVE TypeOK'
  <2>1. ArchiveOK'
    BY <1>14, <1>a DEF PublishEvent, ArchiveOK
  <2> QED BY <1>14, <2>1, <1>a, <1>b, <1>c, <1>e DEF PublishEvent
<1>15. ASSUME NEW d \in Dates, Reconcile(d) PROVE TypeOK'
  <2>1. ArchiveOK'
    BY <1>15, <1>a DEF Reconcile, ArchiveOK, Having
  <2> QED BY <1>15, <2>1, <1>a, <1>b, <1>c, <1>e DEF Reconcile
<1>16. CASE UNCHANGED vars
  BY <1>16, <1>a, <1>b, <1>c, <1>d, <1>e DEF vars
<1> QED BY <1>1, <1>2, <1>3, <1>4, <1>5, <1>6, <1>7, <1>8, <1>9, <1>10, <1>11, <1>12,
           <1>13, <1>14, <1>15, <1>16 DEF Next, Work

----------------------------------------------------------------------------
(* The inductive invariant.                                                *)

\* Nothing is ingested while a command is running.
Quiet == "live_ingest" \notin Disturbances

\* The releases run i recorded are those of release set r.
Pinned(i, r) == \A s \in DOMAIN runs[i].pins : r[s] = runs[i].pins[s]

\* What makes manifest v of date d a result run i may claim.
Evidence(i, d, v) ==
    /\ v \in Versions
    /\ status[d][v] = "published"
    /\ Quiet => content[d][v] = Richer \/ Pinned(i, content[d][v])

\* What the entries of run i are known to say.
Ledger(i) ==
    \A d \in Dates :
        LET entry == runs[i].ledger[d] IN
        /\ runs[i].dry = TRUE => entry.outcome \in {"none", "skipped"}
        /\ entry.outcome \in Done => Evidence(i, d, entry.manifest)

\* What an operator knows at each of its steps.
Knows(o) ==
    LET i == job[o].run
        d == job[o].date
        v == job[o].manifest
    IN
    /\ i \in DOMAIN runs
    /\ (runs[i].dry = TRUE) => job[o].dry
    /\ Quiet => Pinned(i, release)
    /\ pc[o] # "next" => d \in Dates
    /\ pc[o] \in {"render", "publish", "complete"} => ~job[o].dry
    /\ pc[o] \in {"publish", "complete"} =>
            /\ job[o].want \in Releases
            /\ Quiet => job[o].want = release
    /\ pc[o] = "complete" =>
            /\ v \in Versions
            /\ status[d][v] # "unused"
            /\ content[d][v] = job[o].want
    /\ pc[o] \in {"record", "commit"} =>
            /\ job[o].dry => job[o].outcome = "skipped"
            /\ job[o].outcome \in Done => Evidence(i, d, v)

\* The inductive invariant.
BatchInv ==
    /\ TypeOK
    /\ \A o \in Operators : pc[o] # "idle" => Knows(o)
    /\ \A i \in DOMAIN runs : Ledger(i)

\* Allocated manifests keep their content, published ones stay published.
ArchiveKept ==
    \A d \in Dates, v \in Versions :
        /\ status[d][v] # "unused" =>
                status'[d][v] # "unused" /\ content'[d][v] = content[d][v]
        /\ status[d][v] = "published" => status'[d][v] = "published"

\* A run keeps what it recorded about its request.
RunsKept ==
    \A i \in DOMAIN runs :
        /\ i \in DOMAIN runs'
        /\ runs'[i].dry = runs[i].dry
        /\ runs'[i].pins = runs[i].pins
        /\ runs'[i].dates = runs[i].dates

\* The version after the newest allocated one is free.
LEMMA NextVersionUnused ==
    ASSUME TypeOK, NEW d \in Dates, NEW v \in Versions, IsNewest(v - 1, Allocated(d))
    PROVE  status[d][v] = "unused"
<1>1. status[d][v] \in {"unused", "draft", "published", "withdrawn"}
  BY DEF TypeOK
<1>2. v \in Nat /\ ~(v <= v - 1)
  BY BatchAssumption DEF Versions
<1>3. v \notin Allocated(d)
  BY <1>2 DEF IsNewest
<1> QED BY <1>1, <1>3 DEF Allocated, Having

\* No step rewrites or unpublishes what a manifest publishes.
LEMMA ArchiveKeptByNext ==
    ASSUME BatchInv, [Next]_vars
    PROVE  ArchiveKept
<1>0. TypeOK
  BY DEF BatchInv
<1>1. ASSUME UNCHANGED archive PROVE ArchiveKept
  BY <1>1 DEF ArchiveKept, archive
<1>2. ASSUME NEW d \in Dates, NEW v \in Versions, NEW final \in {"published", "withdrawn"},
             status[d][v] = "draft", UNCHANGED content,
             status' = [status EXCEPT ![d] = [@ EXCEPT ![v] = final]]
      PROVE  ArchiveKept
  BY <1>0, <1>2 DEF ArchiveKept, TypeOK
<1>3. ASSUME NEW d \in Dates, NEW v \in Versions, NEW st, NEW c,
             status[d][v] = "unused",
             status' = [status EXCEPT ![d] = [@ EXCEPT ![v] = st]],
             content' = [content EXCEPT ![d] = [@ EXCEPT ![v] = c]]
      PROVE  ArchiveKept
  BY <1>0, <1>3 DEF ArchiveKept, TypeOK
<1>4. ASSUME NEW o \in Operators, Publish(o) PROVE ArchiveKept
  <2>1. job[o].date \in Dates
    BY <1>4 DEF Publish, BatchInv, Knows
  <2>2. CASE UNCHANGED archive
    BY <1>1, <2>2
  <2>3. CASE \E v \in Versions :
                /\ IsNewest(v - 1, Allocated(job[o].date))
                /\ status' = [status EXCEPT ![job[o].date] = [@ EXCEPT ![v] = "draft"]]
                /\ content' = [content EXCEPT ![job[o].date] = [@ EXCEPT ![v] = job[o].want]]
    <3>1. PICK v \in Versions :
                /\ IsNewest(v - 1, Allocated(job[o].date))
                /\ status' = [status EXCEPT ![job[o].date] = [@ EXCEPT ![v] = "draft"]]
                /\ content' = [content EXCEPT ![job[o].date] = [@ EXCEPT ![v] = job[o].want]]
      BY <2>3
    <3>2. status[job[o].date][v] = "unused"
      BY <1>0, <2>1, <3>1, NextVersionUnused
    <3> QED BY <1>3, <2>1, <3>1, <3>2
  <2> QED BY <1>4, <2>2, <2>3 DEF Publish
<1>5. ASSUME NEW o \in Operators, Complete(o) PROVE ArchiveKept
  <2>1. job[o].date \in Dates /\ job[o].manifest \in Versions
    BY <1>5 DEF Complete, BatchInv, Knows
  <2> QED BY <1>5, <1>1, <1>2, <2>1 DEF Complete, archive
<1>6. ASSUME NEW d \in Dates, PublishEvent(d) PROVE ArchiveKept
  <2>1. PICK v \in Versions :
            /\ IsNewest(v - 1, Allocated(d))
            /\ status' = [status EXCEPT ![d] = [@ EXCEPT ![v] = "published"]]
            /\ content' = [content EXCEPT ![d] = [@ EXCEPT ![v] = Richer]]
    BY <1>6 DEF PublishEvent
  <2>2. status[d][v] = "unused"
    BY <1>0, <2>1, NextVersionUnused
  <2> QED BY <1>3, <2>1, <2>2
<1>7. ASSUME NEW d \in Dates, Reconcile(d) PROVE ArchiveKept
  <2>1. PICK v \in Having(d, {"draft"}), final \in {"published", "withdrawn"} :
            status' = [status EXCEPT ![d] = [@ EXCEPT ![v] = final]]
    BY <1>7 DEF Reconcile
  <2>2. v \in Versions /\ status[d][v] = "draft"
    BY DEF Having
  <2> QED BY <1>7, <1>2, <2>1, <2>2 DEF Reconcile
<1>8. ASSUME NEW o \in Operators,
             \/ Start(o) \/ SkipDate(o) \/ TakeDate(o) \/ Render(o) \/ LookUpEntry(o)
             \/ CommitEntry(o) \/ Finish(o) \/ AttemptFails(o) \/ Crash(o)
             \/ \E onlyFailed \in BOOLEAN : Resume(o, onlyFailed)
      PROVE  ArchiveKept
  BY <1>1, <1>8 DEF Start, SkipDate, TakeDate, Render, LookUpEntry, CommitEntry, Finish,
                    AttemptFails, Crash, Resume
<1>9. ASSUME NEW s \in Sources, Ingest(s) PROVE ArchiveKept
  BY <1>1, <1>9 DEF Ingest
<1>10. CASE UNCHANGED vars
  BY <1>1, <1>10 DEF vars
<1> QED BY <1>4, <1>5, <1>6, <1>7, <1>8, <1>9, <1>10 DEF Next, Work

\* No step rewrites what a run recorded about its request.
LEMMA RunsKeptByNext ==
    ASSUME TypeOK, [Next]_vars
    PROVE  RunsKept
<1>1. ASSUME UNCHANGED runs PROVE RunsKept
  BY <1>1 DEF RunsKept
<1>2. ASSUME NEW i, NEW st, runs' = [runs EXCEPT ![i] = [@ EXCEPT !.status = st]]
      PROVE  RunsKept
  BY <1>2 DEF RunsKept, TypeOK, Run
<1>3. ASSUME NEW i, NEW d, NEW e, runs' = [runs EXCEPT ![i] = Ledgered(i, d, e)]
      PROVE  RunsKept
  BY <1>3 DEF RunsKept, TypeOK, Run, Ledgered
<1>4. ASSUME NEW r, runs' = Append(runs, r) PROVE RunsKept
  BY <1>4 DEF RunsKept, TypeOK
<1>5. ASSUME NEW o \in Operators,
             Start(o) \/ CommitEntry(o) \/ Finish(o)
             \/ \E onlyFailed \in BOOLEAN : Resume(o, onlyFailed)
      PROVE  RunsKept
  <2>1. CASE Start(o)
    BY <1>4, <2>1 DEF Start
  <2>2. CASE CommitEntry(o)
    BY <1>1, <1>3, <2>2 DEF CommitEntry
  <2>3. CASE Finish(o)
    BY <1>2, <2>3 DEF Finish
  <2>4. ASSUME NEW onlyFailed \in BOOLEAN, Resume(o, onlyFailed) PROVE RunsKept
    BY <1>2, <2>4 DEF Resume
  <2> QED BY <1>5, <2>1, <2>2, <2>3, <2>4
<1>6. ASSUME NEW o \in Operators,
             \/ SkipDate(o) \/ TakeDate(o) \/ Render(o) \/ Publish(o) \/ Complete(o)
             \/ LookUpEntry(o) \/ AttemptFails(o) \/ Crash(o)
      PROVE  RunsKept
  BY <1>1, <1>6 DEF SkipDate, TakeDate, Render, Publish, Complete, LookUpEntry,
                    AttemptFails, Crash
<1>7. ASSUME NEW d \in Dates, PublishEvent(d) \/ Reconcile(d) PROVE RunsKept
  BY <1>1, <1>7 DEF PublishEvent, Reconcile
<1>8. ASSUME NEW s \in Sources, Ingest(s) PROVE RunsKept
  BY <1>1, <1>8 DEF Ingest
<1>9. CASE UNCHANGED vars
  BY <1>1, <1>9 DEF vars
<1> QED BY <1>5, <1>6, <1>7, <1>8, <1>9 DEF Next, Work

\* While somebody works nothing is ingested, unless it may be ingested live.
LEMMA ReleaseStill ==
    ASSUME [Next]_vars, Quiet, NEW o \in Operators, pc[o] # "idle"
    PROVE  release' = release
<1>1. ASSUME NEW s \in Sources, Ingest(s) PROVE FALSE
  BY <1>1 DEF Ingest, Quiet
<1>2. ASSUME NEW p \in Operators,
             \/ Start(p) \/ Work(p) \/ AttemptFails(p) \/ Crash(p)
             \/ \E onlyFailed \in BOOLEAN : Resume(p, onlyFailed)
      PROVE  release' = release
  BY <1>2 DEF Start, Work, AttemptFails, Crash, Resume, SkipDate, TakeDate, Render, Publish,
              Complete, LookUpEntry, CommitEntry, Finish
<1>3. ASSUME NEW d \in Dates, PublishEvent(d) \/ Reconcile(d) PROVE release' = release
  BY <1>3 DEF PublishEvent, Reconcile
<1>4. CASE UNCHANGED vars
  BY <1>4 DEF vars
<1> QED BY <1>1, <1>2, <1>3, <1>4 DEF Next

\* A result a run may claim remains one.
LEMMA EvidenceKept ==
    ASSUME BatchInv, [Next]_vars, NEW i \in DOMAIN runs, NEW d \in Dates, NEW v,
           Evidence(i, d, v)
    PROVE  Evidence(i, d, v)'
<1>1. ArchiveKept /\ RunsKept
  BY ArchiveKeptByNext, RunsKeptByNext DEF BatchInv
<1>2. v \in Versions /\ status[d][v] = "published"
  BY DEF Evidence
<1>3. status'[d][v] = "published" /\ content'[d][v] = content[d][v]
  BY <1>1, <1>2 DEF ArchiveKept
<1>4. runs'[i].pins = runs[i].pins
  BY <1>1 DEF RunsKept
<1> QED BY <1>2, <1>3, <1>4 DEF Evidence, Pinned

\* A run whose ledger a step leaves alone keeps a truthful ledger.
LEMMA LedgerKept ==
    ASSUME BatchInv, [Next]_vars, NEW i \in DOMAIN runs, runs'[i].ledger = runs[i].ledger
    PROVE  Ledger(i)'
<1>1. runs'[i].dry = runs[i].dry
  BY RunsKeptByNext DEF BatchInv, RunsKept
<1>2. Ledger(i)
  BY DEF BatchInv
<1> QED BY <1>1, <1>2, EvidenceKept DEF Ledger

\* The run of a working operator stays what the operator took it for.
LEMMA RunKnown ==
    ASSUME BatchInv, [Next]_vars, NEW o \in Operators, pc[o] # "idle",
           NEW i, i = job[o].run
    PROVE  /\ i \in DOMAIN runs /\ i \in DOMAIN runs'
           /\ (runs'[i].dry = TRUE) => job[o].dry
           /\ Quiet => Pinned(i, release)'
<1>1. Knows(o)
  BY DEF BatchInv
<1>2. RunsKept
  BY RunsKeptByNext DEF BatchInv
<1>3. i \in DOMAIN runs
  BY <1>1 DEF Knows
<1>4. ((runs[i].dry = TRUE) => job[o].dry) /\ (Quiet => Pinned(i, release))
  BY <1>1 DEF Knows
<1>5. i \in DOMAIN runs' /\ runs'[i].dry = runs[i].dry /\ runs'[i].pins = runs[i].pins
  BY <1>2, <1>3 DEF RunsKept
<1>6. ASSUME Quiet PROVE Pinned(i, release)'
  BY <1>4, <1>5, <1>6, ReleaseStill DEF Pinned
<1> QED BY <1>3, <1>4, <1>5, <1>6

\* Nothing an operator knows is spoilt by the steps of others.
LEMMA KnowsKept ==
    ASSUME BatchInv, [Next]_vars, NEW o \in Operators, pc[o] # "idle",
           pc'[o] = pc[o], job'[o] = job[o]
    PROVE  Knows(o)'
<1> DEFINE i == job[o].run
           d == job[o].date
           v == job[o].manifest
<1>1. Knows(o)
  BY DEF BatchInv
<1>2. /\ i \in DOMAIN runs /\ i \in DOMAIN runs'
      /\ (runs'[i].dry = TRUE) => job[o].dry
      /\ Quiet => \A s \in DOMAIN runs'[i].pins : release'[s] = runs'[i].pins[s]
  BY RunKnown DEF Pinned
<1>3. Quiet => release' = release
  BY ReleaseStill
<1>4. pc[o] = "complete" =>
            v \in Versions /\ status'[d][v] # "unused" /\ content'[d][v] = job[o].want
  BY <1>1, ArchiveKeptByNext DEF Knows, ArchiveKept
<1>5. pc[o] \in {"record", "commit"} /\ job[o].outcome \in Done =>
            /\ v \in Versions
            /\ status'[d][v] = "published"
            /\ Quiet => \/ content'[d][v] = Richer
                        \/ \A s \in DOMAIN runs'[i].pins :
                                content'[d][v][s] = runs'[i].pins[s]
  BY <1>1, <1>2, EvidenceKept DEF Knows, Evidence, Pinned
<1> QED BY <1>1, <1>2, <1>3, <1>4, <1>5 DEF Knows, Evidence, Pinned

\* What an operator knows once it has settled the outcome of a date.
LEMMA SettleKnows ==
    ASSUME BatchInv, [Next]_vars, NEW o \in Operators, pc[o] # "idle",
           NEW d \in Dates, NEW outcome, NEW v, NEW promoted,
           Settle(o, d, outcome, v, promoted),
           job[o].dry => outcome = "skipped",
           NEW i, i = job[o].run, outcome \in Done => Evidence(i, d, v)'
    PROVE  Knows(o)'
<1>1. pc'[o] = "record"
  BY DEF Settle, Goto, BatchInv, TypeOK
<1>2. /\ job'[o].run = i /\ job'[o].date = d /\ job'[o].dry = job[o].dry
      /\ job'[o].outcome = outcome /\ job'[o].manifest = v
  BY DEF Settle, BatchInv, TypeOK, Job
<1>3. outcome \in Done =>
            /\ v \in Versions
            /\ status'[d][v] = "published"
            /\ Quiet => \/ content'[d][v] = Richer
                        \/ \A s \in DOMAIN runs'[i].pins :
                                content'[d][v][s] = runs'[i].pins[s]
  BY DEF Evidence, Pinned
<1>4. /\ i \in DOMAIN runs'
      /\ (runs'[i].dry = TRUE) => job[o].dry
      /\ Quiet => \A s \in DOMAIN runs'[i].pins : release'[s] = runs'[i].pins[s]
  BY RunKnown DEF Pinned
<1> QED BY <1>1, <1>2, <1>3, <1>4 DEF Knows, Evidence, Pinned

\* The same for an outcome that claims nothing.
LEMMA GiveUpKnows ==
    ASSUME BatchInv, [Next]_vars, NEW o \in Operators, pc[o] # "idle",
           NEW d \in Dates, NEW outcome \in {"failed", "skipped"}, NEW v, NEW promoted,
           Settle(o, d, outcome, v, promoted), job[o].dry => outcome = "skipped"
    PROVE  Knows(o)'
<1>1. PICK i : i = job[o].run
  OBVIOUS
<1>2. outcome \notin Done
  BY DEF Done
<1> QED BY <1>1, <1>2, SettleKnows

\* The same for an outcome that claims manifest v.
LEMMA ReturnKnows ==
    ASSUME BatchInv, [Next]_vars, NEW o \in Operators, pc[o] # "idle", ~job[o].dry,
           job[o].date \in Dates, NEW v, NEW promoted, Return(o, v, promoted),
           NEW i, i = job[o].run, NEW d, d = job[o].date, Evidence(i, d, v)'
    PROVE  Knows(o)'
BY SettleKnows DEF Return

\* The manifest that serves a richer profile is published and is that profile.
LEMMA RicherNewest ==
    ASSUME NEW d \in Dates, ServesRicher(d), NEW v \in Versions,
           IsNewest(v, Having(d, {"published"}))
    PROVE  status[d][v] = "published" /\ content[d][v] = Richer
<1>1. PICK w \in Versions : IsNewest(w, Having(d, {"published"})) /\ content[d][w] = Richer
  BY DEF ServesRicher
<1>2. v \in Nat \ {0} /\ w \in Nat \ {0}
  BY BatchAssumption DEF Versions
<1>3. v \in Having(d, {"published"}) /\ v = w
  BY <1>1, <1>2 DEF IsNewest
<1> QED BY <1>1, <1>3 DEF Having

\* Only the acting operator's control state changes.
LEMMA ActorOnly ==
    ASSUME TypeOK, NEW o \in Operators, NEW step, NEW j,
           Goto(o, step), job' = [job EXCEPT ![o] = j]
    PROVE  /\ pc'[o] = step /\ job'[o] = j
           /\ \A p \in Operators \ {o} : pc'[p] = pc[p] /\ job'[p] = job[p]
  BY DEF TypeOK, Goto

\* The two halves of the invariant.
AllKnow == \A o \in Operators : pc[o] # "idle" => Knows(o)
AllLedgers == \A i \in DOMAIN runs : Ledger(i)

\* It is enough to look at the operator that acts.
LEMMA ActorKnows ==
    ASSUME BatchInv, [Next]_vars, NEW o \in Operators, NEW step, NEW j,
           Goto(o, step), job' = [job EXCEPT ![o] = j],
           step # "idle" => Knows(o)'
    PROVE  AllKnow'
<1>1. TypeOK
  BY DEF BatchInv
<1>2. ASSUME NEW p \in Operators, pc'[p] # "idle" PROVE Knows(p)'
  <2>1. CASE p = o
    BY <1>1, <1>2, <2>1, ActorOnly
  <2>2. CASE p # o
    BY <1>1, <1>2, <2>2, ActorOnly, KnowsKept
  <2> QED BY <2>1, <2>2
<1> QED BY <1>2 DEF AllKnow

\* The same when it settles an outcome.
LEMMA SettlerKnows ==
    ASSUME BatchInv, [Next]_vars, NEW o \in Operators, NEW d, NEW outcome, NEW v,
           NEW promoted, Settle(o, d, outcome, v, promoted), Knows(o)'
    PROVE  AllKnow'
BY ActorKnows DEF Settle

\* Steps that leave the runs alone keep the ledgers truthful.
LEMMA SameLedgers ==
    ASSUME BatchInv, [Next]_vars, UNCHANGED runs
    PROVE  AllLedgers'
BY LedgerKept DEF AllLedgers

----------------------------------------------------------------------------
(* One lemma per group of actions.                                         *)

\* A fresh run records the releases of the moment and an empty ledger.
LEMMA StartInv ==
    ASSUME BatchInv, [Next]_vars, NEW o \in Operators, Start(o)
    PROVE  AllKnow' /\ AllLedgers'
<1>1. PICK dates \in Plans, dry \in DryRuns, force \in Forces :
          /\ runs' = Append(runs, NewRun(dates, release, dry, force))
          /\ job' = [job EXCEPT ![o] = [NoJob EXCEPT
                  !.run = Len(runs) + 1, !.todo = dates, !.dry = dry, !.force = force]]
  BY DEF Start
<1>0. PICK n : n = Len(runs) + 1
  OBVIOUS
<1> DEFINE r == NewRun(dates, release, dry, force)
           j == [NoJob EXCEPT !.run = n, !.todo = dates, !.dry = dry, !.force = force]
<1>2. TypeOK /\ Goto(o, "next") /\ UNCHANGED release
  BY DEF BatchInv, Start
<1>3. /\ DOMAIN runs' = DOMAIN runs \cup {n} /\ runs'[n] = r
      /\ \A i \in DOMAIN runs : runs'[i] = runs[i]
  <2> HIDE DEF r
  <2> QED BY <1>0, <1>1, <1>2 DEF TypeOK, r
<1>4. /\ r.dry = dry /\ r.pins = release
      /\ \A d \in Dates : r.ledger[d].outcome = "none"
  BY DEF NewRun, NoEntry
<1>5. Knows(o)'
  <2>1. job' = [job EXCEPT ![o] = j]
    BY <1>0, <1>1
  <2>2. j.run = n /\ j.dry = dry
    BY DEF NoJob
  <2> HIDE DEF j, r
  <2>3. pc'[o] = "next" /\ job'[o] = j
    BY <1>2, <2>1, ActorOnly
  <2> QED BY <1>2, <1>3, <1>4, <2>2, <2>3 DEF Knows, Pinned
<1>6. AllKnow'
  BY <1>1, <1>2, <1>5, ActorKnows
<1>7. Ledger(n)'
  <2> HIDE DEF r
  <2> QED BY <1>3, <1>4 DEF Ledger, Done
<1>8. AllLedgers'
  BY <1>3, <1>7, LedgerKept DEF AllLedgers
<1> QED BY <1>6, <1>8

\* A run is resumed only while its releases are current, with its own flags.
LEMMA ResumeInv ==
    ASSUME BatchInv, [Next]_vars, NEW o \in Operators, NEW onlyFailed \in BOOLEAN,
           Resume(o, onlyFailed)
    PROVE  AllKnow' /\ AllLedgers'
<1>1. PICK i \in DOMAIN runs, dry \in DryRuns, force \in Forces :
          /\ Recoverable(i, onlyFailed)
          /\ runs' = [runs EXCEPT ![i] = [@ EXCEPT !.status = "running"]]
          /\ job' = [job EXCEPT ![o] = [NoJob EXCEPT
                  !.run = i, !.todo = Outstanding(i, onlyFailed),
                  !.dry = AsRecorded(i, dry, force).dry,
                  !.force = AsRecorded(i, dry, force).force]]
  BY DEF Resume
<1> DEFINE j == [NoJob EXCEPT !.run = i, !.todo = Outstanding(i, onlyFailed),
                              !.dry = AsRecorded(i, dry, force).dry,
                              !.force = AsRecorded(i, dry, force).force]
<1>2. TypeOK /\ Goto(o, "next") /\ UNCHANGED release
  BY DEF BatchInv, Resume
<1>3. Resumable(i)
  BY <1>1 DEF Recoverable, IsNewest
<1>4. i \in DOMAIN runs' /\ runs'[i].dry = runs[i].dry /\ runs'[i].pins = runs[i].pins
  BY <1>2, RunsKeptByNext DEF RunsKept
<1>5. Knows(o)'
  <2>1. job' = [job EXCEPT ![o] = j]
    BY <1>1
  <2>2. j.run = i /\ (runs[i].dry = TRUE => j.dry = TRUE)
    BY DEF NoJob, AsRecorded
  <2> HIDE DEF j
  <2>3. pc'[o] = "next" /\ job'[o] = j
    BY <1>2, <2>1, ActorOnly
  <2> QED BY <1>2, <1>3, <1>4, <2>2, <2>3 DEF Knows, Pinned, Resumable
<1>6. AllKnow'
  BY <1>1, <1>2, <1>5, ActorKnows
<1>7. DOMAIN runs' = DOMAIN runs /\ \A k \in DOMAIN runs : runs'[k].ledger = runs[k].ledger
  BY <1>1, <1>2 DEF TypeOK, Run
<1>8. AllLedgers'
  BY <1>7, LedgerKept DEF AllLedgers
<1> QED BY <1>6, <1>8

\* Skipping, taking, looking up and failing claim nothing new.
LEMMA DateInv ==
    ASSUME BatchInv, [Next]_vars, NEW o \in Operators,
           SkipDate(o) \/ TakeDate(o) \/ LookUpEntry(o) \/ AttemptFails(o)
    PROVE  AllKnow'
<1>1. TypeOK /\ job[o] \in Job /\ pc[o] # "idle"
  BY DEF BatchInv, TypeOK, SkipDate, TakeDate, LookUpEntry, AttemptFails
<1>2. Knows(o)
  BY <1>1 DEF BatchInv
<1>3. PICK i : i = job[o].run
  OBVIOUS
<1>4. /\ i \in DOMAIN runs'
      /\ (runs'[i].dry = TRUE) => job[o].dry
      /\ Quiet => \A s \in DOMAIN runs'[i].pins : release'[s] = runs'[i].pins[s]
  BY <1>1, <1>3, RunKnown DEF Pinned
<1>5. job[o].todo \subseteq Dates
  BY <1>1, JobFields
<1>6. CASE SkipDate(o)
  <2>1. PICK d \in job[o].todo : \E v : Settle(o, d, "skipped", v, FALSE)
    BY <1>6 DEF SkipDate
  <2>2. Knows(o)'
    BY <1>1, <1>3, <1>5, <2>1, GiveUpKnows
  <2> QED BY <2>1, <2>2, SettlerKnows
<1>7. CASE TakeDate(o)
  <2>1. PICK d \in job[o].todo, previous \in 0 .. MaxVersion :
            job' = [job EXCEPT ![o] = [@ EXCEPT !.date = d, !.previous = previous]]
    BY <1>7 DEF TakeDate
  <2> DEFINE j == [job[o] EXCEPT !.date = d, !.previous = previous]
  <2>2. j.run = i /\ j.date = d /\ j.dry = job[o].dry
    BY <1>1, <1>3 DEF Job
  <2>3. ~job[o].dry /\ Goto(o, "render") /\ job' = [job EXCEPT ![o] = j]
    BY <1>7, <2>1 DEF TakeDate
  <2> HIDE DEF j
  <2>4. pc'[o] = "render" /\ job'[o] = j
    BY <1>1, <2>3, ActorOnly
  <2>5. Knows(o)'
    BY <1>4, <1>5, <2>2, <2>3, <2>4 DEF Knows, Pinned
  <2> QED BY <2>3, <2>5, ActorKnows
<1>8. CASE LookUpEntry(o)
  <2>1. PICK j : /\ j = [job[o] EXCEPT !.existing = (Outcome(job[o].run, job[o].date) # "none")]
                 /\ Goto(o, "commit") /\ job' = [job EXCEPT ![o] = j] /\ pc[o] = "record"
    BY <1>8 DEF LookUpEntry
  <2>2. PICK d, v : d = job[o].date /\ v = job[o].manifest
    OBVIOUS
  <2>3. /\ j.run = i /\ j.date = d /\ j.manifest = v
        /\ j.dry = job[o].dry /\ j.outcome = job[o].outcome
    BY <1>1, <1>3, <2>1, <2>2 DEF Job
  <2>4. pc'[o] = "commit" /\ job'[o] = j
    BY <1>1, <2>1, ActorOnly
  <2>5. /\ d \in Dates
        /\ job[o].dry => job[o].outcome = "skipped"
        /\ job[o].outcome \in Done => Evidence(i, d, v)
    BY <1>2, <1>3, <2>1, <2>2 DEF Knows
  <2>6. job[o].outcome \in Done => Evidence(i, d, v)'
    BY <1>2, <1>3, <2>5, EvidenceKept DEF Knows
  <2>7. Knows(o)'
    BY <1>4, <2>3, <2>4, <2>5, <2>6 DEF Knows, Pinned, Evidence
  <2> QED BY <2>1, <2>7, ActorKnows
<1>9. CASE AttemptFails(o)
  <2>1. Settle(o, job[o].date, "failed", 0, FALSE) /\ ~job[o].dry /\ job[o].date \in Dates
    BY <1>2, <1>9 DEF AttemptFails, Knows
  <2>2. Knows(o)'
    BY <1>1, <2>1, GiveUpKnows
  <2> QED BY <2>1, <2>2, SettlerKnows
<1> QED BY <1>6, <1>7, <1>8, <1>9

\* A richer profile is claimed as it stands; otherwise the payload is built
\* from the releases the run recorded.
LEMMA RenderInv ==
    ASSUME BatchInv, [Next]_vars, NEW o \in Operators, Render(o)
    PROVE  AllKnow'
<1>1. TypeOK /\ job[o] \in Job /\ pc[o] # "idle"
  BY DEF BatchInv, TypeOK, Render
<1>2. Knows(o)
  BY <1>1 DEF BatchInv
<1>3. PICK i, d : i = job[o].run /\ d = job[o].date
  OBVIOUS
<1>4. /\ i \in DOMAIN runs /\ i \in DOMAIN runs'
      /\ (runs'[i].dry = TRUE) => job[o].dry
      /\ Quiet => \A s \in DOMAIN runs'[i].pins : release'[s] = runs'[i].pins[s]
  BY <1>1, <1>3, RunKnown DEF Pinned
<1>5. ~job[o].dry /\ d \in Dates /\ UNCHANGED <<release, archive>>
  BY <1>2, <1>3 DEF Render, Knows
<1>6. CASE \E v \in Versions : /\ ServesRicher(d) /\ IsNewest(v, Having(d, {"published"}))
                               /\ Return(o, v, FALSE)
  <2>1. PICK v \in Versions : /\ ServesRicher(d) /\ IsNewest(v, Having(d, {"published"}))
                              /\ Return(o, v, FALSE)
    BY <1>6
  <2>2. status[d][v] = "published" /\ content[d][v] = Richer
    BY <1>5, <2>1, RicherNewest
  <2>3. Evidence(i, d, v)'
    BY <1>5, <2>2 DEF Evidence, archive
  <2>4. Knows(o)'
    BY <1>1, <1>3, <1>5, <2>1, <2>3, ReturnKnows
  <2> QED BY <2>1, <2>4, SettlerKnows DEF Return
<1>7. CASE job' = [job EXCEPT ![o] = [@ EXCEPT !.want = release]] /\ Goto(o, "publish")
  <2> DEFINE j == [job[o] EXCEPT !.want = release]
  <2>1. j.run = i /\ j.date = d /\ j.dry = job[o].dry /\ j.want = release
    BY <1>1, <1>3 DEF Job
  <2>2. Goto(o, "publish") /\ job' = [job EXCEPT ![o] = j]
    BY <1>7
  <2> HIDE DEF j
  <2>3. pc'[o] = "publish" /\ job'[o] = j
    BY <1>1, <2>2, ActorOnly
  <2>4. release \in Releases
    BY <1>1 DEF TypeOK
  <2>5. Knows(o)'
    BY <1>4, <1>5, <2>1, <2>3, <2>4 DEF Knows, Pinned
  <2> QED BY <2>2, <2>5, ActorKnows
<1>8. CASE Settle(o, d, "failed", 0, FALSE)
  <2>1. Knows(o)'
    BY <1>1, <1>3, <1>5, <1>8, GiveUpKnows
  <2> QED BY <1>8, <2>1, SettlerKnows
<1> QED BY <1>3, <1>6, <1>7, <1>8 DEF Render

\* What phase one claims or hands to phase two is the payload built before.
LEMMA PublishInv ==
    ASSUME BatchInv, [Next]_vars, NEW o \in Operators, Publish(o)
    PROVE  AllKnow'
<1>1. TypeOK /\ job[o] \in Job /\ pc[o] # "idle"
  BY DEF BatchInv, TypeOK, Publish
<1>2. Knows(o)
  BY <1>1 DEF BatchInv
<1>3. PICK i, d, want : i = job[o].run /\ d = job[o].date /\ want = job[o].want
  OBVIOUS
<1>4. /\ i \in DOMAIN runs /\ i \in DOMAIN runs'
      /\ (runs'[i].dry = TRUE) => job[o].dry
      /\ Quiet => \A s \in DOMAIN runs'[i].pins : release'[s] = runs'[i].pins[s]
  BY <1>1, <1>3, RunKnown DEF Pinned
<1>5. /\ ~job[o].dry /\ d \in Dates /\ UNCHANGED release
      /\ want \in Releases
      /\ Quiet => want = release
  BY <1>2, <1>3 DEF Publish, Knows
<1>6. ASSUME NEW v \in Versions, Return(o, v, FALSE), UNCHANGED archive,
             status[d][v] = "published", content[d][v] = want
      PROVE  AllKnow'
  <2>1. Evidence(i, d, v)'
    BY <1>4, <1>5, <1>6 DEF Evidence, Pinned, archive
  <2>2. Knows(o)'
    BY <1>1, <1>3, <1>5, <1>6, <2>1, ReturnKnows
  <2> QED BY <1>6, <2>2, SettlerKnows DEF Return
<1>7. CASE Settle(o, d, "failed", 0, FALSE)
  <2>1. Knows(o)'
    BY <1>1, <1>3, <1>5, <1>7, GiveUpKnows
  <2> QED BY <1>7, <2>1, SettlerKnows
<1>8. ASSUME NEW v \in Versions, status'[d][v] # "unused", content'[d][v] = want,
             job' = [job EXCEPT ![o] = [@ EXCEPT !.manifest = v]], Goto(o, "complete")
      PROVE  AllKnow'
  <2> DEFINE j == [job[o] EXCEPT !.manifest = v]
  <2>1. /\ j.run = i /\ j.date = d /\ j.dry = job[o].dry
        /\ j.want = want /\ j.manifest = v
    BY <1>1, <1>3 DEF Job
  <2>2. Goto(o, "complete") /\ job' = [job EXCEPT ![o] = j]
    BY <1>8
  <2> HIDE DEF j
  <2>3. pc'[o] = "complete" /\ job'[o] = j
    BY <1>1, <2>2, ActorOnly
  <2>4. Knows(o)'
    BY <1>4, <1>5, <1>8, <2>1, <2>3 DEF Knows, Pinned
  <2> QED BY <1>8, <2>2, <2>4, ActorKnows
<1>9. CASE \E v \in Versions :
              /\ IsNewest(v, Having(d, {"published"})) /\ content[d][v] = want
              /\ Return(o, v, FALSE) /\ UNCHANGED archive
  <2>1. PICK v \in Versions :
              /\ IsNewest(v, Having(d, {"published"})) /\ content[d][v] = want
              /\ Return(o, v, FALSE) /\ UNCHANGED archive
    BY <1>9
  <2>2. status[d][v] = "published"
    BY <2>1, BatchAssumption DEF IsNewest, Having, Versions
  <2> QED BY <1>6, <2>1, <2>2
<1>10. CASE \E v \in Having(d, {"draft"}) :
              /\ content[d][v] = want
              /\ job' = [job EXCEPT ![o] = [@ EXCEPT !.manifest = v]]
              /\ Goto(o, "complete")
              /\ UNCHANGED archive
  BY <1>8, <1>10 DEF Having, archive
<1>11. CASE \E v \in Versions :
              /\ status' = [status EXCEPT ![d] = [@ EXCEPT ![v] = "draft"]]
              /\ content' = [content EXCEPT ![d] = [@ EXCEPT ![v] = want]]
              /\ job' = [job EXCEPT ![o] = [@ EXCEPT !.manifest = v]]
              /\ Goto(o, "complete")
  <2>1. PICK v \in Versions :
              /\ status' = [status EXCEPT ![d] = [@ EXCEPT ![v] = "draft"]]
              /\ content' = [content EXCEPT ![d] = [@ EXCEPT ![v] = want]]
              /\ job' = [job EXCEPT ![o] = [@ EXCEPT !.manifest = v]]
              /\ Goto(o, "complete")
    BY <1>11
  <2>2. status'[d][v] = "draft" /\ content'[d][v] = want
    BY <1>1, <1>5, <2>1 DEF TypeOK
  <2> QED BY <1>8, <2>1, <2>2
<1> QED BY <1>3, <1>7, <1>9, <1>10, <1>11 DEF Publish

\* Phase two claims only the manifest it published itself.
LEMMA CompleteInv ==
    ASSUME BatchInv, [Next]_vars, NEW o \in Operators, Complete(o)
    PROVE  AllKnow'
<1>1. TypeOK /\ job[o] \in Job /\ pc[o] = "complete"
  BY DEF BatchInv, TypeOK, Complete
<1>2. Knows(o)
  BY <1>1 DEF BatchInv
<1>3. PICK i, d, v : i = job[o].run /\ d = job[o].date /\ v = job[o].manifest
  OBVIOUS
<1>4. /\ i \in DOMAIN runs /\ i \in DOMAIN runs'
      /\ (runs'[i].dry = TRUE) => job[o].dry
      /\ Quiet => \A s \in DOMAIN runs'[i].pins : release'[s] = runs'[i].pins[s]
  BY <1>1, <1>3, RunKnown DEF Pinned
<1>5. /\ ~job[o].dry /\ d \in Dates /\ v \in Versions /\ UNCHANGED <<release, content>>
      /\ content[d][v] = job[o].want
      /\ Quiet => job[o].want = release
  BY <1>1, <1>2, <1>3 DEF Complete, Knows
<1>6. CASE /\ status' = [status EXCEPT ![d] = [@ EXCEPT ![v] = "published"]]
           /\ Return(o, v, TRUE)
  <2>1. status'[d][v] = "published"
    BY <1>1, <1>5, <1>6 DEF TypeOK
  <2>2. Evidence(i, d, v)'
    BY <1>4, <1>5, <2>1 DEF Evidence, Pinned
  <2>3. Knows(o)'
    BY <1>1, <1>3, <1>5, <1>6, <2>2, ReturnKnows
  <2> QED BY <1>6, <2>3, SettlerKnows DEF Return
<1>7. CASE Settle(o, d, "failed", 0, FALSE)
  <2>1. Knows(o)'
    BY <1>1, <1>3, <1>5, <1>7, GiveUpKnows
  <2> QED BY <1>7, <2>1, SettlerKnows
<1> QED BY <1>3, <1>6, <1>7 DEF Complete

\* An operator that leaves knows nothing.
LEMMA ExitInv ==
    ASSUME BatchInv, [Next]_vars, NEW o \in Operators, Exit(o)
    PROVE  AllKnow'
BY ActorKnows DEF Exit

\* An entry repeats what the operator knows, or nothing is written.
LEMMA CommitInv ==
    ASSUME BatchInv, [Next]_vars, NEW o \in Operators, CommitEntry(o)
    PROVE  AllKnow' /\ AllLedgers'
<1>1. TypeOK /\ job[o] \in Job /\ pc[o] = "commit"
  BY DEF BatchInv, TypeOK, CommitEntry
<1>2. Knows(o)
  BY <1>1 DEF BatchInv
<1>3. PICK i, d, e : /\ i = job[o].run /\ d = job[o].date
                     /\ e = [outcome |-> job[o].outcome, manifest |-> job[o].manifest]
  OBVIOUS
<1>4. /\ i \in DOMAIN runs /\ i \in DOMAIN runs'
      /\ (runs'[i].dry = TRUE) => job[o].dry
      /\ Quiet => \A s \in DOMAIN runs'[i].pins : release'[s] = runs'[i].pins[s]
  BY <1>1, <1>3, RunKnown DEF Pinned
<1>5. /\ d \in Dates
      /\ job[o].dry => e.outcome = "skipped"
      /\ e.outcome \in Done => Evidence(i, d, e.manifest)
  BY <1>1, <1>2, <1>3 DEF Knows
<1>6. CASE Exit(o) /\ UNCHANGED runs
  BY <1>6, ExitInv, SameLedgers
<1>7. CASE /\ runs' = [runs EXCEPT ![i] = Ledgered(i, d, e)]
           /\ job' = [job EXCEPT ![o] = [NoJob EXCEPT
                  !.run = i, !.todo = job[o].todo \ {d},
                  !.dry = job[o].dry, !.force = job[o].force]]
           /\ Goto(o, "next")
  <2> DEFINE j == [NoJob EXCEPT !.run = i, !.todo = job[o].todo \ {d},
                                !.dry = job[o].dry, !.force = job[o].force]
  <2>1. j.run = i /\ j.dry = job[o].dry
    BY DEF NoJob
  <2>2. Goto(o, "next") /\ job' = [job EXCEPT ![o] = j]
    BY <1>7
  <2> HIDE DEF j
  <2>3. pc'[o] = "next" /\ job'[o] = j
    BY <1>1, <2>2, ActorOnly
  <2>4. Knows(o)'
    BY <1>4, <2>1, <2>3 DEF Knows, Pinned
  <2>5. AllKnow'
    BY <2>2, <2>4, ActorKnows
  <2>6. runs[i] \in Run
    BY <1>1, <1>4 DEF TypeOK
  <2>7. /\ DOMAIN runs' = DOMAIN runs
        /\ \A k \in DOMAIN runs \ {i} : runs'[k] = runs[k]
        /\ runs'[i] = Ledgered(i, d, e)
    BY <1>1, <1>4, <1>7 DEF TypeOK
  <2>8. /\ runs'[i].ledger[d] = e
        /\ \A x \in Dates \ {d} : runs'[i].ledger[x] = runs[i].ledger[x]
        /\ runs'[i].dry = runs[i].dry
    BY <1>5, <2>6, <2>7 DEF Ledgered, Run
  <2>9. Ledger(i)
    BY <1>4 DEF BatchInv
  <2>10. \A v : \A x \in Dates : Evidence(i, x, v) =>
            /\ v \in Versions
            /\ status'[x][v] = "published"
            /\ Quiet => \/ content'[x][v] = Richer
                        \/ \A s \in DOMAIN runs'[i].pins :
                                content'[x][v][s] = runs'[i].pins[s]
    BY <1>4, EvidenceKept DEF Evidence, Pinned
  <2>11. Ledger(i)'
    <3>1. ASSUME NEW x \in Dates, NEW old, old = runs'[i].ledger[x]
          PROVE  /\ runs'[i].dry = TRUE => old.outcome \in {"none", "skipped"}
                 /\ old.outcome \in Done => Evidence(i, x, old.manifest)
      <4>1. CASE x = d
        BY <1>4, <1>5, <2>8, <3>1, <4>1
      <4>2. CASE x # d
        BY <2>8, <2>9, <3>1, <4>2 DEF Ledger
      <4> QED BY <4>1, <4>2
    <3>2. \A x \in Dates :
            /\ (runs'[i].dry = TRUE) => runs'[i].ledger[x].outcome \in {"none", "skipped"}
            /\ runs'[i].ledger[x].outcome \in Done => Evidence(i, x, runs'[i].ledger[x].manifest)
      BY <3>1, Zenon
    <3> QED BY <2>10, <3>2 DEF Ledger, Evidence, Pinned
  <2>12. AllLedgers'
    BY <2>7, <2>11, LedgerKept DEF AllLedgers
  <2> QED BY <2>5, <2>12
<1> QED BY <1>3, <1>6, <1>7 DEF CommitEntry

\* Closing a run leaves its ledger alone.
LEMMA FinishInv ==
    ASSUME BatchInv, [Next]_vars, NEW o \in Operators, Finish(o)
    PROVE  AllKnow' /\ AllLedgers'
<1>1. TypeOK
  BY DEF BatchInv
<1>2. DOMAIN runs' = DOMAIN runs /\ \A k \in DOMAIN runs : runs'[k].ledger = runs[k].ledger
  BY <1>1 DEF Finish, TypeOK, Run
<1>3. AllLedgers'
  BY <1>2, LedgerKept DEF AllLedgers
<1> QED BY <1>3, ExitInv DEF Finish

\* Steps of nobody at the command line disturb no one.
LEMMA StandstillInv ==
    ASSUME BatchInv, [Next]_vars, UNCHANGED <<pc, job, runs>>
    PROVE  AllKnow' /\ AllLedgers'
BY KnowsKept, SameLedgers DEF AllKnow

\* Every step preserves the invariant.
LEMMA BatchInvStep == BatchInv /\ [Next]_vars => BatchInv'
<1> SUFFICES ASSUME BatchInv, [Next]_vars PROVE BatchInv'
  OBVIOUS
<1>1. TypeOK'
  BY StepType DEF BatchInv
<1>2. ASSUME NEW o \in Operators,
             Start(o) \/ CommitEntry(o) \/ Finish(o)
             \/ \E onlyFailed \in BOOLEAN : Resume(o, onlyFailed)
      PROVE  AllKnow' /\ AllLedgers'
  BY <1>2, StartInv, ResumeInv, CommitInv, FinishInv
<1>3. ASSUME NEW o \in Operators,
             \/ SkipDate(o) \/ TakeDate(o) \/ Render(o) \/ Publish(o) \/ Complete(o)
             \/ LookUpEntry(o) \/ AttemptFails(o) \/ Crash(o)
      PROVE  AllKnow' /\ AllLedgers'
  <2>1. UNCHANGED runs
    BY <1>3 DEF SkipDate, TakeDate, Render, Publish, Complete, LookUpEntry, AttemptFails, Crash
  <2>2. AllKnow'
    BY <1>3, DateInv, RenderInv, PublishInv, CompleteInv, ExitInv DEF Crash
  <2> QED BY <2>1, <2>2, SameLedgers
<1>4. ASSUME NEW s \in Sources, Ingest(s) PROVE AllKnow' /\ AllLedgers'
  BY <1>4, StandstillInv DEF Ingest
<1>5. ASSUME NEW d \in Dates, PublishEvent(d) \/ Reconcile(d) PROVE AllKnow' /\ AllLedgers'
  BY <1>5, StandstillInv DEF PublishEvent, Reconcile
<1>6. ASSUME UNCHANGED vars PROVE AllKnow' /\ AllLedgers'
  <2>1. UNCHANGED <<pc, job, runs>>
    BY <1>6 DEF vars
  <2> QED BY <2>1, StandstillInv
<1>7. AllKnow' /\ AllLedgers'
  <2>1. CASE \E o \in Operators :
            \/ Start(o) \/ Work(o) \/ AttemptFails(o) \/ Crash(o)
            \/ \E onlyFailed \in BOOLEAN : Resume(o, onlyFailed)
    BY <1>2, <1>3, <2>1 DEF Work
  <2>2. CASE \E d \in Dates : PublishEvent(d) \/ Reconcile(d)
    BY <1>5, <2>2
  <2> QED BY <1>4, <1>6, <2>1, <2>2 DEF Next
<1> QED BY <1>1, <1>7 DEF BatchInv, AllKnow, AllLedgers

\* The invariant holds initially.
LEMMA BatchInvInit == Init => BatchInv
<1> SUFFICES ASSUME Init PROVE BatchInv
  OBVIOUS
<1>1. TypeOK
  BY InitType
<1>2. \A o \in Operators : pc[o] = "idle"
  BY DEF Init
<1>3. \A i \in DOMAIN runs, d \in Dates : runs[i].ledger[d].outcome = "none"
  BY DEF Init, NewRun, NoEntry
<1> QED BY <1>1, <1>2, <1>3 DEF BatchInv, Ledger, Done

----------------------------------------------------------------------------
(* The theorems.                                                           *)

\* Every variable keeps its type: the ledgers, archives and control states of
\* the batch stay within the vocabulary batch_publication.py writes.
THEOREM BatchTypeCorrect == Spec => []TypeOK
<1>1. Init => TypeOK
  BY InitType
<1>2. TypeOK /\ [Next]_vars => TypeOK'
  BY StepType
<1> QED BY <1>1, <1>2, PTL DEF Spec

\* The strengthening behind the three theorems below is inductive.
THEOREM BatchInvariant == Spec => []BatchInv
<1>1. Init => BatchInv
  BY BatchInvInit
<1>2. BatchInv /\ [Next]_vars => BatchInv'
  BY BatchInvStep
<1> QED BY <1>1, <1>2, PTL DEF Spec

\* However many operators resume a dry run, with whatever flags, it never
\* ledgers anything but intent (the flags of the recorded request win).
THEOREM DryRunsPublishNothing == Spec => []DryRunPublishesNothing
<1>1. BatchInv => DryRunPublishesNothing
  BY DEF BatchInv, Ledger, DryRunPublishesNothing, Outcome
<1> QED BY <1>1, BatchInvariant, PTL

\* A date is ledgered as done only with a manifest that is published, with
\* any number of operators, crashes, reconciliations and event profiles.
THEOREM LedgersNamePublished == Spec => []LedgerNamesPublished
<1>1. BatchInv => LedgerNamesPublished
  BY DEF BatchInv, Ledger, Evidence, LedgerNamesPublished
<1> QED BY <1>1, BatchInvariant, PTL

\* As long as nothing is ingested while a command is running, the context a
\* run published rests on the releases it recorded (batch_run_is_resumable).
THEOREM RunsKeepOneRelease ==
    ASSUME "live_ingest" \notin Disturbances
    PROVE  Spec => []OneReleasePerRun
<1>1. BatchInv => OneReleasePerRun
  <2> SUFFICES ASSUME BatchInv, NEW i \in DOMAIN runs, NEW d \in runs[i].dates,
                      runs[i].ledger[d].outcome \in Done,
                      content[d][runs[i].ledger[d].manifest] # Richer
               PROVE  Pinned(i, content[d][runs[i].ledger[d].manifest])
    BY DEF OneReleasePerRun, Pinned
  <2>1. runs[i] \in Run
    BY DEF BatchInv, TypeOK
  <2>2. d \in Dates
    BY <2>1 DEF Run
  <2>3. Evidence(i, d, runs[i].ledger[d].manifest)
    BY <2>2 DEF BatchInv, Ledger
  <2> QED BY <2>3 DEF Evidence, Quiet
<1> QED BY <1>1, BatchInvariant, PTL

----------------------------------------------------------------------------
(* Completion.  Nothing in the ledger tells whether somebody else still    *)
(* works on a run, so a second operator may ledger a failure in a run that *)
(* the first has just completed.  With one operator the run it works on is *)
(* always recorded as running, and it closes it by its whole plan.         *)

Alone == \A a, b \in Operators : a = b

\* The run that is being worked on is recorded as running.
OpenAtWork == \A o \in Operators : pc[o] # "idle" => runs[job[o].run].status = "running"

ClosesWhole == CompletedOwesNothing /\ OpenAtWork

\* Neither half depends on more than the runs and who is at work on which.
LEMMA StillClosesWhole ==
    ASSUME ClosesWhole, UNCHANGED runs,
           \A o \in Operators : pc'[o] # "idle" =>
                pc[o] # "idle" /\ job'[o].run = job[o].run
    PROVE  ClosesWhole'
<1>1. OpenAtWork'
  BY DEF ClosesWhole, OpenAtWork
<1>2. CompletedOwesNothing'
  BY DEF ClosesWhole, CompletedOwesNothing, Outstanding, Outcome
<1> QED BY <1>1, <1>2 DEF ClosesWhole

\* The steps within a date, and leaving, take up no run.
LEMMA SameRunAtWork ==
    ASSUME TypeOK, NEW o \in Operators,
           \/ SkipDate(o) \/ TakeDate(o) \/ Render(o) \/ Publish(o) \/ Complete(o)
           \/ LookUpEntry(o) \/ AttemptFails(o) \/ Crash(o)
    PROVE  /\ UNCHANGED runs
           /\ \A p \in Operators : pc'[p] # "idle" =>
                  pc[p] # "idle" /\ job'[p].run = job[p].run
<1>1. job[o] \in Job
  BY DEF TypeOK
<1>2. ASSUME NEW d, NEW outcome, NEW v, NEW promoted, pc[o] # "idle",
             Settle(o, d, outcome, v, promoted)
      PROVE  \A p \in Operators : pc'[p] # "idle" =>
                 pc[p] # "idle" /\ job'[p].run = job[p].run
  BY <1>1, <1>2 DEF Settle, Goto, TypeOK, Job
<1>3. ASSUME NEW v, NEW promoted, pc[o] # "idle", Return(o, v, promoted)
      PROVE  \A p \in Operators : pc'[p] # "idle" =>
                 pc[p] # "idle" /\ job'[p].run = job[p].run
  BY <1>2, <1>3 DEF Return
<1>4. ASSUME NEW step, NEW j, pc[o] # "idle", Goto(o, step),
             job' = [job EXCEPT ![o] = j], j.run = job[o].run
      PROVE  \A p \in Operators : pc'[p] # "idle" =>
                 pc[p] # "idle" /\ job'[p].run = job[p].run
  BY <1>4 DEF Goto, TypeOK
<1>5. CASE SkipDate(o)
  BY <1>2, <1>5 DEF SkipDate
<1>6. CASE TakeDate(o)
  <2>1. PICK d \in job[o].todo, previous \in 0 .. MaxVersion :
            job' = [job EXCEPT ![o] = [@ EXCEPT !.date = d, !.previous = previous]]
    BY <1>6 DEF TakeDate
  <2>2. [job[o] EXCEPT !.date = d, !.previous = previous].run = job[o].run
    BY <1>1 DEF Job
  <2> QED BY <1>4, <1>6, <2>1, <2>2 DEF TakeDate
<1>7. CASE Render(o)
  <2>1. [job[o] EXCEPT !.want = release].run = job[o].run
    BY <1>1 DEF Job
  <2> QED BY <1>2, <1>3, <1>4, <1>7, <2>1 DEF Render
<1>8. CASE Publish(o)
  <2>1. \A v : [job[o] EXCEPT !.manifest = v].run = job[o].run
    BY <1>1 DEF Job
  <2> QED BY <1>2, <1>3, <1>4, <1>8, <2>1 DEF Publish
<1>9. CASE Complete(o)
  BY <1>2, <1>3, <1>9 DEF Complete
<1>10. CASE LookUpEntry(o)
  <2>1. \A e : [job[o] EXCEPT !.existing = e].run = job[o].run
    BY <1>1 DEF Job
  <2> QED BY <1>4, <1>10, <2>1 DEF LookUpEntry
<1>11. CASE AttemptFails(o)
  BY <1>2, <1>11 DEF AttemptFails
<1>12. CASE Crash(o)
  BY <1>12 DEF Crash, Exit, Goto, TypeOK
<1> QED BY <1>5, <1>6, <1>7, <1>8, <1>9, <1>10, <1>11, <1>12
        DEF SkipDate, TakeDate, Render, Publish, Complete, LookUpEntry, AttemptFails, Crash

\* With one operator, a step of it that leaves it at work on a run recorded
\* as running, or idle, keeps the invariant if no other run changes and the
\* run it touched owes nothing once it is recorded as completed.
LEMMA TouchClosesWhole ==
    ASSUME ClosesWhole, NEW o \in Operators, Alone,
           NEW i \in DOMAIN runs', NEW step, NEW j, TypeOK,
           Goto(o, step), job' = [job EXCEPT ![o] = j],
           step # "idle" => j.run = i /\ runs'[i].status = "running",
           runs'[i].status = "completed" => Outstanding(i, FALSE)' = {},
           \A k \in DOMAIN runs' \ {i} : k \in DOMAIN runs /\ runs'[k] = runs[k]
    PROVE  ClosesWhole'
<1>1. pc'[o] = step /\ job'[o] = j
  BY ActorOnly
<1>2. OpenAtWork'
  BY <1>1 DEF OpenAtWork, Alone
<1>3. ASSUME NEW k \in DOMAIN runs', runs'[k].status = "completed"
      PROVE  Outstanding(k, FALSE)' = {}
  <2>1. CASE k = i
    BY <1>3, <2>1
  <2>2. CASE k # i
    <3>1. k \in DOMAIN runs /\ runs'[k] = runs[k]
      BY <2>2
    <3>2. Outstanding(k, FALSE) = {}
      BY <1>3, <3>1 DEF ClosesWhole, CompletedOwesNothing
    <3> QED BY <3>1, <3>2 DEF Outstanding, Outcome
  <2> QED BY <2>1, <2>2
<1> QED BY <1>2, <1>3 DEF ClosesWhole, CompletedOwesNothing

\* A new run is recorded as running.
LEMMA StartClosesWhole ==
    ASSUME ClosesWhole, TypeOK, Alone, NEW o \in Operators, Start(o)
    PROVE  ClosesWhole'
<1>1. PICK dates \in Plans, dry \in DryRuns, force \in Forces :
        /\ runs' = Append(runs, NewRun(dates, release, dry, force))
        /\ job' = [job EXCEPT ![o] = [NoJob EXCEPT
                !.run = Len(runs) + 1, !.todo = dates, !.dry = dry, !.force = force]]
  BY DEF Start
<1> DEFINE r == NewRun(dates, release, dry, force)
           i == Len(runs) + 1
           j == [NoJob EXCEPT !.run = i, !.todo = dates, !.dry = dry, !.force = force]
<1>2. Goto(o, "next") /\ job' = [job EXCEPT ![o] = j]
  BY <1>1 DEF Start
<1>3. r.status = "running" /\ j.run = i
  BY DEF NewRun, NoJob
<1> HIDE DEF r, j
<1>4. runs' = Append(runs, r)
  BY <1>1 DEF r
<1>5. i \in DOMAIN runs' /\ runs'[i] = r
  BY <1>4 DEF TypeOK
<1>6. \A k \in DOMAIN runs' \ {i} : k \in DOMAIN runs /\ runs'[k] = runs[k]
  BY <1>4 DEF TypeOK
<1> HIDE DEF i
<1> QED BY <1>2, <1>3, <1>5, <1>6, TouchClosesWhole

\* A resumed run is recorded as running again.
LEMMA ResumeClosesWhole ==
    ASSUME ClosesWhole, TypeOK, Alone, NEW o \in Operators, NEW onlyFailed \in BOOLEAN,
           Resume(o, onlyFailed)
    PROVE  ClosesWhole'
<1>1. PICK i \in DOMAIN runs, dry \in DryRuns, force \in Forces :
        /\ Recoverable(i, onlyFailed)
        /\ runs' = [runs EXCEPT ![i] = [@ EXCEPT !.status = "running"]]
        /\ job' = [job EXCEPT ![o] = [NoJob EXCEPT
                !.run = i, !.todo = Outstanding(i, onlyFailed),
                !.dry = AsRecorded(i, dry, force).dry,
                !.force = AsRecorded(i, dry, force).force]]
  BY DEF Resume
<1> DEFINE j == [NoJob EXCEPT !.run = i, !.todo = Outstanding(i, onlyFailed),
                              !.dry = AsRecorded(i, dry, force).dry,
                              !.force = AsRecorded(i, dry, force).force]
<1>2. Goto(o, "next") /\ job' = [job EXCEPT ![o] = j]
  BY <1>1 DEF Resume
<1>3. j.run = i
  BY DEF NoJob
<1> HIDE DEF j
<1>4. runs[i] \in Run
  BY DEF TypeOK
<1>5. i \in DOMAIN runs' /\ runs'[i].status = "running"
  BY <1>1, <1>4 DEF TypeOK, Run
<1>6. \A k \in DOMAIN runs' \ {i} : k \in DOMAIN runs /\ runs'[k] = runs[k]
  BY <1>1 DEF TypeOK
<1> QED BY <1>2, <1>3, <1>5, <1>6, TouchClosesWhole

\* An entry goes to the run being worked on, which is recorded as running.
LEMMA CommitClosesWhole ==
    ASSUME ClosesWhole, BatchInv, [Next]_vars, Alone, NEW o \in Operators, CommitEntry(o)
    PROVE  ClosesWhole'
<1> DEFINE i == job[o].run
           d == job[o].date
           e == [outcome |-> job[o].outcome, manifest |-> job[o].manifest]
           j == [NoJob EXCEPT !.run = i, !.todo = job[o].todo \ {d},
                              !.dry = job[o].dry, !.force = job[o].force]
<1>1. TypeOK /\ pc[o] # "idle"
  BY DEF BatchInv, CommitEntry
<1>2. i \in DOMAIN runs /\ runs[i].status = "running"
  BY <1>1, RunKnown DEF ClosesWhole, OpenAtWork
<1>3. CASE Exit(o) /\ UNCHANGED runs
  <2>1. \A p \in Operators : pc'[p] # "idle" => pc[p] # "idle" /\ job'[p].run = job[p].run
    BY <1>1, <1>3 DEF Exit, Goto, TypeOK
  <2> QED BY <1>3, <2>1, StillClosesWhole
<1>4. CASE /\ runs' = [runs EXCEPT ![i] = Ledgered(i, d, e)]
           /\ job' = [job EXCEPT ![o] = j]
           /\ Goto(o, "next")
  <2>1. runs[i] \in Run
    BY <1>1, <1>2 DEF TypeOK
  <2>2. j.run = i
    BY DEF NoJob
  <2>3. i \in DOMAIN runs' /\ runs'[i].status = "running"
    BY <1>1, <1>2, <1>4, <2>1 DEF TypeOK, Run, Ledgered
  <2>4. \A k \in DOMAIN runs' \ {i} : k \in DOMAIN runs /\ runs'[k] = runs[k]
    BY <1>1, <1>4 DEF TypeOK
  <2> HIDE DEF i, d, e, j
  <2> QED BY <1>1, <1>4, <2>2, <2>3, <2>4, TouchClosesWhole
<1> QED BY <1>3, <1>4 DEF CommitEntry

\* A run is closed as completed when its whole plan is, and not before.
LEMMA FinishClosesWhole ==
    ASSUME ClosesWhole, BatchInv, [Next]_vars, Alone, NEW o \in Operators, Finish(o)
    PROVE  ClosesWhole'
<1> DEFINE i == job[o].run
<1>1. TypeOK /\ pc[o] # "idle"
  BY DEF BatchInv, Finish
<1>2. i \in DOMAIN runs /\ runs[i] \in Run
  BY <1>1 DEF BatchInv, Knows, TypeOK
<1>3. runs' = [runs EXCEPT ![i] = [@ EXCEPT !.status = Closed(i)]]
  BY DEF Finish
<1>4. /\ i \in DOMAIN runs'
      /\ runs'[i].status = Closed(i)
      /\ runs'[i].dates = runs[i].dates
      /\ runs'[i].ledger = runs[i].ledger
  BY <1>1, <1>2, <1>3 DEF TypeOK, Run
<1>5. \A k \in DOMAIN runs' \ {i} : k \in DOMAIN runs /\ runs'[k] = runs[k]
  BY <1>1, <1>3 DEF TypeOK
<1>6. Goto(o, "idle") /\ job' = [job EXCEPT ![o] = NoJob]
  BY DEF Finish, Exit
<1> HIDE DEF i
<1>7. runs'[i].status = "completed" => Outstanding(i, FALSE) = {}
  BY <1>4 DEF Closed
<1>8. ASSUME NEW k, k = i, runs'[k].status = "completed"
      PROVE  Outstanding(k, FALSE)' = {}
  BY <1>4, <1>7, <1>8 DEF Outstanding, Outcome
<1>9. \A k \in DOMAIN runs' : k = i =>
            (runs'[k].status = "completed" => Outstanding(k, FALSE)' = {})
  BY <1>8
<1>10. PICK k \in DOMAIN runs' : k = i
  BY <1>4
<1> QED BY <1>1, <1>5, <1>6, <1>9, <1>10, TouchClosesWhole

\* Every step of a lone operator, and of everybody else, keeps the invariant.
LEMMA NextClosesWhole ==
    ASSUME ClosesWhole, BatchInv, [Next]_vars, Alone
    PROVE  ClosesWhole'
<1>1. TypeOK
  BY DEF BatchInv
<1>2. CASE UNCHANGED <<runs, pc, job>>
  BY <1>2, StillClosesWhole
<1>3. ASSUME NEW o \in Operators,
             \/ Start(o) \/ Work(o) \/ AttemptFails(o) \/ Crash(o)
             \/ \E onlyFailed \in BOOLEAN : Resume(o, onlyFailed)
      PROVE  ClosesWhole'
  <2>1. CASE Start(o)
    BY <1>1, <2>1, StartClosesWhole
  <2>2. ASSUME NEW onlyFailed \in BOOLEAN, Resume(o, onlyFailed) PROVE ClosesWhole'
    BY <1>1, <2>2, ResumeClosesWhole
  <2>3. CASE CommitEntry(o)
    BY <2>3, CommitClosesWhole
  <2>4. CASE Finish(o)
    BY <2>4, FinishClosesWhole
  <2>5. CASE \/ SkipDate(o) \/ TakeDate(o) \/ Render(o) \/ Publish(o) \/ Complete(o)
             \/ LookUpEntry(o) \/ AttemptFails(o) \/ Crash(o)
    BY <1>1, <2>5, SameRunAtWork, StillClosesWhole
  <2> QED BY <1>3, <2>1, <2>2, <2>3, <2>4, <2>5 DEF Work
<1>4. ASSUME NEW s \in Sources, Ingest(s) PROVE ClosesWhole'
  BY <1>2, <1>4 DEF Ingest
<1>5. ASSUME NEW d \in Dates, PublishEvent(d) \/ Reconcile(d) PROVE ClosesWhole'
  BY <1>2, <1>5 DEF PublishEvent, Reconcile
<1>6. CASE UNCHANGED vars
  BY <1>2, <1>6 DEF vars
<1> QED BY <1>3, <1>4, <1>5, <1>6 DEF Next

\* "Completion is a property of the whole ledgered plan": with one operator a
\* run recorded as completed owes no date, whatever crashed, failed or was
\* retried, and however the resuming commands chose among the runs.
THEOREM CompletedRunsOweNothing ==
    ASSUME Alone
    PROVE  Spec => []CompletedOwesNothing
<1>1. Init => ClosesWhole
  <2> SUFFICES ASSUME Init PROVE ClosesWhole
    OBVIOUS
  <2>1. \A o \in Operators : pc[o] = "idle"
    BY DEF Init
  <2>2. \A i \in DOMAIN runs : runs[i].status = "running"
    BY DEF Init, NewRun
  <2> QED BY <2>1, <2>2 DEF ClosesWhole, OpenAtWork, CompletedOwesNothing
<1>2. ClosesWhole /\ BatchInv /\ [Next]_vars => ClosesWhole'
  BY NextClosesWhole
<1>3. ClosesWhole => CompletedOwesNothing
  BY DEF ClosesWhole
<1> QED BY <1>1, <1>2, <1>3, BatchInvariant, PTL DEF Spec
====
