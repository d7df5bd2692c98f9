---------------------------- MODULE CoverageProofs ----------------------------
(***************************************************************************)
(* Theorems about Coverage, for every set of dates, editors and walkers,   *)
(* and every bound.                                                        *)
(*                                                                         *)
(* What a transaction is about to write must be right when it commits, so  *)
(* CoverageInv says what every process knows between two statements.  What *)
(* holds whatever the others do is in Knows; what holds unless another     *)
(* transaction has overtaken this one is in Fresh.  A commit leaves every  *)
(* process it does not overtake with fresh knowledge: two transactions on  *)
(* one date that both hold the publication lock are the same one.          *)
(***************************************************************************)
EXTENDS Coverage, TLAPS

----------------------------------------------------------------------------
(* The invariant.                                                          *)

\* The steps outside a transaction, and those with the publication lock.
Outside == {"idle", "promoted", "first", "second", "done"}
Locked(x) == pc[x] \in (IF x \in Editors THEN {"found", "indexed", "completing"}
                                         ELSE {"seen", "loaded", "flushed"})

\* A process holds the locks of the date of its transaction only.
Holds(x) ==
    \A d \in Dates :
        /\ pubLock[d] = x => txn[x].date = d /\ Locked(x)
        /\ rowLock[d] = x =>
            txn[x].date = d /\ pc[x] \in {"refreshed", "completing", "flushed"}

\* The row a transaction has loaded is there unless it has been deleted since.
RowThere(x) ==
    /\ pc[x] \in {"loaded", "indexed"}
    /\ txn[x].loaded # None
    /\ x \notin gone
    => index[txn[x].date] # None

EditorKnows(e) ==
    LET d == job[e].date IN
    /\ pc[e] \in EditorSteps
    /\ pc[e] # "idle" => d \in Dates /\ job[e].root \in Contents
    /\ pc[e] \notin Outside => txn[e].date = d
    /\ pc[e] \in {"seen", "loaded"} => txn[e].value # None /\ Served(d) # 0
    /\ pc[e] = "refreshed" /\ rowLock[d] = e => txn[e].write # None /\ Served(d) # 0
    /\ Locked(e) => pubLock[d] = e /\ txn[e].value # None
    /\ pc[e] = "completing" => rowLock[d] = e /\ txn[e].write # None

WalkerKnows(w) ==
    LET d == txn[w].date IN
    /\ pc[w] \in WalkerSteps
    /\ Locked(w) => d \in Dates /\ pubLock[d] = w /\ (txn[w].value = None <=> ~Servable(d))
    /\ pc[w] = "flushed" => rowLock[d] = w /\ (txn[w].write = None <=> txn[w].value = None)

Knows(x) ==
    /\ pc[x] \in Outside => txn[x] = NoTxn
    /\ Holds(x)
    /\ RowThere(x)
    /\ x \in Editors => EditorKnows(x)
    /\ x \in Walkers => WalkerKnows(x)

\* What the archive supports, with selections only one transaction sees.
Supported(d, own) == Derived(d, Served(d), versions[d][Served(d)], approved \cup own)

EditorFresh(e) ==
    LET d == job[e].date IN
    /\ pc[e] \in {"seen", "loaded"} => txn[e].value = Supported(d, Own(e))
    /\ pc[e] = "refreshed" /\ rowLock[d] = e => txn[e].write = Supported(d, Own(e))
    /\ pc[e] = "refreshed" /\ rowLock[d] # e /\ ~job[e].publishes => Served(d) = 0
    /\ Locked(e) => txn[e].value = Derived(d, Served(d) + 1, job[e].root, approved)
    /\ pc[e] = "completing" => txn[e].write = txn[e].value

WalkerFresh(w) ==
    LET d == txn[w].date IN
    /\ Locked(w) /\ txn[w].value # None => txn[w].value = Supported(d, {})
    /\ pc[w] = "flushed" => txn[w].write = txn[w].value

Fresh(x) ==
    /\ pc[x] \in {"loaded", "indexed"} => txn[x].loaded = index[txn[x].date]
    /\ x \in Editors => EditorFresh(x)
    /\ x \in Walkers => WalkerFresh(x)

\* What is indexed is served; what cannot be read was disturbed.
Indexed ==
    \A d \in Dates :
        /\ index[d] # None => Served(d) # 0
        /\ Served(d) # 0 /\ d \notin readable => d \in unindexed

CoverageInv ==
    /\ TypeOK
    /\ \A x \in Processes : Knows(x)
    /\ \A x \in Processes \ stale : Fresh(x)
    /\ Indexed
    /\ IndexExact
    /\ ServedIsIndexed

----------------------------------------------------------------------------
(* What the operators return.                                              *)

LEMMA NoneIsNoValue ==
    /\ None \notin Entry
    /\ None \notin Nat
    /\ None \notin Processes
    /\ Editors \cap Walkers = {}
  BY CoverageAssumption, EntryAssumption DEF Processes

LEMMA DerivedTyped ==
    ASSUME NEW d, NEW v \in Nat \ {0}, NEW c \in Contents, NEW seen
    PROVE  Derived(d, v, c, seen) \in Entry /\ Derived(d, v, c, seen) # None
  <1>1. Derived(d, v, c, seen) \in Entry
    BY DEF Derived, Entry, Richness, Review
  <1> QED
    BY <1>1, EntryAssumption

LEMMA ServedTyped ==
    ASSUME TypeOK, NEW d \in Dates
    PROVE  /\ Served(d) \in Nat
           /\ Served(d) # 0 => versions[d][Served(d)] \in Contents
           /\ Served(d) + 1 \in Nat \ {0}
  <1>1. versions[d] \in Seq(Contents)
    BY DEF TypeOK
  <1> QED
    BY <1>1 DEF Served

LEMMA MergedTyped ==
    ASSUME NEW loaded \in Entry, NEW current \in Entry, NEW value \in Entry
    PROVE  /\ Merged(loaded, current, value) \in Entry
           /\ Merged(loaded, current, value) # None
           /\ Merged(loaded, loaded, value) = value
  <1>1. DOMAIN value = {"version", "tier", "event", "review"}
    BY DEF Entry
  <1>2. Merged(loaded, current, value) \in Entry
    BY <1>1 DEF Merged, Entry
  <1>3. Merged(loaded, loaded, value) = value
    BY <1>1 DEF Merged, Entry
  <1> QED
    BY <1>2, <1>3, EntryAssumption

LEMMA ExactIsSupported ==
    ASSUME NEW d \in Dates
    PROVE  Exact(d) = Supported(d, {})
  BY DEF Exact, Supported

LEMMA OwnTyped ==
    ASSUME NEW e \in Editors, job[e].date \in Dates, job[e].root \in Contents
    PROVE  Own(e) \subseteq {job[e].date} \X Contents
  BY DEF Own

\* Who is in which steps.
LEMMA Steps ==
    ASSUME NEW x \in Processes, Knows(x)
    PROVE  /\ x \in Editors => pc[x] \in EditorSteps
           /\ x \in Walkers => pc[x] \in WalkerSteps /\ x \notin Editors
           /\ x \in Editors => x \notin Walkers
           /\ x \in Editors \/ x \in Walkers
  BY NoneIsNoValue DEF Knows, EditorKnows, WalkerKnows, Processes

\* An open transaction is on a date.
LEMMA OpenTxn ==
    ASSUME TypeOK, NEW x \in Processes, Knows(x), pc[x] \notin Outside
    PROVE  /\ txn[x].date \in Dates
           /\ x \in Editors => txn[x].date = job[x].date /\ job[x].root \in Contents
           /\ x \in Walkers => Locked(x)
  <1>1. CASE x \in Editors
    BY <1>1, Steps DEF Knows, EditorKnows, Outside
  <1>2. CASE x \in Walkers
    <2>1. pc[x] \in WalkerSteps /\ x \notin Editors
      BY <1>2, Steps
    <2>2. Locked(x)
      BY <2>1 DEF Locked, WalkerSteps, Outside
    <2> QED
      BY <1>2, <2>1, <2>2 DEF Knows, WalkerKnows
  <1> QED
    BY <1>1, <1>2 DEF Processes

\* The row a flush sends.
Row(x) ==
    IF txn[x].value = None \/ txn[x].loaded = None THEN txn[x].value
    ELSE Merged(txn[x].loaded, index[txn[x].date], txn[x].value)

LEMMA RowTyped ==
    ASSUME TypeOK, NEW x \in Processes, Knows(x), pc[x] \in {"loaded", "indexed"},
           ~Conflicts(x)
    PROVE  /\ Row(x) \in Entry \cup {None}
           /\ Row(x) = None <=> txn[x].value = None
           /\ txn[x].loaded = index[txn[x].date] => Row(x) = txn[x].value
  <1>1. /\ txn[x].date \in Dates
        /\ txn[x].value \in Entry \cup {None}
        /\ txn[x].loaded \in Entry \cup {None}
    BY OpenTxn DEF Outside, TypeOK, Txn
  <1>2. CASE txn[x].value = None \/ txn[x].loaded = None
    BY <1>1, <1>2 DEF Row
  <1>3. CASE txn[x].value # None /\ txn[x].loaded # None
    <2>1. index[txn[x].date] # None
      BY <1>3 DEF Knows, RowThere, Conflicts
    <2>2. index[txn[x].date] \in Entry
      BY <1>1, <2>1 DEF TypeOK
    <2> QED
      BY <1>1, <1>3, <2>2, MergedTyped DEF Row
  <1> QED
    BY <1>2, <1>3

----------------------------------------------------------------------------
(* Types.                                                                  *)

LEMMA TypeOfTxn ==
    /\ NoTxn \in Txn
    /\ NoJob \in Job
    /\ \A t \in Txn, d \in Dates : [t EXCEPT !.date = d] \in Txn
    /\ \A t \in Txn, r \in Entry \cup {None} :
        /\ [t EXCEPT !.loaded = r] \in Txn
        /\ [t EXCEPT !.value = r] \in Txn
        /\ [t EXCEPT !.write = r] \in Txn
    /\ \A d \in Dates, r \in Entry \cup {None} :
        [NoTxn EXCEPT !.date = d, !.value = r] \in Txn
  BY DEF NoTxn, NoJob, Txn, Job

LEMMA TypeOfLocks ==
    ASSUME TypeOK, NEW x \in Processes
    PROVE  /\ Release(x) => rowLock' \in [Dates -> Processes \cup {None}]
           /\ Unlock(x) => pubLock' \in [Dates -> Processes \cup {None}]
           /\ \A f \in [Dates -> Processes \cup {None}], d \in Dates :
                [f EXCEPT ![d] = x] \in [Dates -> Processes \cup {None}]
  BY DEF TypeOK, Release, Unlock

LEMMA TypeOfSteps ==
    ASSUME TypeOK, NEW x \in Processes, NEW step \in EditorSteps \cup WalkerSteps, Goto(x, step)
    PROVE  pc' \in [Processes -> EditorSteps \cup WalkerSteps]
  BY DEF TypeOK, Goto

LEMMA TypeOfHistory ==
    ASSUME TypeOK, NEW x, NEW d \in Dates, NEW writes \in BOOLEAN, Committed(x, d, writes)
    PROVE  /\ stale' \in SUBSET Processes
           /\ raced' \in SUBSET Dates
           /\ touched' \in [Walkers -> SUBSET Dates]
  BY DEF TypeOK, Committed, Overtaken, TouchedBy

LEMMA TypeOfWritten ==
    ASSUME TypeOK, NEW x \in Processes, NEW d \in Dates, Written(x, d)
    PROVE  /\ index' \in [Dates -> Entry \cup {None}]
           /\ gone' \in SUBSET Processes
  <1>1. txn[x].write \in Entry \cup {None}
    BY DEF TypeOK, Txn
  <1> QED
    BY <1>1 DEF TypeOK, Written

LEMMA TypeOfFailure ==
    ASSUME CoverageInv, NEW x \in Processes, Fails(x)
    PROVE  TypeOK'
  <1> USE DEF CoverageInv
  <1>1. /\ txn' \in [Processes -> Txn]
        /\ gone' \in SUBSET Processes
        /\ stale' \in SUBSET Processes
        /\ rowLock' \in [Dates -> Processes \cup {None}]
        /\ pubLock' \in [Dates -> Processes \cup {None}]
    BY TypeOfTxn, TypeOfLocks DEF Fails, RolledBack, TypeOK
  <1>2. /\ pass' \in [Walkers -> {"first", "second", "single"}]
        /\ todo' \in [Walkers -> SUBSET Dates]
        /\ live' \in [Walkers -> SUBSET Dates]
        /\ unreadable' \in [Walkers -> SUBSET Dates]
        /\ touched' \in [Walkers -> SUBSET Dates]
    BY DEF Fails, Forget, TypeOK
  <1>3. pc' \in [Processes -> EditorSteps \cup WalkerSteps] /\ job' \in [Editors -> Job]
    BY TypeOfTxn DEF Fails, Goto, TypeOK, EditorSteps, WalkerSteps
  <1>4. UNCHANGED <<versions, pending, approved, readable, index, jobs, faults, raced, unindexed>>
    BY DEF Fails, RolledBack, archive, counters
  <1> QED
    BY <1>1, <1>2, <1>3, <1>4 DEF TypeOK

LEMMA TypeOfEditor ==
    ASSUME CoverageInv, NEW e \in Editors, BeginEdit(e) \/ EditorStep(e)
    PROVE  TypeOK'
  <1> USE DEF CoverageInv
  <1>a. e \in Processes /\ Knows(e) /\ EditorKnows(e)
    BY DEF Processes, Knows
  <1>1. CASE BeginEdit(e)
    <2>1. PICK d \in Dates, c \in Contents, publishes \in BOOLEAN :
            /\ job' = [job EXCEPT ![e] = [date |-> d, root |-> c, publishes |-> publishes]]
            /\ txn' = [txn EXCEPT ![e].date = d]
            /\ \/ Goto(e, "decided")
               \/ publishes /\ Goto(e, "refreshed")
      BY <1>1 DEF BeginEdit
    <2>2. job' \in [Editors -> Job]
      BY <2>1 DEF TypeOK, Job
    <2>3. txn' \in [Processes -> Txn]
      BY <1>a, <2>1, TypeOfTxn DEF TypeOK
    <2>4. pc' \in [Processes -> EditorSteps \cup WalkerSteps]
      BY <1>a, <2>1, TypeOfSteps DEF EditorSteps
    <2>5. jobs' \in 0 .. MaxJobs
      BY <1>1, CoverageAssumption DEF BeginEdit, TypeOK
    <2>6. UNCHANGED <<archive, readable, index, gone, locks, walk, faults, history>>
      BY <1>1 DEF BeginEdit
    <2> QED
      BY <2>2, <2>3, <2>4, <2>5, <2>6 DEF TypeOK, archive, locks, walk, history
  <1>2. CASE ReadServed(e)
    <2>1. job[e].date \in Dates /\ pc[e] = "decided"
      BY <1>2, <1>a DEF ReadServed, EditorKnows
    <2>2. txn' \in [Processes -> Txn]
      <3>1. CASE Served(job[e].date) = 0
        BY <1>2, <3>1 DEF ReadServed, TypeOK
      <3>2. CASE Served(job[e].date) # 0
        <4>1. Supported(job[e].date, Own(e)) \in Entry
          BY <2>1, <3>2, ServedTyped, DerivedTyped DEF Supported
        <4>2. txn' = [txn EXCEPT ![e].value = Supported(job[e].date, Own(e))]
          BY <1>2, <3>2 DEF ReadServed, Supported
        <4> QED
          BY <4>1, <4>2, <1>a, TypeOfTxn DEF TypeOK
      <3> QED
        BY <3>1, <3>2
    <2>3. pc' \in [Processes -> EditorSteps \cup WalkerSteps]
      BY <1>2, <1>a, TypeOfSteps DEF ReadServed, EditorSteps
    <2>4. UNCHANGED <<archive, readable, index, gone, locks, job, walk, counters, history>>
      BY <1>2 DEF ReadServed
    <2> QED
      BY <2>2, <2>3, <2>4 DEF TypeOK, archive, locks, walk, history, counters
  <1>3. ASSUME CommitDecision(e)
        PROVE  /\ approved' \in SUBSET (Dates \X Contents)
               /\ index' \in [Dates -> Entry \cup {None}]
               /\ gone' \in SUBSET Processes
               /\ rowLock' \in [Dates -> Processes \cup {None}]
               /\ txn' \in [Processes -> Txn]
               /\ stale' \in SUBSET Processes
               /\ raced' \in SUBSET Dates
               /\ touched' \in [Walkers -> SUBSET Dates]
               /\ UNCHANGED <<versions, readable, pubLock, walk, counters, unindexed>>
               /\ job[e].date \in Dates /\ job[e].root \in Contents
    <2>1. job[e].date \in Dates /\ job[e].root \in Contents
      BY <1>3, <1>a DEF CommitDecision, EditorKnows
    <2>2. approved' \in SUBSET (Dates \X Contents)
      BY <1>3, <2>1, OwnTyped DEF CommitDecision, TypeOK
    <2>3. txn' \in [Processes -> Txn]
      BY <1>3, <1>a, TypeOfTxn DEF CommitDecision, TypeOK
    <2>4. index' \in [Dates -> Entry \cup {None}] /\ gone' \in SUBSET Processes
      BY <1>3, <1>a, <2>1, TypeOfWritten DEF CommitDecision
    <2>5. rowLock' \in [Dates -> Processes \cup {None}]
      BY <1>3, <1>a, TypeOfLocks DEF CommitDecision
    <2>6. (rowLock[job[e].date] = e) \in BOOLEAN
      OBVIOUS
    <2>7. /\ stale' \in SUBSET Processes
          /\ raced' \in SUBSET Dates
          /\ touched' \in [Walkers -> SUBSET Dates]
      BY <1>3, <2>1, <2>6, TypeOfHistory DEF CommitDecision
    <2> QED
      BY <1>3, <2>1, <2>2, <2>3, <2>4, <2>5, <2>7 DEF CommitDecision
  <1>4. CASE CommitReview(e)
    <2>1. CommitDecision(e)
      BY <1>4 DEF CommitReview
    <2>2. pc' \in [Processes -> EditorSteps \cup WalkerSteps]
      BY <1>4, <1>a, TypeOfSteps DEF CommitReview, EditorSteps
    <2>3. job' \in [Editors -> Job] /\ UNCHANGED pending
      BY <1>4, TypeOfTxn DEF CommitReview, TypeOK
    <2> QED
      BY <1>3, <2>1, <2>2, <2>3 DEF TypeOK, walk, counters
  <1>5. CASE CommitPending(e)
    <2>1. CommitDecision(e)
      BY <1>5 DEF CommitPending
    <2>2. pc' \in [Processes -> EditorSteps \cup WalkerSteps]
      BY <1>5, <1>a, TypeOfSteps DEF CommitPending, EditorSteps
    <2>3. pending' \in [Dates -> Contents \cup {None}] /\ UNCHANGED job
      BY <1>5, <2>1, <1>3 DEF CommitPending, TypeOK
    <2> QED
      BY <1>3, <2>1, <2>2, <2>3 DEF TypeOK, walk, counters
  <1>6. CASE RefusePending(e)
    BY <1>6, <1>a, TypeOfFailure DEF RefusePending
  <1>7. CASE LockToComplete(e)
    <2>1. job[e].date \in Dates /\ job[e].root \in Contents
      BY <1>7, <1>a DEF LockToComplete, EditorKnows
    <2>2. Derived(job[e].date, Served(job[e].date) + 1, job[e].root, approved) \in Entry
      BY <2>1, ServedTyped, DerivedTyped
    <2>3. txn' \in [Processes -> Txn]
      BY <1>7, <1>a, <2>1, <2>2, TypeOfTxn DEF LockToComplete, TypeOK
    <2>4. pubLock' \in [Dates -> Processes \cup {None}]
      BY <1>7, <1>a, <2>1, TypeOfLocks DEF LockToComplete, TypeOK
    <2>5. pc' \in [Processes -> EditorSteps \cup WalkerSteps]
      BY <1>7, <1>a, TypeOfSteps DEF LockToComplete, EditorSteps
    <2>6. UNCHANGED <<archive, readable, index, gone, rowLock, job, walk, counters, history>>
      BY <1>7 DEF LockToComplete
    <2> QED
      BY <2>3, <2>4, <2>5, <2>6 DEF TypeOK, archive, walk, history, counters
  <1>8. CASE CommitPublished(e)
    <2>1. job[e].date \in Dates /\ job[e].root \in Contents
      BY <1>8, <1>a DEF CommitPublished, EditorKnows
    <2>2. versions' \in [Dates -> Seq(Contents)]
      <3>1. Append(versions[job[e].date], job[e].root) \in Seq(Contents)
        BY <2>1 DEF TypeOK
      <3> QED
        BY <1>8, <3>1 DEF CommitPublished, TypeOK
    <2>3. /\ pending' \in [Dates -> Contents \cup {None}]
          /\ readable' \in SUBSET Dates
          /\ unindexed' \in SUBSET Dates
      BY <1>8, <2>1 DEF CommitPublished, TypeOK
    <2>4. index' \in [Dates -> Entry \cup {None}] /\ gone' \in SUBSET Processes
      BY <1>8, <1>a, <2>1, TypeOfWritten DEF CommitPublished
    <2>5. txn' \in [Processes -> Txn] /\ job' \in [Editors -> Job]
      BY <1>8, <1>a, TypeOfTxn DEF CommitPublished, TypeOK
    <2>6. pc' \in [Processes -> EditorSteps \cup WalkerSteps]
      BY <1>8, <1>a, TypeOfSteps DEF CommitPublished, EditorSteps
    <2>7. /\ rowLock' \in [Dates -> Processes \cup {None}]
          /\ pubLock' \in [Dates -> Processes \cup {None}]
      BY <1>8, <1>a, TypeOfLocks DEF CommitPublished
    <2>8. /\ stale' \in SUBSET Processes
          /\ raced' \in SUBSET Dates
          /\ touched' \in [Walkers -> SUBSET Dates]
      BY <1>8, <2>1, TypeOfHistory DEF CommitPublished
    <2>9. UNCHANGED <<approved, walk, counters>>
      BY <1>8 DEF CommitPublished
    <2> QED
      BY <2>2, <2>3, <2>4, <2>5, <2>6, <2>7, <2>8, <2>9 DEF TypeOK, walk, counters
  <1> QED
    BY <1>1, <1>2, <1>4, <1>5, <1>6, <1>7, <1>8 DEF EditorStep

LEMMA TypeOfWalker ==
    ASSUME CoverageInv, NEW w \in Walkers, StartReconcile(w) \/ RebuildStep(w)
    PROVE  TypeOK'
  <1> USE DEF CoverageInv
  <1>a. w \in Processes /\ Knows(w) /\ WalkerKnows(w) /\ pc[w] \in WalkerSteps
    BY DEF Processes, Knows, WalkerKnows
  <1>b. ASSUME Resume(w) PROVE pc' \in [Processes -> EditorSteps \cup WalkerSteps]
    <2>1. (IF pass[w] = "first" THEN "first" ELSE "second") \in WalkerSteps
      BY DEF WalkerSteps
    <2> QED
      BY <1>a, <1>b, <2>1, TypeOfSteps DEF Resume
  <1>1. CASE StartReconcile(w)
    <2>1. pc' \in [Processes -> EditorSteps \cup WalkerSteps]
      BY <1>1, <1>a, TypeOfSteps DEF StartReconcile, WalkerSteps
    <2> QED
      BY <1>1, <2>1 DEF StartReconcile, TypeOK, archive, locks, counters, history
  <1>2. CASE StartRebuild(w)
    <2>1. pc' \in [Processes -> EditorSteps \cup WalkerSteps]
      BY <1>2, <1>a, TypeOfSteps DEF StartRebuild, WalkerSteps
    <2> QED
      BY <1>2, <2>1 DEF StartRebuild, TypeOK, archive, locks, counters, history
  <1>3. CASE TakeDate(w)
    <2>1. PICK d \in Dates :
            /\ NextDate(w, d)
            /\ pubLock' = [pubLock EXCEPT ![d] = w]
            /\ txn' = [txn EXCEPT ![w] = [NoTxn EXCEPT !.date = d, !.value = Found(d)]]
            /\ Goto(w, "seen")
            /\ UNCHANGED <<archive, readable, index, gone, rowLock, job, pass, live,
                           unreadable, counters, history>>
      BY <1>3 DEF TakeDate
    <2>2. Found(d) \in Entry \cup {None}
      <3>1. Servable(d) => Exact(d) \in Entry
        BY ServedTyped, DerivedTyped DEF Servable, Exact
      <3> QED
        BY <3>1 DEF Found
    <2>3. txn' \in [Processes -> Txn]
      BY <1>a, <2>1, <2>2, TypeOfTxn DEF TypeOK
    <2>4. pubLock' \in [Dates -> Processes \cup {None}]
      BY <1>a, <2>1, TypeOfLocks DEF TypeOK
    <2>5. pc' \in [Processes -> EditorSteps \cup WalkerSteps]
      BY <1>a, <2>1, TypeOfSteps DEF WalkerSteps
    <2>6. todo' \in [Walkers -> SUBSET Dates]
      BY <2>1 DEF NextDate, TypeOK
    <2> QED
      BY <2>1, <2>3, <2>4, <2>5, <2>6 DEF TypeOK, archive, counters, history
  <1>4. CASE SkipDate(w)
    <2>1. /\ todo' \in [Walkers -> SUBSET Dates]
          /\ unreadable' \in [Walkers -> SUBSET Dates]
      BY <1>4 DEF SkipDate, NextDate, TypeOK
    <2> QED
      BY <1>4, <2>1 DEF SkipDate, TypeOK, archive, locks, counters, history
  <1>5. CASE SettleAbsent(w)
    <2>1. /\ txn' \in [Processes -> Txn]
          /\ stale' \in SUBSET Processes
          /\ pubLock' \in [Dates -> Processes \cup {None}]
          /\ pc' \in [Processes -> EditorSteps \cup WalkerSteps]
      BY <1>5, <1>a, <1>b, TypeOfTxn, TypeOfLocks DEF SettleAbsent, TypeOK
    <2> QED
      BY <1>5, <2>1 DEF SettleAbsent, TypeOK, archive, walk, counters
  <1>6. CASE CommitEntry(w)
    <2>1. txn[w].date \in Dates
      BY <1>6, <1>a, OpenTxn DEF CommitEntry, Outside
    <2>2. index' \in [Dates -> Entry \cup {None}] /\ gone' \in SUBSET Processes
      BY <1>6, <1>a, <2>1, TypeOfWritten DEF CommitEntry
    <2>3. /\ stale' \in SUBSET Processes
          /\ raced' \in SUBSET Dates
          /\ touched' \in [Walkers -> SUBSET Dates]
      BY <1>6, <2>1, TypeOfHistory DEF CommitEntry
    <2>4. /\ txn' \in [Processes -> Txn]
          /\ rowLock' \in [Dates -> Processes \cup {None}]
          /\ pubLock' \in [Dates -> Processes \cup {None}]
          /\ pc' \in [Processes -> EditorSteps \cup WalkerSteps]
      BY <1>6, <1>a, <1>b, TypeOfTxn, TypeOfLocks DEF CommitEntry, TypeOK
    <2>5. /\ live' \in [Walkers -> SUBSET Dates]
          /\ unreadable' \in [Walkers -> SUBSET Dates]
          /\ unindexed' \in SUBSET Dates
      BY <1>6, <2>1 DEF CommitEntry, Reported, TypeOK
    <2>6. UNCHANGED <<archive, readable, job, pass, todo, counters>>
      BY <1>6 DEF CommitEntry
    <2> QED
      BY <2>2, <2>3, <2>4, <2>5, <2>6 DEF TypeOK, archive, counters
  <1>7. CASE ListStale(w)
    <2>1. /\ todo' \in [Walkers -> SUBSET Dates]
          /\ touched' \in [Walkers -> SUBSET Dates]
      BY <1>7 DEF ListStale, Unsettled, TypeOK
    <2>2. pc' \in [Processes -> EditorSteps \cup WalkerSteps]
      BY <1>7, <1>a, TypeOfSteps DEF ListStale, WalkerSteps
    <2>3. pass' \in [Walkers -> {"first", "second", "single"}]
      BY <1>7 DEF ListStale, TypeOK
    <2> QED
      BY <1>7, <2>1, <2>2, <2>3 DEF ListStale, TypeOK, archive, locks, counters
  <1>8. CASE Finish(w)
    <2>1. pc' \in [Processes -> EditorSteps \cup WalkerSteps]
      BY <1>8, <1>a, TypeOfSteps DEF Finish, WalkerSteps
    <2> QED
      BY <1>8, <2>1 DEF Finish, TypeOK, archive, locks, walk, counters, history
  <1>9. CASE Report(w)
    <2>1. pc' \in [Processes -> EditorSteps \cup WalkerSteps]
      BY <1>9, <1>a, TypeOfSteps DEF Report, WalkerSteps
    <2>2. /\ pass' \in [Walkers -> {"first", "second", "single"}]
          /\ todo' \in [Walkers -> SUBSET Dates]
          /\ live' \in [Walkers -> SUBSET Dates]
          /\ unreadable' \in [Walkers -> SUBSET Dates]
          /\ touched' \in [Walkers -> SUBSET Dates]
      BY <1>9 DEF Report, Forget, TypeOK
    <2> QED
      BY <1>9, <2>1, <2>2 DEF Report, TypeOK, archive, locks, counters
  <1> QED
    BY <1>1, <1>2, <1>3, <1>4, <1>5, <1>6, <1>7, <1>8, <1>9 DEF RebuildStep

LEMMA TypeOfStatement ==
    ASSUME CoverageInv, NEW x \in Processes, Statement(x)
    PROVE  TypeOK'
  <1> USE DEF CoverageInv
  <1>a. Knows(x) /\ TypeOK
    OBVIOUS
  <1>1. CASE LoadEntry(x)
    <2>1. txn[x].date \in Dates
      BY <1>1, <1>a, OpenTxn DEF LoadEntry, Outside
    <2>2. txn' \in [Processes -> Txn]
      BY <1>1, <2>1, TypeOfTxn DEF LoadEntry, TypeOK
    <2>3. (IF pc[x] = "seen" THEN "loaded" ELSE "indexed") \in EditorSteps \cup WalkerSteps
      BY DEF EditorSteps
    <2>4. pc' \in [Processes -> EditorSteps \cup WalkerSteps]
      BY <1>1, <2>3, TypeOfSteps DEF LoadEntry
    <2> QED
      BY <1>1, <2>2, <2>4 DEF LoadEntry, TypeOK, archive, locks, walk, counters, history
  <1>2. CASE Flush(x)
    <2>1. txn[x].date \in Dates
      BY <1>2, <1>a, OpenTxn DEF Flush, Outside
    <2>2. Row(x) \in Entry \cup {None}
      BY <1>2, <1>a, RowTyped DEF Flush
    <2>3. txn' = [txn EXCEPT ![x].write = Row(x)]
      BY <1>2 DEF Flush, Row
    <2>4. txn' \in [Processes -> Txn]
      BY <2>2, <2>3, TypeOfTxn DEF TypeOK
    <2>5. rowLock' \in [Dates -> Processes \cup {None}]
      BY <1>2, <2>1, TypeOfLocks DEF Flush, TypeOK
    <2>6. pc' \in [Processes -> EditorSteps \cup WalkerSteps]
      BY <1>2 DEF Flush, Goto, TypeOK, EditorSteps, WalkerSteps
    <2> QED
      BY <1>2, <2>4, <2>5, <2>6 DEF Flush, TypeOK, archive, walk, counters, history
  <1>3. CASE FlushFails(x) \/ BreakDeadlock(x)
    BY <1>3, TypeOfFailure DEF FlushFails, BreakDeadlock
  <1> QED
    BY <1>1, <1>2, <1>3 DEF Statement

LEMMA TypeOfDisturb ==
    ASSUME TypeOK, NEW d \in Dates, Disturb(d)
    PROVE  TypeOK'
  <1>1. faults' \in 0 .. MaxFaults
    BY CoverageAssumption DEF Disturb, TypeOK
  <1>2. touched' \in [Walkers -> SUBSET Dates]
    BY DEF Disturb, TouchedBy, TypeOK
  <1> QED
    BY <1>1, <1>2 DEF Disturb, TypeOK, archive, locks, walk

----------------------------------------------------------------------------
(* What a step of one process leaves to the others.                        *)

Others(x) ==
    \A y \in Processes \ {x} :
        /\ pc'[y] = pc[y]
        /\ txn'[y] = txn[y]
        /\ y \in Editors => job'[y] = job[y]
        /\ \A d \in Dates :
            /\ pubLock'[d] = y <=> pubLock[d] = y
            /\ rowLock'[d] = y <=> rowLock[d] = y

\* A step that commits nothing.
Quiet(x) ==
    /\ Others(x)
    /\ \A y \in Processes \ {x} :
        /\ y \in gone' <=> y \in gone
        /\ y \in stale => y \in stale'
    /\ UNCHANGED <<versions, approved, readable, index, raced, unindexed>>

\* A step after which a process has no open transaction.
Ended(x) ==
    /\ pc'[x] \in Outside \cap (IF x \in Editors THEN EditorSteps ELSE WalkerSteps)
    /\ txn'[x] = NoTxn
    /\ \A d \in Dates : pubLock'[d] # x /\ rowLock'[d] # x
    /\ x \in Editors /\ pc'[x] # "idle" => job'[x].date \in Dates /\ job'[x].root \in Contents

LEMMA EndedKnows ==
    ASSUME NEW x \in Processes, Ended(x)
    PROVE  Knows(x)' /\ Fresh(x)'
  <1>1. /\ pc'[x] \in Outside
        /\ x \in Editors => pc'[x] \in {"idle", "promoted"}
        /\ x \in Walkers => pc'[x] \in WalkerSteps
    BY NoneIsNoValue DEF Ended, Outside, EditorSteps
  <1>2. ~Locked(x)'
    BY <1>1 DEF Locked, Outside
  <1>3. Holds(x)' /\ RowThere(x)'
    BY <1>1 DEF Ended, Holds, RowThere, Outside
  <1>4. x \in Editors => EditorKnows(x)' /\ EditorFresh(x)'
    BY <1>1, <1>2 DEF Ended, EditorKnows, EditorFresh, Outside, EditorSteps
  <1>5. x \in Walkers => WalkerKnows(x)' /\ WalkerFresh(x)'
    BY <1>1, <1>2 DEF Ended, WalkerKnows, WalkerFresh, Outside
  <1> QED
    BY <1>1, <1>3, <1>4, <1>5 DEF Ended, Knows, Fresh, Outside

LEMMA LockedHolds ==
    ASSUME TypeOK, NEW x \in Processes, Knows(x), Locked(x)
    PROVE  /\ pc[x] \notin Outside
           /\ txn[x].date \in Dates
           /\ pubLock[txn[x].date] = x
  <1>1. pc[x] \notin Outside
    BY DEF Locked, Outside
  <1> QED
    BY <1>1, OpenTxn DEF Knows, EditorKnows, WalkerKnows, Processes

LEMMA QuietOthers ==
    ASSUME CoverageInv, NEW x \in Processes, Quiet(x), NEW y \in Processes \ {x}
    PROVE  Knows(y)' /\ (y \notin stale' => Fresh(y)')
  <1> USE DEF CoverageInv
  <1>1. /\ pc'[y] = pc[y] /\ txn'[y] = txn[y]
        /\ y \in Editors => job'[y] = job[y]
        /\ y \in gone' <=> y \in gone
        /\ UNCHANGED <<versions, approved, readable, index>>
    BY DEF Quiet, Others
  <1>2. \A d \in Dates :
            /\ pubLock'[d] = y <=> pubLock[d] = y
            /\ rowLock'[d] = y <=> rowLock[d] = y
    BY DEF Quiet, Others
  <1>3. Knows(y)
    OBVIOUS
  <1>4. Locked(y)' <=> Locked(y)
    BY <1>1 DEF Locked
  <1>5. Holds(y)' /\ RowThere(y)'
    BY <1>1, <1>2, <1>3, <1>4 DEF Knows, Holds, RowThere
  <1>6. y \in Editors => EditorKnows(y)'
    BY <1>1, <1>2, <1>3, <1>4 DEF Knows, EditorKnows, Served, Locked
  <1>7. y \in Walkers => WalkerKnows(y)'
    <2> SUFFICES ASSUME y \in Walkers PROVE WalkerKnows(y)'
      OBVIOUS
    <2>1. \A d \in Dates : Servable(d)' <=> Servable(d)
      BY <1>1 DEF Servable, Served
    <2>2. pc[y] = "flushed" => Locked(y)
      BY <1>3, Steps DEF Locked
    <2> QED
      BY <1>1, <1>2, <1>3, <1>4, <2>1, <2>2 DEF Knows, WalkerKnows
  <1>8. Knows(y)'
    BY <1>1, <1>3, <1>5, <1>6, <1>7 DEF Knows
  <1>9. y \notin stale' => Fresh(y)'
    <2> SUFFICES ASSUME y \notin stale' PROVE Fresh(y)'
      OBVIOUS
    <2>1. Fresh(y)
      BY DEF Quiet
    <2>2. y \in Editors => EditorFresh(y)'
      <3> SUFFICES ASSUME y \in Editors PROVE EditorFresh(y)'
        OBVIOUS
      <3>1. Own(y)' = Own(y)
        BY <1>1 DEF Own
      <3>2. \A d : Supported(d, Own(y))' = Supported(d, Own(y)) /\ Served(d)' = Served(d)
        BY <1>1, <3>1 DEF Supported, Served, Derived, Review
      <3>3. pc[y] = "refreshed" => (rowLock'[job[y].date] = y <=> rowLock[job[y].date] = y)
        BY <1>2, <1>3 DEF Knows, EditorKnows
      <3> QED
        BY <1>1, <1>4, <2>1, <3>1, <3>2, <3>3 DEF Fresh, EditorFresh
    <2>3. y \in Walkers => WalkerFresh(y)'
      BY <1>1, <1>4, <2>1 DEF Fresh, WalkerFresh, Supported, Served
    <2> QED
      BY <1>1, <2>1, <2>2, <2>3 DEF Fresh
  <1> QED
    BY <1>8, <1>9

\* A step that commits nothing keeps the invariant if it keeps what its own
\* process knows.
LEMMA QuietKeeps ==
    ASSUME CoverageInv, TypeOK', NEW x \in Processes, Quiet(x),
           Knows(x)', x \notin stale' => Fresh(x)'
    PROVE  CoverageInv'
  <1> USE DEF CoverageInv
  <1>1. \A y \in Processes : Knows(y)' /\ (y \notin stale' => Fresh(y)')
    BY QuietOthers
  <1>2. Indexed' /\ IndexExact' /\ ServedIsIndexed'
    BY DEF Quiet, Indexed, IndexExact, ServedIsIndexed, Served, Exact
  <1> QED
    BY <1>1, <1>2

----------------------------------------------------------------------------
(* What a commit on one date leaves to the others.                         *)

Commits(x, d) ==
    /\ Others(x)
    /\ d \in Dates
    /\ txn[x].date = d
    /\ pc[x] \in {"refreshed", "completing", "flushed"}
    /\ Written(x, d)
    /\ stale' = (stale \ {x}) \cup Overtaken(x, d)
    /\ \A other \in Dates \ {d} :
        /\ versions'[other] = versions[other]
        /\ other \in readable' <=> other \in readable
        /\ other \in unindexed' <=> other \in unindexed
        /\ other \in raced' <=> other \in raced
        /\ \A c : <<other, c>> \in approved' <=> <<other, c>> \in approved
    /\ Locked(x) => UNCHANGED approved /\ (Served(d) # 0 => Served(d)' # 0)
    /\ ~Locked(x) => UNCHANGED <<versions, readable>>

\* On its own date a commit leaves no other process that is not overtaken.
LEMMA OthersAreOvertaken ==
    ASSUME CoverageInv, NEW x \in Processes, NEW d, Commits(x, d),
           NEW y \in Processes \ {x}, txn[y].date = d, pc[y] \notin Outside
    PROVE  y \in stale'
  <1>1. Knows(x) /\ Knows(y) /\ TypeOK
    BY DEF CoverageInv
  <1>2. SUFFICES ASSUME ~Unlocked(x), ~Unlocked(y) PROVE FALSE
    BY DEF Commits, Overtaken
  <1>3. Locked(y)
    <2>1. y \in Editors => pc[y] \in EditorSteps
      BY <1>1, Steps
    <2>2. y \in Editors => Locked(y)
      BY <1>2, <2>1 DEF Unlocked, Locked, Outside, EditorSteps
    <2> QED
      BY <1>1, <2>2, OpenTxn DEF Processes
  <1>4. Locked(x)
    <2>1. pc[x] \notin Outside
      BY DEF Commits, Outside
    <2>2. x \in Editors => Locked(x)
      BY <1>1, <1>2, Steps DEF Commits, Unlocked, Locked, EditorSteps
    <2> QED
      BY <1>1, <2>1, <2>2, OpenTxn DEF Processes
  <1> QED
    BY <1>1, <1>3, <1>4, LockedHolds DEF Commits

LEMMA CommitOthersKnow ==
    ASSUME CoverageInv, NEW x \in Processes, NEW d, Commits(x, d), NEW y \in Processes \ {x}
    PROVE  Knows(y)'
  <1> USE DEF CoverageInv
  <1>1. /\ pc'[y] = pc[y] /\ txn'[y] = txn[y]
        /\ y \in Editors => job'[y] = job[y]
    BY DEF Commits, Others
  <1>2. \A other \in Dates :
            /\ pubLock'[other] = y <=> pubLock[other] = y
            /\ rowLock'[other] = y <=> rowLock[other] = y
    BY DEF Commits, Others
  <1>3. Knows(y) /\ Knows(x) /\ TypeOK
    OBVIOUS
  <1>4. Locked(y)' <=> Locked(y)
    BY <1>1 DEF Locked
  <1>5. Holds(y)'
    BY <1>1, <1>2, <1>3, <1>4 DEF Knows, Holds
  <1>6. RowThere(y)'
    <2> SUFFICES ASSUME pc[y] \in {"loaded", "indexed"}, txn[y].loaded # None, y \notin gone'
                 PROVE  index'[txn[y].date] # None
      BY <1>1 DEF RowThere
    <2>1. txn[y].date \in Dates
      BY <1>3, OpenTxn DEF Outside
    <2>2. y \notin gone
      BY DEF Commits, Written
    <2>3. index[txn[y].date] # None
      BY <1>3, <2>2 DEF Knows, RowThere
    <2>4. CASE rowLock[d] = x
      <3>1. index' = [index EXCEPT ![d] = txn[x].write]
        BY <2>4 DEF Commits, Written
      <3>2. txn[x].write = None => txn[y].date # d
        BY <2>4 DEF Commits, Written
      <3> QED
        BY <2>1, <2>3, <3>1, <3>2 DEF TypeOK, Commits
    <2>5. CASE rowLock[d] # x
      BY <2>3, <2>5 DEF Commits, Written
    <2> QED
      BY <2>4, <2>5
  <1>7. \A other \in Dates : Len(versions[other]) # 0 => Len(versions'[other]) # 0
    BY DEF Commits, Served
  <1>8. y \in Editors => EditorKnows(y)'
    <2> SUFFICES ASSUME y \in Editors PROVE EditorKnows(y)'
      OBVIOUS
    <2>1. EditorKnows(y)
      BY <1>3 DEF Knows
    <2>2. pc[y] # "idle" =>
            /\ pubLock'[job[y].date] = y <=> pubLock[job[y].date] = y
            /\ rowLock'[job[y].date] = y <=> rowLock[job[y].date] = y
            /\ Served(job[y].date) # 0 => Served(job[y].date)' # 0
      BY <1>1, <1>2, <1>7, <2>1 DEF EditorKnows, Served
    <2>3. pc[y] = "idle" => ~Locked(y)
      BY DEF Locked
    <2> QED
      BY <1>1, <1>4, <2>1, <2>2, <2>3 DEF EditorKnows
  <1>9. y \in Walkers => WalkerKnows(y)'
    <2> SUFFICES ASSUME y \in Walkers PROVE WalkerKnows(y)'
      OBVIOUS
    <2>1. pc[y] = "flushed" => Locked(y)
      BY <1>3, Steps DEF Locked
    <2>2. Locked(y) => (Servable(txn[y].date)' <=> Servable(txn[y].date))
      <3> SUFFICES ASSUME Locked(y) PROVE Servable(txn[y].date)' <=> Servable(txn[y].date)
        OBVIOUS
      <3>1. txn[y].date \in Dates /\ pubLock[txn[y].date] = y
        BY <1>3, LockedHolds
      <3>2. txn[y].date = d => ~Locked(x)
        BY <1>3, <3>1, LockedHolds DEF Commits
      <3>3. /\ versions'[txn[y].date] = versions[txn[y].date]
            /\ txn[y].date \in readable' <=> txn[y].date \in readable
        BY <3>1, <3>2 DEF Commits
      <3> QED
        BY <1>1, <3>3 DEF Servable, Served
    <2> QED
      BY <1>1, <1>2, <1>3, <1>4, <2>1, <2>2 DEF Knows, WalkerKnows
  <1> QED
    BY <1>1, <1>3, <1>5, <1>6, <1>8, <1>9 DEF Knows

LEMMA CommitOthersFresh ==
    ASSUME CoverageInv, NEW x \in Processes, NEW d, Commits(x, d),
           NEW y \in Processes \ {x}, y \notin stale'
    PROVE  Fresh(y)'
  <1> USE DEF CoverageInv
  <1>1. /\ pc'[y] = pc[y] /\ txn'[y] = txn[y]
        /\ y \in Editors => job'[y] = job[y]
    BY DEF Commits, Others
  <1>2. Knows(y) /\ Fresh(y) /\ TypeOK
    BY DEF Commits
  <1>3. Locked(y)' <=> Locked(y)
    BY <1>1 DEF Locked
  <1>4. CASE pc[y] \in Outside
    <2>1. ~Locked(y)
      BY <1>4 DEF Locked, Outside
    <2> QED
      BY <1>1, <1>3, <1>4, <2>1 DEF Fresh, EditorFresh, WalkerFresh, Outside
  <1>5. CASE pc[y] \notin Outside
    <2>1. /\ txn[y].date \in Dates /\ txn[y].date # d
          /\ y \in Editors => job[y].date = txn[y].date
      BY <1>2, <1>5, OthersAreOvertaken, OpenTxn
    <2>2. /\ versions'[txn[y].date] = versions[txn[y].date]
          /\ \A c : <<txn[y].date, c>> \in approved' <=> <<txn[y].date, c>> \in approved
      BY <2>1 DEF Commits
    <2>3. index'[txn[y].date] = index[txn[y].date]
      BY <2>1 DEF Commits, Written, TypeOK
    <2>4. y \in Editors => EditorFresh(y)'
      <3> SUFFICES ASSUME y \in Editors PROVE EditorFresh(y)'
        OBVIOUS
      <3>1. Own(y)' = Own(y)
        BY <1>1 DEF Own
      <3>2. /\ versions'[job[y].date] = versions[job[y].date]
            /\ \A c : <<job[y].date, c>> \in approved' <=> <<job[y].date, c>> \in approved
        BY <2>1, <2>2
      <3>3. Served(job[y].date)' = Served(job[y].date)
        BY <1>1, <3>2 DEF Served
      <3>4. Supported(job[y].date, Own(y))' = Supported(job[y].date, Own(y))
        BY <1>1, <3>1, <3>2, <3>3 DEF Supported, Derived, Review, Served
      <3>5. rowLock'[job[y].date] = y <=> rowLock[job[y].date] = y
        BY <2>1 DEF Commits, Others
      <3>6. Derived(job[y].date, Served(job[y].date) + 1, job[y].root, approved)'
            = Derived(job[y].date, Served(job[y].date) + 1, job[y].root, approved)
        BY <1>1, <3>2, <3>3 DEF Derived, Review, Served
      <3> QED
        BY <1>1, <1>2, <1>3, <2>1, <3>3, <3>4, <3>5, <3>6 DEF Fresh, EditorFresh
    <2>5. y \in Walkers => WalkerFresh(y)'
      <3> SUFFICES ASSUME y \in Walkers PROVE WalkerFresh(y)'
        OBVIOUS
      <3>1. Supported(txn[y].date, {})' = Supported(txn[y].date, {})
        BY <1>1, <2>2 DEF Supported, Derived, Review, Served
      <3> QED
        BY <1>1, <1>2, <1>3, <3>1 DEF Fresh, WalkerFresh
    <2> QED
      BY <1>1, <1>2, <2>3, <2>4, <2>5 DEF Fresh
  <1> QED
    BY <1>4, <1>5

----------------------------------------------------------------------------
(* The steps that commit nothing.                                          *)

LEMMA FailureKeeps ==
    ASSUME CoverageInv, NEW x \in Processes, Fails(x)
    PROVE  CoverageInv'
  <1> USE DEF CoverageInv
  <1>1. TypeOK /\ TypeOK' /\ Knows(x)
    BY TypeOfFailure
  <1>2. pc' = [pc EXCEPT ![x] = IF pc[x] = "indexed" THEN "promoted" ELSE "idle"]
    BY DEF Fails, Goto
  <1>3. pc[x] = "indexed" => x \in Editors
    BY <1>1, Steps DEF WalkerSteps
  <1>4. Quiet(x)
    <2>1. Others(x)
      BY <1>1, <1>2, <1>3, NoneIsNoValue
         DEF Fails, RolledBack, Release, Unlock, Others, TypeOK, Processes
    <2> QED
      BY <2>1 DEF Fails, RolledBack, Quiet, archive
  <1>5. Ended(x)
    <2>1. pc'[x] = IF pc[x] = "indexed" THEN "promoted" ELSE "idle"
      BY <1>1, <1>2 DEF TypeOK
    <2>2. txn'[x] = NoTxn
      BY <1>1 DEF Fails, RolledBack, TypeOK
    <2>3. \A d \in Dates : pubLock'[d] # x /\ rowLock'[d] # x
      BY NoneIsNoValue DEF Fails, RolledBack, Release, Unlock
    <2>4. x \in Editors /\ pc'[x] # "idle" => job'[x].date \in Dates /\ job'[x].root \in Contents
      BY <1>1, <2>1 DEF Fails, Knows, EditorKnows
    <2> QED
      BY <1>3, <2>1, <2>2, <2>3, <2>4 DEF Ended, Outside, EditorSteps, WalkerSteps
  <1> QED
    BY <1>1, <1>4, <1>5, EndedKnows, QuietKeeps

\* A process outside a transaction, or with nothing flushed, has no row; one
\* without the publication lock has none.
LEMMA NoLocks ==
    ASSUME NEW x \in Processes, Knows(x), NEW d \in Dates
    PROVE  /\ pc[x] \notin {"refreshed", "completing", "flushed"} => rowLock[d] # x
           /\ ~Locked(x) => pubLock[d] # x
  BY DEF Knows, Holds

LEMMA BeginEditKeeps ==
    ASSUME CoverageInv, NEW e \in Editors, BeginEdit(e)
    PROVE  CoverageInv'
  <1> USE DEF CoverageInv
  <1>1. e \in Processes /\ TypeOK /\ TypeOK' /\ Knows(e) /\ e \notin Walkers
    BY TypeOfEditor, NoneIsNoValue DEF Processes
  <1>2. PICK d \in Dates, c \in Contents, publishes \in BOOLEAN :
            /\ job' = [job EXCEPT ![e] = [date |-> d, root |-> c, publishes |-> publishes]]
            /\ txn' = [txn EXCEPT ![e].date = d]
            /\ \/ Goto(e, "decided")
               \/ publishes /\ Goto(e, "refreshed")
    BY DEF BeginEdit
  <1>3. /\ UNCHANGED <<archive, readable, index, gone, locks, history>>
        /\ pc[e] = "idle"
    BY DEF BeginEdit
  <1>4. Quiet(e)
    BY <1>1, <1>2, <1>3 DEF Quiet, Others, TypeOK, Goto, archive, locks, history, Processes
  <1>5. /\ pc'[e] = "decided" \/ (publishes /\ pc'[e] = "refreshed")
        /\ job'[e] = [date |-> d, root |-> c, publishes |-> publishes]
        /\ txn'[e].date = d /\ txn'[e].loaded = None
    <2>1. txn[e] = NoTxn
      BY <1>1, <1>3 DEF Knows, Outside
    <2>2. txn'[e] = [NoTxn EXCEPT !.date = d]
      BY <1>1, <1>2, <2>1 DEF TypeOK
    <2>3. txn'[e].date = d /\ txn'[e].loaded = None
      BY <2>2 DEF NoTxn
    <2>4. job'[e] = [date |-> d, root |-> c, publishes |-> publishes]
      BY <1>2 DEF TypeOK
    <2>5. \A step : Goto(e, step) => pc'[e] = step
      BY <1>1 DEF TypeOK, Goto
    <2>6. pc'[e] = "decided" \/ (publishes /\ pc'[e] = "refreshed")
      BY <1>2, <2>5
    <2> QED
      BY <2>3, <2>4, <2>6
  <1>6. \A other \in Dates : pubLock'[other] # e /\ rowLock'[other] # e
    BY <1>1, <1>3, NoLocks DEF Locked, locks
  <1>7. ~Locked(e)'
    BY <1>5 DEF Locked
  <1>8. Knows(e)'
    BY <1>1, <1>5, <1>6, <1>7 DEF Knows, Holds, RowThere, EditorKnows, EditorSteps, Outside
  <1>9. Fresh(e)'
    BY <1>1, <1>5, <1>6, <1>7 DEF Fresh, EditorFresh
  <1> QED
    BY <1>1, <1>4, <1>8, <1>9, QuietKeeps

LEMMA ReadServedKeeps ==
    ASSUME CoverageInv, NEW e \in Editors, ReadServed(e)
    PROVE  CoverageInv'
  <1> USE DEF CoverageInv
  <1>1. e \in Processes /\ TypeOK /\ TypeOK' /\ Knows(e) /\ EditorKnows(e) /\ e \notin Walkers
    BY TypeOfEditor, NoneIsNoValue DEF Processes, EditorStep, Knows
  <1>2. /\ UNCHANGED <<archive, readable, index, gone, locks, job, history>>
        /\ pc[e] = "decided"
    BY DEF ReadServed
  <1>3. Quiet(e)
    BY <1>1, <1>2 DEF ReadServed, Quiet, Others, TypeOK, Goto, archive, locks, history, Processes
  <1>4. \A other \in Dates : pubLock'[other] # e /\ rowLock'[other] # e
    BY <1>1, <1>2, NoLocks DEF Locked, locks
  <1>5. job[e].date \in Dates /\ job[e].root \in Contents /\ txn[e].date = job[e].date
    BY <1>1, <1>2 DEF EditorKnows, Outside
  <1>6. CASE Served(job[e].date) = 0
    <2>1. pc'[e] = "refreshed" /\ txn' = txn
      BY <1>1, <1>6 DEF ReadServed, Goto, TypeOK
    <2>2. ~Locked(e)'
      BY <2>1 DEF Locked
    <2>3. Knows(e)'
      BY <1>1, <1>2, <1>4, <1>5, <2>1, <2>2
         DEF Knows, Holds, RowThere, EditorKnows, EditorSteps, Outside
    <2>4. Served(job[e].date)' = 0
      BY <1>2, <1>6 DEF Served, archive
    <2>5. Fresh(e)'
      BY <1>1, <1>2, <1>4, <1>5, <2>1, <2>2, <2>4 DEF Fresh, EditorFresh
    <2> QED
      BY <1>1, <1>3, <2>3, <2>5, QuietKeeps
  <1>7. CASE Served(job[e].date) # 0
    <2>1. /\ pc'[e] = "seen"
          /\ txn' = [txn EXCEPT ![e].value = Supported(job[e].date, Own(e))]
      BY <1>1, <1>7 DEF ReadServed, Goto, TypeOK, Supported
    <2>2. txn'[e].value = Supported(job[e].date, Own(e)) /\ txn'[e].date = txn[e].date
      BY <1>1, <2>1 DEF TypeOK, Txn
    <2>3. Supported(job[e].date, Own(e)) # None
      BY <1>1, <1>5, <1>7, ServedTyped, DerivedTyped DEF Supported
    <2>4. ~Locked(e)'
      BY <1>1, <2>1 DEF Locked
    <2>5. Supported(job[e].date, Own(e))' = Supported(job[e].date, Own(e))
      BY <1>2 DEF Supported, Derived, Review, Served, Own, archive
    <2>6. Served(job[e].date)' # 0
      BY <1>2, <1>7 DEF Served, archive
    <2>7. Knows(e)'
      BY <1>1, <1>2, <1>4, <1>5, <2>1, <2>2, <2>3, <2>4, <2>6
         DEF Knows, Holds, RowThere, EditorKnows, EditorSteps, Outside
    <2>8. Fresh(e)'
      BY <1>1, <1>2, <2>1, <2>2, <2>4, <2>5 DEF Fresh, EditorFresh
    <2> QED
      BY <1>1, <1>3, <2>7, <2>8, QuietKeeps
  <1> QED
    BY <1>6, <1>7

LEMMA LockToCompleteKeeps ==
    ASSUME CoverageInv, NEW e \in Editors, LockToComplete(e)
    PROVE  CoverageInv'
  <1> USE DEF CoverageInv
  <1>1. e \in Processes /\ TypeOK /\ TypeOK' /\ Knows(e) /\ EditorKnows(e) /\ e \notin Walkers
    BY TypeOfEditor, NoneIsNoValue DEF Processes, EditorStep, Knows
  <1> DEFINE d == job[e].date
             value == Derived(d, Served(d) + 1, job[e].root, approved)
  <1>2. /\ UNCHANGED <<archive, readable, index, gone, rowLock, job, history>>
        /\ pc[e] = "promoted" /\ pubLock[d] = None
        /\ pubLock' = [pubLock EXCEPT ![d] = e]
        /\ txn' = [txn EXCEPT ![e] = [NoTxn EXCEPT !.date = d, !.value = value]]
        /\ pc' = [pc EXCEPT ![e] = "found"]
    BY DEF LockToComplete, AtLock, Goto
  <1>3. d \in Dates /\ job[e].root \in Contents
    BY <1>1, <1>2 DEF EditorKnows
  <1>4. value \in Entry /\ value # None
    BY <1>1, <1>3, ServedTyped, DerivedTyped
  <1>5. value' = value
    BY <1>2 DEF Derived, Review, Served, archive
  <1>6. \A other \in Dates : rowLock'[other] # e /\ (pubLock'[other] = e => other = d)
    BY <1>1, <1>2, <1>3, NoLocks DEF Locked, TypeOK
  <1>7. /\ txn'[e].date = d /\ txn'[e].value = value
        /\ pc'[e] = "found" /\ job' = job /\ pubLock'[d] = e
    BY <1>1, <1>2, <1>3 DEF TypeOK, NoTxn
  <1>8. Quiet(e)
    BY <1>1, <1>2, <1>3, NoneIsNoValue DEF Quiet, Others, TypeOK, archive, history, Processes
  <1> HIDE DEF value
  <1>9. Knows(e)'
    BY <1>1, <1>3, <1>4, <1>6, <1>7
       DEF Knows, Holds, RowThere, EditorKnows, EditorSteps, Outside, Locked
  <1>10. Fresh(e)'
    BY <1>1, <1>5, <1>7 DEF Fresh, EditorFresh, Locked, value
  <1> QED
    BY <1>1, <1>8, <1>9, <1>10, QuietKeeps

LEMMA LoadEntryKeeps ==
    ASSUME CoverageInv, NEW x \in Processes, LoadEntry(x)
    PROVE  CoverageInv'
  <1> USE DEF CoverageInv
  <1>1. TypeOK /\ TypeOK' /\ Knows(x)
    BY TypeOfStatement DEF Statement
  <1> DEFINE next == IF pc[x] = "seen" THEN "loaded" ELSE "indexed"
  <1>2. /\ UNCHANGED <<archive, readable, index, locks, job, history>>
        /\ pc[x] \in {"seen", "found"}
        /\ txn' = [txn EXCEPT ![x].loaded = index[txn[x].date]]
        /\ pc' = [pc EXCEPT ![x] = next]
        /\ gone' = gone \ {x}
    BY DEF LoadEntry, Goto
  <1>3. /\ txn[x].date \in Dates
        /\ x \in Editors => txn[x].date = job[x].date /\ job[x].root \in Contents
        /\ x \in Walkers => Locked(x) /\ pc[x] = "seen"
    BY <1>1, <1>2, OpenTxn, Steps DEF Outside, WalkerSteps
  <1>4. /\ pc'[x] = next
        /\ txn'[x].loaded = index[txn[x].date]
        /\ txn'[x].date = txn[x].date
        /\ txn'[x].value = txn[x].value
    BY <1>1, <1>2 DEF TypeOK, Txn
  <1>5. Locked(x)' <=> Locked(x)
    BY <1>1, <1>2, <1>4, Steps DEF Locked, EditorSteps
  <1>6. Quiet(x)
    BY <1>1, <1>2 DEF Quiet, Others, TypeOK, archive, locks, history, Processes
  <1>7. \A d \in Dates : rowLock'[d] # x /\ (pubLock'[d] = x <=> pubLock[d] = x)
    BY <1>1, <1>2, NoLocks DEF locks
  <1>8. Knows(x)'
    <2>1. Holds(x)'
      BY <1>1, <1>4, <1>5, <1>7 DEF Knows, Holds
    <2>2. RowThere(x)'
      BY <1>2, <1>4 DEF RowThere
    <2>3. x \in Editors => EditorKnows(x)'
      BY <1>1, <1>2, <1>3, <1>4, <1>5, <1>7
         DEF Knows, EditorKnows, EditorSteps, Outside, Served, archive
    <2>4. x \in Walkers => WalkerKnows(x)'
      <3>1. Servable(txn[x].date)' <=> Servable(txn[x].date)
        BY <1>2, <1>4 DEF Servable, Served, archive
      <3> QED
        BY <1>1, <1>2, <1>3, <1>4, <1>5, <1>7, <3>1 DEF Knows, WalkerKnows, WalkerSteps
    <2> QED
      BY <1>2, <1>4, <2>1, <2>2, <2>3, <2>4 DEF Knows, Outside
  <1>9. x \notin stale' => Fresh(x)'
    <2> SUFFICES ASSUME x \notin stale' PROVE Fresh(x)'
      OBVIOUS
    <2>1. Fresh(x)
      BY <1>2 DEF history
    <2>2. x \in Editors => EditorFresh(x)'
      <3>1. Supported(job[x].date, Own(x))' = Supported(job[x].date, Own(x))
        BY <1>2 DEF Supported, Derived, Review, Served, Own, archive
      <3>2. Derived(job[x].date, Served(job[x].date) + 1, job[x].root, approved)'
            = Derived(job[x].date, Served(job[x].date) + 1, job[x].root, approved)
        BY <1>2 DEF Derived, Review, Served, archive
      <3>3. pc'[x] \in {"loaded", "indexed"} /\ (pc'[x] = "loaded" => pc[x] = "seen")
        BY <1>4
      <3> QED
        BY <1>2, <1>4, <1>5, <2>1, <3>1, <3>2, <3>3 DEF Fresh, EditorFresh
    <2>3. x \in Walkers => WalkerFresh(x)'
      <3>1. Supported(txn[x].date, {})' = Supported(txn[x].date, {})
        BY <1>2, <1>4 DEF Supported, Derived, Review, Served, archive
      <3> QED
        BY <1>4, <1>5, <2>1, <3>1 DEF Fresh, WalkerFresh
    <2>4. txn'[x].loaded = index'[txn'[x].date]
      BY <1>2, <1>4
    <2> QED
      BY <2>2, <2>3, <2>4 DEF Fresh
  <1> QED
    BY <1>1, <1>6, <1>8, <1>9, QuietKeeps

LEMMA FlushKeeps ==
    ASSUME CoverageInv, NEW x \in Processes, Flush(x)
    PROVE  CoverageInv'
  <1> USE DEF CoverageInv
  <1>1. TypeOK /\ TypeOK' /\ Knows(x)
    BY TypeOfStatement DEF Statement
  <1> DEFINE d == txn[x].date
             next == CASE pc[x] = "indexed" -> "completing"
                       [] x \in Editors /\ pc[x] = "loaded" -> "refreshed"
                       [] OTHER -> "flushed"
  <1>2. /\ UNCHANGED <<archive, readable, index, gone, pubLock, job, history>>
        /\ pc[x] \in {"loaded", "indexed"}
        /\ rowLock[d] = None
        /\ ~Conflicts(x)
        /\ rowLock' = [rowLock EXCEPT ![d] = x]
        /\ txn' = [txn EXCEPT ![x].write = Row(x)]
        /\ pc' = [pc EXCEPT ![x] = next]
    BY DEF Flush, Goto, Row
  <1>3. /\ d \in Dates
        /\ x \in Editors => d = job[x].date /\ job[x].root \in Contents
        /\ x \in Walkers => Locked(x) /\ pc[x] = "loaded" /\ x \notin Editors
    BY <1>1, <1>2, OpenTxn, Steps DEF Outside, WalkerSteps
  <1>4. /\ pc'[x] = next
        /\ txn'[x].date = d
        /\ txn'[x].value = txn[x].value
        /\ txn'[x].write = Row(x)
        /\ rowLock'[d] = x
    BY <1>1, <1>2, <1>3 DEF TypeOK, Txn
  <1>5. /\ x \in Editors => next = IF pc[x] = "indexed" THEN "completing" ELSE "refreshed"
        /\ x \in Walkers => next = "flushed"
    BY <1>2, <1>3
  <1>6. Locked(x)' <=> Locked(x)
    BY <1>2, <1>3, <1>4, <1>5 DEF Locked, Processes
  <1>7. /\ Row(x) = None <=> txn[x].value = None
        /\ txn[x].loaded = index[d] => Row(x) = txn[x].value
    BY <1>1, <1>2, RowTyped
  <1>8. Quiet(x)
    BY <1>1, <1>2, <1>3, NoneIsNoValue
       DEF Quiet, Others, TypeOK, archive, history, Processes
  <1>9. \A other \in Dates :
            /\ rowLock'[other] = x <=> other = d
            /\ pubLock'[other] = x <=> pubLock[other] = x
    BY <1>1, <1>2, <1>3, NoLocks DEF TypeOK
  <1> HIDE DEF next
  <1>10. Knows(x)'
    <2>1. Holds(x)'
      BY <1>1, <1>3, <1>4, <1>5, <1>6, <1>9 DEF Knows, Holds, Processes
    <2>2. pc'[x] \in {"refreshed", "completing", "flushed"}
      BY <1>4, <1>5 DEF Processes
    <2>3. RowThere(x)'
      BY <2>2 DEF RowThere
    <2>4. x \in Editors => EditorKnows(x)'
      BY <1>1, <1>2, <1>3, <1>4, <1>5, <1>6, <1>7, <1>9
         DEF Knows, EditorKnows, EditorSteps, Outside, Served, archive, Locked
    <2>5. x \in Walkers => WalkerKnows(x)'
      <3>1. Servable(txn[x].date)' <=> Servable(txn[x].date)
        BY <1>2, <1>4 DEF Servable, Served, archive
      <3> QED
        BY <1>1, <1>2, <1>3, <1>4, <1>5, <1>6, <1>7, <1>9, <3>1 DEF Knows, WalkerKnows, WalkerSteps
    <2> QED
      BY <2>1, <2>2, <2>3, <2>4, <2>5 DEF Knows, Outside
  <1>11. x \notin stale' => Fresh(x)'
    <2> SUFFICES ASSUME x \notin stale' PROVE Fresh(x)'
      OBVIOUS
    <2>1. Fresh(x) /\ Row(x) = txn[x].value
      BY <1>2, <1>7 DEF history, Fresh
    <2>2. x \in Editors => EditorFresh(x)'
      <3>1. Supported(job[x].date, Own(x))' = Supported(job[x].date, Own(x))
        BY <1>2 DEF Supported, Derived, Review, Served, Own, archive
      <3>2. Derived(job[x].date, Served(job[x].date) + 1, job[x].root, approved)'
            = Derived(job[x].date, Served(job[x].date) + 1, job[x].root, approved)
        BY <1>2 DEF Derived, Review, Served, archive
      <3> QED
        BY <1>2, <1>3, <1>4, <1>5, <1>6, <2>1, <3>1, <3>2 DEF Fresh, EditorFresh
    <2>3. x \in Walkers => WalkerFresh(x)'
      <3>1. Supported(txn[x].date, {})' = Supported(txn[x].date, {})
        BY <1>2, <1>4 DEF Supported, Derived, Review, Served, archive
      <3> QED
        BY <1>4, <1>5, <1>6, <2>1, <3>1 DEF Fresh, WalkerFresh
    <2>4. pc'[x] \notin {"loaded", "indexed"}
      BY <1>4, <1>5 DEF Processes
    <2> QED
      BY <2>2, <2>3, <2>4 DEF Fresh
  <1> QED
    BY <1>1, <1>8, <1>10, <1>11, QuietKeeps

----------------------------------------------------------------------------
(* Walkers between two dates, and the disk.                                *)

LEMMA TakeDateKeeps ==
    ASSUME CoverageInv, NEW w \in Walkers, TakeDate(w)
    PROVE  CoverageInv'
  <1> USE DEF CoverageInv
  <1>1. w \in Processes /\ TypeOK /\ TypeOK' /\ Knows(w) /\ w \notin Editors
    BY TypeOfWalker, NoneIsNoValue DEF Processes, RebuildStep
  <1>2. PICK d \in Dates :
            /\ NextDate(w, d)
            /\ pubLock' = [pubLock EXCEPT ![d] = w]
            /\ txn' = [txn EXCEPT ![w] = [NoTxn EXCEPT !.date = d, !.value = Found(d)]]
            /\ Goto(w, "seen")
            /\ UNCHANGED <<archive, readable, index, gone, rowLock, job, history>>
    BY DEF TakeDate
  <1>3. pc[w] \in {"first", "second"} /\ pubLock[d] = None
    BY <1>2 DEF NextDate
  <1>4. /\ pc'[w] = "seen"
        /\ txn'[w].date = d /\ txn'[w].value = Found(d) /\ pubLock'[d] = w
    BY <1>1, <1>2 DEF Goto, TypeOK, NoTxn
  <1>5. Quiet(w)
    BY <1>1, <1>2, <1>3, NoneIsNoValue
       DEF Quiet, Others, Goto, TypeOK, archive, history, Processes
  <1>6. \A other \in Dates : rowLock'[other] # w /\ (pubLock'[other] = w => other = d)
    BY <1>1, <1>2, <1>3, NoLocks DEF Locked, TypeOK
  <1>7. /\ Servable(d)' <=> Servable(d)
        /\ Supported(d, {})' = Supported(d, {})
    BY <1>2 DEF Servable, Supported, Derived, Review, Served, archive
  <1>8. /\ Found(d) = None <=> ~Servable(d)
        /\ Found(d) # None => Found(d) = Supported(d, {})
    <2>1. Servable(d) => Exact(d) # None
      BY <1>1, ServedTyped, DerivedTyped DEF Servable, Exact
    <2> QED
      BY <2>1, ExactIsSupported DEF Found
  <1>9. Locked(w)'
    BY <1>1, <1>4 DEF Locked
  <1>10. Knows(w)'
    <2>1. Holds(w)'
      BY <1>4, <1>6, <1>9 DEF Holds
    <2>2. RowThere(w)'
      BY <1>4 DEF RowThere
    <2>3. WalkerKnows(w)'
      BY <1>4, <1>7, <1>8 DEF WalkerKnows, WalkerSteps
    <2> QED
      BY <1>1, <1>4, <2>1, <2>2, <2>3 DEF Knows, Outside
  <1>11. Fresh(w)'
    BY <1>1, <1>4, <1>7, <1>8 DEF Fresh, WalkerFresh
  <1> QED
    BY <1>1, <1>5, <1>10, <1>11, QuietKeeps

LEMMA SettleAbsentKeeps ==
    ASSUME CoverageInv, NEW w \in Walkers, SettleAbsent(w)
    PROVE  CoverageInv'
  <1> USE DEF CoverageInv
  <1>1. w \in Processes /\ TypeOK /\ TypeOK' /\ Knows(w) /\ w \notin Editors
    BY TypeOfWalker, NoneIsNoValue DEF Processes, RebuildStep
  <1>2. pc'[w] = IF pass[w] = "first" THEN "first" ELSE "second"
    BY <1>1 DEF SettleAbsent, Resume, Goto, TypeOK
  <1>3. Quiet(w)
    BY <1>1, NoneIsNoValue
       DEF SettleAbsent, Resume, Goto, Unlock, Quiet, Others, TypeOK, archive, Processes
  <1>4. Ended(w)
    <2>1. \A d \in Dates : pubLock'[d] # w /\ rowLock'[d] # w
      BY <1>1, NoneIsNoValue, NoLocks DEF SettleAbsent, Unlock
    <2> QED
      BY <1>1, <1>2, <2>1 DEF SettleAbsent, Ended, Outside, WalkerSteps, TypeOK
  <1> QED
    BY <1>1, <1>3, <1>4, EndedKnows, QuietKeeps

\* Steps of a walker that has no transaction.
LEMMA BetweenDatesKeeps ==
    ASSUME CoverageInv, NEW w \in Walkers,
           \/ StartReconcile(w) \/ StartRebuild(w) \/ SkipDate(w)
           \/ ListStale(w) \/ Finish(w) \/ Report(w)
    PROVE  CoverageInv'
  <1> USE DEF CoverageInv
  <1>1. w \in Processes /\ TypeOK /\ TypeOK' /\ Knows(w) /\ w \notin Editors
    BY TypeOfWalker, NoneIsNoValue DEF Processes, RebuildStep
  <1>2. /\ pc[w] \in {"idle", "first", "second", "done"}
        /\ UNCHANGED <<archive, readable, index, gone, locks, txn, job>>
        /\ UNCHANGED <<stale, raced, unindexed>>
    BY DEF StartReconcile, StartRebuild, SkipDate, NextDate, ListStale, Finish, Report, history
  <1>3. PICK step \in {"idle", "first", "second", "done"} : pc' = [pc EXCEPT ![w] = step]
    <2>1. SkipDate(w) => pc' = [pc EXCEPT ![w] = pc[w]]
      BY <1>1 DEF SkipDate, TypeOK
    <2> QED
      BY <1>2, <2>1 DEF StartReconcile, StartRebuild, ListStale, Finish, Report, Goto
  <1>4. pc'[w] = step
    BY <1>1, <1>3 DEF TypeOK
  <1>5. Quiet(w)
    BY <1>1, <1>2, <1>3 DEF Quiet, Others, TypeOK, archive, locks, Processes
  <1>6. Ended(w)
    <2>1. \A d \in Dates : pubLock'[d] # w /\ rowLock'[d] # w
      BY <1>1, <1>2, NoLocks DEF Locked, locks
    <2>2. txn'[w] = NoTxn
      BY <1>1, <1>2 DEF Knows, Outside
    <2> QED
      BY <1>1, <1>3, <1>4, <2>1, <2>2 DEF Ended, Outside, WalkerSteps
  <1> QED
    BY <1>1, <1>5, <1>6, EndedKnows, QuietKeeps

\* Damage waits for the publication lock, and is recorded.
LEMMA DisturbKeeps ==
    ASSUME CoverageInv, NEW d \in Dates, Disturb(d)
    PROVE  CoverageInv'
  <1> USE DEF CoverageInv
  <1>1. TypeOK /\ TypeOK'
    BY TypeOfDisturb
  <1>2. /\ UNCHANGED <<versions, approved, index, gone, pubLock, rowLock, pc, txn, job, stale, raced>>
        /\ pubLock[d] = None
        /\ \A other \in Dates \ {d} : other \in readable' <=> other \in readable
        /\ unindexed' = unindexed \cup {d}
    BY DEF Disturb, archive, locks
  <1>3. ASSUME NEW x \in Processes PROVE Knows(x)'
    <2>1. Knows(x)
      OBVIOUS
    <2>2. Locked(x)' <=> Locked(x)
      BY <1>2 DEF Locked
    <2>3. Holds(x)' /\ RowThere(x)'
      BY <1>2, <2>1, <2>2 DEF Knows, Holds, RowThere
    <2>4. x \in Editors => EditorKnows(x)'
      BY <1>2, <2>1, <2>2 DEF Knows, EditorKnows, Served
    <2>5. x \in Walkers => WalkerKnows(x)'
      <3> SUFFICES ASSUME x \in Walkers PROVE WalkerKnows(x)'
        OBVIOUS
      <3>1. Locked(x) => txn[x].date \in Dates \ {d}
        BY <1>1, <1>2, <2>1, LockedHolds, NoneIsNoValue
      <3>2. Locked(x) => (Servable(txn[x].date)' <=> Servable(txn[x].date))
        BY <1>2, <3>1 DEF Servable, Served
      <3>3. pc[x] = "flushed" => Locked(x)
        BY <2>1, Steps DEF Locked
      <3> QED
        BY <1>2, <2>1, <2>2, <3>2, <3>3 DEF Knows, WalkerKnows
    <2> QED
      BY <1>2, <2>1, <2>3, <2>4, <2>5 DEF Knows
  <1>4. ASSUME NEW x \in Processes, x \notin stale' PROVE Fresh(x)'
    <2>1. Fresh(x)
      BY <1>2, <1>4
    <2>2. Locked(x)' <=> Locked(x)
      BY <1>2 DEF Locked
    <2>3. x \in Editors => EditorFresh(x)'
      BY <1>2, <2>1, <2>2
         DEF Fresh, EditorFresh, Supported, Derived, Review, Served, Own
    <2>4. x \in Walkers => WalkerFresh(x)'
      BY <1>2, <2>1, <2>2 DEF Fresh, WalkerFresh, Supported, Derived, Review, Served
    <2> QED
      BY <1>2, <2>1, <2>3, <2>4 DEF Fresh
  <1>5. Indexed' /\ IndexExact' /\ ServedIsIndexed'
    BY <1>2 DEF Indexed, IndexExact, ServedIsIndexed, Served, Exact, Derived, Review
  <1> QED
    BY <1>1, <1>3, <1>4, <1>5

----------------------------------------------------------------------------
(* The commits.                                                            *)

\* What the invariant says of one date.
DateInv(d) ==
    /\ index[d] # None => Served(d) # 0
    /\ Served(d) # 0 /\ d \notin readable => d \in unindexed
    /\ d \notin raced /\ index[d] # None => index[d] = Exact(d)
    /\ d \notin raced \cup unindexed /\ Served(d) # 0 => index[d] # None

LEMMA DatesInv == (\A d \in Dates : DateInv(d)) <=> Indexed /\ IndexExact /\ ServedIsIndexed
  BY DEF DateInv, Indexed, IndexExact, ServedIsIndexed

LEMMA DatesInvNext ==
    (\A d \in Dates : DateInv(d)') => Indexed' /\ IndexExact' /\ ServedIsIndexed'
  BY DEF DateInv, Indexed, IndexExact, ServedIsIndexed

LEMMA CommitKeeps ==
    ASSUME CoverageInv, TypeOK', NEW x \in Processes, NEW d, Commits(x, d), Ended(x), DateInv(d)'
    PROVE  CoverageInv'
  <1> USE DEF CoverageInv
  <1>1. \A y \in Processes : Knows(y)' /\ (y \notin stale' => Fresh(y)')
    BY EndedKnows, CommitOthersKnow, CommitOthersFresh
  <1>2. ASSUME NEW other \in Dates PROVE DateInv(other)'
    <2>1. CASE other = d
      BY <2>1
    <2>2. CASE other # d
      <3>1. DateInv(other)
        BY DatesInv
      <3>2. /\ versions'[other] = versions[other]
            /\ other \in readable' <=> other \in readable
            /\ other \in unindexed' <=> other \in unindexed
            /\ other \in raced' <=> other \in raced
            /\ \A c : <<other, c>> \in approved' <=> <<other, c>> \in approved
        BY <2>2 DEF Commits
      <3>3. index'[other] = index[other]
        BY <2>2 DEF Commits, Written, TypeOK
      <3>4. Served(other)' = Served(other) /\ Exact(other)' = Exact(other)
        BY <3>2 DEF Served, Exact, Derived, Review
      <3> QED
        BY <3>1, <3>2, <3>3, <3>4 DEF DateInv
    <2> QED
      BY <2>1, <2>2
  <1> QED
    BY <1>1, <1>2, DatesInvNext

LEMMA CommitDecisionKeeps ==
    ASSUME CoverageInv, NEW e \in Editors, CommitReview(e) \/ CommitPending(e)
    PROVE  CoverageInv'
  <1> USE DEF CoverageInv
  <1>1. e \in Processes /\ TypeOK /\ TypeOK' /\ Knows(e) /\ EditorKnows(e) /\ e \notin Walkers
    BY TypeOfEditor, NoneIsNoValue DEF Processes, EditorStep, Knows
  <1>0. PICK d \in Dates : d = job[e].date
    BY <1>1 DEF CommitReview, CommitPending, CommitDecision, EditorKnows
  <1>2. /\ pc[e] = "refreshed"
        /\ approved' = approved \cup Own(e)
        /\ Written(e, d)
        /\ Committed(e, d, rowLock[d] = e)
        /\ txn' = [txn EXCEPT ![e] = NoTxn]
        /\ Release(e)
        /\ UNCHANGED <<versions, readable, pubLock, unindexed>>
    BY <1>0 DEF CommitReview, CommitPending, CommitDecision
  <1>3. job[e].date = d /\ job[e].root \in Contents /\ txn[e].date = d /\ ~Locked(e)
    BY <1>0, <1>1, <1>2 DEF EditorKnows, Outside, Locked
  <1>4. /\ pc'[e] \in {"idle", "promoted"}
        /\ pc'[e] # "idle" => job'[e] = job[e]
        /\ \A y \in Processes \ {e} : pc'[y] = pc[y] /\ (y \in Editors => job'[y] = job[y])
    BY <1>1 DEF CommitReview, CommitPending, Goto, TypeOK
  <1>5. Commits(e, d)
    <2>1. Others(e)
      BY <1>1, <1>2, <1>4, NoneIsNoValue DEF Others, Release, TypeOK, Processes
    <2>2. stale' = (stale \ {e}) \cup Overtaken(e, d)
      BY <1>2 DEF Committed
    <2>3. ASSUME NEW other \in Dates \ {d}
          PROVE  /\ other \in raced' <=> other \in raced
                 /\ \A c : <<other, c>> \in approved' <=> <<other, c>> \in approved
      BY <1>1, <1>2, <1>3, <2>3, OwnTyped DEF Committed
    <2> QED
      BY <1>2, <1>3, <2>1, <2>2, <2>3 DEF Commits
  <1>6. Ended(e)
    <2>1. \A other \in Dates : pubLock'[other] # e /\ rowLock'[other] # e
      BY <1>1, <1>2, <1>3, NoneIsNoValue, NoLocks DEF Release
    <2>2. txn'[e] = NoTxn
      BY <1>1, <1>2 DEF TypeOK
    <2> QED
      BY <1>1, <1>3, <1>4, <2>1, <2>2 DEF Ended, Outside, EditorSteps
  <1>7. DateInv(d)'
    <2>1. DateInv(d)
      BY <1>3, DatesInv
    <2>2. Served(d)' = Served(d) /\ (d \in readable' <=> d \in readable)
      BY <1>2, <1>3 DEF Served
    <2>3. CASE rowLock[d] = e
      <3>1. index'[d] = txn[e].write /\ txn[e].write # None /\ Served(d) # 0
        BY <1>1, <1>2, <1>3, <2>3 DEF Written, TypeOK, EditorKnows
      <3>2. d \notin raced' => txn[e].write = Exact(d)'
        <4> SUFFICES ASSUME d \notin raced' PROVE txn[e].write = Exact(d)'
          OBVIOUS
        <4>1. e \notin stale
          BY <1>2 DEF Committed
        <4>2. txn[e].write = Supported(d, Own(e))
          BY <1>1, <1>2, <1>3, <2>3, <4>1 DEF Fresh, EditorFresh
        <4>3. Exact(d)' = Derived(d, Served(d), versions[d][Served(d)], approved \cup Own(e))
          BY <1>2 DEF Exact, Derived, Review, Served
        <4> QED
          BY <4>2, <4>3 DEF Supported
      <3> QED
        BY <1>2, <2>1, <2>2, <3>1, <3>2 DEF DateInv
    <2>4. CASE rowLock[d] # e
      <3>1. index'[d] = index[d]
        BY <1>2, <2>4 DEF Written
      <3>2. d \notin raced' => d \notin raced /\ (index[d] # None => Exact(d)' = Exact(d))
        <4> SUFFICES ASSUME d \notin raced'
                     PROVE  d \notin raced /\ (index[d] # None => Exact(d)' = Exact(d))
          OBVIOUS
        <4>1. e \notin stale /\ d \notin raced
          BY <1>2, <2>4 DEF Committed
        <4>2. ~job[e].publishes => Served(d) = 0
          BY <1>1, <1>2, <1>3, <2>4, <4>1 DEF Fresh, EditorFresh
        <4>3. job[e].publishes => approved' = approved
          BY <1>2 DEF Own
        <4> QED
          BY <1>2, <2>1, <4>1, <4>2, <4>3 DEF DateInv, Exact, Derived, Review, Served
      <3> QED
        BY <1>2, <2>1, <2>2, <3>1, <3>2 DEF DateInv
    <2> QED
      BY <2>3, <2>4
  <1> QED
    BY <1>1, <1>5, <1>6, <1>7, CommitKeeps

LEMMA CommitEntryKeeps ==
    ASSUME CoverageInv, NEW w \in Walkers, CommitEntry(w)
    PROVE  CoverageInv'
  <1> USE DEF CoverageInv
  <1>1. w \in Processes /\ TypeOK /\ TypeOK' /\ Knows(w) /\ WalkerKnows(w) /\ w \notin Editors
    BY TypeOfWalker, NoneIsNoValue DEF Processes, RebuildStep, Knows
  <1>0. PICK d \in Dates : d = txn[w].date
    BY <1>1, OpenTxn DEF CommitEntry, Outside
  <1>2. /\ pc[w] = "flushed"
        /\ Written(w, d)
        /\ Committed(w, d, TRUE)
        /\ unindexed' = IF txn[w].write # None THEN unindexed \ {d} ELSE unindexed
        /\ txn' = [txn EXCEPT ![w] = NoTxn]
        /\ pc' = [pc EXCEPT ![w] = IF pass[w] = "first" THEN "first" ELSE "second"]
        /\ Release(w)
        /\ Unlock(w)
        /\ UNCHANGED <<archive, readable, job>>
    BY <1>0 DEF CommitEntry, Resume, Goto
  <1>3. txn[w].date = d /\ Locked(w) /\ rowLock[d] = w
    BY <1>0, <1>1, <1>2, OpenTxn DEF Outside, WalkerKnows
  <1>4. Commits(w, d)
    <2>1. Others(w)
      BY <1>1, <1>2, NoneIsNoValue DEF Others, Release, Unlock, TypeOK, Processes
    <2> QED
      BY <1>2, <1>3, <2>1 DEF Commits, Committed, archive, Served
  <1>5. Ended(w)
    <2>1. \A other \in Dates : pubLock'[other] # w /\ rowLock'[other] # w
      BY <1>1, <1>2, NoneIsNoValue DEF Release, Unlock
    <2>2. txn'[w] = NoTxn /\ pc'[w] \in {"first", "second"}
      BY <1>1, <1>2 DEF TypeOK
    <2> QED
      BY <1>1, <2>1, <2>2 DEF Ended, Outside, WalkerSteps
  <1>6. DateInv(d)'
    <2>1. DateInv(d)
      BY <1>3, DatesInv
    <2>2. index'[d] = txn[w].write
      BY <1>1, <1>2, <1>3 DEF Written, TypeOK
    <2>3. Served(d)' = Served(d) /\ Exact(d)' = Exact(d) /\ (d \in readable' <=> d \in readable)
      BY <1>2 DEF Served, Exact, Derived, Review, archive
    <2>4. txn[w].write # None <=> Servable(d)
      BY <1>1, <1>2, <1>3 DEF WalkerKnows
    <2>5. d \notin raced' /\ txn[w].write # None => txn[w].write = Exact(d)
      BY <1>1, <1>2, <1>3, ExactIsSupported DEF Committed, Fresh, WalkerFresh
    <2> QED
      BY <1>2, <2>1, <2>2, <2>3, <2>4, <2>5 DEF DateInv, Servable
  <1> QED
    BY <1>1, <1>4, <1>5, <1>6, CommitKeeps

LEMMA CommitPublishedKeeps ==
    ASSUME CoverageInv, NEW e \in Editors, CommitPublished(e)
    PROVE  CoverageInv'
  <1> USE DEF CoverageInv
  <1>1. e \in Processes /\ TypeOK /\ TypeOK' /\ Knows(e) /\ EditorKnows(e) /\ e \notin Walkers
    BY TypeOfEditor, NoneIsNoValue DEF Processes, EditorStep, Knows
  <1>0. PICK d \in Dates : d = job[e].date
    BY <1>1 DEF CommitPublished, EditorKnows
  <1>2. /\ pc[e] = "completing"
        /\ versions' = [versions EXCEPT ![d] = Append(@, job[e].root)]
        /\ readable' = readable \cup {d}
        /\ Written(e, d)
        /\ Committed(e, d, TRUE)
        /\ unindexed' = unindexed \ {d}
        /\ txn' = [txn EXCEPT ![e] = NoTxn]
        /\ job' = [job EXCEPT ![e] = NoJob]
        /\ pc' = [pc EXCEPT ![e] = "idle"]
        /\ Release(e)
        /\ Unlock(e)
        /\ UNCHANGED approved
    BY <1>0 DEF CommitPublished, Goto
  <1>3. /\ job[e].date = d /\ job[e].root \in Contents /\ txn[e].date = d
        /\ Locked(e) /\ rowLock[d] = e /\ txn[e].write # None
    BY <1>0, <1>1, <1>2 DEF EditorKnows, Outside, Locked
  <1>4. /\ Served(d)' = Served(d) + 1
        /\ versions'[d][Served(d) + 1] = job[e].root
        /\ Served(d)' # 0
    <2>1. versions[d] \in Seq(Contents) /\ versions'[d] = Append(versions[d], job[e].root)
      BY <1>1, <1>2, <1>3 DEF TypeOK
    <2>2. Served(d)' = Len(versions'[d])
      BY <1>1, <1>3 DEF Served
    <2> QED
      BY <2>1, <2>2, <1>3 DEF Served
  <1>5. Commits(e, d)
    <2>1. Others(e)
      BY <1>1, <1>2, NoneIsNoValue DEF Others, Release, Unlock, TypeOK, Processes
    <2>2. \A other \in Dates \ {d} : versions'[other] = versions[other]
      BY <1>1, <1>2 DEF TypeOK
    <2> QED
      BY <1>2, <1>3, <1>4, <2>1, <2>2 DEF Commits, Committed
  <1>6. Ended(e)
    <2>1. \A other \in Dates : pubLock'[other] # e /\ rowLock'[other] # e
      BY <1>1, <1>2, NoneIsNoValue DEF Release, Unlock
    <2>2. txn'[e] = NoTxn /\ pc'[e] = "idle"
      BY <1>1, <1>2 DEF TypeOK
    <2> QED
      BY <1>1, <2>1, <2>2 DEF Ended, Outside, EditorSteps
  <1>7. DateInv(d)'
    <2>1. index'[d] = txn[e].write /\ d \in readable'
      BY <1>1, <1>2, <1>3 DEF Written, TypeOK
    <2>2. d \notin raced' => txn[e].write = Exact(d)'
      <3> SUFFICES ASSUME d \notin raced' PROVE txn[e].write = Exact(d)'
        OBVIOUS
      <3>1. e \notin stale
        BY <1>2 DEF Committed
      <3>2. txn[e].write = Derived(d, Served(d) + 1, job[e].root, approved)
        BY <1>1, <1>2, <1>3, <3>1 DEF Fresh, EditorFresh
      <3>3. Exact(d)' = Derived(d, Served(d) + 1, job[e].root, approved)
        <4>1. Exact(d)' = Derived(d, Len(versions'[d]), versions'[d][Len(versions'[d])], approved)
          BY <1>2 DEF Exact, Derived, Review, Served
        <4>2. Len(versions'[d]) = Served(d) + 1
          BY <1>4 DEF Served
        <4> QED
          BY <1>4, <4>1, <4>2
      <3> QED
        BY <3>2, <3>3
    <2> QED
      BY <1>3, <1>4, <2>1, <2>2 DEF DateInv
  <1> QED
    BY <1>1, <1>5, <1>6, <1>7, CommitKeeps

----------------------------------------------------------------------------
(* The theorems.                                                           *)

LEMMA InitInv == Init => CoverageInv
  <1> SUFFICES ASSUME Init PROVE CoverageInv
    OBVIOUS
  <1>1. PICK indexed \in {{}, Legacy} :
            /\ index = [d \in Dates |-> IF d \in indexed THEN Exact(d) ELSE None]
            /\ unindexed = Legacy \ (indexed \cap readable)
    BY DEF Init
  <1>2. Legacy \subseteq Dates
    BY CoverageAssumption
  <1>3. versions \in [Dates -> Seq(Contents)]
    <2>1. {<<>>} \cup {<<c>> : c \in Contents \ Eventful} \subseteq Seq(Contents)
      <3>1. <<>> \in Seq(Contents) /\ \A c \in Contents : <<c>> \in Seq(Contents)
        OBVIOUS
      <3> QED
        BY <3>1
    <2>2. versions \in [Dates -> {<<>>} \cup {<<c>> : c \in Contents \ Eventful}]
      BY DEF Init
    <2> HIDE DEF Init
    <2> QED
      BY <2>1, <2>2
  <1>4. ASSUME NEW d \in Dates
        PROVE  /\ Served(d) # 0 <=> d \in Legacy
               /\ d \in Legacy => versions[d][Served(d)] \in Contents /\ Served(d) \in Nat \ {0}
    <2>1. versions[d] \in Seq(Contents)
      BY <1>3
    <2>2. versions[d] # <<>> <=> d \in Legacy
      BY DEF Init
    <2> QED
      BY <2>1, <2>2 DEF Served
  <1>5. \A d \in Legacy : Exact(d) \in Entry /\ Exact(d) # None
    BY <1>2, <1>4, DerivedTyped DEF Exact
  <1>6. index \in [Dates -> Entry \cup {None}]
    BY <1>1, <1>5
  <1>7. TypeOK
    <2>1. /\ pending \in [Dates -> Contents \cup {None}]
          /\ approved \in SUBSET (Dates \X Contents)
          /\ readable \in SUBSET Dates
          /\ gone \in SUBSET Processes
          /\ pubLock \in [Dates -> Processes \cup {None}]
          /\ rowLock \in [Dates -> Processes \cup {None}]
      BY <1>2 DEF Init
    <2>2. /\ pc \in [Processes -> EditorSteps \cup WalkerSteps]
          /\ txn \in [Processes -> Txn]
          /\ job \in [Editors -> Job]
      BY TypeOfTxn DEF Init, EditorSteps
    <2>3. /\ pass \in [Walkers -> {"first", "second", "single"}]
          /\ todo \in [Walkers -> SUBSET Dates]
          /\ live \in [Walkers -> SUBSET Dates]
          /\ unreadable \in [Walkers -> SUBSET Dates]
          /\ touched \in [Walkers -> SUBSET Dates]
      BY DEF Init
    <2>4. /\ jobs \in 0 .. MaxJobs
          /\ faults \in 0 .. MaxFaults
          /\ stale \in SUBSET Processes
          /\ raced \in SUBSET Dates
      BY CoverageAssumption DEF Init
    <2>5. unindexed \in SUBSET Dates
      BY <1>1, <1>2
    <2> QED
      BY <1>3, <1>6, <2>1, <2>2, <2>3, <2>4, <2>5 DEF TypeOK
  <1>8. ASSUME NEW x \in Processes PROVE Knows(x) /\ Fresh(x)
    <2>1. /\ pc[x] = "idle" /\ txn[x] = NoTxn
          /\ \A d \in Dates : pubLock[d] # x /\ rowLock[d] # x
      BY NoneIsNoValue DEF Init
    <2>2. ~Locked(x)
      BY <2>1 DEF Locked
    <2> QED
      BY <2>1, <2>2
         DEF Knows, Fresh, Holds, RowThere, EditorKnows, EditorFresh, WalkerKnows,
             WalkerFresh, Outside, EditorSteps, WalkerSteps
  <1>9. Indexed /\ IndexExact /\ ServedIsIndexed
    <2> SUFFICES ASSUME NEW d \in Dates PROVE DateInv(d)
      BY DatesInv
    <2>1. index[d] # None => index[d] = Exact(d) /\ d \in Legacy
      BY <1>1
    <2>2. d \in Legacy /\ d \notin unindexed => index[d] # None /\ d \in readable
      BY <1>1, <1>5
    <2> QED
      BY <1>4, <2>1, <2>2 DEF DateInv
  <1> QED
    BY <1>7, <1>8, <1>9 DEF CoverageInv

LEMMA NextInv == CoverageInv /\ [Next]_vars => CoverageInv'
  <1> SUFFICES ASSUME CoverageInv, [Next]_vars PROVE CoverageInv'
    OBVIOUS
  <1>1. ASSUME NEW e \in Editors, BeginEdit(e) \/ EditorStep(e) PROVE CoverageInv'
    <2>1. e \in Processes
      BY DEF Processes
    <2>2. CASE RefusePending(e)
      BY <2>1, <2>2, FailureKeeps DEF RefusePending
    <2>3. CASE ~RefusePending(e)
      BY <1>1, <2>3, BeginEditKeeps, ReadServedKeeps, CommitDecisionKeeps, LockToCompleteKeeps,
         CommitPublishedKeeps DEF EditorStep
    <2> QED
      BY <2>2, <2>3
  <1>2. ASSUME NEW w \in Walkers, StartReconcile(w) \/ RebuildStep(w) PROVE CoverageInv'
    BY <1>2, BetweenDatesKeeps, TakeDateKeeps, SettleAbsentKeeps, CommitEntryKeeps DEF RebuildStep
  <1>3. ASSUME NEW x \in Processes, Statement(x) PROVE CoverageInv'
    BY <1>3, LoadEntryKeeps, FlushKeeps, FailureKeeps DEF Statement, FlushFails, BreakDeadlock
  <1>4. ASSUME NEW d \in Dates, Disturb(d) PROVE CoverageInv'
    BY <1>4, DisturbKeeps
  <1>5. CASE UNCHANGED vars
    <2>1. /\ UNCHANGED <<versions, pending, approved, readable, index, gone, pubLock, rowLock,
                         pc, txn, job, pass, todo, live, unreadable, jobs, faults>>
          /\ UNCHANGED <<stale, raced, unindexed, touched>>
      BY <1>5 DEF vars, archive, locks, walk, counters, history
    <2>2. TypeOK'
      BY <2>1 DEF CoverageInv, TypeOK
    <2>3. ASSUME NEW x \in Processes PROVE Knows(x)' /\ (x \notin stale' => Fresh(x)')
      <3>1. Knows(x) /\ (x \notin stale => Fresh(x))
        BY DEF CoverageInv
      <3>2. Locked(x)' <=> Locked(x)
        BY <2>1 DEF Locked
      <3>3. Knows(x)'
        BY <2>1, <3>1, <3>2
           DEF Knows, Holds, RowThere, EditorKnows, WalkerKnows, Servable, Served
      <3>4. x \notin stale' => Fresh(x)'
        BY <2>1, <3>1, <3>2
           DEF Fresh, EditorFresh, WalkerFresh, Supported, Derived, Review, Served, Own
      <3> QED
        BY <3>3, <3>4
    <2>4. Indexed' /\ IndexExact' /\ ServedIsIndexed'
      BY <2>1 DEF CoverageInv, Indexed, IndexExact, ServedIsIndexed, Served, Exact, Derived, Review
    <2> QED
      BY <2>2, <2>3, <2>4 DEF CoverageInv
  <1> QED
    BY <1>1, <1>2, <1>3, <1>4, <1>5 DEF Next

THEOREM CoverageInvariant == Spec => []CoverageInv
  BY InitInv, NextInv, PTL DEF Spec

\* Every state of the model has its types.
THEOREM CoverageTypeCorrect == Spec => []TypeOK
  <1>1. CoverageInv => TypeOK
    BY DEF CoverageInv
  <1> QED
    BY <1>1, CoverageInvariant, PTL

\* The entry of a date is the one the archive supports, unless it was written
\* by, or from a reading overtaken by, a refresh without the publication lock.
THEOREM EntriesAreExact == Spec => []IndexExact
  <1>1. CoverageInv => IndexExact
    BY DEF CoverageInv
  <1> QED
    BY <1>1, CoverageInvariant, PTL

\* A served date is in the index, unless its artifact was damaged, its entry
\* was lost before, or a refresh raced.
THEOREM ServedDatesAreIndexed == Spec => []ServedIsIndexed
  <1>1. CoverageInv => ServedIsIndexed
    BY DEF CoverageInv
  <1> QED
    BY <1>1, CoverageInvariant, PTL

\* No step of a rebuild, a reconciliation, an editor or a publisher drops the
\* entry of a date the day endpoint can serve.
THEOREM ServedEntriesAreKept == Spec => NoServedDropped
  <1> DEFINE Step == \A d \in Dates : index[d] # None /\ index'[d] = None => ~Servable(d)
  <1>1. CoverageInv /\ [Next]_vars => Step
    <2> SUFFICES ASSUME CoverageInv, [Next]_vars, NEW d \in Dates,
                        index[d] # None, index'[d] = None
                 PROVE  ~Servable(d)
      OBVIOUS
    <2>a. TypeOK /\ \A x \in Processes : Knows(x)
      BY DEF CoverageInv
    <2>1. PICK x \in Processes, other \in Dates :
            Written(x, other) /\ pc[x] \in {"refreshed", "completing", "flushed"}
            /\ txn[x].date = other
      <3>1. ASSUME NEW e \in Editors, EditorStep(e), index' # index
            PROVE  /\ Written(e, job[e].date)
                   /\ pc[e] \in {"refreshed", "completing"}
        BY <3>1
           DEF EditorStep, ReadServed, CommitReview, CommitPending, CommitDecision, RefusePending,
               LockToComplete, CommitPublished, Fails, RolledBack
      <3>2. ASSUME NEW w \in Walkers, RebuildStep(w), index' # index
            PROVE  /\ Written(w, txn[w].date)
                   /\ pc[w] = "flushed"
        BY <3>2
           DEF RebuildStep, StartRebuild, TakeDate, SkipDate, SettleAbsent, CommitEntry, ListStale,
               Finish, Report
      <3>3. index' # index
        OBVIOUS
      <3>4. \/ \E e \in Editors : EditorStep(e)
            \/ \E w \in Walkers : RebuildStep(w)
        BY <3>3
           DEF Next, vars, BeginEdit, StartReconcile, Statement, LoadEntry, Flush, FlushFails,
               BreakDeadlock, Fails, RolledBack, Disturb
      <3>5. CASE \E e \in Editors : EditorStep(e)
        <4>1. PICK e \in Editors : EditorStep(e)
          BY <3>5
        <4>2. /\ Written(e, job[e].date) /\ pc[e] \in {"refreshed", "completing"}
              /\ e \in Processes
          BY <3>1, <3>3, <4>1 DEF Processes
        <4> QED
          BY <2>a, <4>2, OpenTxn DEF Outside
      <3>6. CASE \E w \in Walkers : RebuildStep(w)
        <4>1. PICK w \in Walkers : RebuildStep(w)
          BY <3>6
        <4>2. Written(w, txn[w].date) /\ pc[w] = "flushed" /\ w \in Processes
          BY <3>2, <3>3, <4>1 DEF Processes
        <4> QED
          BY <2>a, <4>2, OpenTxn DEF Outside
      <3> QED
        BY <3>4, <3>5, <3>6
    <2>2. rowLock[other] = x /\ other = d /\ txn[x].write = None
      BY <2>1, <2>a DEF Written, TypeOK
    <2>3. Knows(x) /\ x \notin Editors /\ x \in Walkers
      BY <2>1, <2>2, <2>a, Steps, OpenTxn
         DEF Knows, EditorKnows, EditorSteps, Outside
    <2>4. WalkerKnows(x) /\ pc[x] = "flushed" /\ Locked(x)
      BY <2>1, <2>3, Steps DEF Knows, WalkerSteps, Locked
    <2> QED
      BY <2>1, <2>2, <2>4 DEF WalkerKnows
  <1> HIDE DEF Step
  <1>2. Spec => [][Step]_vars
    BY <1>1, CoverageInvariant, PTL DEF Spec
  <1>3. Step <=> \A d \in Dates : index[d] # None /\ index'[d] = None => ~Servable(d)
    BY DEF Step
  <1> QED
    BY <1>2, <1>3, PTL DEF NoServedDropped

----------------------------------------------------------------------------
(* Rebuilds.                                                               *)
(*                                                                         *)
(* What a walk has looked at stays as it left it until somebody else       *)
(* changes the date, which the history variable touched records: at the    *)
(* second pass only the dates the first did not settle are looked at       *)
(* again, so WalkSound says what is known of all the others.               *)

\* What a walk knows of a date it has settled.
Looked(w, d) ==
    IF pass[w] = "second" \/ d \in live[w] THEN index[d] = Found(d)
    ELSE d \in unreadable[w] \/ Served(d) = 0

\* What it knows of the date of its open transaction.
Reading(w) ==
    LET d == txn[w].date IN
    /\ txn[w].value = Found(d)
    /\ pc[w] \in {"loaded", "flushed"} => txn[w].loaded = index[d]
    /\ pc[w] = "flushed" => txn[w].write = txn[w].value

WalkSound(w) ==
    /\ pc[w] = "idle" => pass[w] = "single" /\ live[w] = {} /\ unreadable[w] = {}
    /\ pc[w] = "first" => pass[w] = "first"
    /\ pc[w] \in {"second", "done"} => pass[w] # "first"
    /\ pc[w] = "done" => todo[w] = {}
    /\ pass[w] = "first" => live[w] \cap todo[w] = {}
    /\ pass[w] = "first" /\ Locked(w) => txn[w].value # None /\ txn[w].date \notin todo[w]
    /\ pass[w] # "single" => \A d \in Dates \ (todo[w] \cup touched[w]) :
            IF Locked(w) /\ txn[w].date = d THEN Reading(w) ELSE Looked(w, d)

\* The walk's own variables, and every date it does not see touched, stay.
Aside(w) ==
    /\ pc'[w] = pc[w] /\ txn'[w] = txn[w]
    /\ pass'[w] = pass[w] /\ todo'[w] = todo[w]
    /\ live'[w] = live[w] /\ unreadable'[w] = unreadable[w]
    /\ touched[w] \subseteq touched'[w]
    /\ pc[w] # "idle" => \A d \in Dates \ touched'[w] :
            index'[d] = index[d] /\ Served(d)' = Served(d) /\ Found(d)' = Found(d)

LEMMA AsideKeeps ==
    ASSUME NEW w \in Walkers, WalkSound(w), Aside(w)
    PROVE  WalkSound(w)'
  <1>1. Locked(w)' <=> Locked(w)
    BY DEF Locked, Aside
  <1>2. /\ pc'[w] = pc[w] /\ txn'[w] = txn[w]
        /\ pass'[w] = pass[w] /\ todo'[w] = todo[w]
        /\ live'[w] = live[w] /\ unreadable'[w] = unreadable[w]
    BY DEF Aside
  <1>3. ASSUME pass[w] # "single", NEW d \in Dates \ (todo'[w] \cup touched'[w])
        PROVE  IF Locked(w)' /\ txn'[w].date = d THEN Reading(w)' ELSE Looked(w, d)'
    <2>1. d \in Dates \ (todo[w] \cup touched[w]) /\ pc[w] # "idle"
      BY <1>3 DEF Aside, WalkSound
    <2>2. index'[d] = index[d] /\ Served(d)' = Served(d) /\ Found(d)' = Found(d)
      BY <1>3, <2>1 DEF Aside
    <2>3. IF Locked(w) /\ txn[w].date = d THEN Reading(w) ELSE Looked(w, d)
      BY <1>3, <2>1 DEF WalkSound
    <2>4. CASE Locked(w) /\ txn[w].date = d
      <3>1. Reading(w)
        BY <2>3, <2>4
      <3>2. Found(txn[w].date)' = Found(d)
        BY <1>2, <2>2, <2>4
      <3>3. Reading(w)'
        BY <1>2, <2>2, <2>4, <3>1, <3>2 DEF Reading
      <3> QED
        BY <1>1, <1>2, <2>4, <3>3
    <2>5. CASE ~(Locked(w) /\ txn[w].date = d)
      <3>1. Looked(w, d)'
        BY <1>2, <2>2, <2>3, <2>5 DEF Looked
      <3> QED
        BY <1>1, <1>2, <2>5, <3>1
    <2> QED
      BY <2>4, <2>5
  <1> QED
    BY <1>1, <1>2, <1>3 DEF WalkSound

\* What a reader is served depends on the archive of the date only.
LEMMA FoundStays ==
    ASSUME NEW d, versions'[d] = versions[d], d \in readable' <=> d \in readable,
           \A c : <<d, c>> \in approved' <=> <<d, c>> \in approved
    PROVE  Served(d)' = Served(d) /\ Found(d)' = Found(d)
  <1>1. Served(d)' = Served(d)
    BY DEF Served
  <1>2. Exact(d)' = Exact(d)
    BY <1>1 DEF Exact, Derived, Review
  <1> QED
    BY <1>1, <1>2 DEF Found, Servable

\* A step of another process that commits nothing.
LEMMA QuietAside ==
    ASSUME NEW w, pc'[w] = pc[w], txn'[w] = txn[w],
           pass'[w] = pass[w], todo'[w] = todo[w],
           live'[w] = live[w], unreadable'[w] = unreadable[w],
           touched'[w] = touched[w], UNCHANGED <<versions, approved, readable, index>>
    PROVE  Aside(w)
  BY FoundStays DEF Aside

\* A change on one date, which the walk sees touched.
LEMMA TouchAside ==
    ASSUME TypeOK, NEW w \in Walkers, pc'[w] = pc[w], txn'[w] = txn[w],
           pass'[w] = pass[w], todo'[w] = todo[w],
           live'[w] = live[w], unreadable'[w] = unreadable[w],
           NEW x, x # w, NEW d, touched' = TouchedBy(x, d),
           \A other \in Dates \ {d} :
                /\ index'[other] = index[other]
                /\ versions'[other] = versions[other]
                /\ other \in readable' <=> other \in readable
                /\ \A c : <<other, c>> \in approved' <=> <<other, c>> \in approved
    PROVE  Aside(w)
  <1>1. touched'[w] = IF pc[w] = "idle" THEN touched[w] ELSE touched[w] \cup {d}
    BY DEF TouchedBy
  <1>2. ASSUME pc[w] # "idle", NEW other \in Dates \ touched'[w]
        PROVE  /\ index'[other] = index[other]
               /\ Served(other)' = Served(other) /\ Found(other)' = Found(other)
    <2>1. other # d
      BY <1>1, <1>2
    <2> QED
      BY <1>2, <2>1, FoundStays
  <1> QED
    BY <1>1, <1>2 DEF Aside

LEMMA FailsAside ==
    ASSUME TypeOK, NEW w \in Walkers, NEW x \in Processes \ {w}, Fails(x)
    PROVE  Aside(w)
  <1>1. w \in Processes
    BY DEF Processes
  <1>2. pc'[w] = pc[w] /\ txn'[w] = txn[w]
    BY <1>1 DEF Fails, RolledBack, Goto, TypeOK
  <1>3. /\ pass'[w] = pass[w] /\ todo'[w] = todo[w]
        /\ live'[w] = live[w] /\ unreadable'[w] = unreadable[w]
        /\ touched'[w] = touched[w]
    BY DEF Fails, Forget
  <1>4. UNCHANGED <<versions, approved, readable, index>>
    BY DEF Fails, RolledBack, archive
  <1> QED
    BY <1>2, <1>3, <1>4, QuietAside

LEMMA StatementAside ==
    ASSUME TypeOK, NEW w \in Walkers, NEW x \in Processes \ {w}, Statement(x)
    PROVE  Aside(w)
  <1>1. w \in Processes
    BY DEF Processes
  <1>2. CASE LoadEntry(x) \/ Flush(x)
    <2>1. pc'[w] = pc[w] /\ txn'[w] = txn[w]
      BY <1>1, <1>2 DEF LoadEntry, Flush, Goto, TypeOK
    <2>2. UNCHANGED <<versions, approved, readable, index, pass, todo, live, unreadable, touched>>
      BY <1>2 DEF LoadEntry, Flush, archive, walk, history
    <2> QED
      BY <2>1, <2>2, QuietAside
  <1>3. CASE FlushFails(x) \/ BreakDeadlock(x)
    BY <1>3, FailsAside DEF FlushFails, BreakDeadlock
  <1> QED
    BY <1>2, <1>3 DEF Statement

LEMMA EditorAside ==
    ASSUME CoverageInv, NEW w \in Walkers, NEW e \in Editors, BeginEdit(e) \/ EditorStep(e)
    PROVE  Aside(w)
  <1>1. /\ TypeOK /\ w \in Processes /\ e \in Processes /\ e # w
        /\ Knows(e) /\ EditorKnows(e)
    BY NoneIsNoValue DEF CoverageInv, Processes, Knows
  <1>2. CASE BeginEdit(e) \/ ReadServed(e) \/ LockToComplete(e)
    <2>1. pc'[w] = pc[w] /\ txn'[w] = txn[w]
      BY <1>1, <1>2 DEF BeginEdit, ReadServed, LockToComplete, Goto, TypeOK
    <2>2. UNCHANGED <<versions, approved, readable, index, pass, todo, live, unreadable, touched>>
      BY <1>2 DEF BeginEdit, ReadServed, LockToComplete, archive, walk, history
    <2> QED
      BY <2>1, <2>2, QuietAside
  <1>3. CASE RefusePending(e)
    BY <1>1, <1>3, FailsAside DEF RefusePending
  <1>4. CASE CommitReview(e) \/ CommitPending(e)
    <2>1. PICK d \in Dates : d = job[e].date
      BY <1>1, <1>4 DEF CommitReview, CommitPending, CommitDecision, EditorKnows
    <2>2. /\ approved' = approved \cup Own(e)
          /\ Written(e, d)
          /\ touched' = TouchedBy(e, d)
          /\ txn' = [txn EXCEPT ![e] = NoTxn]
          /\ UNCHANGED <<versions, readable, pass, todo, live, unreadable>>
      BY <1>4, <2>1 DEF CommitReview, CommitPending, CommitDecision, Committed, walk
    <2>3. job[e].root \in Contents /\ pc[e] = "refreshed"
      BY <1>1, <1>4 DEF CommitReview, CommitPending, CommitDecision, EditorKnows
    <2>4. pc'[w] = pc[w] /\ txn'[w] = txn[w]
      BY <1>1, <1>4, <2>2 DEF CommitReview, CommitPending, Goto, TypeOK
    <2>5. ASSUME NEW other \in Dates \ {d}
          PROVE  /\ index'[other] = index[other]
                 /\ \A c : <<other, c>> \in approved' <=> <<other, c>> \in approved
      <3>1. index'[other] = index[other]
        BY <1>1, <2>1, <2>2, <2>5 DEF Written, TypeOK
      <3> QED
        BY <1>1, <2>1, <2>2, <2>3, <2>5, <3>1, OwnTyped
    <2> QED
      BY <1>1, <2>2, <2>4, <2>5, TouchAside
  <1>5. CASE CommitPublished(e)
    <2>1. PICK d \in Dates : d = job[e].date
      BY <1>1, <1>5 DEF CommitPublished, EditorKnows
    <2>2. /\ versions' = [versions EXCEPT ![d] = Append(@, job[e].root)]
          /\ readable' = readable \cup {d}
          /\ Written(e, d)
          /\ touched' = TouchedBy(e, d)
          /\ txn' = [txn EXCEPT ![e] = NoTxn]
          /\ Goto(e, "idle")
          /\ UNCHANGED <<approved, pass, todo, live, unreadable>>
      BY <1>5, <2>1 DEF CommitPublished, Committed, walk
    <2>3. pc'[w] = pc[w] /\ txn'[w] = txn[w]
      BY <1>1, <2>2 DEF Goto, TypeOK
    <2>4. ASSUME NEW other \in Dates \ {d}
          PROVE  /\ index'[other] = index[other] /\ versions'[other] = versions[other]
                 /\ other \in readable' <=> other \in readable
      BY <1>1, <2>2, <2>4 DEF Written, TypeOK
    <2> QED
      BY <1>1, <2>2, <2>3, <2>4, TouchAside
  <1> QED
    BY <1>2, <1>3, <1>4, <1>5 DEF EditorStep

LEMMA WalkerAside ==
    ASSUME CoverageInv, NEW w \in Walkers, NEW v \in Walkers \ {w},
           StartReconcile(v) \/ RebuildStep(v)
    PROVE  Aside(w)
  <1>1. /\ TypeOK /\ w \in Processes /\ v \in Processes /\ v # w
        /\ Knows(v) /\ WalkerKnows(v)
    BY DEF CoverageInv, Processes, Knows
  <1>2. CASE StartReconcile(v) \/ StartRebuild(v) \/ TakeDate(v) \/ SkipDate(v)
             \/ SettleAbsent(v) \/ ListStale(v) \/ Finish(v) \/ Report(v)
    <2>1. pc'[w] = pc[w] /\ txn'[w] = txn[w]
      BY <1>1, <1>2 DEF StartReconcile, StartRebuild, TakeDate, SkipDate, SettleAbsent,
         ListStale, Finish, Report, Resume, Goto, TypeOK
    <2>2. /\ pass'[w] = pass[w] /\ todo'[w] = todo[w]
          /\ live'[w] = live[w] /\ unreadable'[w] = unreadable[w]
          /\ touched'[w] = touched[w]
      BY <1>1, <1>2 DEF StartReconcile, StartRebuild, TakeDate, SkipDate, SettleAbsent,
         ListStale, Finish, Report, Forget, NextDate, TypeOK, walk, history
    <2>3. UNCHANGED <<versions, approved, readable, index>>
      BY <1>2 DEF StartReconcile, StartRebuild, TakeDate, SkipDate, SettleAbsent,
         ListStale, Finish, Report, archive
    <2> QED
      BY <2>1, <2>2, <2>3, QuietAside
  <1>3. CASE CommitEntry(v)
    <2>1. PICK d \in Dates : d = txn[v].date
      BY <1>1, <1>3, OpenTxn DEF CommitEntry, Outside
    <2>2. /\ Written(v, d) /\ touched' = TouchedBy(v, d)
          /\ txn' = [txn EXCEPT ![v] = NoTxn] /\ Resume(v)
          /\ UNCHANGED <<versions, approved, readable, pass, todo>>
      BY <1>3, <2>1 DEF CommitEntry, Committed, archive
    <2>3. live'[w] = live[w] /\ unreadable'[w] = unreadable[w]
      BY <1>1, <1>3 DEF CommitEntry, TypeOK
    <2>4. pc'[w] = pc[w] /\ txn'[w] = txn[w]
      BY <1>1, <2>2 DEF Resume, Goto, TypeOK
    <2>5. \A other \in Dates \ {d} : index'[other] = index[other]
      BY <1>1, <2>2 DEF Written, TypeOK
    <2> QED
      BY <1>1, <2>2, <2>3, <2>4, <2>5, TouchAside
  <1> QED
    BY <1>2, <1>3 DEF RebuildStep

LEMMA DisturbAside ==
    ASSUME TypeOK, NEW w \in Walkers, NEW d \in Dates, Disturb(d)
    PROVE  Aside(w)
  <1>1. None # w
    BY NoneIsNoValue DEF Processes
  <1>2. UNCHANGED <<versions, approved, index, pc, txn, pass, todo, live, unreadable>>
    BY DEF Disturb, archive, walk
  <1>3. /\ touched' = TouchedBy(None, d)
        /\ \A other \in Dates \ {d} : other \in readable' <=> other \in readable
    BY DEF Disturb
  <1> QED
    BY <1>1, <1>2, <1>3, TouchAside

\* The steps of the walk itself.
LEMMA StatementWalks ==
    ASSUME CoverageInv, NEW w \in Walkers, WalkSound(w), LoadEntry(w) \/ Flush(w)
    PROVE  WalkSound(w)'
  <1>1. /\ TypeOK /\ w \in Processes /\ w \notin Editors
        /\ Knows(w) /\ WalkerKnows(w) /\ pc[w] \in WalkerSteps
    BY Steps, NoneIsNoValue DEF CoverageInv, Processes, Knows
  <1>2. /\ UNCHANGED <<versions, approved, readable, index, pass, todo, live, unreadable, touched>>
        /\ Locked(w) /\ Locked(w)'
    BY <1>1 DEF LoadEntry, Flush, Goto, TypeOK, archive, walk, history, Locked, WalkerSteps
  <1>3. PICK d \in Dates : d = txn[w].date
    BY <1>1, <1>2, OpenTxn, LockedHolds
  <1>4. txn'[w].date = d /\ txn'[w].value = txn[w].value
    BY <1>1, <1>3 DEF LoadEntry, Flush, TypeOK, Txn
  <1>5. Found(d)' = Found(d)
    BY <1>2, FoundStays
  <1>6. pc'[w] \in {"loaded", "flushed"}
    BY <1>1 DEF LoadEntry, Flush, Goto, TypeOK, WalkerSteps
  <1>7. ASSUME Reading(w) PROVE Reading(w)'
    <2>1. CASE LoadEntry(w)
      <3>1. txn'[w].loaded = index[d] /\ pc'[w] = "loaded"
        BY <1>1, <1>3, <2>1 DEF LoadEntry, Goto, TypeOK, Txn, WalkerSteps
      <3>2. index'[d] = index[d] /\ txn'[w].value = Found(d)
        BY <1>2, <1>3, <1>4, <1>7 DEF Reading
      <3> QED
        BY <1>4, <1>5, <3>1, <3>2 DEF Reading
    <2>2. CASE Flush(w)
      <3>1. pc[w] = "loaded" /\ ~Conflicts(w)
        BY <1>1, <2>2 DEF Flush, WalkerSteps
      <3>2. txn[w].loaded = index[d] /\ txn[w].value = Found(d)
        BY <1>3, <1>7, <3>1 DEF Reading
      <3>3. Row(w) = txn[w].value
        BY <1>1, <1>3, <3>1, <3>2, RowTyped
      <3>4. txn'[w].write = Row(w) /\ txn'[w].loaded = txn[w].loaded
        BY <1>1, <2>2 DEF Flush, TypeOK, Txn, Row
      <3> QED
        BY <1>2, <1>3, <1>4, <1>5, <3>2, <3>3, <3>4 DEF Reading
    <2> QED
      BY <2>1, <2>2
  <1>8. ASSUME NEW other \in Dates PROVE Looked(w, other)' <=> Looked(w, other)
    BY <1>2, FoundStays DEF Looked
  <1>9. ASSUME pass[w] # "single", NEW other \in Dates \ (todo[w] \cup touched[w])
        PROVE  IF Locked(w)' /\ txn'[w].date = other THEN Reading(w)' ELSE Looked(w, other)'
    <2>1. IF Locked(w) /\ txn[w].date = other THEN Reading(w) ELSE Looked(w, other)
      BY <1>9 DEF WalkSound
    <2> QED
      BY <1>2, <1>3, <1>4, <1>7, <1>8, <2>1
  <1> QED
    BY <1>2, <1>3, <1>4, <1>6, <1>9 DEF WalkSound

LEMMA EndWalks ==
    ASSUME CoverageInv, NEW w \in Walkers, Fails(w) \/ Report(w)
    PROVE  WalkSound(w)'
  <1>1. TypeOK /\ Knows(w) /\ w \in Processes /\ w \notin Editors /\ pc[w] # "indexed"
    BY Steps, NoneIsNoValue DEF CoverageInv, Processes, WalkerSteps
  <1>2. pc'[w] = "idle"
    BY <1>1 DEF Fails, Report, Goto, TypeOK
  <1>3. pass'[w] = "single" /\ live'[w] = {} /\ unreadable'[w] = {}
    BY DEF Fails, Report, Forget
  <1> QED
    BY <1>2, <1>3 DEF WalkSound

LEMMA BetweenDatesWalks ==
    ASSUME CoverageInv, NEW w \in Walkers, WalkSound(w),
           StartReconcile(w) \/ StartRebuild(w) \/ SkipDate(w) \/ Finish(w)
    PROVE  WalkSound(w)'
  <1>1. TypeOK /\ w \in Processes /\ w \notin Editors
    BY NoneIsNoValue DEF CoverageInv, Processes
  <1>2. UNCHANGED <<versions, approved, readable, index, txn, live, touched>>
    BY DEF StartReconcile, StartRebuild, SkipDate, Finish, archive, history, walk
  <1>3. \A d \in Dates : Served(d)' = Served(d) /\ Found(d)' = Found(d)
    BY <1>2, FoundStays
  <1>4. pc[w] \in {"idle", "first", "second"} /\ pc'[w] \in {"first", "second", "done"}
    BY <1>1 DEF StartReconcile, StartRebuild, SkipDate, NextDate, Finish, Goto, TypeOK
  <1>5. ~Locked(w) /\ ~Locked(w)'
    BY <1>1, <1>4 DEF Locked
  <1>6. CASE StartReconcile(w)
    <2>1. pc'[w] = "second" /\ pass'[w] = "single"
      BY <1>1, <1>6 DEF StartReconcile, Goto, TypeOK, WalkSound
    <2> QED
      BY <2>1 DEF WalkSound
  <1>7. CASE StartRebuild(w)
    <2>1. /\ pc'[w] = "first" /\ pass'[w] = "first"
          /\ todo'[w] = {d \in Dates : Served(d) # 0} /\ live'[w] = {}
      BY <1>1, <1>2, <1>7 DEF StartRebuild, Goto, TypeOK, WalkSound
    <2>2. \A d \in Dates \ todo'[w] : Looked(w, d)'
      BY <1>3, <2>1 DEF Looked
    <2> QED
      BY <1>5, <2>1, <2>2 DEF WalkSound
  <1>8. CASE SkipDate(w)
    <2>1. PICK d0 \in Dates :
            /\ d0 \in todo[w] /\ pc[w] = "first" /\ ~Servable(d0)
            /\ todo'[w] = todo[w] \ {d0}
            /\ unreadable'[w] = IF Served(d0) # 0 THEN unreadable[w] \cup {d0} ELSE unreadable[w]
            /\ pass'[w] = pass[w] /\ pc'[w] = pc[w] /\ live'[w] = live[w]
            /\ touched'[w] = touched[w]
      BY <1>1, <1>2, <1>8 DEF SkipDate, NextDate, TypeOK
    <2>2. pass[w] = "first" /\ d0 \notin live[w]
      BY <2>1 DEF WalkSound
    <2>3. ASSUME NEW d \in Dates \ (todo'[w] \cup touched'[w]) PROVE Looked(w, d)'
      <3>1. CASE d = d0
        BY <1>3, <2>1, <2>2, <3>1 DEF Looked
      <3>2. CASE d # d0
        <4>1. Looked(w, d)
          BY <1>5, <2>1, <2>2, <2>3, <3>2 DEF WalkSound
        <4> QED
          BY <1>2, <1>3, <2>1, <2>2, <4>1 DEF Looked
      <3> QED
        BY <3>1, <3>2
    <2> QED
      BY <1>5, <2>1, <2>2, <2>3 DEF WalkSound
  <1>9. CASE Finish(w)
    <2>1. /\ pc[w] = "second" /\ pc'[w] = "done" /\ todo[w] = {}
          /\ UNCHANGED <<pass, todo, unreadable>>
      BY <1>1, <1>9 DEF Finish, Goto, TypeOK, walk
    <2>2. \A d \in Dates : Looked(w, d)' <=> Looked(w, d)
      BY <1>2, <1>3, <2>1 DEF Looked
    <2> QED
      BY <1>2, <1>5, <2>1, <2>2 DEF WalkSound
  <1> QED
    BY <1>6, <1>7, <1>8, <1>9

\* Between the passes: what is neither indexed by the first nor reported has
\* no entry and serves nothing.
LEMMA ListStaleWalks ==
    ASSUME CoverageInv, NEW w \in Walkers, WalkSound(w), ListStale(w)
    PROVE  WalkSound(w)'
  <1>1. TypeOK /\ w \in Processes /\ w \notin Editors
    BY NoneIsNoValue DEF CoverageInv, Processes
  <1>2. /\ pc[w] = "first" /\ todo[w] = {} /\ pc'[w] = "second" /\ pass'[w] = "second"
        /\ todo'[w] = Unsettled(w)
        /\ touched'[w] = touched[w] \cap (live[w] \cup Unseen(w))
        /\ UNCHANGED <<versions, approved, readable, index>>
    BY <1>1 DEF ListStale, Goto, TypeOK, archive
  <1>3. ~Locked(w) /\ ~Locked(w)' /\ pass[w] = "first"
    BY <1>1, <1>2 DEF Locked, WalkSound
  <1>4. ASSUME NEW d \in Dates \ (todo'[w] \cup touched'[w]) PROVE Looked(w, d)'
    <2>1. index'[d] = index[d] /\ Found(d)' = Found(d)
      BY <1>2, FoundStays
    <2>2. d \notin unreadable[w] /\ (d \in live[w] \/ index[d] = None)
      BY <1>2, <1>4 DEF Unsettled
    <2>3. d \notin touched[w]
      BY <1>2, <1>4, <2>2 DEF Unseen
    <2>4. Looked(w, d)
      BY <1>2, <1>3, <2>3 DEF WalkSound
    <2>5. index[d] = Found(d)
      <3>1. CASE d \in live[w]
        BY <2>4, <3>1 DEF Looked
      <3>2. CASE d \notin live[w]
        BY <1>3, <2>2, <2>4, <3>2 DEF Looked, Found, Servable
      <3> QED
        BY <3>1, <3>2
    <2> QED
      BY <1>2, <2>1, <2>5 DEF Looked
  <1> QED
    BY <1>2, <1>3, <1>4 DEF WalkSound

LEMMA TakeDateWalks ==
    ASSUME CoverageInv, NEW w \in Walkers, WalkSound(w), TakeDate(w)
    PROVE  WalkSound(w)'
  <1>1. TypeOK /\ w \in Processes /\ w \notin Editors
    BY NoneIsNoValue DEF CoverageInv, Processes
  <1>a. PICK d0 \in Dates :
            /\ NextDate(w, d0)
            /\ pc[w] = "second" \/ Servable(d0)
            /\ txn' = [txn EXCEPT ![w] = [NoTxn EXCEPT !.date = d0, !.value = Found(d0)]]
            /\ Goto(w, "seen")
            /\ UNCHANGED <<archive, readable, index, pass, live, unreadable, history>>
    BY DEF TakeDate
  <1>2. /\ d0 \in todo[w] /\ pc[w] \in {"first", "second"}
        /\ pc[w] = "second" \/ Servable(d0)
        /\ todo'[w] = todo[w] \ {d0}
        /\ txn'[w] = [NoTxn EXCEPT !.date = d0, !.value = Found(d0)]
        /\ pc'[w] = "seen"
        /\ UNCHANGED <<versions, approved, readable, index, pass, live, unreadable, touched>>
    BY <1>1, <1>a DEF NextDate, Goto, TypeOK, archive, history
  <1>3. txn'[w].date = d0 /\ txn'[w].value = Found(d0)
    BY <1>2 DEF NoTxn
  <1>4. ~Locked(w) /\ Locked(w)'
    BY <1>1, <1>2 DEF Locked
  <1>5. \A d \in Dates : Found(d)' = Found(d) /\ Served(d)' = Served(d)
    BY <1>2, FoundStays
  <1>6. Reading(w)'
    BY <1>2, <1>3, <1>5 DEF Reading
  <1>7. ASSUME pass[w] = "first" PROVE txn'[w].value # None /\ d0 \notin live[w]
    <2>1. Servable(d0)
      BY <1>2, <1>7 DEF WalkSound
    <2>2. Exact(d0) # None
      BY <1>1, <2>1, ServedTyped, DerivedTyped DEF Exact, Servable
    <2> QED
      BY <1>2, <1>3, <1>7, <2>1, <2>2 DEF Found, WalkSound
  <1>8. ASSUME pass[w] # "single", NEW d \in Dates \ (todo'[w] \cup touched'[w]), d # d0
        PROVE  Looked(w, d)'
    <2>1. Looked(w, d)
      BY <1>2, <1>4, <1>8 DEF WalkSound
    <2> QED
      BY <1>2, <1>5, <2>1 DEF Looked
  <1> QED
    BY <1>2, <1>3, <1>4, <1>6, <1>7, <1>8 DEF WalkSound

LEMMA SettleAbsentWalks ==
    ASSUME CoverageInv, NEW w \in Walkers, WalkSound(w), SettleAbsent(w)
    PROVE  WalkSound(w)'
  <1>1. TypeOK /\ w \in Processes /\ w \notin Editors /\ Knows(w)
    BY NoneIsNoValue DEF CoverageInv, Processes
  <1>2. /\ pc[w] = "loaded" /\ txn[w].value = None /\ txn[w].loaded = None
        /\ UNCHANGED <<versions, approved, readable, index, pass, todo, live, unreadable, touched>>
    BY DEF SettleAbsent, archive, walk
  <1>3. Locked(w) /\ pass[w] # "first"
    BY <1>1, <1>2 DEF Locked, WalkSound
  <1>4. pc'[w] = "second"
    BY <1>1, <1>2, <1>3 DEF SettleAbsent, Resume, Goto, TypeOK
  <1>5. \A d \in Dates : Found(d)' = Found(d) /\ Served(d)' = Served(d)
    BY <1>2, FoundStays
  <1>6. ASSUME pass[w] # "single", NEW d \in Dates \ (todo[w] \cup touched[w])
        PROVE  Looked(w, d)'
    <2>1. IF txn[w].date = d THEN Reading(w) ELSE Looked(w, d)
      BY <1>3, <1>6 DEF WalkSound
    <2>2. pass[w] = "second"
      BY <1>1, <1>3, <1>6 DEF TypeOK
    <2>3. CASE txn[w].date = d
      <3>1. index[d] = Found(d)
        BY <1>2, <2>1, <2>3 DEF Reading
      <3> QED
        BY <1>2, <1>5, <2>2, <3>1 DEF Looked
    <2>4. CASE txn[w].date # d
      BY <1>2, <1>5, <2>1, <2>4 DEF Looked
    <2> QED
      BY <2>3, <2>4
  <1>7. ~Locked(w)'
    BY <1>1, <1>4 DEF Locked
  <1> QED
    BY <1>2, <1>3, <1>4, <1>6, <1>7 DEF WalkSound

LEMMA CommitEntryWalks ==
    ASSUME CoverageInv, NEW w \in Walkers, WalkSound(w), CommitEntry(w)
    PROVE  WalkSound(w)'
  <1>1. /\ TypeOK /\ w \in Processes /\ w \notin Editors /\ Knows(w) /\ WalkerKnows(w)
    BY NoneIsNoValue DEF CoverageInv, Processes, Knows
  <1>2. PICK d \in Dates : d = txn[w].date
    BY <1>1, OpenTxn DEF CommitEntry, Outside
  <1>3. /\ pc[w] = "flushed" /\ Written(w, d) /\ touched' = TouchedBy(w, d)
        /\ live' = [live EXCEPT ![w] = IF txn[w].write # None THEN @ \cup {d} ELSE @]
        /\ unreadable' = [unreadable EXCEPT ![w] =
                IF txn[w].write # None THEN @ \ {d} ELSE @]
        /\ Resume(w)
        /\ UNCHANGED <<versions, approved, readable, pass, todo>>
    BY <1>2 DEF CommitEntry, Committed, Reported, archive
  <1>4. Locked(w) /\ rowLock[d] = w /\ touched'[w] = touched[w]
    BY <1>1, <1>2, <1>3 DEF Locked, WalkerKnows, TouchedBy
  <1>5. /\ pc'[w] = IF pass[w] = "first" THEN "first" ELSE "second"
        /\ live'[w] = IF txn[w].write # None THEN live[w] \cup {d} ELSE live[w]
        /\ unreadable'[w] = IF txn[w].write # None THEN unreadable[w] \ {d} ELSE unreadable[w]
        /\ index' = [index EXCEPT ![d] = txn[w].write]
    BY <1>1, <1>3, <1>4 DEF Resume, Goto, TypeOK, Written
  <1>6. ~Locked(w)'
    BY <1>1, <1>5 DEF Locked
  <1>7. \A other \in Dates : Found(other)' = Found(other) /\ Served(other)' = Served(other)
    BY <1>3, FoundStays
  <1>8. pass[w] = "first" => d \notin todo[w] /\ txn[w].write # None
    BY <1>1, <1>2, <1>3, <1>4 DEF WalkSound, WalkerKnows
  <1>9. ASSUME pass[w] # "single", NEW other \in Dates \ (todo[w] \cup touched[w])
        PROVE  Looked(w, other)'
    <2>1. IF txn[w].date = other THEN Reading(w) ELSE Looked(w, other)
      BY <1>4, <1>9 DEF WalkSound
    <2>2. CASE other = d
      <3>1. txn[w].write = Found(d)
        BY <1>2, <1>3, <2>1, <2>2 DEF Reading
      <3>2. index'[d] = Found(d)'
        BY <1>1, <1>5, <1>7, <3>1 DEF TypeOK
      <3>3. pass'[w] = "second" \/ d \in live'[w]
        BY <1>1, <1>3, <1>5, <1>8, <1>9 DEF TypeOK
      <3> QED
        BY <2>2, <3>2, <3>3 DEF Looked
    <2>3. CASE other # d
      <3>1. Looked(w, other)
        BY <1>2, <2>1, <2>3
      <3>2. index'[other] = index[other] /\ (other \in live'[w] <=> other \in live[w])
            /\ (other \in unreadable'[w] <=> other \in unreadable[w])
        BY <1>1, <1>5, <2>3 DEF TypeOK
      <3> QED
        BY <1>3, <1>7, <3>1, <3>2 DEF Looked
    <2> QED
      BY <2>2, <2>3
  <1>10. pass[w] = "first" => live'[w] \cap todo'[w] = {}
    BY <1>3, <1>5, <1>8 DEF WalkSound
  <1> QED
    BY <1>3, <1>4, <1>5, <1>6, <1>9, <1>10 DEF WalkSound

LEMMA OwnStepWalks ==
    ASSUME CoverageInv, NEW w \in Walkers, WalkSound(w),
           StartReconcile(w) \/ RebuildStep(w) \/ Statement(w)
    PROVE  WalkSound(w)'
  <1>1. CASE Statement(w)
    BY <1>1, StatementWalks, EndWalks DEF Statement, FlushFails, BreakDeadlock
  <1>2. CASE StartReconcile(w) \/ RebuildStep(w)
    BY <1>2, BetweenDatesWalks, TakeDateWalks, SettleAbsentWalks, CommitEntryWalks,
       ListStaleWalks, EndWalks DEF RebuildStep
  <1> QED
    BY <1>1, <1>2

LEMMA NextWalks ==
    ASSUME CoverageInv, [Next]_vars, NEW w \in Walkers, WalkSound(w)
    PROVE  WalkSound(w)'
  <1>1. TypeOK /\ w \in Processes
    BY DEF CoverageInv, Processes
  <1>2. ASSUME NEW e \in Editors, BeginEdit(e) \/ EditorStep(e) PROVE WalkSound(w)'
    BY <1>2, EditorAside, AsideKeeps
  <1>3. ASSUME NEW v \in Walkers, StartReconcile(v) \/ RebuildStep(v) PROVE WalkSound(w)'
    <2>1. CASE v = w
      BY <1>3, <2>1, OwnStepWalks
    <2>2. CASE v # w
      BY <1>3, <2>2, WalkerAside, AsideKeeps
    <2> QED
      BY <2>1, <2>2
  <1>4. ASSUME NEW x \in Processes, Statement(x) PROVE WalkSound(w)'
    <2>1. CASE x = w
      BY <1>4, <2>1, OwnStepWalks
    <2>2. CASE x # w
      BY <1>1, <1>4, <2>2, StatementAside, AsideKeeps
    <2> QED
      BY <2>1, <2>2
  <1>5. ASSUME NEW d \in Dates, Disturb(d) PROVE WalkSound(w)'
    BY <1>1, <1>5, DisturbAside, AsideKeeps
  <1>6. CASE UNCHANGED vars
    <2>1. UNCHANGED <<versions, approved, readable, index, pc, txn, pass, todo, live,
                      unreadable, touched>>
      BY <1>6 DEF vars, archive, walk, history
    <2> QED
      BY <2>1, QuietAside, AsideKeeps
  <1> QED
    BY <1>2, <1>3, <1>4, <1>5, <1>6 DEF Next

\* A rebuild that finishes has put right every date that nobody changed since
\* its last look, for all dates, editors and walkers: exact entries for what
\* can be served, none for what cannot (rebuild_coverage_index and
\* _drop_stale_entries).
THEOREM RebuildsHeal == Spec => []RebuildHeals
  <1> DEFINE Walks == \A w \in Walkers : WalkSound(w)
  <1>1. Init => Walks
    BY DEF Init, WalkSound, Processes, Locked
  <1>2. CoverageInv /\ Walks /\ [Next]_vars => Walks'
    BY NextWalks
  <1>3. CoverageInv /\ Walks => RebuildHeals
    <2> SUFFICES ASSUME CoverageInv, Walks, NEW w \in Walkers,
                        pc[w] = "done", pass[w] # "single", NEW d \in Dates \ touched[w]
                 PROVE  index[d] = Found(d)
      BY DEF RebuildHeals
    <2>1. pass[w] = "second" /\ todo[w] = {} /\ ~Locked(w)
      BY NoneIsNoValue DEF WalkSound, CoverageInv, TypeOK, Locked
    <2>2. Looked(w, d)
      BY <2>1 DEF WalkSound
    <2> QED
      BY <2>1, <2>2 DEF Looked
  <1> HIDE DEF Walks
  <1> QED
    BY <1>1, <1>2, <1>3, CoverageInvariant, PTL DEF Spec

====
