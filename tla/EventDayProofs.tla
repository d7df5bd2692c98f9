--------------------------- MODULE EventDayProofs ---------------------------
(***************************************************************************)
(* Theorems about EventDay, for every set of events, publishers and every  *)
(* bound.                                                                  *)
(*                                                                         *)
(* A headline is decided under the date's lock and recorded when the       *)
(* transaction commits.  The invariant EventDayInv therefore says what a   *)
(* publisher with a decision in hand knows (Founded): that it still holds  *)
(* the lock and that the decision is the one the rule makes on what is     *)
(* recorded now.                                                           *)
(*                                                                         *)
(* Two invariants concern the events on the manifests: that each version   *)
(* follows the one published before it (Chained), and that every pair on   *)
(* a version was ruled distinct (Admitted).                                *)
(***************************************************************************)
EXTENDS EventDay, NumberLemmas, SequenceTheorems, FiniteSetTheorems, TLAPS

----------------------------------------------------------------------------
(* The invariant.                                                          *)

\* At most one root is selected.
Single(log) == \A r, s \in Roots : Selects(log, r) /\ Selects(log, s) => r = s

\* The binding of a manifest's content is what BindingHonest says.
Honest(c, log) ==
    LET b == c.binding IN
    IF Cardinality(c.events) <= 1 THEN b = None /\ (c.events = {} \/ c.events = {c.head})
    ELSE /\ b # None
         /\ b.root[1] = c.head
         /\ {r[1] : r \in b.ballot} \subseteq c.events
         /\ Cardinality(b.ballot) > 1
         /\ c.head \in c.events
         /\ b.version \in DOMAIN log[b.root]
         /\ log[b.root][b.version].status = "selected"
         /\ log[b.root][b.version].by = b.origin

\* The rows are what the standing rule adds where no person has chosen.
Due(rows, log) ==
    /\ SelectedBy(log, "human") = {}
    /\ \E ballot \in SUBSET Roots : \E chosen \in ballot :
            rows = Rows(log, ballot, chosen, "standing_rule", FALSE)

\* A publisher that is about to record a decision holds the lock under which
\* it was made.
Founded(p) ==
    /\ Honest(job[p].content, With(featured, job[p].rows))
    /\ job[p].rows # NoRows => featLock = p /\ Due(job[p].rows, featured)

\* Several events are on the ballot, and all of them in the payload.
Several(j) ==
    /\ Cardinality(j.ballot) > 1
    /\ {r[1] : r \in j.ballot} \subseteq j.content.events
    /\ Cardinality(j.content.events) > 1

\* What a publisher knows at each step.
Knows(p) ==
    /\ pc[p] # "idle" => job[p].event \in Events
    /\ pc[p] \in {"guard", "asking"} => job[p].event # Golden
    /\ pc[p] = "asking" => job[p].about # 0
    /\ pc[p] = "promoted" => /\ job[p].target \in DOMAIN manifests
    /\ pc[p] # "ready" => job[p].rows = NoRows
    /\ pc[p] = "evaluate" => Several(job[p])
    /\ pc[p] = "ready" => Founded(p)

EventDayInv ==
    /\ TypeOK
    /\ Single(featured)
    /\ \A v \in DOMAIN manifests : Honest(manifests[v].content, featured)
    /\ \A p \in Publishers : Knows(p)

----------------------------------------------------------------------------
(* Sets and sequences.                                                     *)

\* The roots of a date are finitely many.
LEMMA RootsAreFinite == IsFiniteSet(Roots)
  <1>1. IsFiniteSet(Events) /\ MaxRevisions \in Nat
    BY EventDayAssumption
  <1>2. IsFiniteSet(0 .. MaxRevisions)
    BY <1>1, FS_Interval
  <1> QED
    BY <1>1, <1>2, FS_Product DEF Roots

\* Two elements are more than one.
LEMMA TwoAreMany ==
    ASSUME NEW S, IsFiniteSet(S), NEW a \in S, NEW b \in S, a # b
    PROVE  Cardinality(S) > 1
  <1>1. Cardinality(S) \in Nat
    BY FS_CardinalityType
  <1>2. Cardinality(S) # 0
    BY FS_EmptySet
  <1>3. Cardinality(S) # 1
    BY FS_Singleton
  <1> QED
    BY <1>1, <1>2, <1>3

\* An empty or singleton set has at most one element.
LEMMA FewAreOne ==
    ASSUME NEW S, NEW a, S \subseteq {a}
    PROVE  Cardinality(S) <= 1
  <1>1. CASE S = {}
    <2>1. Cardinality(S) = 0
      BY <1>1, FS_EmptySet
    <2> QED
      BY <2>1
  <1>2. CASE S = {a}
    <2>1. Cardinality({a}) = 1
      BY FS_Singleton, Zenon
    <2> QED
      BY <1>2, <2>1
  <1> QED
    BY <1>1, <1>2

\* Concatenation keeps what was there.
LEMMA Concatenated ==
    ASSUME NEW S, NEW s \in Seq(S), NEW t \in Seq(S)
    PROVE  /\ s \o t \in Seq(S)
           /\ Len(s \o t) = Len(s) + Len(t)
           /\ \A n \in DOMAIN s : n \in DOMAIN (s \o t) /\ (s \o t)[n] = s[n]
           /\ t = <<>> => s \o t = s
  BY ConcatProperties

\* A row added at the end is the latest.
LEMMA LatestOfOne ==
    ASSUME NEW S, NEW s \in Seq(S), NEW x \in S
    PROVE  s \o <<x>> # <<>> /\ Latest(s \o <<x>>) = x
  BY ConcatProperties DEF Latest

\* The newest version of a set of versions is one of them.
LEMMA NewestExists ==
    ASSUME NEW n \in Nat, NEW S \in SUBSET (1 .. n)
    PROVE  /\ Newest(S) \in 0 .. n
           /\ S # {} => Newest(S) \in S
           /\ S = {} => Newest(S) = 0
  <1>1. CASE S = {}
    BY <1>1 DEF Newest
  <1>2. CASE S # {}
    <2>1. \E m \in S : \A u \in S : u <= m
      BY <1>2, LargestExists
    <2>2. Newest(S) \in S
      BY <1>2, <2>1 DEF Newest
    <2>3. Newest(S) \in 1 .. n
      BY <2>2
    <2> QED
      BY <1>2, <2>2, <2>3
  <1> QED
    BY <1>1, <1>2

\* The standing rule chooses from its ballot.
LEMMA WinnerExists ==
    ASSUME NEW ballot \in SUBSET Roots, ballot # {}
    PROVE  Winner(ballot) \in ballot
  <1> DEFINE T == {r[1] : r \in ballot}
  <1>1. T \in SUBSET Nat /\ T # {}
    BY EventDayAssumption DEF Roots
  <1>2. PICK m \in T : \A u \in T : m <= u
    BY <1>1, SmallestExists
  <1>3. PICK r \in ballot : r[1] = m
    OBVIOUS
  <1>4. \A other \in ballot : r[1] <= other[1]
    BY <1>2, <1>3
  <1> QED
    BY <1>4 DEF Winner

----------------------------------------------------------------------------
(* Decisions about the headline.                                           *)

Logs == [Roots -> Seq(Row)]

\* A log goes on: what was recorded stays.
Extends(longer, log) ==
    \A r \in Roots : \A n \in DOMAIN log[r] :
        n \in DOMAIN longer[r] /\ longer[r][n] = log[r][n]

LEMMA NothingAdded == NoRows \in Logs /\ \A r \in Roots : NoRows[r] = <<>>
  BY DEF Logs, NoRows

LEMMA WithExtends ==
    ASSUME NEW log \in Logs, NEW rows \in Logs
    PROVE  /\ With(log, rows) \in Logs
           /\ \A r \in Roots : With(log, rows)[r] = log[r] \o rows[r]
           /\ Extends(With(log, rows), log)
  <1>1. \A r \in Roots : log[r] \in Seq(Row) /\ rows[r] \in Seq(Row)
    BY DEF Logs
  <1>2. \A r \in Roots : With(log, rows)[r] = log[r] \o rows[r]
    BY DEF With
  <1>3. \A r \in Roots : log[r] \o rows[r] \in Seq(Row)
    BY <1>1, Concatenated
  <1>4. With(log, rows) \in Logs
    BY <1>3 DEF With, Logs
  <1>5. \A r \in Roots : \A n \in DOMAIN log[r] :
            n \in DOMAIN (log[r] \o rows[r]) /\ (log[r] \o rows[r])[n] = log[r][n]
    BY <1>1, Concatenated
  <1> QED
    BY <1>2, <1>4, <1>5 DEF Extends

LEMMA WithNothing ==
    ASSUME NEW log \in Logs
    PROVE  With(log, NoRows) = log
  <1>1. \A r \in Roots : log[r] \in Seq(Row) /\ NoRows[r] = <<>>
    BY DEF Logs, NoRows
  <1>2. \A r \in Roots : log[r] \o NoRows[r] = log[r]
    BY <1>1, ConcatEmptySeq
  <1>3. With(log, NoRows) = [r \in Roots |-> log[r]]
    BY <1>2 DEF With
  <1> QED
    BY <1>3 DEF Logs

LEMMA RowsTyped ==
    ASSUME NEW log \in Logs, NEW ballot \in SUBSET Roots, NEW chosen \in ballot,
           NEW by \in {"human", "standing_rule"}, NEW fresh \in BOOLEAN
    PROVE  Rows(log, ballot, chosen, by, fresh) \in Logs
  <1>1. \A r \in Roots : RowOf(r, ballot, chosen, by) \in Row
    BY DEF RowOf, Row
  <1>2. \A r \in Roots : <<RowOf(r, ballot, chosen, by)>> \in Seq(Row) /\ <<>> \in Seq(Row)
    BY <1>1
  <1>3. \A r \in Roots : Rows(log, ballot, chosen, by, fresh)[r] \in Seq(Row)
    BY <1>2 DEF Rows
  <1> QED
    BY <1>3 DEF Rows, Logs

\* Where no person's choice overrules the call, it leaves the chosen root
\* selected, by whom it was called, and no other.
LEMMA CallSelectsOne ==
    ASSUME NEW log \in Logs, NEW ballot \in SUBSET Roots, NEW chosen \in ballot,
           NEW by \in {"human", "standing_rule"}, NEW fresh \in BOOLEAN,
           by = "human" \/ SelectedBy(log, "human") = {}
    PROVE  LET after == With(log, Rows(log, ballot, chosen, by, fresh)) IN
           /\ Selects(after, chosen)
           /\ \A r \in Roots : Selects(after, r) => r = chosen
           /\ \A r \in Roots : after[r] # log[r] => Latest(after[r]).by = by
  <1> DEFINE rows == Rows(log, ballot, chosen, by, fresh)
             after == With(log, rows)
             row(r) == RowOf(r, ballot, chosen, by)
  <1>1. rows \in Logs /\ chosen \in Roots
    BY RowsTyped
  <1>2. \A r \in Roots :
            rows[r] = IF Adds(log, r, ballot, chosen, by, fresh) THEN <<row(r)>> ELSE <<>>
    BY DEF Rows
  <1>3. \A r \in Roots : row(r) \in Row /\ row(r).by = by
    BY DEF RowOf, Row
  <1>4. \A r \in Roots : row(r).status = "selected" <=> r = chosen
    BY DEF RowOf
  <1>5. \A r \in Roots : log[r] \in Seq(Row)
    BY DEF Logs
  <1>6. \A r \in Roots : after[r] = log[r] \o rows[r]
    BY <1>1, WithExtends
  <1> HIDE DEF rows, after, row
  <1>7. ASSUME NEW r \in Roots, Adds(log, r, ballot, chosen, by, fresh)
        PROVE  after[r] # <<>> /\ Latest(after[r]) = row(r)
    <2>1. after[r] = log[r] \o <<row(r)>>
      BY <1>2, <1>6, <1>7
    <2> QED
      BY <1>3, <1>5, <2>1, LatestOfOne
  <1>8. ASSUME NEW r \in Roots, ~Adds(log, r, ballot, chosen, by, fresh)
        PROVE  after[r] = log[r]
    <2>1. after[r] = log[r] \o <<>>
      BY <1>2, <1>6, <1>8
    <2> QED
      BY <1>5, <2>1, ConcatEmptySeq
  <1>9. ASSUME NEW r \in Roots
        PROVE  Selects(after, r) <=> r = chosen
    <2>1. CASE Adds(log, r, ballot, chosen, by, fresh)
      <3>1. after[r] # <<>> /\ Latest(after[r]) = row(r)
        BY <1>7, <2>1
      <3> QED
        BY <1>4, <3>1 DEF Selects
    <2>2. CASE ~Adds(log, r, ballot, chosen, by, fresh)
      <3>1. after[r] = log[r]
        BY <1>8, <2>2
      <3>2. CASE r \in ballot
        <4>1. log[r] # <<>> /\ row(r).status = Latest(log[r]).status
          BY <2>2, <3>2 DEF Adds, Same, row
        <4> QED
          BY <1>4, <3>1, <4>1 DEF Selects
      <3>3. CASE r \notin ballot
        <4>1. ~Selects(log, r) /\ r # chosen
          BY <2>2, <3>3 DEF Adds
        <4> QED
          BY <3>1, <4>1 DEF Selects
      <3> QED
        BY <3>2, <3>3
    <2> QED
      BY <2>1, <2>2
  <1>10. ASSUME NEW r \in Roots, after[r] # log[r]
         PROVE  Latest(after[r]).by = by
    <2>1. Adds(log, r, ballot, chosen, by, fresh)
      BY <1>8, <1>10
    <2> QED
      BY <1>3, <1>7, <2>1
  <1> QED
    BY <1>1, <1>9, <1>10 DEF after, rows

\* The binding read off a log names a row that selects its root.
LEMMA BindingNamesARow ==
    ASSUME NEW log \in Logs, NEW r \in Roots, NEW ballot \in SUBSET Roots, Selects(log, r)
    PROVE  /\ BindingOf(log, r, ballot) \in Binding
           /\ Len(log[r]) \in DOMAIN log[r]
           /\ log[r][Len(log[r])].status = "selected"
           /\ log[r][Len(log[r])].by = Latest(log[r]).by
  <1>1. log[r] \in Seq(Row) /\ log[r] # <<>> /\ Latest(log[r]).status = "selected"
    BY DEF Logs, Selects
  <1>2. Len(log[r]) \in Nat \ {0} /\ Len(log[r]) \in DOMAIN log[r]
    BY <1>1, EmptySeq, LenProperties
  <1>3. Latest(log[r]) \in Row
    BY <1>1, <1>2 DEF Latest
  <1> QED
    BY <1>1, <1>2, <1>3 DEF BindingOf, Binding, Latest, Row

\* What is honest stays honest while the log goes on.
LEMMA HonestStays ==
    ASSUME NEW c \in Content, NEW log, NEW longer, Honest(c, log), Extends(longer, log)
    PROVE  Honest(c, longer)
  <1>1. CASE Cardinality(c.events) <= 1
    BY <1>1 DEF Honest
  <1>2. CASE ~(Cardinality(c.events) <= 1)
    <2>1. c.binding # None /\ c.binding.version \in DOMAIN log[c.binding.root]
      BY <1>2 DEF Honest
    <2>2. c.binding.root \in Roots
      BY <2>1 DEF Content, Binding
    <2>3. /\ c.binding.version \in DOMAIN longer[c.binding.root]
          /\ longer[c.binding.root][c.binding.version] = log[c.binding.root][c.binding.version]
      BY <2>1, <2>2 DEF Extends
    <2> QED
      BY <1>2, <2>3 DEF Honest
  <1> QED
    BY <1>1, <1>2

----------------------------------------------------------------------------
(* What is read.                                                           *)

LEMMA Limits ==
    /\ MaxAttempts \in Nat /\ MaxRulings \in Nat /\ MaxChoices \in Nat
    /\ MaxFlips \in Nat /\ MaxRevisions \in Nat /\ MaxMishaps \in Nat
    /\ Golden \in Events /\ Events \subseteq Nat /\ None \notin Events
    /\ None \notin Publishers
  BY EventDayAssumption

\* The manifests that can be read, and the events they carry.
LEMMA ManifestsRead ==
    ASSUME TypeOK
    PROVE  /\ DOMAIN manifests = 1 .. Len(manifests) /\ Len(manifests) \in Nat
           /\ \A v \in DOMAIN manifests : manifests[v] \in Manifest
           /\ \A status : Versions(status) \subseteq DOMAIN manifests
           /\ LatestPublished \in 0 .. Len(manifests)
           /\ \A v \in 0 .. Len(manifests) : Carried(v) \subseteq Events
           /\ \A v : EventsBehind(v) \subseteq Carried(v)
           /\ Carried(0) = {}
  <1>1. manifests \in Seq(Manifest)
    BY DEF TypeOK
  <1>2. DOMAIN manifests = 1 .. Len(manifests) /\ Len(manifests) \in Nat
    BY <1>1
  <1>3. \A v \in DOMAIN manifests : manifests[v] \in Manifest
    BY <1>1
  <1>4. \A status : Versions(status) \subseteq DOMAIN manifests
    BY DEF Versions
  <1>5. LatestPublished \in 0 .. Len(manifests)
    BY <1>2, <1>4, NewestExists DEF LatestPublished
  <1>6. \A v \in 0 .. Len(manifests) : Carried(v) \subseteq Events
    <2>1. \A v \in DOMAIN manifests : manifests[v].content \in Content
      BY <1>3 DEF Manifest
    <2>2. \A v \in DOMAIN manifests : manifests[v].content.events \subseteq Events
      BY <2>1 DEF Content
    <2> QED
      BY <1>2, <2>2 DEF Carried
  <1>7. \A v : EventsBehind(v) \subseteq Carried(v)
    BY DEF EventsBehind
  <1>8. Carried(0) = {}
    BY DEF Carried
  <1> QED
    BY <1>2, <1>3, <1>4, <1>5, <1>6, <1>7, <1>8

LEMMA RootsOfEvents ==
    ASSUME TypeOK, NEW S \in SUBSET Events
    PROVE  /\ {Root(x) : x \in S} \subseteq Roots
           /\ {r[1] : r \in {Root(x) : x \in S}} = S
  <1>1. \A x \in S : Root(x) \in Roots /\ Root(x)[1] = x
    BY Limits DEF TypeOK, Root, Roots
  <1> QED
    BY <1>1

LEMMA NothingTyped == Empty \in Content /\ NoJob \in Job
  <1>1. Empty \in Content
    BY Limits DEF Empty, Content
  <1>2. NoRows \in [Roots -> Seq(Row)]
    BY DEF NoRows
  <1> QED
    BY <1>1, <1>2 DEF NoJob, Job

\* The payload a publisher assembles.
LEMMA AssembledTyped ==
    ASSUME TypeOK, NEW e \in Events, NEW base \in 0 .. Len(manifests)
    PROVE  /\ Assembled(e, base) \in Content
           /\ Assembled(e, base).events = Kept(e, base)
           /\ Assembled(e, base).head = e
           /\ Assembled(e, base).binding = None
           /\ Kept(e, base) \subseteq Events
  <1>1. Kept(e, base) \subseteq Events
    BY ManifestsRead DEF Kept
  <1>2. ASSUME Golden \in Kept(e, base), e # Golden
        PROVE  manifests[base].content.revision \in 0 .. MaxRevisions
    <2>1. Golden \in Carried(base)
      BY <1>2 DEF Kept
    <2>2. base \in DOMAIN manifests
      BY <2>1, ManifestsRead
    <2>3. manifests[base].content \in Content
      BY <2>2, ManifestsRead DEF Manifest
    <2> QED
      BY <2>3 DEF Content
  <1> DEFINE rev == IF e = Golden THEN revision
                    ELSE IF Golden \in Kept(e, base) THEN manifests[base].content.revision
                    ELSE 0
  <1>3. rev \in 0 .. MaxRevisions
    BY <1>2, Limits DEF TypeOK
  <1>4. Assembled(e, base) = [events |-> Kept(e, base), revision |-> rev,
                              head |-> e, binding |-> None]
    <2>1. Assembled(e, base) = [Empty EXCEPT !.events = Kept(e, base), !.head = e,
                                             !.revision = rev]
      BY DEF Assembled
    <2> HIDE DEF rev
    <2> QED
      BY <2>1 DEF Empty
  <1> QED
    BY <1>1, <1>3, <1>4 DEF Content

\* The task a reviewer answers.
LEMMA AnswerableIsTask ==
    ASSUME TypeOK, NEW e \in Candidates, NEW S, NEW i \in Answerable(e, S)
    PROVE  i \in DOMAIN tasks[e] /\ i \in Nat \ {0}
  <1> DEFINE open == Active(e) \cap Concerning(e, S)
             all == Concerning(e, S)
  <1>1. tasks[e] \in Seq(Task)
    BY DEF TypeOK
  <1>2. DOMAIN tasks[e] = 1 .. Len(tasks[e]) /\ Len(tasks[e]) \in Nat
    BY <1>1
  <1>3. open \subseteq DOMAIN tasks[e] /\ all \subseteq DOMAIN tasks[e]
    BY DEF Concerning
  <1> HIDE DEF open, all
  <1>4. open # {} => \E m \in open : \A j \in open : m <= j
    BY <1>2, <1>3, SmallestExists
  <1>5. all # {} => \E m \in all : \A j \in all : j <= m
    BY <1>2, <1>3, LargestExists
  <1>6. \/ open # {} /\ i = (CHOOSE m \in open : \A j \in open : m <= j)
        \/ all # {} /\ i = (CHOOSE m \in all : \A j \in all : j <= m)
    BY DEF Answerable, open, all
  <1>7. i \in DOMAIN tasks[e]
    BY <1>3, <1>4, <1>5, <1>6
  <1> QED
    BY <1>2, <1>7

----------------------------------------------------------------------------
(* Types.                                                                  *)

LEMMA UseTyped ==
    ASSUME TypeOK,
           NEW counter \in {"attempts", "rulings", "choices", "flips", "mishaps"}, NEW bound,
           Use(counter, bound),
           <<counter, bound>> \in {<<"attempts", MaxAttempts>>, <<"rulings", MaxRulings>>,
                <<"choices", MaxChoices>>, <<"flips", MaxFlips>>, <<"mishaps", MaxMishaps>>}
    PROVE  used' \in Bounds
  <1>1. used \in Bounds
    BY DEF TypeOK
  <1>2. CASE counter = "attempts" /\ bound = MaxAttempts
    BY <1>1, <1>2, Limits DEF Use, Bounds
  <1>3. CASE counter = "rulings" /\ bound = MaxRulings
    BY <1>1, <1>3, Limits DEF Use, Bounds
  <1>4. CASE counter = "choices" /\ bound = MaxChoices
    BY <1>1, <1>4, Limits DEF Use, Bounds
  <1>5. CASE counter = "flips" /\ bound = MaxFlips
    BY <1>1, <1>5, Limits DEF Use, Bounds
  <1>6. CASE counter = "mishaps" /\ bound = MaxMishaps
    BY <1>1, <1>6, Limits DEF Use, Bounds
  <1> QED
    BY <1>2, <1>3, <1>4, <1>5, <1>6

LEMMA EndTyped ==
    ASSUME TypeOK, NEW p \in Publishers, End(p)
    PROVE  /\ pc' \in [Publishers -> Steps] /\ job' \in [Publishers -> Job]
           /\ permitted' \in [Publishers -> SUBSET Pairs]
           /\ featLock' \in Publishers \cup {None}
  BY NothingTyped DEF TypeOK, End, Goto, Steps

LEMMA FailTyped ==
    ASSUME TypeOK, NEW p \in Publishers, Fail(p)
    PROVE  TypeOK'
  BY EndTyped DEF TypeOK, Fail

LEMMA BeginTyped ==
    ASSUME TypeOK, NEW p \in Publishers, NEW e \in Events, NEW step \in Steps,
           BeginAttempt(p, e, step)
    PROVE  TypeOK'
  <1>1. used' \in Bounds
    BY UseTyped DEF BeginAttempt
  <1>2. [NoJob EXCEPT !.event = e] \in Job
    BY NothingTyped DEF Job
  <1>3. job' \in [Publishers -> Job]
    BY <1>2 DEF BeginAttempt, TypeOK
  <1>4. pc' \in [Publishers -> Steps]
    BY DEF BeginAttempt, TypeOK, Goto
  <1>5. permitted' \in [Publishers -> SUBSET Pairs]
    BY DEF BeginAttempt, TypeOK
  <1> QED
    BY <1>1, <1>3, <1>4, <1>5 DEF BeginAttempt, TypeOK

LEMMA StoppedTyped ==
    ASSUME TypeOK, NEW p \in Publishers, NEW v \in Nat, Stopped(p, v),
           job[p].event \in Candidates
    PROVE  /\ TypeOK'
           /\ \/ Fail(p)
              \/ /\ pc'[p] = "asking" /\ job'[p].about = v
                 /\ job'[p].event = job[p].event /\ job'[p].rows = job[p].rows
                 /\ UNCHANGED <<manifests, featured, featLock>>
  <1>1. CASE Fail(p)
    BY <1>1, FailTyped
  <1>2. CASE ~Fail(p)
    <2> DEFINE e == job[p].event
               same == Active(e) \cap Concerning(e, EventsBehind(v))
               dismiss == {i \in Active(e) \ same : \A j \in same : i < j}
               opens == same = {}
               j == [job[p] EXCEPT !.about = v, !.opens = opens, !.dismiss = dismiss]
    <2>1. Ask(p, v) /\ UNCHANGED <<manifests, index, revision, selected, featured, rulings,
                                   tasks, featLock, used, permitted>>
      BY <1>2 DEF Stopped
    <2>2. dismiss \in SUBSET Nat
      <3>1. tasks[e] \in Seq(Task)
        BY DEF TypeOK
      <3>2. DOMAIN tasks[e] \subseteq Nat
        BY <3>1
      <3> QED
        BY <3>2 DEF Active
    <2>3. job[p] \in Job /\ opens \in BOOLEAN
      BY DEF TypeOK
    <2>4. job' = [job EXCEPT ![p] = j] /\ pc' = [pc EXCEPT ![p] = "asking"]
      BY <2>1 DEF Ask, Goto
    <2> HIDE DEF dismiss, opens
    <2>5. j \in Job /\ j.about = v /\ j.event = job[p].event /\ j.rows = job[p].rows
      BY <2>2, <2>3 DEF Job
    <2> HIDE DEF j
    <2>6. job' \in [Publishers -> Job] /\ job'[p] = j
      BY <2>4, <2>5 DEF TypeOK
    <2>7. pc' \in [Publishers -> Steps] /\ pc'[p] = "asking"
      BY <2>4 DEF TypeOK, Steps
    <2>8. TypeOK'
      BY <2>1, <2>6, <2>7 DEF TypeOK
    <2> QED
      BY <2>1, <2>5, <2>6, <2>7, <2>8
  <1> QED
    BY <1>1, <1>2

LEMMA GuardTyped ==
    ASSUME TypeOK, NEW p \in Publishers, Knows(p), Guard(p)
    PROVE  TypeOK'
  <1>1. job[p].event \in Candidates
    BY DEF Knows, Guard, Candidates
  <1>2. CASE Stopped(p, index)
    <2>1. index \in Nat
      BY ManifestsRead DEF TypeOK
    <2> QED
      BY <1>1, <1>2, <2>1, StoppedTyped
  <1>3. CASE ~Stopped(p, index)
    <2>1. /\ pc' = [pc EXCEPT ![p] = "carry"]
          /\ UNCHANGED <<manifests, index, revision, selected, featured, rulings, tasks, featLock,
                         job, used, permitted>>
      BY <1>3 DEF Guard, Goto
    <2>2. pc' \in [Publishers -> Steps]
      BY <2>1 DEF TypeOK, Steps
    <2> QED
      BY <2>1, <2>2 DEF TypeOK
  <1> QED
    BY <1>2, <1>3

LEMMA CommitTaskTyped ==
    ASSUME TypeOK, NEW p \in Publishers, Knows(p), CommitTask(p)
    PROVE  TypeOK'
  <1> DEFINE e == job[p].event
             kept == [i \in DOMAIN tasks[e] |->
                         IF i \in job[p].dismiss THEN [tasks[e][i] EXCEPT !.status = "dismissed"]
                         ELSE tasks[e][i]]
             opened == [about |-> job[p].about, status |-> "active"]
  <1>1. e \in Candidates /\ job[p].about # 0 /\ job[p] \in Job
    BY DEF Knows, CommitTask, Candidates, TypeOK
  <1>2. opened \in Task
    <2>1. job[p].about \in Nat
      BY <1>1 DEF Job
    <2> QED
      BY <1>1, <2>1 DEF Task
  <1>3. tasks[e] \in Seq(Task)
    BY <1>1 DEF TypeOK
  <1>4. kept \in Seq(Task)
    <2>1. DOMAIN tasks[e] = 1 .. Len(tasks[e]) /\ Len(tasks[e]) \in Nat
      BY <1>3
    <2>2. ASSUME NEW i \in DOMAIN tasks[e] PROVE kept[i] \in Task
      <3>1. tasks[e][i] \in Task
        BY <1>3
      <3> QED
        BY <3>1 DEF Task
    <2>3. kept \in [1 .. Len(tasks[e]) -> Task]
      BY <2>1, <2>2
    <2> HIDE DEF kept
    <2> QED
      BY <2>1, <2>3, SeqDef
  <1>5. tasks' = [tasks EXCEPT ![e] = IF job[p].opens THEN Append(kept, opened) ELSE kept]
    BY DEF CommitTask
  <1> HIDE DEF kept, opened, e
  <1>6. Append(kept, opened) \in Seq(Task)
    BY <1>2, <1>4, AppendProperties
  <1>7. tasks' \in [Candidates -> Seq(Task)]
    BY <1>4, <1>5, <1>6 DEF TypeOK
  <1>8. End(p) /\ UNCHANGED <<manifests, index, revision, selected, featured, rulings, used>>
    BY DEF CommitTask
  <1> QED
    BY <1>7, <1>8, EndTyped DEF TypeOK

LEMMA PreparedTyped ==
    ASSUME TypeOK, NEW p \in Publishers, job[p].event \in Events,
           NEW base \in 0 .. Len(manifests), NEW others \in SUBSET Events, NEW step \in Steps,
           Prepared(p, base, others, step)
    PROVE  /\ TypeOK'
           /\ pc'[p] = step
           /\ job'[p].event = job[p].event
           /\ job'[p].rows = job[p].rows
           /\ job'[p].content = Assembled(job[p].event, base)
           /\ job'[p].ballot = {Root(x) : x \in {job[p].event} \cup others}
  <1> DEFINE c == Assembled(job[p].event, base)
             ballot == {Root(x) : x \in {job[p].event} \cup others}
             j == [job[p] EXCEPT !.base = base, !.content = c, !.ballot = ballot]
  <1>1. c \in Content
    BY AssembledTyped
  <1>2. ballot \in SUBSET Roots
    <2>1. {job[p].event} \cup others \in SUBSET Events
      OBVIOUS
    <2> QED
      BY <2>1, RootsOfEvents
  <1>3. base \in Nat /\ job[p] \in Job
    BY ManifestsRead DEF TypeOK
  <1>4. job' = [job EXCEPT ![p] = j] /\ pc' = [pc EXCEPT ![p] = step]
    BY DEF Prepared, Goto
  <1> HIDE DEF c, ballot
  <1>5. /\ j \in Job /\ j.event = job[p].event /\ j.rows = job[p].rows
        /\ j.content = c /\ j.ballot = ballot
    BY <1>1, <1>2, <1>3 DEF Job
  <1> HIDE DEF j
  <1>6. job' \in [Publishers -> Job] /\ job'[p] = j
    BY <1>4, <1>5 DEF TypeOK
  <1>7. pc' \in [Publishers -> Steps] /\ pc'[p] = step
    BY <1>4 DEF TypeOK
  <1>8. UNCHANGED <<manifests, index, revision, selected, featured, rulings, tasks, featLock,
                    used, permitted>>
    BY DEF Prepared
  <1>9. TypeOK'
    BY <1>6, <1>7, <1>8 DEF TypeOK
  <1> QED
    BY <1>5, <1>6, <1>7, <1>9 DEF c, ballot

\* The payload and the ballot of a publisher that goes on with others.
LEMMA SeveralPrepared ==
    ASSUME TypeOK, NEW e \in Events, NEW base \in 0 .. Len(manifests),
           NEW others, others = EventsBehind(base) \ {e}, others # {}, others \subseteq selected
    PROVE  LET ballot == {Root(x) : x \in {e} \cup others} IN
           /\ Cardinality(ballot) > 1
           /\ {r[1] : r \in ballot} \subseteq Assembled(e, base).events
           /\ Cardinality(Assembled(e, base).events) > 1
  <1> DEFINE S == {e} \cup others
             ballot == {Root(x) : x \in S}
  <1>1. others \subseteq Carried(base) /\ S \in SUBSET Events
    BY ManifestsRead
  <1>2. S \subseteq Kept(e, base)
    <2>1. ~(EventsBehind(base) \subseteq {e})
      OBVIOUS
    <2> QED
      BY <1>1, <2>1 DEF Kept
  <1>3. PICK x \in others : TRUE
    OBVIOUS
  <1>4. x # e /\ x \in S /\ e \in S
    BY <1>3
  <1>5. ballot \subseteq Roots /\ {r[1] : r \in ballot} = S
    BY <1>1, RootsOfEvents
  <1>6. IsFiniteSet(ballot)
    BY <1>5, RootsAreFinite, FS_Subset
  <1>7. Root(x) \in ballot /\ Root(e) \in ballot /\ Root(x) # Root(e)
    BY <1>4 DEF Root
  <1>8. Cardinality(ballot) > 1
    BY <1>6, <1>7, TwoAreMany
  <1>9. Assembled(e, base).events = Kept(e, base) /\ Kept(e, base) \subseteq Events
    BY AssembledTyped
  <1>10. IsFiniteSet(Kept(e, base))
    BY <1>9, FS_Subset, EventDayAssumption
  <1>11. Cardinality(Kept(e, base)) > 1
    BY <1>2, <1>4, <1>10, TwoAreMany
  <1> QED
    BY <1>2, <1>5, <1>8, <1>9, <1>11

\* What is left of a publisher's command after reading the manifest it
\* builds on: it failed, asks, or goes on alone or with several events.
Carries(p) ==
    \/ Fail(p)
    \/ /\ job'[p].event = job[p].event /\ job'[p].rows = job[p].rows
       /\ UNCHANGED <<manifests, featured, featLock>>
       /\ \/ pc'[p] = "asking" /\ job'[p].about # 0 /\ job[p].event # Golden
          \/ pc'[p] = "evaluate" /\ Several(job'[p])
          \/ /\ pc'[p] = "ready" /\ job'[p].content.binding = None
             /\ job'[p].content.events = {job'[p].content.head}

\* A publisher that finds no other event goes on alone.
LEMMA AlonePrepared ==
    ASSUME TypeOK, NEW p \in Publishers, job[p].event \in Events,
           NEW base \in 0 .. Len(manifests), EventsBehind(base) \subseteq {job[p].event},
           Prepared(p, base, {}, "ready")
    PROVE  TypeOK' /\ Carries(p)
  <1>1. /\ TypeOK' /\ pc'[p] = "ready"
        /\ job'[p].event = job[p].event /\ job'[p].rows = job[p].rows
        /\ job'[p].content = Assembled(job[p].event, base)
    BY PreparedTyped DEF Steps
  <1>2. Kept(job[p].event, base) = {job[p].event}
    BY DEF Kept
  <1>3. /\ job'[p].content.events = {job[p].event} /\ job'[p].content.head = job[p].event
        /\ job'[p].content.binding = None
    BY <1>1, <1>2, AssembledTyped
  <1>4. UNCHANGED <<manifests, featured, featLock>>
    BY DEF Prepared
  <1> QED
    BY <1>1, <1>3, <1>4 DEF Carries

LEMMA CarryCarries ==
    ASSUME TypeOK, NEW p \in Publishers, Knows(p), Carry(p)
    PROVE  TypeOK' /\ Carries(p)
  <1> DEFINE e == job[p].event
             base == LatestPublished
             others == EventsBehind(base) \ {e}
  <1>1. e \in Events /\ e # Golden /\ e \in Candidates
    BY DEF Knows, Carry, Candidates
  <1>2. base \in 0 .. Len(manifests) /\ base \in Nat /\ others \in SUBSET Events
    BY ManifestsRead
  <1>3. \/ Fail(p)
        \/ others = {} /\ Prepared(p, base, others, "ready")
        \/ others # {} /\ MayCarry(e, others) /\ Prepared(p, base, others, "evaluate")
        \/ others # {} /\ Stopped(p, base)
    BY DEF Carry
  <1>4. CASE Fail(p)
    BY <1>4, FailTyped DEF Carries
  <1>5. CASE others = {} /\ Prepared(p, base, others, "ready")
    <2>1. EventsBehind(base) \subseteq {e}
      BY <1>5
    <2>2. Prepared(p, base, {}, "ready")
      BY <1>5
    <2> HIDE DEF base
    <2> QED
      BY <1>1, <1>2, <2>1, <2>2, AlonePrepared
  <1>6. CASE others # {} /\ MayCarry(e, others) /\ Prepared(p, base, others, "evaluate")
    <2>1. others \subseteq selected
      BY <1>6 DEF MayCarry
    <2> HIDE DEF base
    <2>2. /\ TypeOK' /\ pc'[p] = "evaluate"
          /\ job'[p].event = job[p].event /\ job'[p].rows = job[p].rows
          /\ job'[p].content = Assembled(e, base)
          /\ job'[p].ballot = {Root(x) : x \in {e} \cup others}
      BY <1>1, <1>2, <1>6, PreparedTyped DEF Steps
    <2>3. Several(job'[p])
      <3>1. others = EventsBehind(base) \ {e} /\ others # {}
        BY <1>6
      <3> HIDE DEF e, others
      <3> QED
        BY <1>1, <1>2, <2>1, <2>2, <3>1, SeveralPrepared DEF Several
    <2>4. UNCHANGED <<manifests, featured, featLock>>
      BY <1>6 DEF Prepared
    <2> QED
      BY <2>2, <2>3, <2>4 DEF Carries
  <1>7. CASE others # {} /\ Stopped(p, base)
    <2>1. base # 0
      BY <1>7, ManifestsRead
    <2> HIDE DEF base
    <2> QED
      BY <1>1, <1>2, <1>7, <2>1, StoppedTyped DEF Carries
  <1> QED
    BY <1>3, <1>4, <1>5, <1>6, <1>7

LEMMA CarryGoldenCarries ==
    ASSUME TypeOK, NEW p \in Publishers, Knows(p), CarryGolden(p)
    PROVE  TypeOK' /\ Carries(p)
  <1> DEFINE base == LatestPublished
  <1>1. base \in 0 .. Len(manifests) /\ job[p].event = Golden /\ Golden \in Events
    BY ManifestsRead, Limits DEF CarryGolden
  <1>2. \/ Fail(p)
        \/ EventsBehind(base) \subseteq {Golden} /\ Prepared(p, base, {}, "ready")
    BY DEF CarryGolden
  <1>3. CASE Fail(p)
    BY <1>3, FailTyped DEF Carries
  <1>4. CASE EventsBehind(base) \subseteq {Golden} /\ Prepared(p, base, {}, "ready")
    <2> HIDE DEF base
    <2> QED
      BY <1>1, <1>4, AlonePrepared
  <1> QED
    BY <1>2, <1>3, <1>4

----------------------------------------------------------------------------
(* Deciding the headline.                                                  *)

\* What evaluate_featured_event decides: rows that leave its choice selected.
LEMMA EvaluateDecides ==
    ASSUME TypeOK, NEW ballot \in SUBSET Roots, ballot # {}, HumanChoices \subseteq ballot,
           NEW head, head = IF HumanChoices # {} THEN CHOOSE r \in HumanChoices : TRUE
                            ELSE Winner(ballot),
           NEW rows, rows = IF HumanChoices # {} \/ Stands(ballot) THEN NoRows
                            ELSE Rows(featured, ballot, head, "standing_rule", FALSE)
    PROVE  /\ head \in ballot
           /\ rows \in Logs
           /\ Selects(With(featured, rows), head)
           /\ rows # NoRows => Due(rows, featured)
  <1>1. featured \in Logs
    BY DEF TypeOK, Logs
  <1>2. NoRows \in Logs /\ With(featured, NoRows) = featured
    BY <1>1, NothingAdded, WithNothing
  <1>3. CASE HumanChoices # {}
    <2>1. head \in HumanChoices /\ rows = NoRows
      BY <1>3
    <2>2. Selects(featured, head)
      BY <2>1 DEF HumanChoices, SelectedBy
    <2> QED
      BY <1>2, <2>1, <2>2
  <1>4. CASE HumanChoices = {}
    <2>1. head = Winner(ballot) /\ head \in ballot
      BY <1>4, WinnerExists
    <2>2. CASE Stands(ballot)
      <3>1. rows = NoRows /\ Selects(featured, head)
        BY <2>1, <2>2 DEF Stands, SelectedBy
      <3> QED
        BY <1>2, <2>1, <3>1
    <2>3. CASE ~Stands(ballot)
      <3>1. rows = Rows(featured, ballot, head, "standing_rule", FALSE)
        BY <1>4, <2>3
      <3>2. SelectedBy(featured, "human") = {}
        BY <1>4 DEF HumanChoices
      <3>3. rows \in Logs
        BY <1>1, <2>1, <3>1, RowsTyped
      <3> DEFINE called == Rows(featured, ballot, head, "standing_rule", FALSE)
      <3>4. Selects(With(featured, rows), head)
        <4>1. "standing_rule" \in {"human", "standing_rule"} /\ FALSE \in BOOLEAN
          OBVIOUS
        <4>2. Selects(With(featured, called), head)
          BY <1>1, <2>1, <3>2, <4>1, CallSelectsOne
        <4> QED
          BY <3>1, <4>2
      <3>5. Due(rows, featured)
        BY <2>1, <3>1, <3>2 DEF Due
      <3> QED
        BY <2>1, <3>3, <3>4, <3>5
    <2> QED
      BY <2>2, <2>3
  <1> QED
    BY <1>3, <1>4

LEMMA EvaluateFounds ==
    ASSUME TypeOK, NEW p \in Publishers, Knows(p), Evaluate(p), ~Fail(p)
    PROVE  /\ TypeOK'
           /\ pc'[p] = "ready" /\ job'[p].event = job[p].event
           /\ UNCHANGED <<manifests, featured>>
           /\ featLock = None /\ featLock' = p
           /\ Honest(job'[p].content, With(featured, job'[p].rows))
           /\ job'[p].rows # NoRows => Due(job'[p].rows, featured)
  <1> DEFINE ballot == job[p].ballot
             humans == HumanChoices
             head == IF humans # {} THEN CHOOSE r \in humans : TRUE ELSE Winner(ballot)
             rows == IF humans # {} \/ Stands(ballot) THEN NoRows
                     ELSE Rows(featured, ballot, head, "standing_rule", FALSE)
             binding == BindingOf(With(featured, rows), head, ballot)
             c == [job[p].content EXCEPT !.head = head[1], !.binding = binding]
             j == [job[p] EXCEPT !.rows = rows, !.content = c]
  <1>1. /\ humans \subseteq ballot /\ featLock = None /\ featLock' = p
        /\ job' = [job EXCEPT ![p] = j] /\ pc' = [pc EXCEPT ![p] = "ready"]
        /\ UNCHANGED <<manifests, index, revision, selected, featured, rulings, tasks, used,
                       permitted>>
    BY DEF Evaluate, Goto, Holder
  <1>2. job[p] \in Job /\ job[p].content \in Content /\ ballot \in SUBSET Roots
    BY DEF TypeOK, Job
  <1>3. /\ Cardinality(ballot) > 1
        /\ {r[1] : r \in ballot} \subseteq job[p].content.events
        /\ Cardinality(job[p].content.events) > 1
    BY DEF Knows, Evaluate, Several
  <1>4. ballot # {}
    BY <1>3, FS_EmptySet
  <1>5. /\ head \in ballot
        /\ rows \in Logs
        /\ Selects(With(featured, rows), head)
        /\ rows # NoRows => Due(rows, featured)
    <2>1. head = IF HumanChoices # {} THEN CHOOSE r \in HumanChoices : TRUE ELSE Winner(ballot)
      OBVIOUS
    <2>2. rows = IF HumanChoices # {} \/ Stands(ballot) THEN NoRows
                 ELSE Rows(featured, ballot, head, "standing_rule", FALSE)
      OBVIOUS
    <2>3. HumanChoices \subseteq ballot
      BY <1>1
    <2> HIDE DEF head, rows, ballot
    <2> QED
      BY <1>2, <1>4, <2>1, <2>2, <2>3, EvaluateDecides
  <1> HIDE DEF head, rows
  <1>6. With(featured, rows) \in Logs /\ head \in Roots
    BY <1>2, <1>5, WithExtends DEF TypeOK, Logs
  <1>7. /\ binding \in Binding
        /\ binding.root = head /\ binding.ballot = ballot
        /\ binding.version \in DOMAIN With(featured, rows)[head]
        /\ With(featured, rows)[head][binding.version].status = "selected"
        /\ With(featured, rows)[head][binding.version].by = binding.origin
    BY <1>2, <1>5, <1>6, BindingNamesARow DEF BindingOf
  <1> HIDE DEF binding
  <1>8. head[1] \in job[p].content.events /\ head[1] \in Events
    BY <1>2, <1>3, <1>5 DEF Roots
  <1>9. /\ c \in Content /\ c.events = job[p].content.events
        /\ c.head = head[1] /\ c.binding = binding
    BY <1>2, <1>7, <1>8 DEF Content
  <1> HIDE DEF c
  <1>10. /\ j \in Job /\ j.event = job[p].event /\ j.rows = rows /\ j.content = c
    BY <1>2, <1>5, <1>9 DEF Job, Logs
  <1> HIDE DEF j
  <1>11. binding # None
    BY <1>7, BindingAssumption
  <1>12. Honest(c, With(featured, rows))
    <2>1. c.events \subseteq Events /\ c.events = job[p].content.events
      BY <1>9 DEF Content
    <2>2. Cardinality(c.events) \in Nat
      BY <2>1, FS_Subset, FS_CardinalityType, EventDayAssumption
    <2>3. ~(Cardinality(c.events) <= 1)
      BY <1>3, <2>1, <2>2
    <2> QED
      BY <1>3, <1>7, <1>8, <1>9, <1>11, <2>3 DEF Honest
  <1>13. job' \in [Publishers -> Job] /\ job'[p] = j
    BY <1>1, <1>10 DEF TypeOK
  <1>14. pc' \in [Publishers -> Steps] /\ pc'[p] = "ready"
    BY <1>1 DEF TypeOK, Steps
  <1>15. TypeOK'
    BY <1>1, <1>13, <1>14 DEF TypeOK
  <1> QED
    BY <1>1, <1>5, <1>10, <1>12, <1>13, <1>14, <1>15

----------------------------------------------------------------------------
(* Commits, reconciliation and reviewers.                                  *)

\* Manifests are only added and re-statused.
ManifestsKept ==
    \A v \in DOMAIN manifests :
        v \in DOMAIN manifests' /\ manifests'[v].content = manifests[v].content

LEMMA CommitTyped ==
    ASSUME TypeOK, NEW p \in Publishers, NEW target \in Nat, CommitPhaseOne(p, target),
           manifests' \in Seq(Manifest), Len(manifests) <= Len(manifests')
    PROVE  /\ TypeOK'
           /\ featured' = With(featured, job[p].rows)
           /\ pc'[p] = "promoted" /\ job'[p].target = target
           /\ job'[p].event = job[p].event /\ job'[p].rows = NoRows
  <1> DEFINE j == [NoJob EXCEPT !.event = job[p].event, !.content = job[p].content,
                                !.target = target]
  <1>1. job[p] \in Job /\ job[p].rows \in Logs /\ featured \in Logs
    BY DEF TypeOK, Job, Logs
  <1>2. j \in Job /\ j.target = target /\ j.event = job[p].event /\ j.rows = NoRows
    <2>1. NoJob \in Job /\ NoJob.rows = NoRows
      BY NothingTyped DEF NoJob
    <2> QED
      BY <1>1, <2>1 DEF Job
  <1>3. /\ featured' = With(featured, job[p].rows)
        /\ featLock' = IF featLock = p THEN None ELSE featLock
        /\ job' = [job EXCEPT ![p] = j] /\ pc' = [pc EXCEPT ![p] = "promoted"]
        /\ UNCHANGED <<index, revision, selected, rulings, tasks, used, permitted>>
    BY DEF CommitPhaseOne, Goto
  <1> HIDE DEF j
  <1>4. featured' \in [Roots -> Seq(Row)]
    BY <1>1, <1>3, WithExtends DEF Logs
  <1>5. job' \in [Publishers -> Job] /\ job'[p] = j
    BY <1>2, <1>3 DEF TypeOK
  <1>6. pc' \in [Publishers -> Steps] /\ pc'[p] = "promoted"
    BY <1>3 DEF TypeOK, Steps
  <1>7. index' \in 0 .. Len(manifests')
    BY <1>3, ManifestsRead DEF TypeOK
  <1>8. featLock' \in Publishers \cup {None}
    BY <1>3 DEF TypeOK
  <1>9. TypeOK'
    BY <1>3, <1>4, <1>5, <1>6, <1>7, <1>8 DEF TypeOK
  <1> QED
    BY <1>2, <1>3, <1>5, <1>6, <1>9

LEMMA UnchangedTyped ==
    ASSUME TypeOK, NEW p \in Publishers, NEW force, Unchanged(p, force)
    PROVE  TypeOK'
  <1>1. job[p].rows \in Logs /\ featured \in Logs
    BY DEF TypeOK, Job, Logs
  <1>2. featured' \in [Roots -> Seq(Row)]
    BY <1>1, WithExtends DEF Unchanged, Logs
  <1>3. index' \in 0 .. Len(manifests)
    BY ManifestsRead DEF Unchanged
  <1>4. End(p) /\ UNCHANGED <<manifests, revision, selected, rulings, tasks, used>>
    BY DEF Unchanged
  <1> QED
    BY <1>2, <1>3, <1>4, EndTyped DEF TypeOK

LEMMA AdoptTyped ==
    ASSUME TypeOK, NEW p \in Publishers, NEW force, Adopt(p, force)
    PROVE  /\ TypeOK'
           /\ manifests' = manifests
           /\ featured' = With(featured, job[p].rows)
           /\ pc'[p] = "promoted" /\ job'[p].target \in DOMAIN manifests
           /\ job'[p].event = job[p].event /\ job'[p].rows = NoRows
  <1>1. PICK v \in Versions("draft") : CommitPhaseOne(p, v)
    BY DEF Adopt
  <1>2. manifests' = manifests
    BY DEF Adopt
  <1>3. v \in DOMAIN manifests /\ v \in Nat
    BY ManifestsRead
  <1>4. manifests' \in Seq(Manifest) /\ Len(manifests) <= Len(manifests')
    BY <1>2, ManifestsRead DEF TypeOK
  <1> QED
    BY <1>1, <1>2, <1>3, <1>4, CommitTyped

LEMMA StartVersionTyped ==
    ASSUME TypeOK, NEW p \in Publishers, NEW force, StartVersion(p, force)
    PROVE  /\ TypeOK' /\ ManifestsKept
           /\ \A v \in DOMAIN manifests' :
                v \in DOMAIN manifests \/ manifests'[v].content = job[p].content
           /\ featured' = With(featured, job[p].rows)
           /\ pc'[p] = "promoted" /\ job'[p].target \in DOMAIN manifests'
           /\ job'[p].event = job[p].event /\ job'[p].rows = NoRows
  <1> DEFINE m == [status |-> "draft", base |-> job[p].base, content |-> job[p].content]
             n == Len(manifests) + 1
  <1>1. m \in Manifest
    <2>1. job[p].base \in Nat /\ job[p].content \in Content
      BY DEF TypeOK, Job
    <2> QED
      BY <2>1 DEF Manifest
  <1>2. manifests' = Append(manifests, m) /\ CommitPhaseOne(p, n)
    BY DEF StartVersion
  <1>3. manifests \in Seq(Manifest) /\ Len(manifests) \in Nat
    BY DEF TypeOK
  <1> HIDE DEF m
  <1>4. /\ manifests' \in Seq(Manifest) /\ Len(manifests') = n
        /\ \A v \in 1 .. Len(manifests) : manifests'[v] = manifests[v]
        /\ manifests'[n] = m
    BY <1>1, <1>2, <1>3, AppendProperties
  <1>5. DOMAIN manifests' = 1 .. n /\ DOMAIN manifests = 1 .. Len(manifests)
    BY <1>3, <1>4
  <1>6. m.content = job[p].content
    BY DEF m
  <1>7. ManifestsKept
    BY <1>3, <1>4, <1>5 DEF ManifestsKept
  <1>8. ASSUME NEW v \in DOMAIN manifests'
        PROVE  v \in DOMAIN manifests \/ manifests'[v].content = job[p].content
    <2>1. v \in DOMAIN manifests \/ v = n
      BY <1>3, <1>5
    <2> QED
      BY <1>4, <1>6, <2>1
  <1>9. n \in Nat /\ n \in DOMAIN manifests' /\ Len(manifests) <= Len(manifests')
    BY <1>3, <1>4, <1>5
  <1> HIDE DEF n
  <1> QED
    BY <1>2, <1>4, <1>7, <1>8, <1>9, CommitTyped

\* A manifest of the date gets another status.
LEMMA StatusTyped ==
    ASSUME TypeOK, NEW v \in DOMAIN manifests,
           NEW status \in {"draft", "published", "withdrawn"},
           manifests' = [manifests EXCEPT ![v].status = status]
    PROVE  /\ manifests' \in Seq(Manifest) /\ Len(manifests') = Len(manifests)
           /\ ManifestsKept /\ DOMAIN manifests' = DOMAIN manifests
           /\ v \in 0 .. Len(manifests)
  <1>1. manifests \in Seq(Manifest)
    BY DEF TypeOK
  <1>2. manifests[v] \in Manifest
    BY <1>1
  <1> DEFINE m == [manifests[v] EXCEPT !.status = status]
  <1>3. m \in Manifest /\ m.content = manifests[v].content
    BY <1>2 DEF Manifest
  <1>4. manifests' = [manifests EXCEPT ![v] = m]
    OBVIOUS
  <1> HIDE DEF m
  <1>5. manifests' \in Seq(Manifest) /\ Len(manifests') = Len(manifests)
    BY <1>1, <1>3, <1>4, ExceptSeq
  <1>6. DOMAIN manifests' = DOMAIN manifests
    BY <1>4
  <1>7. ManifestsKept
    BY <1>3, <1>4 DEF ManifestsKept
  <1> QED
    BY <1>5, <1>6, <1>7, ManifestsRead

LEMMA CompleteTyped ==
    ASSUME TypeOK, NEW p \in Publishers, Knows(p), Complete(p)
    PROVE  TypeOK' /\ ManifestsKept /\ DOMAIN manifests' = DOMAIN manifests
  <1> DEFINE v == job[p].target
  <1>1. v \in DOMAIN manifests
    BY DEF Knows, Complete
  <1>2. End(p) /\ UNCHANGED <<revision, selected, featured, rulings, tasks, used>>
    BY DEF Complete
  <1>3. CASE Publish(v)
    <2> HIDE DEF v
    <2>1. /\ manifests' \in Seq(Manifest) /\ Len(manifests') = Len(manifests)
          /\ ManifestsKept /\ DOMAIN manifests' = DOMAIN manifests
          /\ v \in 0 .. Len(manifests) /\ index' = v
      BY <1>1, <1>3, StatusTyped DEF Publish
    <2> QED
      BY <1>2, <2>1, EndTyped DEF TypeOK
  <1>4. CASE UNCHANGED <<manifests, index>>
    BY <1>2, <1>4, EndTyped DEF TypeOK, ManifestsKept
  <1> QED
    BY <1>3, <1>4 DEF Complete

LEMMA ReconcileTyped ==
    ASSUME TypeOK, ReconcileDraft
    PROVE  TypeOK' /\ ManifestsKept /\ DOMAIN manifests' = DOMAIN manifests
  <1>1. PICK v \in Versions("draft") :
            \/ Publish(v) /\ UNCHANGED used
            \/ /\ Use("mishaps", MaxMishaps)
               /\ manifests' = [manifests EXCEPT ![v].status = "withdrawn"]
               /\ UNCHANGED index
    BY DEF ReconcileDraft
  <1>2. v \in DOMAIN manifests
    BY ManifestsRead
  <1>3. UNCHANGED <<revision, selected, featured, rulings, tasks, featLock, pc, job, permitted>>
    BY DEF ReconcileDraft
  <1>4. CASE Publish(v) /\ UNCHANGED used
    <2>1. /\ manifests' \in Seq(Manifest) /\ Len(manifests') = Len(manifests)
          /\ ManifestsKept /\ DOMAIN manifests' = DOMAIN manifests
          /\ v \in 0 .. Len(manifests) /\ index' = v
      BY <1>2, <1>4, StatusTyped DEF Publish
    <2> QED
      BY <1>3, <1>4, <2>1 DEF TypeOK
  <1>5. CASE /\ Use("mishaps", MaxMishaps)
             /\ manifests' = [manifests EXCEPT ![v].status = "withdrawn"]
             /\ UNCHANGED index
    <2>1. used' \in Bounds
      BY <1>5, UseTyped
    <2>2. /\ manifests' \in Seq(Manifest) /\ Len(manifests') = Len(manifests)
          /\ ManifestsKept /\ DOMAIN manifests' = DOMAIN manifests
      BY <1>2, <1>5, StatusTyped
    <2> QED
      BY <1>3, <1>5, <2>1, <2>2 DEF TypeOK
  <1> QED
    BY <1>1, <1>4, <1>5

LEMMA SurroundingsTyped ==
    ASSUME TypeOK, IndexLag \/ (\E e \in Events : FlipSelection(e)) \/ Reresolve
    PROVE  TypeOK' /\ UNCHANGED <<manifests, featured, featLock, pc, job>>
  <1>1. CASE IndexLag
    <2>1. used' \in Bounds
      BY <1>1, UseTyped DEF IndexLag
    <2>2. index' \in 0 .. Len(manifests)
      BY <1>1, ManifestsRead DEF IndexLag
    <2> QED
      BY <1>1, <2>1, <2>2 DEF TypeOK, IndexLag
  <1>2. CASE \E e \in Events : FlipSelection(e)
    <2>1. PICK e \in Events : FlipSelection(e)
      BY <1>2
    <2>2. used' \in Bounds
      BY <2>1, UseTyped DEF FlipSelection
    <2>3. selected' \subseteq Events
      BY <2>1 DEF FlipSelection, TypeOK
    <2> QED
      BY <2>1, <2>2, <2>3 DEF TypeOK, FlipSelection
  <1>3. CASE Reresolve
    <2>1. revision' \in 0 .. MaxRevisions
      BY <1>3, Limits DEF Reresolve, TypeOK
    <2>2. selected' \subseteq Events
      BY <1>3, Limits DEF Reresolve, TypeOK
    <2> QED
      BY <1>3, <2>1, <2>2 DEF Reresolve, TypeOK
  <1> QED
    BY <1>1, <1>2, <1>3

LEMMA ChooseTyped ==
    ASSUME TypeOK, NEW ballot \in SUBSET CurrentRoots, NEW chosen \in ballot,
           NEW fresh \in BOOLEAN, ChooseHeadline(ballot, chosen, fresh)
    PROVE  /\ TypeOK' /\ UNCHANGED <<manifests, featLock, pc, job>>
           /\ featLock = None /\ ballot \subseteq Roots
           /\ featured' = With(featured, Rows(featured, ballot, chosen, "human", fresh))
  <1>1. CurrentRoots \subseteq Roots
    BY RootsOfEvents DEF CurrentRoots
  <1>2. /\ Use("choices", MaxChoices) /\ featLock = None
        /\ featured' = With(featured, Rows(featured, ballot, chosen, "human", fresh))
        /\ UNCHANGED <<manifests, index, revision, selected, rulings, tasks, featLock, pc, job,
                       permitted>>
    BY DEF ChooseHeadline
  <1>3. used' \in Bounds
    BY <1>2, UseTyped
  <1>4. featured \in Logs /\ ballot \in SUBSET Roots /\ "human" \in {"human", "standing_rule"}
    BY <1>1 DEF TypeOK, Logs
  <1>5. Rows(featured, ballot, chosen, "human", fresh) \in Logs
    BY <1>4, RowsTyped
  <1>6. featured' \in [Roots -> Seq(Row)]
    BY <1>2, <1>4, <1>5, WithExtends DEF Logs
  <1>7. TypeOK'
    BY <1>2, <1>3, <1>6 DEF TypeOK
  <1> QED
    BY <1>2, <1>4, <1>7

LEMMA RuleTyped ==
    ASSUME TypeOK, NEW e \in Candidates, NEW says \in Answers, RuleOnCollision(e, says)
    PROVE  TypeOK' /\ UNCHANGED <<manifests, featured, featLock, pc, job>>
  <1>1. PICK i \in Answerable(e, EventsBehind(index)) :
        /\ rulings' = [pair \in Pairs |->
                IF e \in pair /\ pair \ {e} \subseteq EventsBehind(index)
                THEN Ruled(rulings[pair], [says |-> says, asked |-> e, task |-> i])
                ELSE rulings[pair]]
        /\ tasks' = IF i \in Active(e) THEN [tasks EXCEPT ![e] = Resolved(@, i)] ELSE tasks
    BY DEF RuleOnCollision
  <1>2. i \in DOMAIN tasks[e] /\ i \in Nat \ {0}
    BY AnswerableIsTask
  <1> DEFINE ruling == [says |-> says, asked |-> e, task |-> i]
  <1>3. ruling \in Ruling
    BY <1>2 DEF Ruling
  <1> HIDE DEF ruling
  <1>4. \A pair \in Pairs : Ruled(rulings[pair], ruling) \in Seq(Ruling)
    BY <1>3 DEF Ruled, TypeOK
  <1>5. rulings' \in [Pairs -> Seq(Ruling)]
    BY <1>1, <1>4 DEF TypeOK, ruling
  <1>6. tasks[e] \in Seq(Task)
    BY DEF TypeOK
  <1>7. Resolved(tasks[e], i) \in Seq(Task)
    <2>1. tasks[e][i] \in Task
      BY <1>2, <1>6
    <2>2. [tasks[e][i] EXCEPT !.status = "resolved"] \in Task
      BY <2>1 DEF Task
    <2>3. Resolved(tasks[e], i) =
              [tasks[e] EXCEPT ![i] = [tasks[e][i] EXCEPT !.status = "resolved"]]
      BY DEF Resolved
    <2> QED
      BY <1>2, <1>6, <2>2, <2>3, ExceptSeq
  <1>8. tasks' \in [Candidates -> Seq(Task)]
    BY <1>1, <1>7 DEF TypeOK
  <1>9. used' \in Bounds
    BY UseTyped DEF RuleOnCollision
  <1>10. permitted' \in [Publishers -> SUBSET Pairs]
    BY DEF RuleOnCollision, TypeOK
  <1>11. UNCHANGED <<manifests, index, revision, selected, featured, featLock, pc, job>>
    BY DEF RuleOnCollision
  <1> QED
    BY <1>5, <1>8, <1>9, <1>10, <1>11 DEF TypeOK

----------------------------------------------------------------------------
(* One step of a publisher.                                                *)

\* A publisher records headline decisions, if at all, when it commits.
Records(p) ==
    \/ featured' = featured
    \/ pc[p] = "ready" /\ pc'[p] # "ready" /\ featured' = With(featured, job[p].rows)

\* A manifest is new only if a publisher commits its payload.
Opens(p) ==
    \A v \in DOMAIN manifests' :
        \/ v \in DOMAIN manifests
        \/ /\ pc[p] = "ready" /\ manifests'[v].content = job[p].content
           /\ featured' = With(featured, job[p].rows)

\* What a step of publisher p does to the rows and to what it knows.
Sound(p) == TypeOK' /\ ManifestsKept /\ Opens(p) /\ Records(p) /\ Knows(p)'

\* A command that has ended knows nothing.
LEMMA EndKnows ==
    ASSUME TypeOK, NEW p \in Publishers, End(p)
    PROVE  Knows(p)' /\ pc'[p] = "idle"
  <1>1. pc'[p] = "idle" /\ job'[p] = NoJob
    BY DEF End, Goto, TypeOK
  <1> QED
    BY <1>1 DEF Knows, NoJob

LEMMA FailSound ==
    ASSUME TypeOK, NEW p \in Publishers, Fail(p)
    PROVE  Sound(p)
  <1>1. End(p) /\ UNCHANGED <<manifests, featured>>
    BY DEF Fail
  <1> QED
    BY <1>1, FailTyped, EndKnows DEF Sound, ManifestsKept, Opens, Records

LEMMA BeginSound ==
    ASSUME EventDayInv, NEW p \in Publishers, Begin(p) \/ BeginGolden(p)
    PROVE  Sound(p)
  <1>1. TypeOK
    BY DEF EventDayInv
  <1>2. PICK e \in Events, step \in {"guard", "carry"} :
            BeginAttempt(p, e, step) /\ (step = "guard" => e # Golden)
    BY Limits DEF Begin, BeginGolden, Candidates
  <1>3. TypeOK'
    BY <1>1, <1>2, BeginTyped DEF Steps
  <1>4. /\ pc'[p] = step /\ job'[p] = [NoJob EXCEPT !.event = e]
        /\ UNCHANGED <<manifests, featured>>
    BY <1>1, <1>2 DEF BeginAttempt, Goto, TypeOK
  <1>5. job'[p].event = e /\ job'[p].rows = NoRows
    BY <1>4 DEF NoJob
  <1>6. Knows(p)'
    BY <1>2, <1>4, <1>5 DEF Knows
  <1> QED
    BY <1>3, <1>4, <1>6 DEF Sound, ManifestsKept, Opens, Records

LEMMA GuardSound ==
    ASSUME EventDayInv, NEW p \in Publishers, Guard(p)
    PROVE  Sound(p)
  <1>1. TypeOK /\ Knows(p)
    BY DEF EventDayInv
  <1>2. TypeOK'
    BY <1>1, GuardTyped
  <1>3. job[p].event \in Candidates /\ job[p].rows = NoRows /\ pc[p] = "guard"
    BY <1>1 DEF Knows, Guard, Candidates
  <1>4. index \in Nat
    BY <1>1, ManifestsRead DEF TypeOK
  <1>5. CASE Fail(p)
    BY <1>1, <1>5, FailSound
  <1>6. CASE Stopped(p, index) /\ Collides(job[p].event) /\ ~Fail(p)
    <2>1. index # 0
      BY <1>1, <1>6, ManifestsRead DEF Collides
    <2>2. /\ pc'[p] = "asking" /\ job'[p].about = index
          /\ job'[p].event = job[p].event /\ job'[p].rows = job[p].rows
          /\ UNCHANGED <<manifests, featured>>
      BY <1>1, <1>3, <1>4, <1>6, StoppedTyped
    <2>3. Knows(p)'
      BY <1>3, <2>1, <2>2 DEF Knows, Candidates
    <2> QED
      BY <1>2, <2>2, <2>3 DEF Sound, ManifestsKept, Opens, Records
  <1>7. CASE Goto(p, "carry") /\ UNCHANGED <<manifests, featured, job>>
    <2>1. pc'[p] = "carry"
      BY <1>1, <1>7 DEF Goto, TypeOK
    <2>2. Knows(p)'
      BY <1>3, <1>7, <2>1 DEF Knows, Candidates
    <2> QED
      BY <1>2, <1>7, <2>2 DEF Sound, ManifestsKept, Opens, Records
  <1> QED
    BY <1>5, <1>6, <1>7 DEF Guard

LEMMA CommitTaskSound ==
    ASSUME EventDayInv, NEW p \in Publishers, CommitTask(p)
    PROVE  Sound(p)
  <1>1. TypeOK /\ Knows(p)
    BY DEF EventDayInv
  <1>2. End(p) /\ UNCHANGED <<manifests, featured>>
    BY DEF CommitTask
  <1> QED
    BY <1>1, <1>2, CommitTaskTyped, EndKnows DEF Sound, ManifestsKept, Opens, Records

LEMMA CarrySound ==
    ASSUME EventDayInv, NEW p \in Publishers, Carry(p) \/ CarryGolden(p)
    PROVE  Sound(p)
  <1>1. TypeOK /\ Knows(p)
    BY DEF EventDayInv
  <1>2. TypeOK' /\ Carries(p)
    BY <1>1, CarryCarries, CarryGoldenCarries
  <1>3. job[p].event \in Events /\ job[p].rows = NoRows
    BY <1>1 DEF Knows, Carry, CarryGolden
  <1>4. CASE Fail(p)
    BY <1>1, <1>4, FailSound
  <1>5. CASE ~Fail(p)
    <2>1. /\ job'[p].event = job[p].event /\ job'[p].rows = job[p].rows
          /\ UNCHANGED <<manifests, featured, featLock>>
      BY <1>2, <1>5 DEF Carries
    <2>2. Knows(p)'
      <3>1. CASE pc'[p] = "asking" /\ job'[p].about # 0 /\ job[p].event # Golden
        BY <1>3, <2>1, <3>1 DEF Knows
      <3>2. CASE pc'[p] = "evaluate" /\ Several(job'[p])
        <4>1. (Several(job[p]))'
          BY <3>2 DEF Several
        <4> QED
          BY <1>3, <2>1, <3>2, <4>1 DEF Knows
      <3>3. CASE /\ pc'[p] = "ready" /\ job'[p].content.binding = None
                 /\ job'[p].content.events = {job'[p].content.head}
        <4>1. Cardinality(job'[p].content.events) <= 1
          BY <3>3, FewAreOne
        <4>2. (Honest(job[p].content, With(featured, job[p].rows)))'
          BY <3>3, <4>1 DEF Honest
        <4>3. Founded(p)'
          BY <1>3, <2>1, <4>2 DEF Founded
        <4> QED
          BY <1>3, <2>1, <3>3, <4>3 DEF Knows
      <3> QED
        BY <1>2, <1>5, <3>1, <3>2, <3>3 DEF Carries
    <2> QED
      BY <1>2, <2>1, <2>2 DEF Sound, ManifestsKept, Opens, Records
  <1> QED
    BY <1>4, <1>5

LEMMA EvaluateSound ==
    ASSUME EventDayInv, NEW p \in Publishers, Evaluate(p)
    PROVE  Sound(p)
  <1>1. TypeOK /\ Knows(p)
    BY DEF EventDayInv
  <1>2. CASE Fail(p)
    BY <1>1, <1>2, FailSound
  <1>3. CASE ~Fail(p)
    <2>1. /\ TypeOK'
          /\ pc'[p] = "ready" /\ job'[p].event = job[p].event
          /\ UNCHANGED <<manifests, featured>>
          /\ featLock' = p
          /\ Honest(job'[p].content, With(featured, job'[p].rows))
          /\ job'[p].rows # NoRows => Due(job'[p].rows, featured)
      BY <1>1, <1>3, EvaluateFounds
    <2>2. job[p].event \in Events
      BY <1>1 DEF Knows, Evaluate
    <2>3. Honest(job'[p].content, With(featured', job'[p].rows))
      BY <2>1
    <2>4. job'[p].rows # NoRows => Due(job'[p].rows, featured')
      BY <2>1
    <2>5. Founded(p)'
      BY <2>1, <2>3, <2>4 DEF Founded
    <2>6. Knows(p)'
      BY <2>1, <2>2, <2>5 DEF Knows
    <2> QED
      BY <2>1, <2>6 DEF Sound, ManifestsKept, Opens, Records
  <1> QED
    BY <1>2, <1>3

LEMMA CommitSound ==
    ASSUME EventDayInv, NEW p \in Publishers, NEW force \in BOOLEAN,
           \/ Unchanged(p, force) \/ Adopt(p, force)
           \/ StartVersion(p, force) \/ RefuseVersion(p, force)
    PROVE  Sound(p)
  <1>1. TypeOK /\ Knows(p)
    BY DEF EventDayInv
  <1>2. pc[p] = "ready" /\ job[p].event \in Events
    BY <1>1 DEF Knows, Unchanged, Adopt, StartVersion, RefuseVersion, PastIdempotency
  <1>3. CASE Unchanged(p, force)
    <2>1. End(p) /\ manifests' = manifests /\ featured' = With(featured, job[p].rows)
      BY <1>3 DEF Unchanged
    <2>2. Knows(p)' /\ pc'[p] = "idle"
      BY <1>1, <2>1, EndKnows
    <2> QED
      BY <1>1, <1>2, <1>3, <2>1, <2>2, UnchangedTyped
         DEF Sound, ManifestsKept, Opens, Records
  <1>4. CASE Adopt(p, force)
    <2>1. /\ TypeOK' /\ manifests' = manifests
          /\ featured' = With(featured, job[p].rows)
          /\ pc'[p] = "promoted" /\ job'[p].target \in DOMAIN manifests
          /\ job'[p].event = job[p].event /\ job'[p].rows = NoRows
      BY <1>1, <1>4, AdoptTyped
    <2>2. Knows(p)'
      BY <1>2, <2>1 DEF Knows
    <2> QED
      BY <1>2, <2>1, <2>2 DEF Sound, ManifestsKept, Opens, Records
  <1>5. CASE StartVersion(p, force)
    <2>1. /\ TypeOK' /\ ManifestsKept
          /\ \A v \in DOMAIN manifests' :
                v \in DOMAIN manifests \/ manifests'[v].content = job[p].content
          /\ featured' = With(featured, job[p].rows)
          /\ pc'[p] = "promoted" /\ job'[p].target \in DOMAIN manifests'
          /\ job'[p].event = job[p].event /\ job'[p].rows = NoRows
      BY <1>1, <1>5, StartVersionTyped
    <2>2. Knows(p)'
      BY <1>2, <2>1 DEF Knows
    <2> QED
      BY <1>2, <2>1, <2>2 DEF Sound, Opens, Records
  <1>6. CASE RefuseVersion(p, force)
    <2>1. Fail(p)
      BY <1>6 DEF RefuseVersion
    <2> QED
      BY <1>1, <2>1, FailSound
  <1> QED
    BY <1>3, <1>4, <1>5, <1>6

LEMMA CompleteSound ==
    ASSUME EventDayInv, NEW p \in Publishers, Complete(p)
    PROVE  Sound(p)
  <1>1. TypeOK /\ Knows(p)
    BY DEF EventDayInv
  <1>2. TypeOK' /\ ManifestsKept /\ DOMAIN manifests' = DOMAIN manifests
    BY <1>1, CompleteTyped
  <1>3. End(p) /\ featured' = featured
    BY DEF Complete
  <1> QED
    BY <1>1, <1>2, <1>3, EndKnows DEF Sound, Opens, Records

LEMMA AttemptSound ==
    ASSUME EventDayInv, NEW p \in Publishers, Attempt(p)
    PROVE  Sound(p)
  <1>1. TypeOK
    BY DEF EventDayInv
  <1>2. Crash(p) => Sound(p)
    BY <1>1, FailSound DEF Crash
  <1> QED
    BY <1>2, BeginSound, GuardSound, CommitTaskSound, CarrySound, EvaluateSound, CommitSound,
       CompleteSound DEF Attempt

\* A publisher leaves the others alone, and the lock where they hold it.
LEMMA OthersUndisturbed ==
    ASSUME TypeOK, NEW p \in Publishers, NEW q \in Publishers, q # p, Attempt(p)
    PROVE  /\ pc'[q] = pc[q] /\ job'[q] = job[q]
           /\ featLock = q => featLock' = q
  <1>1. None # q /\ pc \in [Publishers -> Steps] /\ job \in [Publishers -> Job]
    BY Limits DEF TypeOK
  <1>2. ASSUME End(p)
        PROVE  pc'[q] = pc[q] /\ job'[q] = job[q] /\ (featLock = q => featLock' = q)
    BY <1>1, <1>2 DEF End, Goto
  <1>3. CASE Begin(p) \/ BeginGolden(p)
    BY <1>1, <1>3 DEF Begin, BeginGolden, BeginAttempt, Goto
  <1>4. ASSUME NEW v, Stopped(p, v)
        PROVE  pc'[q] = pc[q] /\ job'[q] = job[q] /\ (featLock = q => featLock' = q)
    <2>1. CASE Fail(p)
      BY <1>2, <2>1 DEF Fail
    <2>2. CASE Ask(p, v) /\ featLock' = featLock
      BY <1>1, <2>2 DEF Ask, Goto
    <2> QED
      BY <1>4, <2>1, <2>2 DEF Stopped
  <1>5. CASE Guard(p)
    <2>1. CASE Stopped(p, index)
      BY <1>4, <2>1
    <2>2. CASE Goto(p, "carry") /\ UNCHANGED <<job, featLock>>
      BY <1>1, <2>2 DEF Goto
    <2> QED
      BY <1>5, <2>1, <2>2 DEF Guard
  <1>6. CASE CommitTask(p)
    BY <1>2, <1>6 DEF CommitTask
  <1>7. ASSUME NEW base, NEW others, NEW step, Prepared(p, base, others, step)
        PROVE  pc'[q] = pc[q] /\ job'[q] = job[q] /\ (featLock = q => featLock' = q)
    BY <1>1, <1>7 DEF Prepared, Goto
  <1>8. CASE Carry(p) \/ CarryGolden(p)
    <2>1. CASE Fail(p)
      BY <1>2, <2>1 DEF Fail
    <2>2. CASE \E v : Stopped(p, v)
      BY <1>4, <2>2
    <2>3. CASE \E base, others, step : Prepared(p, base, others, step)
      BY <1>7, <2>3
    <2>4. \/ Fail(p) \/ Stopped(p, LatestPublished)
          \/ Prepared(p, LatestPublished, EventsBehind(LatestPublished) \ {job[p].event}, "ready")
          \/ Prepared(p, LatestPublished, EventsBehind(LatestPublished) \ {job[p].event},
                      "evaluate")
          \/ Prepared(p, LatestPublished, {}, "ready")
      BY <1>8 DEF Carry, CarryGolden
    <2> QED
      BY <2>1, <2>2, <2>3, <2>4
  <1>9. CASE Evaluate(p)
    <2>1. CASE Fail(p)
      BY <1>2, <2>1 DEF Fail
    <2>2. CASE ~Fail(p)
      <3>1. featLock = None
        BY <1>9 DEF Evaluate
      <3>2. /\ pc' = [pc EXCEPT ![p] = "ready"]
            /\ \E j : job' = [job EXCEPT ![p] = j]
        BY <1>9, <2>2 DEF Evaluate, Goto
      <3> QED
        BY <1>1, <3>1, <3>2
    <2> QED
      BY <2>1, <2>2
  <1>10. ASSUME NEW target, CommitPhaseOne(p, target)
         PROVE  pc'[q] = pc[q] /\ job'[q] = job[q] /\ (featLock = q => featLock' = q)
    BY <1>1, <1>10 DEF CommitPhaseOne, Goto
  <1>11. CASE \E force \in BOOLEAN : Adopt(p, force) \/ StartVersion(p, force)
    BY <1>10, <1>11 DEF Adopt, StartVersion
  <1>12. CASE \E force \in BOOLEAN : Unchanged(p, force) \/ RefuseVersion(p, force)
    BY <1>2, <1>12 DEF Unchanged, RefuseVersion, Fail
  <1>13. CASE Complete(p) \/ Crash(p)
    BY <1>2, <1>13 DEF Complete, Crash, Fail
  <1> QED
    BY <1>3, <1>5, <1>6, <1>8, <1>9, <1>11, <1>12, <1>13 DEF Attempt

----------------------------------------------------------------------------
(* What a publisher knows survives the steps of others.                    *)

LEMMA KnowledgeStays ==
    ASSUME EventDayInv, NEW q \in Publishers,
           pc'[q] = pc[q], job'[q] = job[q],
           DOMAIN manifests \subseteq DOMAIN manifests',
           featured' \in Logs, Extends(featured', featured),
           pc[q] = "ready" /\ job[q].rows # NoRows => featured' = featured /\ featLock' = q
    PROVE  Knows(q)'
  <1>1. Knows(q) /\ featured \in Logs /\ job[q].content \in Content
    BY DEF EventDayInv, TypeOK, Logs, Job
  <1>2. (Several(job[q]) <=> Several(job[q])')
    BY DEF Several
  <1>3. ASSUME pc[q] = "ready" PROVE Founded(q)'
    <2>1. Founded(q)
      BY <1>1, <1>3 DEF Knows
    <2>2. CASE job[q].rows = NoRows
      <3>1. Honest(job[q].content, featured)
        BY <1>1, <2>1, <2>2, WithNothing DEF Founded
      <3>2. Honest(job[q].content, featured')
        BY <1>1, <3>1, HonestStays
      <3>3. With(featured', NoRows) = featured'
        BY WithNothing
      <3>4. Honest(job'[q].content, With(featured', job'[q].rows))
        BY <2>2, <3>2, <3>3
      <3> QED
        BY <2>2, <3>4 DEF Founded
    <2>3. CASE job[q].rows # NoRows
      <3>1. featured' = featured /\ featLock' = q
        BY <1>3, <2>3
      <3>2. Honest(job'[q].content, With(featured', job'[q].rows))
        BY <2>1, <3>1 DEF Founded
      <3>3. Due(job'[q].rows, featured')
        BY <2>1, <2>3, <3>1 DEF Founded
      <3> QED
        BY <3>1, <3>2, <3>3 DEF Founded
    <2> QED
      BY <2>2, <2>3
  <1> QED
    BY <1>1, <1>2, <1>3 DEF Knows

\* The rows of a decision that is due are a call of the standing rule.
LEMMA DueCall ==
    ASSUME NEW log \in Logs, NEW rows \in Logs, Due(rows, log)
    PROVE  /\ Single(With(log, rows))
           /\ SelectedBy(log, "human") = {}
  <1>1. SelectedBy(log, "human") = {}
    BY DEF Due
  <1>2. PICK ballot \in SUBSET Roots : \E chosen \in ballot :
            rows = Rows(log, ballot, chosen, "standing_rule", FALSE)
    BY DEF Due
  <1>3. PICK chosen \in ballot : rows = Rows(log, ballot, chosen, "standing_rule", FALSE)
    BY <1>2
  <1> DEFINE called == Rows(log, ballot, chosen, "standing_rule", FALSE)
  <1>4. "standing_rule" \in {"human", "standing_rule"} /\ FALSE \in BOOLEAN
    OBVIOUS
  <1>5. \A r \in Roots : Selects(With(log, called), r) => r = chosen
    BY <1>1, <1>4, CallSelectsOne
  <1> QED
    BY <1>1, <1>3, <1>5 DEF Single

\* What a step may do to the recorded decisions.
Decides ==
    /\ featured' \in Logs /\ Extends(featured', featured) /\ Single(featured')
    /\ \A r \in SelectedBy(featured, "human") :
            featured'[r] # featured[r] => Latest(featured'[r]).by = "human"

LEMMA RecordsDecides ==
    ASSUME EventDayInv, NEW p \in Publishers, Records(p)
    PROVE  /\ Decides
           /\ \A q \in Publishers \ {p} :
                pc[q] = "ready" /\ job[q].rows # NoRows => featured' = featured
  <1>1. /\ TypeOK /\ Single(featured) /\ featured \in Logs
        /\ \A q \in Publishers : Knows(q) /\ job[q].rows \in Logs
    BY DEF EventDayInv, TypeOK, Logs, Job
  <1>2. Extends(featured, featured)
    BY DEF Extends
  <1>3. CASE featured' = featured
    BY <1>1, <1>2, <1>3 DEF Decides
  <1>4. CASE pc[p] = "ready" /\ featured' = With(featured, job[p].rows)
    <2>1. Founded(p)
      BY <1>1, <1>4 DEF Knows
    <2>2. CASE job[p].rows = NoRows
      <3>1. featured' = featured
        BY <1>1, <1>4, <2>2, WithNothing
      <3> QED
        BY <1>1, <1>2, <3>1 DEF Decides
    <2>3. CASE job[p].rows # NoRows
      <3>1. featLock = p /\ Due(job[p].rows, featured)
        BY <2>1, <2>3 DEF Founded
      <3>2. Single(featured') /\ SelectedBy(featured, "human") = {}
        BY <1>1, <1>4, <3>1, DueCall
      <3>3. featured' \in Logs /\ Extends(featured', featured)
        BY <1>1, <1>4, WithExtends
      <3>4. ASSUME NEW q \in Publishers \ {p}, pc[q] = "ready", job[q].rows # NoRows
            PROVE  FALSE
        <4>1. Knows(q)
          BY <1>1
        <4>2. featLock = q
          BY <3>4, <4>1 DEF Knows, Founded
        <4> QED
          BY <3>1, <3>4, <4>2
      <3> QED
        BY <3>2, <3>3, <3>4 DEF Decides
    <2> QED
      BY <2>2, <2>3
  <1> QED
    BY <1>3, <1>4 DEF Records

\* A person's choice.
LEMMA ChoiceDecides ==
    ASSUME EventDayInv, NEW ballot \in SUBSET Roots, NEW chosen \in ballot,
           NEW fresh \in BOOLEAN,
           featured' = With(featured, Rows(featured, ballot, chosen, "human", fresh))
    PROVE  Decides
  <1> DEFINE called == Rows(featured, ballot, chosen, "human", fresh)
  <1>1. featured \in Logs /\ "human" \in {"human", "standing_rule"}
    BY DEF EventDayInv, TypeOK, Logs
  <1>2. called \in Logs
    BY <1>1, RowsTyped
  <1>3. /\ \A r \in Roots : Selects(With(featured, called), r) => r = chosen
        /\ \A r \in Roots : With(featured, called)[r] # featured[r] =>
                Latest(With(featured, called)[r]).by = "human"
    <2>1. \A r \in Roots : Selects(With(featured, called), r) => r = chosen
      BY <1>1, CallSelectsOne
    <2>2. \A r \in Roots : With(featured, called)[r] # featured[r] =>
                Latest(With(featured, called)[r]).by = "human"
      BY <1>1, CallSelectsOne
    <2> QED
      BY <2>1, <2>2
  <1>4. featured' \in Logs /\ Extends(featured', featured)
    BY <1>1, <1>2, WithExtends
  <1>5. Single(featured')
    BY <1>3 DEF Single
  <1>6. SelectedBy(featured, "human") \subseteq Roots
    BY DEF SelectedBy
  <1> QED
    BY <1>3, <1>4, <1>5, <1>6 DEF Decides

----------------------------------------------------------------------------
(* The invariant is inductive.                                             *)

LEMMA InitEstablishes == Init => EventDayInv
  <1> SUFFICES ASSUME Init PROVE EventDayInv
    OBVIOUS
  <1> DEFINE first(events) ==
        [status |-> "published", base |-> 0, content |->
            [Empty EXCEPT !.events = events, !.head = IF events = {} THEN None ELSE Golden]]
  <1>1. PICK events \in {{}, {Golden}} : manifests \in {<<>>, <<first(events)>>}
    BY DEF Init
  <1>2. first(events) \in Manifest
    <2> DEFINE head == IF events = {} THEN None ELSE Golden
               c == [Empty EXCEPT !.events = events, !.head = head]
    <2>1. events \in SUBSET Events /\ head \in Events \cup {None}
      BY Limits
    <2> HIDE DEF head
    <2>2. c \in Content
      BY <2>1, NothingTyped DEF Content
    <2>3. first(events) = [status |-> "published", base |-> 0, content |-> c]
      BY DEF head
    <2> HIDE DEF c, first
    <2> QED
      BY <2>2, <2>3 DEF Manifest
  <1>3. \A log : Honest(first(events).content, log)
    <2>1. /\ first(events).content.events = events
          /\ first(events).content.binding = None
          /\ events = {} \/ first(events).content.head = Golden
      BY DEF Empty
    <2>2. Cardinality(events) <= 1
      BY FewAreOne
    <2> QED
      BY <2>1, <2>2 DEF Honest
  <1> HIDE DEF first
  <1>4. manifests \in Seq(Manifest)
    <2>1. <<>> \in Seq(Manifest) /\ <<first(events)>> \in Seq(Manifest)
      BY <1>2
    <2> QED
      BY <1>1, <2>1, Zenon
  <1>5. \A v \in DOMAIN manifests : manifests[v] = first(events)
    BY <1>1
  <1>6. featured = NoRows /\ featured \in Logs
    BY NothingAdded DEF Init
  <1>7. Single(featured)
    BY <1>6, NothingAdded DEF Single, Selects
  <1>8. \A p \in Publishers : pc[p] = "idle" /\ job[p] = NoJob
    BY DEF Init
  <1>9. \A p \in Publishers : Knows(p)
    BY <1>8 DEF Knows, NoJob
  <1>10. TypeOK
    <2>1. index \in 0 .. Len(manifests)
      BY <1>4 DEF Init
    <2>2. used \in Bounds /\ revision \in 0 .. MaxRevisions
      BY Limits DEF Init, Bounds
    <2>3. /\ rulings \in [Pairs -> Seq(Ruling)] /\ tasks \in [Candidates -> Seq(Task)]
          /\ permitted \in [Publishers -> SUBSET Pairs]
          /\ selected \subseteq Events /\ featLock \in Publishers \cup {None}
      BY DEF Init
    <2>4. pc \in [Publishers -> Steps] /\ job \in [Publishers -> Job]
      BY NothingTyped DEF Init, Steps
    <2> QED
      BY <1>4, <1>6, <2>1, <2>2, <2>3, <2>4 DEF TypeOK, Logs
  <1> QED
    BY <1>3, <1>5, <1>7, <1>9, <1>10 DEF EventDayInv

LEMMA AttemptPreserves ==
    ASSUME EventDayInv, NEW p \in Publishers, Attempt(p)
    PROVE  EventDayInv' /\ Decides
  <1>1. TypeOK /\ featured \in Logs /\ Knows(p)
    BY DEF EventDayInv, TypeOK, Logs
  <1>2. TypeOK' /\ ManifestsKept /\ Opens(p) /\ Records(p) /\ Knows(p)'
    BY AttemptSound DEF Sound
  <1>3. /\ Decides
        /\ \A q \in Publishers \ {p} :
                pc[q] = "ready" /\ job[q].rows # NoRows => featured' = featured
    BY <1>2, RecordsDecides
  <1>4. ASSUME NEW q \in Publishers, q # p PROVE Knows(q)'
    <2>1. pc'[q] = pc[q] /\ job'[q] = job[q] /\ (featLock = q => featLock' = q)
      BY <1>1, <1>4, OthersUndisturbed
    <2>2. pc[q] = "ready" /\ job[q].rows # NoRows => featured' = featured /\ featLock' = q
      BY <1>3, <1>4, <2>1 DEF EventDayInv, Knows, Founded
    <2>3. DOMAIN manifests \subseteq DOMAIN manifests'
      BY <1>2 DEF ManifestsKept
    <2> QED
      BY <1>3, <2>1, <2>2, <2>3, KnowledgeStays DEF Decides
  <1>5. ASSUME NEW v \in DOMAIN manifests' PROVE Honest(manifests'[v].content, featured')
    <2>1. CASE v \in DOMAIN manifests
      <3>1. manifests[v].content \in Content /\ Honest(manifests[v].content, featured)
        BY <1>1, <2>1, ManifestsRead DEF EventDayInv, Manifest
      <3>2. Honest(manifests[v].content, featured')
        BY <1>3, <3>1, HonestStays DEF Decides
      <3> QED
        BY <1>2, <2>1, <3>2 DEF ManifestsKept
    <2>2. CASE v \notin DOMAIN manifests
      <3>1. /\ pc[p] = "ready" /\ manifests'[v].content = job[p].content
            /\ featured' = With(featured, job[p].rows)
        BY <1>2, <2>2 DEF Opens
      <3>2. Honest(job[p].content, With(featured, job[p].rows))
        BY <1>1, <3>1 DEF Knows, Founded
      <3> QED
        BY <3>1, <3>2
    <2> QED
      BY <2>1, <2>2
  <1> QED
    BY <1>2, <1>3, <1>4, <1>5 DEF EventDayInv, Decides

\* The steps of everybody else.
LEMMA OthersPreserve ==
    ASSUME EventDayInv, TypeOK', ManifestsKept, DOMAIN manifests' = DOMAIN manifests,
           UNCHANGED <<featLock, pc, job>>, Decides,
           featured' = featured \/ featLock = None
    PROVE  EventDayInv'
  <1>1. TypeOK
    BY DEF EventDayInv
  <1>2. ASSUME NEW q \in Publishers PROVE Knows(q)'
    <2>1. pc[q] = "ready" /\ job[q].rows # NoRows => featLock = q
      BY DEF EventDayInv, Knows, Founded
    <2>2. q # None
      BY Limits
    <2>3. pc[q] = "ready" /\ job[q].rows # NoRows => featured' = featured /\ featLock' = q
      BY <2>1, <2>2
    <2> QED
      BY <2>3, KnowledgeStays DEF Decides
  <1>3. ASSUME NEW v \in DOMAIN manifests' PROVE Honest(manifests'[v].content, featured')
    <2>1. manifests[v].content \in Content /\ Honest(manifests[v].content, featured)
      BY <1>1, <1>3, ManifestsRead DEF EventDayInv, Manifest
    <2>2. Honest(manifests[v].content, featured')
      BY <2>1, HonestStays DEF Decides
    <2> QED
      BY <1>3, <2>2 DEF ManifestsKept
  <1> QED
    BY <1>2, <1>3 DEF EventDayInv, Decides

LEMMA NextPreserves ==
    ASSUME EventDayInv, Next
    PROVE  EventDayInv' /\ Decides
  <1>1. /\ TypeOK /\ Single(featured) /\ featured \in Logs
    BY DEF EventDayInv, TypeOK, Logs
  <1>2. ASSUME featured' = featured PROVE Decides
    BY <1>1, <1>2 DEF Decides, Extends
  <1>3. CASE \E p \in Publishers : Attempt(p)
    BY <1>3, AttemptPreserves
  <1>4. CASE ReconcileDraft
    <2>1. TypeOK' /\ ManifestsKept /\ DOMAIN manifests' = DOMAIN manifests
      BY <1>1, <1>4, ReconcileTyped
    <2>2. UNCHANGED <<featured, featLock, pc, job>>
      BY <1>4 DEF ReconcileDraft
    <2> QED
      BY <1>2, <2>1, <2>2, OthersPreserve
  <1>5. CASE IndexLag \/ (\E e \in Events : FlipSelection(e)) \/ Reresolve
    <2>1. TypeOK' /\ UNCHANGED <<manifests, featured, featLock, pc, job>>
      BY <1>1, <1>5, SurroundingsTyped
    <2>2. ManifestsKept /\ DOMAIN manifests' = DOMAIN manifests
      BY <2>1 DEF ManifestsKept
    <2> QED
      BY <1>2, <2>1, <2>2, OthersPreserve
  <1>6. CASE \E ballot \in SUBSET CurrentRoots : \E chosen \in ballot, fresh \in BOOLEAN :
                ChooseHeadline(ballot, chosen, fresh)
    <2>1. PICK ballot \in SUBSET CurrentRoots : \E chosen \in ballot, fresh \in BOOLEAN :
                ChooseHeadline(ballot, chosen, fresh)
      BY <1>6
    <2>2. PICK chosen \in ballot, fresh \in BOOLEAN : ChooseHeadline(ballot, chosen, fresh)
      BY <2>1
    <2>3. /\ TypeOK' /\ UNCHANGED <<manifests, featLock, pc, job>>
          /\ featLock = None /\ ballot \subseteq Roots
          /\ featured' = With(featured, Rows(featured, ballot, chosen, "human", fresh))
      BY <1>1, <2>2, ChooseTyped
    <2>4. Decides
      BY <2>3, ChoiceDecides
    <2>5. ManifestsKept /\ DOMAIN manifests' = DOMAIN manifests
      BY <2>3 DEF ManifestsKept
    <2> QED
      BY <2>3, <2>4, <2>5, OthersPreserve
  <1>7. CASE \E e \in Candidates, says \in Answers : RuleOnCollision(e, says)
    <2>1. TypeOK' /\ UNCHANGED <<manifests, featured, featLock, pc, job>>
      BY <1>1, <1>7, RuleTyped
    <2>2. ManifestsKept /\ DOMAIN manifests' = DOMAIN manifests
      BY <2>1 DEF ManifestsKept
    <2> QED
      BY <1>2, <2>1, <2>2, OthersPreserve
  <1> QED
    BY <1>3, <1>4, <1>5, <1>6, <1>7 DEF Next

LEMMA StutterPreserves ==
    ASSUME EventDayInv, UNCHANGED vars
    PROVE  EventDayInv' /\ Decides
  <1>1. TypeOK /\ Single(featured) /\ featured \in Logs
    BY DEF EventDayInv, TypeOK, Logs
  <1>2. Decides
    BY <1>1 DEF vars, Decides, Extends
  <1>3. TypeOK' /\ ManifestsKept /\ DOMAIN manifests' = DOMAIN manifests
    BY <1>1 DEF vars, TypeOK, ManifestsKept
  <1>4. UNCHANGED <<featured, featLock, pc, job>>
    BY DEF vars
  <1> QED
    BY <1>2, <1>3, <1>4, OthersPreserve

----------------------------------------------------------------------------
(* The theorems.                                                           *)

\* What every publisher knows of the headline it has decided, and what every
\* manifest says about the decision it cites, for all events, publishers and
\* bounds.
THEOREM EventDayInvariant == Spec => []EventDayInv
  <1>1. EventDayInv /\ [Next]_vars => EventDayInv'
    BY NextPreserves, StutterPreserves
  <1> QED
    BY InitEstablishes, <1>1, PTL DEF Spec

\* Manifests, decisions, tasks and transactions keep their types.
THEOREM EventDayTypeCorrect == Spec => []TypeOK
  <1>1. EventDayInv => TypeOK
    BY DEF EventDayInv
  <1> QED
    BY <1>1, EventDayInvariant, PTL

\* At most one event of a date is featured, however publishers and people
\* race for the headline (record_featured_event_selection).
THEOREM OneEventIsFeatured == Spec => []OneHeadline
  <1>1. EventDayInv => OneHeadline
    <2> SUFFICES ASSUME EventDayInv PROVE OneHeadline
      OBVIOUS
    <2> DEFINE S == {r \in Roots : Selects(featured, r)}
    <2>1. \A r, s \in S : r = s
      BY DEF EventDayInv, Single
    <2>2. \E a : S \subseteq {a}
      <3>1. CASE S = {}
        BY <3>1
      <3>2. CASE S # {}
        <4>1. PICK a \in S : TRUE
          BY <3>2
        <4> QED
          BY <2>1, <4>1
      <3> QED
        BY <3>1, <3>2
    <2> HIDE DEF S
    <2>3. Cardinality(S) <= 1
      BY <2>2, FewAreOne
    <2> QED
      BY <2>3 DEF OneHeadline, S
  <1> QED
    BY <1>1, EventDayInvariant, PTL

\* A manifest with several events cites an existing decision that selects its
\* headline, by whom the manifest says, on a ballot it carries
\* (FeaturedEventEvaluation.as_manifest_metadata).
THEOREM BindingsAreHonest == Spec => []BindingHonest
  <1>1. EventDayInv => BindingHonest
    BY DEF EventDayInv, Honest, BindingHonest
  <1> QED
    BY <1>1, EventDayInvariant, PTL

\* D038: only a person takes back what a person has featured, also when the
\* choice lands while a publisher is deciding (evaluate_featured_event).
THEOREM PeopleHaveTheLastWord == Spec => HumanChoiceStands
  <1> DEFINE Step == \A r \in SelectedBy(featured, "human") :
                featured'[r] # featured[r] => Latest(featured'[r]).by = "human"
  <1>1. EventDayInv /\ [Next]_vars => Step
    BY NextPreserves, StutterPreserves DEF Decides
  <1> HIDE DEF Step
  <1>2. Spec => [][Step]_vars
    BY <1>1, EventDayInvariant, PTL DEF Spec
  <1> QED
    BY <1>2, PTL DEF HumanChoiceStands, Step

----------------------------------------------------------------------------
(* The chain of manifests: no admitted event disappears.                   *)
(*                                                                         *)
(* A publisher reads the manifest it builds on, and opens its successor    *)
(* some steps later, after others may have published.  What saves the      *)
(* events admitted in between is that a manifest is superseded only once:  *)
(* while every version names a predecessor, the one it names is the one    *)
(* published right before it.                                              *)

\* The events of manifest b still point at the roots it was published with.
Current(b) == Golden \in Carried(b) => manifests[b].content.revision = revision

\* Content c, made from manifest b, has every event of it, unless some were
\* resolved anew meanwhile.
Keeps(b, c) == (b # 0 /\ Current(b)) => Carried(b) \subseteq c.events

PublishedBefore(v) == {u \in Versions("published") : u < v}

\* Every version up to this one named a predecessor where there was one.
NeverBlind(v) == \A u \in PublishedBefore(v) \cup {v} : ~Blind(u)

Grounded(v) ==
    /\ manifests[v].base \in PublishedBefore(v) \cup {0}
    /\ manifests[v].content.revision <= revision
    /\ Keeps(manifests[v].base, manifests[v].content)

\* Manifests not withdrawn.
Standing == Versions("published") \cup Versions("draft")

\* The chain that the manifests form.
ManifestsChained ==
    /\ \A v \in DOMAIN manifests : Grounded(v)
    /\ \A u, v \in DOMAIN manifests :
          manifests[u].base = manifests[v].base /\ manifests[v].base # 0 => u = v
    /\ \A v \in Versions("draft") : v = Len(manifests)
    /\ \A v \in Standing : NeverBlind(v) => manifests[v].base = Previous(v)

\* What a publisher has assembled for the next version.
Builds(p) ==
    pc[p] \in {"evaluate", "ready"} =>
        /\ job[p].base \in Versions("published") \cup {0}
        /\ job[p].content.revision <= revision
        /\ Keeps(job[p].base, job[p].content)

Chained == ManifestsChained /\ \A p \in Publishers : Builds(p)

\* The events behind a manifest are those it carries when it is current.
LEMMA CurrentIsBehind ==
    ASSUME NEW b, b # 0
    PROVE  Current(b) <=> EventsBehind(b) = Carried(b)
  BY DEF Current, EventsBehind

\* A manifest that is not current does not become so again.
LEMMA NeverCurrentAgain ==
    ASSUME TypeOK, TypeOK', revision <= revision',
           NEW b \in DOMAIN manifests, manifests[b].content.revision <= revision,
           b \in DOMAIN manifests', manifests'[b].content = manifests[b].content
    PROVE  /\ Current(b)' => Current(b)
           /\ Carried(b)' = Carried(b)
  <1>1. /\ revision \in Nat /\ revision' \in Nat
        /\ manifests[b].content.revision \in Nat
    <2>1. manifests[b].content \in Content
      BY ManifestsRead DEF Manifest
    <2> QED
      BY <2>1, Limits DEF TypeOK, Content
  <1>2. Carried(b)' = Carried(b)
    BY DEF Carried
  <1> QED
    BY <1>1, <1>2 DEF Current

LEMMA KeepsStays ==
    ASSUME TypeOK, TypeOK', revision <= revision',
           NEW b, b = 0 \/ b \in DOMAIN manifests,
           b # 0 => /\ manifests[b].content.revision <= revision
                    /\ b \in DOMAIN manifests'
                    /\ manifests'[b].content = manifests[b].content,
           NEW c, Keeps(b, c)
    PROVE  (b # 0 /\ Current(b)') => Carried(b)' \subseteq c.events
  BY NeverCurrentAgain DEF Keeps

\* While the older versions keep their predecessors and nothing older is
\* published, what is read of a version's past stays.
LEMMA PastStays ==
    ASSUME TypeOK,
           \A u \in DOMAIN manifests : /\ manifests'[u].base = manifests[u].base
                                       /\ PublishedBefore(u)' = PublishedBefore(u),
           NEW v \in DOMAIN manifests
    PROVE  Previous(v)' = Previous(v) /\ (NeverBlind(v)' => NeverBlind(v))
  <1>1. \A u \in DOMAIN manifests : Previous(u)' = Previous(u)
    BY DEF Previous, PublishedBefore
  <1>2. \A u \in DOMAIN manifests : Blind(u) => Blind(u)'
    BY <1>1 DEF Blind
  <1>3. PublishedBefore(v) \subseteq DOMAIN manifests
    BY DEF PublishedBefore, Versions
  <1>4. NeverBlind(v)' => NeverBlind(v)
    BY <1>2, <1>3 DEF NeverBlind
  <1> QED
    BY <1>1, <1>4

LEMMA GroundedStays ==
    ASSUME TypeOK, TypeOK', revision <= revision', ManifestsKept,
           NEW v \in DOMAIN manifests, ManifestsChained,
           manifests'[v].base = manifests[v].base, PublishedBefore(v)' = PublishedBefore(v)
    PROVE  Grounded(v)'
  <1> DEFINE c == manifests[v].content
  <1>1. PICK b : b = manifests[v].base
    OBVIOUS
  <1>2. Grounded(v) /\ v \in DOMAIN manifests' /\ manifests'[v].content = c
    BY DEF ManifestsChained, ManifestsKept
  <1>3. b \in PublishedBefore(v) \cup {0} /\ c.revision <= revision /\ Keeps(b, c)
    BY <1>1, <1>2 DEF Grounded
  <1>4. b = 0 \/ b \in DOMAIN manifests
    BY <1>3 DEF PublishedBefore, Versions
  <1>5. b # 0 => /\ manifests[b].content.revision <= revision
                 /\ b \in DOMAIN manifests'
                 /\ manifests'[b].content = manifests[b].content
    BY <1>4 DEF ManifestsChained, Grounded, ManifestsKept
  <1>6. c.revision <= revision'
    <2>1. c.revision \in Nat /\ revision \in Nat /\ revision' \in Nat
      <3>1. c \in Content
        BY ManifestsRead DEF Manifest
      <3> QED
        BY <3>1, Limits DEF TypeOK, Content
    <2> QED
      BY <1>3, <2>1
  <1>7. PICK d : d = c
    OBVIOUS
  <1>8. (b # 0 /\ Current(b)') => Carried(b)' \subseteq d.events
    BY <1>3, <1>4, <1>5, <1>7, KeepsStays
  <1>9. manifests'[v].content = d /\ manifests'[v].base = b
    BY <1>1, <1>2, <1>7
  <1>10. b \in PublishedBefore(v)' \cup {0} /\ d.revision <= revision'
    BY <1>3, <1>6, <1>7
  <1>11. (b # 0 /\ Current(b)') => Carried(b)' \subseteq manifests'[v].content.events
    BY <1>8, <1>9
  <1> QED
    BY <1>9, <1>10, <1>11 DEF Grounded, Keeps

\* A step that leaves the manifests alone, or settles the draft.
LEMMA ChainSettles ==
    ASSUME TypeOK, TypeOK', revision <= revision', ManifestsKept, ManifestsChained,
           DOMAIN manifests' = DOMAIN manifests,
           \A u \in DOMAIN manifests : manifests'[u].base = manifests[u].base,
           Versions("draft")' \subseteq Versions("draft"),
           Versions("published") \subseteq Versions("published")',
           Versions("published")' \subseteq Standing,
           Len(manifests') = Len(manifests)
    PROVE  ManifestsChained'
  <1>1. ASSUME NEW u \in DOMAIN manifests
        PROVE  PublishedBefore(u)' = PublishedBefore(u)
    <2>1. u <= Len(manifests) /\ u \in Nat
      BY ManifestsRead
    <2>2. ASSUME NEW w \in Versions("published")', w < u PROVE w \in Versions("published")
      <3>1. w \in Versions("published") \/ w \in Versions("draft")
        BY <2>2 DEF Standing
      <3>2. w \in Versions("draft") => w = Len(manifests)
        BY DEF ManifestsChained
      <3>3. Len(manifests) \in Nat
        BY ManifestsRead
      <3> QED
        BY <2>1, <2>2, <3>1, <3>2, <3>3
    <2> QED
      BY <2>2 DEF PublishedBefore
  <1>2. \A v \in DOMAIN manifests' : Grounded(v)'
    BY <1>1, GroundedStays
  <1>3. \A u, v \in DOMAIN manifests' :
            manifests'[u].base = manifests'[v].base /\ manifests'[v].base # 0 => u = v
    BY DEF ManifestsChained
  <1>4. \A v \in Versions("draft")' : v = Len(manifests')
    BY DEF ManifestsChained
  <1>5. ASSUME NEW v \in Standing', NeverBlind(v)'
        PROVE  manifests'[v].base = Previous(v)'
    <2>1. v \in Standing /\ v \in DOMAIN manifests
      BY <1>5 DEF Standing, Versions
    <2>2. Previous(v)' = Previous(v) /\ NeverBlind(v)
      BY <1>1, <1>5, <2>1, PastStays
    <2> QED
      BY <2>1, <2>2 DEF ManifestsChained
  <1> QED
    BY <1>2, <1>3, <1>4, <1>5 DEF ManifestsChained

LEMMA NewestIs ==
    ASSUME NEW S \in SUBSET Nat, NEW b \in S, \A u \in S : u <= b
    PROVE  Newest(S) = b
  <1>1. Newest(S) \in S /\ \A u \in S : u <= Newest(S)
    BY DEF Newest
  <1>2. Newest(S) \in Nat /\ b \in Nat /\ Newest(S) <= b /\ b <= Newest(S)
    BY <1>1
  <1> QED
    BY <1>2

\* Where every version names a predecessor, only the latest one is not
\* superseded.
LEMMA OnlyTheLatestIsFree ==
    ASSUME TypeOK, ManifestsChained, \A u \in Versions("published") : ~Blind(u),
           NEW b \in Versions("published"), FreeToSupersede(b)
    PROVE  LatestPublished = b
  <1> DEFINE P == Versions("published")
             T == {w \in P : b < w}
  <1>1. P \subseteq 1 .. Len(manifests) /\ P \subseteq Nat /\ Len(manifests) \in Nat
    BY ManifestsRead
  <1>2. b \in Nat /\ b # 0
    BY <1>1
  <1>3. CASE T = {}
    <2>1. \A u \in P : u <= b
      BY <1>1, <1>2, <1>3
    <2> QED
      BY <1>1, <2>1, NewestIs DEF LatestPublished
  <1>4. CASE T # {}
    <2>1. T \in SUBSET Nat
      BY <1>1
    <2> HIDE DEF T
    <2>2. PICK w \in T : \A u \in T : w <= u
      BY <1>4, <2>1, SmallestExists
    <2>3. w \in P /\ b < w /\ w \in Nat /\ w \in DOMAIN manifests
      BY <1>1, <2>2 DEF T, Versions
    <2>4. PublishedBefore(w) \in SUBSET Nat /\ b \in PublishedBefore(w)
      BY <1>1, <2>3 DEF PublishedBefore
    <2>5. ASSUME NEW u \in PublishedBefore(w) PROVE u <= b
      <3>1. u \in P /\ u < w /\ u \in Nat
        BY <2>4 DEF PublishedBefore
      <3>2. b < u => w <= u
        BY <2>2, <3>1 DEF T
      <3> QED
        BY <1>2, <2>3, <3>1, <3>2
    <2>6. Newest(PublishedBefore(w)) = b
      BY <2>4, <2>5, NewestIs
    <2>7. Previous(w) = b
      BY <2>6 DEF Previous, PublishedBefore
    <2>8. NeverBlind(w) /\ w \in Standing
      BY <2>3 DEF NeverBlind, PublishedBefore, Standing
    <2>9. manifests[w].base = b
      BY <2>7, <2>8 DEF ManifestsChained
    <2> QED
      BY <1>2, <2>3, <2>9 DEF FreeToSupersede
  <1> QED
    BY <1>3, <1>4

\* The next version joins the chain.
LEMMA ChainGrows ==
    ASSUME TypeOK, TypeOK', revision' = revision, ManifestsChained, Versions("draft") = {},
           NEW m \in Manifest, m.status = "draft", manifests' = Append(manifests, m),
           m.base \in Versions("published") \cup {0}, FreeToSupersede(m.base),
           m.content.revision <= revision, Keeps(m.base, m.content)
    PROVE  ManifestsChained'
  <1>1. PICK n : n = Len(manifests) + 1
    OBVIOUS
  <1>2. manifests \in Seq(Manifest) /\ Len(manifests) \in Nat
    BY DEF TypeOK
  <1>3. /\ DOMAIN manifests' = 1 .. n /\ DOMAIN manifests = 1 .. Len(manifests)
        /\ Len(manifests') = n /\ manifests'[n] = m
        /\ \A v \in DOMAIN manifests : manifests'[v] = manifests[v]
    BY <1>1, <1>2, AppendProperties
  <1>4. /\ DOMAIN manifests' = DOMAIN manifests \cup {n} /\ n \notin DOMAIN manifests
        /\ n \in Nat /\ n # 0 /\ \A v \in DOMAIN manifests : v \in Nat /\ v < n
    BY <1>1, <1>2, <1>3
  <1>5. /\ ManifestsKept /\ revision <= revision'
    BY <1>3, <1>4, Limits DEF ManifestsKept, TypeOK
  <1>6. Versions("published")' = Versions("published")
    BY <1>3, <1>4 DEF Versions
  <1>7. Versions("published") \subseteq DOMAIN manifests
    BY DEF Versions
  <1>8. \A u \in DOMAIN manifests : PublishedBefore(u)' = PublishedBefore(u)
    BY <1>6 DEF PublishedBefore
  <1>9. PublishedBefore(n)' = Versions("published")
    BY <1>4, <1>6, <1>7 DEF PublishedBefore
  <1>10. PICK b : b = m.base
    OBVIOUS
  <1>11. PICK c : c = m.content
    OBVIOUS
  <1>12. manifests'[n].base = b /\ manifests'[n].content = c
    BY <1>3, <1>10, <1>11
  <1>13. b = 0 \/ b \in DOMAIN manifests
    BY <1>7, <1>10
  <1>14. Grounded(n)'
    <2>1. (Carried(b)' = Carried(b) /\ (Current(b)' <=> Current(b))) \/ b = 0
      <3>1. b # 0 => manifests'[b].content = manifests[b].content
        BY <1>5, <1>13 DEF ManifestsKept
      <3> QED
        BY <3>1 DEF Carried, Current
    <2>2. (b # 0 /\ Current(b)') => Carried(b)' \subseteq c.events
      BY <1>10, <1>11, <2>1 DEF Keeps
    <2>3. b \in PublishedBefore(n)' \cup {0} /\ c.revision <= revision'
      BY <1>9, <1>10, <1>11
    <2> QED
      BY <1>12, <2>2, <2>3 DEF Grounded, Keeps
  <1>15. \A v \in DOMAIN manifests' : Grounded(v)'
    <2>1. ASSUME NEW v \in DOMAIN manifests PROVE Grounded(v)'
      BY <1>3, <1>5, <1>8, GroundedStays
    <2> QED
      BY <1>4, <1>14, <2>1
  <1>16. ASSUME NEW u \in DOMAIN manifests', NEW v \in DOMAIN manifests',
                manifests'[u].base = manifests'[v].base, manifests'[v].base # 0
         PROVE  u = v
    <2>1. b # 0 => \A w \in DOMAIN manifests : manifests[w].base # b
      BY <1>10 DEF FreeToSupersede
    <2>2. CASE u = n
      BY <1>3, <1>4, <1>12, <1>16, <2>1, <2>2
    <2>3. CASE v = n
      BY <1>3, <1>4, <1>12, <1>16, <2>1, <2>3
    <2>4. CASE u # n /\ v # n
      <3>1. u \in DOMAIN manifests /\ v \in DOMAIN manifests
        BY <1>4, <2>4
      <3>2. manifests[u].base = manifests[v].base /\ manifests[v].base # 0
        BY <1>3, <1>16, <3>1
      <3> QED
        BY <3>1, <3>2 DEF ManifestsChained
    <2> QED
      BY <2>2, <2>3, <2>4
  <1>17. \A v \in Versions("draft")' : v = Len(manifests')
    <2>1. \A v \in DOMAIN manifests : manifests[v].status # "draft"
      BY DEF Versions
    <2> QED
      BY <1>3, <1>4, <2>1 DEF Versions
  <1>18. ASSUME NEW v \in Standing', NeverBlind(v)'
         PROVE  manifests'[v].base = Previous(v)'
    <2>1. \A u \in DOMAIN manifests : manifests'[u].base = manifests[u].base
      BY <1>3
    <2>2. CASE v \in DOMAIN manifests
      <3>1. v \in Standing
        BY <1>3, <1>18, <2>2 DEF Standing, Versions
      <3>2. Previous(v)' = Previous(v) /\ NeverBlind(v)
        BY <1>8, <1>18, <2>1, <2>2, PastStays
      <3> QED
        BY <2>1, <2>2, <3>1, <3>2 DEF ManifestsChained
    <2>3. CASE v = n
      <3>1. \A u \in Versions("published") \cup {n} : ~Blind(u)'
        BY <1>9, <1>18, <2>3 DEF NeverBlind
      <3>2. Previous(n)' = LatestPublished
        BY <1>9 DEF Previous, PublishedBefore, LatestPublished
      <3>3. ASSUME NEW u \in Versions("published") PROVE ~Blind(u)
        <4>1. u \in DOMAIN manifests /\ manifests'[u].base = manifests[u].base
          BY <1>7, <2>1
        <4>2. Previous(u)' = Previous(u)
          BY <1>8, <4>1 DEF Previous, PublishedBefore
        <4>3. ~Blind(u)'
          BY <3>1
        <4> QED
          BY <4>1, <4>2, <4>3 DEF Blind
      <3>4. CASE b = 0
        BY <1>12, <2>3, <3>1, <3>4 DEF Blind
      <3>5. CASE b # 0
        <4>1. b \in Versions("published") /\ FreeToSupersede(b)
          BY <1>10, <3>5
        <4>2. LatestPublished = b
          BY <3>3, <4>1, OnlyTheLatestIsFree
        <4> QED
          BY <1>12, <2>3, <3>2, <4>2
      <3> QED
        BY <3>4, <3>5
    <2>4. v \in DOMAIN manifests'
      BY <1>18 DEF Standing, Versions
    <2> QED
      BY <1>4, <2>2, <2>3, <2>4
  <1> QED
    BY <1>15, <1>16, <1>17, <1>18 DEF ManifestsChained

\* What a publisher has assembled stays good while others publish.
LEMMA BuildsStays ==
    ASSUME TypeOK, TypeOK', revision <= revision', ManifestsKept, ManifestsChained,
           Versions("published") \subseteq Versions("published")',
           NEW q \in Publishers, Builds(q), pc'[q] = pc[q], job'[q] = job[q]
    PROVE  Builds(q)'
  <1> SUFFICES ASSUME pc[q] \in {"evaluate", "ready"} PROVE Builds(q)'
    BY DEF Builds
  <1>1. PICK b : b = job[q].base
    OBVIOUS
  <1>2. PICK c : c = job[q].content
    OBVIOUS
  <1>3. b \in Versions("published") \cup {0} /\ c.revision <= revision /\ Keeps(b, c)
    BY <1>1, <1>2 DEF Builds
  <1>4. b = 0 \/ b \in DOMAIN manifests
    BY <1>3 DEF Versions
  <1>5. b # 0 => /\ manifests[b].content.revision <= revision
                 /\ b \in DOMAIN manifests'
                 /\ manifests'[b].content = manifests[b].content
    BY <1>4 DEF ManifestsChained, Grounded, ManifestsKept
  <1>6. (b # 0 /\ Current(b)') => Carried(b)' \subseteq c.events
    BY <1>3, <1>4, <1>5, KeepsStays
  <1>7. c.revision \in Nat /\ revision \in Nat /\ revision' \in Nat
    <2>1. c \in Content
      BY <1>2 DEF TypeOK, Job
    <2> QED
      BY <2>1, Limits DEF TypeOK, Content
  <1>8. c.revision <= revision'
    BY <1>3, <1>7
  <1>9. job'[q].base = b /\ job'[q].content = c
    BY <1>1, <1>2
  <1> QED
    BY <1>3, <1>6, <1>8, <1>9 DEF Builds, Keeps

\* The payload made from the latest manifest keeps its events.
LEMMA AssembledKeeps ==
    ASSUME TypeOK, ManifestsChained, NEW e \in Events, NEW b, b = LatestPublished,
           EventsBehind(b) \subseteq {e} \/ EventsBehind(b) \ {e} \subseteq selected
    PROVE  /\ b \in Versions("published") \cup {0}
           /\ Assembled(e, b).revision <= revision
           /\ Keeps(b, Assembled(e, b))
  <1>1. b \in Versions("published") \cup {0} /\ b \in 0 .. Len(manifests)
    BY ManifestsRead, NewestExists DEF LatestPublished
  <1>2. Assembled(e, b).events = Kept(e, b)
    BY <1>1, AssembledTyped
  <1>3. revision \in Nat
    BY Limits DEF TypeOK
  <1>4. Keeps(b, Assembled(e, b))
    <2> SUFFICES ASSUME b # 0, Current(b) PROVE Carried(b) \subseteq Kept(e, b)
      BY <1>2 DEF Keeps
    <2>1. EventsBehind(b) = Carried(b)
      BY CurrentIsBehind
    <2> QED
      BY <2>1 DEF Kept
  <1>5. Assembled(e, b).revision <= revision
    <2>1. CASE e = Golden
      BY <1>3, <2>1 DEF Assembled, Empty
    <2>2. CASE e # Golden /\ Golden \in Kept(e, b)
      <3>1. Golden \in Carried(b)
        BY <2>2 DEF Kept
      <3>2. b \in DOMAIN manifests
        BY <1>1, <3>1 DEF Carried, Versions
      <3>3. manifests[b].content.revision <= revision
        BY <3>2 DEF ManifestsChained, Grounded
      <3>4. Assembled(e, b).revision = manifests[b].content.revision
        BY <2>2 DEF Assembled, Empty
      <3> QED
        BY <3>3, <3>4
    <2>3. CASE e # Golden /\ Golden \notin Kept(e, b)
      BY <1>3, <2>3 DEF Assembled, Empty
    <2> QED
      BY <2>1, <2>2, <2>3
  <1> QED
    BY <1>1, <1>4, <1>5

\* A publisher that goes on builds on the latest manifest.
LEMMA PreparedBuilds ==
    ASSUME TypeOK, ManifestsChained, NEW p \in Publishers, job[p].event \in Events,
           NEW b, b = LatestPublished, NEW others, NEW step, Prepared(p, b, others, step),
           \/ EventsBehind(b) \subseteq {job[p].event}
           \/ EventsBehind(b) \ {job[p].event} \subseteq selected
    PROVE  Builds(p)'
  <1>1. PICK c : c = Assembled(job[p].event, b)
    OBVIOUS
  <1>2. job'[p].base = b /\ job'[p].content = c
    BY <1>1 DEF Prepared, TypeOK, Job
  <1>3. b \in Versions("published") \cup {0} /\ c.revision <= revision /\ Keeps(b, c)
    BY <1>1, AssembledKeeps
  <1>4. UNCHANGED <<manifests, revision>>
    BY DEF Prepared
  <1>5. /\ Versions("published")' = Versions("published")
        /\ Carried(b)' = Carried(b) /\ Current(b)' = Current(b)
    BY <1>4 DEF Versions, Carried, Current
  <1> QED
    BY <1>2, <1>3, <1>4, <1>5 DEF Builds, Keeps

\* A publisher that has ended or not read its predecessor builds nothing.
LEMMA NothingBuilt ==
    ASSUME TypeOK, NEW p \in Publishers,
           \/ End(p) \/ Fail(p)
           \/ \E v : Stopped(p, v)
           \/ \E step \in Steps \ {"evaluate", "ready"} : Goto(p, step)
    PROVE  Builds(p)'
  <1>1. pc'[p] \notin {"evaluate", "ready"}
    BY DEF TypeOK, Fail, End, Stopped, Ask, Goto
  <1> QED
    BY <1>1 DEF Builds

LEMMA CarryBuilds ==
    ASSUME TypeOK, ManifestsChained, NEW p \in Publishers, Knows(p),
           Carry(p) \/ CarryGolden(p)
    PROVE  Builds(p)' /\ UNCHANGED <<manifests, revision>>
  <1> DEFINE e == job[p].event
             others == EventsBehind(LatestPublished) \ {e}
  <1>1. e \in Events
    BY DEF Knows, Carry, CarryGolden
  <1>2. \/ Fail(p)
        \/ others = {} /\ Prepared(p, LatestPublished, others, "ready")
        \/ MayCarry(e, others) /\ Prepared(p, LatestPublished, others, "evaluate")
        \/ Stopped(p, LatestPublished)
        \/ others = {} /\ Prepared(p, LatestPublished, {}, "ready")
    BY DEF Carry, CarryGolden
  <1>3. CASE Fail(p) \/ Stopped(p, LatestPublished)
    <2>1. Builds(p)'
      BY <1>3, NothingBuilt
    <2> QED
      BY <1>3, <2>1 DEF Fail, Stopped
  <1>4. ASSUME NEW step, NEW S, Prepared(p, LatestPublished, S, step),
               others = {} \/ others \subseteq selected
        PROVE  Builds(p)' /\ UNCHANGED <<manifests, revision>>
    <2>1. PICK b : b = LatestPublished
      OBVIOUS
    <2>2. Prepared(p, b, S, step)
      BY <1>4, <2>1
    <2>3. \/ EventsBehind(b) \subseteq {job[p].event}
          \/ EventsBehind(b) \ {job[p].event} \subseteq selected
      BY <1>4, <2>1
    <2>4. Builds(p)'
      BY <1>1, <2>1, <2>2, <2>3, PreparedBuilds
    <2> QED
      BY <2>2, <2>4 DEF Prepared
  <1> QED
    BY <1>2, <1>3, <1>4 DEF MayCarry

\* The choice of a headline leaves the events alone.
LEMMA EvaluateBuilds ==
    ASSUME TypeOK, NEW p \in Publishers, Builds(p), Evaluate(p)
    PROVE  Builds(p)' /\ UNCHANGED <<manifests, revision>>
  <1>1. CASE Fail(p)
    BY <1>1, NothingBuilt DEF Fail
  <1>2. CASE ~Fail(p)
    <2> DEFINE ballot == job[p].ballot
               root == IF HumanChoices # {} THEN CHOOSE r \in HumanChoices : TRUE
                       ELSE Winner(ballot)
               rows == IF HumanChoices # {} \/ Stands(ballot) THEN NoRows
                       ELSE Rows(featured, ballot, root, "standing_rule", FALSE)
               head == root[1]
               binding == BindingOf(With(featured, rows), root, ballot)
    <2>1. job' = [job EXCEPT ![p] = [@ EXCEPT
                !.rows = rows,
                !.content = [job[p].content EXCEPT !.head = head, !.binding = binding]]]
      BY <1>2 DEF Evaluate
    <2> HIDE DEF rows, head, binding
    <2>2. UNCHANGED <<manifests, revision>> /\ pc[p] = "evaluate"
      BY <1>2 DEF Evaluate
    <2>3. job[p] \in Job /\ job[p].content \in Content /\ job \in [Publishers -> Job]
      BY DEF TypeOK, Job
    <2>4. /\ job'[p].base = job[p].base
          /\ job'[p].content = [job[p].content EXCEPT !.head = head, !.binding = binding]
      BY <2>1, <2>3 DEF Job
    <2>5. PICK b : b = job[p].base
      OBVIOUS
    <2>6. PICK c : c = job'[p].content
      OBVIOUS
    <2>7. c.revision = job[p].content.revision /\ c.events = job[p].content.events
      BY <2>3, <2>4, <2>6 DEF Content
    <2>8. b \in Versions("published") \cup {0} /\ c.revision <= revision /\ Keeps(b, c)
      BY <2>2, <2>5, <2>7 DEF Builds, Keeps
    <2>9. /\ Versions("published")' = Versions("published")
          /\ Carried(b)' = Carried(b) /\ Current(b)' = Current(b)
      BY <2>2 DEF Versions, Carried, Current
    <2>10. job'[p].base = b /\ job'[p].content = c
      BY <2>4, <2>5, <2>6
    <2>11. Builds(p)'
      BY <2>2, <2>8, <2>9, <2>10 DEF Builds, Keeps
    <2> QED
      BY <2>2, <2>11
  <1> QED
    BY <1>1, <1>2

\* The chain goes on, and nothing published is taken back.
ChainGoesOn ==
    /\ ManifestsChained' /\ ManifestsKept /\ revision <= revision'
    /\ Versions("published") \subseteq Versions("published")'

LEMMA ManifestsAlone ==
    ASSUME TypeOK, TypeOK', revision <= revision', ManifestsChained, manifests' = manifests
    PROVE  ChainGoesOn
  <1>1. ManifestsKept
    BY DEF ManifestsKept
  <1>2. \A status : Versions(status)' = Versions(status)
    BY DEF Versions
  <1>3. ManifestsChained'
    BY <1>1, <1>2, ChainSettles DEF Standing
  <1> QED
    BY <1>1, <1>2, <1>3 DEF ChainGoesOn

LEMMA DraftSettled ==
    ASSUME TypeOK, TypeOK', revision' = revision, ManifestsChained,
           NEW v \in Versions("draft"), NEW status \in {"published", "withdrawn"},
           manifests' = [manifests EXCEPT ![v].status = status]
    PROVE  ChainGoesOn
  <1>1. v \in DOMAIN manifests
    BY DEF Versions
  <1>2. /\ Len(manifests') = Len(manifests) /\ ManifestsKept
        /\ DOMAIN manifests' = DOMAIN manifests
    BY <1>1, StatusTyped
  <1>3. ASSUME NEW u \in DOMAIN manifests
        PROVE  /\ manifests'[u].base = manifests[u].base
               /\ manifests'[u].status = IF u = v THEN status ELSE manifests[u].status
    <2>1. manifests[u] \in Manifest
      BY ManifestsRead
    <2> QED
      BY <1>1, <2>1 DEF Manifest
  <1>4. /\ Versions("draft")' \subseteq Versions("draft")
        /\ Versions("published") \subseteq Versions("published")'
        /\ Versions("published")' \subseteq Standing
    BY <1>2, <1>3 DEF Versions, Standing
  <1>5. revision <= revision'
    BY Limits DEF TypeOK
  <1>6. ManifestsChained'
    BY <1>2, <1>3, <1>4, <1>5, ChainSettles
  <1> QED
    BY <1>2, <1>4, <1>5, <1>6 DEF ChainGoesOn

LEMMA CompleteChains ==
    ASSUME TypeOK, TypeOK', ManifestsChained, NEW p \in Publishers, Knows(p), Complete(p)
    PROVE  ChainGoesOn /\ Builds(p)'
  <1> DEFINE v == job[p].target
  <1>1. v \in DOMAIN manifests
    BY DEF Knows, Complete
  <1>2. End(p) /\ revision' = revision /\ revision <= revision'
    BY Limits DEF Complete, TypeOK
  <1>3. CASE manifests[v].status = "draft"
    <2>1. v \in Versions("draft")
      BY <1>1, <1>3 DEF Versions
    <2>2. manifests' = [manifests EXCEPT ![v].status = "published"]
      BY <1>3 DEF Complete, Publish
    <2> HIDE DEF v
    <2> QED
      BY <1>2, <2>1, <2>2, DraftSettled, NothingBuilt
  <1>4. CASE manifests[v].status # "draft"
    <2>1. manifests' = manifests
      BY <1>4 DEF Complete
    <2> QED
      BY <1>2, <2>1, ManifestsAlone, NothingBuilt
  <1> QED
    BY <1>3, <1>4

LEMMA StartChains ==
    ASSUME TypeOK, TypeOK', ManifestsChained, NEW p \in Publishers, Builds(p),
           NEW force, StartVersion(p, force)
    PROVE  ChainGoesOn /\ Builds(p)'
  <1> DEFINE m == [status |-> "draft", base |-> job[p].base, content |-> job[p].content]
  <1>1. /\ pc[p] = "ready" /\ Versions("draft") = {} /\ FreeToSupersede(job[p].base)
        /\ manifests' = Append(manifests, m) /\ CommitPhaseOne(p, Len(manifests) + 1)
    BY DEF StartVersion, PastIdempotency
  <1>2. /\ m.status = "draft" /\ m.base = job[p].base /\ m.content = job[p].content
        /\ m \in Manifest
    BY DEF TypeOK, Job, Manifest
  <1> HIDE DEF m
  <1>3. revision' = revision /\ Goto(p, "promoted")
    BY <1>1 DEF CommitPhaseOne
  <1>4. /\ m.base \in Versions("published") \cup {0}
        /\ m.content.revision <= revision /\ Keeps(m.base, m.content)
    BY <1>1, <1>2 DEF Builds
  <1>5. ManifestsChained'
    BY <1>1, <1>2, <1>3, <1>4, ChainGrows
  <1>6. ManifestsKept
    BY StartVersionTyped
  <1>7. \A u \in DOMAIN manifests : u \in DOMAIN manifests' /\ manifests'[u] = manifests[u]
    <2>1. manifests \in Seq(Manifest)
      BY DEF TypeOK
    <2> QED
      BY <1>1, <1>2, <2>1, AppendProperties
  <1>8. Versions("published") \subseteq Versions("published")'
    BY <1>7 DEF Versions
  <1>9. revision <= revision'
    BY <1>3, Limits DEF TypeOK
  <1>10. Builds(p)'
    BY <1>3, NothingBuilt DEF Steps
  <1> QED
    BY <1>5, <1>6, <1>8, <1>9, <1>10 DEF ChainGoesOn

LEMMA AttemptChains ==
    ASSUME EventDayInv, Chained, NEW p \in Publishers, Attempt(p)
    PROVE  ChainGoesOn /\ Builds(p)'
  <1>1. /\ TypeOK /\ TypeOK' /\ Knows(p) /\ ManifestsChained /\ Builds(p)
        /\ revision \in Nat
    BY AttemptPreserves, Limits DEF EventDayInv, Chained, TypeOK
  <1>2. ASSUME manifests' = manifests, revision' = revision PROVE ChainGoesOn
    BY <1>1, <1>2, ManifestsAlone
  <1>3. CASE Begin(p) \/ BeginGolden(p)
    <2>1. PICK e : BeginAttempt(p, e, "guard") \/ BeginAttempt(p, e, "carry")
      BY <1>3 DEF Begin, BeginGolden
    <2>2. Goto(p, "guard") \/ Goto(p, "carry")
      BY <2>1 DEF BeginAttempt
    <2> QED
      BY <1>1, <1>2, <2>1, <2>2, NothingBuilt DEF BeginAttempt, Steps
  <1>4. CASE Guard(p)
    <2>1. CASE Stopped(p, index)
      BY <1>1, <1>2, <2>1, NothingBuilt DEF Stopped, Fail
    <2>2. CASE Goto(p, "carry") /\ UNCHANGED <<manifests, revision>>
      BY <1>1, <1>2, <2>2, NothingBuilt DEF Steps
    <2> QED
      BY <1>4, <2>1, <2>2 DEF Guard
  <1>5. CASE CommitTask(p)
    BY <1>1, <1>2, <1>5, NothingBuilt DEF CommitTask
  <1>6. CASE Carry(p) \/ CarryGolden(p)
    BY <1>1, <1>2, <1>6, CarryBuilds
  <1>7. CASE Evaluate(p)
    BY <1>1, <1>2, <1>7, EvaluateBuilds
  <1>8. ASSUME NEW force \in BOOLEAN,
               \/ Unchanged(p, force) \/ Adopt(p, force)
               \/ StartVersion(p, force) \/ RefuseVersion(p, force)
        PROVE  ChainGoesOn /\ Builds(p)'
    <2>1. CASE Unchanged(p, force)
      BY <1>1, <1>2, <2>1, NothingBuilt DEF Unchanged
    <2>2. CASE Adopt(p, force)
      BY <1>1, <1>2, <2>2, NothingBuilt DEF Adopt, CommitPhaseOne, Steps
    <2>3. CASE StartVersion(p, force)
      BY <1>1, <2>3, StartChains
    <2>4. CASE RefuseVersion(p, force)
      BY <1>1, <1>2, <2>4, NothingBuilt DEF RefuseVersion, Fail
    <2> QED
      BY <1>8, <2>1, <2>2, <2>3, <2>4
  <1>9. CASE Complete(p)
    BY <1>1, <1>9, CompleteChains
  <1>10. CASE Crash(p)
    BY <1>1, <1>2, <1>10, NothingBuilt DEF Crash, Fail
  <1> QED
    BY <1>3, <1>4, <1>5, <1>6, <1>7, <1>8, <1>9, <1>10 DEF Attempt

\* What the transactions keep when the chain goes on.
LEMMA OthersBuild ==
    ASSUME TypeOK, TypeOK', Chained, ChainGoesOn,
           \A q \in Publishers : Builds(q)' \/ (pc'[q] = pc[q] /\ job'[q] = job[q])
    PROVE  Chained'
  <1>1. \A q \in Publishers : Builds(q)'
    BY BuildsStays DEF Chained, ChainGoesOn
  <1> QED
    BY <1>1 DEF Chained, ChainGoesOn

LEMMA InitChained == Init => Chained
  <1> SUFFICES ASSUME Init PROVE Chained
    OBVIOUS
  <1>1. \A q \in Publishers : Builds(q)
    BY DEF Init, Builds
  <1>2. TypeOK
    BY InitEstablishes DEF EventDayInv
  <1>3. revision = 0
    BY DEF Init
  <1>4. /\ DOMAIN manifests \subseteq {1}
        /\ \A v \in DOMAIN manifests :
            /\ manifests[v].status = "published" /\ manifests[v].base = 0
            /\ manifests[v].content.revision = 0
    <2>1. PICK events \in {{}, {Golden}}, head \in {None, Golden} :
            manifests \in {<<>>, <<[status |-> "published", base |-> 0, content |->
                [Empty EXCEPT !.events = events, !.head = head]]>>}
      BY DEF Init
    <2> DEFINE c == [Empty EXCEPT !.events = events, !.head = head]
    <2>2. c.revision = 0
      BY DEF Empty
    <2>3. manifests = <<>> \/ manifests = <<[status |-> "published", base |-> 0, content |-> c]>>
      BY <2>1
    <2> HIDE DEF c
    <2>4. PICK m : m = [status |-> "published", base |-> 0, content |-> c]
      OBVIOUS
    <2>5. m.status = "published" /\ m.base = 0 /\ m.content.revision = 0
      BY <2>2, <2>4
    <2>6. manifests = <<>> \/ manifests = <<m>>
      BY <2>3, <2>4
    <2> QED
      BY <2>5, <2>6
  <1>5. Versions("published") \subseteq {1} /\ Versions("draft") = {}
    BY <1>4 DEF Versions
  <1>6. \A v \in DOMAIN manifests : Grounded(v)
    BY <1>3, <1>4 DEF Grounded, Keeps
  <1>7. \A v \in Standing : manifests[v].base = Previous(v)
    <2>1. ASSUME NEW v \in Standing PROVE manifests[v].base = Previous(v)
      <3>1. v = 1 /\ v \in DOMAIN manifests
        BY <1>5 DEF Standing, Versions
      <3>2. {u \in Versions("published") : u < v} = {}
        BY <1>5, <3>1
      <3> QED
        BY <1>4, <3>1, <3>2 DEF Previous, Newest
    <2> QED
      BY <2>1
  <1>8. ManifestsChained
    BY <1>4, <1>5, <1>6, <1>7 DEF ManifestsChained
  <1> QED
    BY <1>1, <1>8 DEF Chained

LEMMA NextChained ==
    ASSUME EventDayInv, Chained, Next
    PROVE  Chained'
  <1>1. TypeOK /\ TypeOK' /\ ManifestsChained /\ revision \in Nat
    BY NextPreserves, Limits DEF EventDayInv, Chained, TypeOK
  <1>2. ASSUME ChainGoesOn, UNCHANGED <<pc, job>> PROVE Chained'
    BY <1>1, <1>2, OthersBuild
  <1>3. CASE \E p \in Publishers : Attempt(p)
    <2>1. PICK p \in Publishers : Attempt(p)
      BY <1>3
    <2>2. ChainGoesOn /\ Builds(p)'
      BY <2>1, AttemptChains
    <2>3. \A q \in Publishers : q # p => pc'[q] = pc[q] /\ job'[q] = job[q]
      BY <1>1, <2>1, OthersUndisturbed
    <2> QED
      BY <1>1, <2>2, <2>3, OthersBuild
  <1>4. CASE ReconcileDraft
    <2>1. PICK v \in Versions("draft") :
            \/ manifests' = [manifests EXCEPT ![v].status = "published"]
            \/ manifests' = [manifests EXCEPT ![v].status = "withdrawn"]
      BY <1>4 DEF ReconcileDraft, Publish
    <2>2. UNCHANGED <<revision, pc, job>>
      BY <1>4 DEF ReconcileDraft
    <2>3. ChainGoesOn
      BY <1>1, <2>1, <2>2, DraftSettled
    <2> QED
      BY <1>2, <2>2, <2>3
  <1>5. ASSUME UNCHANGED <<manifests, pc, job>>, revision <= revision'
        PROVE  Chained'
    BY <1>1, <1>2, <1>5, ManifestsAlone
  <1>6. CASE IndexLag \/ \E e \in Events : FlipSelection(e)
    BY <1>1, <1>5, <1>6 DEF IndexLag, FlipSelection
  <1>7. CASE Reresolve
    BY <1>1, <1>5, <1>7 DEF Reresolve
  <1>8. CASE \E ballot \in SUBSET CurrentRoots : \E chosen \in ballot, fresh \in BOOLEAN :
                ChooseHeadline(ballot, chosen, fresh)
    BY <1>1, <1>5, <1>8 DEF ChooseHeadline
  <1>9. CASE \E e \in Candidates, says \in Answers : RuleOnCollision(e, says)
    BY <1>1, <1>5, <1>9 DEF RuleOnCollision
  <1> QED
    BY <1>3, <1>4, <1>6, <1>7, <1>8, <1>9 DEF Next

LEMMA StutterChained ==
    ASSUME EventDayInv, Chained, UNCHANGED vars
    PROVE  Chained'
  <1>1. TypeOK /\ TypeOK' /\ ManifestsChained /\ revision \in Nat
    BY StutterPreserves, Limits DEF EventDayInv, Chained, TypeOK
  <1>2. UNCHANGED <<manifests, revision, pc, job>>
    BY DEF vars
  <1> QED
    BY <1>1, <1>2, ManifestsAlone, OthersBuild

\* The chain of manifests, for all events, publishers and bounds: while every
\* version names a predecessor, it is the one published right before it, and
\* its payload has that one's events (publish_wikidata_event builds on the
\* latest manifest; supersedes_manifest_id is unique).
THEOREM ManifestsFormAChain == Spec => []Chained
  <1>1. EventDayInv /\ Chained /\ [Next]_vars => Chained'
    BY NextChained, StutterChained
  <1> QED
    BY InitChained, <1>1, EventDayInvariant, PTL DEF Spec

\* No admitted event disappears from its date, for all events, publishers and
\* bounds ("Safe inability is better than successful amnesia"): every
\* published version has the events of the one published before it, also when
\* predicates are withdrawn, drafts lost and publishers overtake each other.
THEOREM AdmittedEventsStay == Spec => []AdmittedEventsKept
  <1>1. EventDayInv /\ Chained => AdmittedEventsKept
    <2> SUFFICES ASSUME TypeOK, ManifestsChained, NEW v \in Versions("published"),
                        \A u \in Versions("published") : u <= v => ~Blind(u),
                        EventsBehind(Previous(v)) = Carried(Previous(v))
                 PROVE  Carried(Previous(v)) \subseteq Carried(v)
      BY DEF EventDayInv, Chained, AdmittedEventsKept
    <2>1. v \in DOMAIN manifests /\ v \in Nat /\ v # 0 /\ v \in Standing
      BY ManifestsRead DEF Versions, Standing
    <2>2. NeverBlind(v)
      <3>1. \A u \in PublishedBefore(v) \cup {v} : u \in Versions("published") /\ u <= v
        <4>1. \A u \in Versions("published") : u \in Nat
          BY ManifestsRead
        <4> QED
          BY <2>1, <4>1 DEF PublishedBefore
      <3> QED
        BY <3>1 DEF NeverBlind
    <2>3. manifests[v].base = Previous(v) /\ Grounded(v)
      BY <2>1, <2>2 DEF ManifestsChained
    <2>4. CASE Previous(v) = 0
      BY <2>4, ManifestsRead
    <2>5. CASE Previous(v) # 0
      <3>1. Current(Previous(v))
        BY <2>5, CurrentIsBehind
      <3>2. Carried(Previous(v)) \subseteq manifests[v].content.events
        BY <2>3, <2>5, <3>1 DEF Grounded, Keeps
      <3> QED
        BY <2>1, <3>2 DEF Carried
    <2> QED
      BY <2>4, <2>5
  <1> QED
    BY <1>1, EventDayInvariant, ManifestsFormAChain, PTL


----------------------------------------------------------------------------
(* Who may stand beside whom.                                              *)
(*                                                                         *)
(* A publisher asks for a ruling on the events that still point at the     *)
(* manifest it builds on, and carries along every event of that manifest.  *)
(* Those are the same, or the publisher is alone in its payload, unless    *)
(* the golden event has been resolved anew while two others are about: the *)
(* third event is then published next to one it was never compared with.   *)

\* The golden event is never resolved anew, or there is but one other event.
SettledOrPair == MaxRevisions = 0 \/ \A a, b \in Candidates : a = b

\* A person has ruled the pair distinct at some time.
OnceDistinct(pair) == \E i \in DOMAIN rulings[pair] : rulings[pair][i].says = "distinct_event"

AllRuled(S) == \A pair \in Pairs : pair \subseteq S => OnceDistinct(pair)

\* What is permitted now is permitted in the history of every attempt.
Remembers(p) ==
    pc[p] # "idle" => \A pair \in Pairs : Allows(rulings[pair]) => pair \in permitted[p]

\* What a publisher has put together.
Beside(p) ==
    pc[p] \in {"evaluate", "ready", "promoted"} =>
        /\ AllRuled(job[p].content.events)
        /\ \A other \in job[p].content.events \ {job[p].event} :
                {job[p].event, other} \in permitted[p]

Admitted ==
    /\ \A v \in DOMAIN manifests : AllRuled(manifests[v].content.events)
    /\ \A p \in Publishers : Remembers(p) /\ Beside(p)

\* A single event needs no ruling.
LEMMA SingleIsRuled ==
    ASSUME NEW S, NEW x, S \subseteq {x}
    PROVE  AllRuled(S)
  <1>1. ASSUME NEW pair \in Pairs, pair \subseteq S PROVE FALSE
    <2>1. PICK a \in Events, b \in Events : pair = {a, b}
      BY <1>1 DEF Pairs
    <2>2. a = x /\ b = x
      BY <1>1, <2>1
    <2>3. pair = {a}
      BY <2>1, <2>2
    <2> QED
      BY <2>3 DEF Pairs
  <1> QED
    BY <1>1 DEF AllRuled

\* A newest decision that permits is one that did.
LEMMA AllowedIsOnce ==
    ASSUME TypeOK, NEW pair \in Pairs, Allows(rulings[pair])
    PROVE  OnceDistinct(pair)
  <1>1. rulings[pair] \in Seq(Ruling) /\ rulings[pair] # <<>>
    BY DEF TypeOK, Allows
  <1>2. Len(rulings[pair]) \in DOMAIN rulings[pair]
    BY <1>1
  <1> QED
    BY <1>2 DEF Allows, Latest, OnceDistinct

\* Where others stand behind the manifest, all of its events do.
LEMMA AllStandBehind ==
    ASSUME TypeOK, SettledOrPair, NEW e \in Candidates, NEW b \in 0 .. Len(manifests),
           EventsBehind(b) \ {e} # {}
    PROVE  Carried(b) \ {e} \subseteq EventsBehind(b)
  <1>1. b \in DOMAIN manifests /\ b # 0
    <2>1. b # 0
      BY DEF EventsBehind
    <2> QED
      BY <2>1, ManifestsRead
  <1>2. CASE MaxRevisions = 0
    <2>1. revision \in 0 .. MaxRevisions /\ manifests[b].content.revision \in 0 .. MaxRevisions
      <3>1. manifests[b].content \in Content
        BY <1>1, ManifestsRead DEF Manifest
      <3> QED
        BY <3>1 DEF TypeOK, Content
    <2>2. manifests[b].content.revision = revision
      BY <1>2, <2>1
    <2> QED
      BY <1>1, <2>2 DEF EventsBehind
  <1>3. CASE \A x, y \in Candidates : x = y
    <2>1. Carried(b) \subseteq Events /\ EventsBehind(b) \subseteq Carried(b)
      BY ManifestsRead
    <2>2. \A x \in Events \ {e} : x = Golden
      BY <1>3 DEF Candidates
    <2> QED
      BY <2>1, <2>2
  <1> QED
    BY <1>2, <1>3 DEF SettledOrPair

\* The pair of a publisher's event and another one.
LEMMA PairOf ==
    ASSUME NEW e \in Events, NEW other \in Events, other # e
    PROVE  {e, other} \in Pairs
  <1>1. \A a : {e, other} # {a}
    OBVIOUS
  <1> QED
    BY <1>1 DEF Pairs

\* What a publisher carries along it was permitted to, and so were the others.
LEMMA KeptIsAdmitted ==
    ASSUME TypeOK, SettledOrPair, Admitted, NEW e \in Events,
           NEW b \in 0 .. Len(manifests),
           \/ EventsBehind(b) \subseteq {e}
           \/ e # Golden /\ Permits(e, EventsBehind(b) \ {e})
    PROVE  /\ AllRuled(Kept(e, b))
           /\ \A other \in Kept(e, b) \ {e} :
                {e, other} \in Pairs /\ Allows(rulings[{e, other}])
  <1>1. CASE EventsBehind(b) \subseteq {e}
    <2>1. Kept(e, b) = {e}
      BY <1>1 DEF Kept
    <2> QED
      BY <2>1, SingleIsRuled
  <1>2. CASE ~(EventsBehind(b) \subseteq {e})
    <2>1. e \in Candidates /\ Permits(e, EventsBehind(b) \ {e})
      BY <1>2 DEF Candidates
    <2>2. Kept(e, b) = {e} \cup (Carried(b) \cap selected)
      BY <1>2 DEF Kept
    <2>3. Carried(b) \ {e} \subseteq EventsBehind(b) /\ Carried(b) \subseteq Events
      BY <1>2, <2>1, AllStandBehind, ManifestsRead
    <2>4. ASSUME NEW other \in Kept(e, b) \ {e}
          PROVE  {e, other} \in Pairs /\ Allows(rulings[{e, other}])
      <3>1. other \in Events /\ other \in EventsBehind(b) \ {e}
        BY <2>2, <2>3
      <3>2. Distinct({e, other})
        BY <2>1, <3>1 DEF Permits
      <3> QED
        BY <3>1, <3>2, PairOf DEF Distinct
    <2>5. ASSUME NEW pair \in Pairs, pair \subseteq Kept(e, b) PROVE OnceDistinct(pair)
      <3>1. CASE e \in pair
        <4>1. PICK x \in Events, y \in Events : pair = {x, y} /\ x # y
          BY DEF Pairs
        <4>2. PICK other \in pair \ {e} : pair = {e, other}
          BY <3>1, <4>1
        <4>3. other \in Kept(e, b) \ {e}
          BY <2>5, <4>2
        <4> QED
          BY <2>4, <4>2, <4>3, AllowedIsOnce
      <3>2. CASE e \notin pair
        <4>1. pair \subseteq Carried(b)
          BY <2>2, <2>5, <3>2
        <4>2. b \in DOMAIN manifests /\ b # 0
          <5>1. b # 0
            BY <1>2 DEF EventsBehind
          <5> QED
            BY <5>1, ManifestsRead
        <4>3. pair \subseteq manifests[b].content.events
          BY <4>1, <4>2 DEF Carried
        <4> QED
          BY <4>2, <4>3 DEF Admitted, AllRuled
      <3> QED
        BY <3>1, <3>2
    <2> QED
      BY <2>4, <2>5 DEF AllRuled
  <1> QED
    BY <1>1, <1>2

\* A step of a publisher rules on nothing; it keeps its history of what was
\* permitted from the beginning of the attempt to its end.
LEMMA AttemptRulesNothing ==
    ASSUME TypeOK, NEW p \in Publishers, Attempt(p)
    PROVE  /\ UNCHANGED rulings
           /\ \A q \in Publishers \ {p} : permitted'[q] = permitted[q]
           /\ \/ pc'[p] = "idle"
              \/ pc[p] = "idle" /\ permitted'[p] = {pair \in Pairs : Allows(rulings[pair])}
              \/ pc[p] # "idle" /\ permitted' = permitted
  <1> DEFINE Fine ==
        /\ \A q \in Publishers \ {p} : permitted'[q] = permitted[q]
        /\ \/ pc'[p] = "idle"
           \/ pc[p] = "idle" /\ permitted'[p] = {pair \in Pairs : Allows(rulings[pair])}
           \/ pc[p] # "idle" /\ permitted' = permitted
  <1>1. permitted \in [Publishers -> SUBSET Pairs] /\ pc \in [Publishers -> Steps]
    BY DEF TypeOK
  <1>2. ASSUME End(p) PROVE Fine
    BY <1>1, <1>2 DEF End, Goto
  <1>3. ASSUME UNCHANGED permitted, pc[p] # "idle" PROVE Fine
    BY <1>3
  <1>4. ASSUME NEW v, Stopped(p, v), pc[p] # "idle" PROVE Fine /\ UNCHANGED rulings
    BY <1>2, <1>3, <1>4 DEF Stopped, Fail
  <1>5. CASE Begin(p) \/ BeginGolden(p)
    BY <1>1, <1>5 DEF Begin, BeginGolden, BeginAttempt
  <1> HIDE DEF Fine
  <1>6. CASE Guard(p)
    <2>1. pc[p] # "idle"
      BY <1>6 DEF Guard
    <2>2. Stopped(p, index) \/ UNCHANGED <<rulings, permitted>>
      BY <1>6 DEF Guard
    <2>3. Fine /\ UNCHANGED rulings
      BY <1>3, <1>4, <2>1, <2>2
    <2> QED
      BY <2>3 DEF Fine
  <1>7. CASE Carry(p) \/ CarryGolden(p)
    <2>1. pc[p] # "idle"
      BY <1>7 DEF Carry, CarryGolden
    <2>2. Fail(p) \/ Stopped(p, LatestPublished) \/ UNCHANGED <<rulings, permitted>>
      BY <1>7 DEF Carry, CarryGolden, Prepared
    <2>3. Fine /\ UNCHANGED rulings
      BY <1>2, <1>3, <1>4, <2>1, <2>2 DEF Fail
    <2> QED
      BY <2>3 DEF Fine
  <1>8. CASE Evaluate(p)
    <2>1. pc[p] # "idle"
      BY <1>8 DEF Evaluate
    <2>2. Fail(p) \/ UNCHANGED <<rulings, permitted>>
      BY <1>8 DEF Evaluate
    <2>3. Fine /\ UNCHANGED rulings
      BY <1>2, <1>3, <2>1, <2>2 DEF Fail
    <2> QED
      BY <2>3 DEF Fine
  <1>9. CASE \E force \in BOOLEAN : Adopt(p, force) \/ StartVersion(p, force)
    <2>1. pc[p] # "idle" /\ UNCHANGED <<rulings, permitted>>
      BY <1>9 DEF Adopt, StartVersion, PastIdempotency, CommitPhaseOne
    <2> QED
      BY <1>3, <2>1 DEF Fine
  <1>10. CASE \/ CommitTask(p) \/ Complete(p) \/ Crash(p)
              \/ \E force \in BOOLEAN : Unchanged(p, force) \/ RefuseVersion(p, force)
    <2>1. End(p) /\ UNCHANGED rulings
      BY <1>10 DEF CommitTask, Complete, Crash, Unchanged, RefuseVersion, Fail
    <2> QED
      BY <1>2, <2>1 DEF Fine
  <1> QED
    BY <1>5, <1>6, <1>7, <1>8, <1>9, <1>10 DEF Attempt

\* A publisher that has ended, or not read its predecessor, put nothing
\* together.
LEMMA NothingBeside ==
    ASSUME TypeOK, NEW p \in Publishers,
           \/ End(p) \/ Fail(p)
           \/ \E v : Stopped(p, v)
           \/ \E step \in Steps \ {"evaluate", "ready", "promoted"} : Goto(p, step)
    PROVE  Beside(p)'
  <1>1. pc'[p] \notin {"evaluate", "ready", "promoted"}
    BY DEF TypeOK, Fail, End, Stopped, Ask, Goto
  <1> QED
    BY <1>1 DEF Beside

\* What is put together stays, and so does what made it permitted.
LEMMA BesideStays ==
    ASSUME NEW p \in Publishers, Beside(p), pc[p] \in {"evaluate", "ready", "promoted"},
           job'[p].event = job[p].event,
           job'[p].content.events = job[p].content.events,
           permitted[p] \subseteq permitted'[p],
           \A pair \in Pairs : OnceDistinct(pair) => OnceDistinct(pair)'
    PROVE  Beside(p)'
  <1>1. AllRuled(job[p].content.events)
    BY DEF Beside
  <1>2. \A pair \in Pairs : pair \subseteq job'[p].content.events => OnceDistinct(pair)'
    BY <1>1 DEF AllRuled
  <1>3. \A other \in job'[p].content.events \ {job'[p].event} :
            {job'[p].event, other} \in permitted'[p]
    BY DEF Beside
  <1> QED
    BY <1>2, <1>3 DEF Beside, AllRuled

LEMMA PreparedBeside ==
    ASSUME TypeOK, SettledOrPair, Admitted, NEW p \in Publishers, pc[p] # "idle",
           NEW e, e = job[p].event, e \in Events, NEW b, b = LatestPublished,
           NEW others, NEW step, Prepared(p, b, others, step),
           \/ EventsBehind(b) \subseteq {e}
           \/ e # Golden /\ Permits(e, EventsBehind(b) \ {e})
    PROVE  Beside(p)'
  <1>1. b \in 0 .. Len(manifests)
    BY ManifestsRead
  <1>2. PICK S : S = Kept(e, b)
    OBVIOUS
  <1>3. /\ AllRuled(S)
        /\ \A other \in S \ {e} : {e, other} \in Pairs /\ Allows(rulings[{e, other}])
    BY <1>1, <1>2, KeptIsAdmitted
  <1>4. PICK c : c = Assembled(e, b)
    OBVIOUS
  <1>5. c.events = S
    BY <1>1, <1>2, <1>4, AssembledTyped
  <1>6. job'[p].event = e /\ job'[p].content = c /\ UNCHANGED <<rulings, permitted>>
    BY <1>4 DEF Prepared, TypeOK, Job
  <1>7. \A other \in S \ {e} : {e, other} \in permitted'[p]
    BY <1>3, <1>6 DEF Admitted, Remembers
  <1>8. AllRuled(S)'
    BY <1>3, <1>6 DEF AllRuled, OnceDistinct
  <1> QED
    BY <1>5, <1>6, <1>7, <1>8 DEF Beside

LEMMA CarryBeside ==
    ASSUME TypeOK, SettledOrPair, Admitted, NEW p \in Publishers, Knows(p),
           Carry(p) \/ CarryGolden(p)
    PROVE  Beside(p)'
  <1>1. PICK e, b : e = job[p].event /\ b = LatestPublished
    OBVIOUS
  <1>2. e \in Events /\ pc[p] # "idle"
    BY <1>1 DEF Knows, Carry, CarryGolden
  <1>3. \/ Fail(p) \/ Stopped(p, b)
        \/ \E others, step :
              /\ Prepared(p, b, others, step)
              /\ \/ EventsBehind(b) \subseteq {e}
                 \/ e # Golden /\ Permits(e, EventsBehind(b) \ {e})
    <2>1. CASE Carry(p)
      <3>1. e # Golden
        BY <1>1, <2>1 DEF Carry
      <3>2. \/ Fail(p) \/ Stopped(p, b)
            \/ EventsBehind(b) \ {e} = {} /\ Prepared(p, b, EventsBehind(b) \ {e}, "ready")
            \/ /\ MayCarry(e, EventsBehind(b) \ {e})
               /\ Prepared(p, b, EventsBehind(b) \ {e}, "evaluate")
        BY <1>1, <2>1 DEF Carry
      <3> QED
        BY <3>1, <3>2 DEF MayCarry
    <2>2. CASE CarryGolden(p)
      <3>1. \/ Fail(p)
            \/ EventsBehind(b) \subseteq {e} /\ Prepared(p, b, {}, "ready")
        BY <1>1, <2>2 DEF CarryGolden
      <3> QED
        BY <3>1
    <2> QED
      BY <2>1, <2>2
  <1>4. CASE Fail(p) \/ Stopped(p, b)
    BY <1>4, NothingBeside
  <1>5. CASE ~(Fail(p) \/ Stopped(p, b))
    <2>1. PICK others, step :
              /\ Prepared(p, b, others, step)
              /\ \/ EventsBehind(b) \subseteq {e}
                 \/ e # Golden /\ Permits(e, EventsBehind(b) \ {e})
      BY <1>3, <1>5
    <2> QED
      BY <1>1, <1>2, <2>1, PreparedBeside
  <1> QED
    BY <1>4, <1>5

\* The choice of a headline leaves the events alone.
LEMMA EvaluateBeside ==
    ASSUME TypeOK, NEW p \in Publishers, Beside(p), Evaluate(p)
    PROVE  Beside(p)'
  <1>1. CASE Fail(p)
    BY <1>1, NothingBeside
  <1>2. CASE ~Fail(p)
    <2> DEFINE ballot == job[p].ballot
               root == IF HumanChoices # {} THEN CHOOSE r \in HumanChoices : TRUE
                       ELSE Winner(ballot)
               rows == IF HumanChoices # {} \/ Stands(ballot) THEN NoRows
                       ELSE Rows(featured, ballot, root, "standing_rule", FALSE)
               head == root[1]
               binding == BindingOf(With(featured, rows), root, ballot)
    <2>1. job' = [job EXCEPT ![p] = [@ EXCEPT
                !.rows = rows,
                !.content = [job[p].content EXCEPT !.head = head, !.binding = binding]]]
      BY <1>2 DEF Evaluate
    <2> HIDE DEF rows, head, binding
    <2>2. UNCHANGED <<rulings, permitted>> /\ pc[p] = "evaluate"
      BY <1>2 DEF Evaluate
    <2>3. job[p] \in Job /\ job[p].content \in Content /\ job \in [Publishers -> Job]
      BY DEF TypeOK, Job
    <2>4. /\ job'[p].event = job[p].event
          /\ job'[p].content = [job[p].content EXCEPT !.head = head, !.binding = binding]
      BY <2>1, <2>3 DEF Job
    <2>5. job'[p].content.events = job[p].content.events
      BY <2>3, <2>4 DEF Content
    <2>6. \A pair \in Pairs : OnceDistinct(pair) => OnceDistinct(pair)'
      BY <2>2 DEF OnceDistinct
    <2> QED
      BY <2>2, <2>4, <2>5, <2>6, BesideStays
  <1> QED
    BY <1>1, <1>2

LEMMA CommitBeside ==
    ASSUME TypeOK, NEW p \in Publishers, Beside(p), pc[p] = "ready",
           NEW target, CommitPhaseOne(p, target)
    PROVE  Beside(p)'
  <1>1. job \in [Publishers -> Job]
    BY DEF TypeOK
  <1>2. job'[p].event = job[p].event /\ job'[p].content = job[p].content
    <2>1. job'[p] = [NoJob EXCEPT !.event = job[p].event, !.content = job[p].content,
                                  !.target = target]
      BY <1>1 DEF CommitPhaseOne
    <2> QED
      BY <2>1 DEF NoJob
  <1>3. UNCHANGED <<rulings, permitted>>
    BY DEF CommitPhaseOne
  <1>4. \A pair \in Pairs : OnceDistinct(pair) => OnceDistinct(pair)'
    BY <1>3 DEF OnceDistinct
  <1> QED
    BY <1>2, <1>3, <1>4, BesideStays

LEMMA AttemptBeside ==
    ASSUME TypeOK, SettledOrPair, Admitted, NEW p \in Publishers, Knows(p), Attempt(p)
    PROVE  Beside(p)'
  <1>1. Beside(p)
    BY DEF Admitted
  <1>2. CASE Begin(p) \/ BeginGolden(p)
    <2>1. PICK e : BeginAttempt(p, e, "guard") \/ BeginAttempt(p, e, "carry")
      BY <1>2 DEF Begin, BeginGolden
    <2>2. Goto(p, "guard") \/ Goto(p, "carry")
      BY <2>1 DEF BeginAttempt
    <2> QED
      BY <2>2, NothingBeside DEF Steps
  <1>3. CASE Guard(p)
    <2>1. Stopped(p, index) \/ Goto(p, "carry")
      BY <1>3 DEF Guard
    <2> QED
      BY <2>1, NothingBeside DEF Steps
  <1>4. CASE Carry(p) \/ CarryGolden(p)
    BY <1>4, CarryBeside
  <1>5. CASE Evaluate(p)
    BY <1>1, <1>5, EvaluateBeside
  <1>6. CASE \E force \in BOOLEAN : Adopt(p, force) \/ StartVersion(p, force)
    <2>1. pc[p] = "ready" /\ \E target : CommitPhaseOne(p, target)
      BY <1>6 DEF Adopt, StartVersion, PastIdempotency
    <2> QED
      BY <1>1, <2>1, CommitBeside
  <1>7. CASE \/ CommitTask(p) \/ Complete(p) \/ Crash(p)
             \/ \E force \in BOOLEAN : Unchanged(p, force) \/ RefuseVersion(p, force)
    <2>1. End(p)
      BY <1>7 DEF CommitTask, Complete, Crash, Unchanged, RefuseVersion, Fail
    <2> QED
      BY <2>1, NothingBeside
  <1> QED
    BY <1>2, <1>3, <1>4, <1>5, <1>6, <1>7 DEF Attempt

\* The steps of a publisher.
LEMMA AttemptAdmits ==
    ASSUME EventDayInv, SettledOrPair, Admitted, NEW p \in Publishers, Attempt(p)
    PROVE  Admitted'
  <1>1. TypeOK /\ Knows(p)
    BY DEF EventDayInv
  <1>2. /\ UNCHANGED rulings
        /\ \A q \in Publishers \ {p} : permitted'[q] = permitted[q]
        /\ \/ pc'[p] = "idle"
           \/ pc[p] = "idle" /\ permitted'[p] = {pair \in Pairs : Allows(rulings[pair])}
           \/ pc[p] # "idle" /\ permitted' = permitted
    BY <1>1, AttemptRulesNothing
  <1>3. \A pair \in Pairs : OnceDistinct(pair) => OnceDistinct(pair)'
    BY <1>2 DEF OnceDistinct
  <1>4. ASSUME NEW q \in Publishers PROVE Remembers(q)'
    <2>1. CASE q = p
      BY <1>2, <2>1 DEF Admitted, Remembers, Allows, Latest
    <2>2. CASE q # p
      <3>1. pc'[q] = pc[q] /\ permitted'[q] = permitted[q]
        BY <1>1, <1>2, <2>2, OthersUndisturbed
      <3> QED
        BY <1>2, <3>1 DEF Admitted, Remembers
    <2> QED
      BY <2>1, <2>2
  <1>5. ASSUME NEW q \in Publishers PROVE Beside(q)'
    <2>1. CASE q = p
      BY <1>1, <2>1, AttemptBeside
    <2>2. CASE q # p
      <3>1. pc'[q] = pc[q] /\ job'[q] = job[q] /\ permitted'[q] = permitted[q]
        BY <1>1, <1>2, <2>2, OthersUndisturbed
      <3>2. Beside(q)
        BY DEF Admitted
      <3>3. CASE pc[q] \in {"evaluate", "ready", "promoted"}
        BY <1>3, <3>1, <3>2, <3>3, BesideStays
      <3>4. CASE pc[q] \notin {"evaluate", "ready", "promoted"}
        BY <3>1, <3>4 DEF Beside
      <3> QED
        BY <3>3, <3>4
    <2> QED
      BY <2>1, <2>2
  <1>6. ASSUME NEW v \in DOMAIN manifests', NEW pair \in Pairs,
               pair \subseteq manifests'[v].content.events
        PROVE  OnceDistinct(pair)'
    <2>1. ManifestsKept /\ Opens(p)
      BY AttemptSound DEF Sound
    <2>2. PICK S : S = manifests'[v].content.events
      OBVIOUS
    <2>3. AllRuled(S)
      <3>1. CASE v \in DOMAIN manifests
        BY <2>1, <2>2, <3>1 DEF ManifestsKept, Admitted
      <3>2. CASE v \notin DOMAIN manifests
        BY <2>1, <2>2, <3>2 DEF Opens, Admitted, Beside
      <3> QED
        BY <3>1, <3>2
    <2> QED
      BY <1>3, <1>6, <2>2, <2>3 DEF AllRuled
  <1> QED
    BY <1>4, <1>5, <1>6 DEF Admitted, AllRuled

\* Steps that rule on nothing and leave the publishers and contents alone.
LEMMA SurroundingsAdmit ==
    ASSUME Admitted, ManifestsKept, DOMAIN manifests' = DOMAIN manifests,
           UNCHANGED <<rulings, pc, job, permitted>>
    PROVE  Admitted'
  <1>1. \A pair \in Pairs : OnceDistinct(pair) => OnceDistinct(pair)'
    BY DEF OnceDistinct
  <1>2. ASSUME NEW v \in DOMAIN manifests', NEW pair \in Pairs,
               pair \subseteq manifests'[v].content.events
        PROVE  OnceDistinct(pair)'
    <2>1. PICK S : S = manifests'[v].content.events
      OBVIOUS
    <2>2. AllRuled(S)
      BY <2>1 DEF Admitted, ManifestsKept
    <2> QED
      BY <1>1, <1>2, <2>1, <2>2 DEF AllRuled
  <1>3. ASSUME NEW q \in Publishers PROVE Remembers(q)'
    BY DEF Admitted, Remembers
  <1>4. ASSUME NEW q \in Publishers PROVE Beside(q)'
    BY <1>1 DEF Admitted, Beside, AllRuled
  <1> QED
    BY <1>2, <1>3, <1>4 DEF Admitted, AllRuled

\* A person's ruling withdraws none that was given, and every attempt under
\* way hears of it.
LEMMA RulingAdmits ==
    ASSUME TypeOK, Admitted, NEW e \in Candidates, NEW says \in Answers,
           RuleOnCollision(e, says)
    PROVE  Admitted'
  <1>1. UNCHANGED <<manifests, pc, job>>
    BY DEF RuleOnCollision
  <1>2. PICK i \in Answerable(e, EventsBehind(index)) :
            rulings' = [pair \in Pairs |->
                IF e \in pair /\ pair \ {e} \subseteq EventsBehind(index)
                THEN Ruled(rulings[pair], [says |-> says, asked |-> e, task |-> i])
                ELSE rulings[pair]]
    BY DEF RuleOnCollision
  <1>3. ASSUME NEW pair \in Pairs, OnceDistinct(pair) PROVE OnceDistinct(pair)'
    <2>1. PICK k \in DOMAIN rulings[pair] : rulings[pair][k].says = "distinct_event"
      BY <1>3 DEF OnceDistinct
    <2>2. rulings[pair] \in Seq(Ruling)
      BY DEF TypeOK
    <2>3. \A r : k \in DOMAIN Append(rulings[pair], r)
                 /\ Append(rulings[pair], r)[k] = rulings[pair][k]
      BY <2>1, <2>2
    <2>4. k \in DOMAIN rulings'[pair] /\ rulings'[pair][k] = rulings[pair][k]
      BY <1>2, <2>1, <2>3 DEF Ruled
    <2> QED
      BY <2>1, <2>4 DEF OnceDistinct
  <1>4. permitted' = [p \in Publishers |-> permitted[p] \cup
            {pair \in Pairs : pc[p] # "idle" /\ Allows(rulings'[pair])}]
    BY DEF RuleOnCollision
  <1>5. ASSUME NEW q \in Publishers PROVE Remembers(q)'
    <2>1. ASSUME NEW pair \in Pairs, pc[q] # "idle", Allows(rulings[pair])'
          PROVE  pair \in permitted'[q]
      <3>1. Allows(rulings'[pair])
        BY <2>1 DEF Allows, Latest
      <3> QED
        BY <1>4, <2>1, <3>1
    <2> QED
      BY <1>1, <2>1 DEF Remembers
  <1>6. ASSUME NEW q \in Publishers PROVE Beside(q)'
    <2>1. Beside(q) /\ permitted[q] \subseteq permitted'[q]
      BY <1>4 DEF Admitted
    <2>2. CASE pc[q] \in {"evaluate", "ready", "promoted"}
      BY <1>1, <1>3, <2>1, <2>2, BesideStays
    <2>3. CASE pc[q] \notin {"evaluate", "ready", "promoted"}
      BY <1>1, <2>3 DEF Beside
    <2> QED
      BY <2>2, <2>3
  <1>7. ASSUME NEW v \in DOMAIN manifests', NEW pair \in Pairs,
               pair \subseteq manifests'[v].content.events
        PROVE  OnceDistinct(pair)'
    <2>1. AllRuled(manifests[v].content.events)
      BY <1>1 DEF Admitted
    <2> QED
      BY <1>1, <1>3, <1>7, <2>1 DEF AllRuled
  <1> QED
    BY <1>5, <1>6, <1>7 DEF Admitted, AllRuled

LEMMA NextAdmits ==
    ASSUME EventDayInv, SettledOrPair, Admitted, Next
    PROVE  Admitted'
  <1>1. TypeOK
    BY DEF EventDayInv
  <1>2. CASE \E p \in Publishers : Attempt(p)
    BY <1>2, AttemptAdmits
  <1>3. CASE ReconcileDraft
    <2>1. PICK v \in Versions("draft") :
            \/ manifests' = [manifests EXCEPT ![v].status = "published"]
            \/ manifests' = [manifests EXCEPT ![v].status = "withdrawn"]
      BY <1>3 DEF ReconcileDraft, Publish
    <2>2. UNCHANGED <<rulings, pc, job, permitted>>
      BY <1>3 DEF ReconcileDraft
    <2>3. v \in DOMAIN manifests
      BY DEF Versions
    <2>4. ManifestsKept /\ DOMAIN manifests' = DOMAIN manifests
      BY <1>1, <2>1, <2>3, StatusTyped
    <2> QED
      BY <2>2, <2>4, SurroundingsAdmit
  <1>4. ASSUME UNCHANGED <<manifests, rulings, pc, job, permitted>> PROVE Admitted'
    BY <1>4, SurroundingsAdmit DEF ManifestsKept
  <1>5. CASE IndexLag \/ Reresolve \/ \E e \in Events : FlipSelection(e)
    BY <1>4, <1>5 DEF IndexLag, Reresolve, FlipSelection
  <1>6. CASE \E ballot \in SUBSET CurrentRoots : \E chosen \in ballot, fresh \in BOOLEAN :
                ChooseHeadline(ballot, chosen, fresh)
    BY <1>4, <1>6 DEF ChooseHeadline
  <1>7. CASE \E e \in Candidates, says \in Answers : RuleOnCollision(e, says)
    BY <1>1, <1>7, RulingAdmits
  <1> QED
    BY <1>2, <1>3, <1>5, <1>6, <1>7 DEF Next

LEMMA InitAdmitted == Init => Admitted
  <1> SUFFICES ASSUME Init PROVE Admitted
    OBVIOUS
  <1>1. \A q \in Publishers : Remembers(q) /\ Beside(q)
    BY DEF Init, Remembers, Beside
  <1>2. ASSUME NEW v \in DOMAIN manifests PROVE manifests[v].content.events \subseteq {Golden}
    <2>1. PICK events \in {{}, {Golden}}, head \in {None, Golden} :
            manifests \in {<<>>, <<[status |-> "published", base |-> 0, content |->
                [Empty EXCEPT !.events = events, !.head = head]]>>}
      BY DEF Init
    <2> DEFINE c == [Empty EXCEPT !.events = events, !.head = head]
    <2>2. c.events \subseteq {Golden}
      BY DEF Empty
    <2>3. manifests = <<>> \/ manifests = <<[status |-> "published", base |-> 0, content |-> c]>>
      BY <2>1
    <2> HIDE DEF c
    <2>4. PICK m : m = [status |-> "published", base |-> 0, content |-> c]
      OBVIOUS
    <2>5. m.content.events \subseteq {Golden}
      BY <2>2, <2>4
    <2>6. manifests = <<>> \/ manifests = <<m>>
      BY <2>3, <2>4
    <2> QED
      BY <1>2, <2>5, <2>6
  <1> QED
    BY <1>1, <1>2, SingleIsRuled DEF Admitted

LEMMA StutterAdmits ==
    ASSUME Admitted, UNCHANGED vars
    PROVE  Admitted'
  <1>1. UNCHANGED <<manifests, rulings, pc, job, permitted>>
    BY DEF vars
  <1> QED
    BY <1>1, SurroundingsAdmit DEF ManifestsKept

\* The strengthening behind the next two theorems.
THEOREM AdmissionsHold ==
    ASSUME SettledOrPair
    PROVE  Spec => []Admitted
  <1>1. EventDayInv /\ Admitted /\ [Next]_vars => Admitted'
    BY NextAdmits, StutterAdmits
  <1> QED
    BY InitAdmitted, <1>1, EventDayInvariant, PTL DEF Spec

\* Two events are on one manifest only if a person has ruled that pair
\* distinct, for all publishers, bounds and any number of events, as long as
\* the golden event is not resolved anew beside two others
\* (_collision_adjudication).
THEOREM PairsAreRuledDistinct ==
    ASSUME SettledOrPair
    PROVE  Spec => []EveryPairRuledDistinct
  <1>1. Admitted => EveryPairRuledDistinct
    <2> SUFFICES ASSUME Admitted, NEW v \in DOMAIN manifests, NEW pair \in Pairs,
                        pair \subseteq Carried(v)
                 PROVE  OnceDistinct(pair)
      BY DEF EveryPairRuledDistinct, OnceDistinct
    <2>1. Carried(v) \subseteq manifests[v].content.events
      BY DEF Carried
    <2> QED
      BY <2>1 DEF Admitted, AllRuled
  <1> QED
    BY <1>1, AdmissionsHold, PTL

\* Under the same hypothesis an attempt publishes its event only next to
\* events from which it was ruled distinct at some moment of that attempt:
\* a decision superseded before it began no longer counts.
THEOREM AdmissionsArePermitted ==
    ASSUME SettledOrPair
    PROVE  Spec => []AdmissionWasPermitted
  <1>1. Admitted => AdmissionWasPermitted
    BY DEF Admitted, Beside, AdmissionWasPermitted
  <1> QED
    BY <1>1, AdmissionsHold, PTL

=============================================================================
