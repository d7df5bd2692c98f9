------------------------------ MODULE EventDay ------------------------------
(***************************************************************************)
(* The recorded events of one date: the publishers that put an event on    *)
(* it (wikidata.py, usgs.py), the human decisions they consume and the     *)
(* merge-review tasks they raise (governance.py).                          *)
(*                                                                         *)
(* A date may carry a second event only after a person ruled the pair      *)
(* distinct; it then needs one headline, chosen by a person or, by         *)
(* default, by a standing rule whose choice is bound to the manifest.      *)
(*                                                                         *)
(* A publisher's transaction is taken apart where others come in between:  *)
(* it reads the collision, then the manifest it builds on, then evaluates  *)
(* the headline under the date's featured-event lock, then commits phase   *)
(* one, then completes.  Reads that follow each other inside one of these  *)
(* steps are merged: what they compare is read later at the latest.        *)
(*                                                                         *)
(* A manifest's payload is told apart by the events it carries and its     *)
(* headline.  Every event has one identity root and one recorded           *)
(* predicate, its occurrence; both get a new version when a newer USGS     *)
(* release is resolved, and the event then points at the new version       *)
(* (accept_and_resolve_release), while the manifests keep the roots they   *)
(* were published with.  The files of a publication are                    *)
(* Publication's business, the races on the index Coverage's: here a       *)
(* draft may be completed or lost, and the index may lag (IndexLag).       *)
(***************************************************************************)
EXTENDS Naturals, Sequences, FiniteSets

CONSTANTS
    Events,       \* resolved single-day events of the date, in the order of
                  \* the standing rule's hash
    Golden,       \* the event published by publish_golden_profile
    Publishers,   \* publisher sessions
    MaxAttempts,  \* bound on publication attempts
    MaxRulings,   \* bound on a reviewer's merge-review answers
    MaxChoices,   \* bound on a reviewer's headline choices
    MaxFlips,     \* bound on recorded predicates selected or withdrawn
    MaxRevisions, \* bound on newer releases of the golden event
    MaxMishaps,   \* bound on drafts abandoned and index refreshes that raced
    None

ASSUME EventDayAssumption ==
    /\ Events \subseteq Nat /\ IsFiniteSet(Events)
    /\ Golden \in Events
    /\ {MaxAttempts, MaxRulings, MaxChoices, MaxFlips, MaxRevisions, MaxMishaps} \subseteq Nat
    /\ None \notin Nat \cup Publishers

VARIABLES
    manifests,   \* publication_manifests of the date, by version
    index,       \* version the coverage entry points at, 0 for no entry
    revision,    \* version of the golden event's resolutions
    selected,    \* events whose recorded predicate is currently selected
    featured,    \* featured_event selections of every identity root, by decision_version
    rulings,     \* identity adjudications of every pair, by decision_version
    tasks,       \* merge-review tasks of every candidate, oldest first
    featLock,    \* holder of the date's featured-event lock
    pc, job,     \* publishers: control and transaction
    used,        \* bounded counters
    permitted    \* history: pairs that were ruled distinct at some moment of the attempt

vars == <<manifests, index, revision, selected, featured, rulings, tasks, featLock, pc, job,
          used, permitted>>

Candidates == Events \ {Golden}
Roots == Events \X (0 .. MaxRevisions)
Pairs == {{a, b} : a, b \in Events} \ {{a} : a \in Events}

\* "merge" also stands for supersede and deferred: none of them permits.
Answers == {"distinct_event", "merge"}
Row == [status : {"selected", "rejected"}, by : {"human", "standing_rule"},
        ballot : SUBSET Roots]   \* what a rule's rationale names
Binding == [root : Roots, version : Nat \ {0}, origin : {"human", "standing_rule"},
            ballot : SUBSET Roots]

\* What stands for "no binding" is none.
ASSUME BindingAssumption == None \notin Binding

Content == [events : SUBSET Events, revision : 0 .. MaxRevisions,
            head : Events \cup {None}, binding : Binding \cup {None}]
Empty == [events |-> {}, revision |-> 0, head |-> None, binding |-> None]
Manifest == [status : {"draft", "published", "withdrawn"}, base : Nat, content : Content]
Task == [about : Nat \ {0}, status : {"active", "resolved", "dismissed"}]
Ruling == [says : Answers, asked : Candidates, task : Nat \ {0}]
Job == [event : Events \cup {None},
        base : Nat,                       \* previous_manifest
        content : Content,
        ballot : SUBSET Roots,            \* candidate_roots
        rows : [Roots -> Seq(Row)],      \* featured decisions not yet committed
        about : Nat,                      \* the manifest a task is about
        dismiss : SUBSET Nat, opens : BOOLEAN,
        target : Nat]                     \* the manifest phase three completes
NoRows == [r \in Roots |-> <<>>]
NoJob == [event |-> None, base |-> 0, content |-> Empty,
          ballot |-> {}, rows |-> NoRows, about |-> 0,
          dismiss |-> {}, opens |-> FALSE, target |-> 0]
Steps == {"idle", "guard", "asking", "carry", "evaluate", "ready", "promoted"}
Bounds == [attempts : 0 .. MaxAttempts, rulings : 0 .. MaxRulings,
           choices : 0 .. MaxChoices, flips : 0 .. MaxFlips, mishaps : 0 .. MaxMishaps]

TypeOK ==
    /\ manifests \in Seq(Manifest)
    /\ index \in 0 .. Len(manifests)
    /\ revision \in 0 .. MaxRevisions
    /\ selected \subseteq Events
    /\ featured \in [Roots -> Seq(Row)]
    /\ rulings \in [Pairs -> Seq(Ruling)]
    /\ tasks \in [Candidates -> Seq(Task)]
    /\ featLock \in Publishers \cup {None}
    /\ pc \in [Publishers -> Steps]
    /\ job \in [Publishers -> Job]
    /\ used \in Bounds
    /\ permitted \in [Publishers -> SUBSET Pairs]

----------------------------------------------------------------------------
(* What is read from the tables.                                           *)

Versions(status) == {v \in DOMAIN manifests : manifests[v].status = status}

\* The newest version of a set, 0 for none.
Newest(S) == IF S = {} THEN 0 ELSE CHOOSE v \in S : \A u \in S : u <= v

LatestPublished == Newest(Versions("published"))

\* The events whose statements a manifest carries.
Carried(v) == IF v = 0 THEN {} ELSE manifests[v].content.events

\* events_behind_manifest: those that still point at the manifest's roots.
EventsBehind(v) ==
    IF v = 0 THEN {}
    ELSE {e \in Carried(v) : e = Golden => manifests[v].content.revision = revision}

\* The identity root an event has now.
Root(e) == <<e, IF e = Golden THEN revision ELSE 0>>
CurrentRoots == {Root(e) : e \in Events}

\* latest_identity_adjudication and adjudicated_distinct.
Latest(log) == log[Len(log)]
Allows(log) == log # <<>> /\ Latest(log).says = "distinct_event"

\* Mutant: a decision superseded since still counts.
DistinctEver(pair) == \E i \in DOMAIN rulings[pair] : rulings[pair][i].says = "distinct_event"

Distinct(pair) == Allows(rulings[pair])

\* _collision_adjudication of event e against the events S of a manifest.
Permits(e, S) == S \ {e} # {} /\ \A other \in S \ {e} : Distinct({e, other})
Blocks(e, S) == \E other \in S \ {e} :
    rulings[{e, other}] # <<>> /\ ~Distinct({e, other})

\* _latest_featured_selections: the roots selected now, by whom.
Selects(log, r) == log[r] # <<>> /\ Latest(log[r]).status = "selected"
SelectedBy(log, who) == {r \in Roots : Selects(log, r) /\ Latest(log[r]).by = who}

----------------------------------------------------------------------------
(* Featuring one event: record_featured_event_selection.                   *)

\* record_editorial_selection: an identical decision is not repeated.
Same(row, old, fresh) ==
    /\ old # <<>>
    /\ row.status = Latest(old).status
    /\ row.by = Latest(old).by
    /\ row.ballot = Latest(old).ballot
    /\ ~fresh

\* The row of a candidate; a rule's rationale names the ballot.
RowOf(r, ballot, chosen, by) ==
    [status |-> IF r = chosen THEN "selected" ELSE "rejected", by |-> by,
     ballot |-> IF by = "human" \/ r \notin ballot THEN {} ELSE ballot]

\* Mutant: a selected root that has dropped off the ballot stays selected.
AddsOfBallot(log, r, ballot, chosen, by, fresh) ==
    r \in ballot /\ ~Same(RowOf(r, ballot, chosen, by), log[r], fresh)

\* The chosen root is selected, the other candidates and every root that has
\* dropped off the ballot are rejected.
Adds(log, r, ballot, chosen, by, fresh) ==
    IF r \in ballot THEN ~Same(RowOf(r, ballot, chosen, by), log[r], fresh)
    ELSE Selects(log, r)

\* The rows one call adds: none where a rule meets a person's choice.  "fresh"
\* is a new rationale or another reviewer.
Rows(log, ballot, chosen, by, fresh) ==
    LET overruled == by = "standing_rule" /\ SelectedBy(log, "human") \cap ballot # {} IN
    [r \in Roots |->
        IF ~overruled /\ Adds(log, r, ballot, chosen, by, fresh)
        THEN <<RowOf(r, ballot, chosen, by)>> ELSE <<>>]

With(log, rows) == [r \in Roots |-> log[r] \o rows[r]]

\* evaluate_featured_event: the choices of people that bind the rule.
HumanChoices == SelectedBy(featured, "human")

\* The standing rule: the smallest hash among the candidates.
Winner(ballot) == CHOOSE r \in ballot : \A other \in ballot : r[1] <= other[1]

\* The rule's winner of last time still stands: nothing is recorded.
Stands(ballot) == Winner(ballot) \in SelectedBy(featured, "standing_rule")

\* Mutant: the version of the row before the one that was recorded.
BindingOfPrevious(log, r, ballot) ==
    [root |-> r, version |-> Len(log[r]) - 1, origin |-> Latest(log[r]).by, ballot |-> ballot]

\* Mutant: what the rule requested is reported, not what is recorded.
BindingOfRule(log, r, ballot) ==
    [root |-> r, version |-> Len(log[r]), origin |-> "standing_rule", ballot |-> ballot]

\* FeaturedEventEvaluation: the row that says so, and the candidate set.
BindingOf(log, r, ballot) ==
    [root |-> r, version |-> Len(log[r]), origin |-> Latest(log[r]).by, ballot |-> ballot]

----------------------------------------------------------------------------
Init ==
    /\ \E events \in {{}, {Golden}} :
        LET first == [status |-> "published", base |-> 0, content |->
                        [Empty EXCEPT !.events = events,
                                      !.head = IF events = {} THEN None ELSE Golden]]
        IN manifests \in {<<>>, <<first>>}
    /\ index = Len(manifests)
    /\ revision = 0
    /\ selected = Events
    /\ featured = NoRows
    /\ rulings = [p \in Pairs |-> <<>>]
    /\ tasks = [e \in Candidates |-> <<>>]
    /\ featLock = None
    /\ pc = [p \in Publishers |-> "idle"]
    /\ job = [p \in Publishers |-> NoJob]
    /\ used = [attempts |-> 0, rulings |-> 0, choices |-> 0, flips |-> 0, mishaps |-> 0]
    /\ permitted = [p \in Publishers |-> {}]

Goto(p, step) == pc' = [pc EXCEPT ![p] = step]
Use(counter, bound) == used[counter] < bound /\ used' = [used EXCEPT ![counter] = @ + 1]

\* The command ends; its transaction's locks are released.
End(p) ==
    /\ Goto(p, "idle")
    /\ job' = [job EXCEPT ![p] = NoJob]
    /\ permitted' = [permitted EXCEPT ![p] = {}]
    /\ featLock' = IF featLock = p THEN None ELSE featLock

\* Nothing is committed.
Fail(p) ==
    /\ End(p)
    /\ UNCHANGED <<manifests, index, revision, selected, featured, rulings, tasks, used>>

----------------------------------------------------------------------------
(* Publishers.                                                             *)

\* An attempt to publish event e, its claims accepted and the event resolved.
BeginAttempt(p, e, step) ==
    /\ pc[p] = "idle"
    /\ Use("attempts", MaxAttempts)
    /\ job' = [job EXCEPT ![p] = [NoJob EXCEPT !.event = e]]
    /\ Goto(p, step)
    /\ permitted' = [permitted EXCEPT ![p] = {pair \in Pairs : Allows(rulings[pair])}]
    /\ UNCHANGED <<manifests, index, revision, selected, featured, rulings, tasks, featLock>>

Begin(p) == \E e \in Candidates : BeginAttempt(p, e, "guard")

\* publish_golden_profile does not look for a collision.
BeginGolden(p) == BeginAttempt(p, Golden, "carry")

\* _task_concerns, for the active tasks of a candidate.
Active(e) == {i \in DOMAIN tasks[e] : tasks[e][i].status = "active"}
Concerning(e, S) == {i \in DOMAIN tasks[e] : EventsBehind(tasks[e][i].about) = S}

\* _ensure_merge_review_task reads the active tasks: one about the same events
\* is reused, those about others before it are retired.
Ask(p, v) ==
    LET e == job[p].event
        same == Active(e) \cap Concerning(e, EventsBehind(v))
    IN
    /\ Goto(p, "asking")
    /\ job' = [job EXCEPT ![p] = [@ EXCEPT
            !.about = v,
            !.opens = same = {},
            !.dismiss = {i \in Active(e) \ same : \A j \in same : i < j}]]

\* _collision_outcome_if_blocked, where it does not let the publisher pass.
Stopped(p, v) ==
    IF Blocks(job[p].event, EventsBehind(v)) THEN Fail(p)
    ELSE /\ Ask(p, v)
         /\ UNCHANGED <<manifests, index, revision, selected, featured, rulings, tasks, featLock,
                        used, permitted>>

\* published_recorded_event_on: the collision is read from the index.
Collides(e) == Carried(index) # {} /\ e \notin Carried(index)

Guard(p) ==
    /\ pc[p] = "guard"
    /\ IF Collides(job[p].event) /\ ~Permits(job[p].event, EventsBehind(index))
       THEN Stopped(p, index)
       ELSE /\ Goto(p, "carry")
            /\ UNCHANGED <<manifests, index, revision, selected, featured, rulings, tasks, featLock,
                           job, used, permitted>>

CommitTask(p) ==
    LET e == job[p].event
        kept == [i \in DOMAIN tasks[e] |->
                    IF i \in job[p].dismiss THEN [tasks[e][i] EXCEPT !.status = "dismissed"]
                    ELSE tasks[e][i]]
        opened == [about |-> job[p].about, status |-> "active"]
    IN
    /\ pc[p] = "asking"
    /\ tasks' = [tasks EXCEPT ![e] = IF job[p].opens THEN Append(kept, opened) ELSE kept]
    /\ End(p)
    /\ UNCHANGED <<manifests, index, revision, selected, featured, rulings, used>>

\* Mutant: the pairs on the previous manifest are not checked again.
MayCarryAll(e, others) == others \subseteq selected

\* publish_wikidata_event: every other event of the previous manifest passes
\* the collision guard again and has surviving evidence.
MayCarry(e, others) == Permits(e, others) /\ others \subseteq selected

\* What survives of the previous manifest, and the publisher's own event.
Kept(e, base) ==
    IF EventsBehind(base) \subseteq {e} THEN {e} ELSE {e} \cup (Carried(base) \cap selected)

\* The publisher's own statements are those selected for the date.
Ranked(e) == e \in selected

\* The payload: the publisher's own statements with those that survive.
Assembled(e, base) ==
    [Empty EXCEPT !.events = Kept(e, base), !.head = e,
        !.revision = IF e = Golden THEN revision
                     ELSE IF Golden \in Kept(e, base) THEN manifests[base].content.revision
                     ELSE 0]

\* The transaction goes on with the manifest it builds on and the payload.
Prepared(p, base, others, step) ==
    LET e == job[p].event IN
    /\ job' = [job EXCEPT ![p] = [@ EXCEPT
            !.base = base,
            !.content = Assembled(e, base),
            !.ballot = {Root(x) : x \in {e} \cup others}]]
    /\ Goto(p, step)
    /\ UNCHANGED <<manifests, index, revision, selected, featured, rulings, tasks, featLock,
                   used, permitted>>

\* The manifest to build on, and the other events it admits.
Carry(p) ==
    LET e == job[p].event
        base == LatestPublished
        others == EventsBehind(base) \ {e}
    IN
    /\ pc[p] = "carry"
    /\ e # Golden
    /\ IF ~Ranked(e) THEN Fail(p)
       ELSE IF others = {} THEN Prepared(p, base, others, "ready")
       ELSE IF MayCarry(e, others) THEN Prepared(p, base, others, "evaluate")
       ELSE IF Permits(e, others) THEN Fail(p)
       ELSE Stopped(p, base)

\* publish_golden_profile refuses a date that carries another event.
CarryGolden(p) ==
    LET base == LatestPublished IN
    /\ pc[p] = "carry"
    /\ job[p].event = Golden
    /\ IF Ranked(Golden) /\ EventsBehind(base) \subseteq {Golden}
       THEN Prepared(p, base, {}, "ready")
       ELSE Fail(p)

\* Mutant: the featured-event lock is released with the evaluation.
HolderReleased(p) == None

\* evaluate_featured_event's lock belongs to the transaction.
Holder(p) == p

\* _validated_candidates refuses a root its event has moved away from.
Evaluate(p) ==
    LET ballot == job[p].ballot
        humans == HumanChoices
        head == IF humans # {} THEN CHOOSE r \in humans : TRUE ELSE Winner(ballot)
        rows == IF humans # {} \/ Stands(ballot) THEN NoRows
                ELSE Rows(featured, ballot, head, "standing_rule", FALSE)
    IN
    /\ pc[p] = "evaluate"
    /\ featLock = None
    /\ IF ~(humans \subseteq ballot /\ ballot \subseteq CurrentRoots) THEN Fail(p)
       ELSE /\ featLock' = Holder(p)
            /\ job' = [job EXCEPT ![p] = [@ EXCEPT
                    !.rows = rows,
                    !.content = [job[p].content EXCEPT
                        !.head = head[1],
                        !.binding = BindingOf(With(featured, rows), head, ballot)]]]
            /\ Goto(p, "ready")
            /\ UNCHANGED <<manifests, index, revision, selected, featured, rulings, tasks, used,
                           permitted>>

\* The bytes of two payloads are equal.
SamePayload(c, d) ==
    c.events = d.events /\ c.revision = d.revision /\ c.head = d.head

\* metadata_binding_changed, or an operator who insists: the flag of the
\* command is read here only.
Forced(p, force) ==
    \/ force
    \/ /\ job[p].content.binding # None
       /\ job[p].base # 0
       /\ manifests[job[p].base].content.binding # job[p].content.binding

\* Phase one finds the content published: the date is indexed again.
Unchanged(p, force) ==
    LET v == LatestPublished IN
    /\ pc[p] = "ready"
    /\ v # 0
    /\ SamePayload(manifests[v].content, job[p].content)
    /\ ~Forced(p, force)
    /\ index' = v
    /\ featured' = With(featured, job[p].rows)
    /\ End(p)
    /\ UNCHANGED <<manifests, revision, selected, rulings, tasks, used>>

PastIdempotency(p, force) ==
    /\ pc[p] = "ready"
    /\ LatestPublished # 0 /\ SamePayload(manifests[LatestPublished].content, job[p].content)
            => Forced(p, force)

\* The decisions of the transaction are committed with phase one.
CommitPhaseOne(p, target) ==
    /\ featured' = With(featured, job[p].rows)
    /\ featLock' = IF featLock = p THEN None ELSE featLock
    /\ job' = [job EXCEPT ![p] = [NoJob EXCEPT !.event = job[p].event, !.content = job[p].content,
                                             !.target = target]]
    /\ Goto(p, "promoted")
    /\ UNCHANGED <<index, revision, selected, rulings, tasks, used, permitted>>

\* A pending publication with the same payload is taken over as it is.
Adopt(p, force) ==
    /\ PastIdempotency(p, force)
    /\ \E v \in Versions("draft") :
        /\ SamePayload(manifests[v].content, job[p].content)
        /\ CommitPhaseOne(p, v)
    /\ UNCHANGED manifests

\* Mutant: a manifest may be superseded any number of times.
FreeToSupersedeTwice(base) == TRUE

\* supersedes_manifest_id is unique; offering no predecessor is allowed.
FreeToSupersede(base) ==
    base = 0 \/ \A v \in DOMAIN manifests : manifests[v].base # base

StartVersion(p, force) ==
    LET m == [status |-> "draft", base |-> job[p].base, content |-> job[p].content] IN
    /\ PastIdempotency(p, force)
    /\ Versions("draft") = {}
    /\ FreeToSupersede(job[p].base)
    /\ manifests' = Append(manifests, m)
    /\ CommitPhaseOne(p, Len(manifests) + 1)

\* PendingPublicationError, or the predecessor is taken.
RefuseVersion(p, force) ==
    /\ PastIdempotency(p, force)
    /\ IF Versions("draft") # {}
       THEN \A v \in Versions("draft") : ~SamePayload(manifests[v].content, job[p].content)
       ELSE ~FreeToSupersede(job[p].base)
    /\ Fail(p)

Publish(v) ==
    /\ manifests' = [manifests EXCEPT ![v].status = "published"]
    /\ index' = v

\* Phase three: another process may have completed or abandoned the draft.
Complete(p) ==
    LET v == job[p].target IN
    /\ pc[p] = "promoted"
    /\ IF manifests[v].status = "draft" THEN Publish(v) ELSE UNCHANGED <<manifests, index>>
    /\ End(p)
    /\ UNCHANGED <<revision, selected, featured, rulings, tasks, used>>

\* The process dies; an uncommitted transaction is rolled back.
Crash(p) == pc[p] \notin {"idle", "guard"} /\ Fail(p)

----------------------------------------------------------------------------
(* Reconciliation and the index.                                           *)

\* reconcile_publications completes a draft, or abandons one whose payload is lost.
ReconcileDraft ==
    /\ \E v \in Versions("draft") :
        \/ Publish(v) /\ UNCHANGED used
        \/ /\ Use("mishaps", MaxMishaps)
           /\ manifests' = [manifests EXCEPT ![v].status = "withdrawn"]
           /\ UNCHANGED index
    /\ UNCHANGED <<revision, selected, featured, rulings, tasks, featLock, pc, job, permitted>>

\* A refresh without the publication lock has put an older entry back.
IndexLag ==
    /\ Use("mishaps", MaxMishaps)
    /\ \E v \in Versions("published") : index' = v
    /\ UNCHANGED <<manifests, revision, selected, featured, rulings, tasks, featLock, pc, job,
                   permitted>>

----------------------------------------------------------------------------
(* Reviewers.  Each decision takes its lock first, so that it is one step. *)

\* record_editorial_selection of a recorded predicate.
FlipSelection(e) ==
    /\ Use("flips", MaxFlips)
    /\ selected' = IF e \in selected THEN selected \ {e} ELSE selected \cup {e}
    /\ UNCHANGED <<manifests, index, revision, featured, rulings, tasks, featLock, pc, job,
                   permitted>>

\* accept_and_resolve_release for a newer release: the event is moved to the
\* new resolutions, whose recorded predicate is selected.
Reresolve ==
    /\ revision < MaxRevisions
    /\ revision' = revision + 1
    /\ selected' = selected \cup {Golden}
    /\ UNCHANGED <<manifests, index, featured, rulings, tasks, featLock, pc, job, used,
                   permitted>>

ChooseHeadline(ballot, chosen, fresh) ==
    /\ Use("choices", MaxChoices)
    /\ chosen \in ballot
    /\ featLock = None
    /\ featured' = With(featured, Rows(featured, ballot, chosen, "human", fresh))
    /\ UNCHANGED <<manifests, index, revision, selected, rulings, tasks, featLock, pc, job,
                   permitted>>

\* resolve_merge_review: a task about the events the date publishes now, an
\* active one if there is one.
Answerable(e, S) ==
    LET open == Active(e) \cap Concerning(e, S)
        all == Concerning(e, S)
    IN IF open # {} THEN {CHOOSE i \in open : \A j \in open : i <= j}
       ELSE IF all # {} THEN {CHOOSE i \in all : \A j \in all : j <= i} ELSE {}

\* record_identity_adjudication: an identical newest decision is not repeated.
Ruled(log, ruling) == IF log # <<>> /\ Latest(log) = ruling THEN log ELSE Append(log, ruling)

\* The task is closed with the decision.
Resolved(log, i) == [log EXCEPT ![i].status = "resolved"]

\* One adjudication for every event of the collision.
RuleOnCollision(e, says) ==
    /\ Use("rulings", MaxRulings)
    /\ Collides(e)
    /\ EventsBehind(index) # {}
    /\ \E i \in Answerable(e, EventsBehind(index)) :
        /\ rulings' = [pair \in Pairs |->
                IF e \in pair /\ pair \ {e} \subseteq EventsBehind(index)
                THEN Ruled(rulings[pair], [says |-> says, asked |-> e, task |-> i])
                ELSE rulings[pair]]
        /\ tasks' = IF i \in Active(e) THEN [tasks EXCEPT ![e] = Resolved(@, i)] ELSE tasks
    /\ permitted' = [p \in Publishers |-> permitted[p] \cup
            {pair \in Pairs : pc[p] # "idle" /\ Allows(rulings'[pair])}]
    /\ UNCHANGED <<manifests, index, revision, selected, featured, featLock, pc, job>>

Attempt(p) ==
    \/ Begin(p) \/ BeginGolden(p) \/ Guard(p) \/ CommitTask(p)
    \/ Carry(p) \/ CarryGolden(p) \/ Evaluate(p)
    \/ \E force \in BOOLEAN : \/ Unchanged(p, force) \/ Adopt(p, force)
                              \/ StartVersion(p, force) \/ RefuseVersion(p, force)
    \/ Complete(p) \/ Crash(p)

Next ==
    \/ \E p \in Publishers : Attempt(p)
    \/ ReconcileDraft
    \/ IndexLag
    \/ \E e \in Events : FlipSelection(e)
    \/ Reresolve
    \/ \E ballot \in SUBSET CurrentRoots : \E chosen \in ballot, fresh \in BOOLEAN :
            ChooseHeadline(ballot, chosen, fresh)
    \/ \E e \in Candidates, says \in Answers : RuleOnCollision(e, says)

Spec == Init /\ [][Next]_vars

----------------------------------------------------------------------------
(* Properties.                                                             *)

Previous(v) == Newest({u \in Versions("published") : u < v})

\* A version that named no predecessor although there was one.
Blind(v) == manifests[v].base = 0 /\ Previous(v) # 0

\* No event a date has admitted disappears from it: every version carries the
\* events of the one it follows, whatever publishers, withdrawals of
\* predicates, crashes and reconciliations overlapped ("Safe inability is
\* better than successful amnesia").  Excused are dates where a publication
\* slipped into the window between the reading of the previous manifest and
\* the publication lock, which the code knows about, and events resolved anew
\* since the manifest that carries them.
AdmittedEventsKept ==
    \A v \in Versions("published") :
        (/\ \A u \in Versions("published") : u <= v => ~Blind(u)
         /\ EventsBehind(Previous(v)) = Carried(Previous(v))) =>
            Carried(Previous(v)) \subseteq Carried(v)

\* The same without the second excuse, for events that were published
\* together: "republishing the same event must resolve to the same event, and
\* it does, since the new version carries the same roots"
\* (events_behind_manifest).
ReresolvedEventsKept ==
    \A v \in Versions("published") :
        (/\ \A u \in Versions("published") : u <= v => ~Blind(u)
         /\ Cardinality(Carried(Previous(v))) > 1) =>
            Carried(Previous(v)) \subseteq Carried(v)

\* Two events are never on one manifest before a person has ruled them
\* distinct: no decision about another pair, no absence of a decision, and no
\* index that lags behind opens the way.
EveryPairRuledDistinct ==
    \A v \in DOMAIN manifests : \A pair \in Pairs :
        pair \subseteq Carried(v) =>
            \E i \in DOMAIN rulings[pair] : rulings[pair][i].says = "distinct_event"

\* An attempt does not publish its event next to one from which it was not
\* ruled distinct at some moment of that same attempt: a decision superseded
\* since the pair was admitted stops the next version.
AdmissionWasPermitted ==
    \A p \in Publishers : pc[p] = "promoted" =>
        \A other \in job[p].content.events \ {job[p].event} :
            {job[p].event, other} \in permitted[p]

\* At most one event of the date is featured, although every root counts its
\* own versions and people and the rule vote on different ballots.
OneHeadline == Cardinality({r \in Roots : Selects(featured, r)}) <= 1

\* A manifest with several events names the decision row that chose its
\* headline: the row exists, selects that event, was made by whom the manifest
\* says, and the ballot is what the manifest carries.  A single event needs none.
BindingHonest ==
    \A v \in DOMAIN manifests :
        LET c == manifests[v].content
            b == manifests[v].content.binding
        IN IF Cardinality(c.events) <= 1 THEN b = None /\ (c.events = {} \/ c.events = {c.head})
           ELSE /\ b # None
                /\ b.root[1] = c.head
                /\ {r[1] : r \in b.ballot} \subseteq c.events
                /\ Cardinality(b.ballot) > 1
                /\ c.head \in c.events
                /\ b.version \in DOMAIN featured[b.root]
                /\ featured[b.root][b.version].status = "selected"
                /\ featured[b.root][b.version].by = b.origin

\* D038: what a person has featured is taken back by a person only, also when
\* the choice lands while a publisher is deciding.
HumanChoiceStands ==
    [][\A r \in SelectedBy(featured, "human") :
        featured'[r] # featured[r] => Latest(featured'[r]).by = "human"]_vars

\* What an attempt publishes cites the evaluation it made: "leave the current
\* manifest claiming a candidate set that is no longer the one evaluated" is
\* what the comment on metadata_binding_changed rules out.
BindingIsWhatWasEvaluated ==
    \A p \in Publishers : pc[p] = "promoted" =>
        manifests[job[p].target].content.binding = job[p].content.binding
====
