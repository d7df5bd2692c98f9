------------------------------ MODULE Archive ------------------------------
(***************************************************************************)
(* What publication promises about one calendar date, without files,       *)
(* locks, pending manifests or repairs: an append-only ledger of           *)
(* published versions, the versions a reader can be given, and a coverage  *)
(* entry that points at the newest of those or at nothing.                 *)
(***************************************************************************)
EXTENDS Naturals

CONSTANTS Contents, MaxVersion, Nothing

VARIABLES
    ledger,    \* content by version, Nothing where none was published
    readable,  \* versions with a day profile
    shown      \* version the coverage index points at, 0 for none

archive == <<ledger, readable, shown>>

Slots == 1 .. MaxVersion
Entered == {v \in Slots : ledger[v] # Nothing}

\* The index shows the newest readable version or is empty.
Shows(i, S) == i = 0 \/ (i \in S /\ \A w \in S : w <= i)

\* An imported archive may hold a first version nobody can read yet.
Init ==
    /\ \E c \in Contents \cup {Nothing} :
        ledger = [v \in Slots |-> IF v = 1 THEN c ELSE Nothing]
    /\ readable = {}
    /\ shown = 0

\* A new version is appended above every earlier one and becomes readable.
Publish ==
    \E v \in Slots, c \in Contents :
        /\ \A w \in Entered : w < v
        /\ ledger' = [ledger EXCEPT ![v] = c]
        /\ readable' = readable \cup {v}
        /\ Shows(shown', readable')

\* A published version gets the day profile it lacked.
Restore ==
    \E v \in Entered \ readable :
        /\ readable' = readable \cup {v}
        /\ Shows(shown', readable')
        /\ UNCHANGED ledger

Reindex ==
    /\ Shows(shown', readable)
    /\ UNCHANGED <<ledger, readable>>

Next == Publish \/ Restore \/ Reindex

Spec == Init /\ [][Next]_archive
====
