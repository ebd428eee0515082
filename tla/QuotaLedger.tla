----------------------------- MODULE QuotaLedger -----------------------------
(***************************************************************************)
(* What the document quota of a user promises ("Atomic Operations:         *)
(* Thread-safe quota consumption and release operations", docs/design/     *)
(* quota-system-design.md:25): a counter that is checked and raised in one *)
(* step together with the documents it pays for.  No locks, no             *)
(* transactions, no requests.                                              *)
(***************************************************************************)
EXTENDS Integers, FiniteSets

CONSTANTS
    Docs,
    Limits,            \* limits an administrator sets
    CollectionLimit    \* max_document_count_per_collection

VARIABLES
    usage,
    limit,
    added    \* documents that are part of the collection

vars == <<usage, limit, added>>

Init == usage = 0 /\ limit \in Limits /\ added = {}

\* n documents are paid for, of which some turn out to be duplicates or not
\* to be confirmable.
Consume(n, new) ==
    /\ usage + n <= limit
    /\ Cardinality(new) <= n
    /\ Cardinality(added \cup new) <= CollectionLimit
    /\ usage' = usage + n /\ added' = added \cup new
    /\ UNCHANGED limit

\* Some documents go, and one unit is returned for each, down to zero.
Release(gone) ==
    /\ usage' = IF usage >= Cardinality(gone) THEN usage - Cardinality(gone) ELSE 0
    /\ added' = added \ gone
    /\ UNCHANGED limit

\* Documents expire, which returns nothing.
Lapse(gone) == added' = added \ gone /\ UNCHANGED <<usage, limit>>

Recalculate(n) == usage' = n /\ UNCHANGED <<limit, added>>

SetLimit(l) == limit' = l /\ UNCHANGED <<usage, added>>

Next ==
    \/ \E n \in 0..Cardinality(Docs), ds \in SUBSET Docs :
         Consume(n, ds) \/ Release(ds) \/ Lapse(ds) \/ Recalculate(n)
    \/ \E l \in Limits : SetLimit(l)

Spec == Init /\ [][Next]_vars

=============================================================================
