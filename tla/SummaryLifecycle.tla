-------------------------- MODULE SummaryLifecycle --------------------------
(***************************************************************************)
(* What the summary pipeline promises about the rows of collection_summary *)
(* and the descriptions it writes, with every transition atomic: no        *)
(* sessions, no messages.  A version is one request; a completed summary   *)
(* is the one of the version current at that moment.                       *)
(***************************************************************************)
EXTENDS Naturals

CONSTANTS Collections, Ids

VARIABLES
    row,     \* the summary of each collection
    text     \* who wrote the description: "user" or "summary"

vars == <<row, text>>

NoRow == [id |-> "NONE", status |-> "NONE", version |-> 0, observed |-> 0]

Init ==
    /\ row = [c \in Collections |-> NoRow]
    /\ text = [c \in Collections |-> "user"]

Describe(c) ==
    /\ text' = [text EXCEPT ![c] = "user"]
    /\ UNCHANGED row

Enable(c) ==
    /\ row[c] = NoRow
    /\ \E i \in Ids :
         /\ \A d \in Collections : row[d].id # i
         /\ row' = [row EXCEPT ![c] = [id |-> i, status |-> "PENDING",
                                      version |-> 1, observed |-> 0]]
    /\ UNCHANGED text

Disable(c) ==
    /\ row[c] # NoRow
    /\ row' = [row EXCEPT ![c] = NoRow]
    /\ UNCHANGED text

Renew(c) ==
    /\ row[c] # NoRow
    /\ row' = [row EXCEPT ![c].version = row[c].version + 1]
    /\ UNCHANGED text

\* One commit can start several generations.
Generate(C) ==
    /\ C # {} /\ \A c \in C : row[c].status \in {"PENDING", "COMPLETE", "FAILED"}
    /\ row' = [c \in Collections |->
                 IF c \in C THEN [row[c] EXCEPT !.status = "GENERATING"]
                 ELSE row[c]]
    /\ UNCHANGED text

Complete(c) ==
    /\ row[c].status = "GENERATING"
    /\ row' = [row EXCEPT ![c].status = "COMPLETE",
                          ![c].observed = row[c].version]
    /\ text' = text \/ text' = [text EXCEPT ![c] = "summary"]

Fail(c) ==
    /\ row[c].status = "GENERATING"
    /\ row' = [row EXCEPT ![c].status = "FAILED"]
    /\ UNCHANGED text

Next ==
    \/ \E c \in Collections :
         Describe(c) \/ Enable(c) \/ Disable(c) \/ Renew(c) \/ Complete(c) \/ Fail(c)
    \/ \E C \in SUBSET Collections : Generate(C)

Spec == Init /\ [][Next]_vars

=============================================================================
