--------------------------- MODULE IndexLifecycle ---------------------------
(***************************************************************************)
(* What the index pipeline promises about the rows of one document when    *)
(* its API requests do not overlap: the lifecycle PENDING, CREATING,       *)
(* ACTIVE | FAILED, DELETING, DELETION_IN_PROGRESS, with every transition  *)
(* atomic.  Claims, jobs, messages and open transactions do not appear.    *)
(* DocumentIndex implements this specification.                            *)
(***************************************************************************)
EXTENDS Naturals

CONSTANT Types

VARIABLES
    index,      \* of each type: its status, version and observed version
    deleted     \* the document was deleted

vars == <<index, deleted>>

Absent == [status |-> "NONE", version |-> 0, observed |-> 0]
Fresh == [status |-> "PENDING", version |-> 1, observed |-> 0]

Init ==
    /\ index = [t \in Types |-> Absent]
    /\ deleted = FALSE

\* The row a request leaves: an absent row appears, another gets the next
\* version and waits again, unless it keeps its status.
Requested(r, keeps) ==
    IF r = Absent THEN Fresh
    ELSE [r EXCEPT !.version = @ + 1, !.status = IF keeps THEN @ ELSE "PENDING"]

\* A request for the types of T.  A row that is being built, or has just been
\* finished, may keep its status, when the request had read it PENDING.
Request(T) ==
    /\ ~deleted
    /\ \E late \in SUBSET {t \in T : index[t].status \in {"CREATING", "ACTIVE", "FAILED"}} :
         index' = [t \in Types |->
                     IF t \in T THEN Requested(index[t], t \in late) ELSE index[t]]
    /\ UNCHANGED deleted

\* Deleting the document condemns every row it has.
Delete ==
    /\ ~deleted
    /\ deleted' = TRUE
    /\ index' = [t \in Types |->
                   IF index[t] = Absent THEN Absent
                   ELSE [index[t] EXCEPT !.status = "DELETING"]]

Claimed(status) ==
    IF status = "DELETING" THEN "DELETION_IN_PROGRESS" ELSE "CREATING"

\* The waiting rows of T are taken up.
Claim(T) ==
    /\ \A t \in T : index[t].status \in {"PENDING", "DELETING"}
    /\ index' = [t \in Types |->
                   IF t \in T THEN [index[t] EXCEPT !.status = Claimed(@)]
                   ELSE index[t]]
    /\ UNCHANGED deleted

Move(t, from, to) ==
    /\ index[t].status \in from
    /\ index' = [index EXCEPT ![t] = to]
    /\ UNCHANGED deleted

\* A row becomes ACTIVE only for the version it has now.
Complete(t) ==
    Move(t, {"CREATING"},
         [status |-> "ACTIVE", version |-> index[t].version,
          observed |-> index[t].version])

Fail(t) ==
    Move(t, {"CREATING", "DELETION_IN_PROGRESS"},
         [index[t] EXCEPT !.status = "FAILED"])

Remove(t) == Move(t, {"DELETION_IN_PROGRESS"}, Absent)

Next ==
    \/ \E T \in (SUBSET Types) \ {{}} : Request(T) \/ Claim(T)
    \/ Delete
    \/ \E t \in Types : Complete(t) \/ Fail(t) \/ Remove(t)

Spec == Init /\ [][Next]_vars

=============================================================================
