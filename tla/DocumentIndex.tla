--------------------------- MODULE DocumentIndex ---------------------------
(***************************************************************************)
(* The index pipeline of one document: the rows of table document_index,   *)
(* the service transactions that request work on them                      *)
(* (aperag/service/document_service.py, aperag/index/manager.py), the      *)
(* reconciler that claims rows and dispatches Celery work                  *)
(* (aperag/tasks/reconciler.py), and the Celery jobs that do the work and  *)
(* call back (config/celery_tasks.py, aperag/tasks/document.py,            *)
(* aperag/index/vector_index.py).                                          *)
(*                                                                         *)
(* PostgreSQL runs these at READ COMMITTED.  A transaction is therefore    *)
(* two steps here: one that reads (and, for a conditional UPDATE, takes    *)
(* the row lock), one that commits.  A row written by an open transaction  *)
(* is locked: other writers wait, readers still see the old values.        *)
(*                                                                         *)
(* What an index stores is modelled on the vector index, whose entries are *)
(* found by the ids in the row's index_data only.                          *)
(***************************************************************************)
EXTENDS Integers, FiniteSets

CONSTANTS
    Types,          \* the index types of the collection (VECTOR, FULLTEXT, ...)
    Clients,        \* API requests that can be in progress at the same time
    Reconcilers,    \* runs of reconcile_indexes_task that can overlap
    Ops,            \* the API calls made in this instance, a subset of AllOps
    FaultKinds,     \* the faults that happen, a subset of AllFaults
    Ids,            \* Celery message identities
    Batches,        \* identities of the vector batches written by one job
    MaxVersion,     \* bound: rebuilds stop at this version
    MaxRetries,     \* autoretry max_retries of the Celery tasks
    MaxFaults       \* bound: number of faults in a behaviour

AllOps == {"create", "upload", "confirm", "rebuild", "rebuild_failed",
           "delete", "expire"}
AllFaults == {"abort", "lose", "redeliver", "error"}

ASSUME ConstantsAssumption ==
    /\ Ops \subseteq AllOps
    /\ FaultKinds \subseteq AllFaults
    /\ MaxVersion \in Nat
    /\ MaxRetries \in Nat
    /\ MaxFaults \in Nat
    /\ "NONE" \notin Types

VARIABLES
    doc,      \* status of the document's row ("NONE": no row yet)
    row,      \* the document_index row of each type
    svc,      \* the transaction each API request has open
    gc,       \* the open transaction of cleanup_expired_documents
    rec,      \* the transaction each reconciler has open
    parses,   \* parse_document_task messages, queued or running
    jobs,     \* create/update/delete_index_task messages, queued or running
    store,    \* the vector batches present in the vector database
    faults    \* number of faults so far

vars == <<doc, row, svc, gc, rec, parses, jobs, store, faults>>

DocStatus == {"NONE", "UPLOADED", "EXPIRED", "PENDING", "RUNNING",
              "COMPLETE", "FAILED", "DELETED"}
IndexStatus == {"PENDING", "CREATING", "ACTIVE", "DELETING",
                "DELETION_IN_PROGRESS", "FAILED"}
Actions == {"CREATE", "UPDATE", "DELETE"}

\* A row of document_index; data holds the context ids of its index_data.
Row == [status: IndexStatus, version: Nat \ {0}, observed: Nat,
        data: SUBSET Batches]
NoRow == [status |-> "NONE", version |-> 0, observed |-> 0, data |-> {}]

\* An API request: the call, the index types it names, and the rows it read.
Request == [op: Ops, types: SUBSET Types, seen: [Types -> Row \cup {NoRow}]]
NoRequest == [op |-> "NONE"]

\* A reconciler: what it found to do per type and the version it read there;
\* todo are the action groups it has claimed and not yet handed to Celery.
Round == [pc: {"idle", "read", "claimed"},
          action: [Types -> Actions \cup {"NONE"}],
          ver: [Types -> Nat], todo: SUBSET Actions]
IdleRound == [pc |-> "idle", action |-> [t \in Types |-> "NONE"],
              ver |-> [t \in Types |-> 0], todo |-> {}]

Parse == [id: Ids, action: {"CREATE", "UPDATE"}, types: SUBSET Types,
          ver: [Types -> Nat], retries: 0..MaxRetries]

\* A job: data are the old batches an update will replace ("replacing") or
\* the new ones to report ("stored", "activating"); docTo is the document
\* status an open callback will write ("NONE": it writes none).
OpenPc == {"activating", "removing", "marking"}
JobPc == {"start", "valid", "replacing", "stored", "removed", "failing"}
         \cup OpenPc
Job == [id: Ids, action: Actions, type: Types, ver: Nat,
        pc: JobPc, retries: 0..MaxRetries, data: SUBSET Batches,
        docTo: DocStatus]

-----------------------------------------------------------------------------
(* Rows, locks and fresh names                                             *)

Exists(t) == row[t].status # "NONE"

\* Mutant, for the model checker only: callbacks take no row lock.
LockedByClaim(t) ==
    \E r \in Reconcilers : rec[r].pc = "claimed" /\ rec[r].action[t] # "NONE"

\* The row is written by a transaction that has not committed.
Locked(t) ==
    \/ \E r \in Reconcilers : rec[r].pc = "claimed" /\ rec[r].action[t] # "NONE"
    \/ \E j \in jobs : j.pc \in OpenPc /\ j.type = t

FreeIds == Ids \ ({p.id : p \in parses} \cup {j.id : j \in jobs})
NewId == CHOOSE i \in FreeIds : TRUE

\* Batch ids are uuids: a new one differs from every id stored or remembered.
FreeBatches ==
    Batches \ (store \cup UNION {row[t].data : t \in Types}
                     \cup UNION {j.data : j \in jobs})
NewBatch == CHOOSE b \in FreeBatches : TRUE

\* The batch an attempt may have stored, in part, before it raised.
NextBatch(j) ==
    IF j.action # "DELETE" /\ FreeBatches # {} THEN {NewBatch} ELSE {}

Fault(kind) ==
    /\ kind \in FaultKinds
    /\ faults < MaxFaults
    /\ faults' = faults + 1

-----------------------------------------------------------------------------
(* The service transactions                                                *)

Idle(c) == svc[c] = NoRequest

NewRow == [status |-> "PENDING", version |-> 1, observed |-> 0, data |-> {}]

\* create_documents: a fresh document and its index rows, in one transaction.
CreateDocument(c) ==
    /\ "create" \in Ops
    /\ Idle(c) /\ doc = "NONE"
    /\ \E T \in (SUBSET Types) \ {{}} :
         row' = [t \in Types |-> IF t \in T THEN NewRow ELSE NoRow]
    /\ doc' = "PENDING"
    /\ UNCHANGED <<svc, gc, rec, parses, jobs, store, faults>>

\* upload_document: a temporary document without indexes.
UploadDocument(c) ==
    /\ "upload" \in Ops
    /\ Idle(c) /\ doc = "NONE"
    /\ doc' = "UPLOADED"
    /\ UNCHANGED <<row, svc, gc, rec, parses, jobs, store, faults>>

\* The reads of a request: the document's status and the rows of its types.
Begin(c, op, T) ==
    /\ op \in Ops
    /\ Idle(c)
    /\ svc' = [svc EXCEPT ![c] = [op |-> op, types |-> T, seen |-> row]]
    /\ UNCHANGED <<doc, row, gc, rec, parses, jobs, store, faults>>

BeginConfirm(c) ==
    /\ doc = "UPLOADED"
    /\ \E T \in (SUBSET Types) \ {{}} : Begin(c, "confirm", T)

BeginRebuild(c) ==
    /\ doc \notin {"NONE", "DELETED"}
    /\ \E T \in (SUBSET Types) \ {{}} :
         /\ \A t \in T : row[t].version < MaxVersion
         /\ Begin(c, "rebuild", T)

BeginRebuildFailed(c) ==
    LET T == {t \in Types : row[t].status = "FAILED"} IN
    /\ doc \notin {"NONE", "DELETED"}
    /\ T # {}
    /\ \A t \in T : row[t].version < MaxVersion
    /\ Begin(c, "rebuild_failed", T)

BeginDelete(c) ==
    /\ doc \notin {"NONE", "DELETED"}
    /\ Begin(c, "delete", Types)

\* Mutant, for the model checker only: a rebuild forgets update_version().
UpsertedSameVersion(old, cur) ==
    IF old = NoRow THEN NewRow ELSE [cur EXCEPT !.status = "PENDING"]

\* Mutant, for the model checker only: a rebuild inserts the row afresh.
UpsertedAfresh(old, cur) == NewRow

\* The row create_or_update_document_indexes writes for a row it read as old
\* and finds as cur when it flushes.  The ORM writes the attributes whose
\* value changed: the version always (as a literal computed from old), the
\* status only if old was not already PENDING.
Upserted(old, cur) ==
    IF old = NoRow THEN NewRow
    ELSE [cur EXCEPT !.version = old.version + 1,
                     !.status = IF old.status = "PENDING" THEN @ ELSE "PENDING"]

\* delete_document_indexes, likewise: only the status is written.
Condemned(old, cur) ==
    IF old.status = "DELETING" THEN cur ELSE [cur EXCEPT !.status = "DELETING"]

\* The rows a request will write.
Written(q) ==
    {t \in q.types : q.op = "delete" => q.seen[t] # NoRow}

\* Mutant, for the model checker only: no uq_document_index, an insert replaces.
FlushFailsOnLostRow(q) ==
    \E t \in Written(q) : q.seen[t] # NoRow /\ row[t] = NoRow

\* The flush fails when a row read is gone (StaleDataError) or a row to be
\* inserted has appeared (unique constraint): the transaction rolls back.
FlushFails(q) ==
    \E t \in Written(q) : (q.seen[t] = NoRow) # (row[t] = NoRow)

\* The row of type t once the request is committed.
Requested(q, t) ==
    IF t \notin Written(q) THEN row[t]
    ELSE IF q.op = "delete" THEN Condemned(q.seen[t], row[t])
    ELSE Upserted(q.seen[t], row[t])

Commit(c) ==
    LET q == svc[c] IN
    /\ ~Idle(c)
    /\ \A t \in Written(q) : ~Locked(t)
    /\ ~FlushFails(q)
    /\ row' = [t \in Types |-> Requested(q, t)]
    /\ doc' = IF q.op = "delete" THEN "DELETED"
              ELSE IF q.op = "confirm" THEN "PENDING" ELSE doc
    /\ svc' = [svc EXCEPT ![c] = NoRequest]
    /\ UNCHANGED <<gc, rec, parses, jobs, store, faults>>

Rollback(c) ==
    /\ ~Idle(c)
    /\ FlushFails(svc[c])
    /\ svc' = [svc EXCEPT ![c] = NoRequest]
    /\ UNCHANGED <<doc, row, gc, rec, parses, jobs, store, faults>>

\* cleanup_expired_documents: finds the stale upload, deletes its objects,
\* then writes EXPIRED without looking again.
CleanupScan ==
    /\ "expire" \in Ops
    /\ gc = "idle" /\ doc = "UPLOADED"
    /\ gc' = "found"
    /\ UNCHANGED <<doc, row, svc, rec, parses, jobs, store, faults>>

CleanupCommit ==
    /\ gc = "found"
    /\ gc' = "idle"
    /\ doc' = "EXPIRED"
    /\ UNCHANGED <<row, svc, rec, parses, jobs, store, faults>>

-----------------------------------------------------------------------------
(* The reconciler                                                          *)

\* Mutant, for the model checker only: an update needs two rebuilds.
ClaimableLater(t, a) ==
    \/ a = "CREATE" /\ row[t].status = "PENDING" /\ row[t].version = 1
    \/ a = "UPDATE" /\ row[t].status = "PENDING" /\ row[t].version > 2
    \/ a = "DELETE" /\ row[t].status = "DELETING"

\* The row satisfies the selection (and claiming) condition of the action.
Claimable(t, a) ==
    \/ /\ a \in {"CREATE", "UPDATE"}
       /\ row[t].status = "PENDING"
       /\ row[t].observed < row[t].version
       /\ (a = "CREATE") = (row[t].version = 1)
    \/ a = "DELETE" /\ row[t].status = "DELETING"

ActionFor(t) ==
    IF \E a \in Actions : Claimable(t, a)
    THEN CHOOSE a \in Actions : Claimable(t, a)
    ELSE "NONE"

\* _get_indexes_needing_reconciliation and the SELECT of each row: what is
\* to be done for the document, and the version read.
Scan(r) ==
    /\ rec[r].pc = "idle"
    /\ \E t \in Types : ActionFor(t) # "NONE"
    /\ rec' = [rec EXCEPT ![r] =
                 [pc |-> "read", action |-> [t \in Types |-> ActionFor(t)],
                  ver |-> [t \in Types |-> row[t].version], todo |-> {}]]
    /\ UNCHANGED <<doc, row, svc, gc, parses, jobs, store, faults>>

Found(r) == {t \in Types : rec[r].action[t] # "NONE"}

\* Mutant, for the model checker only: the claim repeats no condition.
WonBlindly(r) == Found(r)

\* The conditional UPDATEs of _claim_document_indexes win the rows that still
\* satisfy the condition, and pass over the others.
Won(r) == {t \in Found(r) : Claimable(t, rec[r].action[t])}

Claim(r) ==
    /\ rec[r].pc = "read"
    /\ \A t \in Found(r) : ~Locked(t)
    /\ rec' = [rec EXCEPT ![r] =
                 IF Won(r) = {} THEN IdleRound
                 ELSE [pc |-> "claimed",
                       action |-> [t \in Types |-> IF t \in Won(r)
                                     THEN rec[r].action[t] ELSE "NONE"],
                       ver |-> rec[r].ver,
                       todo |-> {rec[r].action[t] : t \in Won(r)}]]
    /\ UNCHANGED <<doc, row, svc, gc, parses, jobs, store, faults>>

\* Mutant, for the model checker only: the target version is one too high.
NewJobAhead(id, a, t, v) ==
    [id |-> id, action |-> a, type |-> t, ver |-> v + 1, pc |-> "start",
     retries |-> 0, data |-> {}, docTo |-> "NONE"]

NewJob(id, a, t, v) ==
    [id |-> id, action |-> a, type |-> t, ver |-> v, pc |-> "start",
     retries |-> 0, data |-> {}, docTo |-> "NONE"]

\* _reconcile_document_operations: the groups go to Celery one by one, while
\* the claim is not committed yet.  Creations and updates start by parsing.
Dispatch(r, a) ==
    LET T == {t \in Found(r) : rec[r].action[t] = a} IN
    /\ rec[r].pc = "claimed" /\ a \in rec[r].todo
    /\ a = "UPDATE" => "CREATE" \notin rec[r].todo
    /\ a = "DELETE" => rec[r].todo = {"DELETE"}
    /\ FreeIds # {}
    /\ IF a = "DELETE"
       THEN /\ jobs' = jobs \cup {NewJob(NewId, a, t, 0) : t \in T}
            /\ UNCHANGED parses
       ELSE /\ parses' = parses \cup
                 {[id |-> NewId, action |-> a, types |-> T,
                   ver |-> [t \in Types |-> IF t \in T THEN rec[r].ver[t] ELSE 0],
                   retries |-> 0]}
            /\ UNCHANGED jobs
    /\ rec' = [rec EXCEPT ![r].todo = @ \ {a}]
    /\ UNCHANGED <<doc, row, svc, gc, store, faults>>

ClaimCommit(r) ==
    /\ rec[r].pc = "claimed" /\ rec[r].todo = {}
    /\ row' = [t \in Types |->
                 IF t \notin Found(r) THEN row[t]
                 ELSE [row[t] EXCEPT !.status =
                         IF rec[r].action[t] = "DELETE"
                         THEN "DELETION_IN_PROGRESS" ELSE "CREATING"]]
    /\ rec' = [rec EXCEPT ![r] = IdleRound]
    /\ UNCHANGED <<doc, svc, gc, parses, jobs, store, faults>>

\* The reconciler dies or the broker refuses a message: the claim is rolled
\* back, the messages already sent stay.
Abort(r) ==
    /\ Fault("abort")
    /\ rec[r].pc = "claimed"
    /\ rec' = [rec EXCEPT ![r] = IdleRound]
    /\ UNCHANGED <<doc, row, svc, gc, parses, jobs, store>>

-----------------------------------------------------------------------------
(* The Celery jobs                                                         *)

Replace(j, k) == jobs' = (jobs \ {j}) \cup {k}

\* The job at its next step, with the batches it has to remember.
Moved(j, pc, D) == [j EXCEPT !.pc = pc, !.data = D]

\* parse_document_task, then trigger_*_indexes_workflow: one job per type.
ParseSucceeds(p) ==
    /\ doc # "DELETED"
    /\ parses' = parses \ {p}
    /\ jobs' = jobs \cup {NewJob(p.id, p.action, t, p.ver[t]) : t \in p.types}
    /\ UNCHANGED <<doc, row, svc, gc, rec, store, faults>>

\* The job left of a message that ran out of retries: it only reports failure.
GivenUp(p, t) ==
    [NewJob(p.id, p.action, t, p.ver[t]) EXCEPT
       !.pc = "failing", !.retries = p.retries]

\* The document is gone or parsing raises: Celery retries, and after the last
\* retry every index of the message is reported as failed.
ParseFails(p) ==
    /\ \/ doc = "DELETED" /\ UNCHANGED faults
       \/ Fault("error")
    /\ IF p.retries < MaxRetries
       THEN /\ parses' = (parses \ {p}) \cup {[p EXCEPT !.retries = @ + 1]}
            /\ UNCHANGED jobs
       ELSE /\ parses' = parses \ {p}
            /\ jobs' = jobs \cup {GivenUp(p, t) : t \in p.types}
    /\ UNCHANGED <<doc, row, svc, gc, rec, store>>

\* _validate_task_relevance for creations and updates, and the check at the
\* head of delete_index_task: the job is skipped unless it is still wanted.
Relevant(j) ==
    IF j.action = "DELETE"
    THEN row[j.type].status = "DELETION_IN_PROGRESS"
    ELSE /\ row[j.type].status = "CREATING"
         /\ row[j.type].version = j.ver
         /\ doc \notin {"UPLOADED", "EXPIRED"}

Validate(j) ==
    /\ j.pc = "start"
    /\ IF Relevant(j) THEN Replace(j, Moved(j, "valid", {}))
                      ELSE jobs' = jobs \ {j}
    /\ UNCHANGED <<doc, row, svc, gc, rec, parses, store, faults>>

\* Mutant, for the model checker only: one retry too many.
FailedLate(j) ==
    IF j.retries <= MaxRetries
    THEN [Moved(j, "start", {}) EXCEPT !.retries = @ + 1]
    ELSE Moved(j, "failing", {})

\* What the job becomes when its attempt raised.
Failed(j) ==
    IF j.retries < MaxRetries
    THEN [Moved(j, "start", {}) EXCEPT !.retries = @ + 1]
    ELSE Moved(j, "failing", {})

\* VectorIndexer.create_index stores a new batch and looks at no old one.
CreateIndex(j) ==
    /\ j.pc = "valid" /\ j.action = "CREATE" /\ doc # "DELETED"
    /\ FreeBatches # {}
    /\ store' = store \cup {NewBatch}
    /\ Replace(j, Moved(j, "stored", {NewBatch}))
    /\ UNCHANGED <<doc, row, svc, gc, rec, parses, faults>>

\* VectorIndexer.update_index, first half: the batches index_data names now.
ReadOldIndex(j) ==
    /\ j.pc = "valid" /\ j.action = "UPDATE" /\ doc # "DELETED"
    /\ Replace(j, Moved(j, "replacing", row[j.type].data))
    /\ UNCHANGED <<doc, row, svc, gc, rec, parses, store, faults>>

\* Second half: the old batches are deleted, a new one is stored.
ReplaceIndex(j) ==
    /\ j.pc = "replacing"
    /\ FreeBatches # {}
    /\ store' = (store \ j.data) \cup {NewBatch}
    /\ Replace(j, Moved(j, "stored", {NewBatch}))
    /\ UNCHANGED <<doc, row, svc, gc, rec, parses, faults>>

\* VectorIndexer.delete_index removes the batches index_data names.
DeleteIndex(j) ==
    /\ j.pc = "valid" /\ j.action = "DELETE"
    /\ store' = store \ row[j.type].data
    /\ Replace(j, Moved(j, "removed", {}))
    /\ UNCHANGED <<doc, row, svc, gc, rec, parses, faults>>

\* The attempt raises: the document is gone (creations and updates only), or
\* an embedding or store call failed after any part of the work was done.
AttemptFails(j) ==
    /\ j.pc \in {"valid", "replacing"}
    /\ \/ /\ j.pc = "valid" /\ j.action # "DELETE" /\ doc = "DELETED"
          /\ UNCHANGED <<store, faults>>
       \/ /\ Fault("error")
          /\ store' \in {store, store \ j.data}
                \cup {(store \ j.data) \cup {b} : b \in NextBatch(j)}
    /\ Replace(j, Failed(j))
    /\ UNCHANGED <<doc, row, svc, gc, rec, parses>>

\* Document.get_overall_index_status, from the status of each type's row.
Overall(status) ==
    LET S == {status[t] : t \in Types} \ {"NONE"} IN
    IF "FAILED" \in S THEN "FAILED"
    ELSE IF S \cap {"CREATING", "DELETION_IN_PROGRESS"} # {} THEN "RUNNING"
    ELSE IF S = {"ACTIVE"} THEN "COMPLETE"
    ELSE "PENDING"

\* Mutant, for the model checker only: _update_document_status filters no status.
DocWriteAlways(t, s) ==
    LET o == Overall([u \in Types |-> IF u = t THEN s ELSE row[u].status]) IN
    IF o = doc THEN "NONE" ELSE o

\* _update_document_status inside a callback that gave row t the status s:
\* the status the document gets at commit.  The rows of the other types are
\* read as committed, and an unchanged status is not written.
DocWrite(t, s) ==
    LET o == Overall([u \in Types |-> IF u = t THEN s ELSE row[u].status]) IN
    IF doc \in {"DELETED", "UPLOADED", "EXPIRED"} \/ o = doc THEN "NONE" ELSE o

\* The job with its callback's transaction open.
Opened(j, pc, s) == [j EXCEPT !.pc = pc, !.docTo = DocWrite(j.type, s)]

\* The conditional UPDATE (or DELETE) of a callback: with no row matched the
\* transaction rolls back and the job ends, else the row is locked and the
\* document's new status is computed.
Callback(j, matches, open, s) ==
    /\ ~Locked(j.type)
    /\ IF matches
       THEN Replace(j, Opened(j, open, s))
       ELSE jobs' = jobs \ {j}
    /\ UNCHANGED <<doc, row, svc, gc, rec, parses, store, faults>>

\* Mutant, for the model checker only: success ignores the version.
OnIndexCreatedAnyVersion(j) ==
    /\ j.pc = "stored"
    /\ Callback(j, row[j.type].status = "CREATING", "activating", "ACTIVE")

\* Mutant, for the model checker only: success ignores the status.
OnIndexCreatedAnyStatus(j) ==
    /\ j.pc = "stored"
    /\ Callback(j, row[j.type].version = j.ver, "activating", "ACTIVE")

OnIndexCreated(j) ==
    /\ j.pc = "stored"
    /\ Callback(j, /\ row[j.type].status = "CREATING"
                   /\ row[j.type].version = j.ver, "activating", "ACTIVE")

OnIndexDeleted(j) ==
    /\ j.pc = "removed"
    /\ Callback(j, row[j.type].status = "DELETION_IN_PROGRESS",
                "removing", "NONE")

OnIndexFailed(j) ==
    /\ j.pc = "failing"
    /\ Callback(j, row[j.type].status \in {"CREATING", "DELETION_IN_PROGRESS"},
                "marking", "FAILED")

\* What an open callback writes over its row.
Settled(j, cur) ==
    IF j.pc = "activating"
    THEN [cur EXCEPT !.status = "ACTIVE", !.observed = j.ver, !.data = j.data]
    ELSE IF j.pc = "removing" THEN NoRow ELSE [cur EXCEPT !.status = "FAILED"]

\* The commit of an open callback ends the job.
CallbackCommit(j) ==
    /\ j.pc \in OpenPc
    /\ row' = [row EXCEPT ![j.type] = Settled(j, @)]
    /\ doc' = IF j.docTo = "NONE" THEN doc ELSE j.docTo
    /\ jobs' = jobs \ {j}
    /\ UNCHANGED <<svc, gc, rec, parses, store, faults>>

\* The worker is lost and its message was acknowledged, or a callback raised
\* (BaseIndexTask swallows that): the job ends without effect.
Lose(j) ==
    /\ Fault("lose")
    /\ jobs' = jobs \ {j}
    /\ UNCHANGED <<doc, row, svc, gc, rec, parses, store>>

\* acks_late: the broker delivers the message again while the first delivery
\* may still be running.
Redeliver(j) ==
    /\ Fault("redeliver")
    /\ FreeIds # {}
    /\ jobs' = jobs \cup {[NewJob(NewId, j.action, j.type, j.ver)
                             EXCEPT !.retries = j.retries]}
    /\ UNCHANGED <<doc, row, svc, gc, rec, parses, store>>

-----------------------------------------------------------------------------
(* The specification                                                       *)

Init ==
    /\ doc = "NONE"
    /\ row = [t \in Types |-> NoRow]
    /\ svc = [c \in Clients |-> NoRequest]
    /\ gc = "idle"
    /\ rec = [r \in Reconcilers |-> IdleRound]
    /\ parses = {}
    /\ jobs = {}
    /\ store = {}
    /\ faults = 0

ClientStep(c) ==
    \/ CreateDocument(c) \/ UploadDocument(c)
    \/ BeginConfirm(c) \/ BeginRebuild(c) \/ BeginRebuildFailed(c)
    \/ BeginDelete(c)
    \/ Commit(c) \/ Rollback(c)

ReconcilerStep(r) ==
    \/ Scan(r) \/ Claim(r)
    \/ \E a \in Actions : Dispatch(r, a)
    \/ ClaimCommit(r) \/ Abort(r)

ParseStep(p) == ParseSucceeds(p) \/ ParseFails(p)

JobStep(j) ==
    \/ Validate(j)
    \/ CreateIndex(j) \/ ReadOldIndex(j) \/ ReplaceIndex(j) \/ DeleteIndex(j)
    \/ AttemptFails(j)
    \/ OnIndexCreated(j) \/ OnIndexDeleted(j) \/ OnIndexFailed(j)
    \/ CallbackCommit(j)

\* Nothing is requested, nothing is claimable and nothing is in progress.
Quiescent ==
    /\ \A c \in Clients : Idle(c)
    /\ gc = "idle"
    /\ \A r \in Reconcilers : rec[r].pc = "idle"
    /\ \A t \in Types : ActionFor(t) = "NONE"
    /\ parses = {} /\ jobs = {}

Next ==
    \/ \E c \in Clients : ClientStep(c)
    \/ CleanupScan \/ CleanupCommit
    \/ \E r \in Reconcilers : ReconcilerStep(r)
    \/ \E p \in parses : ParseStep(p)
    \/ \E j \in jobs : JobStep(j) \/ Lose(j) \/ Redeliver(j)
    \/ Quiescent /\ UNCHANGED vars

Spec == Init /\ [][Next]_vars

\* Celery workers and the hourly beat keep taking work, and a request that
\* has begun ends; nothing makes a client begin one.
Fairness ==
    /\ \A c \in Clients : WF_vars(Commit(c) \/ Rollback(c))
    /\ \A r \in Reconcilers :
         /\ WF_vars(Scan(r)) /\ WF_vars(Claim(r)) /\ WF_vars(ClaimCommit(r))
         /\ WF_vars(\E a \in Actions : Dispatch(r, a))
    /\ \A i \in Ids :
         /\ WF_vars(\E p \in parses : p.id = i /\ ParseStep(p))
         /\ \A t \in Types :
              WF_vars(\E j \in jobs : j.id = i /\ j.type = t /\ JobStep(j))

FairSpec == Spec /\ Fairness

-----------------------------------------------------------------------------
(* Properties                                                              *)

TypeOK ==
    /\ doc \in DocStatus
    /\ row \in [Types -> Row \cup {NoRow}]
    /\ svc \in [Clients -> Request \cup {NoRequest}]
    /\ gc \in {"idle", "found"}
    /\ rec \in [Reconcilers -> Round]
    /\ parses \subseteq Parse
    /\ jobs \subseteq Job
    /\ store \subseteq Batches
    /\ faults \in Nat

\* A PENDING row satisfies a claiming condition of the reconciler
\* (reconciler.py:91-105): it has something left to observe.
WaitingIsClaimable ==
    \A t \in Types : row[t].status = "PENDING" => row[t].observed < row[t].version

\* A deleted document has no index that serves or that work may still be
\* started for: a late callback or claim never revives a row that
\* delete_document_indexes condemned.
DeletedIsCondemned ==
    doc = "DELETED" =>
      \A t \in Types : row[t].status \in
        {"NONE", "DELETING", "DELETION_IN_PROGRESS", "FAILED"}

\* The status DELETED of a document is final: _update_document_status reads
\* the status and writes it later without a condition, and only the row lock
\* its callback holds keeps a deletion from committing in between.
DeletedRemains == doc = "DELETED" => doc' = "DELETED"

DeletedIsFinal == [][DeletedRemains]_vars

\* No row that remains goes back in time.
VersionsGrow ==
    \A t \in Types : Exists(t) /\ Exists(t)' =>
      /\ row'[t].version >= row[t].version
      /\ row'[t].observed >= row[t].observed

\* A job never carries a version the row has not reached, so the version a
\* success callback records as observed was really requested.
JobsAreOfThePast ==
    /\ \A j \in jobs : Exists(j.type) => j.ver <= row[j.type].version
    /\ \A t \in Types : row[t].observed <= row[t].version

\* The work may still have an effect: a deletion, or work on the version the
\* row has now.
Matters(t, a, v) == a = "DELETE" \/ (Exists(t) /\ v = row[t].version)

\* Without repeated or rolled back work, the current version of an index is
\* worked on by one job: two reconcilers that see the same row never both
\* dispatch it.  An older version can be dispatched twice, when a row is
\* rebuilt between a reconciler's SELECT and its claim: the message carries
\* the version of the SELECT, and is skipped later.
OneJobPerCurrentVersion ==
    \A j, k \in jobs :
      /\ j.type = k.type /\ j.action = k.action /\ j.ver = k.ver
      /\ Matters(j.type, j.action, j.ver)
      => j = k

\* No request makes the database forget the vectors of an index: what a row
\* records in index_data changes only when a job makes the row ACTIVE or when
\* the row is dropped.  Overlapping requests meet at the row's primary key and
\* at uq_document_index, and the loser rolls back.
DataIsKept ==
    \A t \in Types :
      row'[t].data # row[t].data => row'[t].status \in {"ACTIVE", "NONE"}

OnlyJobsWriteIndexData == [][DataIsKept]_vars

\* Work requested is taken up: a row does not stay PENDING or DELETING
\* while the reconciler keeps running.
RequestsAreTakenUp ==
    \A t \in Types :
      row[t].status \in {"PENDING", "DELETING"}
        ~> row[t].status \notin {"PENDING", "DELETING"}

\* Two open transactions never hold the same row.
LocksExclude ==
    /\ \A r, q \in Reconcilers : \A t \in Types :
         /\ rec[r].pc = "claimed" /\ rec[r].action[t] # "NONE"
         /\ rec[q].pc = "claimed" /\ rec[q].action[t] # "NONE"
         => r = q
    /\ \A r \in Reconcilers : \A j \in jobs :
         rec[r].pc = "claimed" /\ j.pc \in OpenPc => rec[r].action[j.type] = "NONE"
    /\ \A j, k \in jobs :
         j.pc \in OpenPc /\ k.pc \in OpenPc /\ j.type = k.type => j = k

\* What a claim or callback found is still so when it commits.
HeldRowsKeep ==
    /\ \A r \in Reconcilers : \A t \in Types :
         rec[r].pc = "claimed" /\ rec[r].action[t] # "NONE"
           => Claimable(t, rec[r].action[t])
    /\ \A j \in jobs :
         /\ j.pc = "activating" => /\ row[j.type].status = "CREATING"
                                   /\ row[j.type].version = j.ver
         /\ j.pc = "removing" => row[j.type].status = "DELETION_IN_PROGRESS"
         /\ j.pc = "marking" =>
              row[j.type].status \in {"CREATING", "DELETION_IN_PROGRESS"}

\* Before the document exists there is nothing to work on.
NoDocumentNoRow ==
    doc = "NONE" => /\ \A t \in Types : ~Exists(t)
                    /\ \A c \in Clients : Idle(c)

\* The row locks do their work, however requests, reconcilers and jobs
\* overlap: the condition of an UPDATE holds until its transaction commits.
LockInv ==
    TypeOK /\ LocksExclude /\ HeldRowsKeep /\ NoDocumentNoRow

\* The versions a request has read are the ones it writes over.
SeenIsCurrent ==
    \A c \in Clients : ~Idle(c) =>
      /\ svc[c].op = "delete" => svc[c].types = Types
      /\ \A t \in Types :
           /\ svc[c].seen[t].status \notin {"DELETING", "DELETION_IN_PROGRESS"}
           /\ Exists(t) => /\ svc[c].seen[t] # NoRow
                           /\ svc[c].seen[t].version = row[t].version

\* A row is missing only before its type was asked for, when no work for it
\* exists, or after the document was deleted.
WorkHasRow ==
    doc # "DELETED" =>
      \A t \in Types : ~Exists(t) =>
        /\ \A r \in Reconcilers : rec[r].action[t] = "NONE"
        /\ \A p \in parses : t \notin p.types
        /\ \A j \in jobs : j.type # t

\* The versions carried by claims and messages are versions the row had.
WorkIsOfThePast ==
    \A t \in Types : Exists(t) =>
      /\ row[t].observed <= row[t].version
      /\ \A r \in Reconcilers :
           rec[r].action[t] # "NONE" => rec[r].ver[t] <= row[t].version
      /\ \A p \in parses : t \in p.types => p.ver[t] <= row[t].version
      /\ \A j \in jobs : j.type = t => j.ver <= row[t].version

\* Who may still write the document's status.
DocWritersAgree ==
    /\ \A c \in Clients : ~Idle(c) => doc # "DELETED"
    /\ \A j \in jobs :
         /\ j.docTo \in {"NONE", "PENDING", "RUNNING", "COMPLETE", "FAILED"}
         /\ j.pc \in OpenPc /\ j.docTo # "NONE" => doc # "DELETED"
    /\ gc = "idle"

CondemnedIsDeleted ==
    \A t \in Types :
      row[t].status \in {"DELETING", "DELETION_IN_PROGRESS"} => doc = "DELETED"

\* The inductive invariant behind the safety properties, for requests that
\* do not overlap and no expiry.
IndInv ==
    /\ LockInv
    /\ SeenIsCurrent
    /\ WorkHasRow /\ WorkIsOfThePast
    /\ DocWritersAgree /\ CondemnedIsDeleted
    /\ WaitingIsClaimable /\ DeletedIsCondemned

\* The requests, claims and callbacks, each of them split into reads, messages
\* and commits, amount to the atomic lifecycle of IndexLifecycle.
Public(r) == [status |-> r.status, version |-> r.version, observed |-> r.observed]

Lifecycle == INSTANCE IndexLifecycle WITH
    index   <- [t \in Types |-> Public(row[t])],
    deleted <- (doc = "DELETED")

ImplementsLifecycle == Lifecycle!Spec

-----------------------------------------------------------------------------
(* A statement of the documentation the code does not live up to           *)

\* "ACTIVE: Index is up-to-date and ready for use"
\* (docs/design/indexing_architecture.md:79): the vectors the row of an
\* ACTIVE index records are in the vector database.
ActiveIsReady ==
    \A t \in Types : row[t].status = "ACTIVE" => row[t].data \subseteq store

=============================================================================
