------------------------ MODULE DocumentIndexProofs ------------------------
(***************************************************************************)
(* Theorems about DocumentIndex, for every set of types, requests and      *)
(* reconcilers and every bound.                                            *)
(***************************************************************************)
EXTENDS DocumentIndexHistory, TLAPS

LEMMA NewIdType == FreeIds # {} => NewId \in Ids
  <1>1. FreeIds # {} => NewId \in FreeIds
    BY DEF NewId
  <1>2. QED BY <1>1 DEF FreeIds

LEMMA NewBatchType == FreeBatches # {} => NewBatch \in Batches
  <1>1. FreeBatches # {} => NewBatch \in FreeBatches
    BY DEF NewBatch
  <1>2. QED BY <1>1 DEF FreeBatches

\* A row stays a row when it is rewritten.
LEMMA RewrittenRow ==
  ASSUME NEW old \in Row, NEW cur \in Row
  PROVE  /\ Upserted(old, cur) \in Row
         /\ Upserted(old, cur).version = old.version + 1
         /\ Upserted(old, cur).observed = cur.observed
         /\ Upserted(old, cur).data = cur.data
         /\ Upserted(old, cur).status =
              IF old.status = "PENDING" THEN cur.status ELSE "PENDING"
         /\ Condemned(old, cur) \in Row
         /\ Condemned(old, cur).version = cur.version
         /\ Condemned(old, cur).observed = cur.observed
         /\ Condemned(old, cur).data = cur.data
         /\ Condemned(old, cur).status =
              IF old.status = "DELETING" THEN cur.status ELSE "DELETING"
  <1>1. old # NoRow
    BY DEF Row, NoRow, IndexStatus
  <1> DEFINE status == IF old.status = "PENDING" THEN cur.status ELSE "PENDING"
  <1>2. status \in IndexStatus
    BY DEF Row, IndexStatus
  <1>3. old.version + 1 \in Nat \ {0}
    BY DEF Row
  <1>4. Upserted(old, cur) =
          [cur EXCEPT !.version = old.version + 1, !.status = status]
    BY <1>1 DEF Upserted
  <1>5. Upserted(old, cur) =
          [status |-> status, version |-> old.version + 1,
           observed |-> cur.observed, data |-> cur.data]
    <2> HIDE DEF status
    <2>1. cur = [status |-> cur.status, version |-> cur.version,
                 observed |-> cur.observed, data |-> cur.data]
      BY DEF Row
    <2>2. QED
      BY <1>4, <2>1
  <1>6. /\ Upserted(old, cur) \in Row
        /\ Upserted(old, cur).version = old.version + 1
        /\ Upserted(old, cur).observed = cur.observed
        /\ Upserted(old, cur).data = cur.data
        /\ Upserted(old, cur).status = status
    <2> HIDE DEF status
    <2>1. QED
      BY <1>2, <1>3, <1>5 DEF Row
  <1>7. /\ Condemned(old, cur) \in Row
        /\ Condemned(old, cur).version = cur.version
        /\ Condemned(old, cur).observed = cur.observed
        /\ Condemned(old, cur).data = cur.data
        /\ Condemned(old, cur).status =
             IF old.status = "DELETING" THEN cur.status ELSE "DELETING"
    BY DEF Condemned, Row, IndexStatus
  <1>8. QED
    BY <1>6, <1>7

LEMMA InitType == Init => TypeOK
  BY ConstantsAssumption DEF Init, TypeOK, DocStatus, NoRow, IdleRound, Round, Actions

LEMMA ClientType ==
  ASSUME LockInv, NEW c \in Clients, ClientStep(c)
  PROVE  TypeOK'
  <1> USE DEF LockInv, TypeOK
  <1>0. NewRow \in Row
    BY DEF NewRow, Row, IndexStatus
  <1>1. CASE CreateDocument(c)
    BY <1>0, <1>1 DEF CreateDocument, DocStatus
  <1>2. CASE UploadDocument(c)
    BY <1>2 DEF UploadDocument, DocStatus
  <1>3. ASSUME NEW op, NEW T \in SUBSET Types, Begin(c, op, T)
        PROVE  TypeOK'
    BY <1>3 DEF Begin, Request
  <1>4. CASE BeginConfirm(c)
    BY <1>3, <1>4 DEF BeginConfirm
  <1>5. CASE BeginRebuild(c)
    BY <1>3, <1>5 DEF BeginRebuild
  <1>6. CASE BeginRebuildFailed(c)
    BY <1>3, <1>6 DEF BeginRebuildFailed
  <1>7. CASE BeginDelete(c)
    BY <1>3, <1>7 DEF BeginDelete
  <1>8. CASE Commit(c)
    <2> DEFINE q == svc[c]
    <2>1. q \in Request
      BY <1>8 DEF Commit, Idle
    <2>2. ASSUME NEW t \in Types
          PROVE  Requested(q, t) \in Row \cup {NoRow}
      <3>1. row[t] \in Row \cup {NoRow} /\ q.seen[t] \in Row \cup {NoRow}
        BY <2>1 DEF Request
      <3>2. CASE t \notin Written(q)
        BY <3>1, <3>2 DEF Requested
      <3>3. CASE t \in Written(q) /\ q.seen[t] = NoRow
        BY <1>0, <3>3 DEF Requested, Written, Upserted
      <3>4. CASE t \in Written(q) /\ q.seen[t] # NoRow
        <4>1. row[t] \in Row
          BY <1>8, <3>1, <3>4 DEF Commit, FlushFails
        <4>2. q.seen[t] \in Row
          BY <3>1, <3>4
        <4>3. QED
          BY <3>4, <4>1, <4>2, RewrittenRow DEF Requested
      <3>5. QED
        BY <3>2, <3>3, <3>4
    <2>3. row' \in [Types -> Row \cup {NoRow}]
      BY <1>8, <2>2 DEF Commit
    <2>4. doc' \in DocStatus
      BY <1>8 DEF Commit, DocStatus
    <2>5. QED
      BY <1>8, <2>3, <2>4 DEF Commit
  <1>9. CASE Rollback(c)
    BY <1>9 DEF Rollback
  <1>10. QED
    BY <1>1, <1>2, <1>4, <1>5, <1>6, <1>7, <1>8, <1>9 DEF ClientStep

LEMMA CleanupType ==
  ASSUME TypeOK, CleanupScan \/ CleanupCommit
  PROVE  TypeOK'
  BY DEF TypeOK, CleanupScan, CleanupCommit, DocStatus

\* What a row has to satisfy for the job status a claim or callback gives it.
LEMMA MarkedRow ==
  ASSUME NEW cur \in Row, NEW s \in IndexStatus
  PROVE  /\ [cur EXCEPT !.status = s] \in Row
         /\ [cur EXCEPT !.status = s].status = s
         /\ [cur EXCEPT !.status = s].version = cur.version
         /\ [cur EXCEPT !.status = s].observed = cur.observed
         /\ [cur EXCEPT !.status = s].data = cur.data
  BY DEF Row

LEMMA NewJobType ==
  ASSUME NEW id \in Ids, NEW a \in Actions, NEW t \in Types, NEW v \in Nat
  PROVE  NewJob(id, a, t, v) \in Job
  BY ConstantsAssumption DEF NewJob, Job, JobPc, DocStatus

LEMMA ReconcilerType ==
  ASSUME LockInv, NEW r \in Reconcilers, ReconcilerStep(r)
  PROVE  TypeOK'
  <1> USE DEF LockInv, TypeOK
  <1>1. ASSUME NEW t \in Types
        PROVE  ActionFor(t) \in Actions \cup {"NONE"}
    BY DEF ActionFor
  <1>2. CASE Scan(r)
    <2>1. \A t \in Types : row[t].version \in Nat
      BY DEF Row, NoRow
    <2>2. [pc |-> "read", action |-> [t \in Types |-> ActionFor(t)],
           ver |-> [t \in Types |-> row[t].version], todo |-> {}] \in Round
      BY <1>1, <2>1 DEF Round
    <2>3. QED
      BY <1>2, <2>2 DEF Scan
  <1>3. CASE Claim(r)
    <2>1. IdleRound \in Round
      BY DEF IdleRound, Round
    <2> DEFINE act == [t \in Types |->
                         IF t \in Won(r) THEN rec[r].action[t] ELSE "NONE"]
               todo == {rec[r].action[t] : t \in Won(r)}
    <2>2. act \in [Types -> Actions \cup {"NONE"}]
      BY DEF Round
    <2>3. todo \in SUBSET Actions
      BY DEF Won, Found, Round
    <2>4. [pc |-> "claimed", action |-> act, ver |-> rec[r].ver, todo |-> todo]
            \in Round
      BY <2>2, <2>3 DEF Round
    <2>5. QED
      BY <1>3, <2>1, <2>4 DEF Claim
  <1>4. ASSUME NEW a \in Actions, Dispatch(r, a)
        PROVE  TypeOK'
    <2> DEFINE T == {t \in Found(r) : rec[r].action[t] = a}
    <2>1. T \subseteq Types
      BY DEF Found
    <2>2. NewId \in Ids
      BY <1>4, NewIdType DEF Dispatch
    <2>3. rec' \in [Reconcilers -> Round]
      <3>1. [rec[r] EXCEPT !.todo = @ \ {a}] \in Round
        BY DEF Round
      <3>2. QED
        BY <1>4, <3>1 DEF Dispatch
    <2>4. jobs' \subseteq Job
      <3>1. \A t \in T : NewJob(NewId, a, t, 0) \in Job
        BY <2>1, <2>2, NewJobType
      <3>2. QED
        BY <1>4, <3>1 DEF Dispatch
    <2>5. parses' \subseteq Parse
      <3> DEFINE ver == [t \in Types |-> IF t \in T THEN rec[r].ver[t] ELSE 0]
      <3>1. ver \in [Types -> Nat]
        BY DEF Round
      <3>2. a # "DELETE" => a \in {"CREATE", "UPDATE"}
        BY DEF Actions
      <3>3. a # "DELETE" =>
              [id |-> NewId, action |-> a, types |-> T, ver |-> ver, retries |-> 0]
                \in Parse
        <4> HIDE DEF ver, T
        <4>1. QED
          BY <2>1, <2>2, <3>1, <3>2, ConstantsAssumption DEF Parse
      <3>4. QED
        BY <1>4, <3>3 DEF Dispatch
    <2>6. QED
      BY <1>4, <2>3, <2>4, <2>5 DEF Dispatch
  <1>5. CASE ClaimCommit(r)
    <2>1. IdleRound \in Round
      BY DEF IdleRound, Round
    <2>2. ASSUME NEW t \in Types, t \in Found(r)
          PROVE  [row[t] EXCEPT !.status =
                    IF rec[r].action[t] = "DELETE"
                    THEN "DELETION_IN_PROGRESS" ELSE "CREATING"] \in Row
      <3>1. Claimable(t, rec[r].action[t])
        BY <1>5, <2>2 DEF ClaimCommit, HeldRowsKeep, Found
      <3>2. row[t] \in Row
        BY <3>1 DEF Claimable, NoRow
      <3>3. QED
        BY <3>2, MarkedRow DEF IndexStatus
    <2>3. row' \in [Types -> Row \cup {NoRow}]
      BY <1>5, <2>2 DEF ClaimCommit
    <2>4. QED
      BY <1>5, <2>1, <2>3 DEF ClaimCommit
  <1>6. CASE Abort(r)
    <2>1. IdleRound \in Round
      BY DEF IdleRound, Round
    <2>2. QED
      BY <1>6, <2>1 DEF Abort, Fault
  <1>7. QED
    BY <1>2, <1>3, <1>4, <1>5, <1>6 DEF ReconcilerStep

LEMMA ParseType ==
  ASSUME LockInv, NEW p \in parses, ParseStep(p)
  PROVE  TypeOK'
  <1> USE DEF LockInv, TypeOK
  <1>1. /\ p \in Parse /\ p.id \in Ids /\ p.action \in Actions
        /\ p.types \subseteq Types /\ p.retries \in 0..MaxRetries
        /\ \A t \in p.types : p.ver[t] \in Nat
    BY DEF Parse, Actions
  <1>2. \A t \in p.types : NewJob(p.id, p.action, t, p.ver[t]) \in Job
    BY <1>1, NewJobType
  <1>3. CASE ParseSucceeds(p)
    BY <1>2, <1>3 DEF ParseSucceeds
  <1>4. CASE ParseFails(p)
    <2>1. p.retries < MaxRetries => [p EXCEPT !.retries = @ + 1] \in Parse
      BY <1>1, ConstantsAssumption DEF Parse
    <2>2. ASSUME NEW t \in p.types
          PROVE  GivenUp(p, t) \in Job
      <3> DEFINE k == NewJob(p.id, p.action, t, p.ver[t])
      <3>1. k \in Job
        BY <1>2
      <3> HIDE DEF k
      <3>2. [k EXCEPT !.pc = "failing"] \in Job
        BY <3>1 DEF Job, JobPc
      <3>3. [[k EXCEPT !.pc = "failing"] EXCEPT !.retries = p.retries] \in Job
        BY <1>1, <3>2 DEF Job
      <3>4. QED
        BY <3>3 DEF k, GivenUp
    <2>3. parses' \subseteq Parse /\ jobs' \subseteq Job
      BY <1>4, <2>1, <2>2 DEF ParseFails
    <2>4. faults' \in Nat
      BY <1>4 DEF ParseFails, Fault
    <2>5. QED
      BY <1>4, <2>3, <2>4 DEF ParseFails
  <1>5. QED
    BY <1>3, <1>4 DEF ParseStep

\* What of a job its next steps leave alone.
LEMMA MovedJob ==
  ASSUME NEW j \in Job, NEW pc \in JobPc, NEW D \in SUBSET Batches
  PROVE  /\ Moved(j, pc, D) \in Job
         /\ Moved(j, pc, D).pc = pc
         /\ Moved(j, pc, D).type = j.type
         /\ Moved(j, pc, D).ver = j.ver
         /\ Moved(j, pc, D).docTo = j.docTo
         /\ Moved(j, pc, D).retries = j.retries
  <1> DEFINE k == [j EXCEPT !.pc = pc]
  <1>1. /\ k \in Job /\ k.pc = pc /\ k.type = j.type /\ k.ver = j.ver
        /\ k.docTo = j.docTo /\ k.retries = j.retries
    BY DEF Job
  <1>2. Moved(j, pc, D) = [k EXCEPT !.data = D]
    BY DEF Moved
  <1> HIDE DEF k
  <1>3. QED
    BY <1>1, <1>2 DEF Job

LEMMA FailedJob ==
  ASSUME NEW j \in Job
  PROVE  /\ Failed(j) \in Job
         /\ Failed(j).type = j.type
         /\ Failed(j).pc \in {"start", "failing"}
         /\ Failed(j).ver = j.ver
         /\ Failed(j).docTo = j.docTo
  <1> DEFINE k == Moved(j, "start", {})
  <1>1. {"start", "failing"} \subseteq JobPc
    BY DEF JobPc
  <1>2. /\ k \in Job /\ k.pc = "start" /\ k.type = j.type
        /\ k.ver = j.ver /\ k.docTo = j.docTo /\ k.retries = j.retries
    BY <1>1, MovedJob
  <1>3. CASE j.retries < MaxRetries
    <2>1. Failed(j) = [k EXCEPT !.retries = k.retries + 1]
      BY <1>3 DEF Failed
    <2>2. k.retries + 1 \in 0..MaxRetries
      BY <1>2, <1>3, ConstantsAssumption DEF Job
    <2> HIDE DEF k
    <2>3. QED
      BY <1>2, <2>1, <2>2 DEF Job
  <1>4. CASE ~(j.retries < MaxRetries)
    BY <1>1, <1>4, MovedJob DEF Failed
  <1>5. QED
    BY <1>3, <1>4

\* The document status a callback may write.
LEMMA DocWriteType ==
  ASSUME NEW t \in Types, NEW s
  PROVE  DocWrite(t, s) \in {"NONE", "PENDING", "RUNNING", "COMPLETE", "FAILED"}
  BY DEF DocWrite, Overall

LEMMA OpenedJob ==
  ASSUME NEW j \in Job, NEW pc \in OpenPc, NEW s
  PROVE  /\ Opened(j, pc, s) \in Job
         /\ Opened(j, pc, s).pc = pc
         /\ Opened(j, pc, s).type = j.type
         /\ Opened(j, pc, s).ver = j.ver
         /\ Opened(j, pc, s).docTo = DocWrite(j.type, s)
  <1> DEFINE k == [j EXCEPT !.pc = pc]
             d == DocWrite(j.type, s)
  <1>1. /\ k \in Job /\ k.pc = pc /\ k.type = j.type /\ k.ver = j.ver
    BY DEF Job, JobPc
  <1>2. d \in DocStatus
    BY DocWriteType DEF Job, DocStatus
  <1>3. Opened(j, pc, s) = [k EXCEPT !.docTo = d]
    BY DEF Opened
  <1> HIDE DEF k, d
  <1>4. Opened(j, pc, s) \in Job /\ Opened(j, pc, s).docTo = d
        /\ Opened(j, pc, s).pc = k.pc /\ Opened(j, pc, s).type = k.type
        /\ Opened(j, pc, s).ver = k.ver
    BY <1>1, <1>2, <1>3 DEF Job
  <1>5. QED
    BY <1>1, <1>4 DEF d

\* The row a callback leaves behind.
LEMMA SettledRow ==
  ASSUME NEW j \in Job, NEW cur \in Row, j.pc \in OpenPc
  PROVE  /\ Settled(j, cur) \in Row \cup {NoRow}
         /\ j.pc = "removing" <=> Settled(j, cur) = NoRow
         /\ j.pc = "activating" =>
              /\ Settled(j, cur).status = "ACTIVE"
              /\ Settled(j, cur).version = cur.version
              /\ Settled(j, cur).observed = j.ver
         /\ j.pc = "marking" =>
              /\ Settled(j, cur).status = "FAILED"
              /\ Settled(j, cur).version = cur.version
              /\ Settled(j, cur).observed = cur.observed
              /\ Settled(j, cur).data = cur.data
  <1> DEFINE a == [cur EXCEPT !.status = "ACTIVE"]
             b == [a EXCEPT !.observed = j.ver]
             e == [b EXCEPT !.data = j.data]
             f == [cur EXCEPT !.status = "FAILED"]
  <1>1. /\ a \in Row /\ a.status = "ACTIVE" /\ a.version = cur.version
        /\ f \in Row /\ f.status = "FAILED" /\ f.version = cur.version
        /\ f.observed = cur.observed /\ f.data = cur.data
    BY MarkedRow DEF IndexStatus
  <1>2. Settled(j, cur) = IF j.pc = "activating" THEN e
                          ELSE IF j.pc = "removing" THEN NoRow ELSE f
    BY DEF Settled
  <1> HIDE DEF a, f
  <1>3. b \in Row /\ b.status = a.status /\ b.version = a.version /\ b.observed = j.ver
    BY <1>1 DEF Row, Job
  <1> HIDE DEF b
  <1>4. /\ e \in Row /\ e.status = b.status /\ e.version = b.version
        /\ e.observed = b.observed
    BY <1>3 DEF Row, Job
  <1> HIDE DEF e
  <1>5. e # NoRow /\ f # NoRow
    BY <1>1, <1>4 DEF Row, NoRow, IndexStatus
  <1>6. QED
    BY <1>1, <1>2, <1>3, <1>4, <1>5 DEF OpenPc

\* The steps of a job: how its own record and the rest of the state change.
LEMMA JobType ==
  ASSUME LockInv, NEW j \in jobs, JobStep(j) \/ Lose(j) \/ Redeliver(j)
  PROVE  TypeOK'
  <1> USE DEF LockInv, TypeOK
  <1>0. j \in Job /\ j.type \in Types
    BY DEF Job
  <1>1. CASE Validate(j)
    BY <1>0, <1>1, MovedJob DEF Validate, Replace, JobPc
  <1>2. CASE CreateIndex(j)
    BY <1>0, <1>2, MovedJob, NewBatchType DEF CreateIndex, Replace, JobPc
  <1>3. CASE ReadOldIndex(j)
    <2>1. row[j.type].data \in SUBSET Batches
      BY <1>0 DEF Row, NoRow
    <2>2. QED
      BY <1>0, <1>3, <2>1, MovedJob DEF ReadOldIndex, Replace, JobPc
  <1>4. CASE ReplaceIndex(j)
    BY <1>0, <1>4, MovedJob, NewBatchType DEF ReplaceIndex, Replace, JobPc
  <1>5. CASE DeleteIndex(j)
    BY <1>0, <1>5, MovedJob DEF DeleteIndex, Replace, JobPc
  <1>6. CASE AttemptFails(j)
    <2>1. NextBatch(j) \subseteq Batches
      BY NewBatchType DEF NextBatch
    <2>2. store' \subseteq Batches /\ faults' \in Nat
      BY <1>6, <2>1 DEF AttemptFails, Fault
    <2>3. jobs' \subseteq Job
      BY <1>0, <1>6, FailedJob DEF AttemptFails, Replace
    <2>4. QED
      BY <1>6, <2>2, <2>3 DEF AttemptFails
  <1>7. ASSUME NEW matches, NEW open \in OpenPc, NEW s,
               Callback(j, matches, open, s)
        PROVE  TypeOK'
    BY <1>0, <1>7, OpenedJob DEF Callback, Replace
  <1>8. CASE OnIndexCreated(j)
    BY <1>7, <1>8 DEF OnIndexCreated, OpenPc
  <1>9. CASE OnIndexDeleted(j)
    BY <1>7, <1>9 DEF OnIndexDeleted, OpenPc
  <1>10. CASE OnIndexFailed(j)
    BY <1>7, <1>10 DEF OnIndexFailed, OpenPc
  <1>11. CASE CallbackCommit(j)
    <2>1. row[j.type] \in Row
      BY <1>0, <1>11 DEF CallbackCommit, HeldRowsKeep, OpenPc, NoRow
    <2>2. Settled(j, row[j.type]) \in Row \cup {NoRow}
      BY <1>0, <1>11, <2>1, SettledRow DEF CallbackCommit
    <2>3. row' \in [Types -> Row \cup {NoRow}]
      BY <1>0, <1>11, <2>2 DEF CallbackCommit
    <2>4. doc' \in DocStatus /\ jobs' \subseteq Job
      BY <1>0, <1>11 DEF CallbackCommit, Job
    <2>5. QED
      BY <1>11, <2>3, <2>4 DEF CallbackCommit
  <1>12. CASE Lose(j)
    BY <1>12 DEF Lose, Fault
  <1>13. CASE Redeliver(j)
    <2> DEFINE k == NewJob(NewId, j.action, j.type, j.ver)
    <2>1. k \in Job
      BY <1>0, <1>13, NewIdType, NewJobType DEF Redeliver, Job
    <2> HIDE DEF k
    <2>2. [k EXCEPT !.retries = j.retries] \in Job
      BY <1>0, <2>1 DEF Job
    <2>3. QED
      BY <1>13, <2>2 DEF Redeliver, Fault, k
  <1>14. QED
    BY <1>1, <1>2, <1>3, <1>4, <1>5, <1>6, <1>8, <1>9, <1>10, <1>11, <1>12,
       <1>13 DEF JobStep

LEMMA NextType ==
  ASSUME LockInv, [Next]_vars
  PROVE  TypeOK'
  <1>1. CASE UNCHANGED vars
    BY <1>1 DEF vars, LockInv, TypeOK
  <1>2. CASE Next
    BY <1>1, <1>2, ClientType, CleanupType, ReconcilerType, ParseType, JobType
       DEF Next, LockInv
  <1>3. QED
    BY <1>1, <1>2

-----------------------------------------------------------------------------
(* Locks                                                                   *)

\* Which rows are locked depends on the open claims and callbacks alone.
\* A step that opens none of them locks nothing; one that writes a row
\* either holds its lock or found it free.

LEMMA ClientLocks ==
  ASSUME LockInv, TypeOK', NEW c \in Clients, ClientStep(c)
  PROVE  LocksExclude' /\ HeldRowsKeep' /\ NoDocumentNoRow'
  <1> USE DEF LockInv, TypeOK
  <1>1. UNCHANGED <<rec, jobs>>
    BY DEF ClientStep, CreateDocument, UploadDocument, BeginConfirm,
           BeginRebuild, BeginRebuildFailed, BeginDelete, Begin, Commit, Rollback
  <1>2. LocksExclude'
    BY <1>1 DEF LocksExclude
  <1>3. ASSUME NEW t \in Types, Locked(t)
        PROVE  Exists(t)
    BY <1>3 DEF Locked, HeldRowsKeep, Claimable, Exists, OpenPc
  <1>4. ASSUME NEW t \in Types, Locked(t)
        PROVE  row'[t] = row[t]
    <2>1. CASE CreateDocument(c)
      BY <1>3, <1>4, <2>1 DEF CreateDocument, NoDocumentNoRow
    <2>2. CASE Commit(c)
      BY <1>4, <2>2 DEF Commit, Requested
    <2>3. CASE UNCHANGED row
      BY <2>3
    <2>4. QED
      BY <2>1, <2>2, <2>3 DEF ClientStep, UploadDocument, BeginConfirm,
         BeginRebuild, BeginRebuildFailed, BeginDelete, Begin, Rollback
  <1>5. HeldRowsKeep'
    <2>1. ASSUME NEW r \in Reconcilers, NEW t \in Types,
                 rec[r].pc = "claimed", rec[r].action[t] # "NONE"
          PROVE  Claimable(t, rec[r].action[t])'
      BY <1>1, <1>4, <2>1 DEF HeldRowsKeep, Locked, Claimable
    <2>2. ASSUME NEW j \in jobs, j.pc \in OpenPc
          PROVE  row'[j.type] = row[j.type]
      BY <1>4, <2>2 DEF Locked, Job
    <2>3. QED
      BY <1>1, <2>1, <2>2 DEF HeldRowsKeep, OpenPc
  <1>6. NoDocumentNoRow'
    <2>1. CASE CreateDocument(c) \/ UploadDocument(c)
      BY <2>1 DEF CreateDocument, UploadDocument, NoDocumentNoRow
    <2>2. CASE BeginConfirm(c) \/ BeginRebuild(c) \/ BeginRebuildFailed(c) \/ BeginDelete(c)
      BY <2>2 DEF BeginConfirm, BeginRebuild, BeginRebuildFailed, BeginDelete, Begin, NoDocumentNoRow
    <2>3. CASE Commit(c) \/ Rollback(c)
      BY <2>3 DEF Commit, Rollback, NoDocumentNoRow
    <2>4. QED
      BY <2>1, <2>2, <2>3 DEF ClientStep
  <1>7. QED
    BY <1>2, <1>5, <1>6

LEMMA ReconcilerLocks ==
  ASSUME LockInv, TypeOK', NEW r \in Reconcilers, ReconcilerStep(r)
  PROVE  LocksExclude' /\ HeldRowsKeep' /\ NoDocumentNoRow'
  <1> USE DEF LockInv, TypeOK
  <1>1. ASSUME UNCHANGED <<row, doc, svc>>,
               \A j \in jobs' : j.pc \in OpenPc => j \in jobs,
               \A q \in Reconcilers : rec'[q].pc = "claimed" =>
                 \/ rec[q].pc = "claimed" /\ rec'[q].action = rec[q].action
                 \/ /\ \A t \in Types : rec'[q].action[t] # "NONE" =>
                         Claimable(t, rec'[q].action[t]) /\ ~Locked(t)
                    /\ \A p \in Reconcilers \ {q} : rec'[p] = rec[p]
                    /\ \A j \in jobs' : j.type \in Types
        PROVE  LocksExclude' /\ HeldRowsKeep' /\ NoDocumentNoRow'
    <2>1. LocksExclude'
      BY <1>1 DEF LocksExclude, Locked
    <2>2. HeldRowsKeep'
      <3>1. ASSUME NEW q \in Reconcilers, NEW t \in Types,
                   rec'[q].pc = "claimed", rec'[q].action[t] # "NONE"
            PROVE  Claimable(t, rec[q].action[t])'
        BY <1>1, <3>1 DEF HeldRowsKeep, Claimable
      <3>2. QED
        BY <1>1, <3>1 DEF HeldRowsKeep, OpenPc
    <2>3. NoDocumentNoRow'
      BY <1>1 DEF NoDocumentNoRow, Idle, Exists
    <2>4. QED
      BY <2>1, <2>2, <2>3
  <1>2. CASE Scan(r)
    BY <1>1, <1>2 DEF Scan
  <1>3. CASE Claim(r)
    <2>1. \A j \in jobs : j.type \in Types
      BY DEF Job
    <2>2. rec'[r].pc = "claimed" =>
            \A t \in Types : rec'[r].action[t] # "NONE" =>
              Claimable(t, rec'[r].action[t]) /\ ~Locked(t)
      BY <1>3 DEF Claim, Won, Found, IdleRound
    <2>3. \A p \in Reconcilers \ {r} : rec'[p] = rec[p]
      BY <1>3 DEF Claim
    <2>4. UNCHANGED <<row, doc, svc, jobs>>
      BY <1>3 DEF Claim
    <2>5. QED
      BY <1>1, <2>1, <2>2, <2>3, <2>4
  <1>4. CASE \E a \in Actions : Dispatch(r, a)
    <2>1. \A j \in jobs' : j.pc \in OpenPc => j \in jobs
      BY <1>4 DEF Dispatch, NewJob, OpenPc
    <2>2. \A q \in Reconcilers :
            rec'[q].pc = rec[q].pc /\ rec'[q].action = rec[q].action
      <3>1. PICK a \in Actions : Dispatch(r, a)
        BY <1>4
      <3>2. rec[r] \in Round
        OBVIOUS
      <3> DEFINE k == [rec[r] EXCEPT !.todo = @ \ {a}]
      <3>3. k.pc = rec[r].pc /\ k.action = rec[r].action
        BY <3>2 DEF Round
      <3>4. rec' = [rec EXCEPT ![r] = k]
        BY <3>1 DEF Dispatch
      <3> HIDE DEF k
      <3>5. QED
        BY <3>3, <3>4
    <2>3. UNCHANGED <<row, doc, svc>>
      BY <1>4 DEF Dispatch
    <2>4. QED
      BY <1>1, <2>1, <2>2, <2>3
  <1>5. CASE ClaimCommit(r)
    <2>1. UNCHANGED <<doc, svc, jobs>>
      BY <1>5 DEF ClaimCommit
    <2>2. rec'[r].pc = "idle" /\ \A q \in Reconcilers \ {r} : rec'[q] = rec[q]
      BY <1>5 DEF ClaimCommit, IdleRound
    <2>3. ASSUME NEW t \in Types, t \notin Found(r)
          PROVE  row'[t] = row[t]
      BY <1>5, <2>3 DEF ClaimCommit
    <2>4. LocksExclude'
      BY <2>1, <2>2 DEF LocksExclude
    <2>5. HeldRowsKeep'
      <3>1. ASSUME NEW q \in Reconcilers, NEW t \in Types,
                   rec'[q].pc = "claimed", rec'[q].action[t] # "NONE"
            PROVE  Claimable(t, rec[q].action[t])'
        <4>1. q # r /\ rec'[q] = rec[q]
          BY <2>2, <3>1
        <4>2. t \notin Found(r)
          BY <1>5, <3>1, <4>1 DEF ClaimCommit, LocksExclude, Found
        <4>3. QED
          BY <2>3, <3>1, <4>1, <4>2 DEF HeldRowsKeep, Claimable
      <3>2. ASSUME NEW j \in jobs, j.pc \in OpenPc
            PROVE  row'[j.type] = row[j.type]
        <4>1. j.type \in Types /\ j.type \notin Found(r)
          BY <1>5, <3>2 DEF ClaimCommit, LocksExclude, Found, Job
        <4>2. QED
          BY <2>3, <4>1
      <3>3. QED
        BY <2>1, <3>1, <3>2 DEF HeldRowsKeep, OpenPc
    <2>6. NoDocumentNoRow'
      <3>1. \A t \in Types : Exists(t)' => Exists(t)
        <4>1. \A t \in Found(r) : t \in Types /\ Claimable(t, rec[r].action[t])
          BY <1>5 DEF ClaimCommit, HeldRowsKeep, Found
        <4>2. \A t \in Found(r) : Exists(t)
          BY <4>1 DEF Claimable, Exists
        <4>3. QED
          BY <2>3, <4>2 DEF Exists
      <3>2. QED
        BY <2>1, <3>1 DEF NoDocumentNoRow, Idle
    <2>7. QED
      BY <2>4, <2>5, <2>6
  <1>6. CASE Abort(r)
    <2>1. rec'[r].pc = "idle" /\ \A q \in Reconcilers \ {r} : rec'[q] = rec[q]
      BY <1>6 DEF Abort, IdleRound
    <2>2. UNCHANGED <<row, doc, svc, jobs>>
      BY <1>6 DEF Abort
    <2>3. QED
      BY <1>1, <2>1, <2>2
  <1>7. QED
    BY <1>2, <1>3, <1>4, <1>5, <1>6 DEF ReconcilerStep

LEMMA ParseLocks ==
  ASSUME LockInv, TypeOK', NEW p \in parses, ParseStep(p)
  PROVE  LocksExclude' /\ HeldRowsKeep' /\ NoDocumentNoRow'
  <1> USE DEF LockInv, TypeOK
  <1>1. UNCHANGED <<doc, row, svc, rec>>
    BY DEF ParseStep, ParseSucceeds, ParseFails
  <1>2. ASSUME NEW t \in p.types
        PROVE  GivenUp(p, t).pc = "failing" /\ NewJob(p.id, p.action, t, p.ver[t]).pc = "start"
    <2> DEFINE k == NewJob(p.id, p.action, t, p.ver[t])
    <2>1. k \in Job /\ k.pc = "start"
      BY NewJobType DEF Parse, Actions, NewJob
    <2> HIDE DEF k
    <2>2. [[k EXCEPT !.pc = "failing"] EXCEPT !.retries = p.retries].pc = "failing"
      BY <2>1 DEF Job
    <2>3. QED
      BY <2>1, <2>2 DEF GivenUp, k
  <1>3. \A j \in jobs' : j.pc \in OpenPc => j \in jobs
    BY <1>2 DEF ParseStep, ParseSucceeds, ParseFails, OpenPc
  <1>4. QED
    BY <1>1, <1>3
       DEF LocksExclude, HeldRowsKeep, NoDocumentNoRow, OpenPc, Claimable, Exists, Idle

LEMMA JobLocks ==
  ASSUME LockInv, TypeOK', NEW j \in jobs, JobStep(j) \/ Lose(j) \/ Redeliver(j)
  PROVE  LocksExclude' /\ HeldRowsKeep' /\ NoDocumentNoRow'
  <1> USE DEF LockInv, TypeOK
  <1>0. j \in Job /\ j.type \in Types
    BY DEF Job
  <1>1. ASSUME UNCHANGED <<doc, row, svc, rec>>,
               \A k \in jobs' : k.pc \in OpenPc => k \in jobs
        PROVE  LocksExclude' /\ HeldRowsKeep' /\ NoDocumentNoRow'
    BY <1>1 DEF LocksExclude, HeldRowsKeep, NoDocumentNoRow, OpenPc, Claimable,
                Exists, Idle
  <1>2. ASSUME NEW pc \in {"valid", "stored", "replacing", "removed"},
               NEW D \in SUBSET Batches, Replace(j, Moved(j, pc, D)),
               UNCHANGED <<doc, row, svc, rec>>
        PROVE  LocksExclude' /\ HeldRowsKeep' /\ NoDocumentNoRow'
    <2>1. Moved(j, pc, D).pc = pc
      BY <1>0, MovedJob DEF JobPc
    <2>2. QED
      BY <1>1, <1>2, <2>1 DEF Replace, OpenPc
  <1>3. CASE Validate(j)
    <2>1. CASE Relevant(j)
      BY <1>2, <1>3, <2>1 DEF Validate
    <2>2. CASE ~Relevant(j)
      BY <1>1, <1>3, <2>2 DEF Validate
    <2>3. QED
      BY <2>1, <2>2
  <1>4. CASE CreateIndex(j)
    BY <1>2, <1>4, NewBatchType DEF CreateIndex
  <1>5. CASE ReadOldIndex(j)
    <2>1. row[j.type].data \in SUBSET Batches
      BY <1>0 DEF Row, NoRow
    <2>2. QED
      BY <1>2, <1>5, <2>1 DEF ReadOldIndex
  <1>6. CASE ReplaceIndex(j)
    BY <1>2, <1>6, NewBatchType DEF ReplaceIndex
  <1>7. CASE DeleteIndex(j)
    BY <1>2, <1>7 DEF DeleteIndex
  <1>8. CASE AttemptFails(j)
    <2>1. Failed(j).pc \notin OpenPc
      BY <1>0, FailedJob DEF OpenPc
    <2>2. QED
      BY <1>1, <1>8, <2>1 DEF AttemptFails, Replace
  <1>9. ASSUME NEW matches \in BOOLEAN, NEW open \in OpenPc, NEW s,
               Callback(j, matches, open, s),
               /\ matches /\ open = "activating" =>
                    row[j.type].status = "CREATING" /\ row[j.type].version = j.ver
               /\ matches /\ open = "removing" =>
                    row[j.type].status = "DELETION_IN_PROGRESS"
               /\ matches /\ open = "marking" =>
                    row[j.type].status \in {"CREATING", "DELETION_IN_PROGRESS"}
        PROVE  LocksExclude' /\ HeldRowsKeep' /\ NoDocumentNoRow'
    <2>1. CASE ~matches
      BY <1>1, <1>9, <2>1 DEF Callback
    <2>2. CASE matches
      <3> DEFINE k == Opened(j, open, s)
      <3>1. k.pc = open /\ k.type = j.type /\ k.ver = j.ver
        BY <1>0, OpenedJob
      <3>2. jobs' = (jobs \ {j}) \cup {k}
        BY <1>9, <2>2 DEF Callback, Replace
      <3>3. ~Locked(j.type) /\ UNCHANGED <<doc, row, svc, rec>>
        BY <1>9 DEF Callback
      <3> HIDE DEF k
      <3>4. LocksExclude'
        <4>1. \A i \in jobs : i.pc \in OpenPc => i.type # j.type
          BY <3>3 DEF Locked
        <4>2. \A r \in Reconcilers :
                rec[r].pc = "claimed" => rec[r].action[j.type] = "NONE"
          BY <3>3 DEF Locked
        <4>3. QED
          BY <3>1, <3>2, <3>3, <4>1, <4>2 DEF LocksExclude
      <3>5. HeldRowsKeep'
        BY <1>9, <2>2, <3>1, <3>2, <3>3 DEF HeldRowsKeep, Claimable, OpenPc
      <3>6. NoDocumentNoRow'
        BY <3>3 DEF NoDocumentNoRow, Exists, Idle
      <3>7. QED
        BY <3>4, <3>5, <3>6
    <2>3. QED
      BY <2>1, <2>2
  <1>10. CASE OnIndexCreated(j)
    <2> DEFINE m == row[j.type].status = "CREATING" /\ row[j.type].version = j.ver
    <2>1. Callback(j, m, "activating", "ACTIVE")
      BY <1>10 DEF OnIndexCreated
    <2>2. QED
      BY <1>9, <2>1, Zenon DEF OpenPc
  <1>11. CASE OnIndexDeleted(j)
    <2> DEFINE m == row[j.type].status = "DELETION_IN_PROGRESS"
    <2>1. Callback(j, m, "removing", "NONE")
      BY <1>11 DEF OnIndexDeleted
    <2>2. QED
      BY <1>9, <2>1, Zenon DEF OpenPc
  <1>12. CASE OnIndexFailed(j)
    <2> DEFINE m == row[j.type].status \in {"CREATING", "DELETION_IN_PROGRESS"}
    <2>1. Callback(j, m, "marking", "FAILED")
      BY <1>12 DEF OnIndexFailed
    <2>2. m \in BOOLEAN /\ "marking" \in OpenPc
      BY DEF OpenPc
    <2>3. m => row[j.type].status \in {"CREATING", "DELETION_IN_PROGRESS"}
      OBVIOUS
    <2> HIDE DEF m
    <2>4. QED
      BY <1>9, <2>1, <2>2, <2>3
  <1>13. CASE CallbackCommit(j)
    <2>1. /\ j.pc \in OpenPc /\ jobs' = jobs \ {j}
          /\ UNCHANGED <<svc, rec>>
          /\ \A t \in Types : t # j.type => row'[t] = row[t]
      BY <1>13 DEF CallbackCommit
    <2>2. \A k \in jobs' : k.pc \in OpenPc => k.type # j.type /\ k.type \in Types
      BY <2>1 DEF LocksExclude, Job
    <2>3. \A r \in Reconcilers :
            rec[r].pc = "claimed" => rec[r].action[j.type] = "NONE"
      BY <2>1 DEF LocksExclude
    <2>4. LocksExclude'
      BY <2>1 DEF LocksExclude
    <2>5. HeldRowsKeep'
      BY <2>1, <2>2, <2>3 DEF HeldRowsKeep, Claimable, OpenPc
    <2>6. NoDocumentNoRow'
      <3>1. row[j.type].status # "NONE"
        BY <2>1 DEF HeldRowsKeep, OpenPc
      <3>2. doc # "NONE"
        BY <1>0, <3>1 DEF NoDocumentNoRow, Exists
      <3>3. doc' # "NONE"
        BY <1>13, <3>2 DEF CallbackCommit
      <3>4. QED
        BY <3>3 DEF NoDocumentNoRow
    <2>7. QED
      BY <2>4, <2>5, <2>6
  <1>14. CASE Lose(j)
    BY <1>1, <1>14 DEF Lose
  <1>15. CASE Redeliver(j)
    <2> DEFINE k == NewJob(NewId, j.action, j.type, j.ver)
    <2>1. k \in Job /\ k.pc = "start"
      BY <1>0, <1>15, NewIdType, NewJobType DEF Redeliver, Job, NewJob
    <2> HIDE DEF k
    <2>2. [k EXCEPT !.retries = j.retries].pc = "start"
      BY <2>1 DEF Job
    <2>3. QED
      BY <1>1, <1>15, <2>2 DEF Redeliver, OpenPc, k
  <1>16. QED
    BY <1>3, <1>4, <1>5, <1>6, <1>7, <1>8, <1>10, <1>11, <1>12, <1>13, <1>14,
       <1>15 DEF JobStep

LEMMA InitLocks == Init => LockInv
  <1>1. Init => TypeOK
    BY InitType
  <1>2. Init => LocksExclude
    BY DEF Init, LocksExclude, IdleRound
  <1>3. Init => HeldRowsKeep
    BY DEF Init, HeldRowsKeep, IdleRound
  <1>4. Init => NoDocumentNoRow
    BY DEF Init, NoDocumentNoRow, Exists, NoRow, Idle
  <1>5. QED
    BY <1>1, <1>2, <1>3, <1>4 DEF LockInv

LEMMA NextLocks ==
  ASSUME LockInv, [Next]_vars
  PROVE  LockInv'
  <1>1. TypeOK'
    BY NextType
  <1>2. CASE UNCHANGED vars
    BY <1>1, <1>2 DEF vars, LockInv, LocksExclude, HeldRowsKeep, Claimable,
                      NoDocumentNoRow, Exists, Idle
  <1>3. CASE CleanupScan \/ CleanupCommit
    BY <1>1, <1>3 DEF CleanupScan, CleanupCommit, LockInv, LocksExclude,
                      HeldRowsKeep, Claimable, NoDocumentNoRow, Exists, Idle
  <1>4. CASE \E c \in Clients : ClientStep(c)
    BY <1>1, <1>4, ClientLocks DEF LockInv
  <1>5. CASE \E r \in Reconcilers : ReconcilerStep(r)
    BY <1>1, <1>5, ReconcilerLocks DEF LockInv
  <1>6. CASE \E p \in parses : ParseStep(p)
    BY <1>1, <1>6, ParseLocks DEF LockInv
  <1>7. CASE \E j \in jobs : JobStep(j) \/ Lose(j) \/ Redeliver(j)
    BY <1>1, <1>7, JobLocks DEF LockInv
  <1>8. CASE Quiescent /\ UNCHANGED vars
    BY <1>2, <1>8
  <1>9. QED
    BY <1>2, <1>3, <1>4, <1>5, <1>6, <1>7, <1>8 DEF Next

\* Whatever the number of overlapping requests, reconcilers and jobs, every
\* variable keeps its type: in particular no claim or callback commits over a
\* row that has gone.
THEOREM TypeCorrect == Spec => []TypeOK
  <1>1. LockInv => TypeOK
    BY DEF LockInv
  <1>2. QED
    BY <1>1, InitLocks, NextLocks, PTL DEF Spec

\* The condition under which a claim or callback updated its row is still true
\* when its transaction commits (reconciler.py:187-194, 338-348, 377-386).
THEOREM HeldRowsAreKept == Spec => []HeldRowsKeep
  <1>1. LockInv => HeldRowsKeep
    BY DEF LockInv
  <1>2. QED
    BY <1>1, InitLocks, NextLocks, PTL DEF Spec

-----------------------------------------------------------------------------
(* Requests that do not overlap                                            *)

SingleClient == \A c, d \in Clients : c = d
NoExpiry == "expire" \notin Ops

LEMMA InitIndInv == Init => IndInv
  <1>1. Init => LockInv
    BY InitLocks
  <1>2. Init => SeenIsCurrent /\ WorkHasRow /\ WorkIsOfThePast
    BY DEF Init, SeenIsCurrent, Idle, WorkHasRow, WorkIsOfThePast, Exists,
           NoRow, IdleRound
  <1>3. Init => DocWritersAgree /\ CondemnedIsDeleted /\ WaitingIsClaimable
                /\ DeletedIsCondemned
    BY DEF Init, DocWritersAgree, CondemnedIsDeleted, WaitingIsClaimable,
           DeletedIsCondemned, Idle, NoRow
  <1>4. QED
    BY <1>1, <1>2, <1>3 DEF IndInv

\* What the commit of a request does to each row, when no other request can
\* have come between its reads and its writes.
LEMMA CommittedRow ==
  ASSUME IndInv, NEW c \in Clients, Commit(c), NEW t \in Types
  PROVE  \/ row'[t] = row[t] /\ (svc[c].op = "delete" => ~Exists(t))
         \/ /\ svc[c].op # "delete" /\ ~Exists(t) /\ row'[t] = NewRow
         \/ /\ svc[c].op # "delete" /\ Exists(t) /\ ~Locked(t) /\ Exists(t)'
            /\ row'[t].version = row[t].version + 1
            /\ row'[t].observed = row[t].observed
            /\ row'[t].status \in {row[t].status, "PENDING"}
         \/ /\ svc[c].op = "delete" /\ Exists(t) /\ ~Locked(t)
            /\ row'[t].version = row[t].version
            /\ row'[t].observed = row[t].observed
            /\ row'[t].status = "DELETING"
  <1> DEFINE q == svc[c]
  <1> USE DEF IndInv, LockInv, TypeOK
  <1>1. /\ q \in Request /\ ~Idle(c) /\ row'[t] = Requested(q, t)
        /\ (t \in Written(q) => ~Locked(t))
        /\ (t \in Written(q) => ((q.seen[t] = NoRow) = (row[t] = NoRow)))
    BY DEF Commit, Idle, FlushFails, Written
  <1>2. row[t] \in Row \cup {NoRow} /\ q.seen[t] \in Row \cup {NoRow}
    BY <1>1 DEF Request
  <1>3. Exists(t) <=> row[t] # NoRow
    BY <1>2 DEF Exists, NoRow, Row, IndexStatus
  <1>4. Exists(t) => q.seen[t] # NoRow /\ q.seen[t].version = row[t].version
    BY <1>1 DEF SeenIsCurrent
  <1>5. q.seen[t].status \notin {"DELETING", "DELETION_IN_PROGRESS"}
    BY <1>1 DEF SeenIsCurrent
  <1>6. CASE t \notin Written(q)
    <2>1. row'[t] = row[t]
      BY <1>1, <1>6 DEF Requested
    <2>2. q.op = "delete" => ~Exists(t)
      BY <1>1, <1>4, <1>6 DEF Written, SeenIsCurrent
    <2>3. QED
      BY <2>1, <2>2
  <1>7. CASE t \in Written(q) /\ ~Exists(t)
    BY <1>1, <1>3, <1>7 DEF Requested, Upserted, Written
  <1>8. CASE t \in Written(q) /\ Exists(t)
    <2>1. row[t] \in Row /\ q.seen[t] \in Row
      BY <1>2, <1>3, <1>4, <1>8
    <2>2. CASE q.op = "delete"
      BY <1>1, <1>5, <1>8, <2>1, <2>2, RewrittenRow DEF Requested
    <2>3. CASE q.op # "delete"
      <3>1. row'[t] = Upserted(q.seen[t], row[t])
        BY <1>1, <1>8, <2>3 DEF Requested
      <3>2. /\ row'[t] \in Row /\ row'[t].version = row[t].version + 1
            /\ row'[t].observed = row[t].observed
            /\ row'[t].status \in {row[t].status, "PENDING"}
        BY <1>4, <1>8, <2>1, <3>1, RewrittenRow
      <3>3. Exists(t)'
        BY <3>2 DEF Exists, Row, IndexStatus
      <3>4. QED
        BY <1>1, <1>8, <2>3, <3>2, <3>3
    <2>4. QED
      BY <2>2, <2>3
  <1>9. QED
    BY <1>6, <1>7, <1>8

LEMMA CommitInv ==
  ASSUME SingleClient, IndInv, LockInv', NEW c \in Clients, Commit(c)
  PROVE  IndInv'
  <1> DEFINE q == svc[c]
  <1> USE DEF IndInv
  <1>1. /\ \A d \in Clients : Idle(d)'
        /\ UNCHANGED <<gc, rec, parses, jobs>>
        /\ doc # "DELETED" /\ ~Idle(c) /\ doc # "NONE"
        /\ doc' = IF q.op = "delete" THEN "DELETED"
                  ELSE IF q.op = "confirm" THEN "PENDING" ELSE doc
    BY DEF Commit, SingleClient, Idle, DocWritersAgree, NoDocumentNoRow,
           LockInv, TypeOK
  <1>2. SeenIsCurrent'
    BY <1>1 DEF SeenIsCurrent
  <1>3. \A t \in Types : Exists(t) => row[t].version \in Nat /\ row[t].observed \in Nat
    BY DEF LockInv, TypeOK, Row, NoRow
  <1>4. \A t \in Types : row[t].status \notin {"DELETING", "DELETION_IN_PROGRESS"}
    BY <1>1 DEF CondemnedIsDeleted
  <1>5. NewRow.status = "PENDING" /\ NewRow.version = 1 /\ NewRow.observed = 0
    BY DEF NewRow
  <1>6. WorkHasRow'
    BY <1>1, CommittedRow DEF WorkHasRow, Exists
  <1>7. WorkIsOfThePast'
    <2>1. ASSUME NEW t \in Types, Exists(t)'
          PROVE  /\ row'[t].observed <= row'[t].version
                 /\ Exists(t) => row[t].version <= row'[t].version
                 /\ ~Exists(t) =>
                      /\ \A r \in Reconcilers : rec[r].action[t] = "NONE"
                      /\ \A p \in parses : t \notin p.types
                      /\ \A j \in jobs : j.type # t
      BY <1>1, <1>3, <1>5, <2>1, CommittedRow DEF WorkIsOfThePast, WorkHasRow, Exists
    <2>2. ASSUME NEW t \in Types, Exists(t), NEW v \in Nat, v <= row[t].version,
                 Exists(t)'
          PROVE  v <= row'[t].version
      <3>1. row'[t].version \in Nat
        BY DEF LockInv, TypeOK, Row, NoRow
      <3>2. QED
        BY <1>3, <2>1, <2>2, <3>1
    <2>3. /\ \A r \in Reconcilers, t \in Types : rec[r].ver[t] \in Nat
          /\ \A p \in parses, t \in Types : p.ver[t] \in Nat
          /\ \A j \in jobs : j.ver \in Nat
      BY DEF LockInv, TypeOK, Round, Parse, Job
    <2>4. QED
      BY <1>1, <2>1, <2>2, <2>3 DEF WorkIsOfThePast
  <1>8. DocWritersAgree'
    <2>1. ASSUME NEW j \in jobs, j.pc \in OpenPc, j.docTo # "NONE"
          PROVE  doc' # "DELETED"
      <3>1. j.type \in Types /\ Locked(j.type)
        BY <2>1 DEF LockInv, TypeOK, Job, Locked
      <3>2. Exists(j.type)
        BY <2>1 DEF LockInv, HeldRowsKeep, Exists, OpenPc
      <3>3. q.op # "delete"
        BY <3>1, <3>2, CommittedRow
      <3>4. QED
        BY <1>1, <3>3
    <2>2. QED
      BY <1>1, <2>1 DEF DocWritersAgree
  <1>9. CondemnedIsDeleted'
    BY <1>1, <1>4, <1>5, CommittedRow DEF CondemnedIsDeleted, Exists
  <1>10. WaitingIsClaimable'
    BY <1>3, <1>5, CommittedRow DEF WaitingIsClaimable, WorkIsOfThePast
  <1>11. DeletedIsCondemned'
    BY <1>1, CommittedRow DEF DeletedIsCondemned, Exists
  <1>12. QED
    BY <1>2, <1>6, <1>7, <1>8, <1>9, <1>10, <1>11

LEMMA ClientInv ==
  ASSUME SingleClient, IndInv, LockInv', NEW c \in Clients, ClientStep(c)
  PROVE  IndInv'
  <1> USE DEF IndInv
  <1>1. CASE CreateDocument(c)
    <2>1. /\ doc = "NONE" /\ doc' = "PENDING"
          /\ \A t \in Types : ~Exists(t)
          /\ \A d \in Clients : Idle(d)
          /\ UNCHANGED <<svc, gc, rec, parses, jobs>>
          /\ \A t \in Types : row'[t] \in {NewRow, NoRow}
      BY <1>1 DEF CreateDocument, NoDocumentNoRow, LockInv
    <2>2. /\ NewRow.status = "PENDING" /\ NewRow.version = 1 /\ NewRow.observed = 0
          /\ NoRow.status = "NONE"
      BY DEF NewRow, NoRow
    <2>3. \A t \in Types :
            /\ \A r \in Reconcilers : rec[r].action[t] = "NONE"
            /\ \A p \in parses : t \notin p.types
            /\ \A j \in jobs : j.type # t
      BY <2>1 DEF WorkHasRow
    <2>4. SeenIsCurrent' /\ WorkHasRow' /\ DocWritersAgree'
      BY <2>1, <2>3 DEF SeenIsCurrent, WorkHasRow, DocWritersAgree, Idle
    <2>5. WorkIsOfThePast'
      BY <2>1, <2>2, <2>3 DEF WorkIsOfThePast, Exists
    <2>6. CondemnedIsDeleted' /\ WaitingIsClaimable' /\ DeletedIsCondemned'
      BY <2>1, <2>2 DEF CondemnedIsDeleted, WaitingIsClaimable, DeletedIsCondemned
    <2>7. QED
      BY <2>4, <2>5, <2>6
  <1>2. CASE UploadDocument(c)
    BY <1>2 DEF UploadDocument, SeenIsCurrent, WorkHasRow, WorkIsOfThePast,
                DocWritersAgree, CondemnedIsDeleted, WaitingIsClaimable,
                DeletedIsCondemned, Idle, Exists, NoDocumentNoRow, LockInv
  <1>3. ASSUME NEW op, NEW T \in SUBSET Types, Begin(c, op, T),
               doc # "DELETED", op = "delete" => T = Types
        PROVE  IndInv'
    <2>1. UNCHANGED <<doc, row, gc, rec, parses, jobs>>
      BY <1>3 DEF Begin
    <2>2. svc' = [svc EXCEPT ![c] = [op |-> op, types |-> T, seen |-> row]]
      BY <1>3 DEF Begin
    <2>3. \A d \in Clients : d = c
      BY DEF SingleClient
    <2>4. svc'[c] = [op |-> op, types |-> T, seen |-> row]
      BY <2>2 DEF LockInv, TypeOK
    <2>5. SeenIsCurrent'
      BY <1>3, <2>1, <2>3, <2>4
         DEF SeenIsCurrent, Exists, NoRow, CondemnedIsDeleted
    <2>6. DocWritersAgree'
      BY <1>3, <2>1 DEF DocWritersAgree
    <2>7. QED
      BY <2>1, <2>5, <2>6 DEF WorkHasRow, WorkIsOfThePast, CondemnedIsDeleted,
         WaitingIsClaimable, DeletedIsCondemned, Exists
  <1>4. CASE BeginConfirm(c)
    BY <1>3, <1>4 DEF BeginConfirm
  <1>5. CASE BeginRebuild(c)
    BY <1>3, <1>5 DEF BeginRebuild
  <1>6. CASE BeginRebuildFailed(c)
    BY <1>3, <1>6 DEF BeginRebuildFailed
  <1>7. CASE BeginDelete(c)
    BY <1>3, <1>7 DEF BeginDelete
  <1>8. CASE Commit(c)
    BY <1>8, CommitInv
  <1>9. CASE Rollback(c)
    <2>1. UNCHANGED <<doc, row, gc, rec, parses, jobs>> /\ \A d \in Clients : Idle(d)'
      BY <1>9 DEF Rollback, SingleClient, Idle, LockInv, TypeOK
    <2>2. QED
      BY <2>1 DEF SeenIsCurrent, WorkHasRow, WorkIsOfThePast, DocWritersAgree,
         CondemnedIsDeleted, WaitingIsClaimable, DeletedIsCondemned, Exists
  <1>10. QED
    BY <1>1, <1>2, <1>4, <1>5, <1>6, <1>7, <1>8, <1>9 DEF ClientStep

LEMMA CleanupInv ==
  ASSUME NoExpiry, IndInv, CleanupScan \/ CleanupCommit
  PROVE  FALSE
  BY DEF NoExpiry, IndInv, DocWritersAgree, CleanupScan, CleanupCommit

\* A row that is claimed changes its status only.
LEMMA ClaimedRow ==
  ASSUME LockInv, NEW r \in Reconcilers, ClaimCommit(r), NEW t \in Types
  PROVE  \/ row'[t] = row[t] /\ t \notin Found(r)
         \/ /\ t \in Found(r)
            /\ row[t] \in Row
            /\ row'[t].version = row[t].version
            /\ row'[t].observed = row[t].observed
            /\ \/ row[t].status = "PENDING" /\ row'[t].status = "CREATING"
               \/ /\ row[t].status = "DELETING"
                  /\ row'[t].status = "DELETION_IN_PROGRESS"
  <1>1. CASE t \notin Found(r)
    BY <1>1 DEF ClaimCommit
  <1>2. CASE t \in Found(r)
    <2> DEFINE s == IF rec[r].action[t] = "DELETE"
                    THEN "DELETION_IN_PROGRESS" ELSE "CREATING"
    <2>1. Claimable(t, rec[r].action[t])
      BY <1>2 DEF ClaimCommit, HeldRowsKeep, LockInv, Found
    <2>2. row[t] \in Row
      BY <2>1 DEF Claimable, NoRow, LockInv, TypeOK
    <2>3. row'[t] = [row[t] EXCEPT !.status = s]
      BY <1>2 DEF ClaimCommit
    <2>4. s \in IndexStatus
      BY DEF IndexStatus
    <2> HIDE DEF s
    <2>5. /\ row'[t].status = s /\ row'[t].version = row[t].version
          /\ row'[t].observed = row[t].observed
      BY <2>2, <2>3, <2>4, MarkedRow
    <2>6. QED
      BY <1>2, <2>1, <2>2, <2>3, <2>5 DEF s, Claimable
  <1>3. QED
    BY <1>1, <1>2

LEMMA ReconcilerInv ==
  ASSUME IndInv, LockInv', NEW r \in Reconcilers, ReconcilerStep(r)
  PROVE  IndInv'
  <1> USE DEF IndInv
  <1>0. UNCHANGED <<doc, svc, gc>>
    BY DEF ReconcilerStep, Scan, Claim, Dispatch, ClaimCommit, Abort
  <1>1. ASSUME UNCHANGED row,
               \A q \in Reconcilers : \A t \in Types : rec'[q].action[t] # "NONE" =>
                 \/ rec[q].action[t] # "NONE" /\ rec'[q].ver[t] = rec[q].ver[t]
                 \/ Exists(t) /\ rec'[q].ver[t] = row[t].version,
               \A p \in parses' : p \in parses \/
                 \A t \in p.types : rec[r].action[t] # "NONE" /\ p.ver[t] = rec[r].ver[t],
               \A j \in jobs' : j \in jobs \/
                 /\ j.ver = 0 /\ j.docTo = "NONE" /\ j.pc = "start"
                 /\ rec[r].action[j.type] # "NONE"
        PROVE  IndInv'
    <2>1. SeenIsCurrent' /\ CondemnedIsDeleted' /\ WaitingIsClaimable'
          /\ DeletedIsCondemned' /\ DocWritersAgree'
      BY <1>0, <1>1 DEF SeenIsCurrent, CondemnedIsDeleted, WaitingIsClaimable,
         DeletedIsCondemned, DocWritersAgree, Exists, Idle, OpenPc
    <2>2. WorkHasRow'
      BY <1>0, <1>1 DEF WorkHasRow, Exists
    <2>3. \A t \in Types : row[t].version \in Nat
      BY DEF LockInv, TypeOK, Row, NoRow
    <2>4. WorkIsOfThePast'
      BY <1>1, <2>3 DEF WorkIsOfThePast, Exists
    <2>5. QED
      BY <2>1, <2>2, <2>4
  <1>2. CASE Scan(r)
    <2> DEFINE k == [pc |-> "read", action |-> [t \in Types |-> ActionFor(t)],
                     ver |-> [t \in Types |-> row[t].version], todo |-> {}]
    <2>1. rec'[r] = k /\ (\A q \in Reconcilers \ {r} : rec'[q] = rec[q])
          /\ UNCHANGED <<row, parses, jobs>>
      BY <1>2 DEF Scan, LockInv, TypeOK
    <2>2. \A t \in Types : ActionFor(t) # "NONE" => Exists(t)
      BY DEF ActionFor, Claimable, Exists
    <2>3. \A t \in Types : k.action[t] = ActionFor(t) /\ k.ver[t] = row[t].version
      OBVIOUS
    <2> HIDE DEF k
    <2>4. QED
      BY <1>1, <2>1, <2>2, <2>3
  <1>3. CASE Claim(r)
    <2>1. (\A q \in Reconcilers \ {r} : rec'[q] = rec[q]) /\ UNCHANGED <<row, parses, jobs>>
      BY <1>3 DEF Claim, LockInv, TypeOK
    <2>2. \A t \in Types : rec'[r].action[t] # "NONE" =>
            rec[r].action[t] # "NONE" /\ rec'[r].ver[t] = rec[r].ver[t]
      BY <1>3 DEF Claim, Won, Found, IdleRound, LockInv, TypeOK
    <2>3. QED
      BY <1>1, <2>1, <2>2
  <1>4. ASSUME NEW a \in Actions, Dispatch(r, a)
        PROVE  IndInv'
    <2> DEFINE k == [rec[r] EXCEPT !.todo = @ \ {a}]
               T == {t \in Found(r) : rec[r].action[t] = a}
    <2>1. k.action = rec[r].action /\ k.ver = rec[r].ver
      <3>1. rec[r] \in Round
        BY DEF LockInv, TypeOK
      <3>2. QED
        BY <3>1 DEF Round
    <2>2. rec' = [rec EXCEPT ![r] = k]
      BY <1>4 DEF Dispatch
    <2> HIDE DEF k
    <2>3. \A q \in Reconcilers : rec'[q].action = rec[q].action /\ rec'[q].ver = rec[q].ver
      BY <2>1, <2>2 DEF LockInv, TypeOK
    <2>4. \A t \in T : t \in Types /\ rec[r].action[t] # "NONE"
      BY DEF Found
    <2>5. \A j \in jobs' : j \in jobs \/
            /\ j.ver = 0 /\ j.docTo = "NONE" /\ j.pc = "start"
            /\ rec[r].action[j.type] # "NONE"
      BY <1>4, <2>4 DEF Dispatch, NewJob
    <2>6. \A p \in parses' : p \in parses \/
            \A t \in p.types : rec[r].action[t] # "NONE" /\ p.ver[t] = rec[r].ver[t]
      <3>1. ASSUME NEW p \in parses', p \notin parses
            PROVE  p.types = T /\
                   p.ver = [t \in Types |-> IF t \in T THEN rec[r].ver[t] ELSE 0]
        BY <1>4, <3>1 DEF Dispatch
      <3> HIDE DEF T
      <3>2. QED
        BY <2>4, <3>1
    <2>7. UNCHANGED row
      BY <1>4 DEF Dispatch
    <2>8. QED
      BY <1>1, <2>3, <2>5, <2>6, <2>7
  <1>5. CASE ClaimCommit(r)
    <2>1. /\ UNCHANGED <<parses, jobs>>
          /\ \A q \in Reconcilers \ {r} : rec'[q] = rec[q]
          /\ \A t \in Types : rec'[r].action[t] = "NONE"
      BY <1>5 DEF ClaimCommit, IdleRound, LockInv, TypeOK
    <2>2. ASSUME NEW t \in Types
          PROVE  \/ row'[t] = row[t]
                 \/ /\ Exists(t) /\ Exists(t)'
                    /\ row'[t].version = row[t].version
                    /\ row'[t].observed = row[t].observed
                    /\ \/ row[t].status = "PENDING" /\ row'[t].status = "CREATING"
                       \/ /\ row[t].status = "DELETING"
                          /\ row'[t].status = "DELETION_IN_PROGRESS"
      BY <1>5, ClaimedRow DEF Exists, Row, IndexStatus
    <2>3. SeenIsCurrent' /\ WorkHasRow'
      BY <1>0, <2>1, <2>2 DEF SeenIsCurrent, WorkHasRow, Exists, Idle
    <2>4. WorkIsOfThePast'
      BY <2>1, <2>2 DEF WorkIsOfThePast, Exists
    <2>5. DocWritersAgree' /\ CondemnedIsDeleted'
      BY <1>0, <2>1, <2>2 DEF DocWritersAgree, CondemnedIsDeleted, Idle
    <2>6. WaitingIsClaimable' /\ DeletedIsCondemned'
      BY <1>0, <2>2 DEF WaitingIsClaimable, DeletedIsCondemned
    <2>7. QED
      BY <2>3, <2>4, <2>5, <2>6
  <1>6. CASE Abort(r)
    <2>1. (\A q \in Reconcilers \ {r} : rec'[q] = rec[q]) /\ UNCHANGED <<row, parses, jobs>>
          /\ \A t \in Types : rec'[r].action[t] = "NONE"
      BY <1>6 DEF Abort, IdleRound, LockInv, TypeOK
    <2>2. QED
      BY <1>1, <2>1
  <1>7. QED
    BY <1>2, <1>3, <1>4, <1>5, <1>6 DEF ReconcilerStep

LEMMA ParseInv ==
  ASSUME IndInv, LockInv', NEW p \in parses, ParseStep(p)
  PROVE  IndInv'
  <1> USE DEF IndInv
  <1>1. UNCHANGED <<doc, row, svc, gc, rec>> /\ p \in Parse
    BY DEF ParseStep, ParseSucceeds, ParseFails, LockInv, TypeOK
  <1>2. ASSUME NEW t \in p.types
        PROVE  /\ NewJob(p.id, p.action, t, p.ver[t]).type = t
               /\ NewJob(p.id, p.action, t, p.ver[t]).ver = p.ver[t]
               /\ NewJob(p.id, p.action, t, p.ver[t]).docTo = "NONE"
               /\ GivenUp(p, t).type = t
               /\ GivenUp(p, t).ver = p.ver[t]
               /\ GivenUp(p, t).docTo = "NONE"
    <2> DEFINE k == NewJob(p.id, p.action, t, p.ver[t])
               l == [k EXCEPT !.pc = "failing"]
               m == [l EXCEPT !.retries = p.retries]
    <2>1. k \in Job /\ k.type = t /\ k.ver = p.ver[t] /\ k.docTo = "NONE"
      BY <1>1, NewJobType DEF Parse, Actions, NewJob
    <2>2. GivenUp(p, t) = m
      BY DEF GivenUp
    <2> HIDE DEF k
    <2>3. l \in Job /\ l.type = k.type /\ l.ver = k.ver /\ l.docTo = k.docTo
      BY <2>1 DEF Job, JobPc
    <2> HIDE DEF l
    <2>4. m.type = l.type /\ m.ver = l.ver /\ m.docTo = l.docTo
      BY <2>3 DEF Job
    <2>5. QED
      BY <2>1, <2>2, <2>3, <2>4 DEF k
  <1>3. \A q \in parses' :
          \E o \in parses : q.types = o.types /\ q.ver = o.ver
    <2> DEFINE q == [p EXCEPT !.retries = @ + 1]
    <2>1. q.types = p.types /\ q.ver = p.ver
      BY <1>1 DEF Parse
    <2>2. parses' \subseteq parses \cup {q}
      BY DEF ParseStep, ParseSucceeds, ParseFails
    <2> HIDE DEF q
    <2>3. QED
      BY <2>1, <2>2
  <1>4. \A j \in jobs' :
          \/ j \in jobs
          \/ j.docTo = "NONE" /\ j.type \in p.types /\ j.ver = p.ver[j.type]
    BY <1>2 DEF ParseStep, ParseSucceeds, ParseFails
  <1>5. SeenIsCurrent' /\ CondemnedIsDeleted' /\ WaitingIsClaimable'
        /\ DeletedIsCondemned'
    BY <1>1 DEF SeenIsCurrent, CondemnedIsDeleted, WaitingIsClaimable,
       DeletedIsCondemned, Exists, Idle
  <1>6. DocWritersAgree'
    BY <1>1, <1>4 DEF DocWritersAgree, Idle
  <1>7. WorkHasRow'
    BY <1>1, <1>3, <1>4 DEF WorkHasRow, Exists
  <1>8. WorkIsOfThePast'
    BY <1>1, <1>3, <1>4 DEF WorkIsOfThePast, Exists
  <1>9. QED
    BY <1>5, <1>6, <1>7, <1>8

\* The row a callback commits, in the terms of the lifecycle.
LEMMA CallbackRow ==
  ASSUME LockInv, NEW j \in jobs, CallbackCommit(j)
  PROVE  /\ j.type \in Types /\ row[j.type] \in Row
         /\ \A t \in Types \ {j.type} : row'[t] = row[t]
         /\ \/ /\ row[j.type].status = "CREATING"
               /\ row'[j.type].status = "ACTIVE"
               /\ row'[j.type].version = row[j.type].version
               /\ row'[j.type].observed = row[j.type].version
            \/ /\ row[j.type].status = "DELETION_IN_PROGRESS"
               /\ row'[j.type] = NoRow
            \/ /\ row[j.type].status \in {"CREATING", "DELETION_IN_PROGRESS"}
               /\ row'[j.type].status = "FAILED"
               /\ row'[j.type].version = row[j.type].version
               /\ row'[j.type].observed = row[j.type].observed
  <1> DEFINE cur == row[j.type]
             new == Settled(j, cur)
  <1>1. /\ j \in Job /\ j.type \in Types /\ j.pc \in OpenPc
        /\ row' = [row EXCEPT ![j.type] = new]
    BY DEF CallbackCommit, LockInv, TypeOK, Job
  <1>2. /\ cur \in Row
        /\ cur.status \in {"CREATING", "DELETION_IN_PROGRESS"}
        /\ j.pc = "activating" => cur.status = "CREATING" /\ cur.version = j.ver
        /\ j.pc = "removing" => cur.status = "DELETION_IN_PROGRESS"
    BY <1>1 DEF HeldRowsKeep, OpenPc, LockInv, TypeOK, NoRow
  <1>3. row'[j.type] = new /\ \A t \in Types \ {j.type} : row'[t] = row[t]
    BY <1>1 DEF LockInv, TypeOK
  <1> HIDE DEF new
  <1>4. QED
    BY <1>1, <1>2, <1>3, SettledRow DEF OpenPc, new

LEMMA JobInv ==
  ASSUME IndInv, LockInv', NEW j \in jobs, JobStep(j) \/ Lose(j) \/ Redeliver(j)
  PROVE  IndInv'
  <1> USE DEF IndInv
  <1>0. j \in Job /\ j.type \in Types
    BY DEF LockInv, TypeOK, Job
  <1>1. UNCHANGED <<svc, gc, rec, parses>>
    BY DEF JobStep, Lose, Redeliver, Validate, CreateIndex, ReadOldIndex,
       ReplaceIndex, DeleteIndex, AttemptFails, OnIndexCreated, OnIndexDeleted,
       OnIndexFailed, Callback, CallbackCommit
  <1>2. ASSUME UNCHANGED <<doc, row>>,
               \A k \in jobs' : k \in jobs \/
                 /\ k.type = j.type /\ k.ver = j.ver
                 /\ \/ k.pc \notin OpenPc /\ k.docTo \in {j.docTo, "NONE"}
                    \/ \E s : k.docTo = DocWrite(j.type, s)
        PROVE  IndInv'
    <2>1. SeenIsCurrent' /\ CondemnedIsDeleted' /\ WaitingIsClaimable'
          /\ DeletedIsCondemned'
      BY <1>1, <1>2 DEF SeenIsCurrent, CondemnedIsDeleted, WaitingIsClaimable,
         DeletedIsCondemned, Exists, Idle
    <2>2. WorkHasRow' /\ WorkIsOfThePast'
      BY <1>1, <1>2 DEF WorkHasRow, WorkIsOfThePast, Exists
    <2>3. \A s : DocWrite(j.type, s) # "NONE" => doc # "DELETED"
      BY DEF DocWrite
    <2>4. DocWritersAgree'
      BY <1>0, <1>1, <1>2, <2>3, DocWriteType DEF DocWritersAgree, Idle
    <2>5. QED
      BY <2>1, <2>2, <2>4
  <1>3. ASSUME NEW pc \in {"valid", "stored", "replacing", "removed"},
               NEW D \in SUBSET Batches, Replace(j, Moved(j, pc, D)),
               UNCHANGED <<doc, row>>
        PROVE  IndInv'
    <2> DEFINE k == Moved(j, pc, D)
    <2>1. k.pc = pc /\ k.type = j.type /\ k.ver = j.ver /\ k.docTo = j.docTo
      BY <1>0, MovedJob DEF JobPc
    <2>2. jobs' = (jobs \ {j}) \cup {k}
      BY <1>3 DEF Replace
    <2> HIDE DEF k
    <2>3. QED
      BY <1>2, <1>3, <2>1, <2>2 DEF OpenPc
  <1>4. CASE Validate(j)
    <2>1. CASE Relevant(j)
      BY <1>3, <1>4, <2>1 DEF Validate
    <2>2. CASE ~Relevant(j)
      BY <1>2, <1>4, <2>2 DEF Validate
    <2>3. QED
      BY <2>1, <2>2
  <1>5. CASE CreateIndex(j)
    BY <1>3, <1>5, NewBatchType DEF CreateIndex
  <1>6. CASE ReadOldIndex(j)
    <2>1. row[j.type].data \in SUBSET Batches
      BY <1>0 DEF Row, NoRow, LockInv, TypeOK
    <2>2. QED
      BY <1>3, <1>6, <2>1 DEF ReadOldIndex
  <1>7. CASE ReplaceIndex(j)
    BY <1>3, <1>7, NewBatchType DEF ReplaceIndex
  <1>8. CASE DeleteIndex(j)
    BY <1>3, <1>8 DEF DeleteIndex
  <1>9. CASE AttemptFails(j)
    <2> DEFINE k == Failed(j)
    <2>1. k.pc \notin OpenPc /\ k.type = j.type /\ k.ver = j.ver /\ k.docTo = j.docTo
      BY <1>0, FailedJob DEF OpenPc
    <2>2. jobs' = (jobs \ {j}) \cup {k} /\ UNCHANGED <<doc, row>>
      BY <1>9 DEF AttemptFails, Replace
    <2> HIDE DEF k
    <2>3. QED
      BY <1>2, <2>1, <2>2
  <1>10. ASSUME NEW matches, NEW open \in OpenPc, NEW s, Callback(j, matches, open, s)
         PROVE  IndInv'
    <2> DEFINE k == Opened(j, open, s)
    <2>1. k.type = j.type /\ k.ver = j.ver /\ k.docTo = DocWrite(j.type, s)
      BY <1>0, OpenedJob
    <2>2. jobs' \subseteq jobs \cup {k} /\ UNCHANGED <<doc, row>>
      BY <1>10 DEF Callback, Replace
    <2> HIDE DEF k
    <2>3. QED
      BY <1>2, <2>1, <2>2
  <1>11. CASE OnIndexCreated(j) \/ OnIndexDeleted(j) \/ OnIndexFailed(j)
    <2>1. CASE OnIndexCreated(j)
      BY <1>10, <2>1, Zenon DEF OnIndexCreated, OpenPc
    <2>2. CASE OnIndexDeleted(j)
      BY <1>10, <2>2, Zenon DEF OnIndexDeleted, OpenPc
    <2>3. CASE OnIndexFailed(j)
      BY <1>10, <2>3, Zenon DEF OnIndexFailed, OpenPc
    <2>4. QED
      BY <1>11, <2>1, <2>2, <2>3
  <1>12. CASE CallbackCommit(j)
    <2> DEFINE cur == row[j.type]
               new == row'[j.type]
    <2>1. /\ j.pc \in OpenPc /\ jobs' = jobs \ {j}
          /\ doc' = IF j.docTo = "NONE" THEN doc ELSE j.docTo
      BY <1>12 DEF CallbackCommit
    <2>2. /\ cur \in Row
          /\ \A t \in Types \ {j.type} : row'[t] = row[t]
      BY <1>12, CallbackRow
    <2>3. /\ new.version \in {cur.version, 0}
          /\ new.status \in {"ACTIVE", "NONE", "FAILED"}
          /\ new.status # "NONE" => /\ new.version = cur.version
                                    /\ new.observed \in {cur.observed, cur.version}
          /\ new.status = "NONE" => cur.status = "DELETION_IN_PROGRESS"
          /\ new.status = "ACTIVE" => cur.status = "CREATING"
          /\ cur.status # "NONE"
      BY <1>12, CallbackRow DEF NoRow
    <2>4. cur.status # "NONE" /\ Exists(j.type) /\ cur.version \in Nat
      BY <2>2, <2>3 DEF Exists, Row
    <2>5. (doc = "DELETED") = (doc' = "DELETED")
      BY <2>1 DEF DocWritersAgree
    <2>6. \A t \in Types \ {j.type} : row'[t] = row[t]
      BY <2>2
    <2> HIDE DEF new
    <2>7. SeenIsCurrent'
      BY <1>1, <2>3, <2>4, <2>6 DEF new, SeenIsCurrent, Exists, Idle
    <2>8. CondemnedIsDeleted'
      BY <2>3, <2>5, <2>6 DEF new, CondemnedIsDeleted
    <2>9. WorkHasRow'
      <3>1. new.status = "NONE" => doc = "DELETED"
        BY <1>0, <2>3 DEF CondemnedIsDeleted
      <3>2. QED
        BY <1>1, <2>1, <2>5, <2>6, <3>1 DEF new, WorkHasRow, Exists
    <2>10. WorkIsOfThePast'
      BY <1>0, <1>1, <2>1, <2>3, <2>4, <2>6 DEF new, WorkIsOfThePast, Exists
    <2>11. DocWritersAgree'
      BY <1>1, <2>1, <2>5 DEF DocWritersAgree, Idle
    <2>12. WaitingIsClaimable'
      BY <2>3, <2>6 DEF new, WaitingIsClaimable
    <2>13. DeletedIsCondemned'
      BY <1>0, <2>3, <2>5, <2>6 DEF new, DeletedIsCondemned
    <2>14. QED
      BY <2>7, <2>8, <2>9, <2>10, <2>11, <2>12, <2>13
  <1>13. CASE Lose(j)
    BY <1>2, <1>13 DEF Lose
  <1>14. CASE Redeliver(j)
    <2> DEFINE k == NewJob(NewId, j.action, j.type, j.ver)
               l == [k EXCEPT !.retries = j.retries]
    <2>1. /\ k \in Job /\ k.pc = "start" /\ k.type = j.type /\ k.ver = j.ver
          /\ k.docTo = "NONE"
      BY <1>0, <1>14, NewIdType, NewJobType DEF Redeliver, Job, NewJob
    <2>2. jobs' = jobs \cup {l} /\ UNCHANGED <<doc, row>>
      BY <1>14 DEF Redeliver
    <2> HIDE DEF k
    <2>3. l.pc = k.pc /\ l.type = k.type /\ l.ver = k.ver /\ l.docTo = k.docTo
      BY <2>1 DEF Job
    <2> HIDE DEF l
    <2>4. QED
      BY <1>2, <2>1, <2>2, <2>3 DEF OpenPc
  <1>15. QED
    BY <1>4, <1>5, <1>6, <1>7, <1>8, <1>9, <1>11, <1>12, <1>13, <1>14 DEF JobStep

LEMMA NextIndInv ==
  ASSUME SingleClient, NoExpiry, IndInv, [Next]_vars
  PROVE  IndInv'
  <1>1. LockInv'
    BY NextLocks DEF IndInv
  <1>2. CASE UNCHANGED vars
    BY <1>1, <1>2 DEF vars, IndInv, SeenIsCurrent, WorkHasRow, WorkIsOfThePast,
       DocWritersAgree, CondemnedIsDeleted, WaitingIsClaimable,
       DeletedIsCondemned, Exists, Idle
  <1>3. CASE \E c \in Clients : ClientStep(c)
    BY <1>1, <1>3, ClientInv
  <1>4. CASE CleanupScan \/ CleanupCommit
    BY <1>4, CleanupInv
  <1>5. CASE \E r \in Reconcilers : ReconcilerStep(r)
    BY <1>1, <1>5, ReconcilerInv
  <1>6. CASE \E p \in parses : ParseStep(p)
    BY <1>1, <1>6, ParseInv
  <1>7. CASE \E j \in jobs : JobStep(j) \/ Lose(j) \/ Redeliver(j)
    BY <1>1, <1>7, JobInv
  <1>8. CASE Quiescent /\ UNCHANGED vars
    BY <1>2, <1>8
  <1>9. QED
    BY <1>2, <1>3, <1>4, <1>5, <1>6, <1>7, <1>8 DEF Next

\* Requests that read a version nobody else changes, claims under a row lock,
\* and messages of the past: together they keep every index of a document in a
\* state the reconciler knows how to continue.
THEOREM Invariance ==
  ASSUME SingleClient, NoExpiry
  PROVE  Spec => []IndInv
  <1>1. IndInv /\ [Next]_vars => IndInv'
    BY NextIndInv
  <1>2. QED
    BY <1>1, InitIndInv, PTL DEF Spec

\* No late claim, job or callback revives an index of a deleted document.
THEOREM DeletedStaysCondemned ==
  ASSUME SingleClient, NoExpiry
  PROVE  Spec => []DeletedIsCondemned
  <1>1. IndInv => DeletedIsCondemned
    BY DEF IndInv
  <1>2. QED
    BY <1>1, Invariance, PTL

\* No callback records a version that was not requested.
THEOREM JobsAreAlwaysOfThePast ==
  ASSUME SingleClient, NoExpiry
  PROVE  Spec => []JobsAreOfThePast
  <1>1. IndInv => JobsAreOfThePast
    <2> HAVE IndInv
    <2>1. \A t \in Types : ~Exists(t) => row[t].observed <= row[t].version
      BY DEF IndInv, LockInv, TypeOK, Exists, NoRow, Row, IndexStatus
    <2>2. QED
      BY <2>1 DEF IndInv, WorkIsOfThePast, JobsAreOfThePast, LockInv, TypeOK, Job
  <1>2. QED
    BY <1>1, Invariance, PTL

\* Which steps write rows.
LEMMA RowsWritten ==
  ASSUME [Next]_vars
  PROVE  \/ UNCHANGED row
         \/ \E c \in Clients : CreateDocument(c) \/ Commit(c)
         \/ \E r \in Reconcilers : ClaimCommit(r)
         \/ \E j \in jobs : CallbackCommit(j)
  <1>1. CASE UNCHANGED vars
    BY <1>1 DEF vars
  <1>2. CASE \E c \in Clients : ClientStep(c)
    BY <1>2 DEF ClientStep, UploadDocument, BeginConfirm, BeginRebuild,
                BeginRebuildFailed, BeginDelete, Begin, Rollback
  <1>3. CASE CleanupScan \/ CleanupCommit
    BY <1>3 DEF CleanupScan, CleanupCommit
  <1>4. CASE \E r \in Reconcilers : ReconcilerStep(r)
    BY <1>4 DEF ReconcilerStep, Scan, Claim, Dispatch, Abort
  <1>5. CASE \E p \in parses : ParseStep(p)
    BY <1>5 DEF ParseStep, ParseSucceeds, ParseFails
  <1>6. CASE \E j \in jobs : JobStep(j) \/ Lose(j) \/ Redeliver(j)
    BY <1>6 DEF JobStep, Lose, Redeliver, Validate, CreateIndex, ReadOldIndex,
       ReplaceIndex, DeleteIndex, AttemptFails, OnIndexCreated, OnIndexDeleted,
       OnIndexFailed, Callback
  <1>7. QED
    BY <1>1, <1>2, <1>3, <1>4, <1>5, <1>6 DEF Next, vars

-----------------------------------------------------------------------------
(* Versions, however many requests overlap                                 *)

\* What a commit does to the versions when it overwrites no newer one, however
\* old its reads are.
LEMMA CommittedVersion ==
  ASSUME LockInv, NEW c \in Clients, Commit(c), ~WritesOldVersion(c),
         NEW t \in Types
  PROVE  \/ row'[t] = row[t]
         \/ ~Exists(t) /\ row'[t] = NewRow
         \/ /\ row'[t].version > row[t].version
            /\ row'[t].observed = row[t].observed
         \/ /\ row'[t].version = row[t].version
            /\ row'[t].observed = row[t].observed
            /\ row'[t].status \in {row[t].status, "DELETING"}
  <1> DEFINE q == svc[c]
  <1>1. /\ q \in Request /\ row'[t] = Requested(q, t)
        /\ (t \in Written(q) => ((q.seen[t] = NoRow) = (row[t] = NoRow)))
    BY DEF LockInv, TypeOK, Commit, Idle, FlushFails, Written
  <1>2. row[t] \in Row \cup {NoRow} /\ q.seen[t] \in Row \cup {NoRow}
    BY <1>1 DEF LockInv, TypeOK, Request
  <1>3. Exists(t) <=> row[t] # NoRow
    BY <1>2 DEF Exists, NoRow, Row, IndexStatus
  <1>4. CASE t \notin Written(q)
    BY <1>1, <1>4 DEF Requested
  <1>5. CASE t \in Written(q) /\ ~Exists(t)
    BY <1>1, <1>3, <1>5 DEF Requested, Upserted, Written
  <1>6. CASE t \in Written(q) /\ Exists(t)
    <2>1. row[t] \in Row /\ q.seen[t] \in Row
      BY <1>1, <1>2, <1>3, <1>6
    <2>2. CASE q.op = "delete"
      BY <1>1, <1>6, <2>1, <2>2, RewrittenRow DEF Requested
    <2>3. CASE q.op # "delete"
      <3>1. row'[t] = Upserted(q.seen[t], row[t])
        BY <1>1, <1>6, <2>3 DEF Requested
      <3>2. ~(q.seen[t].version < row[t].version)
        BY <1>1, <1>3, <1>6, <2>3 DEF WritesOldVersion
      <3>3. row[t].version \in Nat /\ q.seen[t].version \in Nat
        BY <2>1 DEF Row
      <3>4. QED
        BY <2>1, <3>1, <3>2, <3>3, RewrittenRow
    <2>4. QED
      BY <2>2, <2>3
  <1>7. QED
    BY <1>4, <1>5, <1>6

\* A step that overwrites no newer version takes no row back, and leaves none
\* PENDING with nothing to observe.
LEMMA VersionStep ==
  ASSUME LockInv, [Next]_vars, ObservedIsPast, WaitingIsClaimable,
         ~\E c \in Clients : Commit(c) /\ WritesOldVersion(c)
  PROVE  ObservedIsPast' /\ WaitingIsClaimable' /\ VersionsGrow
  <1>1. \A t \in Types : /\ row[t] \in Row \cup {NoRow}
                         /\ row[t].version \in Nat /\ row[t].observed \in Nat
                         /\ row[t].observed <= row[t].version
    BY DEF LockInv, TypeOK, Row, NoRow, ObservedIsPast
  <1> USE DEF ObservedIsPast, WaitingIsClaimable, VersionsGrow
  <1>2. CASE UNCHANGED row
    BY <1>1, <1>2
  <1>3. ASSUME NEW c \in Clients, CreateDocument(c)
        PROVE  ObservedIsPast' /\ WaitingIsClaimable' /\ VersionsGrow
    BY <1>3 DEF CreateDocument, NewRow, NoRow, LockInv, NoDocumentNoRow
  <1>4. ASSUME NEW c \in Clients, Commit(c)
        PROVE  ObservedIsPast' /\ WaitingIsClaimable' /\ VersionsGrow
    <2>1. ~WritesOldVersion(c)
      BY <1>4
    <2>2. \A t \in Types : row'[t].version \in Nat
      <3>1. TypeOK'
        BY NextType DEF LockInv
      <3>2. QED
        BY <3>1 DEF TypeOK, Row, NoRow
    <2>3. QED
      BY <1>1, <1>4, <2>1, <2>2, CommittedVersion DEF NewRow, Exists
  <1>5. ASSUME NEW r \in Reconcilers, ClaimCommit(r)
        PROVE  ObservedIsPast' /\ WaitingIsClaimable' /\ VersionsGrow
    <2>1. \A t \in Types :
            /\ row'[t].version = row[t].version
            /\ row'[t].observed = row[t].observed
            /\ row'[t].status \in {row[t].status, "CREATING", "DELETION_IN_PROGRESS"}
      BY <1>5, ClaimedRow
    <2>2. QED
      BY <1>1, <2>1
  <1>6. ASSUME NEW j \in jobs, CallbackCommit(j)
        PROVE  ObservedIsPast' /\ WaitingIsClaimable' /\ VersionsGrow
    <2>1. /\ j.type \in Types
          /\ \A t \in Types \ {j.type} : row'[t] = row[t]
          /\ row'[j.type].status \in {"ACTIVE", "NONE", "FAILED"}
          /\ \/ row'[j.type] = NoRow
             \/ /\ row'[j.type].version = row[j.type].version
                /\ row'[j.type].observed \in
                     {row[j.type].observed, row[j.type].version}
      BY <1>6, CallbackRow DEF NoRow
    <2>2. QED
      BY <1>1, <2>1 DEF Exists, NoRow
  <1>7. QED
    BY <1>2, <1>3, <1>4, <1>5, <1>6, RowsWritten

LEMMA InitHistory == HInit => HistoryInv
  <1>1. HInit => LockInv
    BY InitLocks DEF HInit
  <1>2. HInit => ObservedIsPast /\ WaitingIsClaimable
    BY DEF HInit, Init, NoRow, ObservedIsPast, WaitingIsClaimable
  <1>3. QED
    BY <1>1, <1>2 DEF HistoryInv

LEMMA NextHistory ==
  ASSUME HistoryInv, [HNext]_hvars
  PROVE  HistoryInv' /\ (~lost' => VersionsGrow)
  <1>1. LockInv /\ [Next]_vars
    BY DEF HistoryInv, HNext, hvars, vars
  <1>2. LockInv'
    BY <1>1, NextLocks
  <1>3. CASE lost'
    BY <1>2, <1>3 DEF HistoryInv
  <1>4. CASE ~lost'
    <2>1. CASE HNext
      <3>1. ~lost /\ ~\E c \in Clients : Commit(c) /\ WritesOldVersion(c)
        BY <1>4, <2>1 DEF HNext
      <3>2. QED
        BY <1>1, <1>2, <3>1, VersionStep DEF HistoryInv
    <2>2. CASE UNCHANGED hvars
      <3>1. row' = row /\ ~lost /\ ObservedIsPast /\ WaitingIsClaimable
        BY <1>4, <2>2 DEF hvars, vars, HistoryInv
      <3>2. \A t \in Types : row[t].version \in Nat /\ row[t].observed \in Nat
        BY <1>1 DEF LockInv, TypeOK, Row, NoRow
      <3>3. QED
        BY <1>2, <3>1, <3>2 DEF HistoryInv, ObservedIsPast, WaitingIsClaimable,
                                VersionsGrow
    <2>3. QED
      BY <2>1, <2>2
  <1>5. QED
    BY <1>3, <1>4

\* Whatever number of requests, reconcilers, jobs and callbacks overlap, and
\* whatever is lost or repeated: unless a request has overwritten the version of
\* another (manager.py:59-62), a row that waits is one the reconciler will take
\* up (reconciler.py:91-105).
THEOREM WaitingRowsAreClaimable == HSpec => []PendingIsClaimable
  <1>1. HistoryInv => PendingIsClaimable
    BY DEF HistoryInv, PendingIsClaimable
  <1>2. QED
    BY <1>1, InitHistory, NextHistory, PTL DEF HSpec

\* Under the same condition alone, no overlap of reads and commits takes a row
\* back to an earlier version.
THEOREM VersionsAlwaysGrow == HSpec => VersionsOnlyGrow
  <1>1. HistoryInv /\ [HNext]_hvars => [~lost' => VersionsGrow]_hvars
    BY NextHistory
  <1>2. HistoryInv /\ [HNext]_hvars => HistoryInv'
    BY NextHistory
  <1>3. QED
    BY <1>1, <1>2, InitHistory, PTL DEF HSpec, VersionsOnlyGrow

\* No request and no claim makes the database forget, or invent, the vectors of
\* an index, however many overlap: a row is written over by a request that read
\* it, and a callback that records vectors makes it ACTIVE
\* (manager.py:46-76, reconciler.py:189-205, 366-402).
THEOREM IndexDataIsKept == Spec => OnlyJobsWriteIndexData
  <1>1. LockInv /\ [Next]_vars => [DataIsKept]_vars
    <2> SUFFICES ASSUME LockInv, [Next]_vars
                 PROVE  DataIsKept
      OBVIOUS
    <2>1. row \in [Types -> Row \cup {NoRow}]
      BY DEF LockInv, TypeOK
    <2>2. NewRow.data = {} /\ NoRow.data = {}
      BY DEF NewRow, NoRow
    <2>3. CASE UNCHANGED row
      BY <2>3 DEF DataIsKept
    <2>4. ASSUME NEW c \in Clients, CreateDocument(c)
          PROVE  DataIsKept
      <3>1. \A t \in Types : row[t].data = {}
        BY <2>1, <2>2, <2>4
           DEF CreateDocument, LockInv, NoDocumentNoRow, Exists, Row, IndexStatus
      <3>2. \A t \in Types : row'[t].data = {}
        BY <2>2, <2>4 DEF CreateDocument
      <3>3. QED
        BY <3>1, <3>2 DEF DataIsKept
    <2>5. ASSUME NEW c \in Clients, Commit(c), NEW t \in Types
          PROVE  row'[t].data = row[t].data
      <3> DEFINE q == svc[c]
      <3>1. /\ row'[t] = Requested(q, t) /\ q.seen[t] \in Row \cup {NoRow}
            /\ t \in Written(q) => ((q.seen[t] = NoRow) <=> (row[t] = NoRow))
        BY <2>5 DEF Commit, FlushFails, Idle, LockInv, TypeOK, Request
      <3>2. CASE t \notin Written(q)
        BY <3>1, <3>2 DEF Requested
      <3>3. CASE t \in Written(q) /\ q.seen[t] = NoRow
        BY <2>2, <3>1, <3>3 DEF Requested, Upserted, Written
      <3>4. CASE t \in Written(q) /\ q.seen[t] # NoRow
        BY <2>1, <3>1, <3>4, RewrittenRow DEF Requested
      <3>5. QED
        BY <3>2, <3>3, <3>4
    <2>6. ASSUME NEW r \in Reconcilers, ClaimCommit(r), NEW t \in Types
          PROVE  row'[t].data = row[t].data
      <3>1. CASE t \in Found(r)
        <4>1. row[t] \in Row
          BY <2>6, <3>1, ClaimedRow
        <4>2. PICK s \in IndexStatus : row'[t] = [row[t] EXCEPT !.status = s]
          BY <2>6, <3>1 DEF ClaimCommit, IndexStatus
        <4>3. QED
          BY <4>1, <4>2, MarkedRow
      <3>2. CASE t \notin Found(r)
        BY <2>6, <3>2 DEF ClaimCommit
      <3>3. QED
        BY <3>1, <3>2
    <2>7. ASSUME NEW j \in jobs, CallbackCommit(j)
          PROVE  DataIsKept
      <3>1. /\ j \in Job /\ j.type \in Types /\ j.pc \in OpenPc /\ row[j.type] \in Row
            /\ \A t \in Types \ {j.type} : row'[t] = row[t]
            /\ row'[j.type] = Settled(j, row[j.type])
        BY <2>1, <2>7, CallbackRow DEF CallbackCommit, LockInv, TypeOK
      <3>2. \/ row'[j.type].status \in {"ACTIVE", "NONE"}
            \/ row'[j.type].data = row[j.type].data
        BY <3>1, SettledRow DEF OpenPc, NoRow
      <3>3. QED
        BY <3>1, <3>2 DEF DataIsKept
    <2>8. QED
      BY <2>3, <2>4, <2>5, <2>6, <2>7, RowsWritten DEF DataIsKept
  <1>2. QED
    BY <1>1, InitLocks, NextLocks, PTL DEF Spec, OnlyJobsWriteIndexData

LEMMA DocumentWritten ==
  ASSUME NoExpiry, IndInv, [Next]_vars
  PROVE  \/ (doc = "DELETED") = (doc' = "DELETED")
         \/ \E c \in Clients : Commit(c) /\ svc[c].op = "delete"
  <1>1. CASE UNCHANGED vars
    BY <1>1 DEF vars
  <1>2. CASE \E c \in Clients : ClientStep(c)
    BY <1>2 DEF ClientStep, CreateDocument, UploadDocument, BeginConfirm,
       BeginRebuild, BeginRebuildFailed, BeginDelete, Begin, Commit, Rollback,
       IndInv, DocWritersAgree
  <1>3. CASE CleanupScan \/ CleanupCommit
    BY <1>3, CleanupInv
  <1>4. CASE \E r \in Reconcilers : ReconcilerStep(r)
    BY <1>4 DEF ReconcilerStep, Scan, Claim, Dispatch, ClaimCommit, Abort
  <1>5. CASE \E p \in parses : ParseStep(p)
    BY <1>5 DEF ParseStep, ParseSucceeds, ParseFails
  <1>6. CASE \E j \in jobs : JobStep(j) \/ Lose(j) \/ Redeliver(j)
    BY <1>6 DEF JobStep, Lose, Redeliver, Validate, CreateIndex, ReadOldIndex,
       ReplaceIndex, DeleteIndex, AttemptFails, OnIndexCreated, OnIndexDeleted,
       OnIndexFailed, Callback, CallbackCommit, IndInv, DocWritersAgree
  <1>7. QED
    BY <1>1, <1>2, <1>3, <1>4, <1>5, <1>6 DEF Next, vars

\* A late callback cannot overwrite the status of a document that was deleted
\* while it ran (reconciler.py:284-331, 361-364).
THEOREM DeletedIsAlwaysFinal ==
  ASSUME SingleClient, NoExpiry
  PROVE  Spec => DeletedIsFinal
  <1>1. IndInv /\ [Next]_vars => [DeletedRemains]_vars
    BY DocumentWritten DEF DeletedRemains, Commit
  <1>2. QED
    BY <1>1, Invariance, PTL DEF Spec, DeletedIsFinal

-----------------------------------------------------------------------------
(* The lifecycle                                                           *)

LEMMA PublicRow ==
  ASSUME NEW r
  PROVE  /\ Public(r).status = r.status /\ Public(r).version = r.version
         /\ Public(r).observed = r.observed
  BY DEF Public

LEMMA InitLifecycle == Init => Lifecycle!Init
  BY DEF Init, Lifecycle!Init, Lifecycle!Absent, Public, NoRow

\* A step that leaves the public part of the rows and the deletion alone.
LEMMA LifecycleStutter ==
  ASSUME UNCHANGED row, (doc = "DELETED") = (doc' = "DELETED")
  PROVE  UNCHANGED Lifecycle!vars
  BY DEF Lifecycle!vars

LEMMA CreateLifecycle ==
  ASSUME IndInv, LockInv', NEW c \in Clients, CreateDocument(c)
  PROVE  [Lifecycle!Next]_Lifecycle!vars
  <1> DEFINE index == [t \in Types |-> Public(row[t])]
  <1>1. PICK T \in (SUBSET Types) \ {{}} :
          row' = [t \in Types |-> IF t \in T THEN NewRow ELSE NoRow]
    BY DEF CreateDocument
  <1>2. \A t \in Types : row[t] = NoRow
    BY DEF CreateDocument, IndInv, LockInv, NoDocumentNoRow, Exists, TypeOK,
           Row, NoRow, IndexStatus
  <1>3. doc = "NONE" /\ doc' = "PENDING"
    BY DEF CreateDocument
  <1>4. Public(NoRow) = Lifecycle!Absent /\ Public(NewRow) = Lifecycle!Fresh
    BY DEF Public, NoRow, NewRow, Lifecycle!Absent, Lifecycle!Fresh
  <1>5. [t \in Types |-> Public(row[t])]' =
          [t \in Types |-> IF t \in T THEN Lifecycle!Requested(index[t], t \in {})
                           ELSE index[t]]
    BY <1>1, <1>2, <1>4 DEF Lifecycle!Requested
  <1>6. Lifecycle!Request(T)
    BY <1>3, <1>5 DEF Lifecycle!Request
  <1>7. QED
    BY <1>6 DEF Lifecycle!Next

LEMMA AbsentRow ==
  ASSUME LockInv, NEW t \in Types
  PROVE  Exists(t) <=> Public(row[t]) # Lifecycle!Absent
  <1>1. row[t] \in Row \cup {NoRow}
    BY DEF LockInv, TypeOK
  <1>2. QED
    BY <1>1 DEF Exists, Public, Lifecycle!Absent, Row, NoRow, IndexStatus

LEMMA DeleteLifecycle ==
  ASSUME IndInv, NEW c \in Clients, Commit(c), svc[c].op = "delete"
  PROVE  [Lifecycle!Next]_Lifecycle!vars
  <1> DEFINE index == [t \in Types |-> Public(row[t])]
             new(t) == IF index[t] = Lifecycle!Absent THEN Lifecycle!Absent
                       ELSE [index[t] EXCEPT !.status = "DELETING"]
  <1>1. doc # "DELETED" /\ doc' = "DELETED"
    BY DEF Commit, IndInv, DocWritersAgree
  <1>2. ASSUME NEW t \in Types
        PROVE  Public(row'[t]) = new(t)
    <2>1. CASE ~Exists(t)
      <3>1. row'[t] = row[t]
        BY <2>1, CommittedRow
      <3>2. Public(row[t]) = Lifecycle!Absent
        BY <2>1, AbsentRow DEF IndInv
      <3>3. QED
        BY <3>1, <3>2
    <2>2. CASE Exists(t)
      <3>1. /\ row'[t].version = row[t].version /\ row'[t].observed = row[t].observed
            /\ row'[t].status = "DELETING"
        BY <2>2, CommittedRow
      <3>2. Public(row[t]) # Lifecycle!Absent
        BY <2>2, AbsentRow DEF IndInv
      <3>3. QED
        BY <3>1, <3>2 DEF Public
    <2>3. QED
      BY <2>1, <2>2
  <1>3. [t \in Types |-> Public(row[t])]' = [t \in Types |-> new(t)]
    BY <1>2
  <1>4. Lifecycle!Delete
    BY <1>1, <1>3 DEF Lifecycle!Delete
  <1>5. QED
    BY <1>4 DEF Lifecycle!Next

LEMMA RequestLifecycle ==
  ASSUME IndInv, NEW c \in Clients, Commit(c), svc[c].op # "delete"
  PROVE  [Lifecycle!Next]_Lifecycle!vars
  <1> DEFINE index == [t \in Types |-> Public(row[t])]
             T == {t \in Types : row'[t] # row[t]}
             late == {t \in T : Exists(t) /\ row[t].status # "PENDING"
                                          /\ row'[t].status = row[t].status}
             new(t) == IF t \in T THEN Lifecycle!Requested(index[t], t \in late)
                       ELSE index[t]
  <1>1. doc # "DELETED" /\ doc' # "DELETED"
    BY DEF Commit, IndInv, DocWritersAgree
  <1>2. late \in SUBSET {t \in T : index[t].status \in {"CREATING", "ACTIVE", "FAILED"}}
    <2>1. ASSUME NEW t \in late
          PROVE  index[t].status \in {"CREATING", "ACTIVE", "FAILED"}
      <3>1. row[t].status \notin {"DELETING", "DELETION_IN_PROGRESS", "PENDING", "NONE"}
        BY <1>1 DEF IndInv, CondemnedIsDeleted, Exists
      <3>2. row[t] \in Row
        BY <3>1 DEF IndInv, LockInv, TypeOK, NoRow
      <3>3. row[t].status \in {"CREATING", "ACTIVE", "FAILED"}
        BY <3>1, <3>2 DEF Row, IndexStatus
      <3>4. QED
        BY <3>3, PublicRow
    <2>2. QED
      BY <2>1
  <1>3. ASSUME NEW t \in Types
        PROVE  Public(row'[t]) = new(t)
    <2>1. CASE row'[t] = row[t]
      BY <2>1
    <2>2. CASE row'[t] # row[t] /\ ~Exists(t)
      <3>1. row'[t] = NewRow
        BY <2>2, CommittedRow
      <3>2. Public(row[t]) = Lifecycle!Absent
        BY <2>2, AbsentRow DEF IndInv
      <3>3. Public(NewRow) = Lifecycle!Fresh
        BY DEF Public, NewRow, Lifecycle!Fresh
      <3>4. QED
        BY <2>2, <3>1, <3>2, <3>3 DEF Lifecycle!Requested
    <2>3. CASE row'[t] # row[t] /\ Exists(t)
      <3>1. /\ row'[t].version = row[t].version + 1
            /\ row'[t].observed = row[t].observed
            /\ row'[t].status \in {row[t].status, "PENDING"}
        BY <2>3, CommittedRow
      <3>2. Public(row[t]) # Lifecycle!Absent
        BY <2>3, AbsentRow DEF IndInv
      <3>3. row'[t].status = IF t \in late THEN row[t].status ELSE "PENDING"
        BY <2>3, <3>1
      <3> DEFINE r == Public(row[t])
                 s == IF t \in late THEN row[t].status ELSE "PENDING"
      <3>4. r = [status |-> row[t].status, version |-> row[t].version,
                 observed |-> row[t].observed]
        BY DEF Public
      <3>5. Lifecycle!Requested(r, t \in late) =
              [status |-> s, version |-> row[t].version + 1,
               observed |-> row[t].observed]
        <4> HIDE DEF r, late
        <4>1. Lifecycle!Requested(r, t \in late) =
                [r EXCEPT !.version = r.version + 1,
                          !.status = IF t \in late THEN r.status ELSE "PENDING"]
          BY <3>2 DEF Lifecycle!Requested, r
        <4>2. QED
          BY <3>4, <4>1
      <3>6. Public(row'[t]) =
              [status |-> s, version |-> row[t].version + 1,
               observed |-> row[t].observed]
        BY <3>1, <3>3 DEF Public
      <3>7. QED
        BY <2>3, <3>5, <3>6
    <2>4. QED
      BY <2>1, <2>2, <2>3
  <1>4. [t \in Types |-> Public(row[t])]' = [t \in Types |-> new(t)]
    BY <1>3
  <1>5. CASE T = {}
    <2>1. UNCHANGED [t \in Types |-> Public(row[t])]
      BY <1>4, <1>5
    <2>2. QED
      BY <1>1, <2>1 DEF Lifecycle!vars
  <1>6. CASE T # {}
    <2>1. T \in (SUBSET Types) \ {{}}
      BY <1>6
    <2> HIDE DEF T, late
    <2>2. Lifecycle!Request(T)
      BY <1>1, <1>2, <1>4 DEF Lifecycle!Request
    <2>3. QED
      BY <2>1, <2>2 DEF Lifecycle!Next
  <1>7. QED
    BY <1>5, <1>6

LEMMA ClaimLifecycle ==
  ASSUME IndInv, NEW r \in Reconcilers, ClaimCommit(r)
  PROVE  [Lifecycle!Next]_Lifecycle!vars
  <1> DEFINE index == [t \in Types |-> Public(row[t])]
             T == Found(r)
             new(t) == IF t \in T
                       THEN [index[t] EXCEPT !.status = Lifecycle!Claimed(@)]
                       ELSE index[t]
  <1>1. doc' = doc
    BY DEF ClaimCommit
  <1>2. ASSUME NEW t \in T
        PROVE  index[t].status \in {"PENDING", "DELETING"}
    <2>1. t \in Types /\ row[t].status \in {"PENDING", "DELETING"}
      BY ClaimedRow DEF IndInv, Found
    <2>2. QED
      BY <2>1, PublicRow
  <1>3. ASSUME NEW t \in Types
        PROVE  Public(row'[t]) = new(t)
    <2>1. CASE t \notin T
      BY <2>1, ClaimedRow DEF IndInv
    <2>2. CASE t \in T
      <3>1. /\ row'[t].version = row[t].version
            /\ row'[t].observed = row[t].observed
            /\ row'[t].status = Lifecycle!Claimed(row[t].status)
        BY <2>2, ClaimedRow DEF IndInv, Lifecycle!Claimed
      <3>2. QED
        BY <2>2, <3>1 DEF Public
    <2>3. QED
      BY <2>1, <2>2
  <1>4. [t \in Types |-> Public(row[t])]' = [t \in Types |-> new(t)]
    BY <1>3
  <1>5. CASE T = {}
    <2>1. UNCHANGED [t \in Types |-> Public(row[t])]
      BY <1>4, <1>5
    <2>2. QED
      BY <1>1, <2>1 DEF Lifecycle!vars
  <1>6. CASE T # {}
    <2>1. T \in (SUBSET Types) \ {{}}
      BY <1>6 DEF Found
    <2> HIDE DEF T
    <2>2. Lifecycle!Claim(T)
      BY <1>1, <1>2, <1>4 DEF Lifecycle!Claim
    <2>3. QED
      BY <2>1, <2>2 DEF Lifecycle!Next
  <1>7. QED
    BY <1>5, <1>6

LEMMA CallbackLifecycle ==
  ASSUME IndInv, NEW j \in jobs, CallbackCommit(j),
         (doc = "DELETED") = (doc' = "DELETED")
  PROVE  [Lifecycle!Next]_Lifecycle!vars
  <1> DEFINE index == [t \in Types |-> Public(row[t])]
             k == j.type
  <1>1. k \in Types /\ \A t \in Types \ {k} : row'[t] = row[t]
    BY CallbackRow DEF IndInv
  <1>2. [t \in Types |-> Public(row[t])]' = [index EXCEPT ![k] = Public(row'[k])]
    BY <1>1
  <1>3. CASE /\ row[k].status = "CREATING"
             /\ row'[k].status = "ACTIVE"
             /\ row'[k].version = row[k].version
             /\ row'[k].observed = row[k].version
    <2>1. Public(row'[k]) = [status |-> "ACTIVE", version |-> row[k].version,
                             observed |-> row[k].version]
      BY <1>3 DEF Public
    <2>2. index[k].status \in {"CREATING"}
      BY <1>1, <1>3, PublicRow
    <2>3. index[k].version = row[k].version
      BY <1>1 DEF Public
    <2>4. Lifecycle!Complete(k)
      BY <1>2, <2>1, <2>2, <2>3 DEF Lifecycle!Complete, Lifecycle!Move
    <2>5. QED
      BY <1>1, <2>4 DEF Lifecycle!Next
  <1>4. CASE row[k].status = "DELETION_IN_PROGRESS" /\ row'[k] = NoRow
    <2>1. Public(row'[k]) = Lifecycle!Absent
      BY <1>4 DEF Public, NoRow, Lifecycle!Absent
    <2>2. index[k].status \in {"DELETION_IN_PROGRESS"}
      BY <1>1, <1>4, PublicRow
    <2>3. Lifecycle!Remove(k)
      BY <1>2, <2>1, <2>2 DEF Lifecycle!Remove, Lifecycle!Move
    <2>4. QED
      BY <1>1, <2>3 DEF Lifecycle!Next
  <1>5. CASE /\ row[k].status \in {"CREATING", "DELETION_IN_PROGRESS"}
             /\ row'[k].status = "FAILED"
             /\ row'[k].version = row[k].version
             /\ row'[k].observed = row[k].observed
    <2>1. Public(row'[k]) = [index[k] EXCEPT !.status = "FAILED"]
      BY <1>1, <1>5 DEF Public
    <2>2. index[k].status \in {"CREATING", "DELETION_IN_PROGRESS"}
      BY <1>1, <1>5, PublicRow
    <2>3. Lifecycle!Fail(k)
      BY <1>2, <2>1, <2>2 DEF Lifecycle!Fail, Lifecycle!Move
    <2>4. QED
      BY <1>1, <2>3 DEF Lifecycle!Next
  <1>6. QED
    BY <1>3, <1>4, <1>5, CallbackRow DEF IndInv

\* The pipeline implements the atomic lifecycle: every step of a request,
\* reconciler or job is one atomic transition of the rows, or none.
THEOREM Refinement ==
  ASSUME SingleClient, NoExpiry
  PROVE  Spec => ImplementsLifecycle
  <1>1. Init => Lifecycle!Init
    BY InitLifecycle
  <1>2. IndInv /\ IndInv' /\ [Next]_vars => [Lifecycle!Next]_Lifecycle!vars
    <2> SUFFICES ASSUME IndInv, IndInv', [Next]_vars
                 PROVE  [Lifecycle!Next]_Lifecycle!vars
      OBVIOUS
    <2>1. CASE \E c \in Clients : Commit(c) /\ svc[c].op = "delete"
      BY <2>1, DeleteLifecycle
    <2>2. CASE \E c \in Clients : Commit(c) /\ svc[c].op # "delete"
      BY <2>2, RequestLifecycle
    <2>3. CASE \E c \in Clients : CreateDocument(c)
      BY <2>3, CreateLifecycle DEF IndInv
    <2>4. CASE \E r \in Reconcilers : ClaimCommit(r)
      BY <2>4, ClaimLifecycle
    <2>5. CASE /\ \E j \in jobs : CallbackCommit(j)
               /\ (doc = "DELETED") = (doc' = "DELETED")
      BY <2>5, CallbackLifecycle
    <2>6. CASE UNCHANGED row /\ (doc = "DELETED") = (doc' = "DELETED")
      BY <2>6, LifecycleStutter
    <2>7. QED
      BY <2>1, <2>2, <2>3, <2>4, <2>5, <2>6, RowsWritten, DocumentWritten
  <1>3. QED
    BY <1>1, <1>2, Invariance, PTL DEF Spec, ImplementsLifecycle, Lifecycle!Spec

=============================================================================
