------------------------- MODULE DocumentIndexJobs -------------------------
(***************************************************************************)
(* Theorem about the claims of DocumentIndex: the current version of an    *)
(* index is worked on by one job.                                          *)
(***************************************************************************)
EXTENDS DocumentIndexProofs

ParseOf(p, t, a) == t \in p.types /\ p.action = a /\ Matters(t, a, p.ver[t])
JobOf(j, t, a) == j.type = t /\ j.action = a /\ Matters(t, a, j.ver)

\* Action a of type t was handed to Celery, and the message still matters.
Sent(t, a) ==
    \/ \E p \in parses : ParseOf(p, t, a)
    \/ \E j \in jobs : JobOf(j, t, a)

\* A claim that is still open has handed it to Celery.
Handed(t, a) ==
    \E r \in Reconcilers :
      rec[r].pc = "claimed" /\ rec[r].action[t] = a /\ a \notin rec[r].todo

\* What was sent can be claimed again only as long as the claim that sent it
\* holds the row.
SentIsHanded ==
    \A t \in Types : \A a \in Actions : Sent(t, a) /\ Claimable(t, a) => Handed(t, a)

\* What was sent is one message.
SentOnce ==
    \A t \in Types : \A a \in Actions :
      /\ \A p, q \in parses : ParseOf(p, t, a) /\ ParseOf(q, t, a) => p = q
      /\ \A j, k \in jobs : JobOf(j, t, a) /\ JobOf(k, t, a) => j = k
      /\ \A p \in parses, j \in jobs : ~(ParseOf(p, t, a) /\ JobOf(j, t, a))

\* Deletions are worked on for deleted documents only.
DeletionsAreLate ==
    doc # "DELETED" =>
      /\ \A p \in parses : p.action # "DELETE"
      /\ \A j \in jobs : j.action # "DELETE"

JobInvariant == SentIsHanded /\ SentOnce /\ DeletionsAreLate

\* A round that dies after sending, or a repeated delivery, gives one version
\* a second job.
NoRepetition == FaultKinds \cap {"abort", "redeliver"} = {}

LEMMA InitJobs == Init => JobInvariant
  <1> SUFFICES ASSUME Init PROVE JobInvariant
    OBVIOUS
  <1>1. parses = {} /\ jobs = {}
    BY DEF Init
  <1>2. QED
    BY <1>1 DEF JobInvariant, SentIsHanded, Sent, SentOnce, DeletionsAreLate

\* What the proofs use of the types.
LEMMA Typed ==
  ASSUME IndInv
  PROVE  /\ row \in [Types -> Row \cup {NoRow}]
         /\ rec \in [Reconcilers -> Round]
         /\ \A p \in parses : p \in Parse /\ p.types \subseteq Types
         /\ \A j \in jobs : j \in Job /\ j.type \in Types
  BY DEF IndInv, LockInv, TypeOK, Parse, Job

\* Steps that send nothing, write no row and close no claim that has sent.
LEMMA QuietJobs ==
  ASSUME JobInvariant, UNCHANGED <<row, parses, jobs>>,
         doc' # "DELETED" => doc # "DELETED",
         \A t \in Types : \A a \in Actions : Handed(t, a) => Handed(t, a)'
  PROVE  JobInvariant'
  <1>1. \A t : Exists(t)' <=> Exists(t)
    BY DEF Exists
  <1>2. \A t, a, v : Matters(t, a, v)' <=> Matters(t, a, v)
    BY DEF Matters, Exists
  <1>3. DeletionsAreLate' /\ SentOnce'
    BY <1>2 DEF JobInvariant, DeletionsAreLate, SentOnce, ParseOf, JobOf
  <1>4. SentIsHanded'
    BY <1>2 DEF JobInvariant, SentIsHanded, Sent, ParseOf, JobOf, Claimable
  <1>5. QED
    BY <1>3, <1>4 DEF JobInvariant

-----------------------------------------------------------------------------
(* Requests                                                                *)

\* A request that leaves no claimable row with work that matters.
LEMMA RequestJobs ==
  ASSUME JobInvariant, IndInv, UNCHANGED <<rec, parses, jobs>>,
         doc' = "DELETED" => doc # "NONE",
         doc # "DELETED",
         \A t \in Types :
           \/ row'[t] = row[t]
           \/ ~Exists(t)
           \/ Exists(t) /\ row'[t].version = row[t].version + 1
           \/ /\ Exists(t) /\ row'[t].version = row[t].version
              /\ row'[t].status = "DELETING"
  PROVE  JobInvariant'
  <1>1. DeletionsAreLate'
    BY DEF JobInvariant, DeletionsAreLate
  <1>2. ASSUME NEW t \in Types, NEW a \in Actions, NEW v, Matters(t, a, v)',
               a # "DELETE",
               \/ \E p \in parses : t \in p.types /\ v = p.ver[t]
               \/ \E j \in jobs : j.type = t /\ v = j.ver
        PROVE  Matters(t, a, v) /\ (Claimable(t, a)' => row'[t] = row[t])
    <2>1. Exists(t)
      BY <1>2 DEF IndInv, WorkHasRow
    <2>2. v <= row[t].version /\ v = row'[t].version
      BY <1>2, <2>1 DEF IndInv, WorkIsOfThePast, Matters
    <2>3. row[t].version \in Nat
      BY Typed DEF Row, NoRow
    <2>4. row'[t] = row[t] \/ (row'[t].version = row[t].version /\ row'[t].status = "DELETING")
      BY <2>1, <2>2, <2>3
    <2>5. QED
      BY <1>2, <2>1, <2>2, <2>4 DEF Matters, Claimable
  <1>3. ASSUME NEW t \in Types, NEW a \in Actions
        PROVE  /\ \A p \in parses : ParseOf(p, t, a)' =>
                    ParseOf(p, t, a) /\ (Claimable(t, a)' => row'[t] = row[t])
               /\ \A j \in jobs : JobOf(j, t, a)' =>
                    JobOf(j, t, a) /\ (Claimable(t, a)' => row'[t] = row[t])
    <2>1. \A p \in parses : p.action # "DELETE"
      BY DEF JobInvariant, DeletionsAreLate
    <2>2. \A j \in jobs : j.action # "DELETE"
      BY DEF JobInvariant, DeletionsAreLate
    <2>3. QED
      BY <1>2, <2>1, <2>2 DEF ParseOf, JobOf
  <1>4. SentOnce'
    BY <1>3 DEF SentOnce, JobInvariant
  <1>5. SentIsHanded'
    <2> SUFFICES ASSUME NEW t \in Types, NEW a \in Actions, Sent(t, a)', Claimable(t, a)'
                 PROVE  Handed(t, a)'
      BY DEF SentIsHanded
    <2>1. Sent(t, a) /\ row'[t] = row[t]
      BY <1>3 DEF Sent
    <2>2. Claimable(t, a)
      BY <2>1 DEF Claimable
    <2>3. QED
      BY <2>1, <2>2 DEF JobInvariant, SentIsHanded, Handed
  <1>6. QED
    BY <1>1, <1>4, <1>5 DEF JobInvariant

LEMMA ClientJobs ==
  ASSUME IndInv, JobInvariant, NEW c \in Clients, ClientStep(c)
  PROVE  JobInvariant'
  <1>1. UNCHANGED <<rec, parses, jobs>>
    BY DEF ClientStep, CreateDocument, UploadDocument, BeginConfirm, BeginRebuild,
           BeginRebuildFailed, BeginDelete, Begin, Commit, Rollback
  <1>2. CASE row' = row /\ (doc' = doc \/ doc = "NONE")
    <2>1. \A t, a : Handed(t, a) => Handed(t, a)'
      BY <1>1 DEF Handed
    <2>2. QED
      BY <1>1, <1>2, <2>1, QuietJobs
  <1>3. CASE CreateDocument(c)
    <2>1. doc = "NONE" /\ doc' = "PENDING"
      BY <1>3 DEF CreateDocument
    <2>2. \A t \in Types : ~Exists(t)
      BY <2>1 DEF IndInv, LockInv, NoDocumentNoRow
    <2>3. QED
      BY <1>1, <2>1, <2>2, RequestJobs
  <1>4. CASE Commit(c)
    <2>1. doc # "DELETED" /\ doc # "NONE"
      BY <1>4 DEF Commit, IndInv, DocWritersAgree, LockInv, NoDocumentNoRow
    <2>2. \A t \in Types :
            \/ row'[t] = row[t]
            \/ ~Exists(t)
            \/ Exists(t) /\ row'[t].version = row[t].version + 1
            \/ /\ Exists(t) /\ row'[t].version = row[t].version
               /\ row'[t].status = "DELETING"
      BY <1>4, CommittedRow
    <2>3. QED
      BY <1>1, <2>1, <2>2, RequestJobs
  <1>5. QED
    BY <1>2, <1>3, <1>4 DEF ClientStep, UploadDocument, BeginConfirm, BeginRebuild,
       BeginRebuildFailed, BeginDelete, Begin, Rollback

-----------------------------------------------------------------------------
(* Rounds                                                                  *)

LEMMA DispatchJobs ==
  ASSUME IndInv, JobInvariant, NEW r \in Reconcilers, NEW a \in Actions, Dispatch(r, a)
  PROVE  JobInvariant'
  <1> DEFINE T == {t \in Found(r) : rec[r].action[t] = a}
             k == [rec[r] EXCEPT !.todo = @ \ {a}]
             p == [id |-> NewId, action |-> a, types |-> T,
                   ver |-> [t \in Types |-> IF t \in T THEN rec[r].ver[t] ELSE 0],
                   retries |-> 0]
  <1>1. /\ rec[r].pc = "claimed" /\ a \in rec[r].todo
        /\ rec' = [rec EXCEPT ![r] = k] /\ UNCHANGED <<doc, row>>
        /\ \/ /\ a = "DELETE" /\ parses' = parses
              /\ jobs' = jobs \cup {NewJob(NewId, a, t, 0) : t \in T}
           \/ /\ a # "DELETE" /\ jobs' = jobs
              /\ parses' = parses \cup {p}
    BY DEF Dispatch
  <1>2. rec[r] \in Round /\ rec \in [Reconcilers -> Round]
    BY Typed
  <1>3. k.pc = rec[r].pc /\ k.action = rec[r].action /\ k.todo = rec[r].todo \ {a}
    BY <1>2 DEF Round
  <1>4. p.types = T /\ p.action = a
    OBVIOUS
  <1>5. T \subseteq Types /\ \A t \in T : rec[r].action[t] = a
    BY DEF Found
  <1>6. \A t \in Types : rec[r].action[t] = a => t \in T
    BY ConstantsAssumption DEF Found, Actions
  <1>7. \A t \in T : NewJob(NewId, a, t, 0).type = t /\ NewJob(NewId, a, t, 0).action = a
    BY DEF NewJob
  <1> HIDE DEF T, k, p
  <1>8. \A t, b, v : Matters(t, b, v)' <=> Matters(t, b, v)
    BY <1>1 DEF Matters, Exists
  <1>9. \A t \in Types : \A b \in Actions : Claimable(t, b)' <=> Claimable(t, b)
    BY <1>1 DEF Claimable
  \* Nothing that matters has been sent for the rows of the group.
  <1>10. ASSUME NEW t \in T
         PROVE  ~Sent(t, a) /\ Claimable(t, a)
    <2>1. Claimable(t, a)
      BY <1>1, <1>5 DEF IndInv, LockInv, HeldRowsKeep, Actions
    <2>2. ~Handed(t, a)
      <3> SUFFICES ASSUME NEW s \in Reconcilers, rec[s].pc = "claimed",
                          rec[s].action[t] = a
                   PROVE  s = r
        BY <1>1 DEF Handed
      <3>1. a # "NONE" /\ t \in Types
        BY <1>5 DEF Actions
      <3>2. QED
        BY <1>1, <1>5, <3>1 DEF IndInv, LockInv, LocksExclude
    <2>3. QED
      BY <1>5, <2>1, <2>2 DEF JobInvariant, SentIsHanded
  <1>11. \A t \in T : Handed(t, a)'
    <2>1. rec'[r] = k
      BY <1>1, <1>2
    <2>2. QED
      BY <1>1, <1>3, <1>5, <2>1 DEF Handed
  <1>12. ASSUME NEW t \in Types, NEW b \in Actions, Handed(t, b)
         PROVE  Handed(t, b)'
    <2>1. PICK s \in Reconcilers :
            rec[s].pc = "claimed" /\ rec[s].action[t] = b /\ b \notin rec[s].todo
      BY <1>12 DEF Handed
    <2>2. rec'[s] = IF s = r THEN k ELSE rec[s]
      BY <1>1, <1>2
    <2>3. QED
      BY <1>3, <2>1, <2>2 DEF Handed
  <1>13. \A q \in parses' : q \in parses \/ (q = p /\ a # "DELETE")
    BY <1>1
  <1>14. \A j \in jobs' : j \in jobs \/
           (j.action = a /\ a = "DELETE" /\ j.type \in T /\ j = NewJob(NewId, a, j.type, 0))
    BY <1>1, <1>7
  \* New work is about the rows of the group, once each.
  <1>15. ASSUME NEW t \in Types, NEW b \in Actions
         PROVE  /\ \A q \in parses' : ParseOf(q, t, b)' =>
                     (q \in parses /\ ParseOf(q, t, b))
                     \/ (q = p /\ a # "DELETE" /\ b = a /\ t \in T)
                /\ \A j \in jobs' : JobOf(j, t, b)' =>
                     (j \in jobs /\ JobOf(j, t, b))
                     \/ (j = NewJob(NewId, a, t, 0) /\ a = "DELETE" /\ b = a /\ t \in T)
    BY <1>4, <1>8, <1>13, <1>14 DEF ParseOf, JobOf
  <1>16. SentOnce'
    <2> SUFFICES ASSUME NEW t \in Types, NEW b \in Actions
                 PROVE  /\ \A q, s \in parses' :
                             ParseOf(q, t, b)' /\ ParseOf(s, t, b)' => q = s
                        /\ \A i, j \in jobs' : JobOf(i, t, b)' /\ JobOf(j, t, b)' => i = j
                        /\ \A q \in parses', j \in jobs' :
                             ~(ParseOf(q, t, b)' /\ JobOf(j, t, b)')
      BY DEF SentOnce
    <2>1. CASE b = a /\ t \in T
      <3>1. ~Sent(t, b)
        BY <1>10, <2>1
      <3>2. QED
        BY <1>15, <2>1, <3>1 DEF Sent
    <2>2. CASE ~(b = a /\ t \in T)
      <3>1. /\ \A q \in parses' : ParseOf(q, t, b)' => q \in parses /\ ParseOf(q, t, b)
            /\ \A j \in jobs' : JobOf(j, t, b)' => j \in jobs /\ JobOf(j, t, b)
        BY <1>15, <2>2
      <3>2. QED
        BY <3>1 DEF SentOnce, JobInvariant
    <2>3. QED
      BY <2>1, <2>2
  <1>17. SentIsHanded'
    <2> SUFFICES ASSUME NEW t \in Types, NEW b \in Actions, Sent(t, b)', Claimable(t, b)'
                 PROVE  Handed(t, b)'
      BY DEF SentIsHanded
    <2>1. CASE b = a /\ t \in T
      BY <1>11, <2>1
    <2>2. CASE ~(b = a /\ t \in T)
      <3>1. Sent(t, b)
        BY <1>15, <2>2 DEF Sent
      <3>2. Handed(t, b)
        BY <1>9, <3>1 DEF SentIsHanded, JobInvariant
      <3>3. QED
        BY <1>12, <3>2
    <2>3. QED
      BY <2>1, <2>2
  <1>18. DeletionsAreLate'
    <2>1. a = "DELETE" /\ T # {} => doc = "DELETED"
      <3> SUFFICES ASSUME a = "DELETE", NEW t \in T PROVE doc = "DELETED"
        OBVIOUS
      <3>1. row[t].status = "DELETING" /\ t \in Types
        BY <1>5, <1>10 DEF Claimable
      <3>2. QED
        BY <3>1 DEF IndInv, CondemnedIsDeleted
    <2>2. \A q \in parses' : q \in parses \/ q.action # "DELETE"
      BY <1>4, <1>13
    <2>3. \A j \in jobs' : j \in jobs \/ doc = "DELETED"
      BY <1>14, <2>1
    <2>4. QED
      BY <1>1, <2>2, <2>3 DEF DeletionsAreLate, JobInvariant
  <1>19. QED
    BY <1>16, <1>17, <1>18 DEF JobInvariant

LEMMA ClaimCommitJobs ==
  ASSUME IndInv, JobInvariant, NEW r \in Reconcilers, ClaimCommit(r)
  PROVE  JobInvariant'
  <1>1. /\ UNCHANGED <<doc, parses, jobs>>
        /\ \A s \in Reconcilers \ {r} : rec'[s] = rec[s]
    BY DEF ClaimCommit
  <1>2. ASSUME NEW t \in Types
        PROVE  /\ Exists(t)' <=> Exists(t)
               /\ row'[t].version = row[t].version
               /\ t \in Found(r) => \A a \in Actions : ~Claimable(t, a)'
               /\ t \notin Found(r) => row'[t] = row[t]
    BY ClaimedRow DEF IndInv, Exists, Row, IndexStatus, Claimable
  <1>3. \A t \in Types : \A a, v : Matters(t, a, v)' <=> Matters(t, a, v)
    BY <1>2 DEF Matters
  <1>4. DeletionsAreLate' /\ SentOnce'
    BY <1>1, <1>3 DEF JobInvariant, DeletionsAreLate, SentOnce, ParseOf, JobOf
  <1>5. SentIsHanded'
    <2> SUFFICES ASSUME NEW t \in Types, NEW a \in Actions, Sent(t, a)', Claimable(t, a)'
                 PROVE  Handed(t, a)'
      BY DEF SentIsHanded
    <2>1. t \notin Found(r) /\ row'[t] = row[t]
      BY <1>2
    <2>2. Sent(t, a)
      BY <1>1, <1>3 DEF Sent, ParseOf, JobOf
    <2>3. Claimable(t, a)
      BY <2>1 DEF Claimable
    <2>4. PICK s \in Reconcilers :
            rec[s].pc = "claimed" /\ rec[s].action[t] = a /\ a \notin rec[s].todo
      BY <2>2, <2>3 DEF SentIsHanded, JobInvariant, Handed
    <2>5. s # r
      BY <2>1, <2>4 DEF Found, Actions
    <2>6. QED
      BY <1>1, <2>4, <2>5 DEF Handed
  <1>6. QED
    BY <1>4, <1>5 DEF JobInvariant

LEMMA ReconcilerJobs ==
  ASSUME NoRepetition, IndInv, JobInvariant, NEW r \in Reconcilers, ReconcilerStep(r)
  PROVE  JobInvariant'
  <1>1. CASE Scan(r) \/ Claim(r)
    <2>1. /\ rec[r].pc # "claimed" /\ UNCHANGED <<doc, row, parses, jobs>>
          /\ \A s \in Reconcilers \ {r} : rec'[s] = rec[s]
      BY <1>1, Typed DEF Scan, Claim
    <2>2. \A t, a : Handed(t, a) => Handed(t, a)'
      BY <2>1 DEF Handed
    <2>3. QED
      BY <2>1, <2>2, QuietJobs
  <1>2. ~Abort(r)
    BY DEF Abort, Fault, NoRepetition
  <1>3. QED
    BY <1>1, <1>2, DispatchJobs, ClaimCommitJobs DEF ReconcilerStep

-----------------------------------------------------------------------------
(* Messages                                                                *)

SameWork(j, k) == k.type = j.type /\ k.action = j.action /\ k.ver = j.ver

\* A job that goes on or ends, and the row its callback writes.
LEMMA JobMoves ==
  ASSUME JobInvariant, NEW j \in jobs, NEW k, SameWork(j, k),
         j.type \in Types,
         UNCHANGED <<rec, parses>>, jobs' \subseteq (jobs \ {j}) \cup {k},
         doc' # "DELETED" => doc # "DELETED",
         \A t \in Types :
           \/ row'[t] = row[t]
           \/ /\ ~Exists(t)' \/ (row'[t].version = row[t].version /\ Exists(t))
              /\ row'[t].status \notin {"PENDING", "DELETING"}
  PROVE  JobInvariant'
  <1>1. \A t \in Types : \A a, v : Matters(t, a, v)' => Matters(t, a, v)
    BY DEF Matters, Exists
  <1>2. \A t \in Types : \A a :
          /\ \A p \in parses : ParseOf(p, t, a)' => ParseOf(p, t, a)
          /\ JobOf(k, t, a)' => JobOf(j, t, a)
          /\ \A l \in jobs : JobOf(l, t, a)' => JobOf(l, t, a)
    BY <1>1 DEF ParseOf, JobOf, SameWork
  <1>3. SentOnce'
    BY <1>2 DEF JobInvariant, SentOnce
  <1>4. DeletionsAreLate'
    BY DEF JobInvariant, DeletionsAreLate, SameWork
  <1>5. SentIsHanded'
    <2> SUFFICES ASSUME NEW t \in Types, NEW a \in Actions, Sent(t, a)', Claimable(t, a)'
                 PROVE  Handed(t, a)'
      BY DEF SentIsHanded
    <2>1. row'[t] = row[t]
      BY DEF Claimable
    <2>2. Sent(t, a)
      BY <1>2 DEF Sent
    <2>3. Claimable(t, a)
      BY <2>1 DEF Claimable
    <2>4. QED
      BY <2>2, <2>3 DEF JobInvariant, SentIsHanded, Handed
  <1>6. QED
    BY <1>3, <1>4, <1>5 DEF JobInvariant

\* The action of a job never changes.
LEMMA MovedWork ==
  ASSUME NEW j \in Job
  PROVE  /\ \A pc \in JobPc, D \in SUBSET Batches : SameWork(j, Moved(j, pc, D))
         /\ \A pc \in OpenPc : \A s : SameWork(j, Opened(j, pc, s))
         /\ SameWork(j, Failed(j))
  <1>1. ASSUME NEW pc \in JobPc, NEW D \in SUBSET Batches
        PROVE  SameWork(j, Moved(j, pc, D))
    <2> DEFINE k == [j EXCEPT !.pc = pc]
    <2>1. k \in Job /\ SameWork(j, k)
      BY DEF Job, SameWork
    <2>2. Moved(j, pc, D) = [k EXCEPT !.data = D]
      BY DEF Moved
    <2> HIDE DEF k
    <2>3. QED
      BY <2>1, <2>2 DEF Job, SameWork
  <1>2. ASSUME NEW pc \in OpenPc, NEW s
        PROVE  SameWork(j, Opened(j, pc, s))
    <2> DEFINE k == [j EXCEPT !.pc = pc]
               d == DocWrite(j.type, s)
    <2>1. k \in Job /\ SameWork(j, k)
      BY DEF Job, SameWork, JobPc
    <2>2. Opened(j, pc, s) = [k EXCEPT !.docTo = d]
      BY DEF Opened
    <2> HIDE DEF k, d
    <2>3. QED
      BY <2>1, <2>2 DEF Job, SameWork
  <1>3. SameWork(j, Failed(j))
    <2> DEFINE k == Moved(j, "start", {})
               l == [k EXCEPT !.retries = k.retries + 1]
    <2>1. k \in Job /\ SameWork(j, k) /\ SameWork(j, Moved(j, "failing", {}))
      BY <1>1, MovedJob DEF JobPc
    <2>2. Failed(j) \in {l, Moved(j, "failing", {})}
      BY DEF Failed
    <2> HIDE DEF k
    <2>3. SameWork(j, l)
      BY <2>1 DEF Job, SameWork
    <2>4. QED
      BY <2>1, <2>2, <2>3
  <1>4. QED
    BY <1>1, <1>2, <1>3

LEMMA JobJobs ==
  ASSUME NoRepetition, IndInv, JobInvariant,
         NEW j \in jobs, JobStep(j) \/ Lose(j) \/ Redeliver(j)
  PROVE  JobInvariant'
  <1>0. j \in Job /\ j.type \in Types
    BY Typed
  <1>1. UNCHANGED <<rec, parses>>
    BY DEF JobStep, Lose, Redeliver, Validate, CreateIndex, ReadOldIndex,
       ReplaceIndex, DeleteIndex, AttemptFails, OnIndexCreated, OnIndexDeleted,
       OnIndexFailed, Callback, CallbackCommit
  <1>2. ~Redeliver(j)
    BY DEF Redeliver, Fault, NoRepetition
  <1>3. SameWork(j, j)
    BY DEF SameWork
  <1>4. CASE CallbackCommit(j)
    <2>1. jobs' = jobs \ {j} /\ j.pc \in OpenPc
          /\ doc' = IF j.docTo = "NONE" THEN doc ELSE j.docTo
      BY <1>4 DEF CallbackCommit
    <2>2. doc' # "DELETED" => doc # "DELETED"
      BY <2>1 DEF IndInv, DocWritersAgree
    <2>3. \A t \in Types :
            \/ row'[t] = row[t]
            \/ /\ ~Exists(t)' \/ (row'[t].version = row[t].version /\ Exists(t))
               /\ row'[t].status \notin {"PENDING", "DELETING"}
      BY <1>4, CallbackRow DEF IndInv, Exists, NoRow
    <2>4. QED
      BY <1>0, <1>1, <1>3, <2>1, <2>2, <2>3, JobMoves
  <1>5. CASE ~CallbackCommit(j)
    <2>1. UNCHANGED <<doc, row>>
      BY <1>2, <1>5 DEF JobStep, Lose, Validate, CreateIndex, ReadOldIndex,
         ReplaceIndex, DeleteIndex, AttemptFails, OnIndexCreated, OnIndexDeleted,
         OnIndexFailed, Callback
    <2>2. PICK k : SameWork(j, k) /\ jobs' \subseteq (jobs \ {j}) \cup {k}
      <3>1. ASSUME NEW pc \in JobPc, NEW D \in SUBSET Batches, Replace(j, Moved(j, pc, D))
            PROVE  \E k : SameWork(j, k) /\ jobs' \subseteq (jobs \ {j}) \cup {k}
        BY <1>0, <3>1, MovedWork DEF Replace
      <3>2. ASSUME NEW m, NEW pc \in OpenPc, NEW s, Callback(j, m, pc, s)
            PROVE  \E k : SameWork(j, k) /\ jobs' \subseteq (jobs \ {j}) \cup {k}
        <4>1. jobs' \subseteq (jobs \ {j}) \cup {Opened(j, pc, s)}
          BY <3>2 DEF Callback, Replace
        <4>2. QED
          BY <1>0, <4>1, MovedWork
      <3>3. {"valid", "stored", "replacing", "removed"} \subseteq JobPc
        BY DEF JobPc
      <3>4. FreeBatches # {} => {NewBatch} \in SUBSET Batches
        BY NewBatchType
      <3>5. row[j.type].data \in SUBSET Batches
        BY <1>0, Typed DEF Row, NoRow
      <3>6. CASE Validate(j)
        BY <1>3, <3>1, <3>3, <3>6 DEF Validate
      <3>7. CASE CreateIndex(j) \/ ReplaceIndex(j)
        BY <3>1, <3>3, <3>4, <3>7 DEF CreateIndex, ReplaceIndex
      <3>8. CASE ReadOldIndex(j) \/ DeleteIndex(j)
        BY <3>1, <3>3, <3>5, <3>8 DEF ReadOldIndex, DeleteIndex
      <3>9. CASE AttemptFails(j)
        BY <1>0, <3>9, MovedWork DEF AttemptFails, Replace
      <3>10. CASE OnIndexCreated(j)
        BY <3>2, <3>10, Zenon DEF OnIndexCreated, OpenPc
      <3>11. CASE OnIndexDeleted(j)
        BY <3>2, <3>11, Zenon DEF OnIndexDeleted, OpenPc
      <3>12. CASE OnIndexFailed(j)
        BY <3>2, <3>12, Zenon DEF OnIndexFailed, OpenPc
      <3>13. CASE Lose(j)
        BY <1>3, <3>13 DEF Lose
      <3>14. QED
        BY <1>2, <1>5, <3>6, <3>7, <3>8, <3>9, <3>10, <3>11, <3>12, <3>13 DEF JobStep
    <2>3. QED
      BY <1>0, <1>1, <2>1, <2>2, JobMoves
  <1>6. QED
    BY <1>4, <1>5

LEMMA ParseJobs ==
  ASSUME IndInv, JobInvariant, NEW p \in parses, ParseStep(p)
  PROVE  JobInvariant'
  <1>1. UNCHANGED <<doc, row, rec>> /\ p \in Parse
    BY Typed DEF ParseStep, ParseSucceeds, ParseFails
  <1>2. \A t, a, v : Matters(t, a, v)' <=> Matters(t, a, v)
    BY <1>1 DEF Matters, Exists
  <1>3. \A t \in Types : \A a \in Actions :
          /\ Claimable(t, a)' <=> Claimable(t, a)
          /\ Handed(t, a)' <=> Handed(t, a)
    BY <1>1 DEF Claimable, Handed
  <1>4. p.action # "DELETE"
    BY <1>1 DEF Parse
  <1>5. CASE p.retries < MaxRetries /\ ParseFails(p)
    <2> DEFINE q == [p EXCEPT !.retries = @ + 1]
    <2>1. q.types = p.types /\ q.action = p.action /\ q.ver = p.ver
      BY <1>1 DEF Parse
    <2>2. parses' = (parses \ {p}) \cup {q} /\ jobs' = jobs
      BY <1>5 DEF ParseFails
    <2> HIDE DEF q
    <2>3. \A t, a : /\ ParseOf(q, t, a)' => ParseOf(p, t, a)
                    /\ \A o \in parses : ParseOf(o, t, a)' => ParseOf(o, t, a)
                    /\ \A j \in jobs : JobOf(j, t, a)' => JobOf(j, t, a)
      BY <1>2, <2>1 DEF ParseOf, JobOf
    <2>4. SentOnce'
      BY <2>2, <2>3 DEF SentOnce, JobInvariant
    <2>5. \A t, a : Sent(t, a)' => Sent(t, a)
      BY <2>2, <2>3 DEF Sent
    <2>6. SentIsHanded'
      BY <1>3, <2>5 DEF SentIsHanded, JobInvariant
    <2>7. DeletionsAreLate'
      BY <1>1, <1>4, <2>1, <2>2 DEF DeletionsAreLate, JobInvariant
    <2>8. QED
      BY <2>4, <2>6, <2>7 DEF JobInvariant
  <1>6. CASE ~(p.retries < MaxRetries /\ ParseFails(p))
    <2>1. PICK New \in [p.types -> jobs'] :
            /\ \A t \in p.types : New[t].type = t /\ New[t].action = p.action
                                  /\ New[t].ver = p.ver[t]
            /\ parses' = parses \ {p}
            /\ jobs' = jobs \cup {New[t] : t \in p.types}
      <3>1. CASE ParseSucceeds(p)
        <4> DEFINE N == [t \in p.types |-> NewJob(p.id, p.action, t, p.ver[t])]
        <4>1. N \in [p.types -> jobs'] /\ jobs' = jobs \cup {N[t] : t \in p.types}
          BY <3>1 DEF ParseSucceeds
        <4>2. \A t \in p.types : N[t].type = t /\ N[t].action = p.action /\ N[t].ver = p.ver[t]
          BY DEF NewJob
        <4> HIDE DEF N
        <4>3. QED
          BY <3>1, <4>1, <4>2 DEF ParseSucceeds
      <3>2. CASE ParseFails(p)
        <4> DEFINE N == [t \in p.types |-> GivenUp(p, t)]
        <4>1. N \in [p.types -> jobs'] /\ jobs' = jobs \cup {N[t] : t \in p.types}
              /\ parses' = parses \ {p}
          BY <1>6, <3>2 DEF ParseFails
        <4>2. ASSUME NEW t \in p.types
              PROVE  N[t].type = t /\ N[t].action = p.action /\ N[t].ver = p.ver[t]
          <5> DEFINE k == NewJob(p.id, p.action, t, p.ver[t])
                     l == [k EXCEPT !.pc = "failing"]
                     m == [l EXCEPT !.retries = p.retries]
          <5>1. k \in Job /\ k.type = t /\ k.ver = p.ver[t] /\ k.action = p.action
            BY <1>1, NewJobType DEF Parse, Actions, NewJob
          <5>2. N[t] = m
            BY DEF GivenUp
          <5> HIDE DEF N, k
          <5>3. l \in Job /\ l.type = k.type /\ l.ver = k.ver /\ l.action = k.action
            BY <5>1 DEF Job, JobPc
          <5> HIDE DEF l
          <5>4. m.type = l.type /\ m.ver = l.ver /\ m.action = l.action
            BY <5>3 DEF Job
          <5>5. QED
            BY <5>1, <5>2, <5>3, <5>4
        <4> HIDE DEF N
        <4>3. QED
          BY <4>1, <4>2
      <3>3. QED
        BY <3>1, <3>2 DEF ParseStep
    <2>2. ASSUME NEW t \in Types, NEW a \in Actions
          PROVE  /\ \A q \in parses' : ParseOf(q, t, a)' => ParseOf(q, t, a) /\ q # p
                 /\ \A j \in jobs' : JobOf(j, t, a)' =>
                      (j \in jobs /\ JobOf(j, t, a)) \/ (j = New[t] /\ ParseOf(p, t, a))
      BY <1>2, <2>1 DEF ParseOf, JobOf
    <2>3. SentOnce'
      BY <2>1, <2>2 DEF SentOnce, JobInvariant
    <2>4. \A t \in Types : \A a \in Actions : Sent(t, a)' => Sent(t, a)
      BY <2>1, <2>2 DEF Sent
    <2>5. SentIsHanded'
      BY <1>3, <2>4 DEF SentIsHanded, JobInvariant
    <2>6. DeletionsAreLate'
      <3>1. \A j \in jobs' : j \in jobs \/ j.action # "DELETE"
        BY <1>4, <2>1
      <3>2. QED
        BY <1>1, <2>1, <3>1 DEF DeletionsAreLate, JobInvariant
    <2>7. QED
      BY <2>3, <2>5, <2>6 DEF JobInvariant
  <1>7. QED
    BY <1>5, <1>6

-----------------------------------------------------------------------------
(* One job per current version                                             *)

LEMMA JobInvariance ==
  ASSUME SingleClient, NoExpiry, NoRepetition
  PROVE  Spec => []JobInvariant
  <1>1. IndInv /\ JobInvariant /\ [Next]_vars => JobInvariant'
    <2> SUFFICES ASSUME IndInv, JobInvariant, [Next]_vars PROVE JobInvariant'
      OBVIOUS
    <2>1. CASE UNCHANGED vars
      <3>1. UNCHANGED <<doc, row, rec, parses, jobs>>
        BY <2>1 DEF vars
      <3>2. \A t, a : Handed(t, a) => Handed(t, a)'
        BY <3>1 DEF Handed
      <3>3. QED
        BY <3>1, <3>2, QuietJobs
    <2>2. CASE CleanupScan \/ CleanupCommit
      BY <2>2, CleanupInv
    <2>3. QED
      BY <2>1, <2>2, ClientJobs, ReconcilerJobs, ParseJobs, JobJobs DEF Next
  <1>2. QED
    BY <1>1, InitJobs, Invariance, PTL DEF Spec

\* The current version of an index is worked on by one job, when no round dies
\* between its messages and its commit, and no message is repeated: the
\* conditional UPDATE of _claim_document_indexes lets one of the reconcilers
\* that read the same row dispatch it, for good.
THEOREM JobsAreAlone ==
  ASSUME SingleClient, NoExpiry, NoRepetition
  PROVE  Spec => []OneJobPerCurrentVersion
  <1>1. IndInv /\ JobInvariant => OneJobPerCurrentVersion
    <2> SUFFICES ASSUME IndInv, JobInvariant, NEW j \in jobs, NEW k \in jobs,
                        j.type = k.type, j.action = k.action, j.ver = k.ver,
                        Matters(j.type, j.action, j.ver)
                 PROVE  j = k
      BY DEF OneJobPerCurrentVersion
    <2>1. j.type \in Types /\ j.action \in Actions
      BY Typed DEF Job
    <2>2. JobOf(j, j.type, j.action) /\ JobOf(k, j.type, j.action)
      BY DEF JobOf
    <2>3. QED
      BY <2>1, <2>2 DEF JobInvariant, SentOnce
  <1>2. QED
    BY <1>1, Invariance, JobInvariance, PTL

=============================================================================
